---------------------------- MODULE MCGpuProxy ------------------------------
(* GpuProxy on a small screen. *)
EXTENDS GpuProxy
=============================================================================
