----------------------------- MODULE MCSndRing ------------------------------
(* SndRing with a ring of two periods of two units. *)
EXTENDS SndRing
=============================================================================
