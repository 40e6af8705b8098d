------------------------------ MODULE MCAuIpc ------------------------------
(***************************************************************************)
(* Instances of AuIpc for TLC.                                             *)
(***************************************************************************)
EXTENDS AuIpcRefines, TLC

CONSTANTS S1, S2, C1, C2, s1, s2, c1, c2

\* One thread per process; S1 and S2 are daemons, C1 and C2 applications.
MCProcOf == [t \in Threads |-> CASE t = s1 -> S1 [] t = s2 -> S2 [] t = c1 -> C1 [] t = c2 -> C2]
============================================================================
