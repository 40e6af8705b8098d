------------------------------- MODULE MCProc -------------------------------
(* Instances of Proc for TLC: init, a process that may have two sub threads, *)
(* and a process without.                                                    *)
EXTENDS Proc

CONSTANTS P0, P1, P2

MCPeriod == [t \in {} |-> 1]
MCMain   == [p \in Procs |-> CASE p = P0 -> 1 [] p = P1 -> 2 [] p = P2 -> 3]
MCSubOf  == [t \in Threads \ {1, 2, 3} |-> P1]
=============================================================================
