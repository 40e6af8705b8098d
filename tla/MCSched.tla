------------------------------- MODULE MCSched -------------------------------
(* Instances of Sched for TLC: the reservations of the real-time threads.    *)
EXTENDS Sched

MCPeriod == [t \in RealTime |-> IF t = 1 THEN 2 ELSE 6]
MCWcet   == [t \in RealTime |-> IF t = 1 THEN {1} ELSE {3, 4}]
=============================================================================
