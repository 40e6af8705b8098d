------------------------------ MODULE MCSvcMgr ------------------------------
(* Instances of SvcMgr for TLC: the pids of a small process table, and the  *)
(* selection of a list's elements against the one of the Sequences module.  *)
EXTENDS SvcMgr

MCPids == 1 .. 5

ASSUME SelectionIsSelectSeq ==
    \A n \in 0 .. 4 : \A q \in [1 .. n -> {1, 2, 3}] : \A S \in SUBSET {1, 2, 3} :
        Selection(q, {i \in 1 .. n : q[i] \in S}) = SelectSeq(q, LAMBDA x : x \in S)
=============================================================================
