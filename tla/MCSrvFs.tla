------------------------------ MODULE MCSrvFs ------------------------------
(***************************************************************************)
(* Instances of SrvFs for TLC: a file server of one thread, and            *)
(* applications of one thread each.                                        *)
(***************************************************************************)
EXTENDS SrvFs, TLC

CONSTANTS S1, C1, C2, C3, s1, c1, c2, c3

MCProcOf == [t \in Threads |-> CASE t = s1 -> S1 [] t = c1 -> C1 [] t = c2 -> C2 [] t = c3 -> C3]

\* One application writes, the other one reads and keeps house.
MCUses == [t \in Users |-> IF t = c1 THEN {"write", "open", "remove"}
                           ELSE {"read", "dir", "readdir", "remove"}]

MCUsesStuck == [t \in Users |-> {"write", "open"}]
============================================================================
