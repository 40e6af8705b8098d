----------------------------- MODULE Selection -----------------------------
(***************************************************************************)
(* A walk over a list that keeps some of its elements.  Selection(q, I) is *)
(* what SelectSeq would give for the test "the index is in I", written     *)
(* without recursion, so that it can be reasoned about: its k-th element   *)
(* is the one with k - 1 kept elements before it.                          *)
(***************************************************************************)
EXTENDS Integers, Sequences, FiniteSets

\* The kept indices before i.
Earlier(I, i) == {j \in I : j < i}

\* The k-th of the indices I.
Place(I, k) == CHOOSE i \in I : Cardinality(Earlier(I, i)) = k - 1

Selection(q, I) == [k \in 1 .. Cardinality(I) |-> q[Place(I, k)]]

Elems(s) == {s[i] : i \in DOMAIN s}

\* A list without the elements of T.
Without(s, T) == Selection(s, {i \in DOMAIN s : s[i] \notin T})
=============================================================================
