-------------------------- MODULE SelectionProofs --------------------------
(***************************************************************************)
(* What a selection of a sequence's elements keeps: every selected element *)
(* once, in the order of the sequence, and no other.                       *)
(***************************************************************************)
EXTENDS Selection, FiniteSetTheorems, SequenceTheorems, TLAPS

\* The selected indices are numbered without gaps, in their order.
LEMMA Places ==
    ASSUME NEW n \in Nat, NEW I \in SUBSET (1 .. n)
    PROVE  /\ Cardinality(I) \in Nat
           /\ \A k \in 1 .. Cardinality(I) : Place(I, k) \in I
           /\ \A i \in I : \E k \in 1 .. Cardinality(I) : Place(I, k) = i
           /\ \A k, l \in 1 .. Cardinality(I) : k < l => Place(I, k) < Place(I, l)
<1> DEFINE m == Cardinality(I)
           c == [i \in I |-> Cardinality(Earlier(I, i)) + 1]
<1>1. IsFiniteSet(I) /\ m \in Nat
  <2>1. IsFiniteSet(1 .. n)
    BY FS_Interval
  <2>2. IsFiniteSet(I)
    BY <2>1, FS_Subset
  <2> QED
    BY <2>2, FS_CardinalityType
<1>2. ASSUME NEW i \in I
      PROVE  /\ IsFiniteSet(Earlier(I, i)) /\ Cardinality(Earlier(I, i)) \in Nat
             /\ Cardinality(Earlier(I, i)) < m
  <2>1. Earlier(I, i) \in SUBSET I /\ i \notin Earlier(I, i)
    BY DEF Earlier
  <2>2. IsFiniteSet(Earlier(I, i)) /\ Cardinality(Earlier(I, i)) \in Nat
    BY <1>1, <2>1, FS_Subset, FS_CardinalityType
  <2>3. Cardinality(Earlier(I, i)) <= m /\ Cardinality(Earlier(I, i)) # m
    BY <1>1, <2>1, FS_Subset
  <2> QED
    BY <1>1, <2>2, <2>3
<1>3. ASSUME NEW i \in I, NEW j \in I, i < j PROVE c[i] < c[j]
  <2>1. Earlier(I, i) \in SUBSET Earlier(I, j)
    <3>1. i \in Nat /\ j \in Nat /\ \A x \in I : x \in Nat
      OBVIOUS
    <3>2. \A x \in I : x < i => x < j
      BY <1>3, <3>1
    <3> QED
      BY <3>2 DEF Earlier
  <2>2. i \in Earlier(I, j) /\ i \notin Earlier(I, i)
    BY <1>3 DEF Earlier
  <2>3. /\ Cardinality(Earlier(I, i)) <= Cardinality(Earlier(I, j))
        /\ Cardinality(Earlier(I, i)) # Cardinality(Earlier(I, j))
    BY <1>2, <2>1, <2>2, FS_Subset
  <2> QED
    BY <1>2, <2>3
<1>4. c \in [I -> 1 .. m]
  BY <1>1, <1>2
<1>5. ASSUME NEW i \in I, NEW j \in I, c[i] = c[j] PROVE i = j
  <2>1. ~(i < j) /\ ~(j < i)
    BY <1>3, <1>4, <1>5
  <2> QED
    BY <2>1
<1>6. c \in Surjection(I, 1 .. m)
  <2>1. c \in Injection(I, 1 .. m)
    BY <1>4, <1>5 DEF Injection, IsInjective
  <2>2. IsFiniteSet(1 .. m) /\ Cardinality(1 .. m) = m
    BY <1>1, FS_Interval
  <2> HIDE DEF c, m
  <2> QED
    BY <2>1, <2>2, FS_Injection DEF m
<1>7. ASSUME NEW k \in 1 .. m PROVE Place(I, k) \in I /\ c[Place(I, k)] = k
  <2>1. \E i \in I : c[i] = k
    BY <1>6 DEF Surjection
  <2>2. \E i \in I : Cardinality(Earlier(I, i)) = k - 1
    BY <1>1, <1>2, <2>1
  <2>3. Place(I, k) \in I /\ Cardinality(Earlier(I, Place(I, k))) = k - 1
    BY <2>2 DEF Place
  <2> QED
    BY <1>1, <2>3
<1> HIDE DEF c
<1>8. ASSUME NEW i \in I PROVE \E k \in 1 .. m : Place(I, k) = i
  BY <1>4, <1>5, <1>7
<1>9. ASSUME NEW k \in 1 .. m, NEW l \in 1 .. m, k < l PROVE Place(I, k) < Place(I, l)
  <2>1. Place(I, k) # Place(I, l) /\ ~(Place(I, l) < Place(I, k))
    <3>1. /\ Place(I, k) \in I /\ c[Place(I, k)] = k
          /\ Place(I, l) \in I /\ c[Place(I, l)] = l
      BY <1>7
    <3>2. Place(I, l) < Place(I, k) => l < k
      BY <1>3, <3>1
    <3>3. k # l /\ ~(l < k)
      BY <1>1, <1>9
    <3> QED
      BY <3>1, <3>2, <3>3
  <2>2. Place(I, k) \in 1 .. n /\ Place(I, l) \in 1 .. n
    BY <1>7
  <2> QED
    BY <2>1, <2>2
<1> QED
  BY <1>1, <1>7, <1>8, <1>9

\* A non-empty set of indices has a least one.
LEMMA LeastOf ==
    ASSUME NEW n \in Nat, NEW I \in SUBSET (1 .. n), I # {}
    PROVE  \E i \in I : \A j \in I : i <= j
<1>1. /\ Cardinality(I) \in Nat
      /\ \A k \in 1 .. Cardinality(I) : Place(I, k) \in I
      /\ \A i \in I : \E k \in 1 .. Cardinality(I) : Place(I, k) = i
      /\ \A k, l \in 1 .. Cardinality(I) : k < l => Place(I, k) < Place(I, l)
  BY Places
<1>2. 1 \in 1 .. Cardinality(I)
  <2>1. PICK i \in I : TRUE
    OBVIOUS
  <2>2. PICK k \in 1 .. Cardinality(I) : Place(I, k) = i
    BY <1>1, <2>1
  <2> QED
    BY <1>1, <2>2
<1>3. ASSUME NEW j \in I PROVE Place(I, 1) <= j
  <2>1. PICK k \in 1 .. Cardinality(I) : Place(I, k) = j
    BY <1>1
  <2>2. k \in Nat /\ (k = 1 \/ 1 < k)
    OBVIOUS
  <2>3. Place(I, 1) \in 1 .. n /\ j \in 1 .. n
    BY <1>1, <1>2
  <2>4. 1 < k => Place(I, 1) < Place(I, k)
    BY <1>1, <1>2
  <2> QED
    BY <2>1, <2>2, <2>3, <2>4
<1> QED
  BY <1>1, <1>2, <1>3

\* A selection is a sequence of elements of q: each selected one, and no other.
LEMMA SelectionIs ==
    ASSUME NEW S, NEW q \in Seq(S), NEW I \in SUBSET DOMAIN q
    PROVE  /\ Selection(q, I) \in Seq(S)
           /\ DOMAIN Selection(q, I) = 1 .. Cardinality(I)
           /\ \A k \in DOMAIN Selection(q, I) :
                 Place(I, k) \in I /\ Selection(q, I)[k] = q[Place(I, k)]
           /\ \A i \in I : \E k \in DOMAIN Selection(q, I) : Place(I, k) = i
           /\ \A k, l \in DOMAIN Selection(q, I) : k < l => Place(I, k) < Place(I, l)
<1> DEFINE m == Cardinality(I)
           r == Selection(q, I)
<1>1. Len(q) \in Nat /\ DOMAIN q = 1 .. Len(q) /\ \A i \in DOMAIN q : q[i] \in S
  BY LenProperties, ElementOfSeq
<1>2. /\ m \in Nat
      /\ \A k \in 1 .. m : Place(I, k) \in I
      /\ \A i \in I : \E k \in 1 .. m : Place(I, k) = i
      /\ \A k, l \in 1 .. m : k < l => Place(I, k) < Place(I, l)
  BY <1>1, Places
<1>3. DOMAIN r = 1 .. m /\ \A k \in 1 .. m : r[k] = q[Place(I, k)]
  BY DEF Selection
<1>4. r \in Seq(S)
  <2>1. r \in [1 .. m -> S]
    BY <1>1, <1>2 DEF Selection
  <2> HIDE DEF r, m
  <2> QED
    BY <1>2, <2>1
<1> QED
  BY <1>2, <1>3, <1>4
-----------------------------------------------------------------------------
(* The elements of a list, and its last one *)

Simple(s) == \A i, j \in DOMAIN s : s[i] = s[j] => i = j

\* The last element of a list that has any.
LastIs(s, t) == s # <<>> /\ s[Len(s)] = t

\* A walk over a list keeps no element twice, and the last one last.
LEMMA SelectedElems ==
    ASSUME NEW S, NEW s \in Seq(S), NEW I \in SUBSET DOMAIN s
    PROVE  /\ Selection(s, I) \in Seq(S)
           /\ Elems(Selection(s, I)) = {s[i] : i \in I}
           /\ Simple(s) => Simple(Selection(s, I))
           /\ \A t : LastIs(s, t) /\ Len(s) \in I => LastIs(Selection(s, I), t)
<1> DEFINE r == Selection(s, I)
           m == Cardinality(I)
<1>1. /\ r \in Seq(S) /\ DOMAIN r = 1 .. m
      /\ \A p \in DOMAIN r : Place(I, p) \in I /\ r[p] = s[Place(I, p)]
      /\ \A i \in I : \E p \in DOMAIN r : Place(I, p) = i
      /\ \A p, l \in DOMAIN r : p < l => Place(I, p) < Place(I, l)
  BY SelectionIs
<1>2. /\ DOMAIN s = 1 .. Len(s) /\ Len(s) \in Nat
      /\ DOMAIN r = 1 .. Len(r) /\ Len(r) \in Nat
  BY <1>1, LenProperties
<1> HIDE DEF r, m
<1>3. Elems(r) = {s[i] : i \in I}
  <2>1. ASSUME NEW p \in DOMAIN r PROVE r[p] \in {s[i] : i \in I}
    BY <1>1
  <2>2. ASSUME NEW i \in I PROVE s[i] \in Elems(r)
    BY <1>1 DEF Elems
  <2> QED
    BY <2>1, <2>2 DEF Elems
<1>4. ASSUME Simple(s) PROVE Simple(r)
  <2>1. ASSUME NEW i \in DOMAIN r, NEW j \in DOMAIN r, r[i] = r[j] PROVE i = j
    <3>1. Place(I, i) = Place(I, j)
      BY <1>1, <1>4, <2>1 DEF Simple
    <3>2. i \in Nat /\ j \in Nat /\ Place(I, i) \in Nat
      BY <1>1, <1>2
    <3> QED
      BY <1>1, <3>1, <3>2
  <2> QED
    BY <2>1 DEF Simple
<1>5. ASSUME NEW t, LastIs(s, t), Len(s) \in I PROVE LastIs(r, t)
  <2>1. PICK p \in DOMAIN r : Place(I, p) = Len(s)
    BY <1>1, <1>5
  <2>2. p = Len(r)
    <3>1. CASE p < Len(r)
      <4>1. Len(r) \in DOMAIN r
        BY <1>2, <2>1
      <4>2. Place(I, p) < Place(I, Len(r)) /\ Place(I, Len(r)) \in 1 .. Len(s)
        BY <1>1, <1>2, <3>1, <4>1
      <4> QED
        BY <1>2, <2>1, <4>2
    <3> QED
      BY <1>2, <3>1
  <2>3. r # <<>>
    BY <1>2, <2>1
  <2> QED
    BY <1>1, <1>5, <2>1, <2>2, <2>3 DEF LastIs
<1> QED
  BY <1>1, <1>3, <1>4, <1>5 DEF r

\* A list without some elements.
LEMMA WithoutIs ==
    ASSUME NEW S, NEW s \in Seq(S), NEW T
    PROVE  /\ Without(s, T) \in Seq(S)
           /\ Elems(Without(s, T)) = Elems(s) \ T
           /\ Simple(s) => Simple(Without(s, T))
           /\ \A t : LastIs(s, t) /\ t \notin T => LastIs(Without(s, T), t)
<1> DEFINE I == {i \in DOMAIN s : s[i] \notin T}
<1>1. Elems(s) \ T = {s[i] : i \in I}
  BY DEF Elems
<1>2. ASSUME NEW t, LastIs(s, t), t \notin T PROVE Len(s) \in I
  <2>1. DOMAIN s = 1 .. Len(s) /\ Len(s) \in Nat /\ Len(s) # 0
    BY <1>2, LenProperties, EmptySeq DEF LastIs
  <2> QED
    BY <1>2, <2>1 DEF LastIs
<1> QED
  BY <1>1, <1>2, SelectedElems DEF Without

\* A list with an element behind.
LEMMA AppendIs ==
    ASSUME NEW S, NEW s \in Seq(S), NEW t \in S
    PROVE  /\ Append(s, t) \in Seq(S)
           /\ Elems(Append(s, t)) = Elems(s) \cup {t}
           /\ Simple(s) /\ t \notin Elems(s) => Simple(Append(s, t))
           /\ LastIs(Append(s, t), t)
<1> DEFINE r == Append(s, t)
           n == Len(s)
<1>1. /\ r \in Seq(S) /\ n \in Nat /\ Len(r) = n + 1 /\ DOMAIN s = 1 .. n
      /\ DOMAIN r = 1 .. n + 1
      /\ \A i \in 1 .. n : r[i] = s[i]
      /\ r[n + 1] = t
  BY AppendProperties, LenProperties
<1> HIDE DEF r, n
<1>2. DOMAIN r = DOMAIN s \cup {n + 1} /\ n + 1 \notin DOMAIN s
  BY <1>1
<1>3. Elems(r) = Elems(s) \cup {t}
  BY <1>1, <1>2 DEF Elems
<1>4. ASSUME Simple(s), t \notin Elems(s) PROVE Simple(r)
  BY <1>1, <1>2, <1>4 DEF Simple, Elems
<1>5. LastIs(r, t)
  BY <1>1 DEF LastIs
<1> QED
  BY <1>1, <1>3, <1>4, <1>5 DEF r

\* Two lists in a row.
LEMMA ConcatIs ==
    ASSUME NEW S, NEW s \in Seq(S), NEW u \in Seq(S)
    PROVE  /\ s \o u \in Seq(S)
           /\ Elems(s \o u) = Elems(s) \cup Elems(u)
           /\ Simple(s) /\ Simple(u) /\ Elems(s) \cap Elems(u) = {} => Simple(s \o u)
<1> DEFINE r == s \o u
           n == Len(s)
           m == Len(u)
<1>1. /\ r \in Seq(S) /\ n \in Nat /\ m \in Nat /\ DOMAIN s = 1 .. n /\ DOMAIN u = 1 .. m
      /\ DOMAIN r = 1 .. n + m
      /\ \A i \in 1 .. n + m : r[i] = IF i <= n THEN s[i] ELSE u[i - n]
  BY ConcatProperties, LenProperties
<1> HIDE DEF r, n, m
<1>2. \A i \in DOMAIN r : \/ i \in DOMAIN s /\ r[i] = s[i]
                          \/ i - n \in DOMAIN u /\ i \notin DOMAIN s /\ r[i] = u[i - n]
  BY <1>1
<1>3. \A i \in DOMAIN s : i \in DOMAIN r /\ r[i] = s[i]
  BY <1>1
<1>4. \A i \in DOMAIN u : i + n \in DOMAIN r /\ r[i + n] = u[i]
  BY <1>1
<1>5. Elems(r) = Elems(s) \cup Elems(u)
  BY <1>2, <1>3, <1>4 DEF Elems
<1>6. ASSUME Simple(s), Simple(u), Elems(s) \cap Elems(u) = {} PROVE Simple(r)
  <2>1. ASSUME NEW i \in DOMAIN r, NEW j \in DOMAIN r, r[i] = r[j] PROVE i = j
    <3>1. CASE i \in DOMAIN s /\ j \in DOMAIN s
      BY <1>3, <1>6, <2>1, <3>1 DEF Simple
    <3>2. CASE i \in DOMAIN s /\ j \notin DOMAIN s
      BY <1>2, <1>3, <1>6, <2>1, <3>2 DEF Elems
    <3>3. CASE i \notin DOMAIN s /\ j \in DOMAIN s
      BY <1>2, <1>3, <1>6, <2>1, <3>3 DEF Elems
    <3>4. CASE i \notin DOMAIN s /\ j \notin DOMAIN s
      <4>1. i - n = j - n
        BY <1>2, <1>6, <2>1, <3>4 DEF Simple
      <4> QED
        BY <1>1, <4>1
    <3> QED
      BY <3>1, <3>2, <3>3, <3>4
  <2> QED
    BY <2>1 DEF Simple
<1> QED
  BY <1>1, <1>5, <1>6 DEF r

\* The last element of a list that occurs nowhere else in it.
LastOnly(s, t) == LastIs(s, t) /\ \A i \in DOMAIN s : s[i] = t => i = Len(s)

LEMMA AppendLast ==
    ASSUME NEW S, NEW s \in Seq(S), NEW t \in S, t \notin Elems(s)
    PROVE  LastOnly(Append(s, t), t)
<1> DEFINE r == Append(s, t)
           n == Len(s)
<1>1. /\ n \in Nat /\ Len(r) = n + 1 /\ DOMAIN s = 1 .. n /\ DOMAIN r = 1 .. n + 1
      /\ \A i \in 1 .. n : r[i] = s[i]
  BY AppendProperties, LenProperties
<1>2. LastIs(r, t)
  BY AppendIs
<1>3. ASSUME NEW i \in DOMAIN r, r[i] = t PROVE i = Len(r)
  <2>1. CASE i \in 1 .. n
    BY <1>1, <1>3, <2>1 DEF Elems
  <2> QED
    BY <1>1, <2>1
<1> QED
  BY <1>2, <1>3 DEF LastOnly

LEMMA WithoutLast ==
    ASSUME NEW S, NEW s \in Seq(S), NEW T, NEW t, LastOnly(s, t), t \notin T
    PROVE  LastOnly(Without(s, T), t)
<1> DEFINE I == {i \in DOMAIN s : s[i] \notin T}
           r == Selection(s, I)
<1>0. I \in SUBSET DOMAIN s
  OBVIOUS
<1>2. LastIs(r, t)
  BY WithoutIs DEF LastOnly, Without
<1> HIDE DEF I
<1>1. /\ r \in Seq(S) /\ DOMAIN r = 1 .. Cardinality(I)
      /\ \A p \in DOMAIN r : Place(I, p) \in I /\ r[p] = s[Place(I, p)]
      /\ \A p, q \in DOMAIN r : p < q => Place(I, p) < Place(I, q)
  BY <1>0, SelectionIs
<1>3. /\ DOMAIN s = 1 .. Len(s) /\ Len(s) \in Nat
      /\ DOMAIN r = 1 .. Len(r) /\ Len(r) \in Nat
  BY <1>1, LenProperties
<1> HIDE DEF r
<1>4. Len(r) \in DOMAIN r /\ r[Len(r)] = t
  <2>1. Len(r) # 0
    BY <1>1, <1>2, EmptySeq DEF LastIs
  <2> QED
    BY <1>2, <1>3, <2>1 DEF LastIs
<1>5. ASSUME NEW i \in DOMAIN r, r[i] = t PROVE i = Len(r)
  <2>1. Place(I, i) = Len(s) /\ Place(I, Len(r)) = Len(s)
    BY <1>0, <1>1, <1>4, <1>5 DEF LastOnly
  <2>2. CASE i < Len(r)
    <3>1. Place(I, i) < Place(I, Len(r))
      BY <1>1, <1>4, <2>2
    <3> QED
      BY <1>3, <2>1, <3>1
  <2> QED
    BY <1>3, <2>2
<1> QED
  BY <1>2, <1>5 DEF LastOnly, r, I, Without
=============================================================================
