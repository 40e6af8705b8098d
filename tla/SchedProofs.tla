----------------------------- MODULE SchedProofs -----------------------------
(***************************************************************************)
(* Proofs about the scheduler: its lists stay the lists that               *)
(* AuSchedValidateLists checks, and threads that enter the kernel with     *)
(* interrupts masked are resumed through the frame they left.              *)
(***************************************************************************)
EXTENDS Sched, SelectionProofs

-----------------------------------------------------------------------------
(* The scheduler's record *)

Frames == {"entry", "exception", "handoff"}

Edf == {e \in [on : BOOLEAN, wcet : Nat, waiting : BOOLEAN, release : Int] : e.waiting => e.on}

\* Only real-time threads have reservations.
Table == {e \in [All -> Edf] : \A t \in All : e[t].on => t \in RealTime}

KRec == [list : [Lists -> Seq(All)], state : [All -> ThreadStates], cur : All,
         frame : [All -> Frames], polling : [All -> BOOLEAN], until : [All -> 0 .. MaxNap],
         edf : Table, util : Int, wild : BOOLEAN]

\* Every thread is linked once, on a list that its state allows; the idle thread is
\* ready, and nobody is in the trash.
Arranged(q) ==
    /\ \A l \in Lists : Simple(q.list[l])
    /\ \A l, m \in Lists : l # m => Elems(q.list[l]) \cap Elems(q.list[m]) = {}
    /\ \A t \in All : \E l \in Lists : t \in Elems(q.list[l])
    /\ \A l \in Lists : \A t \in Elems(q.list[l]) : q.state[t] \in Allowed(l)
    /\ q.list["trash"] = <<>>
    /\ Idle \in Elems(q.list["ready"]) /\ q.state[Idle] \in {"READY", "RUNNING"}

\* The current thread is the last one of its list, unless it is ready.
LastOff(q) ==
    \A l \in Lists \ {"ready"} : q.cur \in Elems(q.list[l]) => LastIs(q.list[l], q.cur)

\* Everything but lists, states and sleeps.
SameRest(q, r) ==
    /\ r.cur = q.cur /\ r.frame = q.frame /\ r.edf = q.edf /\ r.util = q.util

\* The parts of a record of the scheduler.
LEMMA Parts ==
    ASSUME NEW q \in KRec
    PROVE  /\ q.list \in [Lists -> Seq(All)] /\ q.state \in [All -> ThreadStates] /\ q.cur \in All
           /\ q.frame \in [All -> Frames] /\ q.polling \in [All -> BOOLEAN]
           /\ q.until \in [All -> 0 .. MaxNap] /\ q.edf \in Table
           /\ q.util \in Int /\ q.wild \in BOOLEAN
           /\ \A l \in Lists : q.list[l] \in Seq(All) /\ Elems(q.list[l]) \subseteq All
<1>1. ASSUME NEW l \in Lists PROVE q.list[l] \in Seq(All) /\ Elems(q.list[l]) \subseteq All
  <2>1. q.list[l] \in Seq(All)
    BY DEF KRec
  <2> QED
    BY <2>1, ElementOfSeq, LenProperties DEF Elems
<1> QED
  BY <1>1 DEF KRec

\* A link is what OnList finds.
LEMMA OnListIs ==
    ASSUME NEW q, NEW l, NEW t
    PROVE  OnList(q, l, t) <=> t \in Elems(q.list[l])
BY DEF OnList, Elems

\* A thread is moved to the end of another list, with a state that list allows.
LEMMA MoveIs ==
    ASSUME NEW q \in KRec, NEW from \in Lists, NEW to \in Lists, from # to, NEW t \in All,
           t \in Elems(q.list[from])
    PROVE  LET r == Move(q, from, to, t) IN
           /\ r = [q EXCEPT !.list = r.list] /\ r \in KRec
           /\ Elems(r.list[from]) = Elems(q.list[from]) \ {t}
           /\ Elems(r.list[to]) = Elems(q.list[to]) \cup {t}
           /\ \A l \in Lists \ {from, to} : r.list[l] = q.list[l]
           /\ LastIs(r.list[to], t)
           /\ \A u : LastIs(q.list[from], u) /\ u # t => LastIs(r.list[from], u)
           /\ Simple(q.list[from]) => Simple(r.list[from])
           /\ Simple(q.list[to]) /\ t \notin Elems(q.list[to]) => Simple(r.list[to])
<1> DEFINE a == Without(q.list[from], {t})
           b == Append(q.list[to], t)
           c == [q.list EXCEPT ![from] = a, ![to] = b]
           r == Move(q, from, to, t)
<1>1. q.list \in [Lists -> Seq(All)] /\ q.wild \in BOOLEAN
  BY Parts
<1>2. OnList(q, from, t)
  BY OnListIs
<1>3. a \in Seq(All) /\ b \in Seq(All)
  BY <1>1, WithoutIs, AppendIs
<1>4. r = [q EXCEPT !.list = c]
  <2>1. schedUnlink(q, from, t) = [q EXCEPT !.list = [q.list EXCEPT ![from] = a]]
    BY <1>1 DEF schedUnlink, KRec
  <2> DEFINE d == [q.list EXCEPT ![from] = a]
             u == [q EXCEPT !.list = d]
  <2>2. u.list = d /\ d[to] = q.list[to] /\ u.wild = q.wild
    BY <1>1 DEF KRec
  <2>3. schedLink(u, to, t) = [u EXCEPT !.list = [u.list EXCEPT ![to] = Append(u.list[to], t)]]
    BY DEF schedLink, KRec
  <2>4. [d EXCEPT ![to] = b] = c
    BY <1>1
  <2> HIDE DEF d, a, b, c
  <2>5. schedLink(u, to, t) = [q EXCEPT !.list = c]
    BY <2>2, <2>3, <2>4 DEF KRec, b
  <2>6. Move(q, from, to, t) = [[q EXCEPT !.list = c] EXCEPT !.wild = q.wild]
    BY <1>1, <1>2, <2>1, <2>5 DEF Move, KRec, d
  <2> QED
    BY <2>6 DEF KRec
<1>5. c \in [Lists -> Seq(All)] /\ c[from] = a /\ c[to] = b /\ \A l \in Lists \ {from, to} : c[l] = q.list[l]
  BY <1>1, <1>3
<1> HIDE DEF a, b, c, r
<1>6. r.list = c /\ r \in KRec
  BY <1>4, <1>5 DEF KRec
<1>7. /\ Elems(a) = Elems(q.list[from]) \ {t}
      /\ Simple(q.list[from]) => Simple(a)
      /\ \A u : LastIs(q.list[from], u) /\ u # t => LastIs(a, u)
  BY <1>1, WithoutIs DEF a
<1>8. /\ Elems(b) = Elems(q.list[to]) \cup {t} /\ LastIs(b, t)
      /\ Simple(q.list[to]) /\ t \notin Elems(q.list[to]) => Simple(b)
  BY <1>1, AppendIs DEF b
<1> QED
  BY <1>4, <1>5, <1>6, <1>7, <1>8 DEF r

\* So the lists stay arranged, if the thread's state becomes one of the new list.
LEMMA MoveArranged ==
    ASSUME NEW q \in KRec, Arranged(q), NEW from \in Lists \ {"trash"}, NEW to \in Lists \ {"trash"},
           from # to, NEW t \in Threads, t \in Elems(q.list[from]),
           NEW p \in KRec, p.list = q.list, p.cur = q.cur,
           \A u \in All : u # t => p.state[u] = q.state[u],
           p.state[t] \in Allowed(to)
    PROVE  /\ Arranged(Move(p, from, to, t))
           /\ LastOff(q) /\ (to = "ready" \/ q.cur = t) => LastOff(Move(p, from, to, t))
<1> DEFINE r == Move(p, from, to, t)
<1>1. /\ r = [p EXCEPT !.list = r.list] /\ r \in KRec
      /\ Elems(r.list[from]) = Elems(q.list[from]) \ {t}
      /\ Elems(r.list[to]) = Elems(q.list[to]) \cup {t}
      /\ \A l \in Lists \ {from, to} : r.list[l] = q.list[l]
      /\ LastIs(r.list[to], t)
      /\ \A u : LastIs(q.list[from], u) /\ u # t => LastIs(r.list[from], u)
      /\ Simple(q.list[from]) => Simple(r.list[from])
      /\ Simple(q.list[to]) /\ t \notin Elems(q.list[to]) => Simple(r.list[to])
  <2>1. t \in All /\ t \in Elems(p.list[from])
    BY DEF All
  <2> HIDE DEF r
  <2>2. /\ r = [p EXCEPT !.list = r.list] /\ r \in KRec
        /\ Elems(r.list[from]) = Elems(p.list[from]) \ {t}
        /\ Elems(r.list[to]) = Elems(p.list[to]) \cup {t}
        /\ \A l \in Lists \ {from, to} : r.list[l] = p.list[l]
        /\ LastIs(r.list[to], t)
        /\ \A u : LastIs(p.list[from], u) /\ u # t => LastIs(r.list[from], u)
        /\ Simple(p.list[from]) => Simple(r.list[from])
        /\ Simple(p.list[to]) /\ t \notin Elems(p.list[to]) => Simple(r.list[to])
    BY <2>1, MoveIs DEF r
  <2> QED
    BY <2>2
<1>2. r.state = p.state /\ r.cur = q.cur
  BY <1>1 DEF KRec
<1>3. t \in All /\ t # Idle /\ \A l \in Lists \ {from} : t \notin Elems(q.list[l])
  BY ListConstants DEF Arranged, All, Idle
<1>4. \A l \in Lists : /\ Elems(r.list[l]) = IF l = from THEN Elems(q.list[l]) \ {t}
                                             ELSE IF l = to THEN Elems(q.list[l]) \cup {t}
                                             ELSE Elems(q.list[l])
                       /\ Simple(r.list[l])
  BY <1>1, <1>3 DEF Arranged
<1>5. Elems(q.list[from]) \subseteq All /\ \A l \in Lists : Elems(q.list[l]) \subseteq All
  BY Parts
<1> HIDE DEF r
<1>6. Arranged(r)
  <2>1. \A l, m \in Lists : l # m => Elems(r.list[l]) \cap Elems(r.list[m]) = {}
    <3>1. ASSUME NEW l \in Lists, NEW m \in Lists, l # m,
                 NEW u \in Elems(r.list[l]), u \in Elems(r.list[m])
          PROVE  FALSE
      <4>1. CASE u = t
        BY <1>3, <1>4, <3>1, <4>1
      <4>2. CASE u # t
        <5>1. u \in Elems(q.list[l]) /\ u \in Elems(q.list[m])
          BY <1>4, <3>1, <4>2
        <5> QED
          BY <3>1, <5>1 DEF Arranged
      <4> QED
        BY <4>1, <4>2
    <3> QED
      BY <3>1
  <2>2. \A u \in All : \E l \in Lists : u \in Elems(r.list[l])
    <3>1. ASSUME NEW u \in All, u # t PROVE \E l \in Lists : u \in Elems(r.list[l])
      BY <1>4, <3>1 DEF Arranged
    <3>2. t \in Elems(r.list[to])
      BY <1>1
    <3> QED
      BY <3>1, <3>2
  <2>3. ASSUME NEW l \in Lists, NEW u \in Elems(r.list[l]) PROVE r.state[u] \in Allowed(l)
    <3>1. CASE u = t
      <4>1. l = to
        BY <1>3, <1>4, <3>1
      <4> QED
        BY <1>2, <3>1, <4>1
    <3>2. CASE u # t
      <4>1. u \in Elems(q.list[l])
        BY <1>4, <3>2
      <4>2. u \in All
        BY <1>5, <4>1
      <4> QED
        BY <1>2, <3>2, <4>1, <4>2 DEF Arranged
    <3> QED
      BY <3>1, <3>2
  <2>4. r.list["trash"] = <<>>
    BY <1>1 DEF Arranged, Lists
  <2>5. Idle \in Elems(r.list["ready"]) /\ r.state[Idle] \in {"READY", "RUNNING"}
    <3>1. Idle \in All /\ "ready" \in Lists
      BY DEF All, Lists
    <3> QED
      BY <1>2, <1>3, <1>4, <3>1 DEF Arranged
  <2> QED
    BY <1>4, <2>1, <2>2, <2>3, <2>4, <2>5 DEF Arranged
<1>7. ASSUME LastOff(q), to = "ready" \/ q.cur = t PROVE LastOff(r)
  <2>1. ASSUME NEW l \in Lists \ {"ready"}, r.cur \in Elems(r.list[l]) PROVE LastIs(r.list[l], r.cur)
    <3>1. CASE q.cur = t
      <4>1. l = to
        BY <1>2, <1>3, <1>4, <2>1, <3>1
      <4> QED
        BY <1>1, <1>2, <3>1, <4>1
    <3>2. CASE q.cur # t
      <4>1. l # to /\ q.cur \in Elems(q.list[l])
        BY <1>2, <1>4, <1>7, <2>1, <3>2
      <4>2. LastIs(q.list[l], q.cur)
        BY <1>7, <4>1 DEF LastOff
      <4> QED
        BY <1>1, <1>2, <3>2, <4>1, <4>2
    <3> QED
      BY <3>1, <3>2
  <2> QED
    BY <2>1 DEF LastOff
<1> QED
  BY <1>6, <1>7 DEF r

\* A walk that wakes threads of a list: they go to the ready list, in order.
LEMMA WakeAllIs ==
    ASSUME NEW q \in KRec, Arranged(q), NEW from \in {"blocked", "sleep"},
           NEW I \in SUBSET DOMAIN q.list[from]
    PROVE  LET r == WakeAll(q, from, Selection(q.list[from], I)) IN
           /\ r \in KRec /\ Arranged(r) /\ SameRest(q, r) /\ r.polling = q.polling /\ r.wild = q.wild
           /\ LastOff(q) => LastOff(r)
           /\ \A t \in All : r.state[t] \in {q.state[t], WokenState(q.state[t])}
<1> DEFINE s == Selection(q.list[from], I)
           W == Elems(s)
           a == Without(q.list[from], W)
           b == q.list["ready"] \o s
           L == [q.list EXCEPT ![from] = a, !["ready"] = b]
           S == [t \in All |-> IF t \in W THEN WokenState(q.state[t]) ELSE q.state[t]]
           N == [t \in All |-> IF t \in W THEN 0 ELSE q.until[t]]
           r == WakeAll(q, from, s)
<1>1. /\ q.list \in [Lists -> Seq(All)] /\ q.state \in [All -> ThreadStates]
      /\ q.until \in [All -> 0 .. MaxNap] /\ from \in Lists /\ "ready" \in Lists /\ from # "ready"
      /\ \A l \in Lists : Elems(q.list[l]) \subseteq All
  BY Parts DEF Lists
<1>2. /\ s \in Seq(All) /\ W = {q.list[from][i] : i \in I}
      /\ Simple(q.list[from]) => Simple(s)
  BY <1>1, SelectedElems
<1>3. W \subseteq Elems(q.list[from]) /\ W \subseteq All
  BY <1>1, <1>2 DEF Elems
<1>4. /\ a \in Seq(All) /\ Elems(a) = Elems(q.list[from]) \ W
      /\ Simple(q.list[from]) => Simple(a)
      /\ \A t : LastIs(q.list[from], t) /\ t \notin W => LastIs(a, t)
  BY <1>1, WithoutIs
<1>5. Elems(q.list["ready"]) \cap W = {}
  BY <1>1, <1>3 DEF Arranged
<1>6. b \in Seq(All) /\ Elems(b) = Elems(q.list["ready"]) \cup W /\ Simple(b)
  BY <1>1, <1>2, <1>5, ConcatIs DEF Arranged
<1>7. r = [q EXCEPT !.list = L, !.state = S, !.until = N]
  BY <1>1 DEF WakeAll, KRec, Elems
<1>8. /\ L \in [Lists -> Seq(All)] /\ L[from] = a /\ L["ready"] = b
      /\ \A l \in Lists \ {from, "ready"} : L[l] = q.list[l]
  BY <1>1, <1>4, <1>6
<1>9. S \in [All -> ThreadStates]
  <2>1. ASSUME NEW t \in All PROVE WokenState(q.state[t]) \in ThreadStates
    BY <1>1 DEF WokenState, ThreadStates
  <2> QED
    BY <1>1, <2>1
<1>10. N \in [All -> 0 .. MaxNap]
  BY <1>1, SchedConstants
<1> HIDE DEF L, S, N, r, a, b, W, s
<1>11. /\ r \in KRec /\ r.list = L /\ r.state = S /\ SameRest(q, r) /\ r.polling = q.polling
       /\ r.wild = q.wild
  BY <1>7, <1>8, <1>9, <1>10 DEF KRec, SameRest
<1>12. \A l \in Lists : /\ Elems(r.list[l]) = IF l = from THEN Elems(q.list[l]) \ W
                                              ELSE IF l = "ready" THEN Elems(q.list[l]) \cup W
                                              ELSE Elems(q.list[l])
                        /\ Simple(r.list[l])
  BY <1>1, <1>4, <1>6, <1>8, <1>11 DEF Arranged
<1>13. \A t \in All : r.state[t] = IF t \in W THEN WokenState(q.state[t]) ELSE q.state[t]
  BY <1>11 DEF S
<1>14. Arranged(r)
  <2>1. \A l, m \in Lists : l # m => Elems(r.list[l]) \cap Elems(r.list[m]) = {}
    BY <1>1, <1>3, <1>12 DEF Arranged
  <2>2. \A u \in All : \E l \in Lists : u \in Elems(r.list[l])
    BY <1>1, <1>12 DEF Arranged
  <2>3. ASSUME NEW l \in Lists, NEW u \in Elems(r.list[l]) PROVE r.state[u] \in Allowed(l)
    <3>1. CASE u \in W
      <4>1. l = "ready" /\ u \in All
        BY <1>1, <1>3, <1>12, <3>1 DEF Arranged
      <4> QED
        BY <1>13, <3>1, <4>1 DEF WokenState, Allowed
    <3>2. CASE u \notin W
      <4>1. u \in Elems(q.list[l]) /\ u \in All
        BY <1>1, <1>12, <3>2
      <4> QED
        BY <1>13, <3>2, <4>1 DEF Arranged
    <3> QED
      BY <3>1, <3>2
  <2>4. r.list["trash"] = <<>>
    BY <1>8, <1>11 DEF Arranged, Lists
  <2>5. Idle \in Elems(r.list["ready"]) /\ r.state[Idle] \in {"READY", "RUNNING"}
    <3>1. Idle \in All /\ Idle \notin W
      BY <1>5 DEF All, Arranged
    <3> QED
      BY <1>1, <1>12, <1>13, <3>1 DEF Arranged
  <2> QED
    BY <1>12, <2>1, <2>2, <2>3, <2>4, <2>5 DEF Arranged
<1>15. ASSUME LastOff(q) PROVE LastOff(r)
  <2>1. ASSUME NEW l \in Lists \ {"ready"}, q.cur \in Elems(r.list[l]) PROVE LastIs(r.list[l], q.cur)
    <3>1. q.cur \in Elems(q.list[l]) /\ (l = from => q.cur \notin W)
      BY <1>12, <2>1
    <3>2. LastIs(q.list[l], q.cur)
      BY <1>15, <3>1 DEF LastOff
    <3> QED
      BY <1>4, <1>8, <1>11, <3>1, <3>2
  <2> QED
    BY <1>11, <2>1 DEF LastOff, SameRest
<1> QED
  BY <1>11, <1>13, <1>14, <1>15 DEF r, s

\* AuEDFPickNext finds a thread, whenever a reserved one is ready: the deadlines,
\* and then the ids, order these threads.
LEMMA EarliestExists ==
    ASSUME NEW q \in KRec, EdfReady(q) # {}
    PROVE  AuEDFPickNext(q) \in EdfReady(q)
<1> DEFINE S == EdfReady(q)
           d(t) == deadline(q, t)
           B(t) == {u \in S : ~Before(q, t, u)}
           c(t) == Cardinality(B(t)) + 1
           n == Cardinality(S) + 1
           I == {c(t) : t \in S}
<1>1. IsFiniteSet(S) /\ S \subseteq Threads
  <2>1. S \subseteq Threads
    BY DEF EdfReady
  <2> QED
    BY <2>1, ListConstants, FS_Subset
<1>2. \A t \in S : d(t) \in Int /\ t \in Int
  <2>1. ASSUME NEW t \in S PROVE d(t) \in Int /\ t \in Int
    <3>1. t \in Threads /\ t \in All /\ q.edf[t].on
      BY DEF EdfReady, All
    <3>2. q.edf \in Table
      BY Parts
    <3>3. q.edf[t].release \in Int /\ t \in RealTime
      BY <3>1, <3>2 DEF Table, Edf
    <3>4. Period[t] \in Nat /\ t \in Nat
      BY <3>1, <3>3, ListConstants
    <3> QED
      BY <3>3, <3>4 DEF deadline
  <2> QED
    BY <2>1
<1>3. \A t, u \in S : Before(q, t, u) <=> d(t) < d(u) \/ (d(t) = d(u) /\ t <= u)
  BY DEF Before
<1> HIDE DEF S, d
<1>4. \A t \in S : IsFiniteSet(B(t)) /\ Cardinality(B(t)) \in Nat /\ Cardinality(B(t)) <= Cardinality(S)
  <2>1. \A t : B(t) \subseteq S
    OBVIOUS
  <2> QED
    BY <1>1, <2>1, FS_Subset, FS_CardinalityType
<1>5. n \in Nat /\ I \in SUBSET (1 .. n) /\ I # {}
  <2>1. Cardinality(S) \in Nat
    BY <1>1, FS_CardinalityType
  <2>2. \A t \in S : c(t) \in 1 .. n
    BY <1>4, <2>1
  <2>3. S # {}
    BY DEF S
  <2>4. n \in Nat
    BY <2>1
  <2> HIDE DEF c, n
  <2> QED
    BY <2>2, <2>3, <2>4
<1>6. PICK t \in S : \A u \in S : c(t) <= c(u)
  <2> HIDE DEF n, c
  <2>1. PICK i \in I : \A j \in I : i <= j
    BY <1>5, LeastOf
  <2> QED
    BY <2>1
<1>7. ASSUME NEW u \in S, ~Before(q, t, u) PROVE FALSE
  <2>1. \A v \in B(u) : v \in B(t)
    <3>1. ASSUME NEW v \in B(u) PROVE v \in B(t)
      <4>1. /\ d(t) \in Int /\ d(u) \in Int /\ d(v) \in Int
            /\ t \in Int /\ u \in Int /\ v \in Int /\ v \in S
        BY <1>2
      <4> QED
        BY <1>3, <1>7, <4>1
    <3> QED
      BY <3>1
  <2>2. u \in B(t)
    BY <1>7
  <2>3. u \notin B(u)
    BY <1>2, <1>3
  <2>4. B(u) \subseteq B(t) /\ B(u) # B(t)
    BY <2>1, <2>2, <2>3
  <2> HIDE DEF B
  <2>5. Cardinality(B(u)) <= Cardinality(B(t)) /\ Cardinality(B(u)) # Cardinality(B(t))
    BY <1>4, <2>4, FS_Subset
  <2>6. Cardinality(B(t)) + 1 <= Cardinality(B(u)) + 1
    BY <1>6, <1>7
  <2>7. Cardinality(B(t)) \in Nat /\ Cardinality(B(u)) \in Nat
    BY <1>4, <1>7
  <2> QED
    BY <2>5, <2>6, <2>7
<1>8. \E e \in EdfReady(q) : \A u \in EdfReady(q) : Before(q, e, u)
  BY <1>7 DEF S
<1> QED
  BY <1>8 DEF AuEDFPickNext

\* The threads behind the current one are ready, or there are none.
LEMMA FollowingReady ==
    ASSUME NEW q \in KRec, Arranged(q), LastOff(q)
    PROVE  Following(q) \in Seq(All) /\ Elems(Following(q)) \subseteq Elems(q.list["ready"])
<1> DEFINE l == CHOOSE m \in Lists : OnList(q, m, q.cur)
           s == q.list[l]
           n == Len(s)
           i == CHOOSE j \in DOMAIN s : s[j] = q.cur
           u == SubSeq(s, i + 1, n)
<1>1. q.cur \in All
  BY Parts
<1>2. \E m \in Lists : OnList(q, m, q.cur)
  BY <1>1, OnListIs DEF Arranged
<1>3. l \in Lists /\ q.cur \in Elems(s)
  BY <1>2, OnListIs
<1>4. Following(q) = u
  BY <1>2 DEF Following, Successors
<1> HIDE DEF l
<1>5. s \in Seq(All) /\ n \in Nat /\ DOMAIN s = 1 .. n
  BY <1>3, Parts, LenProperties
<1>6. i \in DOMAIN s /\ s[i] = q.cur
  BY <1>3 DEF Elems
<1> HIDE DEF i, s, n
<1>7. /\ i + 1 \in 1 .. n + 1 /\ n \in i .. n
  BY <1>5, <1>6
<1>8. u \in Seq(All) /\ Len(u) = n - i /\ \A j \in 1 .. n - i : u[j] = s[i + j]
  <2>1. /\ u \in Seq(All)
        /\ Len(u) = IF i + 1 <= n THEN n - (i + 1) + 1 ELSE 0
        /\ \A j \in 1 .. n - (i + 1) + 1 : u[j] = s[(i + 1) + j - 1]
    BY <1>5, <1>7, SubSeqProperties DEF n
  <2>2. n - (i + 1) + 1 = n - i /\ \A j \in 1 .. n - i : (i + 1) + j - 1 = i + j
    BY <1>5, <1>6
  <2> QED
    BY <1>5, <1>6, <2>1, <2>2
<1> HIDE DEF u
<1>9. DOMAIN u = 1 .. n - i
  BY <1>8, LenProperties
<1>10. \A j \in DOMAIN u : i + j \in DOMAIN s /\ u[j] = s[i + j]
  BY <1>5, <1>6, <1>8, <1>9
<1>11. CASE l = "ready"
  <2>1. Elems(u) \subseteq Elems(s)
    BY <1>10 DEF Elems
  <2> QED
    BY <1>4, <1>8, <1>11, <2>1 DEF s
<1>12. CASE l # "ready"
  <2>1. s # <<>> /\ s[n] = q.cur /\ Simple(s)
    BY <1>3, <1>12 DEF LastOff, LastIs, Arranged, s, n
  <2>2. n \in DOMAIN s
    BY <1>5, <1>6
  <2>3. i = n
    BY <1>6, <2>1, <2>2 DEF Simple
  <2>4. DOMAIN u = {}
    BY <1>5, <1>9, <2>3
  <2> QED
    BY <1>4, <1>8, <2>4 DEF Elems
<1> QED
  BY <1>11, <1>12

\* AA64NextThread picks the idle thread, or one that is ready and may run.
LEMMA NextIs ==
    ASSUME NEW q \in KRec, Arranged(q), LastOff(q)
    PROVE  LET t == AA64NextThread(q) IN
           t = Idle \/ (t \in Elems(q.list["ready"]) /\ q.state[t] \in Runnable)
<1> DEFINE s == Following(q) \o q.list["ready"]
           I == {i \in DOMAIN s : CanRun(q, s[i])}
           r == Candidates(q)
<1>1. q.list["ready"] \in Seq(All)
  BY Parts DEF Lists
<1>2. s \in Seq(All) /\ Elems(s) \subseteq Elems(q.list["ready"])
  BY <1>1, FollowingReady, ConcatIs
<1>3. r = Selection(s, I)
  BY DEF Candidates
<1>4. r \in Seq(All) /\ Elems(r) = {s[i] : i \in I}
  <2> HIDE DEF s, r
  <2> QED
    BY <1>2, <1>3, SelectedElems
<1>5. ASSUME r # <<>> PROVE Head(r) \in Elems(q.list["ready"]) /\ q.state[Head(r)] \in Runnable
  <2>1. 1 \in DOMAIN r /\ Head(r) = r[1]
    <3> HIDE DEF r
    <3>1. Len(r) \in Nat /\ DOMAIN r = 1 .. Len(r) /\ Len(r) # 0
      BY <1>4, <1>5, LenProperties, EmptySeq
    <3> QED
      BY <1>4, <1>5, <3>1, HeadTailProperties
  <2>2. Head(r) \in {s[i] : i \in I}
    BY <1>4, <2>1 DEF Elems
  <2>3. PICK i \in DOMAIN s : Head(r) = s[i] /\ CanRun(q, s[i])
    BY <2>2
  <2>4. s[i] \in Elems(s)
    BY <2>3 DEF Elems
  <2> QED
    BY <1>2, <2>3, <2>4 DEF CanRun
<1>6. CASE EdfReady(q) # {}
  <2>1. AuEDFPickNext(q) \in EdfReady(q)
    BY <1>6, EarliestExists
  <2>2. AA64NextThread(q) = AuEDFPickNext(q)
    BY <1>6 DEF AA64NextThread
  <2> QED
    BY <2>1, <2>2, OnListIs DEF EdfReady
<1>7. CASE EdfReady(q) = {} /\ Candidates(q) # <<>>
  <2>1. AA64NextThread(q) = Head(r)
    BY <1>7 DEF AA64NextThread
  <2> QED
    BY <1>5, <1>7, <2>1
<1>8. CASE EdfReady(q) = {} /\ Candidates(q) = <<>>
  BY <1>8 DEF AA64NextThread
<1> QED
  BY <1>6, <1>7, <1>8

-----------------------------------------------------------------------------
(* Switching threads *)

\* A record of the scheduler that can be met.
Sound(q) == q \in KRec /\ Arranged(q) /\ LastOff(q)

\* What no function on the way to another thread changes: who left the CPU from
\* inside the kernel.
SameLeft(q, r) ==
    \A t \in All : (r.state[t] = "LEFT_IN_KERNEL") = (q.state[t] = "LEFT_IN_KERNEL")

\* The lists are arranged still when ready and running threads change places.
LEMMA Restated ==
    ASSUME NEW q, Sound(q), NEW r \in KRec, r.list = q.list,
           r.cur = q.cur \/ r.cur \in Elems(q.list["ready"]),
           \A t \in All : \/ r.state[t] = q.state[t]
                          \/ /\ q.state[t] \in {"READY", "RUNNING", "LEFT_IN_KERNEL"}
                             /\ t \in Elems(q.list["ready"])
                             /\ r.state[t] \in {"READY", "RUNNING"}
    PROVE  Sound(r)
<1>1. q \in KRec /\ Arranged(q) /\ LastOff(q)
  BY DEF Sound
<1>2. \A l \in Lists : Elems(q.list[l]) \subseteq All
  BY <1>1, Parts
<1>3. "ready" \in Lists
  BY DEF Lists
<1>4. ASSUME NEW l \in Lists, NEW t \in Elems(r.list[l]) PROVE r.state[t] \in Allowed(l)
  <2>1. t \in All /\ t \in Elems(q.list[l]) /\ q.state[t] \in Allowed(l)
    BY <1>1, <1>2, <1>4 DEF Arranged
  <2>2. CASE r.state[t] = q.state[t]
    BY <2>1, <2>2
  <2>3. CASE t \in Elems(q.list["ready"]) /\ r.state[t] \in {"READY", "RUNNING"}
    <3>1. l = "ready"
      BY <1>1, <1>3, <2>1, <2>3 DEF Arranged
    <3> QED
      BY <2>3, <3>1 DEF Allowed
  <2> QED
    BY <2>1, <2>2, <2>3
<1>5. Idle \in Elems(r.list["ready"]) /\ r.state[Idle] \in {"READY", "RUNNING"}
  <2>1. Idle \in All
    BY DEF All
  <2> QED
    BY <1>1, <2>1 DEF Arranged
<1>6. Arranged(r)
  BY <1>1, <1>4, <1>5 DEF Arranged
<1>7. LastOff(r)
  <2>1. CASE r.cur = q.cur
    BY <1>1, <2>1 DEF LastOff
  <2>2. CASE r.cur \in Elems(q.list["ready"])
    BY <1>1, <1>3, <2>2 DEF LastOff, Arranged
  <2> QED
    BY <2>1, <2>2
<1> QED
  BY <1>6, <1>7 DEF Sound

\* The interrupt captures the frame of the current thread.
LEMMA CapturedIs ==
    ASSUME NEW q, Sound(q)
    PROVE  LET r == Captured(q) IN
           /\ Sound(r) /\ SameLeft(q, r) /\ r.cur = q.cur /\ r.list = q.list
           /\ \A t \in All : r.frame[t] = IF t = q.cur THEN "exception" ELSE q.frame[t]
<1> DEFINE r == Captured(q)
           c == q.cur
           s == IF q.state[c] = "RUNNING" THEN "READY" ELSE q.state[c]
           S == [q.state EXCEPT ![c] = s]
           F == [q.frame EXCEPT ![c] = "exception"]
<1>1. /\ q \in KRec /\ q.state \in [All -> ThreadStates] /\ q.frame \in [All -> Frames] /\ c \in All
  BY Parts DEF Sound
<1>2. r = [q EXCEPT !.frame = F, !.state = S]
  BY <1>1 DEF Captured, KRec
<1>3. S \in [All -> ThreadStates] /\ F \in [All -> Frames]
  BY <1>1 DEF ThreadStates, Frames
<1>4. \A t \in All : S[t] = (IF t = c THEN s ELSE q.state[t]) /\ F[t] = IF t = c THEN "exception" ELSE q.frame[t]
  BY <1>1
<1> HIDE DEF r, S, F
<1>5. r \in KRec /\ r.list = q.list /\ r.cur = q.cur /\ r.state = S /\ r.frame = F
  BY <1>1, <1>2, <1>3 DEF KRec
<1>6. SameLeft(q, r)
  BY <1>4, <1>5 DEF SameLeft
<1>7. ASSUME q.state[c] = "RUNNING" PROVE c \in Elems(q.list["ready"])
  <2>1. PICK l \in Lists : c \in Elems(q.list[l])
    BY <1>1 DEF Sound, Arranged
  <2>2. q.state[c] \in Allowed(l)
    BY <2>1 DEF Sound, Arranged
  <2>3. l = "ready"
    BY <1>7, <2>1, <2>2 DEF Allowed, Lists
  <2> QED
    BY <2>1, <2>3
<1>8. Sound(r)
  <2>1. \A t \in All : \/ r.state[t] = q.state[t]
                       \/ /\ q.state[t] \in {"READY", "RUNNING", "LEFT_IN_KERNEL"}
                          /\ t \in Elems(q.list["ready"])
                          /\ r.state[t] \in {"READY", "RUNNING"}
    BY <1>4, <1>5, <1>7
  <2> QED
    BY <1>5, <2>1, Restated
<1> QED
  BY <1>4, <1>5, <1>6, <1>8 DEF r

\* AuHandleSleepThreads wakes sleepers.
LEMMA SleepersIs ==
    ASSUME NEW q, Sound(q)
    PROVE  LET r == AuHandleSleepThreads(q) IN
           Sound(r) /\ SameLeft(q, r) /\ SameRest(q, r)
<1> DEFINE I == {i \in DOMAIN q.list["sleep"] : q.until[q.list["sleep"][i]] = 0}
           r == AuHandleSleepThreads(q)
<1>1. q \in KRec /\ Arranged(q) /\ LastOff(q)
  BY DEF Sound
<1>2. r = WakeAll(q, "sleep", Selection(q.list["sleep"], I))
  BY DEF AuHandleSleepThreads, Sleepers
<1> HIDE DEF r
<1>3. /\ r \in KRec /\ Arranged(r) /\ LastOff(r) /\ SameRest(q, r)
      /\ \A t \in All : r.state[t] \in {q.state[t], WokenState(q.state[t])}
  BY <1>1, <1>2, WakeAllIs
<1> QED
  BY <1>3 DEF Sound, SameLeft, WokenState, r

\* The reservation table changes nothing else.
LEMMA EdfOnly ==
    ASSUME NEW q, Sound(q), NEW T \in Table
    PROVE  LET r == [q EXCEPT !.edf = T] IN
           /\ Sound(r) /\ r.list = q.list /\ r.state = q.state /\ r.cur = q.cur /\ r.frame = q.frame
           /\ r.edf = T /\ r.util = q.util
BY DEF Sound, KRec, Arranged, LastOff

\* AuEDFHandleReleases wakes the threads whose period begins.
LEMMA ReleasesIs ==
    ASSUME NEW q, Sound(q)
    PROVE  LET r == AuEDFHandleReleases(q) IN
           Sound(r) /\ SameLeft(q, r) /\ r.cur = q.cur /\ r.frame = q.frame
<1> DEFINE b == q.list["blocked"]
           I == {i \in DOMAIN b : ToRelease(q, b[i])}
           s == Released(q)
           W == {s[i] : i \in DOMAIN s}
           T == [t \in All |-> IF t \in W THEN [q.edf[t] EXCEPT !.waiting = FALSE] ELSE q.edf[t]]
           p == [q EXCEPT !.edf = T]
           r == AuEDFHandleReleases(q)
<1>1. q.edf \in Table /\ q \in KRec
  BY Parts DEF Sound
<1>2. T \in Table
  <2>1. ASSUME NEW t \in All PROVE T[t] \in Edf /\ (T[t].on => t \in RealTime)
    <3>1. q.edf[t] \in Edf /\ (q.edf[t].on => t \in RealTime)
      BY <1>1 DEF Table
    <3>2. T[t] = q.edf[t] \/ T[t] = [q.edf[t] EXCEPT !.waiting = FALSE]
      OBVIOUS
    <3> HIDE DEF T
    <3> QED
      BY <3>1, <3>2 DEF Edf
  <2> QED
    BY <2>1 DEF Table
<1>3. r = WakeAll(p, "blocked", s)
  BY <1>1 DEF AuEDFHandleReleases, KRec
<1> HIDE DEF T
<1>4. Sound(p) /\ p.list = q.list /\ p.state = q.state /\ p.cur = q.cur /\ p.frame = q.frame
  BY <1>2, EdfOnly
<1>5. s = Selection(p.list["blocked"], I)
  BY <1>4 DEF Released
<1> HIDE DEF p, r, s
<1>6. /\ r \in KRec /\ Arranged(r) /\ LastOff(r) /\ SameRest(p, r)
      /\ \A t \in All : r.state[t] \in {p.state[t], WokenState(p.state[t])}
  <2>1. I \in SUBSET DOMAIN p.list["blocked"]
    BY <1>4
  <2> HIDE DEF I
  <2> QED
    BY <1>3, <1>4, <1>5, <2>1, WakeAllIs DEF Sound
<1> QED
  BY <1>4, <1>6 DEF Sound, SameLeft, SameRest, WokenState, r

\* The next thread becomes the current one.
LEMMA ResumeIs ==
    ASSUME NEW q, Sound(q), NEW t,
           t = Idle \/ (t \in Elems(q.list["ready"]) /\ q.state[t] \in Runnable)
    PROVE  LET r == Resume(q, t) IN
           /\ Sound(r) /\ r.cur = t /\ r.list = q.list /\ r.frame = q.frame
           /\ r.state[t] \in {"READY", "RUNNING"} /\ t \in Elems(r.list["ready"])
           /\ \A u \in All : u # t => r.state[u] = q.state[u]
<1> DEFINE r == Resume(q, t)
           s == CASE q.state[t] = "READY" -> "RUNNING"
                  [] q.state[t] = "LEFT_IN_KERNEL" -> "READY"
                  [] OTHER -> q.state[t]
           S == [q.state EXCEPT ![t] = s]
           P == [q.polling EXCEPT ![t] = q.polling[t] /\ q.state[t] # "LEFT_IN_KERNEL"]
           w == q.wild \/ (q.state[t] = "LEFT_IN_KERNEL") # (q.frame[t] = "handoff")
<1>1. /\ q \in KRec /\ q.state \in [All -> ThreadStates] /\ q.polling \in [All -> BOOLEAN]
      /\ q.wild \in BOOLEAN /\ \A l \in Lists : Elems(q.list[l]) \subseteq All
  BY Parts DEF Sound
<1>2. t \in Elems(q.list["ready"]) /\ t \in All /\ q.state[t] \in {"READY", "RUNNING", "LEFT_IN_KERNEL"}
  BY <1>1 DEF Sound, Arranged, Runnable, Lists
<1>3. r = [q EXCEPT !.cur = t, !.state = S, !.polling = P, !.wild = w]
  BY <1>1 DEF Resume, KRec
<1>4. s \in {"READY", "RUNNING"}
  BY <1>2
<1> HIDE DEF s
<1>5. S \in [All -> ThreadStates] /\ S[t] = s /\ \A u \in All : u # t => S[u] = q.state[u]
  BY <1>1, <1>2, <1>4 DEF ThreadStates
<1>6. P \in [All -> BOOLEAN] /\ w \in BOOLEAN
  BY <1>1
<1> HIDE DEF r, S, P, w
<1>7. /\ r \in KRec /\ r.list = q.list /\ r.cur = t /\ r.state = S /\ r.frame = q.frame
  BY <1>1, <1>2, <1>3, <1>5, <1>6 DEF KRec
<1>8. Sound(r)
  <2>1. \A u \in All : \/ r.state[u] = q.state[u]
                       \/ /\ q.state[u] \in {"READY", "RUNNING", "LEFT_IN_KERNEL"}
                          /\ u \in Elems(q.list["ready"])
                          /\ r.state[u] \in {"READY", "RUNNING"}
    BY <1>2, <1>4, <1>5, <1>7
  <2> QED
    BY <1>2, <1>7, <2>1, Restated
<1> QED
  BY <1>2, <1>4, <1>5, <1>7, <1>8 DEF r

\* AuScheduleThread: the next thread is a ready one, and whoever does not run now
\* keeps the way it left the CPU; the thread interrupted leaves an exception frame.
LEMMA ScheduleIs ==
    ASSUME NEW q, Sound(q)
    PROVE  LET r == AuScheduleThread(q) IN
           /\ Sound(r)
           /\ r.cur \in Elems(r.list["ready"]) /\ r.state[r.cur] \in {"READY", "RUNNING"}
           /\ \A t \in All : t # r.cur =>
                 /\ (r.state[t] = "LEFT_IN_KERNEL") = (q.state[t] = "LEFT_IN_KERNEL")
                 /\ r.frame[t] = IF t = q.cur THEN "exception" ELSE q.frame[t]
<1> DEFINE a == Captured(q)
           b == AuHandleSleepThreads(a)
           c == AuEDFHandleReleases(b)
           n == AA64NextThread(c)
           r == Resume(c, n)
<1>1. /\ Sound(a) /\ SameLeft(q, a) /\ a.cur = q.cur
      /\ \A t \in All : a.frame[t] = IF t = q.cur THEN "exception" ELSE q.frame[t]
  BY CapturedIs
<1> HIDE DEF a
<1>2. Sound(b) /\ SameLeft(a, b) /\ SameRest(a, b)
  BY <1>1, SleepersIs
<1> HIDE DEF b
<1>3. Sound(c) /\ SameLeft(b, c) /\ c.cur = b.cur /\ c.frame = b.frame
  BY <1>2, ReleasesIs
<1> HIDE DEF c
<1>4. n = Idle \/ (n \in Elems(c.list["ready"]) /\ c.state[n] \in Runnable)
  BY <1>3, NextIs DEF Sound
<1> HIDE DEF n
<1>5. /\ Sound(r) /\ r.cur = n /\ r.frame = c.frame
      /\ r.state[n] \in {"READY", "RUNNING"} /\ n \in Elems(r.list["ready"])
      /\ \A u \in All : u # n => r.state[u] = c.state[u]
  BY <1>3, <1>4, ResumeIs
<1>6. AuScheduleThread(q) = r
  BY DEF AuScheduleThread, a, b, c, n
<1> HIDE DEF r
<1>7. SameLeft(q, c)
  BY <1>1, <1>2, <1>3 DEF SameLeft
<1> QED
  BY <1>1, <1>2, <1>3, <1>5, <1>6, <1>7 DEF SameLeft, SameRest

\* AuScheduleNext: the thread leaves the CPU from inside the kernel.
LEMMA LeaveIs ==
    ASSUME NEW q, Sound(q), q.cur # Idle
    PROVE  LET r == LeaveKernel(q) IN
           /\ r \in KRec /\ r.list = q.list /\ r.cur = q.cur /\ r.frame = q.frame
           /\ r.state[q.cur] = "LEFT_IN_KERNEL"
           /\ \A t \in All : t # q.cur => r.state[t] = q.state[t]
           /\ Sound(r)
<1> DEFINE r == LeaveKernel(q)
           S == [q.state EXCEPT ![q.cur] = "LEFT_IN_KERNEL"]
<1>1. /\ q \in KRec /\ q.state \in [All -> ThreadStates] /\ q.cur \in All
      /\ \A l \in Lists : Elems(q.list[l]) \subseteq All
  BY Parts DEF Sound
<1>2. r = [q EXCEPT !.state = S]
  BY <1>1 DEF LeaveKernel, KRec
<1>3. /\ S \in [All -> ThreadStates] /\ S[q.cur] = "LEFT_IN_KERNEL"
      /\ \A t \in All : t # q.cur => S[t] = q.state[t]
  BY <1>1 DEF ThreadStates
<1> HIDE DEF r, S
<1>4. r \in KRec /\ r.list = q.list /\ r.cur = q.cur /\ r.frame = q.frame /\ r.state = S
  BY <1>1, <1>2, <1>3 DEF KRec
<1>5. Arranged(r)
  <2>1. ASSUME NEW l \in Lists, NEW t \in Elems(r.list[l]) PROVE r.state[t] \in Allowed(l)
    <3>1. t \in All /\ t \in Elems(q.list[l]) /\ l # "trash"
      <4>1. Elems(<<>>) = {}
        BY DEF Elems
      <4> QED
        BY <1>1, <1>4, <2>1, <4>1 DEF Sound, Arranged
    <3>2. CASE t = q.cur
      BY <1>3, <1>4, <3>1, <3>2 DEF Allowed, Lists
    <3>3. CASE t # q.cur
      BY <1>3, <1>4, <3>1, <3>3 DEF Sound, Arranged
    <3> QED
      BY <3>2, <3>3
  <2>2. Idle \in Elems(r.list["ready"]) /\ r.state[Idle] \in {"READY", "RUNNING"}
    <3>1. Idle \in All
      BY DEF All
    <3> QED
      BY <1>3, <1>4, <3>1 DEF Sound, Arranged
  <2> QED
    BY <1>4, <2>1, <2>2 DEF Sound, Arranged
<1>6. LastOff(r)
  BY <1>4 DEF Sound, LastOff
<1> QED
  BY <1>3, <1>4, <1>5, <1>6 DEF r, Sound

\* And the idle thread goes on from its entry.
LEMMA HandOffIs ==
    ASSUME NEW q, Sound(q)
    PROVE  LET r == HandOff(q) IN
           /\ Sound(r) /\ r.list = q.list /\ r.cur = Idle /\ r.state = q.state
           /\ q.cur # Idle => r.frame[q.cur] = "handoff"
           /\ \A t \in All : t # q.cur /\ t # Idle => r.frame[t] = q.frame[t]
<1> DEFINE r == HandOff(q)
           F == [q.frame EXCEPT ![q.cur] = "handoff", ![Idle] = "entry"]
<1>1. q \in KRec /\ q.frame \in [All -> Frames] /\ q.cur \in All /\ Idle \in All
  BY Parts DEF Sound, All
<1>2. r = [q EXCEPT !.frame = F, !.cur = Idle]
  BY <1>1 DEF HandOff, KRec
<1>3. /\ F \in [All -> Frames] /\ (q.cur # Idle => F[q.cur] = "handoff")
      /\ \A t \in All : t # q.cur /\ t # Idle => F[t] = q.frame[t]
  BY <1>1 DEF Frames
<1> HIDE DEF r, F
<1>4. r \in KRec /\ r.list = q.list /\ r.cur = Idle /\ r.frame = F /\ r.state = q.state
  BY <1>1, <1>2, <1>3 DEF KRec
<1>5. Sound(r)
  <2>1. Idle \in Elems(q.list["ready"])
    BY DEF Sound, Arranged
  <2> QED
    BY <1>4, <2>1, Restated
<1> QED
  BY <1>3, <1>4, <1>5 DEF r

-----------------------------------------------------------------------------
(* Parking and waking *)

\* A thread of the CPU moves from the ready list to the one it waits on.
LEMMA ParkIs ==
    ASSUME NEW q, Sound(q), NEW t \in Threads, q.cur = t, t \in Elems(q.list["ready"]),
           NEW to \in {"blocked", "sleep"},
           NEW p \in KRec, p.list = q.list, p.cur = q.cur, p.frame = q.frame,
           \A u \in All : u # t => p.state[u] = q.state[u],
           p.state[t] \in Allowed(to)
    PROVE  LET r == Move(p, "ready", to, t) IN
           /\ Sound(r) /\ r.cur = t /\ r.frame = q.frame /\ r.state[t] = p.state[t]
           /\ \A u \in All : u # t => r.state[u] = q.state[u]
<1> DEFINE r == Move(p, "ready", to, t)
<1>1. /\ "ready" \in Lists \ {"trash"} /\ to \in Lists \ {"trash"} /\ to # "ready" /\ t \in All
      /\ q \in KRec /\ Arranged(q) /\ LastOff(q)
  BY DEF Lists, All, Sound
<1>2. Arranged(r) /\ LastOff(r)
  BY <1>1, MoveArranged
<1>3. r = [p EXCEPT !.list = r.list] /\ r \in KRec
  BY <1>1, MoveIs
<1> HIDE DEF r
<1>4. r.cur = p.cur /\ r.frame = p.frame /\ r.state = p.state
  BY <1>3 DEF KRec
<1> QED
  BY <1>2, <1>3, <1>4 DEF Sound, r

\* AuBlockThread of the current thread.
LEMMA BlockIs ==
    ASSUME NEW q, Sound(q), NEW t \in Threads, q.cur = t, t \in Elems(q.list["ready"])
    PROVE  LET r == AuBlockThread(q, t) IN
           /\ Sound(r) /\ r.cur = t /\ r.frame = q.frame /\ r.state[t] = "BLOCKED"
           /\ \A u \in All : u # t => r.state[u] = q.state[u]
<1> DEFINE p == [q EXCEPT !.state[t] = "BLOCKED"]
<1>1. q \in KRec /\ q.state \in [All -> ThreadStates] /\ t \in All
  BY Parts DEF Sound, All
<1>2. /\ p \in KRec /\ p.list = q.list /\ p.cur = q.cur /\ p.frame = q.frame
      /\ p.state[t] = "BLOCKED" /\ \A u \in All : u # t => p.state[u] = q.state[u]
  BY <1>1 DEF KRec, ThreadStates
<1> HIDE DEF p
<1>3. p.state[t] \in Allowed("blocked")
  BY <1>2 DEF Allowed
<1> DEFINE r == Move(p, "ready", "blocked", t)
<1>4. /\ Sound(r) /\ r.cur = t /\ r.frame = q.frame /\ r.state[t] = p.state[t]
      /\ \A u \in All : u # t => r.state[u] = q.state[u]
  BY <1>2, <1>3, ParkIs
<1>5. AuBlockThread(q, t) = r
  BY DEF AuBlockThread, p
<1> HIDE DEF r
<1> QED
  BY <1>2, <1>4, <1>5

\* AuSleepThread of the current thread.
LEMMA SleepIs ==
    ASSUME NEW q, Sound(q), NEW t \in Threads, q.cur = t, t \in Elems(q.list["ready"]),
           NEW nap \in 1 .. MaxNap
    PROVE  LET r == AuSleepThread(q, t, nap) IN
           /\ Sound(r) /\ r.cur = t /\ r.frame = q.frame /\ r.state[t] = "SLEEP"
           /\ \A u \in All : u # t => r.state[u] = q.state[u]
<1> DEFINE p == [q EXCEPT !.state[t] = "SLEEP", !.until[t] = nap]
           S == [q.state EXCEPT ![t] = "SLEEP"]
           N == [q.until EXCEPT ![t] = nap]
<1>1. /\ q \in KRec /\ q.state \in [All -> ThreadStates] /\ q.until \in [All -> 0 .. MaxNap]
      /\ t \in All
  BY Parts DEF Sound, All
<1>2. p = [q EXCEPT !.state = S, !.until = N]
  BY <1>1 DEF KRec
<1>3. /\ S \in [All -> ThreadStates] /\ S[t] = "SLEEP" /\ \A u \in All : u # t => S[u] = q.state[u]
      /\ N \in [All -> 0 .. MaxNap]
  BY <1>1, SchedConstants DEF ThreadStates
<1> HIDE DEF p, S, N
<1>4. /\ p \in KRec /\ p.list = q.list /\ p.cur = q.cur /\ p.frame = q.frame /\ p.state = S
  BY <1>1, <1>2, <1>3 DEF KRec
<1>5. p.state[t] \in Allowed("sleep")
  BY <1>3, <1>4 DEF Allowed
<1> DEFINE r == Move(p, "ready", "sleep", t)
<1>6. /\ Sound(r) /\ r.cur = t /\ r.frame = q.frame /\ r.state[t] = p.state[t]
      /\ \A u \in All : u # t => r.state[u] = q.state[u]
  BY <1>3, <1>4, <1>5, ParkIs
<1>7. AuSleepThread(q, t, nap) = r
  BY DEF AuSleepThread, p
<1> HIDE DEF r
<1> QED
  BY <1>3, <1>4, <1>6, <1>7

\* AuPoll marks the thread as one that polls.
LEMMA PollingOnly ==
    ASSUME NEW q, Sound(q), NEW t \in Threads, NEW b \in BOOLEAN
    PROVE  LET r == [q EXCEPT !.polling[t] = b] IN
           Sound(r) /\ r.list = q.list /\ r.state = q.state /\ r.cur = q.cur /\ r.frame = q.frame
<1> DEFINE r == [q EXCEPT !.polling[t] = b]
<1>1. q \in KRec /\ q.polling \in [All -> BOOLEAN] /\ t \in All
  BY Parts DEF Sound, All
<1>2. r \in KRec /\ r.list = q.list /\ r.state = q.state /\ r.cur = q.cur /\ r.frame = q.frame
  BY <1>1 DEF KRec
<1> HIDE DEF r
<1>3. Sound(r)
  BY <1>2 DEF Sound, Arranged, LastOff
<1> QED
  BY <1>2, <1>3 DEF r

\* What a waker leaves alone: who runs, how threads left, and who was ready.
Woke(q, r) ==
    /\ Sound(r) /\ SameLeft(q, r) /\ r.cur = q.cur /\ r.frame = q.frame
    /\ \A t \in Elems(q.list["ready"]) : t \in Elems(r.list["ready"]) /\ r.state[t] = q.state[t]

\* A thread that waits is woken: it is moved from its list to the ready list.
LEMMA WakeIs ==
    ASSUME NEW q, Sound(q), NEW t \in Threads, NEW from \in {"blocked", "sleep"},
           t \in Elems(q.list[from])
    PROVE  Woke(q, Move(Woken(q, t), from, "ready", t))
<1> DEFINE p == Woken(q, t)
           r == Move(p, from, "ready", t)
           S == [q.state EXCEPT ![t] = WokenState(q.state[t])]
           N == [q.until EXCEPT ![t] = 0]
<1>1. /\ q \in KRec /\ q.state \in [All -> ThreadStates] /\ q.until \in [All -> 0 .. MaxNap]
      /\ t \in All /\ "ready" \in Lists \ {"trash"} /\ from \in Lists \ {"trash"} /\ from # "ready"
      /\ Arranged(q) /\ LastOff(q)
  BY Parts DEF Sound, All, Lists
<1>2. p = [q EXCEPT !.state = S, !.until = N]
  BY <1>1 DEF Woken, KRec
<1>3. WokenState(q.state[t]) \in {"READY", "LEFT_IN_KERNEL"}
  BY DEF WokenState
<1>4. /\ S \in [All -> ThreadStates] /\ S[t] = WokenState(q.state[t])
      /\ \A u \in All : u # t => S[u] = q.state[u]
      /\ N \in [All -> 0 .. MaxNap]
  BY <1>1, <1>3, SchedConstants DEF ThreadStates
<1> HIDE DEF p, S, N
<1>5. /\ p \in KRec /\ p.list = q.list /\ p.cur = q.cur /\ p.frame = q.frame /\ p.state = S
  BY <1>1, <1>2, <1>4 DEF KRec
<1>6. p.state[t] \in Allowed("ready")
  BY <1>3, <1>4, <1>5 DEF Allowed
<1>7. Arranged(r) /\ LastOff(r)
  BY <1>1, <1>4, <1>5, <1>6, MoveArranged
<1>8. /\ r = [p EXCEPT !.list = r.list] /\ r \in KRec
      /\ Elems(r.list["ready"]) = Elems(p.list["ready"]) \cup {t}
  <2>1. /\ from \in Lists /\ "ready" \in Lists /\ from # "ready" /\ t \in All
        /\ p \in KRec /\ t \in Elems(p.list[from])
    BY <1>1, <1>5
  <2> HIDE DEF r
  <2>2. /\ r = [p EXCEPT !.list = r.list] /\ r \in KRec
        /\ Elems(r.list["ready"]) = Elems(p.list["ready"]) \cup {t}
    BY <2>1, MoveIs DEF r
  <2> QED
    BY <2>2
<1> HIDE DEF r
<1>9. r.cur = p.cur /\ r.frame = p.frame /\ r.state = p.state
  BY <1>5, <1>8 DEF KRec
<1>10. SameLeft(q, r)
  BY <1>4, <1>5, <1>9 DEF SameLeft, WokenState
<1>11. ASSUME NEW u \in Elems(q.list["ready"])
       PROVE  u \in Elems(r.list["ready"]) /\ r.state[u] = q.state[u]
  <2>1. u \in All
    BY <1>1, Parts
  <2>2. u # t
    BY <1>1 DEF Arranged
  <2> QED
    BY <1>4, <1>5, <1>8, <1>9, <2>1, <2>2
<1>12. Woke(q, r)
  BY <1>5, <1>7, <1>8, <1>9, <1>10, <1>11 DEF Woke, Sound
<1> QED
  BY <1>12 DEF r, p

\* AuUnblockThread of a thread that is blocked.
LEMMA UnblockIs ==
    ASSUME NEW q, Sound(q), NEW t \in Threads, t \in Elems(q.list["blocked"])
    PROVE  Woke(q, AuUnblockThread(q, t))
BY WakeIs, OnListIs DEF AuUnblockThread

\* The state of a thread tells the list it is on, unless it left from the kernel.
LEMMA StateTells ==
    ASSUME NEW q, Sound(q), NEW t \in All
    PROVE  /\ q.state[t] = "SLEEP" => t \in Elems(q.list["sleep"])
           /\ q.state[t] = "BLOCKED" => t \in Elems(q.list["blocked"])
<1>1. PICK l \in Lists : t \in Elems(q.list[l])
  BY DEF Sound, Arranged
<1>2. q.state[t] \in Allowed(l)
  BY <1>1 DEF Sound, Arranged
<1> QED
  BY <1>1, <1>2 DEF Allowed, Lists

\* AuThreadMakeReady wakes a thread that sleeps or is blocked.
LEMMA MakeReadyIs ==
    ASSUME NEW q, Sound(q), NEW t \in Threads
    PROVE  Woke(q, AuThreadMakeReady(q, t))
<1>1. t \in All
  BY DEF All
<1>2. CASE q.state[t] = "SLEEP"
  <2>1. t \in Elems(q.list["sleep"])
    BY <1>1, <1>2, StateTells
  <2>2. AuThreadMakeReady(q, t) = Move(Woken(q, t), "sleep", "ready", t)
    BY <1>2 DEF AuThreadMakeReady
  <2> QED
    BY <2>1, <2>2, WakeIs
<1>3. CASE q.state[t] = "BLOCKED"
  <2>1. t \in Elems(q.list["blocked"])
    BY <1>1, <1>3, StateTells
  <2>2. AuThreadMakeReady(q, t) = AuUnblockThread(q, t)
    BY <1>3 DEF AuThreadMakeReady
  <2> QED
    BY <2>1, <2>2, UnblockIs
<1>4. CASE q.state[t] # "SLEEP" /\ q.state[t] # "BLOCKED"
  BY <1>4 DEF AuThreadMakeReady, Woke, SameLeft
<1> QED
  BY <1>2, <1>3, <1>4

\* AuThreadWakePoller wakes a thread that polls.
LEMMA WakePollerIs ==
    ASSUME NEW q, Sound(q), NEW t \in Threads
    PROVE  Woke(q, AuThreadWakePoller(q, t))
<1>1. Woke(q, q)
  BY DEF Woke, SameLeft
<1> QED
  BY <1>1, WakeIs, OnListIs DEF AuThreadWakePoller

-----------------------------------------------------------------------------
(* Reservations and time *)

\* Nothing but the reservation table, the utilisation and the sleeps is changed.
SameLists(q, r) == r.list = q.list /\ r.state = q.state /\ r.cur = q.cur /\ r.frame = q.frame

\* Then the lists stay as they should be.
LEMMA SameListsSound ==
    ASSUME NEW q, Sound(q), NEW r \in KRec, SameLists(q, r)
    PROVE  Sound(r)
BY DEF SameLists, Sound, Arranged, LastOff

\* The reservation of a real-time thread, and what it takes of the CPU.
LEMMA ReservationIs ==
    ASSUME NEW q \in KRec, NEW t \in RealTime
    PROVE  /\ t \in All /\ t \in Threads /\ Period[t] \in Nat \ {0} /\ q.edf[t] \in Edf
           /\ \A c \in Nat : edf_job_util_q16(t, c) \in Int
           /\ Share(q, t) \in Int /\ NextRelease(q, t) \in Int
<1>1. t \in All /\ t \in Threads /\ Period[t] \in Nat \ {0}
  BY ListConstants DEF All
<1>2. q.edf[t] \in Edf
  BY <1>1, Parts DEF Table
<1>3. ASSUME NEW c \in Nat PROVE edf_job_util_q16(t, c) \in Int
  <2>1. c * One \in Int
    BY DEF One
  <2> QED
    BY <1>1, <2>1 DEF edf_job_util_q16
<1>4. Share(q, t) \in Int
  BY <1>2, <1>3 DEF Share, Edf
<1>5. deadline(q, t) \in Int
  BY <1>1, <1>2 DEF deadline, Edf
<1>6. NextRelease(q, t) \in Int
  <2> DEFINE n == IF deadline(q, t) <= 0 THEN (-deadline(q, t)) \div Period[t] + 1 ELSE 0
  <2>1. n \in Int
    BY <1>1, <1>5
  <2>2. n * Period[t] \in Int
    <3> HIDE DEF n
    <3> QED
      BY <1>1, <2>1
  <2>3. NextRelease(q, t) = deadline(q, t) + n * Period[t]
    BY DEF NextRelease
  <2> HIDE DEF n
  <2> QED
    BY <1>5, <2>2, <2>3
<1> QED
  BY <1>1, <1>2, <1>3, <1>4, <1>6

\* AuEDFSetParams.
LEMMA SetParamsIs ==
    ASSUME NEW q, Sound(q), NEW t \in RealTime, NEW c \in Nat
    PROVE  LET r == AuEDFSetParams(q, t, c) IN Sound(r) /\ SameLists(q, r)
<1> DEFINE e == [on |-> TRUE, wcet |-> c, waiting |-> FALSE, release |-> 0]
           T == [q.edf EXCEPT ![t] = e]
           u == q.util - Share(q, t) + edf_job_util_q16(t, c)
           r == [q EXCEPT !.util = u, !.edf = T]
<1>1. q \in KRec /\ q.edf \in Table /\ q.util \in Int
  BY Parts DEF Sound
<1>2. t \in All /\ u \in Int
  BY <1>1, ReservationIs
<1>3. T \in Table
  <2>1. e \in Edf
    BY DEF Edf
  <2>2. e.on => t \in RealTime
    OBVIOUS
  <2> HIDE DEF e
  <2> QED
    BY <1>1, <1>2, <2>1, <2>2 DEF Table
<1>4. AuEDFSetParams(q, t, c) \in {q, r}
  BY <1>1 DEF AuEDFSetParams, KRec
<1> HIDE DEF u, T
<1>5. r \in KRec /\ SameLists(q, r)
  BY <1>1, <1>2, <1>3 DEF KRec, SameLists
<1> HIDE DEF r
<1>6. Sound(r)
  BY <1>5, SameListsSound
<1> QED
  BY <1>4, <1>5, <1>6 DEF SameLists

\* AuEDFRemove.
LEMMA RemoveIs ==
    ASSUME NEW q, Sound(q), NEW t \in RealTime
    PROVE  LET r == AuEDFRemove(q, t) IN Sound(r) /\ SameLists(q, r)
<1> DEFINE T == [q.edf EXCEPT ![t] = NoEdf]
           u == q.util - Share(q, t)
           r == [q EXCEPT !.util = u, !.edf = T]
<1>1. q \in KRec /\ q.edf \in Table /\ q.util \in Int
  BY Parts DEF Sound
<1>2. t \in All /\ u \in Int
  BY <1>1, ReservationIs
<1>3. T \in Table
  <2>1. NoEdf \in Edf /\ ~NoEdf.on
    BY DEF Edf, NoEdf
  <2> QED
    BY <1>1, <1>2, <2>1 DEF Table
<1>4. AuEDFRemove(q, t) \in {q, r}
  BY <1>1 DEF AuEDFRemove, KRec
<1> HIDE DEF u, T
<1>5. r \in KRec /\ SameLists(q, r)
  BY <1>1, <1>2, <1>3 DEF KRec, SameLists
<1> HIDE DEF r
<1>6. Sound(r)
  BY <1>5, SameListsSound
<1> QED
  BY <1>4, <1>5, <1>6 DEF SameLists

\* The end of a job: the thread waits for its next release.
LEMMA EndJobIs ==
    ASSUME NEW q, Sound(q), NEW t \in RealTime, q.edf[t].on,
           q.cur = t, t \in Elems(q.list["ready"])
    PROVE  LET r == EndJob(q, t) IN
           /\ Sound(r) /\ r.cur = t /\ r.frame = q.frame /\ r.state[t] = "BLOCKED"
           /\ \A u \in All : u # t => r.state[u] = q.state[u]
<1> DEFINE n == NextRelease(q, t)
           e == [q.edf[t] EXCEPT !.release = n, !.waiting = TRUE]
           T == [q.edf EXCEPT ![t] = e]
           p == [q EXCEPT !.edf[t].release = n, !.edf[t].waiting = TRUE]
<1>1. q \in KRec /\ q.edf \in Table
  BY Parts DEF Sound
<1>2. t \in All /\ t \in Threads /\ q.edf[t] \in Edf /\ n \in Int
  BY <1>1, ReservationIs
<1>3. p = [q EXCEPT !.edf = T]
  <2> HIDE DEF n
  <2> QED
    BY <1>1, <1>2 DEF KRec, Table, Edf
<1>4. T \in Table
  <2> HIDE DEF n
  <2>1. e \in Edf
    BY <1>2 DEF Edf
  <2> HIDE DEF e
  <2> QED
    BY <1>1, <1>2, <2>1 DEF Table
<1> HIDE DEF T, p
<1>5. Sound(p) /\ p.list = q.list /\ p.state = q.state /\ p.cur = q.cur /\ p.frame = q.frame
  BY <1>3, <1>4, EdfOnly
<1>6. EndJob(q, t) = AuBlockThread(p, t)
  BY DEF EndJob, p
<1> DEFINE r == AuBlockThread(p, t)
<1>7. /\ Sound(r) /\ r.cur = t /\ r.frame = p.frame /\ r.state[t] = "BLOCKED"
      /\ \A u \in All : u # t => r.state[u] = p.state[u]
  BY <1>2, <1>5, BlockIs
<1> HIDE DEF r
<1> QED
  BY <1>5, <1>6, <1>7 DEF r

\* A tick of time.
LEMMA AgedIs ==
    ASSUME NEW q, Sound(q)
    PROVE  Sound(Aged(q)) /\ SameLists(q, Aged(q))
<1> DEFINE N == [t \in All |-> IF q.until[t] > 0 THEN q.until[t] - 1 ELSE 0]
           T == [t \in All |-> IF q.edf[t].on THEN [q.edf[t] EXCEPT !.release = q.edf[t].release - 1]
                               ELSE q.edf[t]]
           r == [q EXCEPT !.until = N, !.edf = T]
<1>1. q \in KRec /\ q.edf \in Table /\ q.until \in [All -> 0 .. MaxNap]
  BY Parts DEF Sound
<1>2. N \in [All -> 0 .. MaxNap]
  BY <1>1, SchedConstants
<1>3. T \in Table
  <2>1. ASSUME NEW t \in All PROVE T[t] \in Edf /\ (T[t].on => t \in RealTime)
    <3>1. q.edf[t] \in Edf /\ (q.edf[t].on => t \in RealTime)
      BY <1>1 DEF Table
    <3>2. T[t] = q.edf[t] \/ T[t] = [q.edf[t] EXCEPT !.release = q.edf[t].release - 1]
      OBVIOUS
    <3> HIDE DEF T
    <3> QED
      BY <3>1, <3>2 DEF Edf
  <2> QED
    BY <2>1 DEF Table
<1>4. Aged(q) = r
  BY <1>1 DEF Aged, KRec
<1> HIDE DEF N, T
<1>5. r \in KRec /\ SameLists(q, r)
  BY <1>1, <1>2, <1>3 DEF KRec, SameLists
<1> HIDE DEF r
<1>6. Sound(r)
  BY <1>5, SameListsSound
<1> QED
  BY <1>4, <1>5, <1>6

-----------------------------------------------------------------------------
(* The inductive invariant *)

\* Threads that are not running and entered the kernel masked left a frame that fits.
Fits(q) ==
    \A t \in Threads \ Unmasked :
        t # q.cur => (q.state[t] = "LEFT_IN_KERNEL") = (q.frame[t] = "handoff")

\* The thread on the CPU is ready, unless it is on its way out.
AtWork(q) == q.cur \in Elems(q.list["ready"]) /\ q.state[q.cur] \in {"READY", "RUNNING"}

OnCpu == k.cur # Idle /\ pc[k.cur] = "run" => AtWork(k)

IInv ==
    /\ Sound(k)
    /\ Fits(k)
    /\ OnCpu
    /\ pc \in [Threads -> {"run", "parked", "leaving"}]
    /\ \A t \in Threads \ Unmasked : pc[t] = "run"
    /\ left \in [Threads -> Nat] /\ asked \subseteq RealTime

\* The idle thread has an id of its own.
LEMMA IdleApart == Idle \notin Threads /\ Idle \in All /\ Threads \subseteq All
BY ListConstants DEF Idle, All

\* AuScheduleThread keeps frames that fit, unless it interrupts a masked thread that
\* has left already.
LEMMA ScheduleFits ==
    ASSUME NEW q, Sound(q), Fits(q),
           q.cur \in Threads \ Unmasked => q.state[q.cur] # "LEFT_IN_KERNEL"
    PROVE  LET r == AuScheduleThread(q) IN Sound(r) /\ Fits(r) /\ AtWork(r)
<1> DEFINE r == AuScheduleThread(q)
<1>1. /\ Sound(r)
      /\ r.cur \in Elems(r.list["ready"]) /\ r.state[r.cur] \in {"READY", "RUNNING"}
      /\ \A t \in All : t # r.cur =>
            /\ (r.state[t] = "LEFT_IN_KERNEL") = (q.state[t] = "LEFT_IN_KERNEL")
            /\ r.frame[t] = IF t = q.cur THEN "exception" ELSE q.frame[t]
  BY ScheduleIs
<1> HIDE DEF r
<1>2. ASSUME NEW t \in Threads \ Unmasked, t # r.cur
      PROVE  (r.state[t] = "LEFT_IN_KERNEL") = (r.frame[t] = "handoff")
  <2>1. t \in All
    BY IdleApart
  <2>2. CASE t = q.cur
    BY <1>1, <1>2, <2>1, <2>2
  <2>3. CASE t # q.cur
    BY <1>1, <1>2, <2>1, <2>3 DEF Fits
  <2> QED
    BY <2>2, <2>3
<1> QED
  BY <1>1, <1>2 DEF Fits, AtWork, r

\* AuScheduleNext stores the frame that fits the state it has set.
LEMMA NextFits ==
    ASSUME NEW q, Sound(q), Fits(q), q.cur # Idle
    PROVE  LET r == AuScheduleNext(q) IN Sound(r) /\ Fits(r) /\ r.cur = Idle
<1> DEFINE p == LeaveKernel(q)
           r == HandOff(p)
<1>1. /\ p.cur = q.cur /\ p.frame = q.frame /\ p.state[q.cur] = "LEFT_IN_KERNEL"
      /\ \A t \in All : t # q.cur => p.state[t] = q.state[t]
      /\ Sound(p)
  BY LeaveIs
<1> HIDE DEF p
<1>2. /\ Sound(r) /\ r.cur = Idle /\ r.state = p.state /\ r.frame[p.cur] = "handoff"
      /\ \A t \in All : t # p.cur /\ t # Idle => r.frame[t] = p.frame[t]
  BY <1>1, HandOffIs
<1>3. AuScheduleNext(q) = r
  BY DEF AuScheduleNext, p
<1> HIDE DEF r
<1>4. ASSUME NEW t \in Threads \ Unmasked
      PROVE  (r.state[t] = "LEFT_IN_KERNEL") = (r.frame[t] = "handoff")
  <2>1. t \in All /\ t # Idle
    BY IdleApart
  <2>2. CASE t = q.cur
    BY <1>1, <1>2, <2>2
  <2>3. CASE t # q.cur
    <3>1. /\ r.state[t] = q.state[t] /\ r.frame[t] = q.frame[t]
      BY <1>1, <1>2, <2>1, <2>3
    <3> QED
      BY <2>3, <3>1 DEF Fits
  <2> QED
    BY <2>2, <2>3
<1> QED
  BY <1>2, <1>3, <1>4 DEF Fits

\* So does every function that moves the current thread only.
LEMMA ParkFits ==
    ASSUME NEW q, Fits(q), NEW r, r.cur = q.cur, r.frame = q.frame,
           \A u \in All : u # q.cur => r.state[u] = q.state[u]
    PROVE  Fits(r)
BY IdleApart DEF Fits

\* And every waker, which leaves the thread on the CPU alone.
LEMMA WokeFits ==
    ASSUME NEW q, Sound(q), Fits(q), NEW r, Woke(q, r)
    PROVE  Sound(r) /\ Fits(r) /\ r.cur = q.cur /\ (AtWork(q) => AtWork(r))
BY IdleApart DEF Fits, Woke, SameLeft, AtWork

\* Threads as they are created, in the order of their ids.
LEMMA InitialIs ==
    ASSUME NEW order \in [1 .. Cardinality(Threads) -> Threads],
           \A t \in Threads : \E i \in DOMAIN order : order[i] = t,
           \A i, j \in DOMAIN order : i < j => order[i] < order[j]
    PROVE  LET q == InitialK(order) IN Sound(q) /\ Fits(q) /\ q.cur = Idle
<1> DEFINE n == Cardinality(Threads)
           s == <<Idle>> \o order
           q == InitialK(order)
           L == [l \in Lists |-> IF l = "ready" THEN s ELSE <<>>]
<1>1. n \in Nat
  BY ListConstants, FS_CardinalityType
<1>2. order \in Seq(All) /\ Elems(order) = Threads /\ Simple(order)
  <2>1. order \in Seq(Threads)
    <3> HIDE DEF n
    <3> QED
      BY <1>1 DEF n
  <2>2. order \in Seq(All)
    <3>1. \A i \in DOMAIN order : order[i] \in All
      BY IdleApart
    <3> HIDE DEF n
    <3>2. order \in [1 .. n -> All]
      BY <3>1 DEF n
    <3> QED
      BY <1>1, <3>2
  <2>3. ASSUME NEW i \in DOMAIN order, NEW j \in DOMAIN order, order[i] = order[j] PROVE i = j
    <3> HIDE DEF n
    <3>1. i \in 1 .. n /\ j \in 1 .. n /\ order[i] \in Threads
      BY DEF n
    <3>2. order[i] \in Int
      <4>1. \A t \in Threads : t \in Int
        BY ListConstants
      <4> QED
        BY <3>1, <4>1
    <3>3. (i < j => order[i] < order[j]) /\ (j < i => order[j] < order[i])
      OBVIOUS
    <3>4. ~(i < j) /\ ~(j < i)
      BY <2>3, <3>2, <3>3
    <3> QED
      BY <1>1, <3>1, <3>4
  <2> QED
    BY <2>2, <2>3 DEF Elems, Simple
<1>3. <<Idle>> \in Seq(All) /\ Elems(<<Idle>>) = {Idle} /\ Simple(<<Idle>>)
  <2>1. DOMAIN <<Idle>> = {1}
    OBVIOUS
  <2> QED
    BY <2>1, IdleApart DEF Elems, Simple
<1>4. s \in Seq(All) /\ Elems(s) = All /\ Simple(s)
  <2>1. Elems(<<Idle>>) \cap Elems(order) = {}
    BY <1>2, <1>3, IdleApart
  <2> DEFINE h == <<Idle>>
  <2>2. h \in Seq(All) /\ Elems(h) = {Idle} /\ Simple(h)
    BY <1>3
  <2> HIDE DEF h
  <2>3. /\ h \o order \in Seq(All)
        /\ Elems(h \o order) = Elems(h) \cup Elems(order)
        /\ Simple(h) /\ Simple(order) /\ Elems(h) \cap Elems(order) = {} => Simple(h \o order)
    BY <1>2, <2>2, ConcatIs
  <2>4. s = h \o order
    BY DEF h
  <2> HIDE DEF s
  <2>5. s \in Seq(All) /\ Elems(s) = {Idle} \cup Threads /\ Simple(s)
    BY <1>2, <2>1, <2>2, <2>3, <2>4, IdleApart
  <2> QED
    BY <2>5 DEF All
<1> HIDE DEF s
<1>5. L \in [Lists -> Seq(All)]
  BY <1>4
<1>6. /\ q.list = L /\ q.state = [t \in All |-> "READY"] /\ q.cur = Idle
      /\ q.frame = [t \in All |-> "entry"] /\ q.polling = [t \in All |-> FALSE]
      /\ q.until = [t \in All |-> 0] /\ q.edf = [t \in All |-> NoEdf]
      /\ q.util = 0 /\ q.wild = FALSE
  BY DEF InitialK, s
<1>7. q \in KRec
  <2>1. NoEdf \in Edf /\ ~NoEdf.on
    BY DEF NoEdf, Edf
  <2>2. [t \in All |-> NoEdf] \in Table
    BY <2>1 DEF Table
  <2>3. [t \in All |-> 0] \in [All -> 0 .. MaxNap]
    BY SchedConstants
  <2>4. [t \in All |-> "READY"] \in [All -> ThreadStates]
    BY DEF ThreadStates
  <2>5. [t \in All |-> "entry"] \in [All -> Frames]
    BY DEF Frames
  <2>6. [t \in All |-> FALSE] \in [All -> BOOLEAN] /\ Idle \in All
    BY IdleApart
  <2>7. q = [list |-> L, state |-> [t \in All |-> "READY"], cur |-> Idle,
             frame |-> [t \in All |-> "entry"], polling |-> [t \in All |-> FALSE],
             until |-> [t \in All |-> 0], edf |-> [t \in All |-> NoEdf],
             util |-> 0, wild |-> FALSE]
    BY DEF InitialK, s
  <2> HIDE DEF q, L
  <2> QED
    BY <1>5, <2>2, <2>3, <2>4, <2>5, <2>6, <2>7 DEF KRec
<1>8. /\ Elems(<<>>) = {} /\ Simple(<<>>)
  BY DEF Elems, Simple
<1>9. /\ L["ready"] = s /\ \A l \in Lists \ {"ready"} : L[l] = <<>>
  BY DEF Lists
<1> HIDE DEF q, L
<1>10. Arranged(q)
  <2>1. "ready" \in Lists /\ "trash" \in Lists
    BY DEF Lists
  <2>2. \A l \in Lists : Simple(q.list[l]) /\ Elems(q.list[l]) = IF l = "ready" THEN All ELSE {}
    BY <1>4, <1>6, <1>8, <1>9
  <2>3. \A t \in All : q.state[t] = "READY"
    BY <1>6
  <2>4. "READY" \in Allowed("ready")
    BY DEF Allowed
  <2> QED
    BY <1>6, <1>9, <2>1, <2>2, <2>3, <2>4, IdleApart DEF Arranged
<1>11. LastOff(q)
  BY <1>6, <1>8, <1>9 DEF LastOff
<1>12. Fits(q)
  <2>1. \A t \in Threads : q.state[t] = "READY" /\ q.frame[t] = "entry"
    BY <1>6, IdleApart
  <2> QED
    BY <2>1 DEF Fits
<1> QED
  BY <1>6, <1>7, <1>10, <1>11, <1>12 DEF q, Sound

\* The invariant holds of the scheduler as it starts.
LEMMA InitInvariant == Init => IInv
<1> SUFFICES ASSUME Init PROVE IInv
  OBVIOUS
<1>1. PICK order \in [1 .. Cardinality(Threads) -> Threads] :
         /\ \A t \in Threads : \E i \in DOMAIN order : order[i] = t
         /\ \A i, j \in DOMAIN order : i < j => order[i] < order[j]
         /\ k = InitialK(order)
  BY DEF Init
<1>2. Sound(k) /\ Fits(k) /\ k.cur = Idle
  BY <1>1, InitialIs
<1>3. /\ pc = [t \in Threads |-> "run"] /\ left = [t \in Threads |-> 0] /\ asked = {}
  BY DEF Init
<1> QED
  BY <1>2, <1>3 DEF IInv, OnCpu

\* A masked thread on the CPU has not left it.
LEMMA MaskedIsHere ==
    ASSUME IInv, k.cur \in Threads \ Unmasked
    PROVE  AtWork(k)
BY IdleApart DEF IInv, OnCpu

\* The interrupts of the timer keep the invariant.
LEMMA TimerInvariant ==
    ASSUME IInv, Tick \/ Kick
    PROVE  IInv'
<1>1. k.cur \in Threads \ Unmasked => k.state[k.cur] # "LEFT_IN_KERNEL"
  BY MaskedIsHere DEF AtWork
<1>2. Sound(k) /\ Fits(k)
  BY DEF IInv
<1>3. CASE Tick
  <2> DEFINE q == Aged(k)
  <2>1. Sound(q) /\ SameLists(k, q)
    BY <1>2, AgedIs
  <2>2. k' = AuScheduleThread(q)
    BY <1>3 DEF Tick
  <2> HIDE DEF q
  <2>3. Fits(q) /\ (q.cur \in Threads \ Unmasked => q.state[q.cur] # "LEFT_IN_KERNEL")
    BY <1>1, <1>2, <2>1 DEF Fits, SameLists
  <2>4. Sound(k') /\ Fits(k') /\ AtWork(k')
    BY <2>1, <2>2, <2>3, ScheduleFits
  <2>5. left' \in [Threads -> Nat]
    <3>1. ASSUME NEW t \in Threads, t = k.cur, k.edf[t].on PROVE left[t] - 1 \in Nat
      <4>1. left[t] \in Nat /\ left[t] # 0
        BY <1>3, <3>1, IdleApart DEF Tick, JobOver, IInv
      <4> QED
        BY <4>1
    <3>2. left' = [t \in Threads |-> IF t = k.cur /\ k.edf[t].on THEN left[t] - 1 ELSE left[t]]
      BY <1>3 DEF Tick
    <3>3. left \in [Threads -> Nat]
      BY DEF IInv
    <3> QED
      BY <3>1, <3>2, <3>3
  <2>6. pc' = pc /\ asked' = asked
    BY <1>3 DEF Tick
  <2> QED
    BY <2>4, <2>5, <2>6 DEF IInv, OnCpu
<1>4. CASE Kick
  <2>1. k' = AuScheduleThread(k) /\ pc' = pc /\ asked' = asked /\ left' = left
    BY <1>4 DEF Kick
  <2>2. Sound(k') /\ Fits(k') /\ AtWork(k')
    BY <1>1, <1>2, <2>1, ScheduleFits
  <2> QED
    BY <2>1, <2>2 DEF IInv, OnCpu
<1> QED
  BY <1>3, <1>4

\* The system calls of masked threads keep it.
LEMMA MaskedCallInvariant ==
    ASSUME IInv, NEW t \in Threads,
           \/ svc_block(t) \/ AuPoll(t)
           \/ \E nap \in 1 .. MaxNap :
                 svc_sleep(t, nap) \/ \E poll \in BOOLEAN : AuSchedYieldMs(t, nap, poll)
    PROVE  IInv'
<1>1. k.cur = t /\ t \in Threads \ Unmasked /\ t \in All /\ t # Idle
  BY IdleApart DEF svc_block, AuPoll, svc_sleep, AuSchedYieldMs, BestEffort, Running
<1>2. pc' = pc /\ left' = left /\ asked' = asked
  BY DEF svc_block, AuPoll, svc_sleep, AuSchedYieldMs
<1>3. Sound(k) /\ Fits(k) /\ t \in Elems(k.list["ready"])
  BY <1>1, MaskedIsHere DEF IInv, AtWork
<1>4. ASSUME NEW q, Sound(q), q.cur = t, q.frame = k.frame, q.state[t] \in {"BLOCKED", "SLEEP"},
             \A u \in All : u # t => q.state[u] = k.state[u]
      PROVE  /\ k' = AuScheduleThread(q) => IInv'
             /\ k' = AuScheduleNext(q) => IInv'
  <2>1. Fits(q) /\ q.state[q.cur] # "LEFT_IN_KERNEL"
    BY <1>1, <1>3, <1>4, ParkFits
  <2>2. ASSUME k' = AuScheduleThread(q) PROVE IInv'
    <3>1. Sound(k') /\ Fits(k') /\ AtWork(k')
      BY <1>4, <2>1, <2>2, ScheduleFits
    <3> QED
      BY <1>2, <3>1 DEF IInv, OnCpu
  <2>3. ASSUME k' = AuScheduleNext(q) PROVE IInv'
    <3>1. Sound(k') /\ Fits(k') /\ k'.cur = Idle
      BY <1>1, <1>4, <2>1, <2>3, NextFits
    <3> QED
      BY <1>2, <3>1 DEF IInv, OnCpu
  <2> QED
    BY <2>2, <2>3
<1>5. CASE svc_block(t)
  <2> DEFINE q == AuBlockThread(k, t)
  <2>1. /\ Sound(q) /\ q.cur = t /\ q.frame = k.frame /\ q.state[t] = "BLOCKED"
        /\ \A u \in All : u # t => q.state[u] = k.state[u]
    BY <1>1, <1>3, BlockIs
  <2>2. k' = AuScheduleThread(q)
    BY <1>5 DEF svc_block
  <2> HIDE DEF q
  <2> QED
    BY <1>4, <2>1, <2>2
<1>6. CASE AuPoll(t)
  <2> DEFINE p == [k EXCEPT !.polling[t] = TRUE]
             q == AuBlockThread(p, t)
  <2>1. Sound(p) /\ p.list = k.list /\ p.state = k.state /\ p.cur = k.cur /\ p.frame = k.frame
    BY <1>3, PollingOnly
  <2>2. k' = AuScheduleNext(q)
    BY <1>6 DEF AuPoll
  <2> HIDE DEF p
  <2>3. /\ Sound(q) /\ q.cur = t /\ q.frame = p.frame /\ q.state[t] = "BLOCKED"
        /\ \A u \in All : u # t => q.state[u] = p.state[u]
    BY <1>1, <1>3, <2>1, BlockIs
  <2> HIDE DEF q
  <2> QED
    BY <1>4, <2>1, <2>2, <2>3
<1>7. CASE \E nap \in 1 .. MaxNap : svc_sleep(t, nap)
  <2> PICK nap \in 1 .. MaxNap : svc_sleep(t, nap)
    BY <1>7
  <2> DEFINE q == AuSleepThread(k, t, nap)
  <2>1. /\ Sound(q) /\ q.cur = t /\ q.frame = k.frame /\ q.state[t] = "SLEEP"
        /\ \A u \in All : u # t => q.state[u] = k.state[u]
    BY <1>1, <1>3, SleepIs
  <2>2. k' = AuScheduleThread(q)
    BY DEF svc_sleep
  <2> HIDE DEF q
  <2> QED
    BY <1>4, <2>1, <2>2
<1>8. CASE \E nap \in 1 .. MaxNap : \E poll \in BOOLEAN : AuSchedYieldMs(t, nap, poll)
  <2> PICK nap \in 1 .. MaxNap, poll \in BOOLEAN : AuSchedYieldMs(t, nap, poll)
    BY <1>8
  <2> DEFINE p == [k EXCEPT !.polling[t] = poll]
             q == AuSleepThread(p, t, nap)
  <2>1. Sound(p) /\ p.list = k.list /\ p.state = k.state /\ p.cur = k.cur /\ p.frame = k.frame
    BY <1>3, PollingOnly
  <2>2. k' = AuScheduleNext(q)
    BY DEF AuSchedYieldMs
  <2> HIDE DEF p
  <2>3. /\ Sound(q) /\ q.cur = t /\ q.frame = p.frame /\ q.state[t] = "SLEEP"
        /\ \A u \in All : u # t => q.state[u] = p.state[u]
    BY <1>1, <1>3, <2>1, SleepIs
  <2> HIDE DEF q
  <2> QED
    BY <1>4, <2>1, <2>2, <2>3
<1> QED
  BY <1>5, <1>6, <1>7, <1>8

\* A kernel thread that leaves, step by step, keeps it: its frame is no masked one's.
LEMMA ParkedInvariant ==
    ASSUME IInv, NEW t \in Threads, Park(t) \/ ParkedLeaves(t) \/ ParkedHandsOff(t)
    PROVE  IInv'
<1>1. k.cur = t /\ t \in All /\ t # Idle /\ left' = left /\ asked' = asked
  BY IdleApart DEF Park, BestEffort, Running, ParkedLeaves, ParkedHandsOff
<1>2. t \in Unmasked
  BY DEF Park, ParkedLeaves, ParkedHandsOff, IInv
<1>3. Sound(k) /\ Fits(k) /\ pc \in [Threads -> {"run", "parked", "leaving"}]
  BY DEF IInv
<1>4. ASSUME NEW s \in {"run", "parked", "leaving"}, pc' = [pc EXCEPT ![t] = s],
             Sound(k'), Fits(k'), k'.cur = Idle \/ (k'.cur = t /\ s # "run")
      PROVE  IInv'
  <2>1. pc' \in [Threads -> {"run", "parked", "leaving"}] /\ pc'[t] = s
    BY <1>3, <1>4
  <2>2. \A u \in Threads \ Unmasked : pc'[u] = "run"
    BY <1>2, <1>3, <1>4 DEF IInv
  <2>3. OnCpu'
    BY <1>4, <2>1 DEF OnCpu
  <2> QED
    BY <1>1, <1>4, <2>1, <2>2, <2>3 DEF IInv
<1>5. CASE Park(t)
  <2>1. AtWork(k) /\ pc' = [pc EXCEPT ![t] = "parked"]
    BY <1>1, <1>5 DEF IInv, OnCpu, Park, BestEffort, Running
  <2>2. t \in Elems(k.list["ready"])
    BY <1>1, <2>1 DEF AtWork
  <2>3. Sound(k') /\ k'.cur = t /\ k'.frame = k.frame /\ \A u \in All : u # t => k'.state[u] = k.state[u]
    <3>1. CASE k' = AuBlockThread(k, t)
      BY <1>1, <1>3, <2>2, <3>1, BlockIs
    <3>2. CASE \E nap \in 1 .. MaxNap : k' = AuSleepThread(k, t, nap)
      BY <1>1, <1>3, <2>2, <3>2, SleepIs
    <3> QED
      BY <1>5, <3>1, <3>2 DEF Park
  <2>4. Fits(k')
    BY <1>1, <1>3, <2>3, ParkFits
  <2> QED
    BY <1>4, <2>1, <2>3, <2>4
<1>6. CASE ParkedLeaves(t)
  <2>1. k' = LeaveKernel(k) /\ pc' = [pc EXCEPT ![t] = "leaving"]
    BY <1>6 DEF ParkedLeaves
  <2>2. Sound(k') /\ k'.cur = t /\ k'.frame = k.frame /\ \A u \in All : u # t => k'.state[u] = k.state[u]
    BY <1>1, <1>3, <2>1, LeaveIs
  <2>3. Fits(k')
    BY <1>1, <1>3, <2>2, ParkFits
  <2> QED
    BY <1>4, <2>1, <2>2, <2>3
<1>7. CASE ParkedHandsOff(t)
  <2>1. k' = HandOff(k) /\ pc' = [pc EXCEPT ![t] = "run"]
    BY <1>7 DEF ParkedHandsOff
  <2>2. /\ Sound(k') /\ k'.cur = Idle /\ k'.state = k.state
        /\ \A u \in All : u # t /\ u # Idle => k'.frame[u] = k.frame[u]
    BY <1>1, <1>3, <2>1, HandOffIs
  <2>3. Fits(k')
    BY <1>1, <1>2, <1>3, <2>2, IdleApart DEF Fits
  <2> QED
    BY <1>4, <2>1, <2>2, <2>3
<1> QED
  BY <1>5, <1>6, <1>7

\* Real-time threads keep it.
LEMMA RealTimeInvariant ==
    ASSUME IInv, NEW t \in RealTime, soak_edf_worker(t) \/ AuEDFWaitPeriod(t) \/ soak_parker(t)
    PROVE  IInv'
<1>1. /\ k.cur = t /\ pc[t] = "run" /\ t \in Threads /\ t \in All /\ t # Idle /\ t \in Unmasked
  BY IdleApart, ListConstants, SchedConstants DEF soak_edf_worker, AuEDFWaitPeriod, soak_parker, Running
<1>2. /\ Sound(k) /\ Fits(k) /\ pc \in [Threads -> {"run", "parked", "leaving"}]
      /\ left \in [Threads -> Nat] /\ asked \subseteq RealTime
  BY DEF IInv
<1>3. AtWork(k) /\ t \in Elems(k.list["ready"])
  BY <1>1 DEF IInv, OnCpu, AtWork
<1>4. CASE soak_edf_worker(t)
  <2>1. PICK c \in Wcet[t] : /\ k' = AuEDFSetParams(k, t, c)
                             /\ left' = [left EXCEPT ![t] = IF Admits(k, t, c) THEN c ELSE 0]
    BY <1>4 DEF soak_edf_worker
  <2>2. c \in Nat
    BY SchedConstants
  <2>3. Sound(k') /\ SameLists(k, k')
    BY <1>2, <2>1, <2>2, SetParamsIs
  <2>4. left' \in [Threads -> Nat] /\ asked' \subseteq RealTime /\ pc' = pc
    BY <1>2, <1>4, <2>1, <2>2 DEF soak_edf_worker
  <2>5. Fits(k') /\ AtWork(k')
    BY <1>2, <1>3, <2>3 DEF SameLists, Fits, AtWork
  <2> QED
    BY <2>3, <2>4, <2>5 DEF IInv, OnCpu
<1>5. ASSUME NEW q, Sound(q), q.list = k.list, q.frame = k.frame, q.state = k.state, q.cur = t,
             k' = AuBlockThread(q, t) \/ (q.edf[t].on /\ k' = EndJob(q, t)),
             pc' = [pc EXCEPT ![t] = "parked"], left' \in [Threads -> Nat], asked' = asked
      PROVE  IInv'
  <2>1. Sound(k') /\ k'.cur = t /\ k'.frame = k.frame /\ \A u \in All : u # t => k'.state[u] = k.state[u]
    <3>1. CASE k' = AuBlockThread(q, t)
      BY <1>1, <1>3, <1>5, <3>1, BlockIs
    <3>2. CASE q.edf[t].on /\ k' = EndJob(q, t)
      BY <1>1, <1>3, <1>5, <3>2, EndJobIs
    <3> QED
      BY <1>5, <3>1, <3>2
  <2>2. Fits(k')
    BY <1>1, <1>2, <2>1, ParkFits
  <2>3. pc' \in [Threads -> {"run", "parked", "leaving"}] /\ pc'[t] = "parked"
    BY <1>1, <1>2, <1>5
  <2>4. \A u \in Threads \ Unmasked : pc'[u] = "run"
    BY <1>1, <1>2, <1>5 DEF IInv
  <2>5. OnCpu'
    BY <2>1, <2>3 DEF OnCpu
  <2> QED
    BY <1>2, <1>5, <2>1, <2>2, <2>3, <2>4, <2>5 DEF IInv
<1>6. CASE AuEDFWaitPeriod(t)
  <2>1. k.edf[t].on /\ k' = EndJob(k, t) /\ pc' = [pc EXCEPT ![t] = "parked"] /\ asked' = asked
    BY <1>6 DEF AuEDFWaitPeriod
  <2>2. left' \in [Threads -> Nat]
    <3>1. k.edf[t].wcet \in Nat
      BY <1>1, <1>2, ReservationIs DEF Sound, Edf
    <3> QED
      BY <1>2, <1>6, <3>1 DEF AuEDFWaitPeriod
  <2> QED
    BY <1>1, <1>2, <1>5, <2>1, <2>2
<1>7. CASE soak_parker(t)
  <2> DEFINE q == AuEDFRemove(k, t)
  <2>1. k' = AuBlockThread(q, t) /\ pc' = [pc EXCEPT ![t] = "parked"] /\ asked' = asked
    BY <1>7 DEF soak_parker
  <2>2. left' \in [Threads -> Nat]
    BY <1>2, <1>7 DEF soak_parker
  <2>3. Sound(q) /\ SameLists(k, q)
    BY <1>2, RemoveIs
  <2> HIDE DEF q
  <2> QED
    BY <1>1, <1>5, <2>1, <2>2, <2>3 DEF SameLists
<1> QED
  BY <1>4, <1>6, <1>7

\* Wakers keep it.
LEMMA WakeInvariant ==
    ASSUME IInv, NEW t \in Threads, Wakes(t)
    PROVE  IInv'
<1>1. Sound(k) /\ Fits(k)
  BY DEF IInv
<1>2. pc' = pc /\ left' = left /\ asked' = asked
  BY DEF Wakes, Wake, PostBoxPutEventByID, soak_waker, PollWake
<1>3. Woke(k, k')
  <2>1. CASE Wake(t)
    BY <1>1, <2>1, MakeReadyIs DEF Wake
  <2>2. CASE PostBoxPutEventByID(t)
    <3>1. k.state[t] = "BLOCKED" /\ k' = AuUnblockThread(k, t)
      BY <2>2 DEF PostBoxPutEventByID
    <3>2. t \in Elems(k.list["blocked"])
      BY <1>1, <3>1, StateTells, IdleApart
    <3> QED
      BY <1>1, <3>1, <3>2, UnblockIs
  <2>3. CASE soak_waker(t)
    BY <1>1, <2>3, UnblockIs, OnListIs DEF soak_waker
  <2>4. CASE PollWake(t)
    BY <1>1, <2>4, WakePollerIs DEF PollWake
  <2> QED
    BY <2>1, <2>2, <2>3, <2>4 DEF Wakes
<1>4. Sound(k') /\ Fits(k') /\ k'.cur = k.cur /\ (AtWork(k) => AtWork(k'))
  BY <1>1, <1>3, WokeFits
<1>5. OnCpu'
  BY <1>2, <1>4 DEF IInv, OnCpu
<1> QED
  BY <1>2, <1>4, <1>5 DEF IInv

\* So every step keeps the invariant.
LEMMA StepInvariant == IInv /\ [Next]_vars => IInv'
<1> SUFFICES ASSUME IInv, [Next]_vars PROVE IInv'
  OBVIOUS
<1>1. CASE Tick \/ Kick
  BY <1>1, TimerInvariant
<1>2. CASE \E t \in Threads : Calls(t)
  BY <1>2, MaskedCallInvariant, ParkedInvariant DEF Calls
<1>3. CASE \E t \in Threads \ asked : Wakes(t)
  BY <1>3, WakeInvariant
<1>4. CASE \E t \in RealTime : soak_edf_worker(t) \/ AuEDFWaitPeriod(t) \/ soak_parker(t)
  BY <1>4, RealTimeInvariant
<1>5. CASE UNCHANGED vars
  BY <1>5 DEF vars, IInv, OnCpu
<1> QED
  BY <1>1, <1>2, <1>3, <1>4, <1>5 DEF Next

-----------------------------------------------------------------------------
(* Theorems *)

\* The invariant is one.
THEOREM Invariant == Spec => []IInv
BY InitInvariant, StepInvariant, PTL DEF Spec

\* The type invariant of the scheduler: its lists hold threads, and a thread waits for
\* a release only under a reservation (AuEDFWaitPeriod).
THEOREM TypeCorrect == Spec => []SchedTypeOK
<1>1. IInv => SchedTypeOK
  <2> SUFFICES ASSUME IInv PROVE SchedTypeOK
    OBVIOUS
  <2>1. k \in KRec /\ left \in [Threads -> Nat] /\ asked \subseteq RealTime
    BY DEF IInv, Sound
  <2>2. \A t \in All : k.edf[t].waiting => k.edf[t].on
    BY <2>1, Parts DEF Table, Edf
  <2> QED
    BY <2>1, <2>2, Parts DEF SchedTypeOK, Frames
<1> QED
  BY <1>1, Invariant, PTL

\* AuSchedValidateLists, for every number of threads: a thread is linked exactly once,
\* on a list that its state allows.
THEOREM ListsAreValid == Spec => []ListsValid
<1>1. IInv => ListsValid
  <2> SUFFICES ASSUME IInv PROVE ListsValid
    OBVIOUS
  <2>1. k \in KRec /\ Arranged(k)
    BY DEF IInv, Sound
  <2>2. \A l \in Lists : \A i \in DOMAIN k.list[l] : k.state[k.list[l][i]] \in Allowed(l)
    BY <2>1 DEF Arranged, Elems
  <2>3. ASSUME NEW t \in All PROVE Cardinality(Links(t)) = 1
    <3>1. PICK l \in Lists : t \in Elems(k.list[l])
      BY <2>1 DEF Arranged
    <3>2. PICK i \in DOMAIN k.list[l] : k.list[l][i] = t
      BY <3>1 DEF Elems
    <3>3. \A m \in Lists : t \in Elems(k.list[m]) => m = l
      BY <2>1, <3>1 DEF Arranged
    <3>4. \A j \in DOMAIN k.list[l] : k.list[l][j] = t => j = i
      BY <2>1, <3>2 DEF Arranged, Simple
    <3>5. <<l, i>> \in Links(t)
      BY <3>2 DEF Links
    <3>6. ASSUME NEW x \in Links(t) PROVE x = <<l, i>>
      <4>1. PICK m \in Lists : x \in {<<m, j>> : j \in {h \in DOMAIN k.list[m] : k.list[m][h] = t}}
        BY <3>6 DEF Links
      <4>2. PICK j \in DOMAIN k.list[m] : k.list[m][j] = t /\ x = <<m, j>>
        BY <4>1
      <4>3. m = l
        BY <3>3, <4>2 DEF Elems
      <4> QED
        BY <3>4, <4>2, <4>3
    <3>7. Links(t) = {<<l, i>>}
      BY <3>5, <3>6
    <3> QED
      BY <3>7, FS_Singleton
  <2> QED
    BY <2>2, <2>3 DEF ListsValid
<1> QED
  BY <1>1, Invariant, PTL

\* A thread that enters the kernel with interrupts masked is resumed through the frame
\* it left, whatever the other threads, the timer and the wakers do in between
\* (AuScheduleThread and AuScheduleNext).
THEOREM MaskedThreadsResume == Spec => []MaskedFramesFit
<1>1. IInv => MaskedFramesFit
  BY DEF IInv, Fits, MaskedFramesFit, FrameFits
<1> QED
  BY <1>1, Invariant, PTL

=============================================================================
