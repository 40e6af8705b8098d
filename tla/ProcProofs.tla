----------------------------- MODULE ProcProofs -----------------------------
(***************************************************************************)
(* Proofs about the end of threads and processes: who is over stays over,  *)
(* an exit misses no waiter, death is published when every thread is       *)
(* stopped, and what is reaped is linked nowhere; for every number of      *)
(* processes and threads.                                                  *)
(***************************************************************************)
EXTENDS Proc, SelectionProofs

-----------------------------------------------------------------------------
(* The parts of the system *)

States == {"READY", "RUNNING", "BLOCKED", "KILLABLE"}
Active == {"READY", "RUNNING"}

\* There are no real-time threads here, and nobody sleeps or polls.
KRec == [list : [Lists -> Seq(All)], state : [All -> States], cur : All,
         frame : [All -> {"entry", "exception"}], polling : [All -> {FALSE}],
         until : [All -> {0}], edf : [All -> {NoEdf}], util : {0}, wild : BOOLEAN]

PRec == [state : {"alive", "died", "reaped"}, threads : Seq(Threads), busy : BOOLEAN,
         waiting : Nat, waitlist : Seq(Threads)]

Sys == [k : KRec, procs : [Procs -> PRec], joins : [Threads -> Seq(Threads)]]

On(m, l) == Elems(m.k.list[l])

\* The idle thread is none of the threads that a process may have.
LEMMA IdleApart == Idle \notin Threads /\ Idle \in All /\ Threads \subseteq All
BY ListConstants DEF Idle, All

\* Each thread has a process.
LEMMA ProcOfIs ==
    /\ \A t \in Threads : ProcOf(t) \in Procs
    /\ \A p \in Procs : Main[p] \in Threads /\ Main[p] \notin Subs /\ ProcOf(Main[p]) = p
    /\ \A t \in Subs : t \in Threads /\ SubOf[t] \in Procs /\ ProcOf(t) = SubOf[t]
    /\ \A t \in Threads \ Subs : Main[ProcOf(t)] = t
<1>1. ASSUME NEW t \in Threads \ Subs PROVE ProcOf(t) \in Procs /\ Main[ProcOf(t)] = t
  <2>1. \E p \in Procs : Main[p] = t
    BY ProcConstants
  <2> QED
    BY <2>1 DEF ProcOf
<1>2. ASSUME NEW t \in Subs PROVE t \in Threads /\ SubOf[t] \in Procs /\ ProcOf(t) = SubOf[t]
  BY ProcConstants DEF ProcOf, Subs
<1>3. ASSUME NEW p \in Procs PROVE Main[p] \in Threads /\ Main[p] \notin Subs
  BY ProcConstants
<1>4. ASSUME NEW p \in Procs PROVE ProcOf(Main[p]) = p
  <2>1. ProcOf(Main[p]) \in Procs /\ Main[ProcOf(Main[p])] = Main[p]
    BY <1>1, <1>3
  <2> QED
    BY <2>1, ProcConstants
<1> QED
  BY <1>1, <1>2, <1>3, <1>4

\* The parts of a system have their types.
LEMMA SysParts ==
    ASSUME NEW m \in Sys
    PROVE  /\ m.k \in KRec /\ m.procs \in [Procs -> PRec] /\ m.joins \in [Threads -> Seq(Threads)]
           /\ m.k.list \in [Lists -> Seq(All)] /\ m.k.state \in [All -> States] /\ m.k.cur \in All
           /\ \A l \in Lists : m.k.list[l] \in Seq(All) /\ On(m, l) \subseteq All
           /\ \A p \in Procs : m.procs[p] \in PRec
           /\ \A t \in Threads : m.joins[t] \in Seq(Threads) /\ Elems(m.joins[t]) \subseteq Threads
<1>1. /\ m.k \in KRec /\ m.procs \in [Procs -> PRec] /\ m.joins \in [Threads -> Seq(Threads)]
      /\ m.k.list \in [Lists -> Seq(All)] /\ m.k.state \in [All -> States] /\ m.k.cur \in All
  BY DEF Sys, KRec
<1>2. ASSUME NEW S, NEW s \in Seq(S) PROVE Elems(s) \subseteq S
  <2>1. \A i \in DOMAIN s : s[i] \in S
    BY ElementOfSeq, LenProperties
  <2> QED
    BY <2>1 DEF Elems
<1>3. ASSUME NEW l \in Lists PROVE m.k.list[l] \in Seq(All) /\ On(m, l) \subseteq All
  BY <1>1, <1>2 DEF On
<1>4. ASSUME NEW t \in Threads PROVE m.joins[t] \in Seq(Threads) /\ Elems(m.joins[t]) \subseteq Threads
  <2>1. m.joins[t] \in Seq(Threads)
    BY <1>1
  <2> QED
    BY <2>1, <1>2
<1> QED
  BY <1>1, <1>3, <1>4

\* The parts of a process.
LEMMA ProcParts ==
    ASSUME NEW m \in Sys, NEW p \in Procs
    PROVE  /\ m.procs[p].state \in {"alive", "died", "reaped"} /\ m.procs[p].busy \in BOOLEAN
           /\ m.procs[p].waiting \in Nat
           /\ m.procs[p].threads \in Seq(Threads) /\ Elems(m.procs[p].threads) \subseteq Threads
           /\ m.procs[p].waitlist \in Seq(Threads) /\ Elems(m.procs[p].waitlist) \subseteq Threads
<1>1. m.procs[p] \in PRec
  BY SysParts
<1>2. /\ m.procs[p].state \in {"alive", "died", "reaped"} /\ m.procs[p].busy \in BOOLEAN
      /\ m.procs[p].waiting \in Nat
      /\ m.procs[p].threads \in Seq(Threads) /\ m.procs[p].waitlist \in Seq(Threads)
  BY <1>1 DEF PRec
<1>3. ASSUME NEW s \in Seq(Threads) PROVE Elems(s) \subseteq Threads
  <2>1. \A i \in DOMAIN s : s[i] \in Threads
    BY ElementOfSeq, LenProperties
  <2> QED
    BY <2>1 DEF Elems
<1> QED
  BY <1>2, <1>3

-----------------------------------------------------------------------------
(* Loops over a list *)

\* What holds before a loop and is kept by each pass holds after each of them.
LEMMA LoopInduction ==
    ASSUME NEW n \in Nat, NEW X \in SUBSET (0 .. n), 0 \in X,
           \A i \in 1 .. n : i - 1 \in X => i \in X
    PROVE  X = 0 .. n
<1> DEFINE B == (1 .. n) \ X
<1>0. \A i \in 0 .. n : i = 0 \/ i \in 1 .. n
  OBVIOUS
<1>1. SUFFICES ASSUME B # {} PROVE FALSE
  <2>1. ASSUME B = {}, NEW i \in 0 .. n PROVE i \in X
    BY <1>0, <2>1
  <2> QED
    BY <2>1
<1>2. PICK b \in B : \A j \in B : b <= j
  <2>1. B \in SUBSET (1 .. n)
    OBVIOUS
  <2> HIDE DEF B
  <2> QED
    BY <1>1, <2>1, LeastOf
<1>3. b - 1 \in X
  <2>1. b - 1 = 0 \/ b - 1 \in 1 .. n
    OBVIOUS
  <2>2. b - 1 \notin B
    BY <1>2
  <2> QED
    BY <2>1, <2>2
<1> QED
  BY <1>3

\* What the n passes of a loop do to the states of S: pass i takes r to F[r][i].
Passes(S, n) == [S -> [1 .. n -> S]]

\* The states of such a loop, from m on.
IsRun(S, n, F, m, g) ==
    g \in [0 .. n -> S] /\ g[0] = m /\ \A i \in 1 .. n : g[i] = F[g[i - 1]][i]

\* A loop has a state after each pass.
LEMMA LoopExists ==
    ASSUME NEW S, NEW n \in Nat, NEW m \in S, NEW F \in Passes(S, n)
    PROVE  \E g : IsRun(S, n, F, m, g)
<1> DEFINE Runs(j, g) == g[0] = m /\ \A i \in 1 .. j : g[i] = F[g[i - 1]][i]
           X == {j \in 0 .. n : \E g \in [0 .. j -> S] : Runs(j, g)}
<1>1. 0 \in X
  <2> DEFINE h == [i \in 0 .. 0 |-> m]
  <2>1. h \in [0 .. 0 -> S] /\ h[0] = m /\ 0 \in 0 .. n
    OBVIOUS
  <2>2. \A i \in 1 .. 0 : h[i] = F[h[i - 1]][i]
    OBVIOUS
  <2> HIDE DEF h
  <2> QED
    BY <2>1, <2>2
<1>2. ASSUME NEW j \in 1 .. n, j - 1 \in X PROVE j \in X
  <2>1. PICK g \in [0 .. j - 1 -> S] : Runs(j - 1, g)
    BY <1>2
  <2> DEFINE h == [i \in 0 .. j |-> IF i = j THEN F[g[j - 1]][j] ELSE g[i]]
  <2>2. g[j - 1] \in S /\ F[g[j - 1]] \in [1 .. n -> S]
    BY DEF Passes
  <2>3. F[g[j - 1]][j] \in S
    BY <2>2
  <2>4. h \in [0 .. j -> S]
    BY <2>3
  <2>5. \A i \in 0 .. j - 1 : h[i] = g[i]
    OBVIOUS
  <2>6. h[j] = F[h[j - 1]][j]
    OBVIOUS
  <2>7. ASSUME NEW i \in 1 .. j PROVE h[i] = F[h[i - 1]][i]
    <3>1. CASE i = j
      BY <2>6, <3>1
    <3>2. CASE i # j
      <4>1. i \in 1 .. j - 1 /\ i \in 0 .. j - 1 /\ i - 1 \in 0 .. j - 1
        BY <3>2
      <4> HIDE DEF h
      <4> QED
        BY <2>1, <2>5, <4>1
    <3> QED
      BY <3>1, <3>2
  <2>8. h[0] = m
    BY <2>1
  <2> HIDE DEF h
  <2>9. Runs(j, h)
    BY <2>7, <2>8
  <2>10. j \in 0 .. n
    OBVIOUS
  <2> QED
    BY <2>4, <2>9, <2>10
<1>3. X = 0 .. n
  <2>1. X \in SUBSET (0 .. n)
    OBVIOUS
  <2> HIDE DEF X
  <2> QED
    BY <1>1, <1>2, <2>1, LoopInduction
<1>4. n \in X
  <2>1. n \in 0 .. n
    OBVIOUS
  <2> HIDE DEF X
  <2> QED
    BY <1>3, <2>1
<1> QED
  BY <1>4 DEF IsRun

\* And only one: a function defined by the same recursion is the loop.
LEMMA LoopIs ==
    ASSUME NEW S, NEW n \in Nat, NEW m \in S, NEW F \in Passes(S, n),
           NEW g, IsRun(S, n, F, m, g), NEW h, h[0] = m, \A i \in 1 .. n : h[i - 1] \in S => h[i] = F[h[i - 1]][i]
    PROVE  \A i \in 0 .. n : h[i] = g[i]
<1> DEFINE X == {i \in 0 .. n : h[i] = g[i]}
<1>1. 0 \in X
  BY DEF IsRun
<1>2. ASSUME NEW i \in 1 .. n, i - 1 \in X PROVE i \in X
  <2>1. h[i - 1] = g[i - 1] /\ g[i - 1] \in S /\ i \in 0 .. n
    BY <1>2 DEF IsRun
  <2>2. h[i] = F[h[i - 1]][i] /\ g[i] = F[g[i - 1]][i]
    BY <2>1 DEF IsRun
  <2> QED
    BY <2>1, <2>2
<1>3. X = 0 .. n
  <2>1. X \in SUBSET (0 .. n)
    OBVIOUS
  <2> HIDE DEF X
  <2> QED
    BY <1>1, <1>2, <2>1, LoopInduction
<1> QED
  BY <1>3

-----------------------------------------------------------------------------
(* What the functions of the scheduler do to its lists *)

\* The parts of a scheduler's state.
LEMMA KParts ==
    ASSUME NEW q \in KRec
    PROVE  /\ q.list \in [Lists -> Seq(All)] /\ q.state \in [All -> States] /\ q.cur \in All
           /\ q.frame \in [All -> {"entry", "exception"}] /\ q.polling \in [All -> {FALSE}]
           /\ q.until \in [All -> {0}] /\ q.edf \in [All -> {NoEdf}] /\ q.util = 0
           /\ q.wild \in BOOLEAN
           /\ \A l \in Lists : q.list[l] \in Seq(All) /\ Elems(q.list[l]) \subseteq All
<1>1. ASSUME NEW l \in Lists PROVE q.list[l] \in Seq(All) /\ Elems(q.list[l]) \subseteq All
  <2>1. q.list[l] \in Seq(All)
    BY DEF KRec
  <2>2. \A i \in DOMAIN q.list[l] : q.list[l][i] \in All
    BY <2>1, ElementOfSeq, LenProperties
  <2> QED
    BY <2>1, <2>2 DEF Elems
<1> QED
  BY <1>1 DEF KRec

\* A search in a list (AuThreadFindByIDBlockList).
LEMMA OnListIs ==
    ASSUME NEW q, NEW l, NEW t
    PROVE  OnList(q, l, t) <=> t \in Elems(q.list[l])
BY DEF OnList, Elems

\* A thread is moved to the end of another list.
LEMMA MoveIs ==
    ASSUME NEW q \in KRec, NEW from \in Lists, NEW to \in Lists, from # to, NEW t \in All
    PROVE  LET r == Move(q, from, to, t) IN
           /\ r \in KRec /\ r.state = q.state /\ r.cur = q.cur
           /\ Elems(r.list[from]) = Elems(q.list[from]) \ {t}
           /\ Elems(r.list[to]) = Elems(q.list[to]) \cup {t}
           /\ \A l \in Lists \ {from, to} : r.list[l] = q.list[l]
           /\ t \notin Elems(q.list[to]) => LastOnly(r.list[to], t)
<1> DEFINE a == Without(q.list[from], {t})
           b == Append(q.list[to], t)
           c == [q.list EXCEPT ![from] = a, ![to] = b]
           w == q.wild \/ ~OnList(q, from, t)
           r == Move(q, from, to, t)
<1>1. q.list \in [Lists -> Seq(All)] /\ q.wild \in BOOLEAN /\ w \in BOOLEAN
  BY KParts
<1>2. a \in Seq(All) /\ b \in Seq(All)
  BY <1>1, WithoutIs, AppendIs
<1> HIDE DEF w
<1>3. r = [q EXCEPT !.list = c, !.wild = w]
  <2>1. schedUnlink(q, from, t) = [q EXCEPT !.list = [q.list EXCEPT ![from] = a]]
    BY <1>1 DEF schedUnlink, KRec
  <2> DEFINE d == [q.list EXCEPT ![from] = a]
             u == [q EXCEPT !.list = d]
  <2>2. u.list = d /\ d[to] = q.list[to] /\ u.wild = q.wild
    BY <1>1 DEF KRec
  <2>3. schedLink(u, to, t) = [u EXCEPT !.list = [u.list EXCEPT ![to] = Append(u.list[to], t)]]
    BY DEF schedLink, KRec
  <2>4. [d EXCEPT ![to] = b] = c
    BY <1>1
  <2> HIDE DEF d, a, b, c
  <2>5. schedLink(u, to, t) = [q EXCEPT !.list = c]
    BY <2>2, <2>3, <2>4 DEF KRec, b
  <2>6. Move(q, from, to, t) = [[q EXCEPT !.list = c] EXCEPT !.wild = w]
    BY <1>1, <2>1, <2>5 DEF Move, KRec, d, w
  <2> QED
    BY <2>6 DEF KRec
<1>4. /\ c \in [Lists -> Seq(All)] /\ c[from] = a /\ c[to] = b
      /\ \A l \in Lists \ {from, to} : c[l] = q.list[l]
  BY <1>1, <1>2
<1> HIDE DEF a, b, c, r
<1>5. r.list = c /\ r \in KRec /\ r.state = q.state /\ r.cur = q.cur
  BY <1>1, <1>3, <1>4 DEF KRec
<1>6. Elems(a) = Elems(q.list[from]) \ {t}
  BY <1>1, WithoutIs DEF a
<1>7. /\ Elems(b) = Elems(q.list[to]) \cup {t}
      /\ t \notin Elems(q.list[to]) => LastOnly(b, t)
  BY <1>1, AppendIs, AppendLast DEF b
<1> QED
  BY <1>4, <1>5, <1>6, <1>7 DEF r

\* The record in which the states are other ones.
LEMMA StateOnly ==
    ASSUME NEW q \in KRec, NEW t \in All, NEW s \in States
    PROVE  LET r == [q EXCEPT !.state[t] = s] IN
           /\ r \in KRec /\ r.list = q.list /\ r.cur = q.cur
           /\ \A u \in All : r.state[u] = IF u = t THEN s ELSE q.state[u]
<1> DEFINE c == [q.state EXCEPT ![t] = s]
           r == [q EXCEPT !.state = c]
<1>1. c \in [All -> States] /\ \A u \in All : c[u] = IF u = t THEN s ELSE q.state[u]
  BY KParts
<1>2. r = [q EXCEPT !.state[t] = s]
  BY KParts DEF KRec
<1> HIDE DEF c
<1>3. r \in KRec /\ r.list = q.list /\ r.cur = q.cur /\ r.state = c
  BY <1>1 DEF KRec
<1> QED
  BY <1>1, <1>2, <1>3

\* AuBlockThread.
LEMMA BlockIs ==
    ASSUME NEW q \in KRec, NEW t \in All
    PROVE  LET r == AuBlockThread(q, t) IN
           /\ r \in KRec /\ r.cur = q.cur
           /\ \A u \in All : r.state[u] = IF u = t THEN "BLOCKED" ELSE q.state[u]
           /\ Elems(r.list["ready"]) = Elems(q.list["ready"]) \ {t}
           /\ Elems(r.list["blocked"]) = Elems(q.list["blocked"]) \cup {t}
           /\ \A l \in {"sleep", "trash"} : r.list[l] = q.list[l]
           /\ t \notin Elems(q.list["blocked"]) => LastOnly(r.list["blocked"], t)
<1> DEFINE p == [q EXCEPT !.state[t] = "BLOCKED"]
           r == Move(p, "ready", "blocked", t)
<1>1. /\ p \in KRec /\ p.list = q.list /\ p.cur = q.cur
      /\ \A u \in All : p.state[u] = IF u = t THEN "BLOCKED" ELSE q.state[u]
  BY StateOnly DEF States
<1>2. "ready" \in Lists /\ "blocked" \in Lists /\ {"sleep", "trash"} = Lists \ {"ready", "blocked"}
  BY DEF Lists
<1> HIDE DEF p
<1>3. /\ r \in KRec /\ r.state = p.state /\ r.cur = p.cur
      /\ Elems(r.list["ready"]) = Elems(p.list["ready"]) \ {t}
      /\ Elems(r.list["blocked"]) = Elems(p.list["blocked"]) \cup {t}
      /\ \A l \in Lists \ {"ready", "blocked"} : r.list[l] = p.list[l]
      /\ t \notin Elems(p.list["blocked"]) => LastOnly(r.list["blocked"], t)
  BY <1>1, <1>2, MoveIs
<1>4. r = AuBlockThread(q, t)
  BY DEF AuBlockThread, p
<1> HIDE DEF r
<1> QED
  BY <1>1, <1>2, <1>3, <1>4

\* The threads of T are woken: READY, and on the ready list if on the blocked one.
WokenIs(q, r, T) ==
    /\ r \in KRec /\ r.cur = q.cur
    /\ \A u \in All : r.state[u] = IF u \in T THEN "READY" ELSE q.state[u]
    /\ Elems(r.list["ready"]) = Elems(q.list["ready"]) \cup (T \cap Elems(q.list["blocked"]))
    /\ Elems(r.list["blocked"]) = Elems(q.list["blocked"]) \ T
    /\ \A l \in {"sleep", "trash"} : r.list[l] = q.list[l]

\* AuUnblockThread: its thread is woken.
LEMMA UnblockIs ==
    ASSUME NEW q \in KRec, NEW t \in All
    PROVE  WokenIs(q, AuUnblockThread(q, t), {t})
<1> DEFINE p == Woken(q, t)
           c == [q.state EXCEPT ![t] = "READY"]
           n == [q.until EXCEPT ![t] = 0]
           b == Elems(q.list["blocked"])
<1>1. q.state \in [All -> States] /\ q.until \in [All -> {0}]
  BY KParts
<1>2. WokenState(q.state[t]) = "READY"
  BY <1>1 DEF WokenState, States
<1>3. p = [q EXCEPT !.state = c, !.until = n]
  BY <1>1, <1>2 DEF Woken, KRec
<1>4. /\ c \in [All -> States] /\ n \in [All -> {0}]
      /\ \A u \in All : c[u] = IF u = t THEN "READY" ELSE q.state[u]
  BY <1>1 DEF States
<1> HIDE DEF c, n, p
<1>5. /\ p \in KRec /\ p.list = q.list /\ p.cur = q.cur /\ p.state = c
  BY <1>3, <1>4 DEF KRec
<1>6. /\ "ready" \in Lists /\ "blocked" \in Lists
      /\ {"sleep", "trash"} = Lists \ {"ready", "blocked"}
  BY DEF Lists
<1>7. CASE t \in b
  <2> DEFINE r == Move(p, "blocked", "ready", t)
  <2>1. AuUnblockThread(q, t) = r
    BY <1>7, OnListIs DEF AuUnblockThread, p
  <2>2. /\ r \in KRec /\ r.state = p.state /\ r.cur = p.cur
        /\ Elems(r.list["blocked"]) = Elems(p.list["blocked"]) \ {t}
        /\ Elems(r.list["ready"]) = Elems(p.list["ready"]) \cup {t}
        /\ \A l \in Lists \ {"blocked", "ready"} : r.list[l] = p.list[l]
        /\ t \notin Elems(p.list["ready"]) => LastOnly(r.list["ready"], t)
    <3>1. /\ "blocked" \in Lists /\ "ready" \in Lists /\ "blocked" # "ready"
          /\ p \in KRec /\ t \in All
      BY <1>5, <1>6
    <3> HIDE DEF b, r
    <3> QED
      BY <3>1, MoveIs DEF r
  <2> QED
    BY <1>4, <1>5, <1>6, <1>7, <2>1, <2>2 DEF WokenIs
<1>8. CASE t \notin b
  <2>1. AuUnblockThread(q, t) = p
    BY <1>8, OnListIs DEF AuUnblockThread, p
  <2> QED
    BY <1>4, <1>5, <1>8, <2>1 DEF WokenIs
<1> QED
  BY <1>7, <1>8

\* AuThreadMakeReady: nobody sleeps, so only a blocked thread is moved.
LEMMA MakeReadyIs ==
    ASSUME NEW q \in KRec, NEW t \in All
    PROVE  \/ q.state[t] = "BLOCKED" /\ WokenIs(q, AuThreadMakeReady(q, t), {t})
           \/ q.state[t] # "BLOCKED" /\ AuThreadMakeReady(q, t) = q
<1>1. q.state[t] \in States
  BY KParts
<1>2. q.state[t] # "SLEEP"
  BY <1>1 DEF States
<1> QED
  BY <1>2, UnblockIs DEF AuThreadMakeReady

\* AuThreadMoveToTrash.
LEMMA TrashIs ==
    ASSUME NEW q \in KRec, NEW t \in Threads, q.state[t] # "KILLABLE"
    PROVE  LET r == AuThreadMoveToTrash(q, t) IN
           /\ r \in KRec /\ r.cur = q.cur
           /\ \A u \in All : r.state[u] = IF u = t THEN "KILLABLE" ELSE q.state[u]
           /\ \A l \in Lists \ {"trash"} : Elems(r.list[l]) = Elems(q.list[l]) \ {t}
           /\ Elems(r.list["trash"]) = Elems(q.list["trash"]) \cup {t}
           /\ t \notin Elems(q.list["trash"]) => LastOnly(r.list["trash"], t)
<1> DEFINE c == [q.state EXCEPT ![t] = "KILLABLE"]
           d == [l \in Lists |-> IF l = "trash" THEN q.list[l] ELSE Without(q.list[l], {t})]
           e == [d EXCEPT !["trash"] = Append(d["trash"], t)]
           p == [q EXCEPT !.state = c, !.list = d]
           r == AuThreadMoveToTrash(q, t)
<1>1. /\ t \in All /\ q.list \in [Lists -> Seq(All)] /\ q.state \in [All -> States]
      /\ q.edf \in [All -> {NoEdf}] /\ "trash" \in Lists
  BY KParts, IdleApart DEF Lists
<1>2. AuEDFRemove(q, t) = q
  BY <1>1 DEF AuEDFRemove, NoEdf
<1>3. p = [q EXCEPT !.state[t] = "KILLABLE",
                    !.list = [l \in Lists |-> IF l = "trash" THEN q.list[l]
                                              ELSE Without(q.list[l], {t})]]
  BY <1>1 DEF KRec
<1>4. r = schedLink(p, "trash", t)
  BY <1>2, <1>3 DEF AuThreadMoveToTrash
<1>5. /\ d \in [Lists -> Seq(All)]
      /\ \A l \in Lists \ {"trash"} : Elems(d[l]) = Elems(q.list[l]) \ {t}
      /\ d["trash"] = q.list["trash"]
  BY <1>1, WithoutIs
<1>6. c \in [All -> States] /\ \A u \in All : c[u] = IF u = t THEN "KILLABLE" ELSE q.state[u]
  BY <1>1 DEF States
<1> HIDE DEF c, d
<1>7. p \in KRec /\ p.list = d /\ p.state = c /\ p.cur = q.cur
  BY <1>5, <1>6 DEF KRec
<1> HIDE DEF p
<1>8. r = [p EXCEPT !.list = e]
  BY <1>4, <1>5, <1>7 DEF schedLink, KRec
<1>9. /\ e \in [Lists -> Seq(All)]
      /\ \A l \in Lists \ {"trash"} : e[l] = d[l]
      /\ Elems(e["trash"]) = Elems(q.list["trash"]) \cup {t}
      /\ t \notin Elems(q.list["trash"]) => LastOnly(e["trash"], t)
  BY <1>1, <1>5, AppendIs, AppendLast
<1> HIDE DEF e, r
<1>10. r \in KRec /\ r.list = e /\ r.state = c /\ r.cur = q.cur
  BY <1>7, <1>8, <1>9 DEF KRec
<1> QED
  BY <1>5, <1>6, <1>9, <1>10 DEF r

\* AuThreadCleanTrash: no list has the thread any more.
LEMMA CleanTrashIs ==
    ASSUME NEW q \in KRec, NEW t \in All
    PROVE  LET r == AuThreadCleanTrash(q, t) IN
           /\ r \in KRec /\ r.cur = q.cur /\ r.state = q.state
           /\ \A l \in Lists : Elems(r.list[l]) = Elems(q.list[l]) \ {t}
<1> DEFINE d == [l \in Lists |-> Without(q.list[l], {t})]
           w == q.wild \/ Dangles(q, t)
           r == [q EXCEPT !.list = d, !.wild = w]
<1>1. q.list \in [Lists -> Seq(All)] /\ q.wild \in BOOLEAN /\ w \in BOOLEAN
  BY KParts DEF Dangles
<1>2. d \in [Lists -> Seq(All)] /\ \A l \in Lists : Elems(d[l]) = Elems(q.list[l]) \ {t}
  BY <1>1, WithoutIs
<1> HIDE DEF w
<1>3. r = AuThreadCleanTrash(q, t)
  BY <1>1 DEF AuThreadCleanTrash, KRec, w
<1> HIDE DEF d
<1>4. r \in KRec /\ r.cur = q.cur /\ r.state = q.state /\ r.list = d
  BY <1>1, <1>2 DEF KRec
<1> QED
  BY <1>2, <1>3, <1>4

-----------------------------------------------------------------------------
(* Switching threads *)

\* Only the order within lists may differ, but the last thread of a list stays it.
Quiet(q, r) ==
    /\ r \in KRec /\ r.cur = q.cur /\ r.state = q.state
    /\ \A l \in Lists : Elems(r.list[l]) = Elems(q.list[l])
    /\ \A l \in Lists \ {"ready"} : \A t \in All : LastOnly(q.list[l], t) => LastOnly(r.list[l], t)

\* A walk that wakes nobody.
LEMMA WakeNoneIs ==
    ASSUME NEW q \in KRec, NEW from \in {"blocked", "sleep"}, NEW s \in Seq(All), Elems(s) = {}
    PROVE  Quiet(q, WakeAll(q, from, s))
<1> DEFINE a == Without(q.list[from], Elems(s))
           b == q.list["ready"] \o s
           L == [q.list EXCEPT ![from] = a, !["ready"] = b]
           C == [t \in All |-> IF t \in Elems(s) THEN WokenState(q.state[t]) ELSE q.state[t]]
           N == [t \in All |-> IF t \in Elems(s) THEN 0 ELSE q.until[t]]
           r == WakeAll(q, from, s)
<1>1. /\ q.list \in [Lists -> Seq(All)] /\ q.state \in [All -> States]
      /\ q.until \in [All -> {0}] /\ from \in Lists /\ "ready" \in Lists /\ from # "ready"
      /\ q.list[from] \in Seq(All) /\ q.list["ready"] \in Seq(All)
  BY KParts DEF Lists
<1>2. C = q.state /\ N = q.until
  BY <1>1
<1>3. a \in Seq(All) /\ Elems(a) = Elems(q.list[from])
  <2>1. a \in Seq(All) /\ Elems(a) = Elems(q.list[from]) \ Elems(s)
    BY <1>1, WithoutIs
  <2> HIDE DEF a
  <2> QED
    BY <2>1
<1>4. \A t \in All : LastOnly(q.list[from], t) => LastOnly(a, t)
  BY <1>1, WithoutLast
<1>5. b \in Seq(All) /\ Elems(b) = Elems(q.list["ready"])
  <2>1. b \in Seq(All) /\ Elems(b) = Elems(q.list["ready"]) \cup Elems(s)
    <3> DEFINE d == q.list["ready"]
    <3>1. d \in Seq(All)
      BY <1>1
    <3> HIDE DEF a, L, C, N, r, d
    <3>2. d \o s \in Seq(All) /\ Elems(d \o s) = Elems(d) \cup Elems(s)
      BY <3>1, ConcatIs
    <3> QED
      BY <3>2 DEF d
  <2> HIDE DEF b
  <2> QED
    BY <2>1
<1>6. r = [q EXCEPT !.list = L, !.state = C, !.until = N]
  BY <1>1 DEF WakeAll, KRec, Elems
<1>7. /\ L \in [Lists -> Seq(All)] /\ L[from] = a /\ L["ready"] = b
      /\ \A l \in Lists \ {from, "ready"} : L[l] = q.list[l]
  BY <1>1, <1>3, <1>5
<1> HIDE DEF L, C, N, r, a, b
<1>8. r \in KRec /\ r.list = L /\ r.state = q.state /\ r.cur = q.cur
  BY <1>1, <1>2, <1>6, <1>7 DEF KRec
<1>9. ASSUME NEW l \in Lists PROVE Elems(r.list[l]) = Elems(q.list[l])
  BY <1>3, <1>5, <1>7, <1>8
<1>10. ASSUME NEW l \in Lists \ {"ready"}, NEW t \in All, LastOnly(q.list[l], t)
       PROVE  LastOnly(r.list[l], t)
  BY <1>4, <1>7, <1>8, <1>10
<1> QED
  BY <1>8, <1>9, <1>10 DEF Quiet, r

\* AuHandleSleepThreads, when nobody sleeps.
LEMMA SleepersIs ==
    ASSUME NEW q \in KRec, Elems(q.list["sleep"]) = {}
    PROVE  Quiet(q, AuHandleSleepThreads(q))
<1> DEFINE I == {i \in DOMAIN q.list["sleep"] : q.until[q.list["sleep"][i]] = 0}
           s == Sleepers(q)
<1>1. q.list["sleep"] \in Seq(All)
  BY KParts DEF Lists
<1>2. s = Selection(q.list["sleep"], I) /\ I \in SUBSET DOMAIN q.list["sleep"]
  BY DEF Sleepers
<1>3. \A i \in I : q.list["sleep"][i] \in Elems(q.list["sleep"])
  BY DEF Elems
<1> HIDE DEF I, s
<1>4. s \in Seq(All) /\ Elems(s) = {}
  BY <1>1, <1>2, <1>3, SelectedElems
<1> QED
  BY <1>4, WakeNoneIs DEF AuHandleSleepThreads, s

\* The real-time class, without reservations.
LEMMA ReleasesIs ==
    ASSUME NEW q \in KRec
    PROVE  Quiet(q, AuEDFHandleReleases(q))
<1> DEFINE b == q.list["blocked"]
           I == {i \in DOMAIN b : ToRelease(q, b[i])}
           s == Released(q)
           T == [t \in All |-> IF t \in Elems(s) THEN [q.edf[t] EXCEPT !.waiting = FALSE]
                               ELSE q.edf[t]]
           p == [q EXCEPT !.edf = T]
<1>1. b \in Seq(All) /\ Elems(b) \subseteq All /\ q.edf \in [All -> {NoEdf}]
  BY KParts DEF Lists
<1>2. I = {}
  <2>1. ASSUME NEW i \in DOMAIN b PROVE ~ToRelease(q, b[i])
    <3>1. b[i] \in All
      BY <1>1 DEF Elems
    <3>2. q.edf[b[i]] = NoEdf
      BY <1>1, <3>1
    <3> QED
      BY <3>2 DEF ToRelease, NoEdf
  <2> QED
    BY <2>1
<1>3. s = Selection(b, I) /\ I \in SUBSET DOMAIN b
  BY DEF Released
<1> HIDE DEF I, b
<1>4. s \in Seq(All) /\ Elems(s) = {}
  <2> HIDE DEF s
  <2> QED
    BY <1>1, <1>2, <1>3, SelectedElems
<1>5. AuEDFHandleReleases(q) = WakeAll(p, "blocked", s)
  BY <1>1 DEF AuEDFHandleReleases, KRec, Elems
<1>6. T = q.edf
  BY <1>1, <1>4
<1> HIDE DEF T, s
<1>7. p = q
  BY <1>6 DEF KRec
<1> HIDE DEF p
<1> QED
  BY <1>4, <1>5, <1>7, WakeNoneIs

\* The thread that loses the CPU is ready again.
LEMMA CapturedIs ==
    ASSUME NEW q \in KRec
    PROVE  LET r == Captured(q) IN
           /\ r \in KRec /\ r.list = q.list /\ r.cur = q.cur
           /\ \A t \in All : r.state[t] = IF t = q.cur /\ q.state[t] = "RUNNING" THEN "READY"
                                          ELSE q.state[t]
<1> DEFINE c == q.cur
           s == IF q.state[c] = "RUNNING" THEN "READY" ELSE q.state[c]
           C == [q.state EXCEPT ![c] = s]
           F == [q.frame EXCEPT ![c] = "exception"]
           r == [q EXCEPT !.frame = F, !.state = C]
<1>1. /\ c \in All /\ q.state \in [All -> States] /\ q.frame \in [All -> {"entry", "exception"}]
  BY KParts
<1>2. s \in States
  BY <1>1 DEF States
<1>3. Captured(q) = r
  BY <1>1 DEF Captured, KRec
<1>4. /\ C \in [All -> States] /\ F \in [All -> {"entry", "exception"}]
      /\ \A t \in All : C[t] = IF t = q.cur /\ q.state[t] = "RUNNING" THEN "READY" ELSE q.state[t]
  BY <1>1, <1>2
<1> HIDE DEF C, F
<1>5. r \in KRec /\ r.list = q.list /\ r.cur = q.cur /\ r.state = C
  BY <1>4 DEF KRec
<1> QED
  BY <1>3, <1>4, <1>5

\* A thread that is not ready leaves the CPU as the last one of its list.
Placed(q) ==
    /\ \A l, m \in Lists : l # m => Elems(q.list[l]) \cap Elems(q.list[m]) = {}
    /\ \/ q.cur \in Elems(q.list["ready"])
       \/ \E l \in Lists \ {"ready"} : LastOnly(q.list[l], q.cur)

\* The current thread keeps its place.
LEMMA QuietPlaced ==
    ASSUME NEW q \in KRec, Placed(q), NEW r, Quiet(q, r)
    PROVE  Placed(r)
<1>1. q.cur \in All /\ "ready" \in Lists
  BY KParts DEF Lists
<1>2. /\ r.cur = q.cur
      /\ \A l \in Lists : Elems(r.list[l]) = Elems(q.list[l])
      /\ \A l \in Lists \ {"ready"} : \A t \in All : LastOnly(q.list[l], t) => LastOnly(r.list[l], t)
  BY DEF Quiet
<1>3. ASSUME NEW l \in Lists, NEW m \in Lists, l # m
      PROVE  Elems(r.list[l]) \cap Elems(r.list[m]) = {}
  <2>1. Elems(q.list[l]) \cap Elems(q.list[m]) = {}
    BY <1>3 DEF Placed
  <2> QED
    BY <1>2, <2>1
<1>4. \/ r.cur \in Elems(r.list["ready"])
      \/ \E l \in Lists \ {"ready"} : LastOnly(r.list[l], r.cur)
  <2>1. CASE q.cur \in Elems(q.list["ready"])
    BY <1>1, <1>2, <2>1
  <2>2. CASE \E l \in Lists \ {"ready"} : LastOnly(q.list[l], q.cur)
    BY <1>1, <1>2, <2>2
  <2> QED
    BY <2>1, <2>2 DEF Placed
<1> QED
  BY <1>3, <1>4 DEF Placed

\* Behind the current thread there are ready threads only.
LEMMA FollowingReady ==
    ASSUME NEW q \in KRec, Placed(q)
    PROVE  Following(q) \in Seq(All) /\ Elems(Following(q)) \subseteq Elems(q.list["ready"])
<1> DEFINE l == CHOOSE m \in Lists : OnList(q, m, q.cur)
           s == q.list[l]
           n == Len(s)
           i == CHOOSE j \in DOMAIN s : s[j] = q.cur
           u == SubSeq(s, i + 1, n)
<1>1. q.cur \in All /\ "ready" \in Lists
  BY KParts DEF Lists
<1>2. PICK h \in Lists : q.cur \in Elems(q.list[h]) /\ (h = "ready" \/ LastOnly(q.list[h], q.cur))
  <2>1. ASSUME NEW h \in Lists, LastOnly(q.list[h], q.cur) PROVE q.cur \in Elems(q.list[h])
    <3>1. q.list[h] \in Seq(All) /\ q.list[h] # <<>> /\ q.list[h][Len(q.list[h])] = q.cur
      BY <2>1, KParts DEF LastOnly, LastIs
    <3>2. Len(q.list[h]) \in DOMAIN q.list[h]
      BY <3>1, LenProperties, EmptySeq
    <3> QED
      BY <3>1, <3>2 DEF Elems
  <2> QED
    BY <1>1, <2>1 DEF Placed
<1>3. l \in Lists /\ q.cur \in Elems(s)
  BY <1>2, OnListIs
<1>4. Following(q) = u
  BY <1>2, OnListIs DEF Following, Successors
<1>5. l = h
  BY <1>2, <1>3 DEF Placed
<1> HIDE DEF l
<1>6. s \in Seq(All) /\ n \in Nat /\ DOMAIN s = 1 .. n
  BY <1>3, KParts, LenProperties
<1>7. i \in DOMAIN s /\ s[i] = q.cur
  BY <1>3 DEF Elems
<1> HIDE DEF i, s, n
<1>8. /\ i + 1 \in 1 .. n + 1 /\ n \in i .. n
  BY <1>6, <1>7
<1>9. u \in Seq(All) /\ Len(u) = n - i /\ \A j \in 1 .. n - i : u[j] = s[i + j]
  <2>1. /\ u \in Seq(All)
        /\ Len(u) = IF i + 1 <= n THEN n - (i + 1) + 1 ELSE 0
        /\ \A j \in 1 .. n - (i + 1) + 1 : u[j] = s[(i + 1) + j - 1]
    BY <1>6, <1>8, SubSeqProperties DEF n
  <2>2. n - (i + 1) + 1 = n - i /\ \A j \in 1 .. n - i : (i + 1) + j - 1 = i + j
    BY <1>6, <1>7
  <2> QED
    BY <1>6, <1>7, <2>1, <2>2
<1> HIDE DEF u
<1>10. DOMAIN u = 1 .. n - i
  BY <1>9, LenProperties
<1>11. \A j \in DOMAIN u : i + j \in DOMAIN s /\ u[j] = s[i + j]
  BY <1>6, <1>7, <1>9, <1>10
<1>12. CASE h = "ready"
  <2>1. Elems(u) \subseteq Elems(s)
    BY <1>11 DEF Elems
  <2> QED
    BY <1>4, <1>5, <1>9, <1>12, <2>1 DEF s
<1>13. CASE h # "ready"
  <2>1. i = n
    BY <1>2, <1>5, <1>7, <1>13 DEF LastOnly, s, n
  <2>2. DOMAIN u = {}
    BY <1>6, <1>10, <2>1
  <2> QED
    BY <1>4, <1>9, <2>2 DEF Elems
<1> QED
  BY <1>12, <1>13

\* AA64NextThread picks the idle thread, or one that is ready.
LEMMA NextIs ==
    ASSUME NEW q \in KRec, Placed(q)
    PROVE  LET t == AA64NextThread(q) IN
           t = Idle \/ (t \in Elems(q.list["ready"]) /\ q.state[t] = "READY")
<1> DEFINE s == Following(q) \o q.list["ready"]
           I == {i \in DOMAIN s : CanRun(q, s[i])}
           r == Candidates(q)
<1>1. q.list["ready"] \in Seq(All) /\ Elems(q.list["ready"]) \subseteq All
  BY KParts DEF Lists
<1>2. s \in Seq(All) /\ Elems(s) \subseteq Elems(q.list["ready"])
  BY <1>1, FollowingReady, ConcatIs
<1>3. r = Selection(s, I)
  BY DEF Candidates
<1>4. r \in Seq(All) /\ Elems(r) = {s[i] : i \in I}
  <2> HIDE DEF s, r
  <2> QED
    BY <1>2, <1>3, SelectedElems
<1>5. ASSUME r # <<>> PROVE Head(r) \in Elems(q.list["ready"]) /\ q.state[Head(r)] = "READY"
  <2>1. 1 \in DOMAIN r /\ Head(r) = r[1]
    <3> HIDE DEF r
    <3>1. Len(r) \in Nat /\ DOMAIN r = 1 .. Len(r) /\ Len(r) # 0
      BY <1>4, <1>5, LenProperties, EmptySeq
    <3> QED
      BY <1>4, <1>5, <3>1, HeadTailProperties
  <2>2. Head(r) \in {s[i] : i \in I}
    BY <1>4, <2>1 DEF Elems
  <2>3. PICK i \in DOMAIN s : Head(r) = s[i] /\ CanRun(q, s[i])
    BY <2>2
  <2>4. s[i] \in Elems(s)
    BY <2>3 DEF Elems
  <2>5. Head(r) \in Elems(q.list["ready"]) /\ q.state[Head(r)] \in Runnable
    BY <1>2, <2>3, <2>4 DEF CanRun
  <2>6. q.state[Head(r)] \in States
    BY <1>1, <2>5, KParts
  <2> QED
    BY <2>5, <2>6 DEF Runnable, States
<1>6. EdfReady(q) = {}
  <2>1. \A t \in Threads : ~q.edf[t].on
    <3>1. \A t \in Threads : q.edf[t] = NoEdf
      BY KParts, IdleApart
    <3> QED
      BY <3>1 DEF NoEdf
  <2> QED
    BY <2>1 DEF EdfReady
<1>7. CASE r # <<>>
  <2>1. AA64NextThread(q) = Head(r)
    BY <1>6, <1>7 DEF AA64NextThread
  <2> QED
    BY <1>5, <1>7, <2>1
<1>8. CASE r = <<>>
  BY <1>6, <1>8 DEF AA64NextThread
<1> QED
  BY <1>7, <1>8

\* The thread that gets the CPU runs.
LEMMA ResumeIs ==
    ASSUME NEW q \in KRec, NEW t \in All
    PROVE  LET r == Resume(q, t) IN
           /\ r \in KRec /\ r.list = q.list /\ r.cur = t
           /\ \A u \in All : r.state[u] = IF u = t /\ q.state[u] = "READY" THEN "RUNNING"
                                          ELSE q.state[u]
<1> DEFINE s == IF q.state[t] = "READY" THEN "RUNNING" ELSE q.state[t]
           C == [q.state EXCEPT ![t] = s]
           P == [q.polling EXCEPT ![t] = q.polling[t] /\ q.state[t] # "LEFT_IN_KERNEL"]
           w == q.wild \/ (q.state[t] = "LEFT_IN_KERNEL") # (q.frame[t] = "handoff")
           r == [q EXCEPT !.cur = t, !.state = C, !.polling = P, !.wild = w]
<1>1. /\ q.state \in [All -> States] /\ q.polling \in [All -> {FALSE}] /\ q.wild \in BOOLEAN
      /\ w \in BOOLEAN
  BY KParts
<1>2. q.state[t] \in States /\ q.state[t] # "LEFT_IN_KERNEL"
  BY <1>1 DEF States
<1> HIDE DEF w
<1>3. Resume(q, t) = r
  BY <1>1, <1>2 DEF Resume, KRec, w
<1>4. /\ C \in [All -> States] /\ P \in [All -> {FALSE}]
      /\ \A u \in All : C[u] = IF u = t /\ q.state[u] = "READY" THEN "RUNNING" ELSE q.state[u]
  BY <1>1, <1>2 DEF States
<1> HIDE DEF C, P
<1>5. r \in KRec /\ r.list = q.list /\ r.cur = t /\ r.state = C
  BY <1>1, <1>4 DEF KRec
<1> QED
  BY <1>3, <1>4, <1>5

\* AuScheduleThread gives the CPU to a thread that is ready, and changes nothing else.
LEMMA ScheduleIs ==
    ASSUME NEW q \in KRec, Placed(q), Elems(q.list["sleep"]) = {},
           Idle \in Elems(q.list["ready"]), q.state[Idle] \in Active
    PROVE  LET r == AuScheduleThread(q) IN
           /\ r \in KRec
           /\ \A l \in Lists : Elems(r.list[l]) = Elems(q.list[l])
           /\ \A t \in All : r.state[t] = q.state[t] \/ {r.state[t], q.state[t]} \subseteq Active
           /\ r.cur \in Elems(q.list["ready"]) /\ r.state[r.cur] \in Active
<1> DEFINE a == Captured(q)
           b == AuHandleSleepThreads(a)
           c == AuEDFHandleReleases(b)
           n == AA64NextThread(c)
           r == Resume(c, n)
<1>1. AuScheduleThread(q) = r
  BY DEF AuScheduleThread
<1>2. /\ a \in KRec /\ a.list = q.list /\ a.cur = q.cur
      /\ \A t \in All : a.state[t] = IF t = q.cur /\ q.state[t] = "RUNNING" THEN "READY"
                                     ELSE q.state[t]
  BY CapturedIs
<1> HIDE DEF a
<1>3. Placed(a) /\ Elems(a.list["sleep"]) = {}
  BY <1>2 DEF Placed
<1>4. Quiet(a, b)
  BY <1>2, <1>3, SleepersIs
<1> HIDE DEF b
<1>5. b \in KRec /\ Placed(b)
  BY <1>2, <1>3, <1>4, QuietPlaced DEF Quiet
<1>6. Quiet(b, c)
  BY <1>5, ReleasesIs
<1> HIDE DEF c
<1>7. c \in KRec /\ Placed(c)
  BY <1>5, <1>6, QuietPlaced DEF Quiet
<1>8. /\ c.state = a.state
      /\ \A l \in Lists : Elems(c.list[l]) = Elems(q.list[l])
  BY <1>2, <1>4, <1>6 DEF Quiet
<1>9. n = Idle \/ (n \in Elems(c.list["ready"]) /\ c.state[n] = "READY")
  BY <1>7, NextIs
<1> HIDE DEF n
<1>10. "ready" \in Lists /\ Elems(q.list["ready"]) \subseteq All /\ Idle \in All
  BY KParts, IdleApart DEF Lists
<1>11. n \in Elems(q.list["ready"]) /\ n \in All /\ c.state[n] \in Active
  BY <1>2, <1>8, <1>9, <1>10 DEF Active
<1>12. /\ r \in KRec /\ r.list = c.list /\ r.cur = n
       /\ \A u \in All : r.state[u] = IF u = n /\ c.state[u] = "READY" THEN "RUNNING"
                                      ELSE c.state[u]
  BY <1>7, <1>11, ResumeIs
<1> HIDE DEF r
<1>13. ASSUME NEW t \in All
       PROVE  r.state[t] = q.state[t] \/ {r.state[t], q.state[t]} \subseteq Active
  BY <1>2, <1>8, <1>12 DEF Active
<1>14. r.state[r.cur] \in Active
  BY <1>11, <1>12 DEF Active
<1> QED
  BY <1>1, <1>8, <1>11, <1>12, <1>13, <1>14

-----------------------------------------------------------------------------
(* Threads that are woken, stopped or cleaned one after the other *)

\* Nobody is woken.
LEMMA WokenNone ==
    ASSUME NEW q \in KRec
    PROVE  WokenIs(q, q, {})
BY DEF WokenIs

\* One wake after others.
LEMMA WokenMore ==
    ASSUME NEW q \in KRec, NEW r, NEW x, NEW T, NEW U, WokenIs(q, r, T), WokenIs(r, x, U)
    PROVE  WokenIs(q, x, T \cup U)
<1>1. x \in KRec /\ x.cur = q.cur
  BY DEF WokenIs
<1>2. ASSUME NEW u \in All PROVE x.state[u] = IF u \in T \cup U THEN "READY" ELSE q.state[u]
  BY DEF WokenIs
<1>3. /\ Elems(r.list["ready"]) = Elems(q.list["ready"]) \cup (T \cap Elems(q.list["blocked"]))
      /\ Elems(r.list["blocked"]) = Elems(q.list["blocked"]) \ T
      /\ Elems(x.list["ready"]) = Elems(r.list["ready"]) \cup (U \cap Elems(r.list["blocked"]))
      /\ Elems(x.list["blocked"]) = Elems(r.list["blocked"]) \ U
  BY DEF WokenIs
<1>4. /\ Elems(x.list["ready"])
             = Elems(q.list["ready"]) \cup ((T \cup U) \cap Elems(q.list["blocked"]))
      /\ Elems(x.list["blocked"]) = Elems(q.list["blocked"]) \ (T \cup U)
  BY <1>3
<1>5. \A l \in {"sleep", "trash"} : x.list[l] = q.list[l]
  BY DEF WokenIs
<1> QED
  BY <1>1, <1>2, <1>4, <1>5 DEF WokenIs

\* The threads of T that are not marked yet.
Unmarked(q, T) == {t \in T : q.state[t] # "KILLABLE"}

\* The threads of T are stopped: marked, and on the trash list if they were not marked.
TrashedIs(q, r, T) ==
    /\ r \in KRec /\ r.cur = q.cur
    /\ \A u \in All : r.state[u] = IF u \in T THEN "KILLABLE" ELSE q.state[u]
    /\ \A l \in Lists \ {"trash"} : Elems(r.list[l]) = Elems(q.list[l]) \ Unmarked(q, T)
    /\ Elems(r.list["trash"]) = Elems(q.list["trash"]) \cup Unmarked(q, T)

\* Nobody is stopped.
LEMMA TrashedNone ==
    ASSUME NEW q \in KRec
    PROVE  TrashedIs(q, q, {})
BY DEF TrashedIs, Unmarked

\* AuThreadMoveToTrash: its thread is stopped, unless it was before.
LEMMA TrashedOne ==
    ASSUME NEW q \in KRec, NEW t \in Threads
    PROVE  TrashedIs(q, AuThreadMoveToTrash(q, t), {t})
<1>1. CASE q.state[t] = "KILLABLE"
  <2>1. AuThreadMoveToTrash(q, t) = q
    BY <1>1 DEF AuThreadMoveToTrash
  <2>2. Unmarked(q, {t}) = {}
    BY <1>1 DEF Unmarked
  <2> QED
    BY <1>1, <2>1, <2>2 DEF TrashedIs
<1>2. CASE q.state[t] # "KILLABLE"
  <2>1. Unmarked(q, {t}) = {t}
    BY <1>2 DEF Unmarked
  <2> DEFINE r == AuThreadMoveToTrash(q, t)
  <2>2. /\ r \in KRec /\ r.cur = q.cur
        /\ \A u \in All : r.state[u] = IF u = t THEN "KILLABLE" ELSE q.state[u]
        /\ \A l \in Lists \ {"trash"} : Elems(r.list[l]) = Elems(q.list[l]) \ {t}
        /\ Elems(r.list["trash"]) = Elems(q.list["trash"]) \cup {t}
    BY <1>2, TrashIs
  <2> HIDE DEF r
  <2>3. TrashedIs(q, r, {t})
    BY <2>1, <2>2 DEF TrashedIs
  <2> QED
    BY <2>3 DEF r
<1> QED
  BY <1>1, <1>2

\* One stop after others.
LEMMA TrashedMore ==
    ASSUME NEW q \in KRec, NEW r, NEW x, NEW T \in SUBSET All, NEW U \in SUBSET All,
           TrashedIs(q, r, T), TrashedIs(r, x, U)
    PROVE  TrashedIs(q, x, T \cup U)
<1>1. x \in KRec /\ x.cur = q.cur
  BY DEF TrashedIs
<1>2. ASSUME NEW u \in All PROVE x.state[u] = IF u \in T \cup U THEN "KILLABLE" ELSE q.state[u]
  BY DEF TrashedIs
<1>3. Unmarked(q, T \cup U) = Unmarked(q, T) \cup Unmarked(r, U)
  <2>1. \A u \in All : r.state[u] = IF u \in T THEN "KILLABLE" ELSE q.state[u]
    BY DEF TrashedIs
  <2> QED
    BY <2>1 DEF Unmarked
<1>4. /\ \A l \in Lists \ {"trash"} : Elems(x.list[l]) = Elems(q.list[l]) \ Unmarked(q, T \cup U)
      /\ Elems(x.list["trash"]) = Elems(q.list["trash"]) \cup Unmarked(q, T \cup U)
  <2>1. /\ \A l \in Lists \ {"trash"} : Elems(r.list[l]) = Elems(q.list[l]) \ Unmarked(q, T)
        /\ Elems(r.list["trash"]) = Elems(q.list["trash"]) \cup Unmarked(q, T)
        /\ \A l \in Lists \ {"trash"} : Elems(x.list[l]) = Elems(r.list[l]) \ Unmarked(r, U)
        /\ Elems(x.list["trash"]) = Elems(r.list["trash"]) \cup Unmarked(r, U)
    BY DEF TrashedIs
  <2> QED
    BY <1>3, <2>1
<1> QED
  BY <1>1, <1>2, <1>4 DEF TrashedIs

\* The threads of T are on no list any more.
CleanedIs(q, r, T) ==
    /\ r \in KRec /\ r.cur = q.cur /\ r.state = q.state
    /\ \A l \in Lists : Elems(r.list[l]) = Elems(q.list[l]) \ T

\* The system with another scheduler.
LEMMA SchedulerOnly ==
    ASSUME NEW m \in Sys, NEW q \in KRec
    PROVE  LET x == [m EXCEPT !.k = q] IN
           /\ x \in Sys /\ x.k = q /\ x.procs = m.procs /\ x.joins = m.joins
BY DEF Sys

\* One thread is woken; processes and waitlists stay as they are.
LEMMA UnblockStep ==
    ASSUME NEW m \in Sys, NEW t \in All
    PROVE  LET x == Unblock(m, t) IN
           /\ x \in Sys /\ x.procs = m.procs /\ x.joins = m.joins /\ WokenIs(m.k, x.k, {t})
<1> DEFINE q == AuUnblockThread(m.k, t)
<1>1. m.k \in KRec
  BY SysParts
<1>2. WokenIs(m.k, q, {t}) /\ q \in KRec
  BY <1>1, UnblockIs DEF WokenIs
<1> HIDE DEF q
<1>3. Unblock(m, t) = [m EXCEPT !.k = q]
  BY DEF Unblock, q, Sys
<1> QED
  BY <1>2, <1>3, SchedulerOnly

\* One thread is stopped; processes and waitlists stay as they are.
LEMMA TrashStep ==
    ASSUME NEW m \in Sys, NEW t \in Threads
    PROVE  LET x == Trash(m, t) IN
           /\ x \in Sys /\ x.procs = m.procs /\ x.joins = m.joins /\ TrashedIs(m.k, x.k, {t})
           /\ x.k = AuThreadMoveToTrash(m.k, t)
<1> DEFINE q == AuThreadMoveToTrash(m.k, t)
<1>1. m.k \in KRec
  BY SysParts
<1>2. TrashedIs(m.k, q, {t}) /\ q \in KRec
  BY <1>1, TrashedOne DEF TrashedIs
<1> HIDE DEF q
<1>3. Trash(m, t) = [m EXCEPT !.k = q]
  BY DEF Trash, q, Sys
<1>4. LET x == [m EXCEPT !.k = q] IN
      x \in Sys /\ x.k = q /\ x.procs = m.procs /\ x.joins = m.joins
  BY <1>2, SchedulerOnly
<1> QED
  BY <1>2, <1>3, <1>4 DEF q

\* The first i elements of a list.
Upto(s, i) == {s[j] : j \in 1 .. i}

\* The elements that a loop has passed.
LEMMA UptoIs ==
    ASSUME NEW S, NEW s \in Seq(S)
    PROVE  /\ Len(s) \in Nat /\ Upto(s, 0) = {} /\ Upto(s, Len(s)) = Elems(s)
           /\ \A i \in 1 .. Len(s) : s[i] \in S /\ s[i] \in Elems(s)
           /\ \A i \in 1 .. Len(s) : Upto(s, i) = Upto(s, i - 1) \cup {s[i]}
           /\ \A i \in 0 .. Len(s) : Upto(s, i) \subseteq S /\ Upto(s, i) \subseteq Elems(s)
<1>1. Len(s) \in Nat /\ DOMAIN s = 1 .. Len(s) /\ \A i \in 1 .. Len(s) : s[i] \in S
  BY LenProperties, ElementOfSeq
<1>2. Upto(s, 0) = {} /\ Upto(s, Len(s)) = Elems(s)
  BY <1>1 DEF Upto, Elems
<1>3. ASSUME NEW i \in 1 .. Len(s) PROVE Upto(s, i) = Upto(s, i - 1) \cup {s[i]}
  <2>1. 1 .. i = (1 .. i - 1) \cup {i}
    OBVIOUS
  <2> QED
    BY <2>1 DEF Upto
<1>4. ASSUME NEW i \in 0 .. Len(s) PROVE Upto(s, i) \subseteq S /\ Upto(s, i) \subseteq Elems(s)
  <2>1. \A j \in 1 .. i : j \in 1 .. Len(s)
    BY <1>1
  <2> QED
    BY <1>1, <2>1 DEF Upto, Elems
<1>5. \A i \in 1 .. Len(s) : s[i] \in Elems(s)
  BY <1>1 DEF Elems
<1> QED
  BY <1>1, <1>2, <1>3, <1>4, <1>5

\* The passes of the loops over threads.
LEMMA UnblockRuns ==
    ASSUME NEW m \in Sys, NEW s \in Seq(Threads)
    PROVE  \E g \in [0 .. Len(s) -> Sys] :
              /\ g[0] = m /\ g[Len(s)] = UnblockAll(m, s)
              /\ \A i \in 1 .. Len(s) : g[i] = Unblock(g[i - 1], s[i])
<1> DEFINE n == Len(s)
           F == [r \in Sys |-> [i \in 1 .. n |-> Unblock(r, s[i])]]
           P(f) == f = [i \in 0 .. n |-> IF i = 0 THEN m ELSE Unblock(f[i - 1], s[i])]
           h == CHOOSE f : P(f)
<1>1. n \in Nat /\ \A i \in 1 .. n : s[i] \in Threads /\ s[i] \in All
  BY UptoIs, IdleApart
<1>2. ASSUME NEW r \in Sys, NEW i \in 1 .. n PROVE Unblock(r, s[i]) \in Sys
  BY <1>1, UnblockStep
<1>3. F \in Passes(Sys, n) /\ \A r \in Sys, i \in 1 .. n : F[r][i] = Unblock(r, s[i])
  BY <1>2 DEF Passes
<1> HIDE DEF F, n, h
<1>4. PICK g : IsRun(Sys, n, F, m, g)
  BY <1>1, <1>3, LoopExists
<1>5. /\ g \in [0 .. n -> Sys] /\ g[0] = m
      /\ \A i \in 1 .. n : g[i - 1] \in Sys /\ g[i] = Unblock(g[i - 1], s[i])
  <2>1. g \in [0 .. n -> Sys] /\ g[0] = m /\ \A i \in 1 .. n : g[i] = F[g[i - 1]][i]
    BY <1>4 DEF IsRun
  <2>2. \A i \in 1 .. n : g[i - 1] \in Sys
    BY <1>1, <2>1
  <2> QED
    BY <1>3, <2>1, <2>2
<1>6. P(g)
  BY <1>1, <1>5
<1>7. P(h)
  <2> HIDE DEF P
  <2> QED
    BY <1>6, Zenon DEF h
<1>8. h[0] = m /\ \A i \in 1 .. n : h[i] = Unblock(h[i - 1], s[i])
  <2>1. 0 \in 0 .. n /\ \A i \in 1 .. n : i \in 0 .. n /\ i # 0
    BY <1>1
  <2> QED
    BY <1>7, <2>1
<1>9. \A i \in 1 .. n : h[i - 1] \in Sys => h[i] = F[h[i - 1]][i]
  BY <1>3, <1>8
<1>10. \A i \in 0 .. n : h[i] = g[i]
  <2> HIDE DEF P
  <2> QED
    BY <1>1, <1>3, <1>4, <1>8, <1>9, LoopIs
<1>11. UnblockAll(m, s) = h[n]
  BY DEF UnblockAll, Each, h, n
<1>12. g[n] = UnblockAll(m, s)
  BY <1>1, <1>10, <1>11
<1> QED
  BY <1>5, <1>12 DEF n

\* A loop that stops threads, pass by pass.
LEMMA TrashRuns ==
    ASSUME NEW m \in Sys, NEW s \in Seq(Threads)
    PROVE  \E g \in [0 .. Len(s) -> Sys] :
              /\ g[0] = m /\ g[Len(s)] = TrashAll(m, s)
              /\ \A i \in 1 .. Len(s) : g[i] = Trash(g[i - 1], s[i])
<1> DEFINE n == Len(s)
           F == [r \in Sys |-> [i \in 1 .. n |-> Trash(r, s[i])]]
           P(f) == f = [i \in 0 .. n |-> IF i = 0 THEN m ELSE Trash(f[i - 1], s[i])]
           h == CHOOSE f : P(f)
<1>1. n \in Nat /\ \A i \in 1 .. n : s[i] \in Threads /\ s[i] \in All
  BY UptoIs, IdleApart
<1>2. ASSUME NEW r \in Sys, NEW i \in 1 .. n PROVE Trash(r, s[i]) \in Sys
  BY <1>1, TrashStep
<1>3. F \in Passes(Sys, n) /\ \A r \in Sys, i \in 1 .. n : F[r][i] = Trash(r, s[i])
  BY <1>2 DEF Passes
<1> HIDE DEF F, n, h
<1>4. PICK g : IsRun(Sys, n, F, m, g)
  BY <1>1, <1>3, LoopExists
<1>5. /\ g \in [0 .. n -> Sys] /\ g[0] = m
      /\ \A i \in 1 .. n : g[i - 1] \in Sys /\ g[i] = Trash(g[i - 1], s[i])
  <2>1. g \in [0 .. n -> Sys] /\ g[0] = m /\ \A i \in 1 .. n : g[i] = F[g[i - 1]][i]
    BY <1>4 DEF IsRun
  <2>2. \A i \in 1 .. n : g[i - 1] \in Sys
    BY <1>1, <2>1
  <2> QED
    BY <1>3, <2>1, <2>2
<1>6. P(g)
  BY <1>1, <1>5
<1>7. P(h)
  <2> HIDE DEF P
  <2> QED
    BY <1>6, Zenon DEF h
<1>8. h[0] = m /\ \A i \in 1 .. n : h[i] = Trash(h[i - 1], s[i])
  <2>1. 0 \in 0 .. n /\ \A i \in 1 .. n : i \in 0 .. n /\ i # 0
    BY <1>1
  <2> QED
    BY <1>7, <2>1
<1>9. \A i \in 1 .. n : h[i - 1] \in Sys => h[i] = F[h[i - 1]][i]
  BY <1>3, <1>8
<1>10. \A i \in 0 .. n : h[i] = g[i]
  <2> HIDE DEF P
  <2> QED
    BY <1>1, <1>3, <1>4, <1>8, <1>9, LoopIs
<1>11. TrashAll(m, s) = h[n]
  BY DEF TrashAll, Each, h, n
<1>12. g[n] = TrashAll(m, s)
  BY <1>1, <1>10, <1>11
<1> QED
  BY <1>5, <1>12 DEF n

\* AuUnblockThread for each thread of a list.
LEMMA UnblockAllIs ==
    ASSUME NEW m \in Sys, NEW s \in Seq(Threads)
    PROVE  LET x == UnblockAll(m, s) IN
           /\ x \in Sys /\ x.procs = m.procs /\ x.joins = m.joins
           /\ WokenIs(m.k, x.k, Elems(s))
<1> DEFINE n == Len(s)
<1>1. PICK g \in [0 .. n -> Sys] :
         /\ g[0] = m /\ g[n] = UnblockAll(m, s)
         /\ \A i \in 1 .. n : g[i] = Unblock(g[i - 1], s[i])
  BY UnblockRuns
<1> DEFINE X == {i \in 0 .. n : /\ g[i].procs = m.procs /\ g[i].joins = m.joins
                                /\ WokenIs(m.k, g[i].k, Upto(s, i))}
<1>2. /\ n \in Nat /\ Upto(s, 0) = {} /\ Upto(s, n) = Elems(s)
      /\ \A i \in 1 .. n : s[i] \in All /\ Upto(s, i) = Upto(s, i - 1) \cup {s[i]}
  BY UptoIs, IdleApart
<1>3. m.k \in KRec /\ \A i \in 0 .. n : g[i] \in Sys
  BY SysParts
<1> HIDE DEF n
<1>4. 0 \in X
  <2>1. 0 \in 0 .. n
    BY <1>2
  <2> QED
    BY <1>1, <1>2, <1>3, <2>1, WokenNone
<1>5. ASSUME NEW i \in 1 .. n, i - 1 \in X PROVE i \in X
  <2> DEFINE r == g[i - 1]
             t == s[i]
  <2>1. /\ r.procs = m.procs /\ r.joins = m.joins /\ WokenIs(m.k, r.k, Upto(s, i - 1))
        /\ r \in Sys /\ t \in All /\ g[i] = Unblock(r, t) /\ i \in 0 .. n
    BY <1>1, <1>2, <1>3, <1>5
  <2> HIDE DEF r, t
  <2>2. /\ g[i].procs = m.procs /\ g[i].joins = m.joins /\ WokenIs(r.k, g[i].k, {t})
    BY <2>1, UnblockStep
  <2>3. WokenIs(m.k, g[i].k, Upto(s, i - 1) \cup {t})
    BY <1>3, <2>1, <2>2, WokenMore
  <2> QED
    BY <1>2, <2>1, <2>2, <2>3 DEF t
<1>6. n \in X
  <2>1. X \in SUBSET (0 .. n) /\ n \in 0 .. n
    BY <1>2
  <2> HIDE DEF X
  <2> QED
    BY <1>2, <1>4, <1>5, <2>1, LoopInduction
<1>7. g[n] \in Sys
  BY <1>2, <1>3
<1> QED
  BY <1>1, <1>2, <1>6, <1>7

\* AuThreadMoveToTrash for each thread of a list.
LEMMA TrashAllIs ==
    ASSUME NEW m \in Sys, NEW s \in Seq(Threads)
    PROVE  LET x == TrashAll(m, s) IN
           /\ x \in Sys /\ x.procs = m.procs /\ x.joins = m.joins
           /\ TrashedIs(m.k, x.k, Elems(s))
<1> DEFINE n == Len(s)
<1>1. PICK g \in [0 .. n -> Sys] :
         /\ g[0] = m /\ g[n] = TrashAll(m, s)
         /\ \A i \in 1 .. n : g[i] = Trash(g[i - 1], s[i])
  BY TrashRuns
<1> DEFINE X == {i \in 0 .. n : /\ g[i].procs = m.procs /\ g[i].joins = m.joins
                                /\ TrashedIs(m.k, g[i].k, Upto(s, i))}
<1>2. /\ n \in Nat /\ Upto(s, 0) = {} /\ Upto(s, n) = Elems(s)
      /\ \A i \in 1 .. n : s[i] \in Threads /\ Upto(s, i) = Upto(s, i - 1) \cup {s[i]}
      /\ \A i \in 0 .. n : Upto(s, i) \subseteq All
  BY UptoIs, IdleApart
<1>3. m.k \in KRec /\ \A i \in 0 .. n : g[i] \in Sys
  BY SysParts
<1> HIDE DEF n
<1>4. 0 \in X
  <2>1. 0 \in 0 .. n
    BY <1>2
  <2> QED
    BY <1>1, <1>2, <1>3, <2>1, TrashedNone
<1>5. ASSUME NEW i \in 1 .. n, i - 1 \in X PROVE i \in X
  <2> DEFINE r == g[i - 1]
             t == s[i]
  <2>1. /\ r.procs = m.procs /\ r.joins = m.joins /\ TrashedIs(m.k, r.k, Upto(s, i - 1))
        /\ r \in Sys /\ t \in Threads /\ g[i] = Trash(r, t) /\ i \in 0 .. n
        /\ Upto(s, i - 1) \in SUBSET All
    BY <1>1, <1>2, <1>3, <1>5
  <2> HIDE DEF r, t
  <2>2. /\ g[i].procs = m.procs /\ g[i].joins = m.joins /\ TrashedIs(r.k, g[i].k, {t})
    BY <2>1, TrashStep
  <2>3. {t} \in SUBSET All
    BY <2>1, IdleApart
  <2>4. TrashedIs(m.k, g[i].k, Upto(s, i - 1) \cup {t})
    BY <1>3, <2>1, <2>2, <2>3, TrashedMore
  <2> QED
    BY <1>2, <2>1, <2>2, <2>4 DEF t
<1>6. n \in X
  <2>1. X \in SUBSET (0 .. n) /\ n \in 0 .. n
    BY <1>2
  <2> HIDE DEF X
  <2> QED
    BY <1>2, <1>4, <1>5, <2>1, LoopInduction
<1>7. g[n] \in Sys
  BY <1>2, <1>3
<1> QED
  BY <1>1, <1>2, <1>6, <1>7

\* AuProcessReapWaitcount: one thread less is waited for.
LEMMA ReapWaitcountIs ==
    ASSUME NEW m \in Sys, NEW p \in Procs
    PROVE  LET x == AuProcessReapWaitcount(m, p) IN
           /\ x \in Sys /\ x.k = m.k /\ x.joins = m.joins
           /\ \A q \in Procs \ {p} : x.procs[q] = m.procs[q]
           /\ x.procs[p].state = m.procs[p].state /\ x.procs[p].threads = m.procs[p].threads
           /\ x.procs[p].waitlist = m.procs[p].waitlist
           /\ m.procs[p].waiting > 0 => x.procs[p].waiting = m.procs[p].waiting - 1
           /\ m.procs[p].waiting > 1 => x.procs[p].busy = m.procs[p].busy
<1> DEFINE n == m.procs[p].waiting - 1
           a == IF n <= 0 THEN 0 ELSE n
           b == m.procs[p].busy /\ n > 0
           c == [m.procs[p] EXCEPT !.waiting = a, !.busy = b]
           d == [m.procs EXCEPT ![p] = c]
           x == [m EXCEPT !.procs = d]
<1>1. m.procs \in [Procs -> PRec] /\ m.procs[p] \in PRec
  BY SysParts
<1>2. /\ m.procs[p].waiting \in Nat /\ m.procs[p].busy \in BOOLEAN
  BY ProcParts
<1>3. a \in Nat /\ b \in BOOLEAN
  BY <1>2
<1>4. AuProcessReapWaitcount(m, p) = x
  BY <1>1 DEF AuProcessReapWaitcount, Sys, PRec
<1>5. /\ m.procs[p].waiting > 0 => a = m.procs[p].waiting - 1
      /\ m.procs[p].waiting > 1 => b = m.procs[p].busy
  BY <1>2
<1> HIDE DEF a, b
<1>6. /\ c \in PRec /\ c.state = m.procs[p].state /\ c.threads = m.procs[p].threads
      /\ c.waitlist = m.procs[p].waitlist /\ c.waiting = a /\ c.busy = b
  BY <1>1, <1>3 DEF PRec
<1> HIDE DEF c
<1>7. d \in [Procs -> PRec] /\ d[p] = c /\ \A q \in Procs \ {p} : d[q] = m.procs[q]
  BY <1>1, <1>6
<1> HIDE DEF d
<1>8. x \in Sys /\ x.procs = d /\ x.k = m.k /\ x.joins = m.joins
  BY <1>7 DEF Sys
<1> HIDE DEF x
<1> QED
  BY <1>4, <1>5, <1>6, <1>7, <1>8

\* A main thread that waited for the end of another thread is awakened.
LEMMA AwakeStep ==
    ASSUME NEW m \in Sys, NEW w \in Threads
    PROVE  LET x == AwakeWaiter(m, w)
               p == ProcOf(w)
           IN
           /\ x \in Sys /\ x.joins = m.joins /\ WokenIs(m.k, x.k, {w})
           /\ \A q \in Procs \ {p} : x.procs[q] = m.procs[q]
           /\ x.procs[p].state = m.procs[p].state /\ x.procs[p].threads = m.procs[p].threads
           /\ x.procs[p].waitlist = m.procs[p].waitlist
           /\ m.procs[p].waiting > 0 => x.procs[p].waiting = m.procs[p].waiting - 1
           /\ m.procs[p].waiting > 1 => x.procs[p].busy = m.procs[p].busy
<1> DEFINE p == ProcOf(w)
           r == AuProcessReapWaitcount(m, p)
           x == Unblock(r, w)
<1>1. p \in Procs /\ w \in All
  BY ProcOfIs, IdleApart
<1> HIDE DEF p
<1>2. /\ r \in Sys /\ r.k = m.k /\ r.joins = m.joins
      /\ \A q \in Procs \ {p} : r.procs[q] = m.procs[q]
      /\ r.procs[p].state = m.procs[p].state /\ r.procs[p].threads = m.procs[p].threads
      /\ r.procs[p].waitlist = m.procs[p].waitlist
      /\ m.procs[p].waiting > 0 => r.procs[p].waiting = m.procs[p].waiting - 1
      /\ m.procs[p].waiting > 1 => r.procs[p].busy = m.procs[p].busy
  BY <1>1, ReapWaitcountIs
<1> HIDE DEF r
<1>3. /\ x \in Sys /\ x.procs = r.procs /\ x.joins = r.joins /\ WokenIs(r.k, x.k, {w})
  BY <1>1, <1>2, UnblockStep
<1>4. x = AwakeWaiter(m, w)
  BY DEF AwakeWaiter, r, p
<1> HIDE DEF x
<1> QED
  BY <1>1, <1>2, <1>3, <1>4 DEF p

\* The slot of a thread is cleaned.
LEMMA CleanStep ==
    ASSUME NEW m \in Sys, NEW t \in Threads
    PROVE  LET x == CleanThread(m, t) IN
           /\ x \in Sys /\ x.procs = m.procs /\ CleanedIs(m.k, x.k, {t})
           /\ \A u \in Threads : x.joins[u] = IF u = t THEN <<>> ELSE m.joins[u]
<1> DEFINE q == AuThreadCleanTrash(m.k, t)
           j == [m.joins EXCEPT ![t] = <<>>]
           x == [m EXCEPT !.k = q, !.joins = j]
<1>1. m.k \in KRec /\ t \in All /\ m.joins \in [Threads -> Seq(Threads)]
  BY SysParts, IdleApart
<1>2. q \in KRec /\ CleanedIs(m.k, q, {t})
  BY <1>1, CleanTrashIs DEF CleanedIs
<1> HIDE DEF q
<1>3. /\ j \in [Threads -> Seq(Threads)]
      /\ \A u \in Threads : j[u] = IF u = t THEN <<>> ELSE m.joins[u]
  BY <1>1, EmptySeq
<1>4. CleanThread(m, t) = x
  BY <1>1 DEF CleanThread, Sys, q
<1> HIDE DEF j
<1>5. x \in Sys /\ x.procs = m.procs /\ x.k = q /\ x.joins = j
  BY <1>2, <1>3 DEF Sys
<1> HIDE DEF x
<1> QED
  BY <1>2, <1>3, <1>4, <1>5

\* Threads that are cleaned one after the other.
LEMMA CleanedMore ==
    ASSUME NEW q, NEW r, NEW x, NEW T, NEW U, CleanedIs(q, r, T), CleanedIs(r, x, U)
    PROVE  CleanedIs(q, x, T \cup U)
<1>1. \A l \in Lists : Elems(x.list[l]) = Elems(q.list[l]) \ (T \cup U)
  BY DEF CleanedIs
<1> QED
  BY <1>1 DEF CleanedIs

\* A loop that wakes the waiters of a thread, pass by pass.
LEMMA AwakeRuns ==
    ASSUME NEW m \in Sys, NEW s \in Seq(Threads)
    PROVE  \E g \in [0 .. Len(s) -> Sys] :
              /\ g[0] = m /\ g[Len(s)] = AwakeAll(m, s)
              /\ \A i \in 1 .. Len(s) : g[i] = AwakeWaiter(g[i - 1], s[i])
<1> DEFINE n == Len(s)
           F == [r \in Sys |-> [i \in 1 .. n |-> AwakeWaiter(r, s[i])]]
           P(f) == f = [i \in 0 .. n |-> IF i = 0 THEN m ELSE AwakeWaiter(f[i - 1], s[i])]
           h == CHOOSE f : P(f)
<1>1. n \in Nat /\ \A i \in 1 .. n : s[i] \in Threads /\ s[i] \in All
  BY UptoIs, IdleApart
<1>2. ASSUME NEW r \in Sys, NEW i \in 1 .. n PROVE AwakeWaiter(r, s[i]) \in Sys
  BY <1>1, AwakeStep
<1>3. F \in Passes(Sys, n) /\ \A r \in Sys, i \in 1 .. n : F[r][i] = AwakeWaiter(r, s[i])
  BY <1>2 DEF Passes
<1> HIDE DEF F, n, h
<1>4. PICK g : IsRun(Sys, n, F, m, g)
  BY <1>1, <1>3, LoopExists
<1>5. /\ g \in [0 .. n -> Sys] /\ g[0] = m
      /\ \A i \in 1 .. n : g[i - 1] \in Sys /\ g[i] = AwakeWaiter(g[i - 1], s[i])
  <2>1. g \in [0 .. n -> Sys] /\ g[0] = m /\ \A i \in 1 .. n : g[i] = F[g[i - 1]][i]
    BY <1>4 DEF IsRun
  <2>2. \A i \in 1 .. n : g[i - 1] \in Sys
    BY <1>1, <2>1
  <2> QED
    BY <1>3, <2>1, <2>2
<1>6. P(g)
  BY <1>1, <1>5
<1>7. P(h)
  <2> HIDE DEF P
  <2> QED
    BY <1>6, Zenon DEF h
<1>8. h[0] = m /\ \A i \in 1 .. n : h[i] = AwakeWaiter(h[i - 1], s[i])
  <2>1. 0 \in 0 .. n /\ \A i \in 1 .. n : i \in 0 .. n /\ i # 0
    BY <1>1
  <2> QED
    BY <1>7, <2>1
<1>9. \A i \in 1 .. n : h[i - 1] \in Sys => h[i] = F[h[i - 1]][i]
  BY <1>3, <1>8
<1>10. \A i \in 0 .. n : h[i] = g[i]
  <2> HIDE DEF P
  <2> QED
    BY <1>1, <1>3, <1>4, <1>8, <1>9, LoopIs
<1>11. AwakeAll(m, s) = h[n]
  BY DEF AwakeAll, Each, h, n
<1>12. g[n] = AwakeAll(m, s)
  BY <1>1, <1>10, <1>11
<1> QED
  BY <1>5, <1>12 DEF n

\* A loop that cleans threads, pass by pass.
LEMMA CleanRuns ==
    ASSUME NEW m \in Sys, NEW s \in Seq(Threads)
    PROVE  \E g \in [0 .. Len(s) -> Sys] :
              /\ g[0] = m /\ g[Len(s)] = CleanAll(m, s)
              /\ \A i \in 1 .. Len(s) : g[i] = CleanThread(g[i - 1], s[i])
<1> DEFINE n == Len(s)
           F == [r \in Sys |-> [i \in 1 .. n |-> CleanThread(r, s[i])]]
           P(f) == f = [i \in 0 .. n |-> IF i = 0 THEN m ELSE CleanThread(f[i - 1], s[i])]
           h == CHOOSE f : P(f)
<1>1. n \in Nat /\ \A i \in 1 .. n : s[i] \in Threads /\ s[i] \in All
  BY UptoIs, IdleApart
<1>2. ASSUME NEW r \in Sys, NEW i \in 1 .. n PROVE CleanThread(r, s[i]) \in Sys
  BY <1>1, CleanStep
<1>3. F \in Passes(Sys, n) /\ \A r \in Sys, i \in 1 .. n : F[r][i] = CleanThread(r, s[i])
  BY <1>2 DEF Passes
<1> HIDE DEF F, n, h
<1>4. PICK g : IsRun(Sys, n, F, m, g)
  BY <1>1, <1>3, LoopExists
<1>5. /\ g \in [0 .. n -> Sys] /\ g[0] = m
      /\ \A i \in 1 .. n : g[i - 1] \in Sys /\ g[i] = CleanThread(g[i - 1], s[i])
  <2>1. g \in [0 .. n -> Sys] /\ g[0] = m /\ \A i \in 1 .. n : g[i] = F[g[i - 1]][i]
    BY <1>4 DEF IsRun
  <2>2. \A i \in 1 .. n : g[i - 1] \in Sys
    BY <1>1, <2>1
  <2> QED
    BY <1>3, <2>1, <2>2
<1>6. P(g)
  BY <1>1, <1>5
<1>7. P(h)
  <2> HIDE DEF P
  <2> QED
    BY <1>6, Zenon DEF h
<1>8. h[0] = m /\ \A i \in 1 .. n : h[i] = CleanThread(h[i - 1], s[i])
  <2>1. 0 \in 0 .. n /\ \A i \in 1 .. n : i \in 0 .. n /\ i # 0
    BY <1>1
  <2> QED
    BY <1>7, <2>1
<1>9. \A i \in 1 .. n : h[i - 1] \in Sys => h[i] = F[h[i - 1]][i]
  BY <1>3, <1>8
<1>10. \A i \in 0 .. n : h[i] = g[i]
  <2> HIDE DEF P
  <2> QED
    BY <1>1, <1>3, <1>4, <1>8, <1>9, LoopIs
<1>11. CleanAll(m, s) = h[n]
  BY DEF CleanAll, Each, h, n
<1>12. g[n] = CleanAll(m, s)
  BY <1>1, <1>10, <1>11
<1> QED
  BY <1>5, <1>12 DEF n

\* All that wait for a thread are threads of one process.
LEMMA AwakeAllIs ==
    ASSUME NEW m \in Sys, NEW s \in Seq(Threads), NEW p \in Procs,
           \A w \in Elems(s) : ProcOf(w) = p, m.procs[p].waiting >= Len(s)
    PROVE  LET x == AwakeAll(m, s) IN
           /\ x \in Sys /\ x.joins = m.joins /\ WokenIs(m.k, x.k, Elems(s))
           /\ \A q \in Procs \ {p} : x.procs[q] = m.procs[q]
           /\ x.procs[p].state = m.procs[p].state /\ x.procs[p].threads = m.procs[p].threads
           /\ x.procs[p].waitlist = m.procs[p].waitlist
           /\ x.procs[p].waiting = m.procs[p].waiting - Len(s)
           /\ m.procs[p].waiting > Len(s) => x.procs[p].busy = m.procs[p].busy
<1> DEFINE n == Len(s)
           N == m.procs[p].waiting
<1>1. PICK g \in [0 .. n -> Sys] :
         /\ g[0] = m /\ g[n] = AwakeAll(m, s)
         /\ \A i \in 1 .. n : g[i] = AwakeWaiter(g[i - 1], s[i])
  BY AwakeRuns
<1> DEFINE Kept(r) ==
             /\ r.joins = m.joins
             /\ \A q \in Procs \ {p} : r.procs[q] = m.procs[q]
             /\ r.procs[p].state = m.procs[p].state /\ r.procs[p].threads = m.procs[p].threads
             /\ r.procs[p].waitlist = m.procs[p].waitlist
           X == {i \in 0 .. n : /\ Kept(g[i]) /\ WokenIs(m.k, g[i].k, Upto(s, i))
                                /\ g[i].procs[p].waiting = N - i
                                /\ N > i => g[i].procs[p].busy = m.procs[p].busy}
<1>2. /\ n \in Nat /\ Upto(s, 0) = {} /\ Upto(s, n) = Elems(s)
      /\ \A i \in 1 .. n : s[i] \in Threads /\ s[i] \in Elems(s)
      /\ \A i \in 1 .. n : Upto(s, i) = Upto(s, i - 1) \cup {s[i]}
  BY UptoIs
<1>3. m.k \in KRec /\ \A i \in 0 .. n : g[i] \in Sys
  BY SysParts
<1>4. N \in Nat /\ N >= n
  BY ProcParts
<1> HIDE DEF n, N
<1>5. 0 \in X
  <2>1. 0 \in 0 .. n
    BY <1>2
  <2>2. WokenIs(m.k, m.k, {})
    BY <1>3, WokenNone
  <2>3. m.procs[p].waiting = N - 0
    BY <1>4 DEF N
  <2> QED
    BY <1>1, <1>2, <2>1, <2>2, <2>3
<1>6. ASSUME NEW i \in 1 .. n, i - 1 \in X PROVE i \in X
  <2> DEFINE r == g[i - 1]
             t == s[i]
             x == g[i]
  <2>1. /\ Kept(r) /\ WokenIs(m.k, r.k, Upto(s, i - 1))
        /\ r.procs[p].waiting = N - (i - 1)
        /\ N > i - 1 => r.procs[p].busy = m.procs[p].busy
    BY <1>6
  <2>2. r \in Sys /\ t \in Threads /\ x = AwakeWaiter(r, t) /\ i \in 0 .. n /\ ProcOf(t) = p
    BY <1>1, <1>2, <1>3
  <2> HIDE DEF r, t, x
  <2>3. /\ x.joins = r.joins /\ WokenIs(r.k, x.k, {t})
        /\ \A q \in Procs \ {p} : x.procs[q] = r.procs[q]
        /\ x.procs[p].state = r.procs[p].state /\ x.procs[p].threads = r.procs[p].threads
        /\ x.procs[p].waitlist = r.procs[p].waitlist
        /\ r.procs[p].waiting > 0 => x.procs[p].waiting = r.procs[p].waiting - 1
        /\ r.procs[p].waiting > 1 => x.procs[p].busy = r.procs[p].busy
    BY <2>2, AwakeStep
  <2>4. WokenIs(m.k, x.k, Upto(s, i - 1) \cup {t})
    BY <1>3, <2>1, <2>3, WokenMore
  <2>5. Kept(x)
    BY <2>1, <2>3
  <2>6. x.procs[p].waiting = N - i /\ (N > i => x.procs[p].busy = m.procs[p].busy)
    <3>1. N - (i - 1) > 0 /\ N - (i - 1) - 1 = N - i
      BY <1>2, <1>4
    <3>2. N > i => N > i - 1 /\ N - (i - 1) > 1
      BY <1>4
    <3> QED
      BY <2>1, <2>3, <3>1, <3>2
  <2>7. Upto(s, i) = Upto(s, i - 1) \cup {t}
    BY <1>2 DEF t
  <2> HIDE DEF Kept
  <2> QED
    BY <2>2, <2>4, <2>5, <2>6, <2>7 DEF x
<1>7. n \in X
  <2>1. X \in SUBSET (0 .. n) /\ n \in 0 .. n
    BY <1>2
  <2> HIDE DEF X
  <2> QED
    BY <1>2, <1>5, <1>6, <2>1, LoopInduction
<1>8. g[n] \in Sys
  BY <1>2, <1>3
<1> QED
  BY <1>1, <1>2, <1>7, <1>8 DEF N, n

\* AuThreadAwakeWaiters where nobody waits.
LEMMA AwakeNone ==
    ASSUME NEW m \in Sys, NEW t \in Threads, m.joins[t] = <<>>
    PROVE  AuThreadAwakeWaiters(m, t) = m
<1>1. m.joins \in [Threads -> Seq(Threads)]
  BY SysParts
<1>2. AwakeAll(m, <<>>) = m
  <2>1. ASSUME NEW s \in Seq(Threads), Len(s) = 0 PROVE AwakeAll(m, s) = m
    <3>1. PICK g \in [0 .. Len(s) -> Sys] : g[0] = m /\ g[Len(s)] = AwakeAll(m, s)
      BY AwakeRuns
    <3> QED
      BY <2>1, <3>1
  <2> QED
    BY <2>1, EmptySeq
<1>3. [m.joins EXCEPT ![t] = <<>>] = m.joins
  BY <1>1
<1>4. [m EXCEPT !.joins = m.joins] = m
  BY DEF Sys
<1> QED
  BY <1>2, <1>3, <1>4 DEF AuThreadAwakeWaiters, Sys

\* AuThreadCleanTrash for each thread of a list, and its waitlist emptied.
LEMMA CleanAllIs ==
    ASSUME NEW m \in Sys, NEW s \in Seq(Threads)
    PROVE  LET x == CleanAll(m, s) IN
           /\ x \in Sys /\ x.procs = m.procs /\ CleanedIs(m.k, x.k, Elems(s))
           /\ \A u \in Threads : x.joins[u] = IF u \in Elems(s) THEN <<>> ELSE m.joins[u]
<1> DEFINE n == Len(s)
<1>1. PICK g \in [0 .. n -> Sys] :
         /\ g[0] = m /\ g[n] = CleanAll(m, s)
         /\ \A i \in 1 .. n : g[i] = CleanThread(g[i - 1], s[i])
  BY CleanRuns
<1> DEFINE X == {i \in 0 .. n :
                   /\ g[i].procs = m.procs /\ CleanedIs(m.k, g[i].k, Upto(s, i))
                   /\ \A u \in Threads :
                        g[i].joins[u] = IF u \in Upto(s, i) THEN <<>> ELSE m.joins[u]}
<1>2. /\ n \in Nat /\ Upto(s, 0) = {} /\ Upto(s, n) = Elems(s)
      /\ \A i \in 1 .. n : s[i] \in Threads /\ Upto(s, i) = Upto(s, i - 1) \cup {s[i]}
  BY UptoIs
<1>3. m.k \in KRec /\ \A i \in 0 .. n : g[i] \in Sys
  BY SysParts
<1> HIDE DEF n
<1>4. 0 \in X
  <2>1. 0 \in 0 .. n
    BY <1>2
  <2>2. CleanedIs(m.k, m.k, {})
    BY <1>3 DEF CleanedIs
  <2> QED
    BY <1>1, <1>2, <2>1, <2>2
<1>5. ASSUME NEW i \in 1 .. n, i - 1 \in X PROVE i \in X
  <2> DEFINE r == g[i - 1]
             t == s[i]
             x == g[i]
  <2>1. /\ r.procs = m.procs /\ CleanedIs(m.k, r.k, Upto(s, i - 1))
        /\ \A u \in Threads : r.joins[u] = IF u \in Upto(s, i - 1) THEN <<>> ELSE m.joins[u]
    BY <1>5
  <2>2. r \in Sys /\ t \in Threads /\ x = CleanThread(r, t) /\ i \in 0 .. n
    BY <1>1, <1>2, <1>3
  <2> HIDE DEF r, t, x
  <2>3. /\ x.procs = r.procs /\ CleanedIs(r.k, x.k, {t})
        /\ \A u \in Threads : x.joins[u] = IF u = t THEN <<>> ELSE r.joins[u]
    BY <2>2, CleanStep
  <2>4. CleanedIs(m.k, x.k, Upto(s, i - 1) \cup {t})
    BY <2>1, <2>3, CleanedMore
  <2>5. Upto(s, i) = Upto(s, i - 1) \cup {t}
    BY <1>2 DEF t
  <2>6. ASSUME NEW u \in Threads
        PROVE  x.joins[u] = IF u \in Upto(s, i) THEN <<>> ELSE m.joins[u]
    BY <2>1, <2>3, <2>5
  <2> QED
    BY <2>1, <2>2, <2>3, <2>4, <2>5, <2>6 DEF x
<1>6. n \in X
  <2>1. X \in SUBSET (0 .. n) /\ n \in 0 .. n
    BY <1>2
  <2> HIDE DEF X
  <2> QED
    BY <1>2, <1>4, <1>5, <2>1, LoopInduction
<1>7. g[n] \in Sys
  BY <1>2, <1>3
<1> QED
  BY <1>1, <1>2, <1>6, <1>7

-----------------------------------------------------------------------------
(* The threads of a process that exits *)

\* The waitlist of a thread is emptied.
LEMMA ForgetIs ==
    ASSUME NEW m \in Sys, NEW t \in Threads
    PROVE  LET x == [m EXCEPT !.joins[t] = <<>>] IN
           /\ x \in Sys /\ x.k = m.k /\ x.procs = m.procs
           /\ \A u \in Threads : x.joins[u] = IF u = t THEN <<>> ELSE m.joins[u]
<1> DEFINE j == [m.joins EXCEPT ![t] = <<>>]
           x == [m EXCEPT !.joins = j]
<1>1. m.joins \in [Threads -> Seq(Threads)]
  BY SysParts
<1>2. /\ j \in [Threads -> Seq(Threads)]
      /\ \A u \in Threads : j[u] = IF u = t THEN <<>> ELSE m.joins[u]
  BY <1>1, EmptySeq
<1>3. [m EXCEPT !.joins[t] = <<>>] = x
  BY <1>1 DEF Sys
<1> HIDE DEF j
<1>4. x \in Sys /\ x.k = m.k /\ x.procs = m.procs /\ x.joins = j
  BY <1>2 DEF Sys
<1> HIDE DEF x
<1> QED
  BY <1>2, <1>3, <1>4

\* The end of a sub thread gives a system again.
LEMMA EndSubStep ==
    ASSUME NEW m \in Sys, NEW t \in Threads
    PROVE  EndSub(m, t) \in Sys
<1> DEFINE s == m.joins[t]
           a == AwakeAll(m, s)
           r == AuProcessFreeKeResource(m, t)
<1>1. s \in Seq(Threads)
  BY SysParts
<1> HIDE DEF s
<1>2. a \in Sys
  <2>1. PICK g \in [0 .. Len(s) -> Sys] : g[0] = m /\ g[Len(s)] = AwakeAll(m, s)
    BY <1>1, AwakeRuns
  <2>2. Len(s) \in 0 .. Len(s)
    BY <1>1, LenProperties
  <2> QED
    BY <2>1, <2>2
<1> HIDE DEF a
<1>3. r \in Sys
  <2>1. r = [a EXCEPT !.joins[t] = <<>>]
    BY DEF AuProcessFreeKeResource, AuThreadAwakeWaiters, a, s
  <2> QED
    BY <1>2, <2>1, ForgetIs
<1> HIDE DEF r
<1>4. Trash(r, t) \in Sys
  BY <1>3, TrashStep
<1> QED
  BY <1>3, <1>4 DEF EndSub, r

\* The loop over the sub threads of a process that exits, pass by pass.
LEMMA EndSubRuns ==
    ASSUME NEW m \in Sys, NEW s \in Seq(Threads)
    PROVE  \E g \in [0 .. Len(s) -> Sys] :
              /\ g[0] = m /\ g[Len(s)] = EndSubs(m, s)
              /\ \A i \in 1 .. Len(s) : g[i] = EndSub(g[i - 1], s[i])
<1> DEFINE n == Len(s)
           F == [r \in Sys |-> [i \in 1 .. n |-> EndSub(r, s[i])]]
           P(f) == f = [i \in 0 .. n |-> IF i = 0 THEN m ELSE EndSub(f[i - 1], s[i])]
           h == CHOOSE f : P(f)
<1>1. n \in Nat /\ \A i \in 1 .. n : s[i] \in Threads /\ s[i] \in All
  BY UptoIs, IdleApart
<1>2. ASSUME NEW r \in Sys, NEW i \in 1 .. n PROVE EndSub(r, s[i]) \in Sys
  BY <1>1, EndSubStep
<1>3. F \in Passes(Sys, n) /\ \A r \in Sys, i \in 1 .. n : F[r][i] = EndSub(r, s[i])
  BY <1>2 DEF Passes
<1> HIDE DEF F, n, h
<1>4. PICK g : IsRun(Sys, n, F, m, g)
  BY <1>1, <1>3, LoopExists
<1>5. /\ g \in [0 .. n -> Sys] /\ g[0] = m
      /\ \A i \in 1 .. n : g[i - 1] \in Sys /\ g[i] = EndSub(g[i - 1], s[i])
  <2>1. g \in [0 .. n -> Sys] /\ g[0] = m /\ \A i \in 1 .. n : g[i] = F[g[i - 1]][i]
    BY <1>4 DEF IsRun
  <2>2. \A i \in 1 .. n : g[i - 1] \in Sys
    BY <1>1, <2>1
  <2> QED
    BY <1>3, <2>1, <2>2
<1>6. P(g)
  BY <1>1, <1>5
<1>7. P(h)
  <2> HIDE DEF P
  <2> QED
    BY <1>6, Zenon DEF h
<1>8. h[0] = m /\ \A i \in 1 .. n : h[i] = EndSub(h[i - 1], s[i])
  <2>1. 0 \in 0 .. n /\ \A i \in 1 .. n : i \in 0 .. n /\ i # 0
    BY <1>1
  <2> QED
    BY <1>7, <2>1
<1>9. \A i \in 1 .. n : h[i - 1] \in Sys => h[i] = F[h[i - 1]][i]
  BY <1>3, <1>8
<1>10. \A i \in 0 .. n : h[i] = g[i]
  <2> HIDE DEF P
  <2> QED
    BY <1>1, <1>3, <1>4, <1>8, <1>9, LoopIs
<1>11. EndSubs(m, s) = h[n]
  BY DEF EndSubs, Each, h, n
<1>12. g[n] = EndSubs(m, s)
  BY <1>1, <1>10, <1>11
<1> QED
  BY <1>5, <1>12 DEF n

\* When all threads but the current one are marked, and nobody waits for that one,
\* the walk over the sub threads stops the current thread and nothing else.
LEMMA EndSubsIs ==
    ASSUME NEW m \in Sys, NEW s \in Seq(Threads),
           \A t \in Elems(s) : m.k.state[t] = "KILLABLE" \/ (t = m.k.cur /\ m.joins[t] = <<>>)
    PROVE  EndSubs(m, s) = IF m.k.cur \in Elems(s) THEN Trash(m, m.k.cur) ELSE m
<1> DEFINE n == Len(s)
           c == m.k.cur
           e == Trash(m, c)
<1>1. PICK g \in [0 .. n -> Sys] :
         /\ g[0] = m /\ g[n] = EndSubs(m, s)
         /\ \A i \in 1 .. n : g[i] = EndSub(g[i - 1], s[i])
  BY EndSubRuns
<1> DEFINE X == {i \in 0 .. n : g[i] = IF c \in Upto(s, i) THEN e ELSE m}
<1>2. /\ n \in Nat /\ Upto(s, 0) = {} /\ Upto(s, n) = Elems(s)
      /\ \A i \in 1 .. n : s[i] \in Threads /\ s[i] \in Elems(s)
      /\ \A i \in 1 .. n : Upto(s, i) = Upto(s, i - 1) \cup {s[i]}
  BY UptoIs
<1> HIDE DEF n
<1>3. 0 \in X
  <2>1. 0 \in 0 .. n
    BY <1>2
  <2> QED
    BY <1>1, <1>2, <2>1
<1>4. ASSUME NEW i \in 1 .. n, i - 1 \in X PROVE i \in X
  <2> DEFINE r == g[i - 1]
             t == s[i]
  <2>1. /\ r = (IF c \in Upto(s, i - 1) THEN e ELSE m) /\ g[i] = EndSub(r, t)
        /\ t \in Threads /\ t \in Elems(s) /\ i \in 0 .. n
        /\ Upto(s, i) = Upto(s, i - 1) \cup {t}
    BY <1>1, <1>2, <1>4
  <2> HIDE DEF r, t
  <2>2. \/ m.k.state[t] = "KILLABLE" \/ (t = c /\ m.joins[t] = <<>>)
    BY <2>1
  <2>3. SUFFICES EndSub(r, t) = IF c = t \/ c \in Upto(s, i - 1) THEN e ELSE m
    BY <2>1
  <2>4. c \in Upto(s, i - 1) \/ c = t => c \in Threads
    <3>1. \A j \in 1 .. i - 1 : j \in 1 .. n
      BY <1>2
    <3> QED
      BY <1>2, <2>1, <3>1 DEF Upto
  <2>5. c \in Threads => e \in Sys /\ e.k.state[c] = "KILLABLE"
                         /\ \A u \in All \ {c} : e.k.state[u] = m.k.state[u]
    <3>1. ASSUME c \in Threads PROVE TrashedIs(m.k, e.k, {c}) /\ e \in Sys
      BY <3>1, TrashStep
    <3>2. c \in Threads => c \in All
      BY IdleApart
    <3> HIDE DEF c, e
    <3> QED
      BY <3>1, <3>2 DEF TrashedIs
  <2>6. m.k.state[c] = "KILLABLE" => e = m
    <3>1. ASSUME m.k.state[c] = "KILLABLE" PROVE AuThreadMoveToTrash(m.k, c) = m.k
      BY <3>1 DEF AuThreadMoveToTrash
    <3> QED
      BY <3>1 DEF Trash, Sys
  <2>7. CASE c \in Upto(s, i - 1)
    <3>1. t \in All
      BY <2>1, IdleApart
    <3>2. e.k.state[t] = "KILLABLE"
      <4> HIDE DEF c, e
      <4> QED
        BY <2>2, <2>4, <2>5, <2>7, <3>1
    <3> QED
      BY <2>1, <2>7, <3>2 DEF EndSub
  <2>8. CASE c \notin Upto(s, i - 1) /\ m.k.state[t] = "KILLABLE"
    <3>1. EndSub(m, t) = m
      BY <2>8 DEF EndSub
    <3> HIDE DEF e
    <3> QED
      BY <2>1, <2>6, <2>8, <3>1
  <2>9. CASE c \notin Upto(s, i - 1) /\ m.k.state[t] # "KILLABLE"
    <3>1. t = c /\ m.joins[t] = <<>> /\ r = m
      BY <2>1, <2>2, <2>9
    <3>2. AuProcessFreeKeResource(m, t) = m
      BY <2>1, <3>1, AwakeNone DEF AuProcessFreeKeResource
    <3>3. EndSub(m, t) = Trash(m, t)
      BY <2>9, <3>1, <3>2 DEF EndSub
    <3> QED
      BY <3>1, <3>3
  <2> QED
    BY <2>7, <2>8, <2>9
<1>5. n \in X
  <2>1. X \in SUBSET (0 .. n) /\ n \in 0 .. n
    BY <1>2
  <2> HIDE DEF X
  <2> QED
    BY <1>2, <1>3, <1>4, <2>1, LoopInduction
<1> QED
  BY <1>1, <1>2, <1>5

-----------------------------------------------------------------------------
(* The inductive invariant *)

Whereabouts == {User, Over} \cup ({"join"} \X Subs) \cup ({"wait"} \X Procs)

Linked(m, t) == \E l \in Lists : t \in On(m, l)

ThreadsOf(m, p) == {Main[p]} \cup Elems(m.procs[p].threads)

WaitsFor(m, p) == Elems(m.procs[p].waitlist)

\* The entries on the waitlists of the threads of p.
Joined(m, p) ==
    {x \in Subs \X (1 .. MaxWaits) : SubOf[x[1]] = p /\ x[2] \in DOMAIN m.joins[x[1]]}

\* A thread is linked once, on the list that its state says; a sub thread that
\* has marked itself stays on the ready list.
ListsOK(m) ==
    /\ On(m, "sleep") = {}
    /\ \A l, n \in Lists : l # n => On(m, l) \cap On(m, n) = {}
    /\ Idle \in On(m, "ready") /\ m.k.state[Idle] \in Active
    /\ \A t \in On(m, "ready") :
          m.k.state[t] \in Active \/ (t \in Subs /\ m.k.state[t] = "KILLABLE")
    /\ \A t \in All : m.k.state[t] = "BLOCKED" <=> t \in On(m, "blocked")

\* Who is marked is over; who is over and may be picked is marked; the threads
\* of a dead process are over, and those of a reaped one are linked nowhere.
EndsOK(m, w) ==
    /\ \A t \in All : m.k.state[t] = "KILLABLE" => w[t] = Over
    /\ \A t \in On(m, "ready") \cup On(m, "blocked") : w[t] = Over => m.k.state[t] = "KILLABLE"
    /\ \A p \in Procs : m.procs[p].state # "alive" => \A t \in ThreadsOf(m, p) : w[t] = Over
    /\ \A p \in Procs : m.procs[p].state = "reaped" =>
          \A t \in ThreadsOf(m, p) : ~Linked(m, t) /\ m.joins[t] = <<>>

\* A process has its own sub threads; one that is not created yet does nothing.
CreatedOK(m, w) ==
    /\ \A p \in Procs : \A u \in Elems(m.procs[p].threads) : u \in Subs /\ SubOf[u] = p
    /\ \A u \in Subs : u \notin Elems(m.procs[SubOf[u]].threads) =>
          /\ m.k.state[u] \in Active /\ w[u] = User /\ ~Linked(m, u)
          /\ \A p \in Procs : u \notin WaitsFor(m, p)

\* Who is blocked for the end of a process is on the waitlist of a process that
\* is alive; sub threads block for no other reason, and wait for one at a time.
WaitsOK(m, w) ==
    /\ \A p \in Procs : \A t \in WaitsFor(m, p) :
          ProcOf(t) # p /\ (t \in Subs => t \notin On(m, "ready"))
    /\ \A p, q \in Procs, t \in Subs : t \in WaitsFor(m, p) /\ t \in WaitsFor(m, q) => p = q
    /\ \A t \in Threads, p \in Procs : w[t] = <<"wait", p>> /\ m.k.state[t] = "BLOCKED" =>
          m.procs[p].state = "alive" /\ t \in WaitsFor(m, p)
    /\ \A t \in Subs : m.k.state[t] = "BLOCKED" => \E p \in Procs : w[t] = <<"wait", p>>

\* Only the main thread of a process waits for its sub threads; the process counts
\* these waits, and is busy (it cannot be ended) as long as there is one.
JoinsOK(m) ==
    /\ \A u \in Threads : Len(m.joins[u]) <= MaxWaits
    /\ \A u \in Threads : \A t \in Elems(m.joins[u]) :
          u \in Subs /\ t = Main[SubOf[u]] /\ u \in Elems(m.procs[SubOf[u]].threads)
    /\ \A p \in Procs : m.procs[p].state = "alive" =>
          /\ m.procs[p].waiting = Cardinality(Joined(m, p))
          /\ p # root /\ Joined(m, p) # {} => m.procs[p].busy

Sound(m, w) ==
    /\ m \in Sys /\ w \in [All -> Whereabouts]
    /\ ListsOK(m) /\ EndsOK(m, w) /\ CreatedOK(m, w) /\ WaitsOK(m, w) /\ JoinsOK(m)

\* The current thread is ready.
AtWork(m) == m.k.cur \in On(m, "ready") /\ m.k.state[m.k.cur] \in Active

IInv == Sound(Now, at) /\ AtWork(Now)

\* The four lists.
LEMMA ListNames ==
    /\ "ready" \in Lists /\ "blocked" \in Lists /\ "sleep" \in Lists /\ "trash" \in Lists
    /\ \A l \in Lists : l = "ready" \/ l = "blocked" \/ l = "sleep" \/ l = "trash"
BY DEF Lists

\* The threads of a process are its own.
LEMMA ThreadsOfIs ==
    ASSUME NEW m, NEW w, Sound(m, w), NEW p \in Procs, NEW t \in ThreadsOf(m, p)
    PROVE  t \in Threads /\ t \in All /\ ProcOf(t) = p
<1>1. CASE t = Main[p]
  BY <1>1, ProcOfIs, IdleApart
<1>2. CASE t \in Elems(m.procs[p].threads)
  <2>1. t \in Subs /\ SubOf[t] = p
    BY <1>2 DEF Sound, CreatedOK
  <2> QED
    BY <2>1, ProcOfIs, IdleApart
<1> QED
  BY <1>1, <1>2 DEF ThreadsOf

\* A thread that is linked is one of its process.
LEMMA LinkedIs ==
    ASSUME NEW m, NEW w, Sound(m, w), NEW t \in Threads, Linked(m, t)
    PROVE  t \in ThreadsOf(m, ProcOf(t))
<1>1. CASE t \in Subs
  BY <1>1, ProcOfIs DEF Sound, CreatedOK, ThreadsOf
<1>2. CASE t \notin Subs
  BY <1>2, ProcOfIs DEF ThreadsOf
<1> QED
  BY <1>1, <1>2

\* The process of the current thread is alive.
LEMMA CurIs ==
    ASSUME NEW m, NEW w, Sound(m, w), AtWork(m)
    PROVE  /\ m.k.cur \in All /\ w[m.k.cur] # Over /\ Linked(m, m.k.cur)
           /\ \A l \in Lists \ {"ready"} : m.k.cur \notin On(m, l)
           /\ m.k.cur \in Threads => /\ ProcOf(m.k.cur) \in Procs
                                     /\ m.k.cur \in ThreadsOf(m, ProcOf(m.k.cur))
                                     /\ m.procs[ProcOf(m.k.cur)].state = "alive"
<1> DEFINE c == m.k.cur
           p == ProcOf(c)
<1>1. c \in All /\ c \in On(m, "ready") /\ m.k.state[c] \in Active
  BY SysParts DEF Sound, AtWork
<1>2. w[c] # Over
  BY <1>1 DEF Sound, EndsOK, Active
<1>3. Linked(m, c) /\ \A l \in Lists \ {"ready"} : c \notin On(m, l)
  BY <1>1, ListNames DEF Sound, ListsOK, Linked
<1>4. ASSUME c \in Threads
      PROVE  p \in Procs /\ c \in ThreadsOf(m, p) /\ m.procs[p].state = "alive"
  <2>1. p \in Procs /\ c \in ThreadsOf(m, p)
    BY <1>3, <1>4, LinkedIs, ProcOfIs
  <2> QED
    BY <1>2, <2>1 DEF Sound, EndsOK
<1> QED
  BY <1>1, <1>2, <1>3, <1>4

\* The waits of a process can be counted.
LEMMA JoinedFinite ==
    ASSUME NEW m, NEW p \in Procs
    PROVE  IsFiniteSet(Joined(m, p)) /\ Cardinality(Joined(m, p)) \in Nat
<1>1. IsFiniteSet(Subs)
  BY ProcConstants, ListConstants, FS_Subset
<1>2. IsFiniteSet(1 .. MaxWaits)
  BY ProcConstants, FS_Interval
<1>3. IsFiniteSet(Subs \X (1 .. MaxWaits))
  BY <1>1, <1>2, FS_Product
<1> QED
  BY <1>3, FS_Subset, FS_CardinalityType DEF Joined

\* Two systems with the same waitlists of the threads of p.
LEMMA JoinedSame ==
    ASSUME NEW m, NEW x, NEW p \in Procs,
           \A u \in Subs : SubOf[u] = p => x.joins[u] = m.joins[u]
    PROVE  Joined(x, p) = Joined(m, p)
BY DEF Joined

-----------------------------------------------------------------------------
(* The timer interrupt, and the switch at the end of a call *)

\* The thread that gets the CPU is not over; nothing else changes.
LEMMA SwitchKeeps ==
    ASSUME NEW m, NEW w, Sound(m, w), Placed(m.k)
    PROVE  LET q == AuScheduleThread(m.k)
               x == [k |-> q, procs |-> m.procs, joins |-> m.joins]
               v == IF w[q.cur] = Over THEN w ELSE [w EXCEPT ![q.cur] = User]
           IN  Sound(x, v) /\ AtWork(x)
<1> DEFINE q == AuScheduleThread(m.k)
           c == q.cur
           x == [k |-> q, procs |-> m.procs, joins |-> m.joins]
           v == IF w[c] = Over THEN w ELSE [w EXCEPT ![c] = User]
<1>1. m \in Sys /\ m.k \in KRec /\ w \in [All -> Whereabouts]
  BY SysParts DEF Sound
<1>2. /\ q \in KRec
      /\ \A l \in Lists : Elems(q.list[l]) = On(m, l)
      /\ \A t \in All : q.state[t] = m.k.state[t] \/ {q.state[t], m.k.state[t]} \subseteq Active
      /\ c \in On(m, "ready") /\ q.state[c] \in Active
  BY <1>1, ScheduleIs DEF Sound, ListsOK, On
<1> HIDE DEF q
<1>3. x \in Sys /\ x.k = q /\ x.procs = m.procs /\ x.joins = m.joins
  BY <1>1, <1>2 DEF Sys
<1> HIDE DEF x, c
<1>4. c \in All /\ m.k.state[c] \in Active
  BY <1>1, <1>2, KParts, ListNames DEF On, Active
<1>5. w[c] # Over
  BY <1>2, <1>4 DEF Sound, EndsOK, Active
<1>6. v \in [All -> Whereabouts] /\ \A t \in All : v[t] = IF t = c THEN User ELSE w[t]
  BY <1>1, <1>4, <1>5 DEF Whereabouts
<1> HIDE DEF v
<1>7. \A l \in Lists : On(x, l) = On(m, l)
  BY <1>2, <1>3 DEF On
<1>8. \A t \in All : /\ x.k.state[t] \in Active <=> m.k.state[t] \in Active
                     /\ x.k.state[t] \notin Active => x.k.state[t] = m.k.state[t]
  BY <1>2, <1>3
<1>9. "BLOCKED" \notin Active /\ "KILLABLE" \notin Active
  BY DEF Active
<1>10. \A t \in All : /\ x.k.state[t] = "BLOCKED" <=> m.k.state[t] = "BLOCKED"
                      /\ x.k.state[t] = "KILLABLE" <=> m.k.state[t] = "KILLABLE"
  BY <1>2, <1>3, <1>9
<1>11. \A l \in Lists : On(m, l) \subseteq All
  BY <1>1, SysParts
<1>12. User # Over /\ \A p : User # <<"wait", p>>
  BY DEF User, Over
<1>13. ListsOK(x)
  BY <1>7, <1>8, <1>10, <1>11, IdleApart, ListNames DEF Sound, ListsOK
<1>14. \A t \in All : (t = c => m.k.state[t] # "KILLABLE" /\ w[t] # Over)
  BY <1>4, <1>5, <1>9
<1>15. \A t : Linked(x, t) <=> Linked(m, t)
  BY <1>7 DEF Linked
<1>16. \A p \in Procs : ThreadsOf(x, p) = ThreadsOf(m, p) /\ ThreadsOf(m, p) \subseteq All
  BY <1>3, ThreadsOfIs DEF ThreadsOf
<1>17. EndsOK(x, v)
  <2>1. \A t \in All : x.k.state[t] = "KILLABLE" => v[t] = Over
    BY <1>6, <1>10, <1>14 DEF Sound, EndsOK
  <2>2. \A t \in On(x, "ready") \cup On(x, "blocked") : v[t] = Over => x.k.state[t] = "KILLABLE"
    BY <1>6, <1>7, <1>10, <1>11, <1>12, ListNames DEF Sound, EndsOK
  <2>3. \A p \in Procs : x.procs[p].state # "alive" => \A t \in ThreadsOf(x, p) : v[t] = Over
    BY <1>3, <1>6, <1>14, <1>16 DEF Sound, EndsOK
  <2>4. \A p \in Procs : x.procs[p].state = "reaped" =>
            \A t \in ThreadsOf(x, p) : ~Linked(x, t) /\ x.joins[t] = <<>>
    BY <1>3, <1>15, <1>16 DEF Sound, EndsOK
  <2> QED
    BY <2>1, <2>2, <2>3, <2>4 DEF EndsOK
<1>18. Linked(m, c)
  BY <1>2, ListNames DEF Linked
<1>19. CreatedOK(x, v)
  <2>1. \A p \in Procs : WaitsFor(x, p) = WaitsFor(m, p)
    BY <1>3 DEF WaitsFor
  <2>2. ASSUME NEW u \in Subs, u \notin Elems(x.procs[SubOf[u]].threads)
        PROVE  /\ x.k.state[u] \in Active /\ v[u] = User /\ ~Linked(x, u)
               /\ \A p \in Procs : u \notin WaitsFor(x, p)
    <3>1. u \in All
      BY ProcOfIs, IdleApart
    <3>2. /\ m.k.state[u] \in Active /\ w[u] = User /\ ~Linked(m, u)
          /\ \A p \in Procs : u \notin WaitsFor(m, p)
      BY <1>3, <2>2 DEF Sound, CreatedOK
    <3> QED
      BY <1>6, <1>8, <1>15, <2>1, <3>1, <3>2
  <2>3. \A p \in Procs : \A u \in Elems(x.procs[p].threads) : u \in Subs /\ SubOf[u] = p
    BY <1>3 DEF Sound, CreatedOK
  <2> QED
    BY <2>2, <2>3 DEF CreatedOK
<1>20. WaitsOK(x, v)
  <2>1. \A p \in Procs : WaitsFor(x, p) = WaitsFor(m, p)
    BY <1>3 DEF WaitsFor
  <2>2. \A p \in Procs : \A t \in WaitsFor(x, p) :
            ProcOf(t) # p /\ (t \in Subs => t \notin On(x, "ready"))
    BY <1>7, <2>1, ListNames DEF Sound, WaitsOK
  <2>3. \A p, q_1 \in Procs, t \in Subs : t \in WaitsFor(x, p) /\ t \in WaitsFor(x, q_1) => p = q_1
    BY <2>1 DEF Sound, WaitsOK
  <2>4. \A t \in Threads, p \in Procs : v[t] = <<"wait", p>> /\ x.k.state[t] = "BLOCKED" =>
            x.procs[p].state = "alive" /\ t \in WaitsFor(x, p)
    BY <1>3, <1>6, <1>10, <1>12, <2>1, IdleApart DEF Sound, WaitsOK
  <2>5. \A t \in Subs : x.k.state[t] = "BLOCKED" => \E p \in Procs : v[t] = <<"wait", p>>
    BY <1>4, <1>6, <1>9, <1>10, ProcOfIs, IdleApart DEF Sound, WaitsOK
  <2> QED
    BY <2>2, <2>3, <2>4, <2>5 DEF WaitsOK
<1>21. JoinsOK(x)
  <2>1. \A p \in Procs : Joined(x, p) = Joined(m, p)
    BY <1>3, JoinedSame
  <2> QED
    BY <1>3, <2>1 DEF Sound, JoinsOK
<1>22. AtWork(x)
  BY <1>2, <1>3, <1>7, ListNames DEF AtWork, c
<1> QED
  BY <1>3, <1>6, <1>13, <1>17, <1>19, <1>20, <1>21, <1>22 DEF Sound, x, v, q, c

\* A call that ends in AuScheduleThread.
LEMMA Switched ==
    ASSUME NEW m, NEW w, Sound(m, w), Placed(m.k), Switch(m, w)
    PROVE  IInv'
<1> DEFINE q == AuScheduleThread(m.k)
           x == [k |-> q, procs |-> m.procs, joins |-> m.joins]
           v == IF w[q.cur] = Over THEN w ELSE [w EXCEPT ![q.cur] = User]
<1>1. Sound(x, v) /\ AtWork(x)
  BY SwitchKeeps
<1>2. Now' = x /\ at' = v
  BY DEF Switch, Now
<1> HIDE DEF x, v
<1>3. Sound(Now', at') /\ AtWork(Now')
  BY <1>1, <1>2
<1> QED
  BY <1>3 DEF IInv, Sound, AtWork, ListsOK, EndsOK, CreatedOK, WaitsOK, JoinsOK, On, Linked,
              ThreadsOf, WaitsFor, Joined

\* A current thread that is ready may be switched from.
LEMMA WorkPlaced ==
    ASSUME NEW m, NEW w, Sound(m, w), AtWork(m)
    PROVE  Placed(m.k)
BY DEF Sound, ListsOK, AtWork, Placed, On

\* Nobody begins or ends to wait for a thread.
LEMMA JoinsKept ==
    ASSUME NEW m, NEW x, JoinsOK(m), x.joins = m.joins,
           \A r \in Procs : /\ x.procs[r].threads = m.procs[r].threads
                            /\ x.procs[r].busy = m.procs[r].busy
                            /\ x.procs[r].waiting = m.procs[r].waiting
                            /\ x.procs[r].state = "alive" => m.procs[r].state = "alive"
    PROVE  JoinsOK(x)
<1>1. \A u \in Threads : Len(x.joins[u]) <= MaxWaits
  BY DEF JoinsOK
<1>2. ASSUME NEW u \in Threads, NEW t \in Elems(x.joins[u])
      PROVE  u \in Subs /\ t = Main[SubOf[u]] /\ u \in Elems(x.procs[SubOf[u]].threads)
  <2>1. u \in Subs /\ t = Main[SubOf[u]] /\ u \in Elems(m.procs[SubOf[u]].threads)
    BY DEF JoinsOK
  <2> QED
    BY <2>1, ProcOfIs
<1>3. ASSUME NEW p \in Procs, x.procs[p].state = "alive"
      PROVE  /\ x.procs[p].waiting = Cardinality(Joined(x, p))
             /\ p # root /\ Joined(x, p) # {} => x.procs[p].busy
  <2>1. Joined(x, p) = Joined(m, p)
    BY JoinedSame
  <2>2. /\ m.procs[p].waiting = Cardinality(Joined(m, p))
        /\ p # root /\ Joined(m, p) # {} => m.procs[p].busy
    BY <1>3 DEF JoinsOK
  <2> QED
    BY <2>1, <2>2
<1> QED
  BY <1>1, <1>2, <1>3 DEF JoinsOK

\* The invariant of the next state.
LEMMA PrimedIs ==
    ASSUME Sound(Now', at'), AtWork(Now')
    PROVE  IInv'
BY DEF IInv, Sound, AtWork, ListsOK, EndsOK, CreatedOK, WaitsOK, JoinsOK, On, Linked,
       ThreadsOf, WaitsFor, Joined

\* The timer interrupt.
LEMMA TickStep ==
    ASSUME IInv, Tick
    PROVE  IInv'
<1>1. Sound(Now, at) /\ AtWork(Now) /\ Switch(Now, at)
  BY DEF IInv, Tick
<1>2. Placed(Now.k)
  BY <1>1, WorkPlaced
<1> QED
  BY <1>1, <1>2, Switched

-----------------------------------------------------------------------------
(* Threads that begin to wait *)

\* The current thread is blocked: it leaves the ready list for the end of the
\* blocked one.
LEMMA BlockedIs ==
    ASSUME NEW m, NEW w, Sound(m, w), AtWork(m), m.k.cur \in Threads,
           NEW x, x \in Sys, x.k = AuBlockThread(m.k, m.k.cur)
    PROVE  /\ Placed(x.k) /\ ListsOK(x)
           /\ \A t \in All : x.k.state[t] = IF t = m.k.cur THEN "BLOCKED" ELSE m.k.state[t]
           /\ On(x, "ready") = On(m, "ready") \ {m.k.cur}
           /\ On(x, "blocked") = On(m, "blocked") \cup {m.k.cur}
           /\ \A t : Linked(x, t) <=> Linked(m, t)
<1> DEFINE c == m.k.cur
           q == AuBlockThread(m.k, c)
<1>1. /\ m \in Sys /\ m.k \in KRec /\ c \in All /\ c \in On(m, "ready") /\ m.k.state[c] \in Active
      /\ \A l \in Lists : On(m, l) \subseteq All
  BY SysParts DEF Sound, AtWork
<1>2. /\ q \in KRec /\ q.cur = c
      /\ \A u \in All : q.state[u] = IF u = c THEN "BLOCKED" ELSE m.k.state[u]
      /\ Elems(q.list["ready"]) = Elems(m.k.list["ready"]) \ {c}
      /\ Elems(q.list["blocked"]) = Elems(m.k.list["blocked"]) \cup {c}
      /\ \A l \in {"sleep", "trash"} : q.list[l] = m.k.list[l]
      /\ c \notin Elems(m.k.list["blocked"]) => LastOnly(q.list["blocked"], c)
  BY <1>1, BlockIs
<1>3. x.k = q
  OBVIOUS
<1> HIDE DEF q, c
<1>4. /\ On(x, "ready") = On(m, "ready") \ {c}
      /\ On(x, "blocked") = On(m, "blocked") \cup {c}
      /\ On(x, "sleep") = On(m, "sleep") /\ On(x, "trash") = On(m, "trash")
  BY <1>2, <1>3 DEF On
<1>5. c \notin On(m, "blocked") /\ c \notin On(m, "sleep") /\ c \notin On(m, "trash")
  BY <1>1, ListNames DEF Sound, ListsOK
<1>6. \A l, n \in Lists : l # n => On(x, l) \cap On(x, n) = {}
  <2>1. \A l, n \in Lists : l # n => On(m, l) \cap On(m, n) = {}
    BY DEF Sound, ListsOK
  <2> QED
    BY <1>4, <1>5, <2>1, ListNames
<1>7. Placed(x.k)
  <2>1. LastOnly(x.k.list["blocked"], x.k.cur)
    BY <1>2, <1>3, <1>5 DEF On
  <2>2. \A l, n \in Lists : l # n => Elems(x.k.list[l]) \cap Elems(x.k.list[n]) = {}
    BY <1>6 DEF On
  <2> QED
    BY <2>1, <2>2, ListNames DEF Placed
<1>8. c # Idle
  BY IdleApart DEF c
<1>9. ListsOK(x)
  <2>1. On(x, "sleep") = {}
    BY <1>4 DEF Sound, ListsOK
  <2>2. Idle \in On(x, "ready") /\ x.k.state[Idle] \in Active
    BY <1>2, <1>3, <1>4, <1>8, IdleApart DEF Sound, ListsOK
  <2>3. \A t \in On(x, "ready") :
            x.k.state[t] \in Active \/ (t \in Subs /\ x.k.state[t] = "KILLABLE")
    BY <1>1, <1>2, <1>3, <1>4, ListNames DEF Sound, ListsOK
  <2>4. \A t \in All : x.k.state[t] = "BLOCKED" <=> t \in On(x, "blocked")
    BY <1>2, <1>3, <1>4 DEF Sound, ListsOK
  <2> QED
    BY <1>6, <2>1, <2>2, <2>3, <2>4 DEF ListsOK
<1>10. \A t : Linked(x, t) <=> Linked(m, t)
  <2>1. \A y, t : Linked(y, t) <=> \/ t \in On(y, "ready") \/ t \in On(y, "blocked")
                                   \/ t \in On(y, "sleep") \/ t \in On(y, "trash")
    BY ListNames DEF Linked
  <2> QED
    BY <1>1, <1>4, <2>1
<1> QED
  BY <1>2, <1>3, <1>4, <1>7, <1>9, <1>10 DEF c

\* ProcessWaitForTermination of a process: the thread is on its waitlist.
LEMMA WaitKeeps ==
    ASSUME NEW m, NEW w, Sound(m, w), AtWork(m), NEW t \in Threads, t = m.k.cur,
           NEW p \in Procs, p # ProcOf(t), m.procs[p].state = "alive"
    PROVE  LET x == [m EXCEPT !.k = AuBlockThread(@, t), !.procs[p].waitlist = Append(@, t)]
               v == [w EXCEPT ![t] = <<"wait", p>>]
           IN  Sound(x, v) /\ Placed(x.k)
<1> DEFINE q == AuBlockThread(m.k, t)
           l == Append(m.procs[p].waitlist, t)
           d == [m.procs EXCEPT ![p] = [m.procs[p] EXCEPT !.waitlist = l]]
           x == [m EXCEPT !.k = q, !.procs = d]
           v == [w EXCEPT ![t] = <<"wait", p>>]
<1>1. m \in Sys /\ m.k \in KRec /\ m.procs \in [Procs -> PRec] /\ m.procs[p] \in PRec
  BY SysParts DEF Sound
<1>2. w \in [All -> Whereabouts] /\ t \in All
  BY IdleApart DEF Sound
<1>3. q \in KRec
  BY <1>1, <1>2, BlockIs
<1>4. l \in Seq(Threads) /\ Elems(l) = WaitsFor(m, p) \cup {t}
  BY <1>1, ProcParts, AppendIs DEF WaitsFor
<1>5. [m EXCEPT !.k = AuBlockThread(@, t), !.procs[p].waitlist = Append(@, t)] = x
  BY <1>1 DEF Sys, PRec
<1> HIDE DEF q, l
<1>6. /\ d \in [Procs -> PRec]
      /\ \A r \in Procs : /\ d[r].state = m.procs[r].state /\ d[r].threads = m.procs[r].threads
                          /\ d[r].busy = m.procs[r].busy /\ d[r].waiting = m.procs[r].waiting
                          /\ d[r].waitlist = IF r = p THEN l ELSE m.procs[r].waitlist
  BY <1>1, <1>4 DEF PRec
<1> HIDE DEF d
<1>7. x \in Sys /\ x.k = q /\ x.procs = d /\ x.joins = m.joins
  BY <1>1, <1>3, <1>6 DEF Sys
<1> HIDE DEF x
<1>8. /\ Placed(x.k) /\ ListsOK(x)
      /\ \A u \in All : x.k.state[u] = IF u = t THEN "BLOCKED" ELSE m.k.state[u]
      /\ On(x, "ready") = On(m, "ready") \ {t} /\ On(x, "blocked") = On(m, "blocked") \cup {t}
      /\ \A u : Linked(x, u) <=> Linked(m, u)
  BY <1>7, BlockedIs DEF q
<1>9. /\ w[t] # Over /\ Linked(m, t) /\ ProcOf(t) \in Procs
      /\ t \in ThreadsOf(m, ProcOf(t)) /\ m.procs[ProcOf(t)].state = "alive"
      /\ t \in On(m, "ready") /\ m.k.state[t] \in Active
  BY CurIs DEF AtWork
<1>10. \A r \in Procs : /\ ThreadsOf(x, r) = ThreadsOf(m, r) /\ ThreadsOf(m, r) \subseteq All
                        /\ WaitsFor(x, r) = IF r = p THEN WaitsFor(m, p) \cup {t}
                                            ELSE WaitsFor(m, r)
  BY <1>4, <1>6, <1>7, ThreadsOfIs DEF ThreadsOf, WaitsFor
<1>11. /\ v \in [All -> Whereabouts]
       /\ \A u \in All : v[u] = IF u = t THEN <<"wait", p>> ELSE w[u]
  BY <1>2 DEF Whereabouts
<1>12. <<"wait", p>> # Over /\ "BLOCKED" \notin Active /\ "BLOCKED" # "KILLABLE"
  BY DEF Over, Active
<1> HIDE DEF v
<1>13. \A n \in Lists : On(m, n) \subseteq All
  BY <1>1, SysParts
<1>14. EndsOK(x, v)
  <2>1. \A u \in All : x.k.state[u] = "KILLABLE" => v[u] = Over
    BY <1>8, <1>11, <1>12 DEF Sound, EndsOK
  <2>2. \A u \in On(x, "ready") \cup On(x, "blocked") : v[u] = Over => x.k.state[u] = "KILLABLE"
    BY <1>2, <1>8, <1>11, <1>12, <1>13, ListNames DEF Sound, EndsOK
  <2>3. ASSUME NEW r \in Procs, x.procs[r].state # "alive", NEW u \in ThreadsOf(x, r)
        PROVE  v[u] = Over
    <3>1. m.procs[r].state # "alive" /\ u \in ThreadsOf(m, r) /\ u \in All
      BY <1>6, <1>7, <1>10, <2>3
    <3>2. w[u] = Over
      BY <3>1 DEF Sound, EndsOK
    <3> QED
      BY <1>9, <1>11, <3>1, <3>2
  <2>4. \A r \in Procs : x.procs[r].state = "reaped" =>
            \A u \in ThreadsOf(x, r) : ~Linked(x, u) /\ x.joins[u] = <<>>
    BY <1>6, <1>7, <1>8, <1>10 DEF Sound, EndsOK
  <2> QED
    BY <2>1, <2>2, <2>3, <2>4 DEF EndsOK
<1>15. CreatedOK(x, v)
  <2>1. ASSUME NEW u \in Subs, u \notin Elems(x.procs[SubOf[u]].threads)
        PROVE  /\ x.k.state[u] \in Active /\ v[u] = User /\ ~Linked(x, u)
               /\ \A r \in Procs : u \notin WaitsFor(x, r)
    <3>1. u \in All /\ SubOf[u] \in Procs
      BY ProcOfIs, IdleApart
    <3>2. /\ m.k.state[u] \in Active /\ w[u] = User /\ ~Linked(m, u)
          /\ \A r \in Procs : u \notin WaitsFor(m, r)
      BY <1>6, <1>7, <2>1, <3>1 DEF Sound, CreatedOK
    <3>3. u # t
      BY <1>9, <3>2
    <3> QED
      BY <1>8, <1>10, <1>11, <3>1, <3>2, <3>3
  <2>2. \A r \in Procs : \A u \in Elems(x.procs[r].threads) : u \in Subs /\ SubOf[u] = r
    BY <1>6, <1>7 DEF Sound, CreatedOK
  <2> QED
    BY <2>1, <2>2 DEF CreatedOK
<1>16. WaitsOK(x, v)
  <2>1. \A r \in Procs : \A u \in WaitsFor(x, r) :
            ProcOf(u) # r /\ (u \in Subs => u \notin On(x, "ready"))
    BY <1>8, <1>10 DEF Sound, WaitsOK
  <2>2. t \in Subs => \A r \in Procs : t \notin WaitsFor(m, r)
    BY <1>9 DEF Sound, WaitsOK
  <2>3. \A r, s \in Procs, u \in Subs : u \in WaitsFor(x, r) /\ u \in WaitsFor(x, s) => r = s
    BY <1>10, <2>2 DEF Sound, WaitsOK
  <2>4. ASSUME NEW u \in Threads, NEW r \in Procs, v[u] = <<"wait", r>>, x.k.state[u] = "BLOCKED"
        PROVE  x.procs[r].state = "alive" /\ u \in WaitsFor(x, r)
    <3>1. u \in All
      BY IdleApart
    <3>2. CASE u = t
      BY <1>6, <1>7, <1>10, <1>11, <2>4, <3>1, <3>2
    <3>3. CASE u # t
      <4>1. w[u] = <<"wait", r>> /\ m.k.state[u] = "BLOCKED"
        BY <1>8, <1>11, <2>4, <3>1, <3>3
      <4> QED
        BY <1>6, <1>7, <1>10, <4>1 DEF Sound, WaitsOK
    <3> QED
      BY <3>2, <3>3
  <2>5. \A u \in Subs : x.k.state[u] = "BLOCKED" => \E r \in Procs : v[u] = <<"wait", r>>
    BY <1>8, <1>11, ProcOfIs, IdleApart DEF Sound, WaitsOK
  <2> QED
    BY <2>1, <2>3, <2>4, <2>5 DEF WaitsOK
<1>17. JoinsOK(x)
  <2>1. JoinsOK(m)
    BY DEF Sound
  <2> QED
    BY <1>6, <1>7, <2>1, JoinsKept
<1> QED
  BY <1>5, <1>7, <1>8, <1>11, <1>14, <1>15, <1>16, <1>17 DEF Sound, v

\* One more entry on the waitlist of a thread of p.
LEMMA JoinedMore ==
    ASSUME NEW m, NEW w, Sound(m, w), NEW x, NEW p \in Procs, NEW u \in Subs, SubOf[u] = p,
           NEW a \in Seq(Threads), Len(a) = Len(m.joins[u]) + 1, Len(a) <= MaxWaits,
           \A y \in Threads : x.joins[y] = IF y = u THEN a ELSE m.joins[y]
    PROVE  Cardinality(Joined(x, p)) = Cardinality(Joined(m, p)) + 1
<1> DEFINE s == m.joins[u]
           n == Len(s)
<1>1. m \in Sys /\ u \in Threads
  BY ProcOfIs DEF Sound
<1>2. s \in Seq(Threads)
  BY <1>1, SysParts
<1>3. n \in Nat /\ DOMAIN s = 1 .. n
  BY <1>2, LenProperties
<1>4. DOMAIN a = 1 .. n + 1
  BY LenProperties
<1>6. n + 1 \in 1 .. MaxWaits /\ n + 1 \notin 1 .. n /\ 1 .. n + 1 = (1 .. n) \cup {n + 1}
  BY <1>3
<1>7. \A y \in Subs : DOMAIN x.joins[y] = IF y = u THEN 1 .. n + 1 ELSE DOMAIN m.joins[y]
  BY <1>4, ProcOfIs
<1> HIDE DEF n, s
<1>8. Joined(x, p) = Joined(m, p) \cup {<<u, n + 1>>}
  <2>1. ASSUME NEW y \in Joined(x, p) PROVE y \in Joined(m, p) \cup {<<u, n + 1>>}
    <3>1. y \in Subs \X (1 .. MaxWaits) /\ SubOf[y[1]] = p /\ y[2] \in DOMAIN x.joins[y[1]]
      BY DEF Joined
    <3>2. CASE y[1] = u
      <4>1. y[2] \in 1 .. n \/ y[2] = n + 1
        BY <1>6, <1>7, <3>1, <3>2
      <4>2. CASE y[2] \in 1 .. n
        BY <1>3, <3>1, <3>2, <4>2 DEF Joined, s
      <4>3. CASE y[2] = n + 1
        BY <3>1, <3>2, <4>3
      <4> QED
        BY <4>1, <4>2, <4>3
    <3>3. CASE y[1] # u
      BY <1>7, <3>1, <3>3 DEF Joined
    <3> QED
      BY <3>2, <3>3
  <2>2. ASSUME NEW y \in Joined(m, p) PROVE y \in Joined(x, p)
    <3>1. y \in Subs \X (1 .. MaxWaits) /\ SubOf[y[1]] = p /\ y[2] \in DOMAIN m.joins[y[1]]
      BY DEF Joined
    <3>2. y[2] \in DOMAIN x.joins[y[1]]
      BY <1>3, <1>6, <1>7, <3>1 DEF s
    <3> QED
      BY <3>1, <3>2 DEF Joined
  <2>3. <<u, n + 1>> \in Joined(x, p)
    BY <1>6, <1>7 DEF Joined
  <2> QED
    BY <2>1, <2>2, <2>3
<1>9. <<u, n + 1>> \notin Joined(m, p)
  BY <1>3, <1>6 DEF Joined, s
<1> DEFINE J == Joined(m, p)
           e == <<u, n + 1>>
<1>10. IsFiniteSet(J) /\ e \notin J /\ Joined(x, p) = J \cup {e}
  BY <1>8, <1>9, JoinedFinite
<1> HIDE DEF J, e
<1>11. Cardinality(J \cup {e}) = Cardinality(J) + 1
  BY <1>10, FS_AddElement
<1> QED
  BY <1>10, <1>11 DEF J

\* pthread_join: the thread is on the waitlist of the other one.
LEMMA JoinKeeps ==
    ASSUME NEW m, NEW w, Sound(m, w), AtWork(m), NEW t \in Threads, t = m.k.cur,
           NEW p \in Procs, Main[p] = t, NEW u \in Elems(m.procs[p].threads),
           Len(m.joins[u]) < MaxWaits
    PROVE  LET x == [m EXCEPT !.procs[p].busy = TRUE,
                              !.procs[p].waiting = @ + 1,
                              !.joins[u] = Append(@, t),
                              !.k = AuBlockThread(@, t)]
               v == [w EXCEPT ![t] = <<"join", u>>]
           IN  Sound(x, v) /\ Placed(x.k)
<1> DEFINE q == AuBlockThread(m.k, t)
           n == m.procs[p].waiting + 1
           a == Append(m.joins[u], t)
           j == [m.joins EXCEPT ![u] = a]
           d == [m.procs EXCEPT ![p] = [m.procs[p] EXCEPT !.busy = TRUE, !.waiting = n]]
           x == [m EXCEPT !.procs = d, !.joins = j, !.k = q]
           v == [w EXCEPT ![t] = <<"join", u>>]
<1>1. /\ m \in Sys /\ m.k \in KRec /\ m.procs \in [Procs -> PRec] /\ m.procs[p] \in PRec
      /\ m.joins \in [Threads -> Seq(Threads)]
  BY SysParts DEF Sound
<1>2. w \in [All -> Whereabouts] /\ t \in All
  BY IdleApart DEF Sound
<1>3. q \in KRec
  BY <1>1, <1>2, BlockIs
<1>4. u \in Subs /\ SubOf[u] = p /\ u \in Threads /\ t \notin Subs /\ ProcOf(t) = p
  BY ProcOfIs DEF Sound, CreatedOK
<1>5. n \in Nat
  BY <1>1, ProcParts
<1>6. /\ a \in Seq(Threads) /\ Elems(a) = Elems(m.joins[u]) \cup {t}
      /\ Len(a) = Len(m.joins[u]) + 1 /\ Len(a) <= MaxWaits
  <2>1. m.joins[u] \in Seq(Threads)
    BY <1>1, <1>4
  <2>2. Len(m.joins[u]) \in Nat /\ MaxWaits \in Nat
    BY <2>1, LenProperties, ProcConstants
  <2>3. a \in Seq(Threads) /\ Elems(a) = Elems(m.joins[u]) \cup {t}
    BY <2>1, AppendIs
  <2>4. Len(a) = Len(m.joins[u]) + 1
    BY <2>1, AppendProperties
  <2> QED
    BY <2>2, <2>3, <2>4
<1>7. /\ j \in [Threads -> Seq(Threads)]
      /\ \A y \in Threads : j[y] = IF y = u THEN a ELSE m.joins[y]
  BY <1>1, <1>6
<1>8. [m EXCEPT !.procs[p].busy = TRUE, !.procs[p].waiting = @ + 1,
                !.joins[u] = Append(@, t), !.k = AuBlockThread(@, t)] = x
  BY <1>1 DEF Sys, PRec
<1> HIDE DEF q, n, a, j
<1>9. /\ d \in [Procs -> PRec]
      /\ \A r \in Procs : /\ d[r].state = m.procs[r].state /\ d[r].threads = m.procs[r].threads
                          /\ d[r].waitlist = m.procs[r].waitlist
      /\ \A r \in Procs \ {p} : d[r] = m.procs[r]
      /\ d[p].busy = TRUE /\ d[p].waiting = n
  BY <1>1, <1>5 DEF PRec
<1> HIDE DEF d
<1>10. x \in Sys /\ x.k = q /\ x.procs = d /\ x.joins = j
  BY <1>1, <1>3, <1>7, <1>9 DEF Sys
<1> HIDE DEF x
<1>11. /\ Placed(x.k) /\ ListsOK(x)
       /\ \A y \in All : x.k.state[y] = IF y = t THEN "BLOCKED" ELSE m.k.state[y]
       /\ On(x, "ready") = On(m, "ready") \ {t} /\ On(x, "blocked") = On(m, "blocked") \cup {t}
       /\ \A y : Linked(x, y) <=> Linked(m, y)
  BY <1>10, BlockedIs DEF q
<1>12. /\ w[t] # Over /\ Linked(m, t) /\ m.procs[p].state = "alive"
       /\ t \in On(m, "ready") /\ m.k.state[t] \in Active
  BY <1>4, CurIs DEF AtWork
<1>13. \A r \in Procs : /\ ThreadsOf(x, r) = ThreadsOf(m, r) /\ ThreadsOf(m, r) \subseteq All
                        /\ WaitsFor(x, r) = WaitsFor(m, r)
  BY <1>9, <1>10, ThreadsOfIs DEF ThreadsOf, WaitsFor
<1>14. /\ v \in [All -> Whereabouts]
       /\ \A y \in All : v[y] = IF y = t THEN <<"join", u>> ELSE w[y]
  BY <1>2, <1>4 DEF Whereabouts
<1>15. /\ <<"join", u>> # Over /\ "BLOCKED" \notin Active /\ "BLOCKED" # "KILLABLE"
       /\ \A r : <<"join", u>> # <<"wait", r>>
  BY DEF Over, Active
<1> HIDE DEF v
<1>16. \A l \in Lists : On(m, l) \subseteq All
  BY <1>1, SysParts
<1>17. \A r \in Procs : \A y \in ThreadsOf(m, r) : ProcOf(y) = r /\ y \in Threads
  BY ThreadsOfIs
<1>18. EndsOK(x, v)
  <2>1. \A y \in All : x.k.state[y] = "KILLABLE" => v[y] = Over
    BY <1>11, <1>14, <1>15 DEF Sound, EndsOK
  <2>2. \A y \in On(x, "ready") \cup On(x, "blocked") : v[y] = Over => x.k.state[y] = "KILLABLE"
    BY <1>2, <1>11, <1>14, <1>15, <1>16, ListNames DEF Sound, EndsOK
  <2>3. ASSUME NEW r \in Procs, x.procs[r].state # "alive", NEW y \in ThreadsOf(x, r)
        PROVE  v[y] = Over
    <3>1. m.procs[r].state # "alive" /\ y \in ThreadsOf(m, r) /\ y \in All
      BY <1>9, <1>10, <1>13, <2>3
    <3>2. w[y] = Over
      BY <3>1 DEF Sound, EndsOK
    <3> QED
      BY <1>12, <1>14, <3>1, <3>2
  <2>4. ASSUME NEW r \in Procs, x.procs[r].state = "reaped", NEW y \in ThreadsOf(x, r)
        PROVE  ~Linked(x, y) /\ x.joins[y] = <<>>
    <3>1. m.procs[r].state = "reaped" /\ y \in ThreadsOf(m, r) /\ y \in Threads /\ ProcOf(y) = r
      BY <1>9, <1>10, <1>13, <1>17, <2>4
    <3>2. ~Linked(m, y) /\ m.joins[y] = <<>>
      BY <3>1 DEF Sound, EndsOK
    <3>3. y # u
      BY <1>4, <1>12, <3>1, ProcOfIs
    <3> QED
      BY <1>7, <1>10, <1>11, <3>1, <3>2, <3>3
  <2> QED
    BY <2>1, <2>2, <2>3, <2>4 DEF EndsOK
<1>19. CreatedOK(x, v)
  <2>1. ASSUME NEW y \in Subs, y \notin Elems(x.procs[SubOf[y]].threads)
        PROVE  /\ x.k.state[y] \in Active /\ v[y] = User /\ ~Linked(x, y)
               /\ \A r \in Procs : y \notin WaitsFor(x, r)
    <3>1. y \in All /\ SubOf[y] \in Procs /\ y # t
      BY <1>4, ProcOfIs, IdleApart
    <3>2. /\ m.k.state[y] \in Active /\ w[y] = User /\ ~Linked(m, y)
          /\ \A r \in Procs : y \notin WaitsFor(m, r)
      BY <1>9, <1>10, <2>1, <3>1 DEF Sound, CreatedOK
    <3> QED
      BY <1>11, <1>13, <1>14, <3>1, <3>2
  <2>2. \A r \in Procs : \A y \in Elems(x.procs[r].threads) : y \in Subs /\ SubOf[y] = r
    BY <1>9, <1>10 DEF Sound, CreatedOK
  <2> QED
    BY <2>1, <2>2 DEF CreatedOK
<1>20. WaitsOK(x, v)
  <2>1. \A r \in Procs : \A y \in WaitsFor(x, r) :
            ProcOf(y) # r /\ (y \in Subs => y \notin On(x, "ready"))
    BY <1>11, <1>13 DEF Sound, WaitsOK
  <2>2. \A r, s \in Procs, y \in Subs : y \in WaitsFor(x, r) /\ y \in WaitsFor(x, s) => r = s
    BY <1>13 DEF Sound, WaitsOK
  <2>3. ASSUME NEW y \in Threads, NEW r \in Procs, v[y] = <<"wait", r>>, x.k.state[y] = "BLOCKED"
        PROVE  x.procs[r].state = "alive" /\ y \in WaitsFor(x, r)
    <3>1. y \in All /\ y # t
      BY <1>14, <1>15, <2>3, IdleApart
    <3>2. w[y] = <<"wait", r>> /\ m.k.state[y] = "BLOCKED"
      BY <1>11, <1>14, <2>3, <3>1
    <3> QED
      BY <1>9, <1>10, <1>13, <3>2 DEF Sound, WaitsOK
  <2>4. \A y \in Subs : x.k.state[y] = "BLOCKED" => \E r \in Procs : v[y] = <<"wait", r>>
    BY <1>4, <1>11, <1>14, ProcOfIs, IdleApart DEF Sound, WaitsOK
  <2> QED
    BY <2>1, <2>2, <2>3, <2>4 DEF WaitsOK
<1>21. JoinsOK(x)
  <2>0. JoinsOK(m)
    BY DEF Sound
  <2>1. ASSUME NEW y \in Threads PROVE Len(x.joins[y]) <= MaxWaits
    <3>1. Len(m.joins[y]) <= MaxWaits
      BY <2>0 DEF JoinsOK
    <3> QED
      BY <1>6, <1>7, <1>10, <3>1
  <2>2. ASSUME NEW y \in Threads, NEW z \in Elems(x.joins[y])
        PROVE  y \in Subs /\ z = Main[SubOf[y]] /\ y \in Elems(x.procs[SubOf[y]].threads)
    <3>1. CASE z \in Elems(m.joins[y])
      <4>1. y \in Subs /\ z = Main[SubOf[y]] /\ y \in Elems(m.procs[SubOf[y]].threads)
        BY <2>0, <3>1 DEF JoinsOK
      <4> QED
        BY <1>9, <1>10, <4>1, ProcOfIs
    <3>2. CASE z \notin Elems(m.joins[y])
      <4>1. y = u /\ z = t
        BY <1>6, <1>7, <1>10, <2>2, <3>2
      <4> QED
        BY <1>4, <1>9, <1>10, <4>1
    <3> QED
      BY <3>1, <3>2
  <2>3. ASSUME NEW r \in Procs, x.procs[r].state = "alive"
        PROVE  /\ x.procs[r].waiting = Cardinality(Joined(x, r))
               /\ r # root /\ Joined(x, r) # {} => x.procs[r].busy
    <3>1. /\ m.procs[r].waiting = Cardinality(Joined(m, r))
          /\ r # root /\ Joined(m, r) # {} => m.procs[r].busy
      BY <1>9, <1>10, <2>0, <2>3 DEF JoinsOK
    <3>2. CASE r = p
      <4>1. Cardinality(Joined(x, p)) = Cardinality(Joined(m, p)) + 1
        <5>1. \A y \in Threads : x.joins[y] = IF y = u THEN a ELSE m.joins[y]
          BY <1>7, <1>10
        <5> QED
          BY <1>4, <1>6, <5>1, JoinedMore
      <4> QED
        BY <1>9, <1>10, <3>1, <3>2, <4>1 DEF n
    <3>3. CASE r # p
      <4>1. \A y \in Subs : SubOf[y] = r => x.joins[y] = m.joins[y]
        BY <1>4, <1>7, <1>10, <3>3, ProcOfIs
      <4>2. Joined(x, r) = Joined(m, r)
        BY <4>1, JoinedSame
      <4> QED
        BY <1>9, <1>10, <3>1, <3>3, <4>2
    <3> QED
      BY <3>2, <3>3
  <2> QED
    BY <2>1, <2>2, <2>3 DEF JoinsOK
<1> QED
  BY <1>8, <1>10, <1>11, <1>14, <1>18, <1>19, <1>20, <1>21 DEF Sound, v

\* AuThreadWaitForTermination: the main thread waits for a sub thread.
LEMMA JoinStep ==
    ASSUME IInv, NEW t \in Threads, NEW u \in Subs, AuThreadWaitForTermination(t, u)
    PROVE  IInv'
<1>1. Sound(Now, at) /\ AtWork(Now) /\ Now.k = k /\ Now.procs = procs /\ Now.joins = joins
  BY DEF IInv, Now
<1>2. PICK p \in AuProcessFindThread(t) :
         /\ u \in Elems(procs[p].threads) /\ Len(joins[u]) < MaxWaits
         /\ Switch([Now EXCEPT !.procs[p].busy = TRUE, !.procs[p].waiting = @ + 1,
                               !.joins[u] = Append(@, t), !.k = AuBlockThread(@, t)],
                   [at EXCEPT ![t] = <<"join", u>>])
  BY DEF AuThreadWaitForTermination
<1>3. p \in Procs /\ Main[p] = t /\ t = k.cur
  BY <1>2 DEF AuProcessFindThread, AuThreadWaitForTermination, InUser
<1> DEFINE x == [Now EXCEPT !.procs[p].busy = TRUE, !.procs[p].waiting = @ + 1,
                            !.joins[u] = Append(@, t), !.k = AuBlockThread(@, t)]
           v == [at EXCEPT ![t] = <<"join", u>>]
<1>4. Sound(x, v) /\ Placed(x.k)
  BY <1>1, <1>2, <1>3, JoinKeeps
<1>5. Switch(x, v)
  BY <1>2
<1> HIDE DEF x, v
<1> QED
  BY <1>4, <1>5, Switched

\* AuProcessWaitForTermination: a thread waits for the end of a process.
LEMMA WaitStep ==
    ASSUME IInv, NEW t \in Threads, NEW p \in Procs, AuProcessWaitForTermination(t, p)
    PROVE  IInv'
<1>1. Sound(Now, at) /\ AtWork(Now) /\ Now.k = k /\ Now.procs = procs
  BY DEF IInv, Now
<1> DEFINE x == [Now EXCEPT !.k = AuBlockThread(@, t), !.procs[p].waitlist = Append(@, t)]
           v == [at EXCEPT ![t] = <<"wait", p>>]
<1>2. t = k.cur /\ p # ProcOf(t) /\ procs[p].state = "alive" /\ Switch(x, v)
  BY DEF AuProcessWaitForTermination, InUser
<1>3. Sound(x, v) /\ Placed(x.k)
  BY <1>1, <1>2, WaitKeeps
<1> HIDE DEF x, v
<1> QED
  BY <1>2, <1>3, Switched

-----------------------------------------------------------------------------
(* Threads that are created, woken and stopped *)

\* AuCreateUserthread: the thread is ready, and one of its process.
LEMMA CreateKeeps ==
    ASSUME NEW m, NEW w, Sound(m, w), AtWork(m), NEW t \in Threads, t = m.k.cur,
           NEW u \in Subs, ProcOf(t) = SubOf[u], u \notin Elems(m.procs[SubOf[u]].threads)
    PROVE  LET x == [k |-> schedLink(m.k, "ready", u),
                     procs |-> [m.procs EXCEPT ![SubOf[u]].threads = Append(@, u)],
                     joins |-> m.joins]
           IN  Sound(x, w) /\ AtWork(x)
<1> DEFINE p == SubOf[u]
           a == Append(m.k.list["ready"], u)
           c == [m.k.list EXCEPT !["ready"] = a]
           q == [m.k EXCEPT !.list = c]
           l == Append(m.procs[p].threads, u)
           d == [m.procs EXCEPT ![p] = [m.procs[p] EXCEPT !.threads = l]]
           x == [k |-> q, procs |-> d, joins |-> m.joins]
<1>1. /\ m \in Sys /\ m.k \in KRec /\ m.procs \in [Procs -> PRec] /\ m.procs[p] \in PRec
      /\ m.k.list \in [Lists -> Seq(All)] /\ p \in Procs /\ u \in Threads /\ u \in All
      /\ m.k.state \in [All -> States]
  BY SysParts, ProcOfIs, IdleApart DEF Sound
<1>2. a \in Seq(All) /\ Elems(a) = On(m, "ready") \cup {u}
  BY <1>1, AppendIs, ListNames DEF On
<1>3. l \in Seq(Threads) /\ Elems(l) = Elems(m.procs[p].threads) \cup {u}
  BY <1>1, ProcParts, AppendIs
<1>4. schedLink(m.k, "ready", u) = q
  BY <1>1 DEF schedLink, KRec
<1>5. [m.procs EXCEPT ![SubOf[u]].threads = Append(@, u)] = d
  BY <1>1 DEF PRec
<1> HIDE DEF a, l
<1>6. c \in [Lists -> Seq(All)] /\ c["ready"] = a /\ \A n \in Lists \ {"ready"} : c[n] = m.k.list[n]
  BY <1>1, <1>2, ListNames
<1> HIDE DEF c
<1>7. q \in KRec /\ q.list = c /\ q.state = m.k.state /\ q.cur = m.k.cur
  BY <1>1, <1>6 DEF KRec
<1>8. /\ d \in [Procs -> PRec]
      /\ \A r \in Procs : /\ d[r].state = m.procs[r].state /\ d[r].busy = m.procs[r].busy
                          /\ d[r].waiting = m.procs[r].waiting
                          /\ d[r].waitlist = m.procs[r].waitlist
                          /\ d[r].threads = IF r = p THEN l ELSE m.procs[r].threads
  BY <1>1, <1>3 DEF PRec
<1> HIDE DEF q, d
<1>9. x \in Sys /\ x.k = q /\ x.procs = d /\ x.joins = m.joins
  BY <1>1, <1>7, <1>8 DEF Sys
<1> HIDE DEF x
<1>10. /\ On(x, "ready") = On(m, "ready") \cup {u}
       /\ \A n \in Lists \ {"ready"} : On(x, n) = On(m, n)
       /\ x.k.state = m.k.state
  BY <1>2, <1>6, <1>7, <1>9 DEF On
<1>11. /\ m.k.state[u] \in Active /\ w[u] = User /\ ~Linked(m, u)
       /\ \A r \in Procs : u \notin WaitsFor(m, r)
  BY DEF Sound, CreatedOK
<1>12. m.procs[p].state = "alive"
  BY CurIs
<1>13. \A r \in Procs : /\ WaitsFor(x, r) = WaitsFor(m, r)
                        /\ ThreadsOf(x, r) = IF r = p THEN ThreadsOf(m, r) \cup {u}
                                             ELSE ThreadsOf(m, r)
                        /\ Elems(x.procs[r].threads) = IF r = p
                                                       THEN Elems(m.procs[r].threads) \cup {u}
                                                       ELSE Elems(m.procs[r].threads)
  BY <1>3, <1>8, <1>9 DEF WaitsFor, ThreadsOf
<1>14. \A y : y # u => (Linked(x, y) <=> Linked(m, y))
  BY <1>10, ListNames DEF Linked
<1>15. \A n \in Lists : u \notin On(m, n)
  BY <1>11 DEF Linked
<1>16. "BLOCKED" \notin Active /\ "KILLABLE" \notin Active /\ User # Over
  BY DEF Active, User, Over
<1>17. ListsOK(x)
  <2>1. On(x, "sleep") = {}
    BY <1>10, ListNames DEF Sound, ListsOK
  <2>2. ASSUME NEW n \in Lists, NEW h \in Lists, n # h
        PROVE  On(x, n) \cap On(x, h) = {}
    <3>1. On(m, n) \cap On(m, h) = {}
      BY <2>2 DEF Sound, ListsOK
    <3> QED
      BY <1>10, <1>15, <2>2, <3>1
  <2>3. Idle \in On(x, "ready") /\ x.k.state[Idle] \in Active
    BY <1>10 DEF Sound, ListsOK
  <2>4. \A y \in On(x, "ready") :
            x.k.state[y] \in Active \/ (y \in Subs /\ x.k.state[y] = "KILLABLE")
    BY <1>10, <1>11 DEF Sound, ListsOK
  <2>5. \A y \in All : x.k.state[y] = "BLOCKED" <=> y \in On(x, "blocked")
    BY <1>10, ListNames DEF Sound, ListsOK
  <2> QED
    BY <2>1, <2>2, <2>3, <2>4, <2>5 DEF ListsOK
<1>18. EndsOK(x, w)
  <2>1. \A y \in All : x.k.state[y] = "KILLABLE" => w[y] = Over
    BY <1>10 DEF Sound, EndsOK
  <2>2. \A y \in On(x, "ready") \cup On(x, "blocked") : w[y] = Over => x.k.state[y] = "KILLABLE"
    BY <1>10, <1>11, <1>16, ListNames DEF Sound, EndsOK
  <2>3. ASSUME NEW r \in Procs, x.procs[r].state # "alive", NEW y \in ThreadsOf(x, r)
        PROVE  w[y] = Over
    <3>1. m.procs[r].state # "alive" /\ y \in ThreadsOf(m, r)
      BY <1>8, <1>9, <1>12, <1>13, <2>3
    <3> QED
      BY <3>1 DEF Sound, EndsOK
  <2>4. ASSUME NEW r \in Procs, x.procs[r].state = "reaped", NEW y \in ThreadsOf(x, r)
        PROVE  ~Linked(x, y) /\ x.joins[y] = <<>>
    <3>1. m.procs[r].state = "reaped" /\ y \in ThreadsOf(m, r)
      BY <1>8, <1>9, <1>12, <1>13, <2>4
    <3>2. y # u
      <4>1. w[y] = Over
        BY <3>1 DEF Sound, EndsOK
      <4> QED
        BY <1>11, <1>16, <4>1
    <3> QED
      BY <1>9, <1>14, <3>1, <3>2 DEF Sound, EndsOK
  <2> QED
    BY <2>1, <2>2, <2>3, <2>4 DEF EndsOK
<1>19. CreatedOK(x, w)
  <2>1. ASSUME NEW y \in Subs, y \notin Elems(x.procs[SubOf[y]].threads)
        PROVE  /\ x.k.state[y] \in Active /\ w[y] = User /\ ~Linked(x, y)
               /\ \A r \in Procs : y \notin WaitsFor(x, r)
    <3>1. SubOf[y] \in Procs /\ y # u /\ y \notin Elems(m.procs[SubOf[y]].threads)
      BY <1>1, <1>13, <2>1, ProcOfIs
    <3>2. /\ m.k.state[y] \in Active /\ w[y] = User /\ ~Linked(m, y)
          /\ \A r \in Procs : y \notin WaitsFor(m, r)
      BY <3>1 DEF Sound, CreatedOK
    <3> QED
      BY <1>10, <1>13, <1>14, <3>1, <3>2
  <2>2. ASSUME NEW r \in Procs, NEW y \in Elems(x.procs[r].threads)
        PROVE  y \in Subs /\ SubOf[y] = r
    <3>1. y \in Elems(m.procs[r].threads) \/ (r = p /\ y = u)
      BY <1>13
    <3>2. y \in Elems(m.procs[r].threads) => y \in Subs /\ SubOf[y] = r
      BY DEF Sound, CreatedOK
    <3> QED
      BY <3>1, <3>2
  <2> QED
    BY <2>1, <2>2 DEF CreatedOK
<1>20. WaitsOK(x, w)
  <2>1. ASSUME NEW r \in Procs, NEW y \in WaitsFor(x, r)
        PROVE  ProcOf(y) # r /\ (y \in Subs => y \notin On(x, "ready"))
    <3>1. y \in WaitsFor(m, r) /\ y # u
      BY <1>11, <1>13
    <3>2. ProcOf(y) # r /\ (y \in Subs => y \notin On(m, "ready"))
      BY <3>1 DEF Sound, WaitsOK
    <3> QED
      BY <1>10, <3>1, <3>2
  <2>2. \A r, s \in Procs, y \in Subs : y \in WaitsFor(x, r) /\ y \in WaitsFor(x, s) => r = s
    BY <1>13 DEF Sound, WaitsOK
  <2>3. \A y \in Threads, r \in Procs : w[y] = <<"wait", r>> /\ x.k.state[y] = "BLOCKED" =>
            x.procs[r].state = "alive" /\ y \in WaitsFor(x, r)
    BY <1>8, <1>9, <1>10, <1>13 DEF Sound, WaitsOK
  <2>4. \A y \in Subs : x.k.state[y] = "BLOCKED" => \E r \in Procs : w[y] = <<"wait", r>>
    BY <1>10 DEF Sound, WaitsOK
  <2> QED
    BY <2>1, <2>2, <2>3, <2>4 DEF WaitsOK
<1>21. JoinsOK(x)
  <2>0. JoinsOK(m)
    BY DEF Sound
  <2>1. ASSUME NEW y \in Threads, NEW z \in Elems(x.joins[y])
        PROVE  y \in Subs /\ z = Main[SubOf[y]] /\ y \in Elems(x.procs[SubOf[y]].threads)
    <3>1. y \in Subs /\ z = Main[SubOf[y]] /\ y \in Elems(m.procs[SubOf[y]].threads)
      BY <1>9, <2>0 DEF JoinsOK
    <3> QED
      BY <1>13, <3>1, ProcOfIs
  <2>2. \A r \in Procs : Joined(x, r) = Joined(m, r)
    BY <1>9, JoinedSame
  <2>3. ASSUME NEW r \in Procs, x.procs[r].state = "alive"
        PROVE  /\ x.procs[r].waiting = Cardinality(Joined(x, r))
               /\ r # root /\ Joined(x, r) # {} => x.procs[r].busy
    <3>1. m.procs[r].state = "alive" /\ Joined(x, r) = Joined(m, r)
          /\ x.procs[r].waiting = m.procs[r].waiting /\ x.procs[r].busy = m.procs[r].busy
      BY <1>8, <1>9, <2>2, <2>3
    <3> QED
      BY <2>0, <3>1 DEF JoinsOK
  <2>4. \A y \in Threads : Len(x.joins[y]) <= MaxWaits
    BY <1>9, <2>0 DEF JoinsOK
  <2> QED
    BY <2>1, <2>3, <2>4 DEF JoinsOK
<1>22. AtWork(x)
  BY <1>7, <1>9, <1>10 DEF AtWork
<1> QED
  BY <1>4, <1>5, <1>9, <1>17, <1>18, <1>19, <1>20, <1>21, <1>22 DEF Sound, x

\* AuCreateUserthread.
LEMMA CreateStep ==
    ASSUME IInv, NEW t \in Threads, NEW u \in Subs, AuCreateUserthread(t, u)
    PROVE  IInv'
<1>1. Sound(Now, at) /\ AtWork(Now) /\ Now.k = k /\ Now.procs = procs /\ Now.joins = joins
  BY DEF IInv, Now
<1>2. /\ t = k.cur /\ ProcOf(t) = SubOf[u] /\ u \notin Elems(procs[SubOf[u]].threads)
      /\ at' = at
      /\ Now' = [k |-> schedLink(k, "ready", u),
                 procs |-> [procs EXCEPT ![SubOf[u]].threads = Append(@, u)],
                 joins |-> joins]
  BY DEF AuCreateUserthread, InUser, Now
<1>3. Sound(Now', at) /\ AtWork(Now')
  BY <1>1, <1>2, CreateKeeps
<1> QED
  BY <1>2, <1>3, PrimedIs

\* A linked thread is on one of the four lists.
LEMMA LinkedCases ==
    ASSUME NEW m, NEW t
    PROVE  Linked(m, t) <=> \/ t \in On(m, "ready") \/ t \in On(m, "blocked")
                            \/ t \in On(m, "sleep") \/ t \in On(m, "trash")
BY ListNames DEF Linked

\* Wakes keep the lists disjoint and the states true to them.
LEMMA WokenLists ==
    ASSUME NEW m \in Sys, ListsOK(m), NEW x \in Sys, NEW T, WokenIs(m.k, x.k, T)
    PROVE  ListsOK(x)
<1>1. /\ \A u \in All : x.k.state[u] = IF u \in T THEN "READY" ELSE m.k.state[u]
      /\ On(x, "ready") = On(m, "ready") \cup (T \cap On(m, "blocked"))
      /\ On(x, "blocked") = On(m, "blocked") \ T
      /\ On(x, "sleep") = On(m, "sleep") /\ On(x, "trash") = On(m, "trash")
  BY DEF WokenIs, On
<1>2. /\ "READY" \in Active /\ "READY" # "BLOCKED"
      /\ \A l \in Lists : On(m, l) \subseteq All
  BY SysParts DEF Active
<1>3. On(x, "sleep") = {}
  BY <1>1 DEF ListsOK
<1>4. \A l, n \in Lists : l # n => On(x, l) \cap On(x, n) = {}
  <2>1. \A l, n \in Lists : l # n => On(m, l) \cap On(m, n) = {}
    BY DEF ListsOK
  <2>2. /\ On(m, "ready") \cap On(m, "blocked") = {} /\ On(m, "ready") \cap On(m, "sleep") = {}
        /\ On(m, "ready") \cap On(m, "trash") = {} /\ On(m, "blocked") \cap On(m, "sleep") = {}
        /\ On(m, "blocked") \cap On(m, "trash") = {} /\ On(m, "sleep") \cap On(m, "trash") = {}
    BY <2>1, ListNames
  <2>3. /\ On(x, "ready") \cap On(x, "blocked") = {} /\ On(x, "ready") \cap On(x, "sleep") = {}
        /\ On(x, "ready") \cap On(x, "trash") = {} /\ On(x, "blocked") \cap On(x, "sleep") = {}
        /\ On(x, "blocked") \cap On(x, "trash") = {} /\ On(x, "sleep") \cap On(x, "trash") = {}
    BY <1>1, <2>2
  <2> QED
    BY <2>3, ListNames
<1>5. Idle \in On(x, "ready") /\ x.k.state[Idle] \in Active
  BY <1>1, <1>2, IdleApart DEF ListsOK
<1>6. ASSUME NEW t \in On(x, "ready")
      PROVE  x.k.state[t] \in Active \/ (t \in Subs /\ x.k.state[t] = "KILLABLE")
  <2>1. t \in All
    BY <1>1, <1>2, ListNames
  <2>2. CASE t \in T
    BY <1>1, <1>2, <2>1, <2>2
  <2>3. CASE t \notin T
    <3>1. t \in On(m, "ready") /\ x.k.state[t] = m.k.state[t]
      BY <1>1, <2>1, <2>3
    <3> QED
      BY <3>1 DEF ListsOK
  <2> QED
    BY <2>2, <2>3
<1>7. ASSUME NEW t \in All PROVE x.k.state[t] = "BLOCKED" <=> t \in On(x, "blocked")
  <2>1. m.k.state[t] = "BLOCKED" <=> t \in On(m, "blocked")
    BY DEF ListsOK
  <2> QED
    BY <1>1, <1>2, <2>1
<1> QED
  BY <1>3, <1>4, <1>5, <1>6, <1>7 DEF ListsOK

\* Threads are woken, and taken off the waitlists of processes: nobody who is
\* over gets ready, and no sub thread that is still on a waitlist.
LEMMA WokenKeeps ==
    ASSUME NEW m, NEW w, Sound(m, w), NEW x \in Sys, NEW T, WokenIs(m.k, x.k, T),
           \A r \in Procs : /\ x.procs[r].state = m.procs[r].state
                            /\ x.procs[r].threads = m.procs[r].threads
                            /\ WaitsFor(x, r) \subseteq WaitsFor(m, r)
                            /\ WaitsFor(m, r) \subseteq WaitsFor(x, r) \cup T
                            /\ \A t \in WaitsFor(x, r) : t \in Subs => t \notin T,
           \A u \in Threads : x.joins[u] = m.joins[u] \/ x.joins[u] = <<>>,
           \A t \in T : t \in Subs => t \notin On(m, "ready") \/ m.k.state[t] # "KILLABLE"
    PROVE  /\ ListsOK(x) /\ EndsOK(x, w) /\ CreatedOK(x, w) /\ WaitsOK(x, w)
           /\ AtWork(m) => AtWork(x)
<1>1. /\ m \in Sys /\ m.k.cur \in All /\ \A l \in Lists : On(m, l) \subseteq All
  BY SysParts DEF Sound
<1>2. /\ \A u \in All : x.k.state[u] = IF u \in T THEN "READY" ELSE m.k.state[u]
      /\ On(x, "ready") = On(m, "ready") \cup (T \cap On(m, "blocked"))
      /\ On(x, "blocked") = On(m, "blocked") \ T
      /\ On(x, "sleep") = On(m, "sleep") /\ On(x, "trash") = On(m, "trash")
      /\ x.k.cur = m.k.cur
  BY DEF WokenIs, On
<1>3. "READY" \in Active /\ "READY" # "KILLABLE" /\ "READY" # "BLOCKED"
  BY DEF Active
<1>4. ListsOK(x)
  BY <1>1, WokenLists DEF Sound
<1>5. \A t : Linked(x, t) => Linked(m, t)
  BY <1>2, LinkedCases
<1>6. \A r \in Procs : ThreadsOf(x, r) = ThreadsOf(m, r) /\ ThreadsOf(m, r) \subseteq Threads
  BY ThreadsOfIs DEF ThreadsOf
<1>7. EndsOK(x, w)
  <2>1. \A u \in All : x.k.state[u] = "KILLABLE" => w[u] = Over
    BY <1>2, <1>3 DEF Sound, EndsOK
  <2>2. ASSUME NEW u \in On(x, "ready") \cup On(x, "blocked"), w[u] = Over
        PROVE  x.k.state[u] = "KILLABLE"
    <3>1. u \in On(m, "ready") \cup On(m, "blocked") /\ u \in All
      BY <1>1, <1>2, ListNames
    <3>2. m.k.state[u] = "KILLABLE"
      BY <2>2, <3>1 DEF Sound, EndsOK
    <3>3. u \in On(m, "ready") /\ u \in Subs
      <4>1. "KILLABLE" # "BLOCKED" /\ "KILLABLE" \notin Active
        BY DEF Active
      <4>2. u \notin On(m, "blocked")
        BY <3>1, <3>2, <4>1 DEF Sound, ListsOK
      <4> QED
        BY <3>1, <3>2, <4>1, <4>2 DEF Sound, ListsOK
    <3>4. u \notin T
      BY <3>2, <3>3
    <3> QED
      BY <1>2, <3>1, <3>2, <3>4
  <2>3. \A r \in Procs : x.procs[r].state # "alive" => \A u \in ThreadsOf(x, r) : w[u] = Over
    BY <1>6 DEF Sound, EndsOK
  <2>4. ASSUME NEW r \in Procs, x.procs[r].state = "reaped", NEW u \in ThreadsOf(x, r)
        PROVE  ~Linked(x, u) /\ x.joins[u] = <<>>
    <3>1. ~Linked(m, u) /\ m.joins[u] = <<>> /\ u \in Threads
      BY <1>6, <2>4 DEF Sound, EndsOK
    <3> QED
      BY <1>5, <3>1
  <2> QED
    BY <2>1, <2>2, <2>3, <2>4 DEF EndsOK
<1>8. CreatedOK(x, w)
  <2>1. ASSUME NEW u \in Subs, u \notin Elems(x.procs[SubOf[u]].threads)
        PROVE  /\ x.k.state[u] \in Active /\ w[u] = User /\ ~Linked(x, u)
               /\ \A r \in Procs : u \notin WaitsFor(x, r)
    <3>1. u \in All /\ SubOf[u] \in Procs
      BY ProcOfIs, IdleApart
    <3>2. /\ m.k.state[u] \in Active /\ w[u] = User /\ ~Linked(m, u)
          /\ \A r \in Procs : u \notin WaitsFor(m, r)
      BY <2>1, <3>1 DEF Sound, CreatedOK
    <3> QED
      BY <1>2, <1>3, <1>5, <3>1, <3>2
  <2>2. \A r \in Procs : \A u \in Elems(x.procs[r].threads) : u \in Subs /\ SubOf[u] = r
    BY DEF Sound, CreatedOK
  <2> QED
    BY <2>1, <2>2 DEF CreatedOK
<1>9. WaitsOK(x, w)
  <2>1. ASSUME NEW r \in Procs, NEW u \in WaitsFor(x, r)
        PROVE  ProcOf(u) # r /\ (u \in Subs => u \notin On(x, "ready"))
    <3>1. ProcOf(u) # r /\ (u \in Subs => u \notin On(m, "ready"))
      BY DEF Sound, WaitsOK
    <3> QED
      BY <1>2, <3>1
  <2>2. \A r, s \in Procs, u \in Subs : u \in WaitsFor(x, r) /\ u \in WaitsFor(x, s) => r = s
    BY DEF Sound, WaitsOK
  <2>3. ASSUME NEW u \in Threads, NEW r \in Procs, w[u] = <<"wait", r>>, x.k.state[u] = "BLOCKED"
        PROVE  x.procs[r].state = "alive" /\ u \in WaitsFor(x, r)
    <3>1. u \notin T /\ m.k.state[u] = "BLOCKED"
      BY <1>2, <1>3, <2>3, IdleApart
    <3>2. m.procs[r].state = "alive" /\ u \in WaitsFor(m, r)
      BY <2>3, <3>1 DEF Sound, WaitsOK
    <3> QED
      BY <3>1, <3>2
  <2>4. ASSUME NEW u \in Subs, x.k.state[u] = "BLOCKED" PROVE \E r \in Procs : w[u] = <<"wait", r>>
    <3>1. m.k.state[u] = "BLOCKED"
      BY <1>2, <1>3, <2>4, ProcOfIs, IdleApart
    <3> QED
      BY <3>1 DEF Sound, WaitsOK
  <2> QED
    BY <2>1, <2>2, <2>3, <2>4 DEF WaitsOK
<1>10. AtWork(m) => AtWork(x)
  BY <1>1, <1>2, <1>3 DEF AtWork
<1> QED
  BY <1>4, <1>7, <1>8, <1>9, <1>10

\* So do stops.
LEMMA TrashedLists ==
    ASSUME NEW m \in Sys, ListsOK(m), NEW x \in Sys, NEW T \in SUBSET Threads,
           TrashedIs(m.k, x.k, T)
    PROVE  ListsOK(x)
<1> DEFINE D == Unmarked(m.k, T)
<1>1. /\ \A u \in All : x.k.state[u] = IF u \in T THEN "KILLABLE" ELSE m.k.state[u]
      /\ On(x, "ready") = On(m, "ready") \ D /\ On(x, "blocked") = On(m, "blocked") \ D
      /\ On(x, "sleep") = On(m, "sleep") \ D /\ On(x, "trash") = On(m, "trash") \cup D
  BY ListNames DEF TrashedIs, On
<1>2. D \subseteq T /\ \A t \in T : t \in D <=> m.k.state[t] # "KILLABLE"
  BY DEF Unmarked
<1> HIDE DEF D
<1>3. "KILLABLE" \notin Active /\ "KILLABLE" # "BLOCKED" /\ \A l \in Lists : On(m, l) \subseteq All
  BY SysParts DEF Active
<1>4. On(x, "sleep") = {}
  BY <1>1 DEF ListsOK
<1>5. \A l, n \in Lists : l # n => On(x, l) \cap On(x, n) = {}
  <2>1. \A l, n \in Lists : l # n => On(m, l) \cap On(m, n) = {}
    BY DEF ListsOK
  <2>2. /\ On(m, "ready") \cap On(m, "blocked") = {} /\ On(m, "ready") \cap On(m, "sleep") = {}
        /\ On(m, "ready") \cap On(m, "trash") = {} /\ On(m, "blocked") \cap On(m, "sleep") = {}
        /\ On(m, "blocked") \cap On(m, "trash") = {} /\ On(m, "sleep") \cap On(m, "trash") = {}
    BY <2>1, ListNames
  <2>3. /\ On(x, "ready") \cap On(x, "blocked") = {} /\ On(x, "ready") \cap On(x, "sleep") = {}
        /\ On(x, "ready") \cap On(x, "trash") = {} /\ On(x, "blocked") \cap On(x, "sleep") = {}
        /\ On(x, "blocked") \cap On(x, "trash") = {} /\ On(x, "sleep") \cap On(x, "trash") = {}
    BY <1>1, <2>2
  <2> QED
    BY <2>3, ListNames
<1>6. Idle \in On(x, "ready") /\ x.k.state[Idle] \in Active
  BY <1>1, <1>2, IdleApart DEF ListsOK
<1>7. ASSUME NEW t \in On(x, "ready")
      PROVE  x.k.state[t] \in Active \/ (t \in Subs /\ x.k.state[t] = "KILLABLE")
  <2>1. t \in All /\ t \in On(m, "ready") /\ t \notin D
    BY <1>1, <1>3, ListNames
  <2>2. m.k.state[t] \in Active \/ (t \in Subs /\ m.k.state[t] = "KILLABLE")
    BY <2>1 DEF ListsOK
  <2>3. t \in T => m.k.state[t] = "KILLABLE"
    BY <1>2, <2>1
  <2> QED
    BY <1>1, <1>3, <2>1, <2>2, <2>3
<1>8. ASSUME NEW t \in All PROVE x.k.state[t] = "BLOCKED" <=> t \in On(x, "blocked")
  <2>1. m.k.state[t] = "BLOCKED" <=> t \in On(m, "blocked")
    BY DEF ListsOK
  <2>2. CASE t \in T
    BY <1>1, <1>2, <1>3, <2>1, <2>2
  <2>3. CASE t \notin T
    BY <1>1, <1>2, <2>1, <2>3
  <2> QED
    BY <2>2, <2>3
<1> QED
  BY <1>4, <1>5, <1>6, <1>7, <1>8 DEF ListsOK

\* Threads of a process that is alive are stopped: they are over.
LEMMA StopKeeps ==
    ASSUME NEW m, NEW w, Sound(m, w), NEW p \in Procs, m.procs[p].state = "alive",
           NEW T \in SUBSET ThreadsOf(m, p),
           NEW x \in Sys, TrashedIs(m.k, x.k, T), x.procs = m.procs, x.joins = m.joins
    PROVE  Sound(x, [u \in All |-> IF u \in T THEN Over ELSE w[u]])
<1> DEFINE v == [u \in All |-> IF u \in T THEN Over ELSE w[u]]
           D == Unmarked(m.k, T)
<1>1. /\ m \in Sys /\ w \in [All -> Whereabouts] /\ \A l \in Lists : On(m, l) \subseteq All
  BY SysParts DEF Sound
<1>2. /\ \A u \in All : x.k.state[u] = IF u \in T THEN "KILLABLE" ELSE m.k.state[u]
      /\ On(x, "ready") = On(m, "ready") \ D /\ On(x, "blocked") = On(m, "blocked") \ D
      /\ On(x, "sleep") = On(m, "sleep") \ D /\ On(x, "trash") = On(m, "trash") \cup D
  BY ListNames DEF TrashedIs, On
<1>3. D \subseteq T
  BY DEF Unmarked
<1> HIDE DEF D
<1>4. v \in [All -> Whereabouts] /\ \A u \in All : v[u] = IF u \in T THEN Over ELSE w[u]
  BY <1>1 DEF Whereabouts
<1> HIDE DEF v
<1>5. \A r \in Procs : /\ ThreadsOf(x, r) = ThreadsOf(m, r) /\ WaitsFor(x, r) = WaitsFor(m, r)
                       /\ \A u \in ThreadsOf(m, r) : u \in Threads /\ u \in All /\ ProcOf(u) = r
  BY ThreadsOfIs DEF ThreadsOf, WaitsFor
<1>6. \A u \in T : u \in Threads /\ u \in All /\ ProcOf(u) = p
  BY <1>5
<1>7. ListsOK(x)
  <2>1. T \in SUBSET Threads
    BY <1>6
  <2> QED
    BY <1>1, <2>1, TrashedLists DEF Sound
<1>8. \A u : u \notin T => (Linked(x, u) => Linked(m, u))
  BY <1>2, <1>3, LinkedCases
<1>9. EndsOK(x, v)
  <2>1. \A u \in All : x.k.state[u] = "KILLABLE" => v[u] = Over
    BY <1>2, <1>4 DEF Sound, EndsOK
  <2>2. ASSUME NEW u \in On(x, "ready") \cup On(x, "blocked"), v[u] = Over
        PROVE  x.k.state[u] = "KILLABLE"
    <3>1. u \in On(m, "ready") \cup On(m, "blocked") /\ u \in All
      BY <1>1, <1>2, ListNames
    <3>2. CASE u \in T
      BY <1>2, <3>1, <3>2
    <3>3. CASE u \notin T
      <4>1. w[u] = Over
        BY <1>4, <2>2, <3>1, <3>3
      <4>2. m.k.state[u] = "KILLABLE"
        BY <3>1, <4>1 DEF Sound, EndsOK
      <4> QED
        BY <1>2, <3>1, <3>3, <4>2
    <3> QED
      BY <3>2, <3>3
  <2>3. \A r \in Procs : x.procs[r].state # "alive" => \A u \in ThreadsOf(x, r) : v[u] = Over
    BY <1>4, <1>5 DEF Sound, EndsOK
  <2>4. ASSUME NEW r \in Procs, x.procs[r].state = "reaped", NEW u \in ThreadsOf(x, r)
        PROVE  ~Linked(x, u) /\ x.joins[u] = <<>>
    <3>1. u \in ThreadsOf(m, r) /\ u \notin T
      BY <1>5, <1>6, <2>4
    <3> QED
      BY <1>8, <2>4, <3>1 DEF Sound, EndsOK
  <2> QED
    BY <2>1, <2>2, <2>3, <2>4 DEF EndsOK
<1>10. CreatedOK(x, v)
  <2>1. ASSUME NEW u \in Subs, u \notin Elems(x.procs[SubOf[u]].threads)
        PROVE  /\ x.k.state[u] \in Active /\ v[u] = User /\ ~Linked(x, u)
               /\ \A r \in Procs : u \notin WaitsFor(x, r)
    <3>1. u \in All /\ SubOf[u] \in Procs /\ u \notin ThreadsOf(m, SubOf[u])
      BY <2>1, ProcOfIs, IdleApart DEF ThreadsOf
    <3>2. u \notin T
      BY <1>6, <3>1, ProcOfIs
    <3>3. /\ m.k.state[u] \in Active /\ w[u] = User /\ ~Linked(m, u)
          /\ \A r \in Procs : u \notin WaitsFor(m, r)
      BY <2>1, <3>1 DEF Sound, CreatedOK
    <3> QED
      BY <1>2, <1>4, <1>5, <1>8, <3>1, <3>2, <3>3
  <2>2. \A r \in Procs : \A u \in Elems(x.procs[r].threads) : u \in Subs /\ SubOf[u] = r
    BY DEF Sound, CreatedOK
  <2> QED
    BY <2>1, <2>2 DEF CreatedOK
<1>11. WaitsOK(x, v)
  <2>1. ASSUME NEW r \in Procs, NEW u \in WaitsFor(x, r)
        PROVE  ProcOf(u) # r /\ (u \in Subs => u \notin On(x, "ready"))
    <3>1. ProcOf(u) # r /\ (u \in Subs => u \notin On(m, "ready"))
      BY <1>5 DEF Sound, WaitsOK
    <3> QED
      BY <1>2, <3>1
  <2>2. \A r, s \in Procs, u \in Subs : u \in WaitsFor(x, r) /\ u \in WaitsFor(x, s) => r = s
    BY <1>5 DEF Sound, WaitsOK
  <2>3. \A r : Over # <<"wait", r>>
    BY DEF Over
  <2>4. ASSUME NEW u \in Threads, NEW r \in Procs, v[u] = <<"wait", r>>, x.k.state[u] = "BLOCKED"
        PROVE  x.procs[r].state = "alive" /\ u \in WaitsFor(x, r)
    <3>1. w[u] = <<"wait", r>> /\ m.k.state[u] = "BLOCKED"
      BY <1>2, <1>4, <2>3, <2>4, IdleApart
    <3> QED
      BY <1>5, <3>1 DEF Sound, WaitsOK
  <2>5. ASSUME NEW u \in Subs, x.k.state[u] = "BLOCKED" PROVE \E r \in Procs : v[u] = <<"wait", r>>
    <3>1. u \in All
      BY ProcOfIs, IdleApart
    <3>2. m.k.state[u] = "BLOCKED" /\ u \notin T
      BY <1>2, <2>5, <3>1
    <3>3. \E r \in Procs : w[u] = <<"wait", r>>
      BY <3>2 DEF Sound, WaitsOK
    <3> QED
      BY <1>4, <3>1, <3>2, <3>3
  <2> QED
    BY <2>1, <2>2, <2>4, <2>5 DEF WaitsOK
<1>12. JoinsOK(x)
  BY JoinsKept DEF Sound
<1> QED
  BY <1>4, <1>7, <1>9, <1>10, <1>11, <1>12 DEF Sound, v

-----------------------------------------------------------------------------
(* The end of a process *)

\* The current thread stops itself: it is the last one on the trash list.
LEMMA StopCurKeeps ==
    ASSUME NEW m, NEW w, Sound(m, w), AtWork(m), m.k.cur \in Threads
    PROVE  LET x == Trash(m, m.k.cur) IN
           /\ Sound(x, [u \in All |-> IF u \in {m.k.cur} THEN Over ELSE w[u]])
           /\ Placed(x.k) /\ TrashedIs(m.k, x.k, {m.k.cur})
           /\ x.procs = m.procs /\ x.joins = m.joins
<1> DEFINE c == m.k.cur
           p == ProcOf(c)
           x == Trash(m, c)
<1>1. m \in Sys /\ m.k \in KRec /\ m.k.state[c] \in Active
  BY SysParts DEF Sound, AtWork
<1>2. /\ p \in Procs /\ m.procs[p].state = "alive" /\ {c} \in SUBSET ThreadsOf(m, p)
      /\ c \notin On(m, "trash")
  BY CurIs, ListNames
<1>3. /\ x \in Sys /\ x.procs = m.procs /\ x.joins = m.joins /\ TrashedIs(m.k, x.k, {c})
      /\ x.k = AuThreadMoveToTrash(m.k, c)
  BY <1>1, TrashStep
<1> HIDE DEF p
<1>4. x.k.cur = c /\ LastOnly(x.k.list["trash"], c)
  <2>1. m.k.state[c] # "KILLABLE"
    BY <1>1 DEF Active
  <2>2. c \notin Elems(m.k.list["trash"])
    BY <1>2 DEF On
  <2> HIDE DEF x
  <2> QED
    BY <1>1, <1>3, <2>1, <2>2, TrashIs
<1> HIDE DEF x
<1>5. Sound(x, [u \in All |-> IF u \in {c} THEN Over ELSE w[u]])
  <2> DEFINE T == {c}
  <2>1. T \in SUBSET ThreadsOf(m, p) /\ TrashedIs(m.k, x.k, T)
    BY <1>2, <1>3
  <2> HIDE DEF T
  <2>2. Sound(x, [u \in All |-> IF u \in T THEN Over ELSE w[u]])
    BY <1>2, <1>3, <2>1, StopKeeps
  <2> QED
    BY <2>2 DEF T
<1>6. Placed(x.k)
  <2>1. \A l, n \in Lists : l # n => Elems(x.k.list[l]) \cap Elems(x.k.list[n]) = {}
    BY <1>5 DEF Sound, ListsOK, On
  <2> QED
    BY <1>4, <2>1, ListNames DEF Placed
<1> QED
  BY <1>3, <1>5, <1>6 DEF x, c

\* A list without elements is empty.
LEMMA NoElems ==
    ASSUME NEW S, NEW s \in Seq(S), Elems(s) = {}
    PROVE  s = <<>>
<1>1. Len(s) \in Nat /\ DOMAIN s = 1 .. Len(s)
  BY LenProperties
<1>2. Len(s) = 0
  <2>1. Len(s) # 0 => 1 \in DOMAIN s
    BY <1>1
  <2>2. 1 \notin DOMAIN s
    BY DEF Elems
  <2> QED
    BY <2>1, <2>2
<1> QED
  BY <1>2, EmptySeq

\* Another thread than a sub thread is not waited for.
LEMMA MainNotJoined ==
    ASSUME NEW m, NEW w, Sound(m, w), NEW t \in Threads \ Subs
    PROVE  m.joins[t] = <<>>
<1>1. m.joins[t] \in Seq(Threads)
  BY SysParts DEF Sound
<1>2. Elems(m.joins[t]) = {}
  BY DEF Sound, JoinsOK
<1> QED
  BY <1>1, <1>2, NoElems

\* Nor are the sub threads of a process that is not busy.
LEMMA IdleNotJoined ==
    ASSUME NEW m, NEW w, Sound(m, w), NEW p \in Procs, ~Refused(m, p),
           NEW t \in Subs, SubOf[t] = p
    PROVE  m.joins[t] = <<>>
<1>1. m.procs[p].state = "alive" /\ ~m.procs[p].busy /\ p # root
  BY DEF Refused
<1>2. Joined(m, p) = {}
  BY <1>1 DEF Sound, JoinsOK
<1>3. t \in Threads /\ m.joins[t] \in Seq(Threads)
  BY ProcOfIs, SysParts DEF Sound
<1>4. Len(m.joins[t]) \in Nat /\ DOMAIN m.joins[t] = 1 .. Len(m.joins[t])
  BY <1>3, LenProperties
<1>5. Len(m.joins[t]) <= MaxWaits
  BY <1>3 DEF Sound, JoinsOK
<1>6. Len(m.joins[t]) = 0
  <2>1. Len(m.joins[t]) # 0 => 1 \in DOMAIN m.joins[t] /\ 1 \in 1 .. MaxWaits
    BY <1>4, <1>5, ProcConstants
  <2>2. 1 \in DOMAIN m.joins[t] /\ 1 \in 1 .. MaxWaits => <<t, 1>> \in Joined(m, p)
    BY DEF Joined
  <2> QED
    BY <1>2, <2>1, <2>2
<1> QED
  BY <1>3, <1>6, EmptySeq

\* AuProcessWakeWaiters: who waits for p is woken.
LEMMA WakeWaitersIs ==
    ASSUME NEW m \in Sys, NEW p \in Procs
    PROVE  LET x == AuProcessWakeWaiters(m, p) IN
           /\ x \in Sys /\ x.joins = m.joins /\ WokenIs(m.k, x.k, WaitsFor(m, p))
           /\ \A r \in Procs :
                 /\ x.procs[r].state = m.procs[r].state /\ x.procs[r].threads = m.procs[r].threads
                 /\ x.procs[r].busy = m.procs[r].busy /\ x.procs[r].waiting = m.procs[r].waiting
                 /\ WaitsFor(x, r) = IF r = p THEN {} ELSE WaitsFor(m, r)
<1> DEFINE s == m.procs[p].waitlist
           y == UnblockAll(m, s)
           d == [m.procs EXCEPT ![p] = [m.procs[p] EXCEPT !.waitlist = <<>>]]
           x == [y EXCEPT !.procs = d]
<1>1. s \in Seq(Threads) /\ m.procs \in [Procs -> PRec]
  BY ProcParts, SysParts
<1>2. /\ y \in Sys /\ y.procs = m.procs /\ y.joins = m.joins /\ WokenIs(m.k, y.k, Elems(s))
  BY <1>1, UnblockAllIs
<1> HIDE DEF y
<1>3. AuProcessWakeWaiters(m, p) = x
  <2>1. AuProcessWakeWaiters(m, p) = [y EXCEPT !.procs[p].waitlist = <<>>]
    BY DEF AuProcessWakeWaiters, y
  <2> QED
    BY <1>1, <1>2, <2>1 DEF Sys, PRec
<1>4. <<>> \in Seq(Threads) /\ Elems(<<>>) = {}
  BY EmptySeq DEF Elems
<1>5. /\ d \in [Procs -> PRec]
      /\ \A r \in Procs : /\ d[r].state = m.procs[r].state /\ d[r].threads = m.procs[r].threads
                          /\ d[r].busy = m.procs[r].busy /\ d[r].waiting = m.procs[r].waiting
                          /\ d[r].waitlist = IF r = p THEN <<>> ELSE m.procs[r].waitlist
  BY <1>1, <1>4 DEF PRec
<1> HIDE DEF d
<1>6. x \in Sys /\ x.k = y.k /\ x.joins = y.joins /\ x.procs = d
  BY <1>2, <1>5 DEF Sys
<1> HIDE DEF x
<1>7. \A r \in Procs : WaitsFor(x, r) = IF r = p THEN {} ELSE WaitsFor(m, r)
  BY <1>4, <1>5, <1>6 DEF WaitsFor
<1> QED
  BY <1>2, <1>3, <1>5, <1>6, <1>7 DEF WaitsFor

\* An exit that wakes the waiters of a process keeps the invariant.
LEMMA WakeWaitersKeeps ==
    ASSUME NEW m, NEW w, Sound(m, w), NEW p \in Procs
    PROVE  LET x == AuProcessWakeWaiters(m, p) IN
           Sound(x, w) /\ (AtWork(m) => AtWork(x))
<1> DEFINE x == AuProcessWakeWaiters(m, p)
           W == WaitsFor(m, p)
<1>1. m \in Sys /\ w \in [All -> Whereabouts]
  BY DEF Sound
<1>2. /\ x \in Sys /\ x.joins = m.joins /\ WokenIs(m.k, x.k, W)
      /\ \A r \in Procs :
            /\ x.procs[r].state = m.procs[r].state /\ x.procs[r].threads = m.procs[r].threads
            /\ x.procs[r].busy = m.procs[r].busy /\ x.procs[r].waiting = m.procs[r].waiting
            /\ WaitsFor(x, r) = IF r = p THEN {} ELSE WaitsFor(m, r)
  BY <1>1, WakeWaitersIs
<1> HIDE DEF x, W
<1>3. \A r \in Procs : /\ WaitsFor(x, r) \subseteq WaitsFor(m, r)
                       /\ WaitsFor(m, r) \subseteq WaitsFor(x, r) \cup W
                       /\ \A t \in WaitsFor(x, r) : t \in Subs => t \notin W
  <2>1. \A r \in Procs, t \in Subs : t \in WaitsFor(m, r) /\ t \in W => r = p
    BY DEF Sound, WaitsOK, W
  <2> QED
    BY <1>2, <2>1 DEF W
<1>4. \A t \in W : t \in Subs => t \notin On(m, "ready") \/ m.k.state[t] # "KILLABLE"
  BY DEF Sound, WaitsOK, W
<1>5. /\ ListsOK(x) /\ EndsOK(x, w) /\ CreatedOK(x, w) /\ WaitsOK(x, w)
      /\ AtWork(m) => AtWork(x)
  BY <1>2, <1>3, <1>4, WokenKeeps
<1>6. JoinsOK(x)
  BY <1>2, JoinsKept DEF Sound
<1> QED
  BY <1>1, <1>2, <1>5, <1>6 DEF Sound, x

\* "Publish death only after exit cleanup is complete."
LEMMA DieKeeps ==
    ASSUME NEW m, NEW w, Sound(m, w), NEW p \in Procs, m.procs[p].state = "alive",
           \A t \in ThreadsOf(m, p) : w[t] = Over, WaitsFor(m, p) = {}
    PROVE  LET x == [m EXCEPT !.procs[p].state = "died"] IN
           Sound(x, w) /\ x.k = m.k
<1> DEFINE d == [m.procs EXCEPT ![p] = [m.procs[p] EXCEPT !.state = "died"]]
           x == [m EXCEPT !.procs = d]
<1>1. m \in Sys /\ m.procs \in [Procs -> PRec] /\ w \in [All -> Whereabouts]
  BY SysParts DEF Sound
<1>2. [m EXCEPT !.procs[p].state = "died"] = x
  BY <1>1 DEF Sys, PRec
<1>3. /\ d \in [Procs -> PRec]
      /\ \A r \in Procs : /\ d[r].state = IF r = p THEN "died" ELSE m.procs[r].state
                          /\ d[r].threads = m.procs[r].threads
                          /\ d[r].busy = m.procs[r].busy /\ d[r].waiting = m.procs[r].waiting
                          /\ d[r].waitlist = m.procs[r].waitlist
  BY <1>1 DEF PRec
<1> HIDE DEF d
<1>4. x \in Sys /\ x.k = m.k /\ x.joins = m.joins /\ x.procs = d
  BY <1>1, <1>3 DEF Sys
<1> HIDE DEF x
<1>5. /\ \A l : On(x, l) = On(m, l)
      /\ \A t : Linked(x, t) <=> Linked(m, t)
      /\ \A r \in Procs : ThreadsOf(x, r) = ThreadsOf(m, r) /\ WaitsFor(x, r) = WaitsFor(m, r)
  BY <1>3, <1>4 DEF On, Linked, ThreadsOf, WaitsFor
<1>6. ListsOK(x)
  BY <1>4, <1>5 DEF Sound, ListsOK
<1>7. EndsOK(x, w)
  <2>1. /\ \A t \in All : x.k.state[t] = "KILLABLE" => w[t] = Over
        /\ \A t \in On(x, "ready") \cup On(x, "blocked") : w[t] = Over => x.k.state[t] = "KILLABLE"
    BY <1>4, <1>5 DEF Sound, EndsOK
  <2>2. ASSUME NEW r \in Procs, x.procs[r].state # "alive", NEW t \in ThreadsOf(x, r)
        PROVE  w[t] = Over
    <3>1. t \in ThreadsOf(m, r)
      BY <1>5
    <3>2. CASE r = p
      BY <3>1, <3>2
    <3>3. CASE r # p
      BY <1>3, <1>4, <2>2, <3>1, <3>3 DEF Sound, EndsOK
    <3> QED
      BY <3>2, <3>3
  <2>3. ASSUME NEW r \in Procs, x.procs[r].state = "reaped", NEW t \in ThreadsOf(x, r)
        PROVE  ~Linked(x, t) /\ x.joins[t] = <<>>
    <3>1. m.procs[r].state = "reaped" /\ t \in ThreadsOf(m, r)
      BY <1>3, <1>4, <1>5, <2>3
    <3> QED
      BY <1>4, <1>5, <3>1 DEF Sound, EndsOK
  <2> QED
    BY <2>1, <2>2, <2>3 DEF EndsOK
<1>8. CreatedOK(x, w)
  <2>1. ASSUME NEW u \in Subs, u \notin Elems(x.procs[SubOf[u]].threads)
        PROVE  /\ x.k.state[u] \in Active /\ w[u] = User /\ ~Linked(x, u)
               /\ \A r \in Procs : u \notin WaitsFor(x, r)
    <3>1. SubOf[u] \in Procs
      BY ProcOfIs
    <3>2. u \notin Elems(m.procs[SubOf[u]].threads)
      BY <1>3, <1>4, <2>1, <3>1
    <3> QED
      BY <1>4, <1>5, <3>2 DEF Sound, CreatedOK
  <2>2. \A r \in Procs : \A u \in Elems(x.procs[r].threads) : u \in Subs /\ SubOf[u] = r
    BY <1>3, <1>4 DEF Sound, CreatedOK
  <2> QED
    BY <2>1, <2>2 DEF CreatedOK
<1>9. WaitsOK(x, w)
  <2>1. /\ \A r \in Procs : \A t \in WaitsFor(x, r) :
              ProcOf(t) # r /\ (t \in Subs => t \notin On(x, "ready"))
        /\ \A r, s \in Procs, t \in Subs : t \in WaitsFor(x, r) /\ t \in WaitsFor(x, s) => r = s
    BY <1>5 DEF Sound, WaitsOK
  <2>2. ASSUME NEW t \in Threads, NEW r \in Procs, w[t] = <<"wait", r>>, x.k.state[t] = "BLOCKED"
        PROVE  x.procs[r].state = "alive" /\ t \in WaitsFor(x, r)
    <3>1. m.procs[r].state = "alive" /\ t \in WaitsFor(m, r)
      BY <1>4, <2>2 DEF Sound, WaitsOK
    <3>2. r # p
      BY <3>1
    <3> QED
      BY <1>3, <1>4, <1>5, <3>1, <3>2
  <2>3. \A t \in Subs : x.k.state[t] = "BLOCKED" => \E r \in Procs : w[t] = <<"wait", r>>
    BY <1>4 DEF Sound, WaitsOK
  <2> QED
    BY <2>1, <2>2, <2>3 DEF WaitsOK
<1>10. JoinsOK(x)
  BY <1>3, <1>4, JoinsKept DEF Sound
<1> QED
  BY <1>1, <1>2, <1>4, <1>6, <1>7, <1>8, <1>9, <1>10 DEF Sound

\* The exit is refused (the process is busy, ends already, or is init): the current
\* thread alone is stopped.
LEMMA RefusedKeeps ==
    ASSUME NEW m, NEW w, Sound(m, w), AtWork(m), NEW c \in Threads, c = m.k.cur,
           NEW p \in Procs, Refused(m, p)
    PROVE  LET x == Trash(AuProcessExit(m, p), c) IN
           Sound(x, Ended(x, w, c)) /\ Placed(x.k)
<1> DEFINE x == Trash(m, c)
           v == [u \in All |-> IF u \in {c} THEN Over ELSE w[u]]
<1>1. AuProcessExit(m, p) = m
  BY DEF AuProcessExit
<1>2. /\ Sound(x, v) /\ Placed(x.k) /\ TrashedIs(m.k, x.k, {c})
  BY StopCurKeeps
<1> HIDE DEF x
<1>3. v = Ended(x, w, c)
  <2>1. ASSUME NEW u \in All, u # c, x.k.state[u] = "KILLABLE" PROVE w[u] = Over
    <3>1. m.k.state[u] = "KILLABLE"
      BY <1>2, <2>1 DEF TrashedIs
    <3> QED
      BY <3>1 DEF Sound, EndsOK
  <2> QED
    BY <2>1 DEF Ended
<1> HIDE DEF v
<1> QED
  BY <1>1, <1>2, <1>3 DEF x

\* The threads that the exit stops first: all but the current one.
LEMMA OtherThreadsIs ==
    ASSUME NEW m \in Sys, NEW p \in Procs
    PROVE  /\ OtherThreads(m, p) \in Seq(Threads)
           /\ Elems(OtherThreads(m, p)) = ThreadsOf(m, p) \ {m.k.cur}
<1> DEFINE a == <<Main[p]>>
           b == m.procs[p].threads
           s == a \o b
<1>1. a \in Seq(Threads) /\ Elems(a) = {Main[p]}
  <2>1. Main[p] \in Threads
    BY ProcOfIs
  <2>2. Len(a) = 1 /\ a[1] = Main[p] /\ DOMAIN a = {1}
    OBVIOUS
  <2> QED
    BY <2>1, <2>2 DEF Elems
<1>2. b \in Seq(Threads)
  BY ProcParts
<1> HIDE DEF a, b
<1>3. s \in Seq(Threads) /\ Elems(s) = Elems(a) \cup Elems(b)
  BY <1>1, <1>2, ConcatIs
<1>4. OtherThreads(m, p) = Without(s, {m.k.cur})
  BY DEF OtherThreads, a, b
<1> HIDE DEF s
<1>5. /\ Without(s, {m.k.cur}) \in Seq(Threads)
      /\ Elems(Without(s, {m.k.cur})) = Elems(s) \ {m.k.cur}
  BY <1>3, WithoutIs
<1> QED
  BY <1>1, <1>3, <1>4, <1>5 DEF ThreadsOf, b

\* The exit of the current thread's process, up to its own end: the threads that
\* it stops, and the system when they are stopped and the waiters woken.
Rest(m, p)     == ThreadsOf(m, p) \ {m.k.cur}
Halted(m, p)   == AuProcessWakeWaiters(TrashAll(m, OtherThreads(m, p)), p)
OverFor(w, T)  == [u \in All |-> IF u \in T THEN Over ELSE w[u]]

ExitDone(m, w, c, p) ==
    /\ Sound(Halted(m, p), OverFor(w, Rest(m, p))) /\ AtWork(Halted(m, p))
    /\ Halted(m, p).k.cur = c /\ WaitsFor(Halted(m, p), p) = {}
    /\ Halted(m, p).procs[p].state = "alive"
    /\ ThreadsOf(Halted(m, p), p) = ThreadsOf(m, p) /\ c \in ThreadsOf(m, p)
    /\ \A u \in Rest(m, p) : Halted(m, p).k.state[u] = "KILLABLE"
    /\ \A u \in All : Halted(m, p).k.state[u] = "KILLABLE" =>
          u \in Rest(m, p) \/ m.k.state[u] = "KILLABLE"
    /\ Trash(AuProcessExit(m, p), c)
          = [Trash(Halted(m, p), c) EXCEPT !.procs[p].state = "died"]

\* The whole exit of the process of the current thread.
LEMMA ExitIs ==
    ASSUME NEW m, NEW w, Sound(m, w), AtWork(m), NEW c \in Threads, c = m.k.cur,
           NEW p \in Procs, p = ProcOf(c), ~Refused(m, p)
    PROVE  ExitDone(m, w, c, p)
<1> DEFINE T == ThreadsOf(m, p) \ {c}
           s == OtherThreads(m, p)
           a == TrashAll(m, s)
           r == AuProcessWakeWaiters(a, p)
           v == [u \in All |-> IF u \in T THEN Over ELSE w[u]]
           l == m.procs[p].threads
<1>1. /\ m \in Sys /\ m.k \in KRec /\ l \in Seq(Threads) /\ Elems(l) \subseteq ThreadsOf(m, p)
  BY SysParts, ProcParts DEF Sound, ThreadsOf
<1>2. m.procs[p].state = "alive" /\ p # root
  BY DEF Refused
<1>3. s \in Seq(Threads) /\ Elems(s) = T
  BY <1>1, OtherThreadsIs
<1> HIDE DEF s
<1>4. /\ a \in Sys /\ a.procs = m.procs /\ a.joins = m.joins /\ TrashedIs(m.k, a.k, T)
  <2> HIDE DEF T
  <2>1. a \in Sys /\ a.procs = m.procs /\ a.joins = m.joins /\ TrashedIs(m.k, a.k, Elems(s))
    BY <1>1, <1>3, TrashAllIs
  <2> HIDE DEF a
  <2> QED
    BY <1>3, <2>1
<1> HIDE DEF a
<1>5. T \in SUBSET ThreadsOf(m, p) /\ c \notin T /\ c \in ThreadsOf(m, p)
  BY CurIs
<1> HIDE DEF T
<1>6. Sound(a, v)
  BY <1>2, <1>4, <1>5, StopKeeps
<1>7. /\ a.k.cur = c /\ \A u \in All : a.k.state[u] = IF u \in T THEN "KILLABLE" ELSE m.k.state[u]
      /\ On(a, "ready") = On(m, "ready") \ Unmarked(m.k, T)
  BY <1>4, ListNames DEF TrashedIs, On
<1>8. AtWork(a)
  <2>1. c \in All /\ c \in On(m, "ready") /\ m.k.state[c] \in Active
    BY IdleApart DEF AtWork
  <2> QED
    BY <1>5, <1>7, <2>1 DEF AtWork, Unmarked
<1>9. AuProcessFreeKeResource(a, Main[p]) = a
  <2>1. Main[p] \in Threads \ Subs
    BY ProcOfIs
  <2>2. a.joins[Main[p]] = <<>>
    BY <1>6, <2>1, MainNotJoined
  <2> QED
    BY <1>4, <2>1, <2>2, AwakeNone DEF AuProcessFreeKeResource
<1>10. Sound(r, v) /\ AtWork(r)
  <2> HIDE DEF v
  <2> QED
    BY <1>6, <1>8, WakeWaitersKeeps
<1>11. /\ r \in Sys /\ r.joins = a.joins /\ WokenIs(a.k, r.k, WaitsFor(a, p))
       /\ WaitsFor(r, p) = {} /\ r.procs[p].state = "alive" /\ r.procs[p].threads = l
  BY <1>2, <1>4, WakeWaitersIs
<1> HIDE DEF r
<1>12. /\ r.k.cur = c
       /\ \A u \in All : r.k.state[u] = IF u \in WaitsFor(a, p) THEN "READY" ELSE a.k.state[u]
  BY <1>7, <1>11 DEF WokenIs
<1>13. \A u \in WaitsFor(a, p) : ProcOf(u) # p
  BY <1>6 DEF Sound, WaitsOK
<1>14. \A u \in T : u \in All /\ ProcOf(u) = p
  BY <1>5, ThreadsOfIs
<1>15. \A u \in T : r.k.state[u] = "KILLABLE"
  BY <1>7, <1>12, <1>13, <1>14
<1>16. \A u \in All : r.k.state[u] = "KILLABLE" => u \in T \/ m.k.state[u] = "KILLABLE"
  BY <1>7, <1>12
<1>17. \A u \in Elems(l) : r.k.state[u] = "KILLABLE" \/ (u = r.k.cur /\ r.joins[u] = <<>>)
  <2>1. ASSUME NEW u \in Elems(l), u = c PROVE r.joins[u] = <<>>
    <3>1. u \in Subs /\ SubOf[u] = p
      BY DEF Sound, CreatedOK
    <3>2. m.joins[u] = <<>>
      BY <3>1, IdleNotJoined
    <3> QED
      BY <1>4, <1>11, <3>2
  <2>2. ASSUME NEW u \in Elems(l), u # c PROVE u \in T
    BY <1>1, <2>2 DEF T
  <2> QED
    BY <1>12, <1>15, <2>1, <2>2
<1> DEFINE e == Trash(r, c)
           o == IF c \in Elems(l) THEN e ELSE r
<1>18. EndSubs(r, l) = o
  <2> HIDE DEF l
  <2> QED
    BY <1>1, <1>11, <1>12, <1>17, EndSubsIs
<1>19. AuProcessExit(m, p) = [o EXCEPT !.procs[p].state = "died"]
  BY <1>9, <1>18 DEF AuProcessExit, a, r, s
<1>20. e \in Sys /\ TrashedIs(r.k, e.k, {c})
  BY <1>11, TrashStep
<1>21. e.k.state[c] = "KILLABLE"
  <2> HIDE DEF e
  <2> QED
    BY <1>20, IdleApart DEF TrashedIs
<1>22. Trash(AuProcessExit(m, p), c) = [e EXCEPT !.procs[p].state = "died"]
  <2>1. CASE c \in Elems(l)
    <3> DEFINE y == [e EXCEPT !.procs[p].state = "died"]
    <3>1. AuProcessExit(m, p) = y
      BY <1>19, <2>1
    <3> HIDE DEF e
    <3>2. y.k = e.k /\ [y EXCEPT !.k = e.k] = y
      BY <1>20 DEF Sys
    <3>3. AuThreadMoveToTrash(e.k, c) = e.k
      BY <1>21 DEF AuThreadMoveToTrash
    <3> HIDE DEF y
    <3>4. Trash(y, c) = [y EXCEPT !.k = AuThreadMoveToTrash(y.k, c)]
      BY <3>2 DEF Trash
    <3> QED
      BY <3>1, <3>2, <3>3, <3>4 DEF y
  <2>2. CASE c \notin Elems(l)
    <3> DEFINE y == [r EXCEPT !.procs[p].state = "died"]
    <3>1. AuProcessExit(m, p) = y
      BY <1>19, <2>2
    <3>2. Trash(y, c) = [e EXCEPT !.procs[p].state = "died"]
      BY <1>11 DEF Trash, Sys
    <3> QED
      BY <3>1, <3>2
  <2> QED
    BY <2>1, <2>2
<1>23. ThreadsOf(r, p) = ThreadsOf(m, p)
  BY <1>11 DEF ThreadsOf
<1> QED
  <2>1. r = Halted(m, p) /\ T = Rest(m, p) /\ v = OverFor(w, T)
    BY DEF r, a, s, T, Halted, Rest, OverFor
  <2> HIDE DEF v, e
  <2>2. Sound(r, v) /\ AtWork(r) /\ r.k.cur = c
    BY <1>10, <1>12
  <2>3. Trash(AuProcessExit(m, p), c) = [Trash(r, c) EXCEPT !.procs[p].state = "died"]
    BY <1>22 DEF e
  <2> QED
    BY <1>5, <1>11, <1>15, <1>16, <1>23, <2>1, <2>2, <2>3 DEF ExitDone

\* Otherwise the process dies with all of its threads.
LEMMA ExitKeeps ==
    ASSUME NEW m, NEW w, Sound(m, w), AtWork(m), NEW c \in Threads, c = m.k.cur,
           NEW p \in Procs, p = ProcOf(c), ~Refused(m, p)
    PROVE  LET x == Trash(AuProcessExit(m, p), c) IN
           Sound(x, Ended(x, w, c)) /\ Placed(x.k)
<1> DEFINE T == Rest(m, p)
           r == Halted(m, p)
           v == OverFor(w, T)
           e == Trash(r, c)
           z == [u \in All |-> IF u \in {c} THEN Over ELSE v[u]]
           x == [e EXCEPT !.procs[p].state = "died"]
<1> HIDE DEF z, e
<1>1. /\ Sound(r, v) /\ AtWork(r) /\ r.k.cur = c /\ WaitsFor(r, p) = {}
      /\ r.procs[p].state = "alive"
      /\ ThreadsOf(r, p) = ThreadsOf(m, p) /\ c \in ThreadsOf(m, p)
      /\ \A u \in T : r.k.state[u] = "KILLABLE"
      /\ \A u \in All : r.k.state[u] = "KILLABLE" => u \in T \/ m.k.state[u] = "KILLABLE"
      /\ Trash(AuProcessExit(m, p), c) = [e EXCEPT !.procs[p].state = "died"]
  <2>1. ExitDone(m, w, c, p)
    BY ExitIs
  <2> QED
    BY <2>1 DEF ExitDone, e
<1>2. \A u \in ThreadsOf(m, p) : u = c \/ u \in T
  BY DEF Rest
<1>3. \A u \in ThreadsOf(m, p) : u \in All
  BY ThreadsOfIs
<1> HIDE DEF r, T
<1>4. \A u \in All : z[u] = IF u = c \/ u \in T THEN Over ELSE w[u]
  BY DEF OverFor, z
<1> HIDE DEF v
<1>5. Sound(e, z) /\ Placed(e.k) /\ TrashedIs(r.k, e.k, {c}) /\ e.procs = r.procs
  <2> HIDE DEF v, T, r, x
  <2> QED
    BY <1>1, StopCurKeeps DEF e, z
<1>6. z \in [All -> Whereabouts]
  BY <1>5 DEF Sound
<1> HIDE DEF e, z
<1>7. /\ e.procs[p].state = "alive" /\ WaitsFor(e, p) = {} /\ ThreadsOf(e, p) = ThreadsOf(m, p)
  BY <1>1, <1>5 DEF WaitsFor, ThreadsOf
<1>8. \A t \in ThreadsOf(e, p) : z[t] = Over
  BY <1>2, <1>3, <1>4, <1>7
<1>9. Sound(x, z) /\ x.k = e.k
  BY <1>5, <1>7, <1>8, DieKeeps
<1> HIDE DEF x
<1>10. z = Ended(x, w, c)
  <2>1. ASSUME NEW u \in All PROVE z[u] = Ended(x, w, c)[u]
    <3>1. Ended(x, w, c)[u] = IF u = c \/ x.k.state[u] = "KILLABLE" THEN Over ELSE w[u]
      BY DEF Ended
    <3>2. x.k.state[u] = IF u = c THEN "KILLABLE" ELSE r.k.state[u]
      BY <1>5, <1>9 DEF TrashedIs
    <3>3. m.k.state[u] = "KILLABLE" => w[u] = Over
      BY DEF Sound, EndsOK
    <3>4. CASE u = c \/ u \in T
      BY <1>1, <1>4, <3>1, <3>2, <3>4
    <3>5. CASE ~(u = c \/ u \in T)
      BY <1>1, <1>4, <3>1, <3>2, <3>3, <3>5
    <3> QED
      BY <3>4, <3>5
  <2>2. DOMAIN z = All /\ DOMAIN Ended(x, w, c) = All
    BY <1>6 DEF Ended
  <2>3. Ended(x, w, c) = [u \in All |-> Ended(x, w, c)[u]] /\ z = [u \in All |-> z[u]]
    BY <1>6 DEF Ended
  <2> DEFINE f == Ended(x, w, c)
  <2> HIDE DEF f
  <2> QED
    BY <2>1, <2>3 DEF f
<1> QED
  BY <1>1, <1>5, <1>9, <1>10 DEF x

\* The system call and the fault that end the process of the current thread.
LEMMA EndStep ==
    ASSUME IInv, NEW t \in Threads, InUser(t), NEW p \in Procs, p = ProcOf(t),
           LET m == Trash(AuProcessExit(Now, p), t) IN Switch(m, Ended(m, at, t))
    PROVE  IInv'
<1> DEFINE m == Trash(AuProcessExit(Now, p), t)
<1>1. Sound(Now, at) /\ AtWork(Now) /\ t = Now.k.cur
  BY DEF IInv, InUser, Now
<1>2. Sound(m, Ended(m, at, t)) /\ Placed(m.k)
  <2>1. CASE Refused(Now, p)
    BY <1>1, <2>1, RefusedKeeps
  <2>2. CASE ~Refused(Now, p)
    BY <1>1, <2>2, ExitKeeps
  <2> QED
    BY <2>1, <2>2
<1>3. Switch(m, Ended(m, at, t))
  OBVIOUS
<1> HIDE DEF m
<1> QED
  BY <1>2, <1>3, Switched

\* A system of the same lists, states, processes and waitlists.
LEMMA SameKeeps ==
    ASSUME NEW m, NEW w, Sound(m, w), AtWork(m), NEW x \in Sys,
           x.k.list = m.k.list, x.k.state = m.k.state, x.k.cur = m.k.cur,
           x.procs = m.procs, x.joins = m.joins
    PROVE  Sound(x, w) /\ AtWork(x)
<1>1. \A l : On(x, l) = On(m, l)
  BY DEF On
<1>2. \A t : Linked(x, t) <=> Linked(m, t)
  BY <1>1 DEF Linked
<1>3. \A p : ThreadsOf(x, p) = ThreadsOf(m, p) /\ WaitsFor(x, p) = WaitsFor(m, p)
  BY DEF ThreadsOf, WaitsFor
<1>4. ListsOK(x)
  BY <1>1 DEF Sound, ListsOK
<1>5. EndsOK(x, w)
  BY <1>1, <1>2, <1>3 DEF Sound, EndsOK
<1>6. CreatedOK(x, w)
  BY <1>2, <1>3 DEF Sound, CreatedOK
<1>7. WaitsOK(x, w)
  BY <1>1, <1>3 DEF Sound, WaitsOK
<1>8. JoinsOK(x)
  BY JoinsKept DEF Sound
<1> QED
  BY <1>1, <1>4, <1>5, <1>6, <1>7, <1>8 DEF Sound, AtWork

\* ProcessExit of a thread that is found as a process: it ends.  Otherwise the
\* kernel loops, and nothing is changed.
LEMMA ExitStep ==
    ASSUME IInv, NEW t \in Threads, ProcessExit(t)
    PROVE  IInv'
<1>1. CASE AuProcessFindThread(t) = {} /\ k' = [k EXCEPT !.wild = TRUE]
           /\ UNCHANGED <<procs, joins, at>>
  <2> DEFINE x == [k |-> [k EXCEPT !.wild = TRUE], procs |-> procs, joins |-> joins]
  <2>1. Sound(Now, at) /\ AtWork(Now) /\ Now \in Sys
    BY DEF IInv, Sound
  <2>2. k \in KRec /\ procs \in [Procs -> PRec] /\ joins \in [Threads -> Seq(Threads)]
    BY <2>1, SysParts DEF Now
  <2>3. x \in Sys
    BY <2>2 DEF Sys, KRec
  <2>4. /\ x.k.list = Now.k.list /\ x.k.state = Now.k.state /\ x.k.cur = Now.k.cur
        /\ x.procs = Now.procs /\ x.joins = Now.joins
    BY <2>2 DEF Now, KRec
  <2>5. Now' = x /\ at' = at
    BY <1>1 DEF Now
  <2> HIDE DEF x
  <2>6. Sound(x, at) /\ AtWork(x)
    BY <2>1, <2>3, <2>4, SameKeeps
  <2>7. Sound(Now', at') /\ AtWork(Now')
    BY <2>5, <2>6
  <2> QED
    BY <2>7, PrimedIs
<1>2. ASSUME NEW p \in AuProcessFindThread(t) \ {root},
             LET m == Trash(AuProcessExit(Now, p), t) IN Switch(m, Ended(m, at, t))
      PROVE  IInv'
  <2>1. p \in Procs /\ p = ProcOf(t)
    BY ProcOfIs DEF AuProcessFindThread
  <2>2. InUser(t)
    BY DEF ProcessExit
  <2> QED
    BY <1>2, <2>1, <2>2, EndStep
<1> QED
  BY <1>1, <1>2 DEF ProcessExit

\* An EL0 abort ends the process of the thread that faults.
LEMMA FaultStep ==
    ASSUME IInv, NEW t \in Threads, Fault(t)
    PROVE  IInv'
<1>1. ProcOf(t) \in Procs
  BY ProcOfIs
<1>2. InUser(t) /\ LET m == Trash(AuProcessExit(Now, ProcOf(t)), t)
                   IN  Switch(m, Ended(m, at, t))
  BY DEF Fault
<1> QED
  BY <1>1, <1>2, EndStep

-----------------------------------------------------------------------------
(* Signals *)

\* What the theorems below suppose: no signal is sent to a sub thread that waits
\* for the end of a process.  Woken by it the thread would stay on the waitlist,
\* and could end while it is on it.
Undisturbed == \A t \in Signalled \cap Subs, p \in Procs : at[t] # <<"wait", p>>

\* AuAllocSignal: a blocked thread is woken.
LEMMA SignalStep ==
    ASSUME IInv, Undisturbed, NEW t \in Threads, AuAllocSignal(t)
    PROVE  IInv'
<1> DEFINE q == AuThreadMakeReady(k, t)
           x == [Now EXCEPT !.k = q]
<1>1. Sound(Now, at) /\ AtWork(Now) /\ Now \in Sys /\ Now.k = k
  BY DEF IInv, Sound, Now
<1>2. k \in KRec /\ t \in All
  BY <1>1, SysParts, IdleApart
<1>3. Now' = [Now EXCEPT !.k = q] /\ at' = at
  BY DEF AuAllocSignal, Now
<1>4. CASE q = k
  <2>1. [Now EXCEPT !.k = k] = Now
    BY DEF Now
  <2>2. Now' = Now
    BY <1>3, <1>4, <2>1
  <2>3. Sound(Now', at') /\ AtWork(Now')
    BY <1>1, <1>3, <2>2
  <2> QED
    BY <2>3, PrimedIs
<1>5. CASE k.state[t] = "BLOCKED" /\ WokenIs(k, q, {t})
  <2> HIDE DEF q
  <2>1. q \in KRec
    BY <1>5 DEF WokenIs
  <2>2. x \in Sys /\ x.k = q /\ x.procs = Now.procs /\ x.joins = Now.joins
    BY <1>1, <2>1, SchedulerOnly
  <2>3. t \notin Subs
    <3>1. t \in Subs => \E p \in Procs : at[t] = <<"wait", p>>
      BY <1>1, <1>5 DEF Sound, WaitsOK
    <3>2. t \in Signalled
      BY DEF AuAllocSignal
    <3> QED
      BY <3>1, <3>2 DEF Undisturbed
  <2> HIDE DEF x
  <2>4. \A r \in Procs : WaitsFor(x, r) = WaitsFor(Now, r)
    BY <2>2 DEF WaitsFor
  <2>5. WokenIs(Now.k, x.k, {t})
    BY <1>1, <1>5, <2>2
  <2>6. \A r \in Procs : /\ x.procs[r].state = Now.procs[r].state
                         /\ x.procs[r].threads = Now.procs[r].threads
                         /\ WaitsFor(x, r) \subseteq WaitsFor(Now, r)
                         /\ WaitsFor(Now, r) \subseteq WaitsFor(x, r) \cup {t}
                         /\ \A u \in WaitsFor(x, r) : u \in Subs => u \notin {t}
    BY <2>2, <2>3, <2>4
  <2>7. /\ ListsOK(x) /\ EndsOK(x, at) /\ CreatedOK(x, at) /\ WaitsOK(x, at)
        /\ AtWork(x)
    BY <1>1, <2>2, <2>3, <2>5, <2>6, WokenKeeps
  <2>8. JoinsOK(x)
    BY <1>1, <2>2, JoinsKept DEF Sound
  <2>9. Sound(x, at) /\ AtWork(x)
    BY <1>1, <2>2, <2>7, <2>8 DEF Sound
  <2>10. Sound(Now', at') /\ AtWork(Now')
    BY <1>3, <2>9 DEF x
  <2> QED
    BY <2>10, PrimedIs
<1>6. (k.state[t] = "BLOCKED" /\ WokenIs(k, q, {t})) \/ q = k
  BY <1>2, MakeReadyIs
<1> QED
  BY <1>4, <1>5, <1>6

-----------------------------------------------------------------------------
(* The end of a sub thread *)

\* A waitlist that is emptied: its entries are gone.
LEMMA JoinedLess ==
    ASSUME NEW m, NEW w, Sound(m, w), NEW x, NEW p \in Procs, NEW u \in Subs, SubOf[u] = p,
           \A y \in Threads : x.joins[y] = IF y = u THEN <<>> ELSE m.joins[y]
    PROVE  /\ Joined(x, p) \subseteq Joined(m, p)
           /\ Cardinality(Joined(m, p)) >= Len(m.joins[u])
           /\ Cardinality(Joined(x, p)) = Cardinality(Joined(m, p)) - Len(m.joins[u])
<1> DEFINE s == m.joins[u]
           n == Len(s)
           Z == {u} \X (1 .. n)
           J == Joined(m, p)
           K == Joined(x, p)
<1>1. m \in Sys /\ u \in Threads /\ n <= MaxWaits
  BY ProcOfIs DEF Sound, JoinsOK
<1>2. s \in Seq(Threads)
  BY <1>1, SysParts
<1>3. n \in Nat /\ DOMAIN s = 1 .. n
  BY <1>2, LenProperties
<1>4. \A y \in Subs : DOMAIN x.joins[y] = IF y = u THEN {} ELSE DOMAIN m.joins[y]
  BY ProcOfIs
<1>5. 1 .. n \subseteq 1 .. MaxWaits
  BY <1>1, <1>3, ProcConstants
<1>6. K \subseteq J
  BY <1>4 DEF Joined
<1>7. J \cap Z = Z
  <2>1. ASSUME NEW i \in 1 .. n PROVE <<u, i>> \in J
    BY <1>3, <1>5, <2>1 DEF Joined
  <2> HIDE DEF J, n
  <2> QED
    BY <2>1
<1>8. K = J \ Z
  <2>1. ASSUME NEW y \in J, y \notin Z PROVE y \in K
    <3>1. y \in Subs \X (1 .. MaxWaits) /\ SubOf[y[1]] = p /\ y[2] \in DOMAIN m.joins[y[1]]
      BY DEF Joined
    <3>2. y[1] # u
      <4>1. y[1] = u => y[2] \in 1 .. n
        BY <1>3, <3>1
      <4> HIDE DEF n
      <4>2. y = <<y[1], y[2]>>
        BY <3>1
      <4> QED
        BY <2>1, <4>1, <4>2
    <3> QED
      BY <1>4, <3>1, <3>2 DEF Joined
  <2>2. ASSUME NEW y \in K, y \in Z PROVE FALSE
    <3>1. y[1] = u /\ y[2] \in DOMAIN x.joins[y[1]]
      BY <2>2 DEF Joined
    <3> QED
      BY <1>4, <3>1
  <2> HIDE DEF Z, J, K
  <2> QED
    BY <1>6, <2>1, <2>2
<1>9. IsFiniteSet(J) /\ Cardinality(J) \in Nat /\ Cardinality(K) \in Nat
  BY JoinedFinite
<1>10. Cardinality(Z) = n
  <2>1. IsFiniteSet({u}) /\ Cardinality({u}) = 1
    BY FS_Singleton
  <2>2. IsFiniteSet(1 .. n) /\ Cardinality(1 .. n) = n
    BY <1>3, FS_Interval
  <2> HIDE DEF n
  <2>3. Cardinality(Z) = Cardinality({u}) * Cardinality(1 .. n)
    BY <2>1, <2>2, FS_Product
  <2> QED
    BY <1>3, <2>1, <2>2, <2>3
<1> HIDE DEF J, K, Z, n
<1>11. Cardinality(K) = Cardinality(J) - n
  <2>1. Cardinality(J \ Z) = Cardinality(J) - Cardinality(J \cap Z)
    BY <1>9, FS_Difference
  <2> QED
    BY <1>7, <1>8, <1>10, <2>1
<1> QED
  BY <1>3, <1>6, <1>9, <1>11 DEF J, K, n

\* AuThreadAwakeWaiters: who waits for the end of t is woken, and counted no more.
LEMMA AwakeKeeps ==
    ASSUME NEW m, NEW w, Sound(m, w), NEW t \in Subs, m.procs[SubOf[t]].state = "alive"
    PROVE  LET x == AuThreadAwakeWaiters(m, t) IN
           Sound(x, w) /\ WokenIs(m.k, x.k, Elems(m.joins[t]))
<1> DEFINE p == SubOf[t]
           s == m.joins[t]
           a == AwakeAll(m, s)
           x == [a EXCEPT !.joins[t] = <<>>]
           W == Elems(s)
           n == Len(s)
<1>1. /\ m \in Sys /\ w \in [All -> Whereabouts] /\ t \in Threads /\ p \in Procs
      /\ Main[p] \in Threads \ Subs /\ ProcOf(Main[p]) = p
  BY ProcOfIs DEF Sound
<1>2. s \in Seq(Threads) /\ n \in Nat
  BY <1>1, SysParts, LenProperties
<1>3. \A u \in W : u = Main[p]
  BY <1>1 DEF Sound, JoinsOK
<1>4. m.procs[p].waiting = Cardinality(Joined(m, p))
  BY <1>1 DEF Sound, JoinsOK
<1>5. /\ p # root /\ Joined(m, p) # {} => m.procs[p].busy
  BY <1>1 DEF Sound, JoinsOK
<1> DEFINE y == [m EXCEPT !.joins[t] = <<>>]
<1>6. \A u \in Threads : y.joins[u] = IF u = t THEN <<>> ELSE m.joins[u]
  BY <1>1, ForgetIs
<1> HIDE DEF y, p
<1>7. /\ Joined(y, p) \subseteq Joined(m, p) /\ Cardinality(Joined(m, p)) >= n
      /\ Cardinality(Joined(y, p)) = Cardinality(Joined(m, p)) - n
  BY <1>1, <1>6, JoinedLess DEF p
<1> HIDE DEF s, n
<1>8. /\ a \in Sys /\ a.joins = m.joins /\ WokenIs(m.k, a.k, W)
      /\ \A q \in Procs \ {p} : a.procs[q] = m.procs[q]
      /\ a.procs[p].state = m.procs[p].state /\ a.procs[p].threads = m.procs[p].threads
      /\ a.procs[p].waitlist = m.procs[p].waitlist
      /\ a.procs[p].waiting = m.procs[p].waiting - n
      /\ m.procs[p].waiting > n => a.procs[p].busy = m.procs[p].busy
  <2>1. \A u \in Elems(s) : ProcOf(u) = p
    BY <1>1, <1>3
  <2>2. m.procs[p].waiting >= Len(s)
    BY <1>4, <1>7 DEF n
  <2> QED
    BY <1>1, <1>2, <2>1, <2>2, AwakeAllIs DEF n
<1> HIDE DEF a
<1>9. /\ x \in Sys /\ x.k = a.k /\ x.procs = a.procs
      /\ \A u \in Threads : x.joins[u] = IF u = t THEN <<>> ELSE m.joins[u]
  <2>1. /\ x \in Sys /\ x.k = a.k /\ x.procs = a.procs
        /\ \A u \in Threads : x.joins[u] = IF u = t THEN <<>> ELSE a.joins[u]
    BY <1>1, <1>8, ForgetIs
  <2> HIDE DEF x
  <2> QED
    BY <1>8, <2>1
<1>10. AuThreadAwakeWaiters(m, t) = x
  BY DEF AuThreadAwakeWaiters, a, s
<1> HIDE DEF x, W
<1>11. WokenIs(m.k, x.k, W)
  BY <1>8, <1>9
<1>12. \A r \in Procs : /\ x.procs[r].state = m.procs[r].state
                        /\ x.procs[r].threads = m.procs[r].threads
                        /\ WaitsFor(x, r) = WaitsFor(m, r)
  BY <1>8, <1>9 DEF WaitsFor
<1>13. \A u \in W : u \notin Subs
  BY <1>1, <1>3
<1>14. \A r \in Procs : /\ x.procs[r].state = m.procs[r].state
                        /\ x.procs[r].threads = m.procs[r].threads
                        /\ WaitsFor(x, r) \subseteq WaitsFor(m, r)
                        /\ WaitsFor(m, r) \subseteq WaitsFor(x, r) \cup W
                        /\ \A u \in WaitsFor(x, r) : u \in Subs => u \notin W
  BY <1>12, <1>13
<1>15. \A u \in Threads : x.joins[u] = m.joins[u] \/ x.joins[u] = <<>>
  BY <1>9
<1>16. ListsOK(x) /\ EndsOK(x, w) /\ CreatedOK(x, w) /\ WaitsOK(x, w)
  <2>1. \A u \in W : u \in Subs => u \notin On(m, "ready") \/ m.k.state[u] # "KILLABLE"
    BY <1>13
  <2>2. x \in Sys
    BY <1>9
  <2> QED
    BY <1>11, <1>14, <1>15, <2>1, <2>2, WokenKeeps
<1>17. Joined(x, p) = Joined(y, p)
  <2>1. \A u \in Subs : x.joins[u] = y.joins[u]
    BY <1>6, <1>9, ProcOfIs
  <2> QED
    BY <1>1, <2>1, JoinedSame
<1>18. JoinsOK(x)
  <2>1. \A u \in Threads : Len(x.joins[u]) <= MaxWaits
    <3>1. Len(<<>>) = 0 /\ 0 <= MaxWaits
      BY ProcConstants, EmptySeq
    <3>2. \A u \in Threads : Len(m.joins[u]) <= MaxWaits
      BY DEF Sound, JoinsOK
    <3> QED
      BY <1>9, <3>1, <3>2
  <2>2. \A u \in Threads : \A v \in Elems(x.joins[u]) :
           u \in Subs /\ v = Main[SubOf[u]] /\ u \in Elems(x.procs[SubOf[u]].threads)
    <3>1. Elems(<<>>) = {}
      BY DEF Elems
    <3>2. \A u \in Threads : \A v \in Elems(x.joins[u]) : v \in Elems(m.joins[u])
      BY <1>15, <3>1
    <3>3. \A u \in Threads : \A v \in Elems(m.joins[u]) :
             u \in Subs /\ v = Main[SubOf[u]] /\ u \in Elems(m.procs[SubOf[u]].threads)
      BY DEF Sound, JoinsOK
    <3>4. \A u \in Subs : SubOf[u] \in Procs
      BY ProcOfIs
    <3> QED
      BY <1>12, <3>2, <3>3, <3>4
  <2>3. ASSUME NEW r \in Procs, x.procs[r].state = "alive"
        PROVE  /\ x.procs[r].waiting = Cardinality(Joined(x, r))
               /\ r # root /\ Joined(x, r) # {} => x.procs[r].busy
    <3>1. CASE r = p
      <4>1. x.procs[p].waiting = Cardinality(Joined(x, p))
        BY <1>4, <1>7, <1>8, <1>9, <1>17
      <4>2. ASSUME p # root, Joined(x, p) # {} PROVE x.procs[p].busy
        <5>1. Cardinality(Joined(x, p)) \in Nat /\ Cardinality(Joined(x, p)) # 0
          BY <1>1, <4>2, JoinedFinite, FS_EmptySet
        <5>2. m.procs[p].waiting > n
          <6>1. Cardinality(Joined(m, p)) \in Nat
            BY <1>1, JoinedFinite
          <6> QED
            BY <1>2, <1>4, <1>7, <1>17, <5>1, <6>1
        <5>3. m.procs[p].busy
          BY <1>5, <1>7, <1>17, <4>2 DEF p
        <5> QED
          BY <1>8, <1>9, <5>2, <5>3
      <4> QED
        BY <3>1, <4>1, <4>2
    <3>2. CASE r # p
      <4>1. \A u \in Subs : SubOf[u] = r => x.joins[u] = m.joins[u]
        BY <1>9, <3>2, ProcOfIs DEF p
      <4>2. Joined(x, r) = Joined(m, r)
        BY <4>1, JoinedSame
      <4>3. x.procs[r] = m.procs[r]
        BY <1>8, <1>9, <3>2
      <4> QED
        BY <2>3, <4>2, <4>3 DEF Sound, JoinsOK
    <3> QED
      BY <3>1, <3>2
  <2> QED
    BY <2>1, <2>2, <2>3 DEF JoinsOK
<1> QED
  BY <1>1, <1>9, <1>10, <1>11, <1>16, <1>18 DEF Sound, W, s

\* The current sub thread marks itself, and stays on the ready list.
LEMMA MarkKeeps ==
    ASSUME NEW m, NEW w, Sound(m, w), AtWork(m), NEW t \in Subs, t = m.k.cur
    PROVE  LET x == [m EXCEPT !.k.state[t] = "KILLABLE"] IN
           /\ Sound(x, [w EXCEPT ![t] = Over])
           /\ x.k.cur = t /\ x.k.state[t] = "KILLABLE" /\ On(x, "ready") = On(m, "ready")
           /\ x.procs = m.procs /\ x.joins = m.joins
<1> DEFINE q == [m.k EXCEPT !.state[t] = "KILLABLE"]
           x == [m EXCEPT !.k = q]
           v == [w EXCEPT ![t] = Over]
<1>1. /\ m \in Sys /\ m.k \in KRec /\ w \in [All -> Whereabouts] /\ t \in Threads /\ t \in All
      /\ SubOf[t] \in Procs /\ ProcOf(t) = SubOf[t]
  BY SysParts, ProcOfIs, IdleApart DEF Sound
<1>2. [m EXCEPT !.k.state[t] = "KILLABLE"] = x
  BY <1>1 DEF Sys
<1>3. /\ q \in KRec /\ q.list = m.k.list /\ q.cur = m.k.cur
      /\ \A u \in All : q.state[u] = IF u = t THEN "KILLABLE" ELSE m.k.state[u]
  BY <1>1, StateOnly DEF States
<1> HIDE DEF q
<1>4. x \in Sys /\ x.k = q /\ x.procs = m.procs /\ x.joins = m.joins
  BY <1>1, <1>3, SchedulerOnly
<1> HIDE DEF x
<1>5. v \in [All -> Whereabouts] /\ \A u \in All : v[u] = IF u = t THEN Over ELSE w[u]
  BY <1>1 DEF Whereabouts
<1> HIDE DEF v
<1>6. \A l : On(x, l) = On(m, l)
  BY <1>3, <1>4 DEF On
<1>7. \A u : Linked(x, u) <=> Linked(m, u)
  BY <1>6 DEF Linked
<1>8. \A p : ThreadsOf(x, p) = ThreadsOf(m, p) /\ WaitsFor(x, p) = WaitsFor(m, p)
  BY <1>4 DEF ThreadsOf, WaitsFor
<1>9. \A u \in All : x.k.state[u] = IF u = t THEN "KILLABLE" ELSE m.k.state[u]
  BY <1>3, <1>4
<1>10. /\ t \in On(m, "ready") /\ t \notin On(m, "blocked") /\ t # Idle
       /\ t \in Elems(m.procs[SubOf[t]].threads)
  <2>1. t \in ThreadsOf(m, SubOf[t]) /\ t \notin On(m, "blocked")
    BY <1>1, CurIs, ListNames
  <2>2. t # Main[SubOf[t]]
    BY <1>1, ProcOfIs
  <2> QED
    BY <1>1, <2>1, <2>2, IdleApart DEF AtWork, ThreadsOf
<1>11. ListsOK(x)
  <2>1. /\ On(x, "sleep") = {} /\ \A l, n \in Lists : l # n => On(x, l) \cap On(x, n) = {}
        /\ Idle \in On(x, "ready")
    BY <1>6 DEF Sound, ListsOK
  <2>2. x.k.state[Idle] \in Active
    BY <1>9, <1>10, IdleApart DEF Sound, ListsOK
  <2>3. \A u \in On(x, "ready") :
           x.k.state[u] \in Active \/ (u \in Subs /\ x.k.state[u] = "KILLABLE")
    <3>1. On(m, "ready") \subseteq All
      BY <1>1, SysParts, ListNames
    <3> QED
      BY <1>6, <1>9, <3>1 DEF Sound, ListsOK
  <2>4. \A u \in All : x.k.state[u] = "BLOCKED" <=> u \in On(x, "blocked")
    BY <1>6, <1>9, <1>10 DEF Sound, ListsOK
  <2> QED
    BY <2>1, <2>2, <2>3, <2>4 DEF ListsOK
<1>12. EndsOK(x, v)
  <2>1. \A u \in All : x.k.state[u] = "KILLABLE" => v[u] = Over
    BY <1>5, <1>9 DEF Sound, EndsOK
  <2>2. \A u \in On(x, "ready") \cup On(x, "blocked") : v[u] = Over => x.k.state[u] = "KILLABLE"
    <3>1. On(m, "ready") \subseteq All /\ On(m, "blocked") \subseteq All
      BY <1>1, SysParts, ListNames
    <3> QED
      BY <1>5, <1>6, <1>9, <3>1 DEF Sound, EndsOK
  <2>3. \A p \in Procs : x.procs[p].state # "alive" => \A u \in ThreadsOf(x, p) : v[u] = Over
    <3>1. ASSUME NEW p \in Procs, NEW u \in ThreadsOf(m, p), w[u] = Over PROVE v[u] = Over
      <4>1. u \in All
        BY ThreadsOfIs
      <4> QED
        BY <1>5, <3>1, <4>1
    <3>2. \A p \in Procs : m.procs[p].state # "alive" => \A u \in ThreadsOf(m, p) : w[u] = Over
      BY DEF Sound, EndsOK
    <3> QED
      BY <1>4, <1>8, <3>1, <3>2
  <2>4. \A p \in Procs : x.procs[p].state = "reaped" =>
           \A u \in ThreadsOf(x, p) : ~Linked(x, u) /\ x.joins[u] = <<>>
    BY <1>4, <1>7, <1>8 DEF Sound, EndsOK
  <2> QED
    BY <2>1, <2>2, <2>3, <2>4 DEF EndsOK
<1>13. CreatedOK(x, v)
  <2>1. ASSUME NEW u \in Subs, u \notin Elems(m.procs[SubOf[u]].threads)
        PROVE  u # t /\ u \in All
    BY <1>10, <2>1, ProcOfIs, IdleApart
  <2> QED
    BY <1>4, <1>5, <1>7, <1>8, <1>9, <2>1 DEF Sound, CreatedOK
<1>14. WaitsOK(x, v)
  <2>1. \A p : Over # <<"wait", p>>
    BY DEF Over
  <2>2. \A u \in Threads : u \in All
    BY IdleApart
  <2>3. \A u \in Subs : u \in Threads
    BY ProcOfIs
  <2>4. \A p \in Procs : \A u \in WaitsFor(x, p) :
           ProcOf(u) # p /\ (u \in Subs => u \notin On(x, "ready"))
    BY <1>6, <1>8 DEF Sound, WaitsOK
  <2>5. \A p, r \in Procs, u \in Subs : u \in WaitsFor(x, p) /\ u \in WaitsFor(x, r) => p = r
    BY <1>8 DEF Sound, WaitsOK
  <2>6. \A u \in Threads, p \in Procs : v[u] = <<"wait", p>> /\ x.k.state[u] = "BLOCKED" =>
           x.procs[p].state = "alive" /\ u \in WaitsFor(x, p)
    BY <1>4, <1>5, <1>8, <1>9, <2>1, <2>2 DEF Sound, WaitsOK
  <2>7. \A u \in Subs : x.k.state[u] = "BLOCKED" => \E p \in Procs : v[u] = <<"wait", p>>
    BY <1>5, <1>9, <2>2, <2>3 DEF Sound, WaitsOK
  <2> QED
    BY <2>4, <2>5, <2>6, <2>7 DEF WaitsOK
<1>15. JoinsOK(x)
  BY <1>4, JoinsKept DEF Sound
<1>16. Sound(x, v)
  BY <1>4, <1>5, <1>11, <1>12, <1>13, <1>14, <1>15 DEF Sound
<1> QED
  BY <1>1, <1>2, <1>3, <1>4, <1>6, <1>9, <1>16 DEF v

\* ExitSubThread: the current thread marks itself, wakes who waits for it, and is
\* not stopped a second time.
LEMMA EndSelfKeeps ==
    ASSUME NEW m, NEW w, Sound(m, w), AtWork(m), NEW t \in Subs, t = m.k.cur
    PROVE  LET x == AuProcessFreeKeResource([m EXCEPT !.k.state[t] = "KILLABLE"], t) IN
           Trash(x, t) = x /\ Sound(x, Ended(x, w, t)) /\ Placed(x.k)
<1> DEFINE y == [m EXCEPT !.k.state[t] = "KILLABLE"]
           z == AuThreadAwakeWaiters(y, t)
           v == [w EXCEPT ![t] = Over]
<1>1. /\ t \in Threads /\ t \in All /\ SubOf[t] \in Procs /\ ProcOf(t) = SubOf[t]
      /\ w \in [All -> Whereabouts]
  BY ProcOfIs, IdleApart DEF Sound
<1>2. /\ Sound(y, v) /\ y.k.cur = t /\ y.k.state[t] = "KILLABLE"
      /\ On(y, "ready") = On(m, "ready") /\ y.procs = m.procs /\ y.joins = m.joins
  BY MarkKeeps
<1>3. v \in [All -> Whereabouts] /\ \A u \in All : v[u] = IF u = t THEN Over ELSE w[u]
  BY <1>1 DEF Whereabouts
<1> HIDE DEF y, v
<1>4. y.procs[SubOf[t]].state = "alive"
  BY <1>1, <1>2, CurIs
<1>5. Sound(z, v) /\ WokenIs(y.k, z.k, Elems(y.joins[t]))
  BY <1>2, <1>4, AwakeKeeps
<1>6. t \notin Elems(y.joins[t])
  <2>1. \A u \in Elems(y.joins[t]) : u = Main[SubOf[t]]
    BY <1>1, <1>2 DEF Sound, JoinsOK
  <2>2. t # Main[SubOf[t]]
    BY <1>1, ProcOfIs
  <2> QED
    BY <2>1, <2>2
<1> HIDE DEF z
<1>7. z.k.cur = t /\ z.k.state[t] = "KILLABLE" /\ t \in On(z, "ready") /\ z \in Sys
  <2>1. t \in On(y, "ready")
    BY <1>2 DEF AtWork
  <2> QED
    BY <1>1, <1>2, <1>5, <1>6, <2>1 DEF WokenIs, On, Sound
<1>8. Trash(z, t) = z
  <2>1. AuThreadMoveToTrash(z.k, t) = z.k
    BY <1>7 DEF AuThreadMoveToTrash
  <2>2. [z EXCEPT !.k = z.k] = z
    BY <1>7 DEF Sys
  <2>3. Trash(z, t) = [z EXCEPT !.k = AuThreadMoveToTrash(z.k, t)]
    BY DEF Trash
  <2> QED
    BY <2>1, <2>2, <2>3
<1>9. v = Ended(z, w, t)
  <2>1. ASSUME NEW u \in All, u # t, z.k.state[u] = "KILLABLE" PROVE w[u] = Over
    <3>1. v[u] = Over
      BY <1>5, <2>1 DEF Sound, EndsOK
    <3> QED
      BY <1>3, <2>1, <3>1
  <2>2. v = [u \in All |-> v[u]]
    BY <1>3
  <2>3. \A u \in All : v[u] = IF u = t \/ z.k.state[u] = "KILLABLE" THEN Over ELSE w[u]
    BY <1>3, <2>1
  <2> QED
    BY <2>2, <2>3 DEF Ended
<1>10. Placed(z.k)
  <2>1. \A l, n \in Lists : l # n => Elems(z.k.list[l]) \cap Elems(z.k.list[n]) = {}
    BY <1>5 DEF Sound, ListsOK, On
  <2>2. z.k.cur \in Elems(z.k.list["ready"])
    BY <1>7 DEF On
  <2> QED
    BY <2>1, <2>2 DEF Placed
<1>11. AuProcessFreeKeResource(y, t) = z
  BY DEF AuProcessFreeKeResource, z
<1> QED
  BY <1>5, <1>8, <1>9, <1>10, <1>11 DEF y

\* ExitSubThread, and the switch to another thread.
LEMMA ExitSubStep ==
    ASSUME IInv, NEW t \in Subs, ExitSubThread(t)
    PROVE  IInv'
<1> DEFINE x == AuProcessFreeKeResource([Now EXCEPT !.k.state[t] = "KILLABLE"], t)
<1>1. Sound(Now, at) /\ AtWork(Now) /\ t = Now.k.cur
  BY DEF IInv, ExitSubThread, InUser, Now
<1>2. Trash(x, t) = x /\ Sound(x, Ended(x, at, t)) /\ Placed(x.k)
  BY <1>1, EndSelfKeeps
<1>3. Switch(Trash(x, t), Ended(x, at, t))
  BY DEF ExitSubThread
<1> HIDE DEF x
<1> QED
  BY <1>2, <1>3, Switched

-----------------------------------------------------------------------------
(* Reaping *)

\* The threads of a process that can be reaped are cleaned: nothing links them.
LEMMA CleanKeeps ==
    ASSUME NEW m, NEW w, Sound(m, w), AtWork(m), NEW p \in Procs, AuProcessCanReap(m, p)
    PROVE  LET x == CleanAll(m, m.procs[p].threads \o <<Main[p]>>) IN
           /\ Sound(x, w) /\ AtWork(x) /\ x.procs = m.procs
           /\ \A t \in ThreadsOf(m, p) : ~Linked(x, t) /\ x.joins[t] = <<>>
<1> DEFINE s == m.procs[p].threads \o <<Main[p]>>
           T == ThreadsOf(m, p)
           x == CleanAll(m, s)
<1>1. m \in Sys /\ m.k \in KRec /\ m.procs \in [Procs -> PRec] /\ w \in [All -> Whereabouts]
  BY SysParts DEF Sound
<1>2. s \in Seq(Threads) /\ Elems(s) = T
  <2>1. m.procs[p].threads \in Seq(Threads)
    BY <1>1, ProcParts
  <2>2. <<Main[p]>> \in Seq(Threads) /\ Elems(<<Main[p]>>) = {Main[p]}
    <3>1. Len(<<Main[p]>>) = 1 /\ <<Main[p]>>[1] = Main[p] /\ DOMAIN <<Main[p]>> = {1}
      OBVIOUS
    <3> QED
      BY <3>1, ProcOfIs DEF Elems
  <2> DEFINE b == m.procs[p].threads
             c == <<Main[p]>>
  <2>3. Elems(b) \cup Elems(c) = T
    BY <2>2 DEF ThreadsOf
  <2>4. b \in Seq(Threads) /\ c \in Seq(Threads) /\ s = b \o c
    BY <2>1, <2>2
  <2> HIDE DEF b, c, s, T
  <2>5. b \o c \in Seq(Threads) /\ Elems(b \o c) = Elems(b) \cup Elems(c)
    BY <2>4, ConcatIs
  <2> QED
    BY <2>3, <2>4, <2>5
<1> HIDE DEF s
<1>3. /\ x \in Sys /\ x.procs = m.procs /\ CleanedIs(m.k, x.k, T)
      /\ \A u \in Threads : x.joins[u] = IF u \in T THEN <<>> ELSE m.joins[u]
  <2> HIDE DEF T
  <2>1. /\ x \in Sys /\ x.procs = m.procs /\ CleanedIs(m.k, x.k, Elems(s))
        /\ \A u \in Threads : x.joins[u] = IF u \in Elems(s) THEN <<>> ELSE m.joins[u]
    BY <1>1, <1>2, CleanAllIs
  <2> HIDE DEF x
  <2> QED
    BY <1>2, <2>1
<1> HIDE DEF x
<1>7. /\ m.procs[p].state = "died" /\ \A t \in T : m.k.state[t] = "KILLABLE"
      /\ m.k.cur = Idle \/ ProcOf(m.k.cur) # p
  BY DEF AuProcessCanReap, ThreadsOf
<1>8. \A t \in T : t \in Threads /\ t \in All /\ ProcOf(t) = p
  BY ThreadsOfIs
<1>9. \A r \in Procs : ThreadsOf(x, r) = ThreadsOf(m, r) /\ WaitsFor(x, r) = WaitsFor(m, r)
  BY <1>3 DEF ThreadsOf, WaitsFor
<1> HIDE DEF T
<1>10. /\ x.k.cur = m.k.cur /\ x.k.state = m.k.state
       /\ \A l \in Lists : On(x, l) = On(m, l) \ T
  BY <1>3 DEF CleanedIs, On
<1>11. \A t : Linked(x, t) <=> Linked(m, t) /\ t \notin T
  BY <1>10 DEF Linked
<1>12. m.k.cur \notin T /\ Idle \notin T
  BY <1>7, <1>8, IdleApart
<1>13. ListsOK(x)
  <2>1. \A t \in T : m.k.state[t] # "BLOCKED"
    BY <1>7
  <2>2. \A t \in All : x.k.state[t] = "BLOCKED" <=> t \in On(x, "blocked")
    BY <1>10, <2>1, ListNames DEF Sound, ListsOK
  <2> QED
    BY <1>10, <1>12, <2>2, ListNames DEF Sound, ListsOK
<1>14. EndsOK(x, w)
  <2>1. \A t \in All : x.k.state[t] = "KILLABLE" => w[t] = Over
    BY <1>10 DEF Sound, EndsOK
  <2>2. \A t \in On(x, "ready") \cup On(x, "blocked") : w[t] = Over => x.k.state[t] = "KILLABLE"
    BY <1>10, ListNames DEF Sound, EndsOK
  <2>3. \A r \in Procs : x.procs[r].state # "alive" => \A t \in ThreadsOf(x, r) : w[t] = Over
    BY <1>3, <1>7, <1>9 DEF Sound, EndsOK
  <2>4. ASSUME NEW r \in Procs, x.procs[r].state = "reaped", NEW t \in ThreadsOf(x, r)
        PROVE  ~Linked(x, t) /\ x.joins[t] = <<>>
    <3>1. t \in ThreadsOf(m, r) /\ t \in Threads
      BY <1>9, ThreadsOfIs
    <3>2. m.procs[r].state = "reaped"
      BY <1>3, <2>4
    <3>3. ~Linked(m, t) /\ m.joins[t] = <<>>
      BY <3>1, <3>2 DEF Sound, EndsOK
    <3> QED
      BY <1>3, <1>11, <3>1, <3>3
  <2> QED
    BY <2>1, <2>2, <2>3, <2>4 DEF EndsOK
<1>15. CreatedOK(x, w)
  BY <1>3, <1>9, <1>10, <1>11, ProcOfIs DEF Sound, CreatedOK
<1>16. WaitsOK(x, w)
  <2>1. \A r \in Procs : \A t \in WaitsFor(x, r) :
           ProcOf(t) # r /\ (t \in Subs => t \notin On(x, "ready"))
    BY <1>9, <1>10, ListNames DEF Sound, WaitsOK
  <2>2. \A q, r \in Procs, t \in Subs : t \in WaitsFor(x, q) /\ t \in WaitsFor(x, r) => q = r
    BY <1>9 DEF Sound, WaitsOK
  <2>3. \A t \in Threads, r \in Procs : w[t] = <<"wait", r>> /\ x.k.state[t] = "BLOCKED" =>
           x.procs[r].state = "alive" /\ t \in WaitsFor(x, r)
    <3>1. \A t \in Threads, r \in Procs : w[t] = <<"wait", r>> /\ m.k.state[t] = "BLOCKED" =>
             m.procs[r].state = "alive" /\ t \in WaitsFor(m, r)
      BY DEF Sound, WaitsOK
    <3>2. \A r \in Procs : m.procs[r].state = "alive" => x.procs[r].state = "alive"
      BY <1>3, <1>7
    <3> QED
      BY <1>9, <1>10, <3>1, <3>2
  <2>4. \A t \in Subs : x.k.state[t] = "BLOCKED" => \E r \in Procs : w[t] = <<"wait", r>>
    BY <1>10 DEF Sound, WaitsOK
  <2> QED
    BY <2>1, <2>2, <2>3, <2>4 DEF WaitsOK
<1>17. JoinsOK(x)
  <2>1. \A u \in Threads : Len(x.joins[u]) <= MaxWaits
    <3>1. Len(<<>>) = 0 /\ 0 <= MaxWaits
      BY ProcConstants, EmptySeq
    <3>2. \A u \in Threads : Len(m.joins[u]) <= MaxWaits
      BY DEF Sound, JoinsOK
    <3> QED
      BY <1>3, <3>1, <3>2
  <2>2. \A u \in Threads : \A v \in Elems(x.joins[u]) :
           u \in Subs /\ v = Main[SubOf[u]] /\ u \in Elems(x.procs[SubOf[u]].threads)
    <3>1. Elems(<<>>) = {}
      BY DEF Elems
    <3>2. \A u \in Threads : \A v \in Elems(x.joins[u]) : v \in Elems(m.joins[u])
      BY <1>3, <3>1
    <3>3. \A u \in Threads : \A v \in Elems(m.joins[u]) :
             u \in Subs /\ v = Main[SubOf[u]] /\ u \in Elems(m.procs[SubOf[u]].threads)
      BY DEF Sound, JoinsOK
    <3>4. \A u \in Subs : SubOf[u] \in Procs
      BY ProcOfIs
    <3> QED
      BY <1>3, <3>2, <3>3, <3>4
  <2>3. ASSUME NEW r \in Procs, x.procs[r].state = "alive"
        PROVE  /\ x.procs[r].waiting = Cardinality(Joined(x, r))
               /\ r # root /\ Joined(x, r) # {} => x.procs[r].busy
    <3>1. r # p /\ m.procs[r].state = "alive"
      BY <1>3, <1>7, <2>3
    <3>2. \A u \in Subs : SubOf[u] = r => x.joins[u] = m.joins[u]
      BY <1>3, <1>8, <3>1, ProcOfIs
    <3>3. Joined(x, r) = Joined(m, r)
      BY <3>2, JoinedSame
    <3> QED
      BY <1>3, <3>1, <3>3 DEF Sound, JoinsOK
  <2> QED
    BY <2>1, <2>2, <2>3 DEF JoinsOK
<1>18. AtWork(x)
  BY <1>10, <1>12, ListNames DEF AtWork
<1>19. \A t \in T : ~Linked(x, t) /\ x.joins[t] = <<>>
  BY <1>3, <1>8, <1>11
<1> QED
  BY <1>1, <1>3, <1>13, <1>14, <1>15, <1>16, <1>17, <1>18, <1>19 DEF Sound, T, x, s

\* A process leaves the table.
LEMMA BuryKeeps ==
    ASSUME NEW m, NEW w, Sound(m, w), AtWork(m), NEW p \in Procs, m.procs[p].state = "died",
           \A t \in ThreadsOf(m, p) : ~Linked(m, t) /\ m.joins[t] = <<>>
    PROVE  LET x == [m EXCEPT !.procs[p].state = "reaped"] IN
           Sound(x, w) /\ AtWork(x)
<1> DEFINE d == [m.procs EXCEPT ![p] = [m.procs[p] EXCEPT !.state = "reaped"]]
           x == [m EXCEPT !.procs = d]
<1>1. m \in Sys /\ m.procs \in [Procs -> PRec] /\ w \in [All -> Whereabouts]
  BY SysParts DEF Sound
<1>2. [m EXCEPT !.procs[p].state = "reaped"] = x
  BY <1>1 DEF Sys, PRec
<1>3. /\ d \in [Procs -> PRec]
      /\ \A r \in Procs : /\ d[r].threads = m.procs[r].threads /\ d[r].busy = m.procs[r].busy
                          /\ d[r].waiting = m.procs[r].waiting
                          /\ d[r].waitlist = m.procs[r].waitlist
                          /\ d[r].state = IF r = p THEN "reaped" ELSE m.procs[r].state
  BY <1>1 DEF PRec
<1> HIDE DEF d
<1>4. x \in Sys /\ x.k = m.k /\ x.joins = m.joins /\ x.procs = d
  BY <1>1, <1>3 DEF Sys
<1> HIDE DEF x
<1>5. \A l : On(x, l) = On(m, l)
  BY <1>4 DEF On
<1>6. \A t : Linked(x, t) <=> Linked(m, t)
  BY <1>5 DEF Linked
<1>7. \A r \in Procs : ThreadsOf(x, r) = ThreadsOf(m, r) /\ WaitsFor(x, r) = WaitsFor(m, r)
  BY <1>3, <1>4 DEF ThreadsOf, WaitsFor
<1>8. ListsOK(x)
  BY <1>4, <1>5 DEF Sound, ListsOK
<1>9. EndsOK(x, w)
  <2>1. \A r \in Procs : x.procs[r].state # "alive" => m.procs[r].state # "alive"
    BY <1>3, <1>4
  <2>2. \A r \in Procs : x.procs[r].state = "reaped" => r = p \/ m.procs[r].state = "reaped"
    BY <1>3, <1>4
  <2> QED
    BY <1>4, <1>5, <1>6, <1>7, <2>1, <2>2 DEF Sound, EndsOK
<1>10. CreatedOK(x, w)
  BY <1>3, <1>4, <1>6, <1>7, ProcOfIs DEF Sound, CreatedOK
<1>11. WaitsOK(x, w)
  <2>1. \A r \in Procs : m.procs[r].state = "alive" => x.procs[r].state = "alive"
    BY <1>3, <1>4
  <2> QED
    BY <1>4, <1>5, <1>7, <2>1 DEF Sound, WaitsOK
<1>12. JoinsOK(x)
  BY <1>3, <1>4, JoinsKept DEF Sound
<1>13. AtWork(x)
  BY <1>4, <1>5 DEF AtWork
<1> QED
  BY <1>1, <1>2, <1>4, <1>8, <1>9, <1>10, <1>11, <1>12, <1>13 DEF Sound

\* AuProcessClean of a process that can be reaped: threads, waiters, the table.
LEMMA ReapKeeps ==
    ASSUME NEW m, NEW w, Sound(m, w), AtWork(m), NEW p \in Procs, AuProcessCanReap(m, p)
    PROVE  LET x == AuProcessClean(m, p) IN Sound(x, w) /\ AtWork(x)
<1> DEFINE c == CleanAll(m, m.procs[p].threads \o <<Main[p]>>)
           r == AuProcessWakeWaiters(c, p)
           x == [r EXCEPT !.procs[p].state = "reaped"]
<1>1. /\ Sound(c, w) /\ AtWork(c) /\ c.procs = m.procs
      /\ \A t \in ThreadsOf(m, p) : ~Linked(c, t) /\ c.joins[t] = <<>>
  BY CleanKeeps
<1>2. AuProcessClean(m, p) = x
  BY DEF AuProcessClean
<1> HIDE DEF c
<1>3. Sound(r, w) /\ AtWork(r)
  BY <1>1, WakeWaitersKeeps
<1>4. c \in Sys
  BY <1>1 DEF Sound
<1>5. /\ r.joins = c.joins /\ WokenIs(c.k, r.k, WaitsFor(c, p))
      /\ r.procs[p].state = c.procs[p].state /\ r.procs[p].threads = c.procs[p].threads
  BY <1>4, WakeWaitersIs
<1> HIDE DEF r
<1>6. r.procs[p].state = "died" /\ ThreadsOf(r, p) = ThreadsOf(m, p)
  BY <1>1, <1>5 DEF AuProcessCanReap, ThreadsOf
<1>7. \A t : Linked(r, t) => Linked(c, t)
  BY <1>5, LinkedCases, ListNames DEF WokenIs, On
<1>8. \A t \in ThreadsOf(r, p) : ~Linked(r, t) /\ r.joins[t] = <<>>
  BY <1>1, <1>5, <1>6, <1>7
<1>9. Sound(x, w) /\ AtWork(x)
  BY <1>3, <1>6, <1>8, BuryKeeps
<1> HIDE DEF x
<1> QED
  BY <1>2, <1>9

\* A pass over the process table.
LEMMA ReapOneIn ==
    ASSUME NEW m \in Sys, NEW p \in Procs
    PROVE  ReapOne(m, p) \in Sys
<1> DEFINE s == m.procs[p].threads \o <<Main[p]>>
           a == AuProcessWakeWaiters(CleanAll(m, s), p)
           d == [a.procs EXCEPT ![p] = [a.procs[p] EXCEPT !.state = "reaped"]]
           x == [a EXCEPT !.procs = d]
<1>1. m.procs[p].threads \in Seq(Threads)
  BY ProcParts
<1>2. s \in Seq(Threads)
  BY <1>1, ProcOfIs
<1> HIDE DEF s
<1>3. a \in Sys
  <2>1. CleanAll(m, s) \in Sys
    BY <1>2, CleanAllIs
  <2> QED
    BY <2>1, WakeWaitersIs
<1>4. AuProcessClean(m, p) = [a EXCEPT !.procs[p].state = "reaped"]
  BY DEF AuProcessClean, a, s
<1> HIDE DEF a
<1>5. a.procs \in [Procs -> PRec]
  BY <1>3, SysParts
<1>6. AuProcessClean(m, p) = x
  BY <1>3, <1>4, <1>5 DEF Sys, PRec
<1>7. d \in [Procs -> PRec]
  BY <1>5 DEF PRec
<1> HIDE DEF d
<1>8. x \in Sys
  BY <1>3, <1>7 DEF Sys
<1> QED
  BY <1>6, <1>8 DEF ReapOne

\* A loop that reaps processes, pass by pass.
LEMMA ReapRuns ==
    ASSUME NEW m \in Sys, NEW s \in Seq(Procs)
    PROVE  \E g \in [0 .. Len(s) -> Sys] :
              /\ g[0] = m /\ g[Len(s)] = ReapAll(m, s)
              /\ \A i \in 1 .. Len(s) : g[i] = ReapOne(g[i - 1], s[i])
<1> DEFINE n == Len(s)
           F == [r \in Sys |-> [i \in 1 .. n |-> ReapOne(r, s[i])]]
           P(f) == f = [i \in 0 .. n |-> IF i = 0 THEN m ELSE ReapOne(f[i - 1], s[i])]
           h == CHOOSE f : P(f)
<1>1. n \in Nat /\ \A i \in 1 .. n : s[i] \in Procs
  BY UptoIs
<1>2. ASSUME NEW r \in Sys, NEW i \in 1 .. n PROVE ReapOne(r, s[i]) \in Sys
  BY <1>1, ReapOneIn
<1>3. F \in Passes(Sys, n) /\ \A r \in Sys, i \in 1 .. n : F[r][i] = ReapOne(r, s[i])
  BY <1>2 DEF Passes
<1> HIDE DEF F, n, h
<1>4. PICK g : IsRun(Sys, n, F, m, g)
  BY <1>1, <1>3, LoopExists
<1>5. /\ g \in [0 .. n -> Sys] /\ g[0] = m
      /\ \A i \in 1 .. n : g[i - 1] \in Sys /\ g[i] = ReapOne(g[i - 1], s[i])
  <2>1. g \in [0 .. n -> Sys] /\ g[0] = m /\ \A i \in 1 .. n : g[i] = F[g[i - 1]][i]
    BY <1>4 DEF IsRun
  <2>2. \A i \in 1 .. n : g[i - 1] \in Sys
    BY <1>1, <2>1
  <2> QED
    BY <1>3, <2>1, <2>2
<1>6. P(g)
  BY <1>1, <1>5
<1>7. P(h)
  <2> HIDE DEF P
  <2> QED
    BY <1>6, Zenon DEF h
<1>8. h[0] = m /\ \A i \in 1 .. n : h[i] = ReapOne(h[i - 1], s[i])
  <2>1. 0 \in 0 .. n /\ \A i \in 1 .. n : i \in 0 .. n /\ i # 0
    BY <1>1
  <2> QED
    BY <1>7, <2>1
<1>9. \A i \in 1 .. n : h[i - 1] \in Sys => h[i] = F[h[i - 1]][i]
  BY <1>3, <1>8
<1>10. \A i \in 0 .. n : h[i] = g[i]
  <2> HIDE DEF P
  <2> QED
    BY <1>1, <1>3, <1>4, <1>8, <1>9, LoopIs
<1>11. ReapAll(m, s) = h[n]
  BY DEF ReapAll, Each, h, n
<1>12. g[n] = ReapAll(m, s)
  BY <1>1, <1>10, <1>11
<1> QED
  BY <1>5, <1>12 DEF n

\* Whatever the order of the table, reaping keeps the invariant.
LEMMA ReapAllKeeps ==
    ASSUME NEW m, NEW w, Sound(m, w), AtWork(m), NEW s \in Seq(Procs)
    PROVE  Sound(ReapAll(m, s), w) /\ AtWork(ReapAll(m, s))
<1> DEFINE n == Len(s)
<1>1. n \in Nat /\ \A i \in 1 .. n : s[i] \in Procs
  BY UptoIs
<1>2. PICK g \in [0 .. n -> Sys] :
         /\ g[0] = m /\ g[n] = ReapAll(m, s)
         /\ \A i \in 1 .. n : g[i] = ReapOne(g[i - 1], s[i])
  BY ReapRuns DEF Sound
<1> DEFINE X == {i \in 0 .. n : Sound(g[i], w) /\ AtWork(g[i])}
<1> HIDE DEF n
<1>3. 0 \in X
  BY <1>1, <1>2
<1>4. ASSUME NEW i \in 1 .. n, i - 1 \in X PROVE i \in X
  <2>1. Sound(g[i - 1], w) /\ AtWork(g[i - 1]) /\ g[i] = ReapOne(g[i - 1], s[i])
    BY <1>2, <1>4
  <2>2. Sound(g[i], w) /\ AtWork(g[i])
    <3>1. CASE AuProcessCanReap(g[i - 1], s[i])
      <4>1. g[i] = AuProcessClean(g[i - 1], s[i])
        BY <2>1, <3>1 DEF ReapOne
      <4> QED
        BY <1>1, <2>1, <3>1, <4>1, ReapKeeps
    <3>2. CASE ~AuProcessCanReap(g[i - 1], s[i])
      <4>1. g[i] = g[i - 1]
        BY <2>1, <3>2 DEF ReapOne
      <4> QED
        BY <2>1, <4>1
    <3> QED
      BY <3>1, <3>2
  <2> QED
    BY <1>1, <2>2
<1>5. X = 0 .. n
  <2>1. X \in SUBSET (0 .. n)
    OBVIOUS
  <2> HIDE DEF X
  <2> QED
    BY <1>1, <1>3, <1>4, <2>1, LoopInduction
<1>6. n \in X
  BY <1>1, <1>5
<1> QED
  BY <1>2, <1>6

\* The root process is not ended, and need not be busy.
LEMMA IdleRootKeeps ==
    ASSUME NEW m, NEW w, Sound(m, w), AtWork(m)
    PROVE  LET x == [m EXCEPT !.procs[root].busy = FALSE] IN
           Sound(x, w) /\ AtWork(x) /\ x.k = m.k /\ x.joins = m.joins
<1> DEFINE d == [m.procs EXCEPT ![root] = [m.procs[root] EXCEPT !.busy = FALSE]]
           x == [m EXCEPT !.procs = d]
<1>1. m \in Sys /\ m.procs \in [Procs -> PRec] /\ root \in Procs
  BY SysParts, ProcConstants DEF Sound
<1>2. [m EXCEPT !.procs[root].busy = FALSE] = x
  BY <1>1 DEF Sys, PRec
<1>3. /\ d \in [Procs -> PRec]
      /\ \A r \in Procs : /\ d[r].state = m.procs[r].state /\ d[r].threads = m.procs[r].threads
                          /\ d[r].waiting = m.procs[r].waiting
                          /\ d[r].waitlist = m.procs[r].waitlist
                          /\ r # root => d[r].busy = m.procs[r].busy
  BY <1>1 DEF PRec
<1> HIDE DEF d
<1>4. x \in Sys /\ x.k = m.k /\ x.joins = m.joins /\ x.procs = d
  BY <1>1, <1>3 DEF Sys
<1> HIDE DEF x
<1>5. \A l : On(x, l) = On(m, l)
  BY <1>4 DEF On
<1>6. \A t : Linked(x, t) <=> Linked(m, t)
  BY <1>5 DEF Linked
<1>7. \A r \in Procs : ThreadsOf(x, r) = ThreadsOf(m, r) /\ WaitsFor(x, r) = WaitsFor(m, r)
  BY <1>3, <1>4 DEF ThreadsOf, WaitsFor
<1>8. ListsOK(x)
  BY <1>4, <1>5 DEF Sound, ListsOK
<1>9. EndsOK(x, w)
  BY <1>3, <1>4, <1>5, <1>6, <1>7 DEF Sound, EndsOK
<1>10. CreatedOK(x, w)
  BY <1>3, <1>4, <1>6, <1>7, ProcOfIs DEF Sound, CreatedOK
<1>11. WaitsOK(x, w)
  BY <1>3, <1>4, <1>5, <1>7 DEF Sound, WaitsOK
<1>12. JoinsOK(x)
  <2>1. \A r \in Procs : Joined(x, r) = Joined(m, r)
    BY <1>4, JoinedSame
  <2>2. \A u \in Threads : Len(x.joins[u]) <= MaxWaits
    BY <1>4 DEF Sound, JoinsOK
  <2>3. \A u \in Threads : \A v \in Elems(x.joins[u]) :
           u \in Subs /\ v = Main[SubOf[u]] /\ u \in Elems(x.procs[SubOf[u]].threads)
    <3>1. \A u \in Threads : \A v \in Elems(m.joins[u]) :
             u \in Subs /\ v = Main[SubOf[u]] /\ u \in Elems(m.procs[SubOf[u]].threads)
      BY DEF Sound, JoinsOK
    <3>2. \A u \in Subs : SubOf[u] \in Procs
      BY ProcOfIs
    <3> QED
      BY <1>3, <1>4, <3>1, <3>2
  <2>4. \A r \in Procs : x.procs[r].state = "alive" =>
           /\ x.procs[r].waiting = Cardinality(Joined(x, r))
           /\ r # root /\ Joined(x, r) # {} => x.procs[r].busy
    BY <1>3, <1>4, <2>1 DEF Sound, JoinsOK
  <2> QED
    BY <2>2, <2>3, <2>4 DEF JoinsOK
<1>13. AtWork(x)
  BY <1>4, <1>5 DEF AtWork
<1> QED
  BY <1>2, <1>4, <1>8, <1>9, <1>10, <1>11, <1>12, <1>13 DEF Sound

\* ProcessWaitForTermination(-1).
LEMMA ReapStep ==
    ASSUME IInv, NEW t \in Threads, ReapAny(t)
    PROVE  IInv'
<1>1. PICK order \in [1 .. Cardinality(Procs) -> Procs] :
         LET m == ReapAll(Now, order) IN
         /\ k' = m.k /\ joins' = m.joins
         /\ procs' = [m.procs EXCEPT ![root].busy = FALSE]
  BY DEF ReapAny
<1> DEFINE m == ReapAll(Now, order)
           x == [m EXCEPT !.procs[root].busy = FALSE]
<1>2. order \in Seq(Procs)
  <2>1. Cardinality(Procs) \in Nat
    BY FS_CardinalityType, ProcConstants
  <2> QED
    BY <2>1
<1>3. Sound(m, at) /\ AtWork(m)
  BY <1>2, ReapAllKeeps DEF IInv
<1>4. k' = m.k /\ joins' = m.joins /\ procs' = [m.procs EXCEPT ![root].busy = FALSE]
  BY <1>1
<1> HIDE DEF m
<1>5. Sound(x, at) /\ AtWork(x)
  BY <1>3, IdleRootKeeps
<1>6. Now' = x
  <2>1. m \in Sys
    BY <1>3 DEF Sound
  <2> DEFINE d == [m.procs EXCEPT ![root].busy = FALSE]
  <2>2. procs' = d
    BY <1>4
  <2>3. x = [m EXCEPT !.procs = d]
    OBVIOUS
  <2> HIDE DEF d, x
  <2>4. x = [k |-> m.k, procs |-> d, joins |-> m.joins]
    BY <2>1, <2>3 DEF Sys
  <2>5. Now' = [k |-> k', procs |-> procs', joins |-> joins']
    BY DEF Now
  <2> QED
    BY <1>4, <2>2, <2>4, <2>5
<1> HIDE DEF x
<1>7. at' = at
  BY DEF ReapAny
<1>8. Sound(Now', at') /\ AtWork(Now')
  BY <1>5, <1>6, <1>7
<1> QED
  BY <1>8, PrimedIs

-----------------------------------------------------------------------------
(* The theorems *)

\* All threads are in user code, and the main ones are ready.
LEMMA InitHolds == Init => IInv
<1> SUFFICES ASSUME Init PROVE IInv
  OBVIOUS
<1>1. PICK order \in [1 .. Cardinality(Procs) -> Procs] :
         /\ Elems(order) = Procs
         /\ k = InitialK([i \in DOMAIN order |-> Main[order[i]]])
  BY DEF Init
<1> DEFINE s == [i \in DOMAIN order |-> Main[order[i]]]
           r == <<Idle>> \o s
           M == {Main[p] : p \in Procs}
<1>2. /\ procs = [p \in Procs |-> Slot] /\ joins = [t \in Threads |-> <<>>]
      /\ at = [t \in All |-> User]
  BY DEF Init
<1>3. s \in Seq(All) /\ Elems(s) = M
  <2>1. Cardinality(Procs) \in Nat
    BY FS_CardinalityType, ProcConstants
  <2>2. DOMAIN order = 1 .. Cardinality(Procs) /\ \A p \in Procs : Main[p] \in All
    BY ProcOfIs, IdleApart
  <2>3. s \in [1 .. Cardinality(Procs) -> All]
    BY <2>2
  <2>4. s \in Seq(All)
    BY <2>1, <2>3
  <2>5. Elems(s) = M
    BY <1>1 DEF Elems
  <2> QED
    BY <2>4, <2>5
<1>4. r \in Seq(All) /\ Elems(r) = {Idle} \cup M
  <2>1. <<Idle>> \in Seq(All) /\ Elems(<<Idle>>) = {Idle}
    <3>1. Len(<<Idle>>) = 1 /\ <<Idle>>[1] = Idle /\ DOMAIN <<Idle>> = {1}
      OBVIOUS
    <3> QED
      BY <3>1, IdleApart DEF Elems
  <2> DEFINE a == <<Idle>>
  <2> HIDE DEF a, s, M
  <2>2. a \o s \in Seq(All) /\ Elems(a \o s) = Elems(a) \cup Elems(s)
    BY <1>3, <2>1, ConcatIs DEF a
  <2> QED
    BY <1>3, <2>1, <2>2 DEF a
<1>5. k = InitialK(s)
  BY <1>1
<1> HIDE DEF s
<1> DEFINE l == [i \in Lists |-> IF i = "ready" THEN r ELSE <<>>]
<1>6. l \in [Lists -> Seq(All)] /\ l["ready"] = r /\ \A i \in Lists \ {"ready"} : l[i] = <<>>
  <2>1. <<>> \in Seq(All)
    BY EmptySeq
  <2> QED
    BY <1>4, <2>1, ListNames
<1>7. k = [list |-> l, state |-> [t \in All |-> "READY"], cur |-> Idle,
           frame |-> [t \in All |-> "entry"], polling |-> [t \in All |-> FALSE],
           until |-> [t \in All |-> 0], edf |-> [t \in All |-> NoEdf], util |-> 0,
           wild |-> FALSE]
  BY <1>5 DEF InitialK
<1> HIDE DEF l, r
<1>8. k \in KRec /\ k.list = l /\ k.cur = Idle /\ \A t \in All : k.state[t] = "READY"
  BY <1>6, <1>7, IdleApart DEF KRec, States
<1>9. \A p \in Procs : /\ procs[p].state = "alive" /\ procs[p].threads = <<>>
                       /\ procs[p].waiting = 0 /\ procs[p].waitlist = <<>>
  BY <1>2 DEF Slot
<1>10. procs \in [Procs -> PRec] /\ joins \in [Threads -> Seq(Threads)]
  <2>1. <<>> \in Seq(Threads)
    BY EmptySeq
  <2>2. Slot \in PRec
    BY <2>1 DEF Slot, PRec
  <2> QED
    BY <1>2, <2>1, <2>2
<1> DEFINE m == Now
<1>11. m.k = k /\ m.procs = procs /\ m.joins = joins
  BY DEF Now
<1>12. m \in Sys
  BY <1>8, <1>10 DEF Sys, Now
<1> HIDE DEF m
<1>13. at \in [All -> Whereabouts] /\ \A t \in All : at[t] = User
  BY <1>2 DEF Whereabouts
<1>14. Elems(<<>>) = {}
  BY DEF Elems
<1>15. On(m, "ready") = {Idle} \cup M /\ \A i \in Lists \ {"ready"} : On(m, i) = {}
  BY <1>4, <1>6, <1>8, <1>11, <1>14 DEF On
<1>16. \A p \in Procs : WaitsFor(m, p) = {} /\ Elems(m.procs[p].threads) = {}
  BY <1>9, <1>11, <1>14 DEF WaitsFor
<1>17. \A t \in Threads : m.joins[t] = <<>>
  BY <1>2, <1>11
<1>18. \A u \in Subs : u \in All /\ u \in Threads /\ u \notin M /\ u # Idle
  BY ProcOfIs, IdleApart
<1> HIDE DEF M
<1>19. ListsOK(m)
  BY <1>8, <1>11, <1>15, IdleApart, ListNames, SysParts, <1>12 DEF ListsOK, Active
<1>20. EndsOK(m, at)
  BY <1>8, <1>9, <1>11, <1>12, <1>13, <1>15, SysParts, ListNames DEF EndsOK, User, Over
<1>21. CreatedOK(m, at)
  <2>1. \A u \in Subs : ~Linked(m, u)
    BY <1>15, <1>18, LinkedCases, ListNames
  <2> QED
    BY <1>8, <1>11, <1>13, <1>16, <1>18, <2>1 DEF CreatedOK, Active
<1>22. WaitsOK(m, at)
  <2>1. \A p : User # <<"wait", p>>
    BY DEF User
  <2> QED
    BY <1>8, <1>11, <1>13, <1>16, <1>18, <2>1, IdleApart DEF WaitsOK
<1>23. JoinsOK(m)
  <2>1. Len(<<>>) = 0 /\ 0 <= MaxWaits /\ DOMAIN <<>> = {}
    BY ProcConstants, EmptySeq
  <2>2. ASSUME NEW p \in Procs PROVE Joined(m, p) = {}
    BY <1>17, <1>18, <2>1 DEF Joined
  <2> QED
    BY <1>9, <1>11, <1>14, <1>17, <2>1, <2>2, FS_EmptySet DEF JoinsOK
<1>24. AtWork(m)
  BY <1>8, <1>11, <1>15, IdleApart DEF AtWork, Active
<1> QED
  BY <1>12, <1>13, <1>19, <1>20, <1>21, <1>22, <1>23, <1>24 DEF IInv, Sound, m

\* Every step keeps the invariant.
LEMMA StepHolds == IInv /\ Undisturbed /\ [Next]_vars => IInv'
<1> SUFFICES ASSUME IInv, Undisturbed, [Next]_vars PROVE IInv'
  OBVIOUS
<1>1. CASE UNCHANGED vars
  <2>1. Now' = Now /\ at' = at
    BY <1>1 DEF vars, Now
  <2>2. Sound(Now', at') /\ AtWork(Now')
    BY <2>1 DEF IInv
  <2> QED
    BY <2>2, PrimedIs
<1>2. CASE Tick
  BY <1>2, TickStep
<1>3. ASSUME NEW t \in Threads, NEW u \in Subs, AuCreateUserthread(t, u) PROVE IInv'
  BY <1>3, CreateStep
<1>4. ASSUME NEW t \in Threads, NEW u \in Subs, AuThreadWaitForTermination(t, u) PROVE IInv'
  BY <1>4, JoinStep
<1>5. ASSUME NEW t \in Threads, NEW p \in Procs, AuProcessWaitForTermination(t, p) PROVE IInv'
  BY <1>5, WaitStep
<1>6. ASSUME NEW t \in Threads, ReapAny(t) PROVE IInv'
  BY <1>6, ReapStep
<1>7. ASSUME NEW t \in Threads, ProcessExit(t) PROVE IInv'
  BY <1>7, ExitStep
<1>8. ASSUME NEW t \in Threads, Fault(t) PROVE IInv'
  BY <1>8, FaultStep
<1>9. ASSUME NEW t \in Threads, AuAllocSignal(t) PROVE IInv'
  BY <1>9, SignalStep
<1>10. ASSUME NEW t \in Subs, ExitSubThread(t) PROVE IInv'
  BY <1>10, ExitSubStep
<1> QED
  BY <1>1, <1>2, <1>3, <1>4, <1>5, <1>6, <1>7, <1>8, <1>9, <1>10 DEF Next

\* The inductive invariant holds as long as no waiting sub thread is signalled.
LEMMA InductiveInvariant == Spec /\ []Undisturbed => []IInv
<1>1. Init => IInv
  BY InitHolds
<1>2. IInv /\ Undisturbed /\ [Next]_vars => IInv'
  BY StepHolds
<1> QED
  BY <1>1, <1>2, PTL DEF Spec

\* The scheduler's lists hold threads, each at most once, and the process table
\* and the waitlists have their types, through every exit and reaping.
THEOREM TypesHold == Spec /\ []Undisturbed => []ProcTypeOK
<1>1. IInv => ProcTypeOK
  <2> SUFFICES ASSUME IInv PROVE ProcTypeOK
    OBVIOUS
  <2>1. Now \in Sys /\ Now.k = k /\ Now.procs = procs /\ Now.joins = joins
    BY DEF IInv, Sound, Now
  <2>2. \A l : On(Now, l) = Elems(k.list[l])
    BY <2>1 DEF On
  <2>3. /\ \A l \in Lists : Elems(k.list[l]) \subseteq All
        /\ k.state \in [All -> States] /\ k.cur \in All
    BY <2>1, <2>2, SysParts
  <2>4. \A l, m \in Lists : l # m => Elems(k.list[l]) \cap Elems(k.list[m]) = {}
    BY <2>2 DEF IInv, Sound, ListsOK
  <2>5. ASSUME NEW p \in Procs
        PROVE  /\ procs[p].state \in {"alive", "died", "reaped"}
               /\ Elems(procs[p].threads) \subseteq {u \in Subs : SubOf[u] = p}
               /\ procs[p].busy \in BOOLEAN /\ procs[p].waiting \in Nat
    BY <2>1, ProcParts DEF IInv, Sound, CreatedOK
  <2>6. \A t \in Threads : Len(joins[t]) <= MaxWaits
    BY <2>1 DEF IInv, Sound, JoinsOK
  <2>7. \A t \in All : at[t] \in Whereabouts
    BY DEF IInv, Sound
  <2> QED
    BY <2>3, <2>4, <2>5, <2>6, <2>7 DEF ProcTypeOK, States, Whereabouts
<1> QED
  BY <1>1, InductiveInvariant, PTL

\* AuProcessExit wakes everybody on the waitlist of the process, and
\* ProcessWaitForTermination refuses a process that has ended: nobody is left
\* blocked for one that is not alive.
THEOREM WaitersAreWoken == Spec /\ []Undisturbed => []WaitersWoken
<1>1. IInv => WaitersWoken
  BY DEF IInv, Sound, WaitsOK, WaitersWoken, Now
<1> QED
  BY <1>1, InductiveInvariant, PTL

\* AuProcessExit marks the process as died when each of its threads is stopped.
THEOREM DeathComesLast == Spec /\ []Undisturbed => []DeathIsComplete
<1>1. IInv => DeathIsComplete
  BY DEF IInv, Sound, EndsOK, ThreadsOf, DeathIsComplete, Now
<1> QED
  BY <1>1, InductiveInvariant, PTL

\* AuProcessClean frees the threads of a process when no list and no waitlist of
\* a thread has them.
THEOREM ReapedAreUnlinked == Spec /\ []Undisturbed => []ReapedUnlinked
<1>1. IInv => ReapedUnlinked
  <2> SUFFICES ASSUME IInv, NEW t \in Threads, procs[ProcOf(t)].state = "reaped"
               PROVE  /\ k.cur # t
                      /\ \A l \in Lists : ~OnList(k, l, t)
                      /\ \A u \in Threads : t \notin Elems(joins[u])
    BY DEF ReapedUnlinked
  <2>1. /\ Sound(Now, at) /\ AtWork(Now) /\ Now.k = k /\ Now.procs = procs
        /\ Now.joins = joins
    BY DEF IInv, Now
  <2>2. ~Linked(Now, t)
    <3>1. ASSUME Linked(Now, t) PROVE t \in ThreadsOf(Now, ProcOf(t)) /\ ProcOf(t) \in Procs
      BY <2>1, <3>1, LinkedIs, ProcOfIs
    <3> QED
      BY <2>1, <3>1 DEF Sound, EndsOK
  <2>3. k.cur # t
    BY <2>1, <2>2, CurIs
  <2>4. \A l \in Lists : ~OnList(k, l, t)
    BY <2>1, <2>2, OnListIs DEF Linked, On
  <2>5. ASSUME NEW u \in Threads, t \in Elems(joins[u]) PROVE FALSE
    <3>1. u \in Subs /\ t = Main[SubOf[u]] /\ u \in Elems(procs[SubOf[u]].threads)
      BY <2>1, <2>5 DEF Sound, JoinsOK
    <3>2. SubOf[u] \in Procs /\ ProcOf(t) = SubOf[u]
      BY <3>1, ProcOfIs
    <3>3. u \in ThreadsOf(Now, SubOf[u])
      BY <2>1, <3>1 DEF ThreadsOf
    <3>4. joins[u] = <<>>
      BY <2>1, <3>2, <3>3 DEF Sound, EndsOK
    <3> QED
      BY <2>5, <3>4 DEF Elems
  <2> QED
    BY <2>3, <2>4, <2>5
<1> QED
  BY <1>1, InductiveInvariant, PTL
=============================================================================
