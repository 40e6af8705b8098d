---------------------------- MODULE AuIpcProofs ----------------------------
(***************************************************************************)
(* Theorems about AuIpc, for every number of processes, threads, slots and *)
(* requests.                                                               *)
(***************************************************************************)
EXTENDS AuIpcRefines, Integers, FiniteSetTheorems, WellFoundedInduction,
        SequenceTheorems, TLAPS

\* Lowest picks the least element of a non-empty set of slots.
LEMMA LowestIsLeast ==
    ASSUME NEW S, S \subseteq Nat, S # {}
    PROVE  Lowest(S) \in S /\ \A r \in S : Lowest(S) <= r
<1> DEFINE below(x) == {y \in S : y <= x}
           T == {below(x) : x \in S}
<1>1. T \subseteq FiniteSubsetsOf(S)
  <2>1. ASSUME NEW x \in S PROVE IsFiniteSet(below(x))
    <3>1. below(x) \in SUBSET Nat /\ x \in Nat /\ \A y \in below(x) : y <= x
      OBVIOUS
    <3> QED
      BY <3>1, FS_BoundedSetOfNaturals
  <2> QED
    BY <2>1 DEF FiniteSubsetsOf
<1>2. T # {}
  OBVIOUS
<1>3. PICK b \in T : \A c \in T : ~ (<<c, b>> \in StrictSubsetOrdering(S))
  <2>1. IsWellFoundedOn(StrictSubsetOrdering(S), FiniteSubsetsOf(S))
    BY FS_StrictSubsetOrderingWellFounded
  <2> QED
    BY <1>1, <1>2, <2>1, WFMin
<1>4. PICK x \in S : b = below(x)
  OBVIOUS
<1>5. ASSUME NEW z \in S, z < x PROVE FALSE
  <2>1. below(z) \subseteq below(x) /\ x \in below(x) /\ x \notin below(z)
    <3>1. x \in Nat /\ z \in Nat /\ z <= x /\ ~ (x <= z)
      BY <1>5
    <3>2. \A y \in S : y <= z => y <= x
      BY <3>1
    <3>3. below(z) \subseteq below(x)
      BY <3>2
    <3>4. x \in below(x)
      BY <3>1
    <3>5. x \notin below(z)
      BY <3>1
    <3> QED
      BY <3>3, <3>4, <3>5
  <2>2. below(z) \in T
    OBVIOUS
  <2> QED
    BY <1>3, <1>4, <2>1, <2>2 DEF StrictSubsetOrdering
<1>6. \A y \in S : x <= y
  BY <1>5
<1> QED
  BY <1>6 DEF Lowest

\* The slots a set of processes owns are finitely many.
LEMMA OwnedFinite ==
    ASSUME NEW P, NEW S \in SUBSET OwnedBy(P)
    PROVE  IsFiniteSet(S) /\ Cardinality(S) \in Nat /\ Cardinality(S) <= Cardinality(OwnedBy(P))
<1>1. IsFiniteSet(EpSlots)
  BY IpcConstants, FS_Interval DEF EpSlots
<1>2. OwnedBy(P) \in SUBSET EpSlots
  BY DEF OwnedBy
<1>3. IsFiniteSet(OwnedBy(P))
  BY <1>1, <1>2, FS_Subset
<1> QED
  BY <1>3, FS_Subset, FS_CardinalityType

\* The state AuIpcProcessGone leaves is well-typed, whichever processes go.
LEMMA GoneEpType ==
    ASSUME TypeOK, NEW P
    PROVE  /\ GoneEp(P) \in [EpSlots -> EndpointRec]
           /\ \A i \in EpSlots : Len(GoneEp(P)[i].queue) <= EpQueue
           /\ GoneGen(P) \in Nat \ {0}
<1>1. \A S \in SUBSET OwnedBy(P) : Cardinality(S) \in Nat
  BY OwnedFinite
<1>2. GoneGen(P) \in Nat \ {0}
  BY <1>1 DEF GoneGen, TypeOK
<1>3. ASSUME NEW i \in EpSlots
      PROVE  GoneEp(P)[i] \in EndpointRec /\ Len(GoneEp(P)[i].queue) <= EpQueue
  <2>1. CASE i \in OwnedBy(P)
    <3> DEFINE g == genc + Cardinality({j \in OwnedBy(P) : Precedes(j, i)})
    <3>1. g \in Nat /\ GoneEp(P)[i] = NoEp(g)
      <4>1. Cardinality({j \in OwnedBy(P) : Precedes(j, i)}) \in Nat
        BY <1>1
      <4>2. GoneEp(P)[i] = NoEp(g)
        BY <2>1 DEF GoneEp
      <4> QED
        BY <4>1, <4>2 DEF TypeOK
    <3> HIDE DEF g
    <3>2. << >> \in Seq(CallSlots) /\ Len(<< >>) = 0
      OBVIOUS
    <3> QED
      BY <3>1, <3>2, IpcConstants DEF NoEp, EndpointRec, Acls
  <2>2. CASE i \notin OwnedBy(P)
    BY <2>2 DEF GoneEp, TypeOK
  <2> QED
    BY <2>1, <2>2
<1> QED
  BY <1>2, <1>3 DEF GoneEp

\* The record call_free leaves is a well-typed call.
LEMMA FreeCallType == FreeCall \in CallRec
  BY IpcConstants DEF FreeCall, CallRec, CallStates, EpSlots, NoReq

\* The call table AuIpcProcessGone leaves is well-typed.
LEMMA GoneCallsType ==
    ASSUME NEW C \in [CallSlots -> CallRec], NEW P
    PROVE  GoneCalls(P, C) \in [CallSlots -> CallRec]
<1>1. ASSUME NEW s \in CallSlots PROVE GoneCalls(P, C)[s] \in CallRec
  <2>1. C[s] \in CallRec
    OBVIOUS
  <2>2. [C[s] EXCEPT !.state = "ABANDONED"] \in CallRec
    BY <2>1 DEF CallRec, CallStates
  <2>3. [C[s] EXCEPT !.state = "FAILED"] \in CallRec
    BY <2>1 DEF CallRec, CallStates
  <2> DEFINE c == C[s]
  <2>4. \/ GoneCalls(P, C)[s] = [C[s] EXCEPT !.state = "ABANDONED"]
        \/ GoneCalls(P, C)[s] = FreeCall
        \/ GoneCalls(P, C)[s] = [C[s] EXCEPT !.state = "FAILED"]
        \/ GoneCalls(P, C)[s] = C[s]
    BY Zenon DEF GoneCalls
  <2> QED
    BY <2>1, <2>2, <2>3, <2>4, FreeCallType
<1> QED
  BY <1>1 DEF GoneCalls

\* So is the one it leaves of the current table.
LEMMA GoneCallType ==
    ASSUME TypeOK, NEW P
    PROVE  GoneCall(P) \in [CallSlots -> CallRec]
BY GoneCallsType DEF GoneCall, TypeOK

\* Waking threads keeps the sleep states well-typed.
LEMMA WakeType ==
    ASSUME TypeOK, NEW T
    PROVE  wake_tid(T) \in [Threads -> {"no", "call", "wait"}]
BY DEF TypeOK, wake_tid

\* The tables after ipc_prune_dead are well-typed.
LEMMA PrunedType ==
    ASSUME TypeOK
    PROVE  /\ PrunedEp \in [EpSlots -> EndpointRec]
           /\ \A i \in EpSlots : Len(PrunedEp[i].queue) <= EpQueue
           /\ PrunedCall \in [CallSlots -> CallRec]
           /\ PrunedGen \in Nat \ {0}
BY GoneEpType, GoneCallType DEF PrunedEp, PrunedCall, PrunedGen

\* A step that does no more than ipc_prune_dead keeps the type invariant.
LEMMA OnlyPruneType ==
    ASSUME TypeOK, OnlyPrune PROVE TypeOK'
BY PrunedType, WakeType DEF OnlyPrune, TypeOK

\* The slots create and call search are least free slots.
LEMMA FreeSlots ==
    /\ \A E : EpFree(E) # {} => Lowest(EpFree(E)) \in EpFree(E)
    /\ \A C : CallFree(C) # {} => Lowest(CallFree(C)) \in CallFree(C)
<1>1. \A E : EpFree(E) \subseteq Nat
  BY IpcConstants DEF EpFree, EpSlots
<1>2. \A C : CallFree(C) \subseteq Nat
  BY IpcConstants DEF CallFree, CallSlots
<1> QED
  BY <1>1, <1>2, LowestIsLeast

\* CREATE keeps the type invariant.
LEMMA CreateType ==
    ASSUME TypeOK, NEW t \in Threads, NEW name \in Names, NEW acl \in Acls,
           do_create(t, name, acl)
    PROVE  TypeOK'
<1>1. CASE OnlyPrune
  BY <1>1, OnlyPruneType
<1>2. CASE ~OnlyPrune
  <2> DEFINE i == Lowest(EpFree(PrunedEp))
             g == IF PrunedEp[i].gen # 0 THEN PrunedEp[i].gen ELSE PrunedGen
             r == [used |-> TRUE, gen |-> g, name |-> name, owner |-> ProcOf[t],
                   acl |-> acl, waiter |-> None, queue |-> <<>>]
  <2>1. CanCreate(name) /\ ep' = [PrunedEp EXCEPT ![i] = r]
    BY <1>2 DEF do_create
  <2>2. i \in EpSlots
    BY <2>1, FreeSlots DEF CanCreate, EpFree
  <2>3. g \in Nat
    BY <2>2, PrunedType DEF EndpointRec
  <2>4. << >> \in Seq(CallSlots) /\ Len(<< >>) = 0
    OBVIOUS
  <2>5. r \in EndpointRec /\ Len(r.queue) <= EpQueue
    BY <2>3, <2>4, IpcConstants DEF EndpointRec
  <2>6. /\ ep' \in [EpSlots -> EndpointRec]
        /\ \A k \in EpSlots : Len(ep'[k].queue) <= EpQueue
    <3> HIDE DEF i, r
    <3> QED
      BY <2>1, <2>2, <2>5, PrunedType
  <2>7. genc' \in Nat \ {0}
    BY <1>2, PrunedType DEF do_create
  <2>8. call' \in [CallSlots -> CallRec] /\ sleep' \in [Threads -> {"no", "call", "wait"}]
    BY <1>2, PrunedType, WakeType DEF do_create
  <2>9. UNCHANGED <<pstate, pend, cnt, rcvd>>
    BY <1>2 DEF do_create
  <2> QED
    BY <2>6, <2>7, <2>8, <2>9 DEF TypeOK
<1> QED
  BY <1>1, <1>2

\* DESTROY keeps the type invariant.
LEMMA DestroyType ==
    ASSUME TypeOK, NEW t \in Threads, NEW h \in Handles, do_destroy(t, h)
    PROVE  TypeOK'
BY GoneEpType, GoneCallType, WakeType DEF do_destroy, AuIpcProcessGone, TypeOK

\* The record of a new call is well-typed.
LEMMA QueuedCallType ==
    ASSUME TypeOK, NEW t \in Threads, cnt[t] < MaxReq, NEW i \in EpSlots, NEW gen \in Nat
    PROVE  QueuedCall(t, i, gen) \in CallRec
<1>1. <<t, cnt[t] + 1>> \in Reqs
  BY IpcConstants DEF TypeOK, Reqs
<1>2. PrunedEp[i] \in EndpointRec
  BY PrunedType
<1> QED
  BY <1>1, <1>2, IpcConstants DEF QueuedCall, CallRec, CallStates, EndpointRec, NoReq

\* An endpoint with room takes one more call, and the tables stay well-typed.
LEMMA EnqueueType ==
    ASSUME NEW E \in [EpSlots -> EndpointRec], \A k \in EpSlots : Len(E[k].queue) <= EpQueue,
           NEW i \in EpSlots, Len(E[i].queue) < EpQueue, NEW s \in CallSlots
    PROVE  LET F == [E EXCEPT ![i].queue = Append(@, s), ![i].waiter = None]
           IN  /\ F \in [EpSlots -> EndpointRec]
               /\ \A k \in EpSlots : Len(F[k].queue) <= EpQueue
<1> DEFINE e == [E[i] EXCEPT !.queue = Append(@, s), !.waiter = None]
<1>1. E[i] \in EndpointRec
  OBVIOUS
<1>2. /\ Append(E[i].queue, s) \in Seq(CallSlots)
      /\ Len(Append(E[i].queue, s)) <= EpQueue
  <2>1. E[i].queue \in Seq(CallSlots) /\ Len(E[i].queue) < EpQueue
    BY <1>1 DEF EndpointRec
  <2> QED
    BY <2>1, AppendProperties, LenProperties, IpcConstants
<1>3. e \in EndpointRec /\ Len(e.queue) <= EpQueue
  BY <1>1, <1>2 DEF EndpointRec
<1>4. [E EXCEPT ![i].queue = Append(@, s), ![i].waiter = None] = [E EXCEPT ![i] = e]
  OBVIOUS
<1> HIDE DEF e
<1> QED
  BY <1>3, <1>4

\* CALL keeps the type invariant: a call is queued only while there is room.
LEMMA CallType ==
    ASSUME TypeOK, NEW t \in Threads, NEW h \in Handles, do_call(t, h)
    PROVE  TypeOK'
<1>1. CASE OnlyPrune
  BY <1>1, OnlyPruneType
<1>2. CASE ~OnlyPrune
  <2> DEFINE s == Lowest(CallFree(PrunedCall))
             i == h[2]
             c == QueuedCall(t, i, PrunedCall[s].gen + 1)
  <2>1. Admitted(t, h) /\ cnt[t] < MaxReq
    BY <1>2 DEF do_call
  <2>2. /\ ep' = [PrunedEp EXCEPT ![i].queue = Append(@, s), ![i].waiter = None]
        /\ call' = [PrunedCall EXCEPT ![s] = c]
        /\ genc' = PrunedGen
        /\ cnt' = [cnt EXCEPT ![t] = @ + 1]
        /\ pend' = [pend EXCEPT ![t] = make_id(PrunedCall[s].gen + 1, s)]
        /\ sleep' = [wake_tid(PrunedWoken \cup {PrunedEp[i].waiter}) EXCEPT ![t] = "call"]
        /\ UNCHANGED <<pstate, rcvd>>
    BY <1>2 DEF do_call, Enqueue
  <2>3. i \in EpSlots /\ s \in CallSlots
    BY <2>1, FreeSlots DEF Admitted, CallFree, ep_from_handle
  <2>4. PrunedCall[s].gen + 1 \in Nat
    BY <2>3, PrunedType DEF CallRec
  <2>5. c \in CallRec
    BY <2>1, <2>3, <2>4, QueuedCallType
  <2>6. /\ ep' \in [EpSlots -> EndpointRec]
        /\ \A k \in EpSlots : Len(ep'[k].queue) <= EpQueue
    <3>1. Len(PrunedEp[i].queue) < EpQueue
      BY <2>1 DEF Admitted
    <3> HIDE DEF i, s
    <3> QED
      BY <3>1, <2>2, <2>3, EnqueueType, PrunedType
  <2>7. call' \in [CallSlots -> CallRec]
    <3> HIDE DEF s, c
    <3> QED
      BY <2>2, <2>3, <2>5, PrunedType
  <2>8. pend' \in [Threads -> {NoId} \cup (Nat \X CallSlots)]
    <3> HIDE DEF s
    <3> QED
      BY <2>2, <2>3, <2>4 DEF TypeOK, make_id
  <2>9. sleep' \in [Threads -> {"no", "call", "wait"}]
    BY <2>2, WakeType
  <2>10. cnt' \in [Threads -> 0 .. MaxReq]
    BY <2>1, <2>2, IpcConstants DEF TypeOK
  <2> QED
    BY <2>2, <2>6, <2>7, <2>8, <2>9, <2>10, PrunedType DEF TypeOK
<1> QED
  BY <1>1, <1>2

\* FETCH keeps the type invariant.
LEMMA FetchType ==
    ASSUME TypeOK, NEW t \in Threads, do_fetch(t)
    PROVE  TypeOK'
<1>1. call' \in [CallSlots -> CallRec]
  <2>1. CASE MyCall(t)
    <3> DEFINE s == pend[t][2]
    <3>1. s \in CallSlots /\ call' = [call EXCEPT ![s] = Fetched(call[s])]
      BY <2>1 DEF do_fetch, MyCall, call_from_id, TypeOK
    <3>2. call[s] \in CallRec
      BY <3>1 DEF TypeOK
    <3>3. Fetched(call[s]) \in CallRec
      BY <3>2, FreeCallType DEF Fetched, CallRec, CallStates
    <3> QED
      BY <3>1, <3>3 DEF TypeOK
  <2>2. CASE ~MyCall(t)
    BY <2>2 DEF do_fetch, TypeOK
  <2> QED
    BY <2>1, <2>2
<1> QED
  BY <1>1 DEF do_fetch, TypeOK

\* WAIT keeps the type invariant.
LEMMA WaitType ==
    ASSUME TypeOK, NEW t \in Threads, NEW h \in Handles, do_wait(t, h)
    PROVE  TypeOK'
<1>1. h[2] \in EpSlots
  BY DEF do_wait, Owns, ep_from_handle
<1> DEFINE i == h[2]
           e == [ep[i] EXCEPT !.waiter = t]
<1>2. e \in EndpointRec /\ Len(e.queue) <= EpQueue
  <2>1. ep[i] \in EndpointRec /\ Len(ep[i].queue) <= EpQueue
    BY <1>1 DEF TypeOK
  <2> QED
    BY <2>1 DEF EndpointRec
<1>3. ep' = [ep EXCEPT ![i] = e]
  BY <1>1 DEF do_wait, TypeOK
<1>4. ep' \in [EpSlots -> EndpointRec] /\ \A k \in EpSlots : Len(ep'[k].queue) <= EpQueue
  <2> HIDE DEF i, e
  <2> QED
    BY <1>1, <1>2, <1>3 DEF TypeOK, i
<1> QED
  BY <1>4 DEF do_wait, TypeOK

\* RECV's scan stops within the queue, at the first entry it does not skip.
LEMMA SkipsInQueue ==
    ASSUME NEW q \in Seq(CallSlots)
    PROVE  /\ Skips(q) \in 0 .. Len(q) /\ SkippedAll(q, Skips(q))
           /\ Skips(q) < Len(q) => ~Skipped(q, Skips(q) + 1)
<1>0. Len(q) \in Nat
  BY LenProperties
<1> DEFINE Stop == {n \in 0 .. Len(q) : n = Len(q) \/ ~Skipped(q, n + 1)}
<1>1. Stop \subseteq Nat /\ Stop # {}
  BY <1>0
<1>2. Lowest(Stop) \in Stop /\ \A r \in Stop : Lowest(Stop) <= r
  BY <1>1, LowestIsLeast
<1> DEFINE n == Lowest(Stop)
<1>3. SkippedAll(q, n)
  <2>1. ASSUME NEW k \in 1 .. n PROVE Skipped(q, k)
    <3>1. k - 1 \in 0 .. Len(q) /\ k - 1 < n /\ (k - 1) + 1 = k
      BY <1>0, <1>2
    <3>2. k - 1 \notin Stop
      BY <1>2, <3>1
    <3> QED
      BY <1>0, <1>2, <3>1, <3>2
  <2> QED
    BY <2>1 DEF SkippedAll
<1>4. \E m \in 0 .. Len(q) : SkippedAll(q, m) /\ (m < Len(q) => ~Skipped(q, m + 1))
  <2>1. n \in 0 .. Len(q) /\ (n < Len(q) => ~Skipped(q, n + 1))
    BY <1>0, <1>2
  <2> QED
    BY <1>3, <2>1
<1> QED
  BY <1>4 DEF Skips

\* What RECV reads of the queue and the calls it drops.
LEMMA RecvParts ==
    ASSUME TypeOK, NEW h \in Handles
    PROVE  /\ h[2] \in EpSlots
           /\ Scanned(h) \in [CallSlots -> CallRec]
           /\ Rest(h) \in Seq(CallSlots) /\ Len(Rest(h)) <= EpQueue
           /\ ~Drained(h) => NextSlot(h) \in CallSlots /\ Message(h) \in Received
<1> DEFINE q == Queue(h)
           n == Skips(q)
<1>1. h[2] \in EpSlots /\ h \in Nat \X EpSlots
  BY DEF Handles, TypeOK
<1>2. ep[h[2]] \in EndpointRec /\ Len(ep[h[2]].queue) <= EpQueue
  BY <1>1 DEF TypeOK
<1>3. q \in Seq(CallSlots) /\ Len(q) <= EpQueue /\ Len(q) \in Nat
  BY <1>2, LenProperties DEF EndpointRec, Queue
<1>4. n \in 0 .. Len(q)
  BY <1>3, SkipsInQueue
<1>5. Scanned(h) \in [CallSlots -> CallRec]
  BY FreeCallType DEF Scanned, AfterSkips, TypeOK
<1>6. Rest(h) \in Seq(CallSlots) /\ Len(Rest(h)) <= EpQueue
  <2>1. \A k \in n + 2 .. Len(q) : q[k] \in CallSlots
    BY <1>3, <1>4, ElementOfSeq
  <2> HIDE DEF n, q
  <2>2. /\ SubSeq(q, n + 2, Len(q)) \in Seq(CallSlots)
        /\ Len(SubSeq(q, n + 2, Len(q))) <= EpQueue
    BY <1>3, <1>4, <2>1, SubSeqProperties, IpcConstants
  <2> QED
    BY <2>2 DEF Rest, n, q
<1>7. ASSUME ~Drained(h) PROVE NextSlot(h) \in CallSlots /\ Message(h) \in Received
  <2>1. NextSlot(h) \in CallSlots
    BY <1>3, <1>4, <1>7, ElementOfSeq DEF Drained, NextSlot
  <2>2. Scanned(h)[NextSlot(h)] \in CallRec
    BY <1>5, <2>1
  <2> QED
    BY <1>1, <2>1, <2>2 DEF Message, Received, make_id, CallRec
<1> QED
  BY <1>1, <1>5, <1>6, <1>7

\* Replacing a queue, or the state of a call, keeps the tables well-typed.
LEMMA QueueUpdateType ==
    ASSUME TypeOK, NEW i \in EpSlots, NEW r \in Seq(CallSlots), Len(r) <= EpQueue,
           ep' = [ep EXCEPT ![i].queue = r]
    PROVE  /\ ep' \in [EpSlots -> EndpointRec]
           /\ \A k \in EpSlots : Len(ep'[k].queue) <= EpQueue
<1> DEFINE e == [ep[i] EXCEPT !.queue = r]
<1>1. ep[i] \in EndpointRec
  BY DEF TypeOK
<1>2. e \in EndpointRec /\ Len(e.queue) <= EpQueue
  BY <1>1 DEF EndpointRec
<1>3. ep' = [ep EXCEPT ![i] = e]
  BY DEF TypeOK
<1> HIDE DEF e
<1> QED
  BY <1>2, <1>3 DEF TypeOK

\* A call record with another state of CallStates is still a call record.
LEMMA StateUpdateType ==
    ASSUME NEW C \in [CallSlots -> CallRec], NEW s \in CallSlots, NEW v \in CallStates
    PROVE  [C EXCEPT ![s].state = v] \in [CallSlots -> CallRec]
<1>1. C[s] \in CallRec
  OBVIOUS
<1>2. [C[s] EXCEPT !.state = v] \in CallRec
  BY <1>1 DEF CallRec
<1>3. [C EXCEPT ![s].state = v] = [C EXCEPT ![s] = [C[s] EXCEPT !.state = v]]
  OBVIOUS
<1> QED
  BY <1>2, <1>3

\* RECV keeps the type invariant.
LEMMA RecvType ==
    ASSUME TypeOK, NEW t \in Threads, NEW h \in Handles, NEW fits \in BOOLEAN,
           do_recv(t, h, fits)
    PROVE  TypeOK'
<1> DEFINE Tables ==
        /\ ep' \in [EpSlots -> EndpointRec]
        /\ \A k \in EpSlots : Len(ep'[k].queue) <= EpQueue
        /\ call' \in [CallSlots -> CallRec]
        /\ sleep' \in [Threads -> {"no", "call", "wait"}]
        /\ rcvd' \in [Procs -> SUBSET Received]
<1>1. CASE RecvEmpty(h)
  <2>1. << >> \in Seq(CallSlots) /\ Len(<< >>) <= EpQueue
    BY IpcConstants
  <2>2. Tables
    BY <1>1, <2>1, RecvParts, QueueUpdateType DEF RecvEmpty, TypeOK
  <2> QED
    BY <2>2 DEF do_recv, TypeOK
<1>2. CASE RecvTooBig(h)
  <2>1. "FAILED" \in CallStates
    BY DEF CallStates
  <2>2. call' \in [CallSlots -> CallRec]
    BY <1>2, <2>1, RecvParts, StateUpdateType DEF RecvTooBig
  <2>3. Tables
    BY <1>2, <2>2, RecvParts, QueueUpdateType, WakeType DEF RecvTooBig, TypeOK
  <2> QED
    BY <2>3 DEF do_recv, TypeOK
<1>3. CASE RecvDeliver(ProcOf[t], h)
  <2>1. "SERVING" \in CallStates
    BY DEF CallStates
  <2>2. call' \in [CallSlots -> CallRec]
    BY <1>3, <2>1, RecvParts, StateUpdateType DEF RecvDeliver
  <2>3. ProcOf[t] \in Procs
    BY IpcConstants
  <2>4. rcvd' \in [Procs -> SUBSET Received]
    BY <1>3, <2>3, RecvParts DEF RecvDeliver, TypeOK
  <2>5. Tables
    BY <1>3, <2>2, <2>4, RecvParts, QueueUpdateType DEF RecvDeliver, TypeOK
  <2> QED
    BY <2>5 DEF do_recv, TypeOK
<1> QED
  BY <1>1, <1>2, <1>3 DEF do_recv

\* REPLY keeps the type invariant.
LEMMA ReplyType ==
    ASSUME TypeOK, NEW t \in Threads, NEW m \in rcvd[ProcOf[t]], do_reply(t, m)
    PROVE  TypeOK'
<1> DEFINE s == m.id[2]
<1>1. ProcOf[t] \in Procs
  BY IpcConstants
<1>2. m \in Received /\ s \in CallSlots /\ m.req \in Reqs \cup {NoReq}
  BY <1>1 DEF TypeOK, Received
<1>3. call[s] \in CallRec
  BY <1>2 DEF TypeOK
<1>4. rcvd' \in [Procs -> SUBSET Received]
  BY <1>1 DEF do_reply, TypeOK
<1>5. [call EXCEPT ![s].state = "DONE", ![s].resp = m.req] \in [CallSlots -> CallRec]
  <2> DEFINE c == [call[s] EXCEPT !.state = "DONE", !.resp = m.req]
  <2>1. c \in CallRec
    BY <1>2, <1>3 DEF CallRec, CallStates
  <2>2. [call EXCEPT ![s].state = "DONE", ![s].resp = m.req] = [call EXCEPT ![s] = c]
    BY <1>2 DEF TypeOK
  <2> HIDE DEF c, s
  <2> QED
    BY <2>1, <2>2, <1>2 DEF TypeOK
<1>6. [call EXCEPT ![s] = FreeCall] \in [CallSlots -> CallRec]
  BY FreeCallType, <1>2 DEF TypeOK
<1>7. /\ call' \in [CallSlots -> CallRec]
      /\ sleep' \in [Threads -> {"no", "call", "wait"}]
  <2>1. \/ call' = [call EXCEPT ![s].state = "DONE", ![s].resp = m.req]
        \/ call' = [call EXCEPT ![s] = FreeCall]
        \/ call' = call
    BY DEF do_reply
  <2>2. sleep' = wake_tid({call[s].tid}) \/ sleep' = sleep
    BY DEF do_reply
  <2>3. call' \in [CallSlots -> CallRec]
    BY <2>1, <1>5, <1>6 DEF TypeOK
  <2> QED
    BY <2>2, <2>3, WakeType DEF TypeOK
<1> QED
  BY <1>4, <1>7 DEF do_reply, TypeOK

\* Every step preserves the type invariant.
LEMMA TypeStep ==
    ASSUME TypeOK, [Next]_vars PROVE TypeOK'
<1>1. CASE UNCHANGED vars
  BY <1>1 DEF vars, TypeOK
<1>2. ASSUME NEW t \in Threads, ipc_ioctl(t) PROVE TypeOK'
  <2>1. ASSUME NEW name \in Names, NEW acl \in Acls, do_create(t, name, acl) PROVE TypeOK'
    BY <2>1, CreateType
  <2>2. CASE do_connect(t)
    BY <2>2, OnlyPruneType DEF do_connect
  <2>3. CASE do_fetch(t)
    BY <2>3, FetchType
  <2>4. ASSUME NEW h \in Handles, do_destroy(t, h) PROVE TypeOK'
    BY <2>4, DestroyType
  <2>5. ASSUME NEW h \in Handles, do_call(t, h) PROVE TypeOK'
    BY <2>5, CallType
  <2>6. ASSUME NEW h \in Handles, do_wait(t, h) PROVE TypeOK'
    BY <2>6, WaitType
  <2>7. ASSUME NEW h \in Handles, NEW fits \in BOOLEAN, do_recv(t, h, fits) PROVE TypeOK'
    BY <2>7, RecvType
  <2>8. ASSUME NEW m \in rcvd[ProcOf[t]], do_reply(t, m) PROVE TypeOK'
    BY <2>8, ReplyType
  <2> QED
    BY <1>2, <2>1, <2>2, <2>3, <2>4, <2>5, <2>6, <2>7, <2>8 DEF ipc_ioctl
<1>3. ASSUME NEW t \in Threads, Timeout(t) PROVE TypeOK'
  BY <1>3 DEF Timeout, TypeOK
<1>4. ASSUME NEW p \in Procs, AuProcessExit(p) PROVE TypeOK'
  BY <1>4 DEF AuProcessExit, TypeOK
<1>5. ASSUME NEW p \in Procs, AuProcessClean(p) PROVE TypeOK'
  BY <1>5, GoneEpType, GoneCallType, WakeType DEF AuProcessClean, AuIpcProcessGone, TypeOK
<1> QED
  BY <1>1, <1>2, <1>3, <1>4, <1>5 DEF Next

\* The tables are well-typed at boot.
LEMMA TypeInit == Init => TypeOK
<1> SUFFICES ASSUME Init PROVE TypeOK
  OBVIOUS
<1>1. << >> \in Seq(CallSlots) /\ Len(<< >>) <= EpQueue
  BY IpcConstants
<1>2. NoEp(0) \in EndpointRec /\ Len(NoEp(0).queue) <= EpQueue
  BY <1>1, IpcConstants DEF NoEp, EndpointRec, Acls
<1>3. ep \in [EpSlots -> EndpointRec] /\ \A i \in EpSlots : Len(ep[i].queue) <= EpQueue
  BY <1>2 DEF Init
<1> QED
  BY <1>3, FreeCallType, IpcConstants DEF Init, TypeOK

(***************************************************************************)
(* The tables stay well-typed and no endpoint's queue array is overrun.    *)
(***************************************************************************)
THEOREM TypeCorrect == Spec => []TypeOK
<1>1. Init => TypeOK
  BY TypeInit
<1>2. TypeOK /\ [Next]_vars => TypeOK'
  BY TypeStep
<1> QED
  BY <1>1, <1>2, PTL DEF Spec

-----------------------------------------------------------------------------
(***************************************************************************)
(* The safety invariants.  They are stated of a pair of tables (E, C), the *)
(* generation counter g and the process states S, so that the prune that   *)
(* precedes create, connect and call can be dealt with once.               *)
(***************************************************************************)
Sound(E, C, g, S) ==
    /\ \A i \in EpSlots : E[i].gen < g
    /\ \A i \in EpSlots : E[i].used => E[i].owner \in Procs /\ S[E[i].owner] # "reaped"
    /\ \A i, j \in EpSlots : E[i].used /\ E[j].used /\ E[i].name = E[j].name => i = j
    /\ \A i \in EpSlots : E[i].waiter # None => E[i].used /\ E[i].queue = <<>>
    /\ \A s \in CallSlots : C[s].state = "QUEUED" =>
            /\ E[C[s].ep].used /\ E[C[s].ep].gen = C[s].epgen
            /\ \E k \in 1 .. Len(E[C[s].ep].queue) : E[C[s].ep].queue[k] = s

IInv == TypeOK /\ Sound(ep, call, genc, pstate)

\* The inductive invariant implies the invariants the runs check.
LEMMA IInvImplies ==
    IInv => OwnerNotReaped /\ NamesUnique /\ NoWaiterWithRequests /\ QueuedCallsReachable
BY DEF IInv, Sound, OwnerNotReaped, NamesUnique, NoWaiterWithRequests,
       QueuedCallsReachable, EndpointLives

\* What AuIpcProcessGone leaves of the endpoints.
LEMMA GoneEpKeeps ==
    ASSUME IInv, NEW P
    PROVE  \A i \in EpSlots :
             /\ i \notin OwnedBy(P) => GoneEp(P)[i] = ep[i]
             /\ i \in OwnedBy(P) =>
                   /\ ~GoneEp(P)[i].used /\ GoneEp(P)[i].waiter = None
                   /\ GoneEp(P)[i].gen >= genc /\ GoneEp(P)[i].gen < GoneGen(P)
             /\ GoneEp(P)[i].gen < GoneGen(P)
<1>1. genc \in Nat /\ \A i \in EpSlots : ep[i].gen \in Nat /\ ep[i].gen < genc
  BY DEF IInv, Sound, TypeOK, EndpointRec
<1>2. Cardinality(OwnedBy(P)) \in Nat
  BY OwnedFinite
<1>3. ASSUME NEW i \in EpSlots, i \notin OwnedBy(P)
      PROVE  GoneEp(P)[i] = ep[i] /\ GoneEp(P)[i].gen < GoneGen(P)
  BY <1>1, <1>2, <1>3 DEF GoneEp, GoneGen
<1>4. ASSUME NEW i \in OwnedBy(P)
      PROVE  /\ ~GoneEp(P)[i].used /\ GoneEp(P)[i].waiter = None
             /\ GoneEp(P)[i].gen >= genc /\ GoneEp(P)[i].gen < GoneGen(P)
  <2> DEFINE B == {j \in OwnedBy(P) : Precedes(j, i)}
  <2>1. i \in EpSlots
    BY DEF OwnedBy
  <2>2. ~Precedes(i, i)
    BY <2>1, IpcConstants DEF Precedes, EpSlots
  <2>3. B \in SUBSET OwnedBy(P) /\ B # OwnedBy(P)
    BY <2>2
  <2>4. IsFiniteSet(OwnedBy(P)) /\ Cardinality(B) \in Nat
    BY <2>3, OwnedFinite
  <2>5. Cardinality(B) < Cardinality(OwnedBy(P))
    BY <1>2, <2>3, <2>4, FS_Subset
  <2>6. GoneEp(P)[i] = NoEp(genc + Cardinality(B))
    BY <2>1 DEF GoneEp
  <2>7. /\ GoneEp(P)[i].gen = genc + Cardinality(B)
        /\ ~GoneEp(P)[i].used /\ GoneEp(P)[i].waiter = None
    BY <2>6 DEF NoEp
  <2> HIDE DEF B
  <2> QED
    BY <1>1, <1>2, <2>4, <2>5, <2>7 DEF GoneGen
<1> QED
  BY <1>3, <1>4

\* A call still queued after a process went is untouched, and so is its endpoint.
LEMMA GoneQueued ==
    ASSUME IInv, NEW C \in [CallSlots -> CallRec], Sound(ep, C, genc, pstate), NEW P,
           NEW s \in CallSlots, GoneCalls(P, C)[s].state = "QUEUED"
    PROVE  GoneCalls(P, C)[s] = C[s] /\ C[s].state = "QUEUED" /\ C[s].ep \notin OwnedBy(P)
<1> DEFINE c == C[s]
<1>1. c \in CallRec
  OBVIOUS
<1>2. CASE c.pid \in P /\ c.state \in InFlight /\ ~Fails(P, c)
  <2>1. GoneCalls(P, C)[s] = [c EXCEPT !.state = "ABANDONED"]
    BY <1>2 DEF GoneCalls
  <2> QED
    BY <1>1, <2>1 DEF CallRec
<1>3. CASE c.pid \in P /\ ~(c.state \in InFlight /\ ~Fails(P, c))
  <2>1. GoneCalls(P, C)[s] = FreeCall
    BY <1>3 DEF GoneCalls
  <2> QED
    BY <2>1 DEF FreeCall
<1>4. CASE c.pid \notin P /\ Fails(P, c)
  <2>1. GoneCalls(P, C)[s] = [c EXCEPT !.state = "FAILED"]
    BY <1>4 DEF GoneCalls
  <2> QED
    BY <1>1, <2>1 DEF CallRec
<1>5. CASE c.pid \notin P /\ ~Fails(P, c)
  <2>1. GoneCalls(P, C)[s] = c
    BY <1>5 DEF GoneCalls
  <2>2. c.epgen = ep[c.ep].gen
    BY <2>1 DEF IInv, Sound
  <2> QED
    BY <1>5, <2>1, <2>2 DEF Fails, InFlight
<1> QED
  BY <1>2, <1>3, <1>4, <1>5

\* The invariants survive AuIpcProcessGone, whichever processes go and are
\* recorded as gone.
LEMMA GoneSound ==
    ASSUME IInv, NEW C \in [CallSlots -> CallRec], Sound(ep, C, genc, pstate), NEW P, NEW S,
           \A p \in Procs : p \notin P => (S[p] = "reaped" => pstate[p] = "reaped")
    PROVE  Sound(GoneEp(P), GoneCalls(P, C), GoneGen(P), S)
<1> DEFINE E == GoneEp(P)
<1>1. \A i \in EpSlots : E[i].used =>
          i \notin OwnedBy(P) /\ E[i] = ep[i] /\ ep[i].used /\ ep[i].owner \notin P
  BY GoneEpKeeps DEF OwnedBy
<1>2. \A i \in EpSlots : E[i].gen < GoneGen(P)
  BY GoneEpKeeps
<1>3. \A i \in EpSlots : E[i].used => E[i].owner \in Procs /\ S[E[i].owner] # "reaped"
  BY <1>1 DEF IInv, Sound
<1>4. \A i, j \in EpSlots : E[i].used /\ E[j].used /\ E[i].name = E[j].name => i = j
  BY <1>1 DEF IInv, Sound
<1>5. \A i \in EpSlots : E[i].waiter # None => E[i].used /\ E[i].queue = <<>>
  BY GoneEpKeeps DEF IInv, Sound
<1>6. ASSUME NEW s \in CallSlots, GoneCalls(P, C)[s].state = "QUEUED"
      PROVE  LET c == GoneCalls(P, C)[s] IN
             /\ E[c.ep].used /\ E[c.ep].gen = c.epgen
             /\ \E k \in 1 .. Len(E[c.ep].queue) : E[c.ep].queue[k] = s
  <2>1. GoneCalls(P, C)[s] = C[s] /\ C[s].state = "QUEUED" /\ C[s].ep \notin OwnedBy(P)
    BY <1>6, GoneQueued
  <2>2. C[s].ep \in EpSlots
    BY DEF CallRec
  <2>3. E[C[s].ep] = ep[C[s].ep]
    BY <2>1, <2>2, GoneEpKeeps
  <2> QED
    BY <2>1, <2>3 DEF IInv, Sound
<1> HIDE DEF E
<1>7. Sound(E, GoneCalls(P, C), GoneGen(P), S)
  BY <1>2, <1>3, <1>4, <1>5, <1>6 DEF Sound
<1> QED
  BY <1>7 DEF E

\* The invariants survive ipc_prune_dead.
LEMMA PruneSound ==
    ASSUME IInv PROVE Sound(PrunedEp, PrunedCall, PrunedGen, pstate)
BY GoneSound DEF PrunedEp, PrunedCall, PrunedGen, GoneCall, IInv, TypeOK

SoundNext == Sound(ep', call', genc', pstate')

\* A step that does no more than ipc_prune_dead keeps the invariants.
LEMMA OnlyPruneSound ==
    ASSUME IInv, OnlyPrune PROVE SoundNext
BY PruneSound DEF OnlyPrune, SoundNext

\* CREATE keeps the invariants: the new endpoint has a fresh generation and name.
LEMMA CreateSound ==
    ASSUME IInv, NEW t \in Threads, NEW name \in Names, NEW acl \in Acls,
           do_create(t, name, acl)
    PROVE  SoundNext
<1>1. CASE OnlyPrune
  BY <1>1, OnlyPruneSound
<1>2. CASE ~OnlyPrune
  <2> DEFINE i == Lowest(EpFree(PrunedEp))
             g == IF PrunedEp[i].gen # 0 THEN PrunedEp[i].gen ELSE PrunedGen
             r == [used |-> TRUE, gen |-> g, name |-> name, owner |-> ProcOf[t],
                   acl |-> acl, waiter |-> None, queue |-> <<>>]
  <2>1. /\ CanCreate(name) /\ ep' = [PrunedEp EXCEPT ![i] = r]
        /\ call' = PrunedCall /\ pstate' = pstate
        /\ genc' = IF PrunedEp[i].gen # 0 THEN PrunedGen ELSE PrunedGen + 1
        /\ pstate[ProcOf[t]] = "run"
    BY <1>2 DEF do_create, Idle, Running
  <2>2. i \in EpSlots /\ ~PrunedEp[i].used
    BY <2>1, FreeSlots DEF CanCreate, EpFree
  <2>3. Sound(PrunedEp, PrunedCall, PrunedGen, pstate)
    BY PruneSound
  <2>4. /\ PrunedEp \in [EpSlots -> EndpointRec] /\ PrunedGen \in Nat
        /\ PrunedCall \in [CallSlots -> CallRec]
    BY PrunedType DEF IInv
  <2>5. ProcOf[t] \in Procs
    BY IpcConstants
  <2>6. /\ ep'[i] = r /\ \A k \in EpSlots : k # i => ep'[k] = PrunedEp[k]
    BY <2>1, <2>2, <2>4
  <2>7. r.used /\ r.gen = g /\ r.name = name /\ r.owner = ProcOf[t] /\ r.waiter = None
    OBVIOUS
  <2>8. \A k \in EpSlots : PrunedEp[k].gen \in Nat
    BY <2>4 DEF EndpointRec
  <2>9. \A k \in EpSlots : ep'[k].gen < genc'
    <3>1. g < genc' /\ PrunedGen <= genc'
      BY <2>1, <2>2, <2>3, <2>4, <2>8 DEF Sound
    <3>2. genc' \in Nat
      BY <2>1, <2>4
    <3> HIDE DEF i, g, r
    <3> QED
      BY <3>1, <3>2, <2>3, <2>4, <2>6, <2>7, <2>8 DEF Sound
  <2>10. \A k \in EpSlots : ep'[k].used => ep'[k].owner \in Procs /\ pstate[ep'[k].owner] # "reaped"
    <3> HIDE DEF i, g, r
    <3> QED
      BY <2>1, <2>3, <2>5, <2>6, <2>7 DEF Sound
  <2>11. \A k \in EpSlots : PrunedEp[k].used => PrunedEp[k].name # name
    BY <2>1 DEF CanCreate, NameTaken
  <2>12. \A j, k \in EpSlots : ep'[j].used /\ ep'[k].used /\ ep'[j].name = ep'[k].name => j = k
    <3> HIDE DEF i, g, r
    <3> QED
      BY <2>3, <2>6, <2>7, <2>11 DEF Sound
  <2>13. \A k \in EpSlots : ep'[k].waiter # None => ep'[k].used /\ ep'[k].queue = <<>>
    <3> HIDE DEF i, g, r
    <3> QED
      BY <2>3, <2>6, <2>7 DEF Sound
  <2>14. ASSUME NEW s \in CallSlots, call'[s].state = "QUEUED"
         PROVE  LET c == call'[s] IN
                /\ ep'[c.ep].used /\ ep'[c.ep].gen = c.epgen
                /\ \E k \in 1 .. Len(ep'[c.ep].queue) : ep'[c.ep].queue[k] = s
    <3>1. call'[s].ep \in EpSlots /\ PrunedEp[call'[s].ep].used
      BY <2>1, <2>3, <2>4, <2>14 DEF Sound, CallRec
    <3>2. ep'[call'[s].ep] = PrunedEp[call'[s].ep]
      BY <3>1, <2>2, <2>6
    <3> QED
      BY <3>2, <2>1, <2>3, <2>14 DEF Sound
  <2> QED
    BY <2>1, <2>9, <2>10, <2>12, <2>13, <2>14 DEF SoundNext, Sound
<1> QED
  BY <1>1, <1>2

\* A new call joins the queue of endpoint i in slot s, and the waiter is taken off:
\* do_call and AuIpcKCallBegin alike.
LEMMA EnqueueSound ==
    ASSUME NEW E \in [EpSlots -> EndpointRec], NEW C \in [CallSlots -> CallRec], NEW g, NEW S,
           Sound(E, C, g, S), NEW i \in EpSlots, E[i].used, NEW s \in CallSlots,
           NEW d, d.ep = i, d.epgen = E[i].gen
    PROVE  Sound([E EXCEPT ![i].queue = Append(@, s), ![i].waiter = None],
                 [C EXCEPT ![s] = d], g, S)
<1> DEFINE q == E[i].queue
           e == [E[i] EXCEPT !.queue = Append(@, s), !.waiter = None]
           F == [E EXCEPT ![i].queue = Append(@, s), ![i].waiter = None]
           D == [C EXCEPT ![s] = d]
<1>5. E[i] \in EndpointRec /\ q \in Seq(CallSlots) /\ Len(q) \in Nat
  BY LenProperties DEF EndpointRec
<1>6. /\ Len(Append(q, s)) = Len(q) + 1 /\ Append(q, s)[Len(q) + 1] = s
      /\ \A k \in 1 .. Len(q) : Append(q, s)[k] = q[k]
  BY <1>5, AppendProperties
<1>7. /\ e.used = E[i].used /\ e.gen = E[i].gen /\ e.name = E[i].name
      /\ e.owner = E[i].owner /\ e.waiter = None /\ e.queue = Append(q, s)
  BY <1>5 DEF EndpointRec
<1>8. F[i] = e /\ \A k \in EpSlots : k # i => F[k] = E[k]
  OBVIOUS
<1>9. D[s] = d /\ \A r \in CallSlots : r # s => D[r] = C[r]
  OBVIOUS
<1> HIDE DEF e, q, F, D
<1>11. \A k \in EpSlots :
          /\ F[k].used = E[k].used /\ F[k].gen = E[k].gen
          /\ F[k].name = E[k].name /\ F[k].owner = E[k].owner
          /\ F[k].waiter # None => k # i /\ F[k] = E[k]
  BY <1>7, <1>8
<1>12. ASSUME NEW r \in CallSlots, D[r].state = "QUEUED"
       PROVE  LET c == D[r] IN
              /\ F[c.ep].used /\ F[c.ep].gen = c.epgen
              /\ \E k \in 1 .. Len(F[c.ep].queue) : F[c.ep].queue[k] = r
  <2>1. CASE r = s
    <3>1. Len(q) + 1 \in 1 .. Len(F[i].queue) /\ F[i].queue[Len(q) + 1] = s
      BY <1>5, <1>6, <1>7, <1>8
    <3> QED
      BY <2>1, <3>1, <1>9, <1>11
  <2>2. CASE r # s
    <3> DEFINE c == C[r]
    <3>1. D[r] = c
      BY <2>2, <1>9
    <3>2. c.ep \in EpSlots /\ E[c.ep].used /\ E[c.ep].gen = c.epgen
      BY <3>1, <1>12 DEF Sound, CallRec
    <3>3. PICK k \in 1 .. Len(E[c.ep].queue) : E[c.ep].queue[k] = r
      BY <3>1, <1>12 DEF Sound
    <3>4. CASE c.ep = i
      <4>1. k \in 1 .. Len(q) /\ q[k] = r
        BY <3>3, <3>4 DEF q
      <4>2. F[i].queue = Append(q, s)
        BY <1>7, <1>8
      <4>3. k \in 1 .. Len(F[i].queue) /\ F[i].queue[k] = r
        BY <4>1, <4>2, <1>5, <1>6
      <4> QED
        BY <3>1, <3>2, <3>4, <4>3, <1>11
    <3>5. CASE c.ep # i
      BY <3>1, <3>2, <3>3, <3>5, <1>8
    <3> QED
      BY <3>4, <3>5
  <2> QED
    BY <2>1, <2>2
<1>14. \A k \in EpSlots : F[k].gen < g
  BY <1>11 DEF Sound
<1>15. \A k \in EpSlots : F[k].used => F[k].owner \in Procs /\ S[F[k].owner] # "reaped"
  BY <1>11 DEF Sound
<1>16. \A j, k \in EpSlots : F[j].used /\ F[k].used /\ F[j].name = F[k].name => j = k
  BY <1>11 DEF Sound
<1>17. \A k \in EpSlots : F[k].waiter # None => F[k].used /\ F[k].queue = <<>>
  BY <1>11 DEF Sound
<1>18. Sound(F, D, g, S)
  BY <1>12, <1>14, <1>15, <1>16, <1>17 DEF Sound
<1> QED
  BY <1>18 DEF F, D

\* CALL keeps the invariants: it takes the waiter off with the request it adds.
LEMMA CallSound ==
    ASSUME IInv, NEW t \in Threads, NEW h \in Handles, do_call(t, h)
    PROVE  SoundNext
<1>1. CASE OnlyPrune
  BY <1>1, OnlyPruneSound
<1>2. CASE ~OnlyPrune
  <2> DEFINE s == Lowest(CallFree(PrunedCall))
             i == h[2]
             d == QueuedCall(t, i, PrunedCall[s].gen + 1)
  <2>1. /\ Admitted(t, h)
        /\ ep' = [PrunedEp EXCEPT ![i].queue = Append(@, s), ![i].waiter = None]
        /\ call' = [PrunedCall EXCEPT ![s] = d]
        /\ genc' = PrunedGen /\ pstate' = pstate
    BY <1>2 DEF do_call, Enqueue
  <2>2. i \in EpSlots /\ s \in CallSlots /\ PrunedEp[i].used
    BY <2>1, FreeSlots DEF Admitted, CallFree, ep_from_handle
  <2>3. Sound(PrunedEp, PrunedCall, PrunedGen, pstate)
    BY PruneSound
  <2>4. /\ PrunedEp \in [EpSlots -> EndpointRec]
        /\ PrunedCall \in [CallSlots -> CallRec]
    BY PrunedType DEF IInv
  <2>5. d.ep = i /\ d.epgen = PrunedEp[i].gen
    BY DEF QueuedCall
  <2> HIDE DEF s, i, d
  <2>6. Sound([PrunedEp EXCEPT ![i].queue = Append(@, s), ![i].waiter = None],
              [PrunedCall EXCEPT ![s] = d], PrunedGen, pstate)
    BY <2>2, <2>3, <2>4, <2>5, EnqueueSound
  <2> QED
    BY <2>1, <2>6 DEF SoundNext
<1> QED
  BY <1>1, <1>2

\* Steps that only change calls, and queue none, keep the invariants.
LEMMA CallsOnlySound ==
    ASSUME IInv, UNCHANGED <<ep, genc, pstate>>,
           \A s \in CallSlots : call'[s].state = "QUEUED" => call'[s] = call[s]
    PROVE  SoundNext
BY DEF IInv, Sound, SoundNext

\* FETCH keeps the invariants: it queues nothing.
LEMMA FetchSound ==
    ASSUME IInv, NEW t \in Threads, do_fetch(t)
    PROVE  SoundNext
<1>1. ASSUME NEW s \in CallSlots, call'[s].state = "QUEUED" PROVE call'[s] = call[s]
  <2>1. call[s] \in CallRec
    BY DEF IInv, TypeOK
  <2>2. call'[s] = call[s] \/ call'[s] = Fetched(call[s])
    BY DEF do_fetch, IInv, TypeOK
  <2>3. Fetched(call[s]).state # "QUEUED"
    BY <2>1 DEF Fetched, FreeCall, CallRec
  <2> QED
    BY <1>1, <2>2, <2>3
<1> QED
  BY <1>1, CallsOnlySound DEF do_fetch

\* REPLY keeps the invariants: it queues nothing.
LEMMA ReplySound ==
    ASSUME IInv, NEW t \in Threads, NEW m \in rcvd[ProcOf[t]], do_reply(t, m)
    PROVE  SoundNext
<1> DEFINE r == m.id[2]
<1>1. ASSUME NEW s \in CallSlots, call'[s].state = "QUEUED" PROVE call'[s] = call[s]
  <2>1. call[s] \in CallRec
    BY DEF IInv, TypeOK
  <2>2. \/ call' = [call EXCEPT ![r].state = "DONE", ![r].resp = m.req]
        \/ call' = [call EXCEPT ![r] = FreeCall]
        \/ call' = call
    BY DEF do_reply
  <2>3. CASE s = r
    <3>1. \/ call'[s] = [call[s] EXCEPT !.state = "DONE", !.resp = m.req]
          \/ call'[s] = FreeCall
          \/ call'[s] = call[s]
      BY <2>2, <2>3 DEF IInv, TypeOK
    <3>2. [call[s] EXCEPT !.state = "DONE", !.resp = m.req].state = "DONE"
      BY <2>1 DEF CallRec
    <3>3. FreeCall.state = "FREE"
      BY DEF FreeCall
    <3> QED
      BY <1>1, <3>1, <3>2, <3>3
  <2>4. CASE s # r
    BY <2>2, <2>4 DEF IInv, TypeOK
  <2> QED
    BY <2>3, <2>4
<1> QED
  BY <1>1, CallsOnlySound DEF do_reply

\* WAIT keeps the invariants: it registers a waiter only with an empty queue.
LEMMA WaitSound ==
    ASSUME IInv, NEW t \in Threads, NEW h \in Handles, do_wait(t, h)
    PROVE  SoundNext
<1> DEFINE i == h[2]
<1>1. i \in EpSlots /\ ep[i].used /\ ep[i].queue = <<>>
  BY DEF do_wait, Owns, ep_from_handle
<1>2. ep[i] \in EndpointRec
  BY <1>1 DEF IInv, TypeOK
<1>3. ep' = [ep EXCEPT ![i].waiter = t] /\ UNCHANGED <<call, genc, pstate>>
  BY DEF do_wait
<1>4. \A k \in EpSlots :
         /\ ep'[k].used = ep[k].used /\ ep'[k].gen = ep[k].gen /\ ep'[k].name = ep[k].name
         /\ ep'[k].owner = ep[k].owner /\ ep'[k].queue = ep[k].queue
         /\ k # i => ep'[k].waiter = ep[k].waiter
  BY <1>1, <1>2, <1>3 DEF EndpointRec, IInv, TypeOK
<1> HIDE DEF i
<1>5. \A k \in EpSlots : ep'[k].waiter # None => ep'[k].used /\ ep'[k].queue = <<>>
  BY <1>1, <1>4 DEF IInv, Sound
<1>6. ASSUME NEW s \in CallSlots, call'[s].state = "QUEUED"
      PROVE  LET c == call'[s] IN
             /\ ep'[c.ep].used /\ ep'[c.ep].gen = c.epgen
             /\ \E k \in 1 .. Len(ep'[c.ep].queue) : ep'[c.ep].queue[k] = s
  <2>1. call'[s] = call[s] /\ call[s].ep \in EpSlots
    BY <1>3 DEF IInv, TypeOK, CallRec
  <2> QED
    BY <1>4, <1>6, <2>1 DEF IInv, Sound
<1> QED
  BY <1>3, <1>4, <1>5, <1>6 DEF IInv, Sound, SoundNext

\* After RECV a call that is still queued was queued before, and not among the
\* entries RECV took out.
LEMMA RecvQueued ==
    ASSUME IInv, NEW h \in Handles,
           NEW s \in CallSlots, Scanned(h)[s].state = "QUEUED",
           Drained(h) \/ s # NextSlot(h)
    PROVE  /\ Scanned(h)[s] = call[s]
           /\ call[s].ep = h[2] =>
                 /\ ~Drained(h)
                 /\ \E k \in 1 .. Len(Rest(h)) : Rest(h)[k] = s
<1> DEFINE q == Queue(h)
           n == Skips(q)
           r == SubSeq(q, n + 2, Len(q))
<1>1. h[2] \in EpSlots
  BY RecvParts DEF IInv
<1>2. ep[h[2]] \in EndpointRec
  BY <1>1 DEF IInv, TypeOK
<1>3. q \in Seq(CallSlots) /\ Len(q) \in Nat
  BY <1>2, LenProperties DEF EndpointRec, Queue
<1>4. n \in 0 .. Len(q) /\ SkippedAll(q, n)
  BY <1>3, SkipsInQueue
<1>5. Scanned(h)[s] = call[s]
  BY DEF Scanned, AfterSkips, FreeCall
<1>6. call[s].state = "QUEUED"
  BY <1>5
<1>7. ASSUME call[s].ep = h[2]
      PROVE  ~Drained(h) /\ \E k \in 1 .. Len(Rest(h)) : Rest(h)[k] = s
  <2>1. PICK k \in 1 .. Len(q) : q[k] = s
    BY <1>6, <1>7 DEF IInv, Sound, Queue
  <2>2. ~(k \in 1 .. n)
    BY <1>4, <1>6, <2>1 DEF SkippedAll, Skipped
  <2>3. ~Drained(h) /\ n < Len(q)
    BY <1>3, <1>4, <2>1, <2>2 DEF Drained
  <2>4. NextSlot(h) = q[n + 1]
    BY DEF NextSlot
  <2>5. k # n + 1
    BY <2>1, <2>3, <2>4
  <2> HIDE DEF n, q
  <2>6. k \in n + 2 .. Len(q) /\ n + 2 <= Len(q)
    BY <1>3, <1>4, <2>1, <2>2, <2>5
  <2>7. \A j \in n + 2 .. Len(q) : q[j] \in CallSlots
    BY <1>3, <1>4, ElementOfSeq
  <2>8. /\ Len(r) = Len(q) - (n + 2) + 1
        /\ \A j \in 1 .. Len(q) - (n + 2) + 1 : r[j] = q[(n + 2) + j - 1]
    BY <1>3, <1>4, <2>6, <2>7, SubSeqProperties
  <2>9. k - n - 1 \in 1 .. Len(r) /\ (n + 2) + (k - n - 1) - 1 = k
    BY <1>3, <1>4, <2>6, <2>8
  <2>10. r[k - n - 1] = s
    BY <2>1, <2>8, <2>9
  <2>11. Rest(h) = r
    BY DEF Rest, n, q
  <2> HIDE DEF r
  <2> QED
    BY <2>3, <2>9, <2>10, <2>11
<1> QED
  BY <1>5, <1>7

\* RECV keeps the invariants: what it leaves in the queue was queued before.
LEMMA RecvSound ==
    ASSUME IInv, NEW t \in Threads, NEW h \in Handles, NEW fits \in BOOLEAN,
           do_recv(t, h, fits)
    PROVE  SoundNext
<1> DEFINE i == h[2]
<1>1. i \in EpSlots /\ ep[i].used
  BY DEF do_recv, Owns, ep_from_handle
<1>2. ep[i] \in EndpointRec
  BY <1>1 DEF IInv, TypeOK
<1>3. genc' = genc /\ pstate' = pstate
  BY DEF do_recv
<1>4. PICK r : /\ ep' = [ep EXCEPT ![i].queue = r]
               /\ r = IF Drained(h) THEN <<>> ELSE Rest(h)
  BY DEF do_recv, RecvEmpty, RecvTooBig, RecvDeliver
<1>5. \A k \in EpSlots :
         /\ ep'[k].used = ep[k].used /\ ep'[k].gen = ep[k].gen /\ ep'[k].name = ep[k].name
         /\ ep'[k].owner = ep[k].owner /\ ep'[k].waiter = ep[k].waiter
         /\ k # i => ep'[k].queue = ep[k].queue
         /\ k = i => ep'[k].queue = r
  BY <1>1, <1>2, <1>4 DEF EndpointRec, IInv, TypeOK
<1>6. ep[i].queue = <<>> => Drained(h)
  <2>1. ASSUME ep[i].queue = <<>> PROVE Drained(h)
    <3>1. Queue(h) \in Seq(CallSlots) /\ Len(Queue(h)) = 0
      BY <2>1 DEF Queue
    <3>2. Skips(Queue(h)) \in 0 .. Len(Queue(h))
      <4> HIDE DEF i
      <4> QED
        BY <3>1, SkipsInQueue
    <3>3. Skips(Queue(h)) = Len(Queue(h))
      BY <3>1, <3>2
    <3> QED
      BY <3>3 DEF Drained
  <2> QED
    BY <2>1
<1>7. \A k \in EpSlots : ep'[k].waiter # None => ep'[k].used /\ ep'[k].queue = <<>>
  BY <1>1, <1>4, <1>5, <1>6 DEF IInv, Sound
<1>8. Scanned(h) \in [CallSlots -> CallRec] /\ (~Drained(h) => NextSlot(h) \in CallSlots)
  BY RecvParts DEF IInv
<1>9. ASSUME NEW s \in CallSlots, call'[s].state = "QUEUED"
      PROVE  call'[s] = Scanned(h)[s] /\ (Drained(h) \/ s # NextSlot(h))
  <2>1. CASE Drained(h)
    BY <2>1 DEF do_recv, RecvEmpty, RecvTooBig, RecvDeliver
  <2>2. CASE ~Drained(h)
    <3> DEFINE x == NextSlot(h)
               C == Scanned(h)
    <3>1. \/ call' = [C EXCEPT ![x].state = "FAILED"]
          \/ call' = [C EXCEPT ![x].state = "SERVING"]
      BY <2>2 DEF do_recv, RecvEmpty, RecvTooBig, RecvDeliver
    <3>2. x \in CallSlots /\ C \in [CallSlots -> CallRec]
      BY <1>8, <2>2
    <3> HIDE DEF x, C
    <3>3. /\ call'[x].state \in {"FAILED", "SERVING"}
          /\ \A y \in CallSlots : y # x => call'[y] = C[y]
      BY <3>1, <3>2 DEF CallRec
    <3> QED
      BY <1>9, <3>3 DEF x, C
  <2> QED
    BY <2>1, <2>2
<1>10. ASSUME NEW s \in CallSlots, call'[s].state = "QUEUED"
       PROVE  LET c == call'[s] IN
              /\ ep'[c.ep].used /\ ep'[c.ep].gen = c.epgen
              /\ \E k \in 1 .. Len(ep'[c.ep].queue) : ep'[c.ep].queue[k] = s
  <2>1. /\ call'[s] = call[s] /\ call[s].state = "QUEUED"
        /\ call[s].ep = i => ~Drained(h) /\ \E k \in 1 .. Len(Rest(h)) : Rest(h)[k] = s
    BY <1>9, <1>10, RecvQueued
  <2>2. call[s].ep \in EpSlots
    BY DEF IInv, TypeOK, CallRec
  <2>3. /\ ep[call[s].ep].used /\ ep[call[s].ep].gen = call[s].epgen
        /\ \E k \in 1 .. Len(ep[call[s].ep].queue) : ep[call[s].ep].queue[k] = s
    BY <2>1 DEF IInv, Sound
  <2> HIDE DEF i
  <2>4. CASE call[s].ep = i
    BY <1>4, <1>5, <2>1, <2>2, <2>3, <2>4
  <2>5. CASE call[s].ep # i
    BY <1>5, <2>1, <2>2, <2>3, <2>5
  <2> QED
    BY <2>4, <2>5
<1> HIDE DEF i
<1> QED
  BY <1>3, <1>5, <1>7, <1>10 DEF IInv, Sound, SoundNext

\* Every step preserves the inductive invariant.
LEMMA IInvStep ==
    ASSUME IInv, [Next]_vars PROVE IInv'
<1>0. TypeOK'
  BY TypeStep DEF IInv
<1>1. ASSUME UNCHANGED vars PROVE SoundNext
  BY <1>1 DEF vars, IInv, Sound, SoundNext
<1>2. ASSUME NEW t \in Threads, ipc_ioctl(t) PROVE SoundNext
  <2>1. ASSUME NEW name \in Names, NEW acl \in Acls, do_create(t, name, acl) PROVE SoundNext
    BY <2>1, CreateSound
  <2>2. CASE do_connect(t)
    BY <2>2, OnlyPruneSound DEF do_connect
  <2>3. CASE do_fetch(t)
    BY <2>3, FetchSound
  <2>4. ASSUME NEW h \in Handles, do_destroy(t, h) PROVE SoundNext
    BY <2>4, GoneSound DEF do_destroy, AuIpcProcessGone, GoneCall, IInv, TypeOK, SoundNext
  <2>5. ASSUME NEW h \in Handles, do_call(t, h) PROVE SoundNext
    BY <2>5, CallSound
  <2>6. ASSUME NEW h \in Handles, do_wait(t, h) PROVE SoundNext
    BY <2>6, WaitSound
  <2>7. ASSUME NEW h \in Handles, NEW fits \in BOOLEAN, do_recv(t, h, fits) PROVE SoundNext
    BY <2>7, RecvSound
  <2>8. ASSUME NEW m \in rcvd[ProcOf[t]], do_reply(t, m) PROVE SoundNext
    BY <2>8, ReplySound
  <2> QED
    BY <1>2, <2>1, <2>2, <2>3, <2>4, <2>5, <2>6, <2>7, <2>8 DEF ipc_ioctl
<1>3. ASSUME NEW t \in Threads, Timeout(t) PROVE SoundNext
  BY <1>3 DEF Timeout, IInv, SoundNext
<1>4. ASSUME NEW p \in Procs, AuProcessExit(p) PROVE SoundNext
  <2>1. \A x \in Procs : pstate'[x] = "reaped" => pstate[x] = "reaped"
    BY <1>4 DEF AuProcessExit, IInv, TypeOK
  <2>2. UNCHANGED <<ep, call, genc>>
    BY <1>4 DEF AuProcessExit
  <2> QED
    BY <2>1, <2>2 DEF IInv, Sound, SoundNext
<1>5. ASSUME NEW p \in Procs, AuProcessClean(p) PROVE SoundNext
  <2>1. \A x \in Procs : x \notin {p} => (pstate'[x] = "reaped" => pstate[x] = "reaped")
    BY <1>5 DEF AuProcessClean, IInv, TypeOK
  <2>2. Sound(GoneEp({p}), GoneCall({p}), GoneGen({p}), pstate')
    BY <2>1, GoneSound DEF GoneCall, IInv, TypeOK
  <2> QED
    BY <1>5, <2>2 DEF AuProcessClean, AuIpcProcessGone, SoundNext
<1>6. SoundNext
  BY <1>1, <1>2, <1>3, <1>4, <1>5 DEF Next, vars, IInv, SoundNext
<1>7. Sound(ep, call, genc, pstate)'
  BY <1>6 DEF SoundNext, Sound
<1> QED
  BY <1>0, <1>7 DEF IInv, Sound

\* The inductive invariant holds at boot.
LEMMA IInvInit == Init => IInv
<1> SUFFICES ASSUME Init PROVE IInv
  OBVIOUS
<1>1. \A i \in EpSlots : ep[i].gen = 0 /\ ~ep[i].used /\ ep[i].waiter = None
  BY DEF Init, NoEp
<1>2. \A s \in CallSlots : call[s].state = "FREE"
  BY DEF Init, FreeCall
<1>3. genc = 1
  BY DEF Init
<1> QED
  BY <1>1, <1>2, <1>3, TypeInit DEF IInv, Sound

\* The inductive invariant holds throughout.
LEMMA IInvAlways == Spec => []IInv
<1>1. Init => IInv
  BY IInvInit
<1>2. IInv /\ [Next]_vars => IInv'
  BY IInvStep
<1> QED
  BY <1>1, <1>2, PTL DEF Spec

\* A queued call can always be found by a server that is not reaped: its endpoint
\* is in use, has the generation the call was made for and holds it in its queue.
THEOREM QueuedCallsAreReachable == Spec => []QueuedCallsReachable
BY IInvAlways, IInvImplies, PTL

\* A thread registered as waiter of an endpoint has an empty queue before it
\* (do_wait, do_call): no request is slept over.
THEOREM WaitersHaveNoRequests == Spec => []NoWaiterWithRequests
BY IInvAlways, IInvImplies, PTL

\* A live endpoint is never owned by a process that was freed (clean.c calls
\* AuIpcProcessGone before it frees the process).
THEOREM OwnersAreNotReaped == Spec => []OwnerNotReaped
BY IInvAlways, IInvImplies, PTL

\* Live endpoints have different names, so CONNECT by name is unambiguous
\* (do_create's search for the name, after its prune).
THEOREM NamesAreUnique == Spec => []NamesUnique
BY IInvAlways, IInvImplies, PTL

-----------------------------------------------------------------------------
(* The action property HandlesNeverReused *)

\* The endpoints E may follow the present ones: no handle changes its meaning.
KeepsHandles(E) ==
    \A i \in EpSlots :
        /\ E[i].gen >= ep[i].gen
        /\ ep[i].used /\ ~E[i].used => E[i].gen > ep[i].gen
        /\ ep[i].used /\ E[i].used /\ E[i].gen = ep[i].gen =>
              E[i].owner = ep[i].owner /\ E[i].name = ep[i].name /\ E[i].acl = ep[i].acl

\* Every endpoint slot has a generation below the next one to be given out.
LEMMA GensBelow ==
    ASSUME IInv
    PROVE  genc \in Nat /\ \A i \in EpSlots : ep[i].gen \in Nat /\ ep[i].gen < genc
BY DEF IInv, Sound, TypeOK, EndpointRec

\* AuIpcProcessGone changes the meaning of no handle.
LEMMA GoneKeepsHandles ==
    ASSUME IInv, NEW P PROVE KeepsHandles(GoneEp(P))
<1> SUFFICES ASSUME NEW i \in EpSlots
             PROVE  /\ GoneEp(P)[i].gen >= ep[i].gen
                    /\ ep[i].used /\ ~GoneEp(P)[i].used => GoneEp(P)[i].gen > ep[i].gen
                    /\ ep[i].used /\ GoneEp(P)[i].used /\ GoneEp(P)[i].gen = ep[i].gen =>
                         /\ GoneEp(P)[i].owner = ep[i].owner
                         /\ GoneEp(P)[i].name = ep[i].name
                         /\ GoneEp(P)[i].acl = ep[i].acl
  BY DEF KeepsHandles
<1>1. CASE i \notin OwnedBy(P)
  <2>1. GoneEp(P)[i] = ep[i]
    BY <1>1, GoneEpKeeps
  <2> QED
    BY <2>1, GensBelow
<1>2. CASE i \in OwnedBy(P)
  <2>1. ~GoneEp(P)[i].used /\ GoneEp(P)[i].gen \in Nat /\ GoneEp(P)[i].gen >= genc
    BY <1>2, GoneEpKeeps, GoneEpType DEF IInv, EndpointRec
  <2> QED
    BY <2>1, GensBelow
<1> QED
  BY <1>1, <1>2

\* Queue and waiter of one endpoint changed, on top of E.
LEMMA QueueKeepsHandles ==
    ASSUME NEW E \in [EpSlots -> EndpointRec], KeepsHandles(E), NEW i \in EpSlots, NEW q, NEW w
    PROVE  KeepsHandles([E EXCEPT ![i].queue = q, ![i].waiter = w])
BY DEF KeepsHandles, EndpointRec

\* CREATE changes the meaning of no handle.
LEMMA CreateKeepsHandles ==
    ASSUME IInv, NEW t \in Threads, NEW name \in Names, NEW acl \in Acls,
           do_create(t, name, acl)
    PROVE  KeepsHandles(ep')
<1>0. KeepsHandles(PrunedEp)
  BY GoneKeepsHandles DEF PrunedEp
<1>1. CASE OnlyPrune
  BY <1>0, <1>1 DEF OnlyPrune
<1>2. CASE ~OnlyPrune
  <2> DEFINE i == Lowest(EpFree(PrunedEp))
             g == IF PrunedEp[i].gen # 0 THEN PrunedEp[i].gen ELSE PrunedGen
             r == [used |-> TRUE, gen |-> g, name |-> name, owner |-> ProcOf[t],
                   acl |-> acl, waiter |-> None, queue |-> <<>>]
  <2>1. CanCreate(name) /\ ep' = [PrunedEp EXCEPT ![i] = r]
    BY <1>2 DEF do_create
  <2>2. i \in EpSlots /\ ~PrunedEp[i].used
    BY <2>1, FreeSlots DEF CanCreate, EpFree
  <2>3. PrunedEp \in [EpSlots -> EndpointRec] /\ PrunedGen \in Nat
    BY PrunedType DEF IInv
  <2>4. \A k \in EpSlots : PrunedEp[k].gen \in Nat /\ PrunedEp[k].gen < PrunedGen
    BY <2>3, PruneSound DEF EndpointRec, Sound
  <2>5. /\ ep'[i] = r /\ \A k \in EpSlots : k # i => ep'[k] = PrunedEp[k]
    BY <2>1, <2>2, <2>3
  <2>6. r.used /\ r.gen = g
    OBVIOUS
  <2>7. g \in Nat /\ g >= PrunedEp[i].gen
    BY <2>2, <2>3, <2>4
  <2>8. PrunedEp[i].gen >= ep[i].gen /\ (ep[i].used => PrunedEp[i].gen > ep[i].gen)
    BY <1>0, <2>2 DEF KeepsHandles
  <2>9. g >= ep[i].gen /\ (ep[i].used => g > ep[i].gen)
    BY <2>2, <2>4, <2>7, <2>8, GensBelow
  <2> HIDE DEF i, g, r
  <2>10. ep[i].gen \in Nat
    BY <2>2, GensBelow
  <2> QED
    BY <1>0, <2>2, <2>5, <2>6, <2>7, <2>9, <2>10 DEF KeepsHandles
<1> QED
  BY <1>1, <1>2

\* A step that leaves the endpoints alone changes the meaning of no handle.
LEMMA StaysKeepsHandles ==
    ASSUME IInv PROVE KeepsHandles(ep)
BY GensBelow DEF KeepsHandles

\* No step changes the meaning of a handle.
LEMMA NextKeepsHandles ==
    ASSUME IInv, [Next]_vars PROVE KeepsHandles(ep')
<1>0. ep \in [EpSlots -> EndpointRec]
  BY DEF IInv, TypeOK
<1>1. ASSUME ep' = ep PROVE KeepsHandles(ep')
  BY <1>1, StaysKeepsHandles DEF KeepsHandles
<1>2. ASSUME NEW P, ep' = GoneEp(P) PROVE KeepsHandles(ep')
  BY <1>2, GoneKeepsHandles DEF KeepsHandles
<1>3. ASSUME NEW t \in Threads, ipc_ioctl(t) PROVE KeepsHandles(ep')
  <2>1. ASSUME NEW name \in Names, NEW acl \in Acls, do_create(t, name, acl)
        PROVE  KeepsHandles(ep')
    BY <2>1, CreateKeepsHandles
  <2>2. ASSUME OnlyPrune PROVE KeepsHandles(ep')
    BY <2>2, <1>2 DEF OnlyPrune, PrunedEp
  <2>3. ASSUME NEW h \in Handles, do_call(t, h) PROVE KeepsHandles(ep')
    <3>1. CASE OnlyPrune
      BY <2>2, <3>1
    <3>2. CASE ~OnlyPrune
      <4>1. PICK q : /\ h[2] \in EpSlots
                     /\ ep' = [PrunedEp EXCEPT ![h[2]].queue = q, ![h[2]].waiter = None]
        BY <2>3, <3>2 DEF do_call, Enqueue, Admitted, ep_from_handle
      <4>2. PrunedEp \in [EpSlots -> EndpointRec] /\ KeepsHandles(PrunedEp)
        BY PrunedType, GoneKeepsHandles DEF IInv, PrunedEp
      <4>3. KeepsHandles([PrunedEp EXCEPT ![h[2]].queue = q, ![h[2]].waiter = None])
        BY <4>1, <4>2, QueueKeepsHandles
      <4> QED
        BY <4>1, <4>3
    <3> QED
      BY <3>1, <3>2
  <2>4. ASSUME NEW h \in Handles, do_wait(t, h) PROVE KeepsHandles(ep')
    BY <2>4, <1>0, GensBelow
       DEF do_wait, Owns, ep_from_handle, KeepsHandles, EndpointRec
  <2>5. ASSUME NEW h \in Handles, NEW fits \in BOOLEAN, do_recv(t, h, fits)
        PROVE  KeepsHandles(ep')
    <3>1. PICK q : h[2] \in EpSlots /\ ep' = [ep EXCEPT ![h[2]].queue = q]
      BY <2>5 DEF do_recv, Owns, ep_from_handle, RecvEmpty, RecvTooBig, RecvDeliver
    <3> QED
      BY <3>1, <1>0, GensBelow DEF KeepsHandles, EndpointRec
  <2>6. ASSUME NEW h \in Handles, do_destroy(t, h) PROVE KeepsHandles(ep')
    BY <2>6, <1>2 DEF do_destroy, AuIpcProcessGone
  <2> QED
    BY <1>1, <1>3, <2>1, <2>2, <2>3, <2>4, <2>5, <2>6
       DEF ipc_ioctl, do_connect, do_fetch, do_reply
<1> QED
  BY <1>1, <1>2, <1>3
     DEF Next, vars, Timeout, AuProcessExit, AuProcessClean, AuIpcProcessGone

\* A handle never changes its meaning (make_id, ep_from_handle): across prunes,
\* destroys and re-creations a slot's generation only grows, and an endpoint
\* with the same generation is the same endpoint.
THEOREM HandlesAreNeverReused == Spec => HandlesNeverReused
<1>1. ASSUME IInv, [Next]_vars
      PROVE  [\A i \in EpSlots :
                /\ ep'[i].gen >= ep[i].gen
                /\ ep[i].used /\ ~ep'[i].used => ep'[i].gen > ep[i].gen
                /\ ep[i].used /\ ep'[i].used /\ ep'[i].gen = ep[i].gen =>
                      /\ ep'[i].owner = ep[i].owner
                      /\ ep'[i].name = ep[i].name
                      /\ ep'[i].acl = ep[i].acl]_vars
  BY <1>1, NextKeepsHandles DEF KeepsHandles
<1> QED
  BY <1>1, IInvAlways, PTL DEF Spec, HandlesNeverReused

-----------------------------------------------------------------------------
(***************************************************************************)
(* ClientsWoken: no step leaves a client asleep on a call that is over.    *)
(***************************************************************************)
Over == {"FREE", "DONE", "FAILED"}

\* call_free zeroes a slot: a free call names no thread.
Freed(C) == \A s \in CallSlots : C[s].state = "FREE" => C[s].tid = None

\* With calls C, sleep states S and call ids D, nobody sleeps on a call that is over.
Awake(C, S, D) ==
    \A t \in Threads, s \in CallSlots :
        S[t] = "call" /\ D[t] = make_id(C[s].gen, s) /\ C[s].tid = t => C[s].state \notin Over

\* ClientsWoken is inductive together with what a free slot holds and the
\* invariant of the tables.
WInv == IInv /\ Freed(call) /\ Awake(call, sleep, pend)

\* What becomes of a call in a step that queues none: it stays, is freed, is still
\* in flight or given up, or its client is not asleep any more.
Settled(c, d, S) ==
    \/ d = c
    \/ d = FreeCall
    \/ d.state \notin Over
    \/ d.state # "FREE" /\ (d.tid \in Threads => S[d.tid] # "call")

\* If every call is settled and nobody falls asleep in CALL, the clients are woken.
LEMMA SettledAwake ==
    ASSUME Freed(call), Awake(call, sleep, pend), NEW C, NEW S, NEW D,
           \A t \in Threads : S[t] = "call" => sleep[t] = "call" /\ D[t] = pend[t],
           \A s \in CallSlots : Settled(call[s], C[s], S)
    PROVE  Awake(C, S, D)
<1> SUFFICES ASSUME NEW t \in Threads, NEW s \in CallSlots, S[t] = "call",
                    D[t] = make_id(C[s].gen, s), C[s].tid = t
             PROVE  C[s].state \notin Over
  BY DEF Awake
<1>1. sleep[t] = "call" /\ pend[t] = make_id(C[s].gen, s)
  OBVIOUS
<1>2. CASE C[s] = call[s]
  BY <1>1, <1>2 DEF Awake
<1>3. CASE C[s] = FreeCall
  BY <1>3, IpcConstants DEF FreeCall
<1> QED
  BY <1>2, <1>3 DEF Settled

\* A settled table still has free slots that name no thread.
LEMMA SettledFreed ==
    ASSUME Freed(call), NEW C, NEW S, \A s \in CallSlots : Settled(call[s], C[s], S)
    PROVE  Freed(C)
<1> SUFFICES ASSUME NEW s \in CallSlots, C[s].state = "FREE" PROVE C[s].tid = None
  BY DEF Freed
<1>1. Settled(call[s], C[s], S)
  OBVIOUS
<1> QED
  BY <1>1 DEF Settled, Freed, FreeCall, Over

\* wake_tid leaves no thread of T asleep and puts none to sleep.
LEMMA WakeIs ==
    ASSUME NEW T
    PROVE  /\ \A t \in Threads : wake_tid(T)[t] = "call" => sleep[t] = "call"
           /\ \A t \in Threads : t \in T => wake_tid(T)[t] = "no"
BY DEF wake_tid

\* AuIpcProcessGone settles every call: those it fails have their clients woken
\* (call_fail), also when more threads than those are.
LEMMA GoneSettled ==
    ASSUME TypeOK, NEW P, NEW T, GoneWoken(P) \subseteq T, NEW s \in CallSlots
    PROVE  Settled(call[s], GoneCall(P)[s], wake_tid(T))
<1>1. call[s] \in CallRec
  BY DEF TypeOK
<1> DEFINE c == call[s]
<1>2. \/ GoneCall(P)[s] = [c EXCEPT !.state = "ABANDONED"]
      \/ GoneCall(P)[s] = FreeCall
      \/ Fails(P, c) /\ GoneCall(P)[s] = [c EXCEPT !.state = "FAILED"]
      \/ GoneCall(P)[s] = c
  BY Zenon DEF GoneCall, GoneCalls
<1>3. [c EXCEPT !.state = "ABANDONED"].state = "ABANDONED"
  BY <1>1 DEF CallRec
<1>4. [c EXCEPT !.state = "FAILED"].state = "FAILED" /\ [c EXCEPT !.state = "FAILED"].tid = c.tid
  BY <1>1 DEF CallRec
<1>5. Fails(P, c) => c.tid \in T
  BY DEF GoneWoken, FailedTids
<1>6. Fails(P, c) /\ c.tid \in Threads => wake_tid(T)[c.tid] = "no"
  BY <1>5, WakeIs
<1>7. CASE GoneCall(P)[s] = [c EXCEPT !.state = "ABANDONED"]
  BY <1>3, <1>7 DEF Settled, Over
<1>8. CASE Fails(P, c) /\ GoneCall(P)[s] = [c EXCEPT !.state = "FAILED"]
  BY <1>4, <1>6, <1>8 DEF Settled
<1> QED
  BY <1>2, <1>7, <1>8 DEF Settled

\* What the step of one action has to show.
Wakes == Freed(call') /\ Awake(call', sleep', pend')

\* A step that settles every call and puts nobody to sleep in CALL.
LEMMA SettledWakes ==
    ASSUME WInv,
           \A t \in Threads : sleep'[t] = "call" => sleep[t] = "call" /\ pend'[t] = pend[t],
           \A s \in CallSlots : Settled(call[s], call'[s], sleep')
    PROVE  Wakes
BY SettledAwake, SettledFreed DEF WInv, Wakes

\* The teardown of processes wakes the clients of the calls it fails.
LEMMA GoneWakes ==
    ASSUME WInv, NEW P, call' = GoneCall(P), sleep' = wake_tid(GoneWoken(P)), pend' = pend
    PROVE  Wakes
<1>1. \A s \in CallSlots : Settled(call[s], call'[s], sleep')
  BY GoneSettled DEF WInv, IInv
<1> QED
  BY <1>1, WakeIs, SettledWakes

\* A step that does no more than ipc_prune_dead.
LEMMA OnlyPruneWakes ==
    ASSUME WInv, OnlyPrune PROVE Wakes
BY GoneWakes DEF OnlyPrune, PrunedCall, PrunedWoken

\* CREATE changes calls only by its prune.
LEMMA CreateWakes ==
    ASSUME WInv, NEW t \in Threads, NEW name \in Names, NEW acl \in Acls,
           do_create(t, name, acl)
    PROVE  Wakes
<1>1. CASE OnlyPrune
  BY <1>1, OnlyPruneWakes
<1>2. CASE ~OnlyPrune
  <2>1. call' = PrunedCall /\ sleep' = wake_tid(PrunedWoken) /\ pend' = pend
    BY <1>2 DEF do_create
  <2> QED
    BY <2>1, GoneWakes DEF PrunedCall, PrunedWoken
<1> QED
  BY <1>1, <1>2

\* CALL puts its thread to sleep on the call it queued; the id it remembers names
\* the slot of that call, so it sleeps on no other.
LEMMA CallWakes ==
    ASSUME WInv, NEW t \in Threads, NEW h \in Handles, do_call(t, h)
    PROVE  Wakes
<1>1. CASE OnlyPrune
  BY <1>1, OnlyPruneWakes
<1>2. CASE ~OnlyPrune
  <2> DEFINE s == Lowest(CallFree(PrunedCall))
             c == QueuedCall(t, h[2], PrunedCall[s].gen + 1)
             W == wake_tid(PrunedWoken \cup {PrunedEp[h[2]].waiter})
             id == make_id(PrunedCall[s].gen + 1, s)
  <2>1. /\ Admitted(t, h)
        /\ call' = [PrunedCall EXCEPT ![s] = c]
        /\ pend' = [pend EXCEPT ![t] = id]
        /\ sleep' = [W EXCEPT ![t] = "call"]
    BY <1>2 DEF do_call, Enqueue
  <2>2. s \in CallSlots
    BY <2>1, FreeSlots DEF Admitted, CallFree
  <2>3. \A r \in CallSlots : Settled(call[r], PrunedCall[r], W)
    BY GoneSettled DEF WInv, IInv, PrunedCall, PrunedWoken
  <2>4. Freed(PrunedCall) /\ Awake(PrunedCall, W, pend)
    <3>1. \A u \in Threads : W[u] = "call" => sleep[u] = "call"
      BY WakeIs
    <3> HIDE DEF W
    <3> QED
      BY <2>3, <3>1, SettledAwake, SettledFreed DEF WInv
  <2>5. c.state = "QUEUED" /\ c.tid = t
    BY DEF QueuedCall
  <2>6. PrunedCall \in [CallSlots -> CallRec]
    BY PrunedType DEF WInv, IInv
  <2>7. \A r \in CallSlots : call'[r] = IF r = s THEN c ELSE PrunedCall[r]
    BY <2>1, <2>2, <2>6 DEF s, c
  <2>8. /\ pend'[t] = id
        /\ \A u \in Threads : u # t => pend'[u] = pend[u] /\ sleep'[u] = W[u]
    BY <2>1 DEF WInv, IInv, TypeOK, wake_tid
  <2>9. id[2] = s /\ \A g, r : make_id(g, r)[2] = r
    BY DEF make_id
  <2> HIDE DEF s, c, W, id
  <2>10. Freed(call')
    BY <2>4, <2>5, <2>7 DEF Freed
  <2>11. Awake(call', sleep', pend')
    <3> SUFFICES ASSUME NEW u \in Threads, NEW r \in CallSlots, sleep'[u] = "call",
                        pend'[u] = make_id(call'[r].gen, r), call'[r].tid = u
                 PROVE  call'[r].state \notin Over
      BY DEF Awake
    <3>1. CASE r = s
      BY <3>1, <2>5, <2>7 DEF Over
    <3>2. CASE r # s
      <4>1. u # t
        BY <3>2, <2>8, <2>9
      <4> QED
        BY <3>2, <4>1, <2>4, <2>7, <2>8 DEF Awake
    <3> QED
      BY <3>1, <3>2
  <2> QED
    BY <2>10, <2>11 DEF Wakes
<1> QED
  BY <1>1, <1>2

\* FETCH frees or gives up the call of a thread that is awake.
LEMMA FetchWakes ==
    ASSUME WInv, NEW t \in Threads, do_fetch(t)
    PROVE  Wakes
<1>1. \A u \in Threads : sleep'[u] = "call" => sleep[u] = "call" /\ pend'[u] = pend[u]
  BY DEF do_fetch, Running, WInv, IInv, TypeOK
<1>2. ASSUME NEW s \in CallSlots PROVE Settled(call[s], call'[s], sleep')
  <2>1. call[s] \in CallRec
    BY DEF WInv, IInv, TypeOK
  <2>2. \/ call'[s] = call[s]
        \/ call'[s] = Fetched(call[s])
    BY DEF do_fetch, WInv, IInv, TypeOK
  <2>3. \/ Fetched(call[s]) = FreeCall
        \/ Fetched(call[s]).state = "ABANDONED"
    BY <2>1 DEF Fetched, CallRec
  <2> QED
    BY <2>2, <2>3 DEF Settled, Over
<1> QED
  BY <1>1, <1>2, SettledWakes

\* RECV frees calls that were given up, and wakes the client of one it fails.
LEMMA RecvWakes ==
    ASSUME WInv, NEW t \in Threads, NEW h \in Handles, NEW fits \in BOOLEAN,
           do_recv(t, h, fits)
    PROVE  Wakes
<1> DEFINE x == NextSlot(h)
           C == Scanned(h)
<1>1. C \in [CallSlots -> CallRec] /\ (~Drained(h) => x \in CallSlots)
  BY RecvParts DEF WInv, IInv
<1>2. \A s \in CallSlots : C[s] = call[s] \/ C[s] = FreeCall
  BY DEF Scanned, AfterSkips
<1>3. pend' = pend
  BY DEF do_recv
<1>4. CASE RecvEmpty(h)
  BY <1>2, <1>3, <1>4, SettledWakes DEF RecvEmpty, Settled
<1>5. CASE RecvTooBig(h)
  <2>1. /\ x \in CallSlots /\ C[x].state # "FREE"
        /\ call' = [C EXCEPT ![x].state = "FAILED"]
        /\ sleep' = wake_tid({C[x].tid})
    BY <1>1, <1>5 DEF RecvTooBig
  <2>2. C[x].tid \in Threads => sleep'[C[x].tid] = "no"
    BY <2>1, WakeIs
  <2>3. \A u \in Threads : sleep'[u] = "call" => sleep[u] = "call"
    BY <2>1, WakeIs
  <2> HIDE DEF x, C
  <2>4. /\ call'[x].state = "FAILED" /\ call'[x].tid = C[x].tid
        /\ \A s \in CallSlots : s # x => call'[s] = C[s]
    BY <1>1, <2>1 DEF CallRec
  <2>5. \A s \in CallSlots : Settled(call[s], call'[s], sleep')
    BY <1>2, <2>2, <2>4 DEF Settled
  <2> QED
    BY <1>3, <2>3, <2>5, SettledWakes
<1>6. CASE RecvDeliver(ProcOf[t], h)
  <2>1. /\ x \in CallSlots /\ sleep' = sleep
        /\ call' = [C EXCEPT ![x].state = "SERVING"]
    BY <1>1, <1>6 DEF RecvDeliver
  <2> HIDE DEF x, C
  <2>2. /\ call'[x].state = "SERVING"
        /\ \A s \in CallSlots : s # x => call'[s] = C[s]
    BY <1>1, <2>1 DEF CallRec
  <2>3. \A s \in CallSlots : Settled(call[s], call'[s], sleep')
    BY <1>2, <2>2 DEF Settled, Over
  <2> QED
    BY <1>3, <2>1, <2>3, SettledWakes
<1> QED
  BY <1>4, <1>5, <1>6 DEF do_recv

\* REPLY wakes the client it answers.
LEMMA ReplyWakes ==
    ASSUME WInv, NEW t \in Threads, NEW m \in rcvd[ProcOf[t]], do_reply(t, m)
    PROVE  Wakes
<1> DEFINE x == m.id[2]
<1>1. call \in [CallSlots -> CallRec] /\ pend' = pend
  BY DEF WInv, IInv, TypeOK, do_reply
<1>2. CASE CanAnswer(m) /\ sleep' = wake_tid({call[x].tid})
           /\ call' = [call EXCEPT ![x].state = "DONE", ![x].resp = m.req]
  <2>1. x \in CallSlots
    BY <1>2 DEF CanAnswer, Answers, call_from_id
  <2>2. call[x].tid \in Threads => sleep'[call[x].tid] = "no"
    BY <1>2, WakeIs
  <2>3. \A u \in Threads : sleep'[u] = "call" => sleep[u] = "call"
    BY <1>2, WakeIs
  <2> HIDE DEF x
  <2>4. /\ call'[x].state = "DONE" /\ call'[x].tid = call[x].tid
        /\ \A s \in CallSlots : s # x => call'[s] = call[s]
    BY <1>1, <1>2, <2>1 DEF CallRec
  <2>5. \A s \in CallSlots : Settled(call[s], call'[s], sleep')
    BY <2>2, <2>4 DEF Settled
  <2> QED
    BY <1>1, <2>3, <2>5, SettledWakes
<1>3. CASE sleep' = sleep /\ (call' = [call EXCEPT ![x] = FreeCall] \/ call' = call)
  BY <1>1, <1>3, SettledWakes DEF Settled
<1> QED
  BY <1>2, <1>3 DEF do_reply

\* Every step keeps sleeping clients on calls that are not over.
LEMMA WInvStep ==
    ASSUME WInv, [Next]_vars PROVE WInv'
<1>0. IInv'
  BY IInvStep DEF WInv
<1>1. ASSUME UNCHANGED vars PROVE Wakes
  BY <1>1 DEF vars, WInv, Wakes, Freed, Awake
<1>2. ASSUME NEW t \in Threads, ipc_ioctl(t) PROVE Wakes
  <2>1. ASSUME NEW name \in Names, NEW acl \in Acls, do_create(t, name, acl) PROVE Wakes
    BY <2>1, CreateWakes
  <2>2. CASE do_connect(t)
    BY <2>2, OnlyPruneWakes DEF do_connect
  <2>3. CASE do_fetch(t)
    BY <2>3, FetchWakes
  <2>4. ASSUME NEW h \in Handles, do_destroy(t, h) PROVE Wakes
    BY <2>4, GoneWakes DEF do_destroy, AuIpcProcessGone
  <2>5. ASSUME NEW h \in Handles, do_call(t, h) PROVE Wakes
    BY <2>5, CallWakes
  <2>6. ASSUME NEW h \in Handles, do_wait(t, h) PROVE Wakes
    <3>1. call' = call /\ pend' = pend
      BY <2>6 DEF do_wait
    <3>2. \A u \in Threads : sleep'[u] = "call" => sleep[u] = "call"
      BY <2>6 DEF do_wait, WInv, IInv, TypeOK
    <3> QED
      BY <3>1, <3>2, SettledWakes DEF Settled
  <2>7. ASSUME NEW h \in Handles, NEW fits \in BOOLEAN, do_recv(t, h, fits) PROVE Wakes
    BY <2>7, RecvWakes
  <2>8. ASSUME NEW m \in rcvd[ProcOf[t]], do_reply(t, m) PROVE Wakes
    BY <2>8, ReplyWakes
  <2> QED
    BY <1>2, <2>1, <2>2, <2>3, <2>4, <2>5, <2>6, <2>7, <2>8 DEF ipc_ioctl
<1>3. ASSUME NEW t \in Threads, Timeout(t) PROVE Wakes
  <2>1. call' = call /\ pend' = pend
    BY <1>3 DEF Timeout
  <2>2. \A u \in Threads : sleep'[u] = "call" => sleep[u] = "call"
    BY <1>3 DEF Timeout, WInv, IInv, TypeOK
  <2> QED
    BY <2>1, <2>2, SettledWakes DEF Settled
<1>4. ASSUME NEW p \in Procs, AuProcessExit(p) PROVE Wakes
  <2>1. /\ call' = call
        /\ \A u \in Threads : sleep'[u] = "call" => sleep[u] = "call" /\ pend'[u] = pend[u]
    BY <1>4 DEF AuProcessExit
  <2> QED
    BY <2>1, SettledWakes DEF Settled
<1>5. ASSUME NEW p \in Procs, AuProcessClean(p) PROVE Wakes
  BY <1>5, GoneWakes DEF AuProcessClean, AuIpcProcessGone
<1>6. Wakes
  BY <1>1, <1>2, <1>3, <1>4, <1>5 DEF Next
<1>7. Wakes => Freed(call)' /\ Awake(call, sleep, pend)'
  BY DEF Wakes, Freed, Awake
<1> QED
  BY <1>0, <1>6, <1>7 DEF WInv

\* At boot no thread sleeps and every slot is free.
LEMMA WInvInit == Init => WInv
<1> SUFFICES ASSUME Init PROVE WInv
  OBVIOUS
<1>1. Freed(call) /\ Awake(call, sleep, pend)
  BY DEF Init, Freed, Awake, FreeCall
<1> QED
  BY <1>1, IInvInit DEF WInv

(***************************************************************************)
(* No wake-up of a client is lost: whoever answers or fails a call         *)
(* (do_reply, call_fail, do_recv's TOOBIG) also takes its client out of    *)
(* the sleep list, whatever prunes, deaths and time-outs come in between.  *)
(***************************************************************************)
THEOREM ClientsAreWoken == Spec => []ClientsWoken
<1>1. WInv /\ [Next]_vars => WInv'
  BY WInvStep
<1>2. WInv => ClientsWoken
  BY DEF WInv, Awake, ClientsWoken, SleepsOn, Over
<1> QED
  BY <1>1, <1>2, WInvInit, PTL DEF Spec

-----------------------------------------------------------------------------
(***************************************************************************)
(* AuIpc implements IpcCalls, for callers that neither exit nor serve: the *)
(* call a thread waits for stays its own, each request is queued once and  *)
(* held once.  As above, the invariant is stated of tables E, C, D, N, R   *)
(* (endpoints, calls, ids, counts, requests held).                         *)
(***************************************************************************)
Lasting == Callers \cap (Mortal \cup Daemons) = {}

\* A call of which its thread still gets to know.
Waited == {"QUEUED", "SERVING", "DONE", "FAILED"}

\* Who owns an endpoint is a daemon, and who died is mortal.
Served(E, S) ==
    /\ \A i \in EpSlots : E[i].used => E[i].owner \in Daemons
    /\ \A p \in Procs : S[p] # "run" => p \in Mortal

\* Calls are made by threads of the callers.
Issued(C) ==
    \A s \in CallSlots : C[s].state # "FREE" =>
        C[s].tid \in Threads /\ C[s].pid = ProcOf[C[s].tid] /\ C[s].pid \in Callers

\* A call that is not given up is the one its thread waits for, for its last
\* request, and a thread waits for such a call.
Claimed(C, D, N) ==
    /\ \A s \in CallSlots : C[s].state \in Waited =>
          /\ D[C[s].tid] = make_id(C[s].gen, s)
          /\ C[s].req = <<C[s].tid, N[C[s].tid]>>
          /\ C[s].state = "DONE" => C[s].resp = C[s].req
    /\ \A t \in Threads : D[t] # NoId =>
          /\ C[D[t][2]].state \in Waited
          /\ C[D[t][2]].tid = t /\ C[D[t][2]].gen = D[t][1]

\* An entry of a queue is a call for this endpoint that no server took, and
\* is there once.
Entry(e, i, C, k) ==
    LET c == C[e.queue[k]] IN
    /\ c.state \in {"QUEUED", "ABANDONED"}
    /\ c.ep = i /\ c.epgen = e.gen
    /\ \A l \in 1 .. Len(e.queue) : e.queue[l] = e.queue[k] => l = k

Lined(E, C) == \A i \in EpSlots : \A k \in 1 .. Len(E[i].queue) : Entry(E[i], i, C, k)

\* The endpoint a request came from is still there.
Fresh(E, m) == m.h[1] = E[m.h[2]].gen

\* Process p holds request m of a call that no queue has any more.
Taken(E, C, p, m) ==
    LET e == E[m.h[2]]
        c == C[m.id[2]]
    IN  /\ e.used /\ e.owner = p
        /\ c.state \in {"SERVING", "ABANDONED"} /\ c.req = m.req
        /\ c.ep = m.h[2] /\ c.epgen = m.h[1]
        /\ \A k \in 1 .. Len(e.queue) : e.queue[k] # m.id[2]

HeldOnce(E, C, R) ==
    /\ \A p \in Procs : \A m \in R[p] :
          m.h[1] <= E[m.h[2]].gen /\ (Fresh(E, m) => Taken(E, C, p, m))
    /\ \A p, q \in Procs : \A m \in R[p], n \in R[q] :
          Fresh(E, m) /\ Fresh(E, n) /\ m.id[2] = n.id[2] => m = n

Runs(E, C, D, N, R) == Issued(C) /\ Claimed(C, D, N) /\ Lined(E, C) /\ HeldOnce(E, C, R)

RInv == IInv /\ Served(ep, pstate) /\ Runs(ep, call, pend, cnt, rcvd)

Ids == {NoId} \cup (Nat \X CallSlots)

\* What a step may make of call c: a waited-for one stays that, another one is
\* left alone or freed.
KeptCall(c, d) ==
    IF c.state \in Waited
    THEN /\ d.state \in Waited
         /\ d.gen = c.gen /\ d.tid = c.tid /\ d.pid = c.pid /\ d.req = c.req
         /\ d.state = "DONE" => d.resp = d.req
    ELSE d = c \/ d.state = "FREE"

\* KeptCall calls are still the ones their threads wait for.
LEMMA KeptClaimed ==
    ASSUME NEW C, NEW B, NEW D \in [Threads -> Ids], NEW N, Issued(C), Claimed(C, D, N),
           \A s \in CallSlots : KeptCall(C[s], B[s])
    PROVE  Issued(B) /\ Claimed(B, D, N)
<1>1. Waited = {"QUEUED", "SERVING", "DONE", "FAILED"} /\ "FREE" \notin Waited
  BY DEF Waited
<1>2. ASSUME NEW s \in CallSlots, B[s].state # "FREE"
      PROVE  B[s].tid \in Threads /\ B[s].pid = ProcOf[B[s].tid] /\ B[s].pid \in Callers
  <2>1. KeptCall(C[s], B[s])
    OBVIOUS
  <2> QED
    BY <1>1, <1>2, <2>1 DEF KeptCall, Issued
<1>3. ASSUME NEW s \in CallSlots, B[s].state \in Waited
      PROVE  /\ D[B[s].tid] = make_id(B[s].gen, s)
             /\ B[s].req = <<B[s].tid, N[B[s].tid]>>
             /\ B[s].state = "DONE" => B[s].resp = B[s].req
  <2>1. KeptCall(C[s], B[s])
    OBVIOUS
  <2>2. C[s].state \in Waited
    BY <1>1, <1>3, <2>1 DEF KeptCall
  <2> QED
    BY <2>1, <2>2 DEF KeptCall, Claimed
<1>4. ASSUME NEW t \in Threads, D[t] # NoId
      PROVE  /\ B[D[t][2]].state \in Waited
             /\ B[D[t][2]].tid = t /\ B[D[t][2]].gen = D[t][1]
  <2>1. D[t][2] \in CallSlots
    BY <1>4 DEF Ids
  <2>2. KeptCall(C[D[t][2]], B[D[t][2]])
    BY <2>1
  <2>3. C[D[t][2]].state \in Waited /\ C[D[t][2]].tid = t /\ C[D[t][2]].gen = D[t][1]
    BY <1>4 DEF Claimed
  <2> QED
    BY <2>2, <2>3 DEF KeptCall
<1> QED
  BY <1>2, <1>3, <1>4 DEF Issued, Claimed

\* Requests stay held once if the fresh ones were fresh before and are still
\* those of their calls.
LEMMA HeldKept ==
    ASSUME NEW E \in [EpSlots -> EndpointRec], NEW F \in [EpSlots -> EndpointRec],
           NEW C, NEW B, NEW R \in [Procs -> SUBSET Received], NEW Q,
           HeldOnce(E, C, R), \A p \in Procs : Q[p] \subseteq R[p],
           \A i \in EpSlots : F[i].gen >= E[i].gen,
           \A p \in Procs : \A m \in Q[p] :
               Fresh(E, m) /\ Fresh(F, m) /\ Taken(E, C, p, m) => Taken(F, B, p, m)
    PROVE  HeldOnce(F, B, Q)
<1>1. ASSUME NEW p \in Procs, NEW m \in Q[p]
      PROVE  /\ m.h[1] <= F[m.h[2]].gen
             /\ Fresh(F, m) => Fresh(E, m) /\ Taken(E, C, p, m)
  <2>1. m \in R[p]
    OBVIOUS
  <2>2. m \in Received
    BY <2>1
  <2>3. m.h[1] \in Nat /\ m.h[2] \in EpSlots
    BY <2>2 DEF Received
  <2> DEFINE a == m.h[1]
             x == E[m.h[2]].gen
             y == F[m.h[2]].gen
  <2>4. a \in Nat /\ x \in Nat /\ y \in Nat
    BY <2>3 DEF EndpointRec
  <2>5. a <= x /\ (a = x => Taken(E, C, p, m))
    BY <2>1 DEF HeldOnce, Fresh
  <2>6. y >= x
    BY <2>3
  <2>7. Fresh(E, m) = (a = x) /\ Fresh(F, m) = (a = y)
    BY DEF Fresh
  <2> HIDE DEF a, x, y
  <2>8. a <= y /\ (a = y => a = x)
    BY <2>4, <2>5, <2>6
  <2> QED
    BY <2>5, <2>7, <2>8 DEF a, y
<1>2. ASSUME NEW p \in Procs, NEW m \in Q[p]
      PROVE  m.h[1] <= F[m.h[2]].gen /\ (Fresh(F, m) => Taken(F, B, p, m))
  BY <1>1, <1>2
<1>3. ASSUME NEW p \in Procs, NEW q \in Procs, NEW m \in Q[p], NEW n \in Q[q],
             Fresh(F, m), Fresh(F, n), m.id[2] = n.id[2]
      PROVE  m = n
  <2>1. Fresh(E, m) /\ Fresh(E, n) /\ m \in R[p] /\ n \in R[q]
    BY <1>1, <1>3
  <2> QED
    BY <1>3, <2>1 DEF HeldOnce
<1> QED
  BY <1>2, <1>3 DEF HeldOnce

\* How far a step may take the state of a call that is waited for.
GoesOn(x, y) ==
    \/ y = x
    \/ x \in InFlight /\ y = "FAILED"
    \/ x = "QUEUED" /\ y = "SERVING"
    \/ x = "SERVING" /\ y = "DONE"

Advanced(C, B) == \A s \in CallSlots : C[s].state \in Waited => GoesOn(C[s].state, B[s].state)

\* The teardown of processes that make no calls only fails calls.
LEMMA GoneIs ==
    ASSUME NEW C \in [CallSlots -> CallRec], Issued(C), NEW P, P \cap Callers = {},
           NEW s \in CallSlots
    PROVE  \/ /\ ~Fails(P, C[s])
              /\ \/ GoneCalls(P, C)[s] = C[s]
                 \/ C[s].state = "FREE" /\ GoneCalls(P, C)[s].state = "FREE"
           \/ /\ Fails(P, C[s]) /\ C[s].state \in InFlight
              /\ GoneCalls(P, C)[s] = [C[s] EXCEPT !.state = "FAILED"]
<1>1. CASE C[s].state = "FREE"
  <2>1. C[s].state \notin InFlight /\ ~Fails(P, C[s])
    BY <1>1 DEF Fails, InFlight
  <2>2. GoneCalls(P, C)[s] = C[s] \/ GoneCalls(P, C)[s] = FreeCall
    BY <2>1 DEF GoneCalls
  <2> QED
    BY <1>1, <2>1, <2>2 DEF FreeCall
<1>2. CASE C[s].state # "FREE"
  <2>1. C[s].pid \notin P
    BY <1>2 DEF Issued
  <2>2. Fails(P, C[s]) => C[s].state \in InFlight
    BY DEF Fails
  <2>3. GoneCalls(P, C)[s] = IF Fails(P, C[s]) THEN [C[s] EXCEPT !.state = "FAILED"] ELSE C[s]
    BY <2>1 DEF GoneCalls
  <2> QED
    BY <2>2, <2>3
<1> QED
  BY <1>1, <1>2

\* The calls of an endpoint that stays do not fail.
LEMMA GoneStays ==
    ASSUME NEW P, NEW c, c.ep \notin OwnedBy(P)
    PROVE  ~Fails(P, c)
BY DEF Fails

\* Whatever processes go, if they make no calls, requests stay as they should.
LEMMA GoneRuns ==
    ASSUME RInv, NEW P, P \cap Callers = {}
    PROVE  /\ Runs(GoneEp(P), GoneCall(P), pend, cnt, rcvd)
           /\ Advanced(call, GoneCall(P)) /\ Served(GoneEp(P), pstate)
<1> DEFINE E == GoneEp(P)
           B == GoneCall(P)
<1>1. /\ ep \in [EpSlots -> EndpointRec] /\ call \in [CallSlots -> CallRec]
      /\ pend \in [Threads -> Ids] /\ rcvd \in [Procs -> SUBSET Received]
  BY DEF RInv, IInv, TypeOK, Ids
<1>2. Issued(call) /\ Claimed(call, pend, cnt) /\ Lined(ep, call) /\ HeldOnce(ep, call, rcvd)
  BY DEF RInv, Runs
<1>3. \A s \in CallSlots :
         \/ /\ ~Fails(P, call[s])
            /\ B[s] = call[s] \/ (call[s].state = "FREE" /\ B[s].state = "FREE")
         \/ /\ Fails(P, call[s]) /\ call[s].state \in InFlight
            /\ B[s] = [call[s] EXCEPT !.state = "FAILED"]
  BY <1>1, <1>2, GoneIs DEF GoneCall
<1>4. \A i \in EpSlots : i \notin OwnedBy(P) => E[i] = ep[i]
  BY GoneEpKeeps DEF RInv
<1>5. \A i \in EpSlots : i \in OwnedBy(P) => ~E[i].used /\ E[i].queue = <<>>
  BY DEF GoneEp, NoEp
<1>6. KeepsHandles(E) /\ E \in [EpSlots -> EndpointRec]
  BY GoneKeepsHandles, GoneEpType DEF RInv, IInv
<1> HIDE DEF E, B
<1>7. ASSUME NEW s \in CallSlots
      PROVE  /\ KeptCall(call[s], B[s])
             /\ call[s].state \in Waited => GoesOn(call[s].state, B[s].state)
  <2>1. call[s] \in CallRec
    BY <1>1
  <2>2. CASE B[s] = call[s]
    BY <1>2, <2>2 DEF KeptCall, GoesOn, Claimed
  <2>3. CASE call[s].state = "FREE" /\ B[s].state = "FREE"
    BY <2>3 DEF KeptCall, Waited
  <2>4. CASE call[s].state \in InFlight /\ B[s] = [call[s] EXCEPT !.state = "FAILED"]
    <3>1. /\ B[s].state = "FAILED" /\ B[s].gen = call[s].gen /\ B[s].tid = call[s].tid
          /\ B[s].pid = call[s].pid /\ B[s].req = call[s].req
      BY <2>1, <2>4 DEF CallRec
    <3> QED
      BY <2>4, <3>1 DEF KeptCall, GoesOn, Waited, InFlight
  <2> QED
    BY <1>3, <2>2, <2>3, <2>4
<1>8. Issued(B) /\ Claimed(B, pend, cnt)
  BY <1>1, <1>2, <1>7, KeptClaimed
<1>9. ASSUME NEW s \in CallSlots, call[s].ep \notin OwnedBy(P), call[s].state # "FREE"
      PROVE  B[s] = call[s]
  BY <1>3, <1>9, GoneStays
<1>10. Lined(E, B)
  <2> SUFFICES ASSUME NEW i \in EpSlots, NEW k \in 1 .. Len(E[i].queue)
               PROVE  Entry(E[i], i, B, k)
    BY DEF Lined
  <2>1. i \notin OwnedBy(P)
    BY <1>5
  <2>2. E[i] = ep[i] /\ Entry(ep[i], i, call, k)
    BY <1>2, <1>4, <2>1 DEF Lined
  <2>3. ep[i].queue[k] \in CallSlots
    BY <1>1, <2>2, ElementOfSeq DEF EndpointRec
  <2>4. B[ep[i].queue[k]] = call[ep[i].queue[k]]
    BY <1>9, <2>1, <2>2, <2>3 DEF Entry
  <2> QED
    BY <2>2, <2>4 DEF Entry
<1>11. HeldOnce(E, B, rcvd)
  <2>1. ASSUME NEW p \in Procs, NEW m \in rcvd[p], Fresh(ep, m), Fresh(E, m), Taken(ep, call, p, m)
        PROVE  Taken(E, B, p, m)
    <3>1. m.h[2] \in EpSlots /\ m.id[2] \in CallSlots /\ m.h[1] \in Nat
      <4>1. m \in Received
        BY <1>1
      <4> QED
        BY <4>1 DEF Received
    <3>2. E[m.h[2]].gen = ep[m.h[2]].gen /\ ep[m.h[2]].used
      BY <2>1 DEF Fresh, Taken
    <3>3. E[m.h[2]].used
      BY <1>6, <3>1, <3>2, GensBelow DEF KeepsHandles, RInv
    <3>4. m.h[2] \notin OwnedBy(P) /\ E[m.h[2]] = ep[m.h[2]]
      BY <1>4, <1>5, <3>1, <3>3
    <3>5. B[m.id[2]] = call[m.id[2]]
      BY <1>9, <2>1, <3>1, <3>4 DEF Taken
    <3> QED
      BY <2>1, <3>4, <3>5 DEF Taken
  <2>2. \A i \in EpSlots : E[i].gen >= ep[i].gen
    BY <1>6 DEF KeepsHandles
  <2> QED
    BY <1>1, <1>2, <1>6, <2>1, <2>2, HeldKept
<1>12. Served(E, pstate)
  BY <1>4, <1>5 DEF Served, RInv
<1> QED
  BY <1>7, <1>8, <1>10, <1>11, <1>12 DEF Runs, Advanced, E, B

\* A thread that waits for nothing gets a free slot for its next request, at
\* the end of a queue.
LEMMA EnqueueRuns ==
    ASSUME NEW E \in [EpSlots -> EndpointRec], NEW C \in [CallSlots -> CallRec],
           NEW D \in [Threads -> Ids], NEW N \in [Threads -> Nat],
           NEW R \in [Procs -> SUBSET Received], Runs(E, C, D, N, R),
           NEW t \in Threads, ProcOf[t] \in Callers, D[t] = NoId,
           NEW i \in EpSlots, NEW s \in CallSlots, C[s].state = "FREE",
           NEW d, d.state = "QUEUED", d.ep = i, d.epgen = E[i].gen,
           d.tid = t, d.pid = ProcOf[t], d.req = <<t, N[t] + 1>>
    PROVE  Runs([E EXCEPT ![i].queue = Append(@, s), ![i].waiter = None], [C EXCEPT ![s] = d],
                [D EXCEPT ![t] = make_id(d.gen, s)], [N EXCEPT ![t] = @ + 1], R)
<1> DEFINE q == E[i].queue
           e == [E[i] EXCEPT !.queue = Append(@, s), !.waiter = None]
           F == [E EXCEPT ![i].queue = Append(@, s), ![i].waiter = None]
           B == [C EXCEPT ![s] = d]
           id == make_id(d.gen, s)
           D1 == [D EXCEPT ![t] = id]
           N1 == [N EXCEPT ![t] = @ + 1]
<1>0. Issued(C) /\ Claimed(C, D, N) /\ Lined(E, C) /\ HeldOnce(E, C, R)
  BY DEF Runs
<1>1. E[i] \in EndpointRec /\ q \in Seq(CallSlots) /\ Len(q) \in Nat
  BY LenProperties DEF EndpointRec
<1>2. /\ Len(Append(q, s)) = Len(q) + 1 /\ Append(q, s)[Len(q) + 1] = s
      /\ \A k \in 1 .. Len(q) : Append(q, s)[k] = q[k]
      /\ Append(q, s) \in Seq(CallSlots)
  BY <1>1, AppendProperties
<1>3. /\ e.used = E[i].used /\ e.gen = E[i].gen /\ e.owner = E[i].owner
      /\ e.queue = Append(q, s) /\ e \in EndpointRec
  BY <1>1, <1>2 DEF EndpointRec
<1>4. F[i] = e /\ \A j \in EpSlots : j # i => F[j] = E[j]
  OBVIOUS
<1>5. B[s] = d /\ \A r \in CallSlots : r # s => B[r] = C[r]
  OBVIOUS
<1>6. D1[t] = id /\ \A u \in Threads : u # t => D1[u] = D[u] /\ N1[u] = N[u]
  OBVIOUS
<1>7. N1[t] = N[t] + 1
  OBVIOUS
<1>8. id[2] = s /\ id[1] = d.gen
  BY DEF make_id
<1>9. \A g, r : make_id(g, r) # NoId
  BY DEF make_id, NoId
<1>10. \A k \in 1 .. Len(q) : q[k] \in CallSlots
  BY <1>1, ElementOfSeq
<1>11. F \in [EpSlots -> EndpointRec]
  BY <1>3
<1> HIDE DEF e, F, B, D1, N1, id
<1>12. Issued(B)
  BY <1>0, <1>5 DEF Issued
<1>13. Claimed(B, D1, N1)
  <2>1. ASSUME NEW r \in CallSlots, B[r].state \in Waited
        PROVE  /\ D1[B[r].tid] = make_id(B[r].gen, r)
               /\ B[r].req = <<B[r].tid, N1[B[r].tid]>>
               /\ B[r].state = "DONE" => B[r].resp = B[r].req
    <3>1. CASE r = s
      BY <3>1, <1>5, <1>6, <1>7 DEF id
    <3>2. CASE r # s
      <4>1. B[r] = C[r] /\ C[r].state \in Waited
        BY <3>2, <1>5, <2>1
      <4>2. C[r].tid \in Threads
        BY <1>0, <4>1 DEF Issued, Waited
      <4>3. D[C[r].tid] = make_id(C[r].gen, r)
        BY <1>0, <4>1 DEF Claimed
      <4>4. C[r].tid # t
        BY <4>3, <1>9
      <4> QED
        BY <1>0, <1>6, <4>1, <4>2, <4>4 DEF Claimed
    <3> QED
      BY <3>1, <3>2
  <2>2. ASSUME NEW u \in Threads, D1[u] # NoId
        PROVE  /\ B[D1[u][2]].state \in Waited
               /\ B[D1[u][2]].tid = u /\ B[D1[u][2]].gen = D1[u][1]
    <3>1. CASE u = t
      BY <3>1, <1>5, <1>6, <1>8 DEF Waited
    <3>2. CASE u # t
      <4>1. D1[u] = D[u]
        BY <3>2, <1>6
      <4>2. D[u][2] \in CallSlots
        BY <2>2, <4>1 DEF Ids
      <4>3. C[D[u][2]].state \in Waited /\ C[D[u][2]].tid = u /\ C[D[u][2]].gen = D[u][1]
        BY <1>0, <2>2, <4>1 DEF Claimed
      <4>4. D[u][2] # s
        BY <4>3 DEF Waited
      <4> QED
        BY <1>5, <4>1, <4>2, <4>3, <4>4
    <3> QED
      BY <3>1, <3>2
  <2> QED
    BY <2>1, <2>2 DEF Claimed
<1>14. \A k \in 1 .. Len(q) : q[k] # s
  BY <1>0 DEF Lined, Entry
<1>15. Lined(F, B)
  <2> SUFFICES ASSUME NEW j \in EpSlots, NEW k \in 1 .. Len(F[j].queue)
               PROVE  Entry(F[j], j, B, k)
    BY DEF Lined
  <2>1. CASE j # i
    <3>1. F[j] = E[j] /\ Entry(E[j], j, C, k)
      BY <1>0, <1>4, <2>1 DEF Lined
    <3>2. E[j].queue[k] \in CallSlots
      BY <3>1, ElementOfSeq DEF EndpointRec
    <3>3. B[E[j].queue[k]] = C[E[j].queue[k]]
      BY <1>5, <3>1, <3>2 DEF Entry
    <3> QED
      BY <3>1, <3>3 DEF Entry
  <2>2. CASE j = i /\ k # Len(q) + 1
    <3>1. F[j].queue = Append(q, s) /\ F[j].gen = E[i].gen /\ k \in 1 .. Len(q)
      BY <1>1, <1>2, <1>3, <1>4, <2>2
    <3>2. Entry(E[i], i, C, k) /\ q[k] # s /\ q[k] \in CallSlots
      BY <1>0, <1>10, <1>14, <3>1 DEF Lined
    <3>3. B[q[k]] = C[q[k]] /\ F[j].queue[k] = q[k]
      BY <1>2, <1>5, <3>1, <3>2
    <3>4. ASSUME NEW l \in 1 .. Len(q) + 1, Append(q, s)[l] = q[k] PROVE l = k
      <4>1. l # Len(q) + 1
        BY <1>2, <3>2, <3>4
      <4>2. l \in 1 .. Len(q) /\ q[l] = q[k]
        BY <1>1, <1>2, <3>4, <4>1
      <4> QED
        BY <3>2, <4>2 DEF Entry
    <3> QED
      BY <1>2, <2>2, <3>1, <3>2, <3>3, <3>4 DEF Entry
  <2>3. CASE j = i /\ k = Len(q) + 1
    <3>1. F[j].queue = Append(q, s) /\ F[j].gen = E[i].gen
      BY <1>3, <1>4, <2>3
    <3>2. F[j].queue[k] = s /\ B[s] = d
      BY <1>2, <1>5, <2>3, <3>1
    <3>3. ASSUME NEW l \in 1 .. Len(q) + 1, Append(q, s)[l] = s PROVE l = k
      <4>1. l \notin 1 .. Len(q)
        BY <1>2, <1>14, <3>3
      <4> QED
        BY <1>1, <2>3, <4>1
    <3> QED
      BY <1>2, <2>3, <3>1, <3>2, <3>3 DEF Entry
  <2> QED
    BY <2>1, <2>2, <2>3
<1>16. HeldOnce(F, B, R)
  <2>1. \A j \in EpSlots : F[j].gen = E[j].gen /\ F[j].used = E[j].used /\ F[j].owner = E[j].owner
    BY <1>3, <1>4
  <2>2. ASSUME NEW p \in Procs, NEW m \in R[p], Taken(E, C, p, m) PROVE Taken(F, B, p, m)
    <3>1. m.h[2] \in EpSlots /\ m.id[2] \in CallSlots
      <4>1. m \in Received
        OBVIOUS
      <4> QED
        BY <4>1 DEF Received
    <3>2. m.id[2] # s /\ B[m.id[2]] = C[m.id[2]]
      BY <1>5, <2>2, <3>1 DEF Taken
    <3>3. \A k \in 1 .. Len(F[m.h[2]].queue) : F[m.h[2]].queue[k] # m.id[2]
      <4>1. CASE m.h[2] # i
        BY <1>4, <2>2, <3>1, <4>1 DEF Taken
      <4>2. CASE m.h[2] = i
        <5>1. F[i].queue = Append(q, s) /\ \A k \in 1 .. Len(q) : q[k] # m.id[2]
          BY <1>3, <1>4, <2>2, <4>2 DEF Taken
        <5>2. \A k \in 1 .. Len(q) + 1 : k \in 1 .. Len(q) \/ k = Len(q) + 1
          BY <1>1
        <5> QED
          BY <1>2, <3>2, <4>2, <5>1, <5>2
      <4> QED
        BY <4>1, <4>2
    <3> QED
      BY <2>1, <2>2, <3>1, <3>2, <3>3 DEF Taken
  <2>3. \A j \in EpSlots : F[j].gen >= E[j].gen
    BY <2>1 DEF EndpointRec
  <2> QED
    BY <1>0, <1>11, <2>2, <2>3, HeldKept
<1> QED
  BY <1>12, <1>13, <1>15, <1>16 DEF Runs, F, B, D1, N1, id

\* A new endpoint in slot i has an empty queue and a generation no request has seen.
LEMMA CreateRuns ==
    ASSUME NEW E \in [EpSlots -> EndpointRec], NEW C \in [CallSlots -> CallRec],
           NEW D, NEW N, NEW R \in [Procs -> SUBSET Received], Runs(E, C, D, N, R),
           NEW i \in EpSlots, ~E[i].used, NEW e \in EndpointRec, e.queue = <<>>,
           e.gen = E[i].gen \/ e.gen > E[i].gen
    PROVE  Runs([E EXCEPT ![i] = e], C, D, N, R)
<1> DEFINE F == [E EXCEPT ![i] = e]
<1>1. F[i] = e /\ F \in [EpSlots -> EndpointRec] /\ \A j \in EpSlots : j # i => F[j] = E[j]
  OBVIOUS
<1>2. Lined(E, C) /\ HeldOnce(E, C, R)
  BY DEF Runs
<1> HIDE DEF F
<1>3. Lined(F, C)
  BY <1>1, <1>2 DEF Lined
<1>4. ASSUME NEW j \in EpSlots PROVE F[j].gen >= E[j].gen
  <2>1. E[j].gen \in Nat /\ e.gen \in Nat
    BY DEF EndpointRec
  <2>2. F[j].gen = E[j].gen \/ (F[j].gen = e.gen /\ e.gen > E[j].gen)
    BY <1>1
  <2> QED
    BY <2>1, <2>2
<1>5. ASSUME NEW p \in Procs, NEW m \in R[p], Taken(E, C, p, m) PROVE Taken(F, C, p, m)
  <2>1. m.h[2] \in EpSlots
    <3>1. m \in Received
      OBVIOUS
    <3> QED
      BY <3>1 DEF Received
  <2>2. F[m.h[2]] = E[m.h[2]]
    BY <1>1, <1>5, <2>1 DEF Taken
  <2> QED
    BY <1>5, <2>2 DEF Taken
<1>6. HeldOnce(F, C, R)
  BY <1>1, <1>2, <1>4, <1>5, HeldKept
<1> QED
  BY <1>3, <1>6 DEF Runs, F

\* What an action other than FETCH has to show.
RunsNext == Served(ep', pstate') /\ Runs(ep', call', pend', cnt', rcvd')

\* A thread makes a new request, or its call goes on.
Forward ==
    /\ Advanced(call, call')
    /\ \A t \in Threads :
          \/ pend'[t] = pend[t] /\ cnt'[t] = cnt[t]
          \/ /\ pend[t] = NoId /\ cnt[t] < MaxReq
             /\ pend'[t] # NoId /\ cnt'[t] = cnt[t] + 1
             /\ call'[pend'[t][2]].state = "QUEUED"

\* What the type invariant says of the variables of the invariant.
LEMMA RunsTypes ==
    ASSUME RInv
    PROVE  /\ ep \in [EpSlots -> EndpointRec] /\ call \in [CallSlots -> CallRec]
           /\ pend \in [Threads -> Ids] /\ cnt \in [Threads -> Nat]
           /\ rcvd \in [Procs -> SUBSET Received]
           /\ Issued(call) /\ Claimed(call, pend, cnt)
           /\ Lined(ep, call) /\ HeldOnce(ep, call, rcvd)
BY IpcConstants DEF RInv, IInv, TypeOK, Ids, Runs

\* A call table that keeps every state is not ahead.
LEMMA SameForward ==
    ASSUME UNCHANGED <<call, pend, cnt>> PROVE Forward
BY DEF Forward, Advanced, GoesOn

\* The prune before create, connect and call.
LEMMA PruneRuns ==
    ASSUME RInv, Lasting
    PROVE  /\ Runs(PrunedEp, PrunedCall, pend, cnt, rcvd)
           /\ Advanced(call, PrunedCall) /\ Served(PrunedEp, pstate)
<1>1. DeadOwners \cap Callers = {}
  BY DEF DeadOwners, Lasting, RInv, Served
<1> QED
  BY <1>1, GoneRuns DEF PrunedEp, PrunedCall

\* A step that does no more than ipc_prune_dead.
LEMMA OnlyPruneRuns ==
    ASSUME RInv, Lasting, OnlyPrune PROVE RunsNext /\ Forward
BY PruneRuns DEF OnlyPrune, RunsNext, Forward

\* CREATE touches no request.
LEMMA DoCreateRuns ==
    ASSUME RInv, Lasting, NEW t \in Threads, NEW name \in Names, NEW acl \in Acls,
           do_create(t, name, acl)
    PROVE  RunsNext /\ Forward
<1>1. CASE OnlyPrune
  BY <1>1, OnlyPruneRuns
<1>2. CASE ~OnlyPrune
  <2> DEFINE i == Lowest(EpFree(PrunedEp))
             g == IF PrunedEp[i].gen # 0 THEN PrunedEp[i].gen ELSE PrunedGen
             e == [used |-> TRUE, gen |-> g, name |-> name, owner |-> ProcOf[t],
                   acl |-> acl, waiter |-> None, queue |-> <<>>]
  <2>1. /\ CanCreate(name) /\ ep' = [PrunedEp EXCEPT ![i] = e]
        /\ call' = PrunedCall /\ UNCHANGED <<pstate, pend, cnt, rcvd>>
        /\ ProcOf[t] \in Daemons
    BY <1>2 DEF do_create
  <2>2. i \in EpSlots /\ ~PrunedEp[i].used
    BY <2>1, FreeSlots DEF CanCreate, EpFree
  <2>3. /\ PrunedEp \in [EpSlots -> EndpointRec] /\ PrunedGen \in Nat \ {0}
        /\ PrunedCall \in [CallSlots -> CallRec]
    BY PrunedType DEF RInv, IInv
  <2>4. PrunedEp[i].gen \in Nat
    BY <2>2, <2>3 DEF EndpointRec
  <2>5. g = PrunedEp[i].gen \/ g > PrunedEp[i].gen
    BY <2>3, <2>4
  <2>6. g \in Nat
    BY <2>3, <2>4
  <2>7. e \in EndpointRec /\ e.queue = <<>> /\ e.gen = g /\ e.owner = ProcOf[t]
    <3>1. << >> \in Seq(CallSlots) /\ ProcOf[t] \in Procs
      BY IpcConstants
    <3> HIDE DEF g
    <3> QED
      BY <2>6, <3>1 DEF EndpointRec
  <2> HIDE DEF i, g, e
  <2>8. Runs(ep', call', pend', cnt', rcvd')
    <3>1. Runs([PrunedEp EXCEPT ![i] = e], PrunedCall, pend, cnt, rcvd)
      BY <2>2, <2>3, <2>5, <2>7, PruneRuns, RunsTypes, CreateRuns
    <3> QED
      BY <2>1, <3>1
  <2>9. Served(ep', pstate')
    <3>1. Served(PrunedEp, pstate)
      BY PruneRuns
    <3>2. \A j \in EpSlots : ep'[j] = IF j = i THEN e ELSE PrunedEp[j]
      BY <2>1, <2>3
    <3> QED
      BY <2>1, <2>7, <3>1, <3>2 DEF Served
  <2>10. Forward
    BY <2>1, PruneRuns DEF Forward
  <2> QED
    BY <2>8, <2>9, <2>10 DEF RunsNext
<1> QED
  BY <1>1, <1>2

\* CALL queues a request of a thread that waits for nothing.
LEMMA DoCallRuns ==
    ASSUME RInv, Lasting, NEW t \in Threads, NEW h \in Handles, do_call(t, h)
    PROVE  RunsNext /\ Forward
<1>1. CASE OnlyPrune
  BY <1>1, OnlyPruneRuns
<1>2. CASE ~OnlyPrune
  <2> DEFINE s == Lowest(CallFree(PrunedCall))
             i == h[2]
             d == QueuedCall(t, i, PrunedCall[s].gen + 1)
             id == make_id(PrunedCall[s].gen + 1, s)
  <2>1. /\ Admitted(t, h)
        /\ ep' = [PrunedEp EXCEPT ![i].queue = Append(@, s), ![i].waiter = None]
        /\ call' = [PrunedCall EXCEPT ![s] = d]
        /\ pend' = [pend EXCEPT ![t] = id] /\ cnt' = [cnt EXCEPT ![t] = @ + 1]
        /\ UNCHANGED <<pstate, rcvd>>
        /\ pend[t] = NoId /\ ProcOf[t] \in Callers /\ cnt[t] < MaxReq
    BY <1>2 DEF do_call, Enqueue, Idle
  <2>2. i \in EpSlots /\ s \in CallSlots /\ PrunedCall[s].state = "FREE"
    BY <2>1, FreeSlots DEF Admitted, CallFree, ep_from_handle
  <2>3. PrunedEp \in [EpSlots -> EndpointRec] /\ PrunedCall \in [CallSlots -> CallRec]
    BY PrunedType DEF RInv, IInv
  <2>4. /\ d.state = "QUEUED" /\ d.ep = i /\ d.epgen = PrunedEp[i].gen /\ d.tid = t
        /\ d.pid = ProcOf[t] /\ d.req = <<t, cnt[t] + 1>> /\ id = make_id(d.gen, s)
    BY DEF QueuedCall
  <2>5. id # NoId /\ id[2] = s
    BY DEF make_id, NoId
  <2> HIDE DEF s, i, d, id
  <2>6. Runs(ep', call', pend', cnt', rcvd')
    <3>1. Runs([PrunedEp EXCEPT ![i].queue = Append(@, s), ![i].waiter = None],
               [PrunedCall EXCEPT ![s] = d], [pend EXCEPT ![t] = make_id(d.gen, s)],
               [cnt EXCEPT ![t] = @ + 1], rcvd)
      BY <2>1, <2>2, <2>3, <2>4, PruneRuns, RunsTypes, EnqueueRuns
    <3> QED
      BY <2>1, <2>4, <3>1
  <2>7. Served(ep', pstate')
    <3>1. Served(PrunedEp, pstate)
      BY PruneRuns
    <3>2. \A j \in EpSlots : ep'[j].used = PrunedEp[j].used /\ ep'[j].owner = PrunedEp[j].owner
      BY <2>1, <2>3 DEF EndpointRec
    <3> QED
      BY <2>1, <3>1, <3>2 DEF Served
  <2>8. Advanced(call, call')
    <3> SUFFICES ASSUME NEW r \in CallSlots, call[r].state \in Waited
                 PROVE  GoesOn(call[r].state, call'[r].state)
      BY DEF Advanced
    <3>1. GoesOn(call[r].state, PrunedCall[r].state)
      BY PruneRuns DEF Advanced
    <3>2. PrunedCall[r].state # "FREE"
      BY <3>1 DEF GoesOn, Waited
    <3>3. call'[r] = PrunedCall[r]
      BY <2>1, <2>2, <2>3, <3>2
    <3> QED
      BY <3>1, <3>3
  <2>9. ASSUME NEW u \in Threads
        PROVE  \/ pend'[u] = pend[u] /\ cnt'[u] = cnt[u]
               \/ /\ pend[u] = NoId /\ cnt[u] < MaxReq
                  /\ pend'[u] # NoId /\ cnt'[u] = cnt[u] + 1
                  /\ call'[pend'[u][2]].state = "QUEUED"
    <3>1. CASE u = t
      BY <2>1, <2>2, <2>3, <2>4, <2>5, <3>1, RunsTypes
    <3>2. CASE u # t
      BY <2>1, <3>2, RunsTypes
    <3> QED
      BY <3>1, <3>2
  <2> QED
    BY <2>6, <2>7, <2>8, <2>9 DEF RunsNext, Forward
<1> QED
  BY <1>1, <1>2

\* The teardown of one server.
LEMMA ProcessGoneRuns ==
    ASSUME RInv, NEW p \in Procs, p \notin Callers, AuIpcProcessGone(p),
           UNCHANGED <<pend, cnt, rcvd>>, \A q \in Procs : pstate'[q] = "run" \/ q \in Mortal
    PROVE  RunsNext /\ Forward
<1>1. {p} \cap Callers = {}
  OBVIOUS
<1>2. /\ Runs(GoneEp({p}), GoneCall({p}), pend, cnt, rcvd)
      /\ Advanced(call, GoneCall({p})) /\ Served(GoneEp({p}), pstate)
  BY <1>1, GoneRuns
<1> QED
  BY <1>2 DEF AuIpcProcessGone, RunsNext, Forward, Served

\* What RECV meets: it frees calls of this endpoint that were given up, takes the
\* next one, which is queued, and leaves the entries behind it.
LEMMA ScanIs ==
    ASSUME RInv, NEW h \in Handles
    PROVE  /\ \A s \in CallSlots :
                 \/ Scanned(h)[s] = call[s]
                 \/ /\ Scanned(h)[s].state = "FREE" /\ call[s].state = "ABANDONED"
                    /\ call[s].ep = h[2]
                    /\ \E k \in 1 .. Len(ep[h[2]].queue) : ep[h[2]].queue[k] = s
           /\ ~Drained(h) =>
                 /\ Scanned(h)[NextSlot(h)] = call[NextSlot(h)]
                 /\ call[NextSlot(h)].state = "QUEUED" /\ call[NextSlot(h)].ep = h[2]
                 /\ call[NextSlot(h)].epgen = ep[h[2]].gen
                 /\ \A k \in 1 .. Len(Rest(h)) :
                       LET s == Rest(h)[k] IN
                       /\ s # NextSlot(h) /\ s \in CallSlots /\ Scanned(h)[s] = call[s]
                       /\ call[s].state \in {"QUEUED", "ABANDONED"}
                       /\ call[s].ep = h[2] /\ call[s].epgen = ep[h[2]].gen
                       /\ \A l \in 1 .. Len(Rest(h)) : Rest(h)[l] = s => l = k
                       /\ \E j \in 1 .. Len(ep[h[2]].queue) : ep[h[2]].queue[j] = s
<1> DEFINE i == h[2]
           q == Queue(h)
           n == Skips(q)
           r == SubSeq(q, n + 2, Len(q))
<1>1. i \in EpSlots /\ q = ep[i].queue
  BY RecvParts DEF RInv, IInv, Queue
<1>2. q \in Seq(CallSlots) /\ Len(q) \in Nat
  BY <1>1, RunsTypes, LenProperties DEF EndpointRec
<1>3. n \in 0 .. Len(q) /\ SkippedAll(q, n) /\ (n < Len(q) => ~Skipped(q, n + 1))
  BY <1>2, SkipsInQueue
<1>4. \A k \in 1 .. Len(q) :
         /\ q[k] \in CallSlots /\ call[q[k]].state \in {"QUEUED", "ABANDONED"}
         /\ call[q[k]].ep = i /\ call[q[k]].epgen = ep[i].gen
         /\ \A l \in 1 .. Len(q) : q[l] = q[k] => l = k
  <2>1. \A k \in 1 .. Len(q) : Entry(ep[i], i, call, k)
    BY <1>1, RunsTypes DEF Lined
  <2>2. \A k \in 1 .. Len(q) : q[k] \in CallSlots
    BY <1>2, ElementOfSeq
  <2> QED
    BY <1>1, <2>1, <2>2 DEF Entry
<1>5. \A s \in CallSlots :
         Scanned(h)[s] = IF \E k \in 1 .. n : q[k] = s THEN FreeCall ELSE call[s]
  BY DEF Scanned, AfterSkips
<1>6. Rest(h) = r /\ NextSlot(h) = q[n + 1] /\ (Drained(h) <=> n = Len(q))
  BY DEF Rest, NextSlot, Drained
<1>7. \A k \in 1 .. n : k \in 1 .. Len(q) /\ call[q[k]].state = "ABANDONED"
  BY <1>2, <1>3 DEF SkippedAll, Skipped
<1> HIDE DEF i, q, n
<1>8. ASSUME NEW s \in CallSlots
      PROVE  \/ Scanned(h)[s] = call[s]
             \/ /\ Scanned(h)[s].state = "FREE" /\ call[s].state = "ABANDONED"
                /\ call[s].ep = i /\ \E k \in 1 .. Len(q) : q[k] = s
  <2>1. CASE \E k \in 1 .. n : q[k] = s
    <3>1. PICK k \in 1 .. n : q[k] = s
      BY <2>1
    <3>2. Scanned(h)[s] = FreeCall
      BY <1>5, <2>1
    <3> QED
      BY <1>4, <1>7, <3>1, <3>2 DEF FreeCall
  <2>2. CASE ~ \E k \in 1 .. n : q[k] = s
    BY <1>5, <2>2
  <2> QED
    BY <2>1, <2>2
<1>9. ASSUME NEW j \in n + 1 .. Len(q) PROVE j \in 1 .. Len(q) /\ Scanned(h)[q[j]] = call[q[j]]
  <2>1. j \in 1 .. Len(q)
    BY <1>2, <1>3
  <2>2. ASSUME NEW k \in 1 .. n, q[k] = q[j] PROVE FALSE
    <3>1. k = j
      BY <1>4, <1>7, <2>1, <2>2
    <3> QED
      BY <1>2, <1>3, <3>1
  <2> QED
    BY <1>4, <1>5, <2>1, <2>2
<1>10. ASSUME n < Len(q)
       PROVE  /\ Scanned(h)[q[n + 1]] = call[q[n + 1]]
              /\ call[q[n + 1]].state = "QUEUED" /\ call[q[n + 1]].ep = i
              /\ call[q[n + 1]].epgen = ep[i].gen
  <2>1. n + 1 \in n + 1 .. Len(q) /\ n + 1 \in 1 .. Len(q)
    BY <1>2, <1>3, <1>10
  <2>2. call[q[n + 1]].state # "ABANDONED"
    <3>1. ASSUME NEW j \in 1 .. (n + 1) - 1, q[j] = q[n + 1] PROVE FALSE
      <4>1. j \in 1 .. Len(q) /\ j # n + 1
        BY <1>2, <1>3
      <4> QED
        BY <1>4, <2>1, <3>1, <4>1
    <3> QED
      BY <1>3, <1>10, <3>1 DEF Skipped
  <2> QED
    BY <1>4, <1>9, <2>1, <2>2
<1>11. ASSUME n < Len(q), NEW k \in 1 .. Len(r)
       PROVE  /\ k + n + 1 \in n + 2 .. Len(q) /\ r[k] = q[k + n + 1]
  <2>1. CASE n + 2 <= Len(q)
    <3>1. \A j \in n + 2 .. Len(q) : q[j] \in CallSlots
      BY <1>2, <1>3, <1>4
    <3>2. /\ Len(r) = Len(q) - (n + 2) + 1
          /\ \A j \in 1 .. Len(q) - (n + 2) + 1 : r[j] = q[(n + 2) + j - 1]
      BY <1>2, <1>3, <2>1, <3>1, SubSeqProperties
    <3>3. k + n + 1 \in n + 2 .. Len(q) /\ (n + 2) + k - 1 = k + n + 1
      BY <1>2, <1>3, <3>2
    <3> QED
      BY <3>2, <3>3
  <2>2. CASE ~(n + 2 <= Len(q))
    <3>1. n + 2 \in Int /\ Len(q) \in Int /\ Len(q) < n + 2
      BY <1>2, <1>3, <2>2
    <3>2. Len(r) = 0
      BY <3>1, SubSeqEmpty
    <3> HIDE DEF r
    <3> QED
      BY <1>11, <3>2
  <2> QED
    BY <2>1, <2>2
<1> HIDE DEF r
<1>12. ASSUME n < Len(q), NEW k \in 1 .. Len(r)
       PROVE  /\ r[k] # q[n + 1] /\ r[k] \in CallSlots /\ Scanned(h)[r[k]] = call[r[k]]
              /\ call[r[k]].state \in {"QUEUED", "ABANDONED"}
              /\ call[r[k]].ep = i /\ call[r[k]].epgen = ep[i].gen
              /\ \A l \in 1 .. Len(r) : r[l] = r[k] => l = k
              /\ \E j \in 1 .. Len(q) : q[j] = r[k]
  <2>1. /\ k + n + 1 \in n + 1 .. Len(q) /\ k + n + 1 \in 1 .. Len(q) /\ n + 1 \in 1 .. Len(q)
        /\ k + n + 1 # n + 1 /\ r[k] = q[k + n + 1]
    BY <1>2, <1>3, <1>11, <1>12
  <2>2. r[k] # q[n + 1]
    BY <1>4, <2>1
  <2>3. ASSUME NEW l \in 1 .. Len(r), r[l] = r[k] PROVE l = k
    <3>1. l + n + 1 \in 1 .. Len(q) /\ r[l] = q[l + n + 1]
      BY <1>2, <1>3, <1>11, <1>12
    <3>2. l + n + 1 = k + n + 1
      BY <1>4, <2>1, <2>3, <3>1
    <3>3. l \in Int /\ k \in Int /\ n \in Int
      BY <1>2, <1>3
    <3> QED
      BY <3>2, <3>3
  <2> QED
    BY <1>4, <1>9, <2>1, <2>2, <2>3
<1>13. ~Drained(h) => n < Len(q)
  BY <1>2, <1>3, <1>6
<1>14. h[2] = i
  BY DEF i
<1> QED
  BY <1>1, <1>6, <1>8, <1>10, <1>12, <1>13, <1>14

\* RECV takes a queued request out of its queue; the calls it drops nobody waits for.
LEMMA RecvRuns ==
    ASSUME RInv, NEW t \in Threads, NEW h \in Handles, NEW fits \in BOOLEAN,
           do_recv(t, h, fits)
    PROVE  RunsNext /\ Forward
<1> DEFINE i == h[2]
           p == ProcOf[t]
           x == NextSlot(h)
           m0 == Message(h)
<1>1. /\ i \in EpSlots /\ ep_from_handle(h, ep) /\ ep[i].owner = p /\ p \in Procs
      /\ Scanned(h) \in [CallSlots -> CallRec] /\ Rest(h) \in Seq(CallSlots)
      /\ ~Drained(h) => x \in CallSlots /\ m0 \in Received
  BY RecvParts, IpcConstants DEF do_recv, Owns, RInv, IInv
<1>2. PICK r \in Seq(CallSlots) : /\ ep' = [ep EXCEPT ![i].queue = r]
                                  /\ r = IF Drained(h) THEN <<>> ELSE Rest(h)
  <2>1. << >> \in Seq(CallSlots)
    OBVIOUS
  <2> QED
    BY <1>1, <2>1 DEF do_recv, RecvEmpty, RecvTooBig, RecvDeliver
<1>3. /\ ep' \in [EpSlots -> EndpointRec]
      /\ \A j \in EpSlots :
           /\ ep'[j].used = ep[j].used /\ ep'[j].gen = ep[j].gen /\ ep'[j].owner = ep[j].owner
           /\ j # i => ep'[j] = ep[j]
           /\ j = i => ep'[j].queue = r
  <2>1. ep[i] \in EndpointRec
    BY <1>1, RunsTypes
  <2> DEFINE e == [ep[i] EXCEPT !.queue = r]
  <2>2. /\ e \in EndpointRec /\ e.used = ep[i].used /\ e.gen = ep[i].gen
        /\ e.owner = ep[i].owner /\ e.queue = r
    BY <2>1 DEF EndpointRec
  <2>3. ep' = [ep EXCEPT ![i] = e]
    BY <1>2, RunsTypes
  <2> HIDE DEF e, i
  <2> QED
    BY <1>1, <2>2, <2>3, RunsTypes
<1>4. \A s \in CallSlots :
         \/ Scanned(h)[s] = call[s]
         \/ /\ Scanned(h)[s].state = "FREE" /\ call[s].state = "ABANDONED"
            /\ call[s].ep = i /\ \E k \in 1 .. Len(ep[i].queue) : ep[i].queue[k] = s
  BY ScanIs
<1>5. ~Drained(h) => /\ Scanned(h)[x] = call[x] /\ call[x].state = "QUEUED"
                     /\ call[x].ep = i /\ call[x].epgen = ep[i].gen
  BY ScanIs
<1>6. ASSUME ~Drained(h), NEW k \in 1 .. Len(Rest(h))
      PROVE  LET s == Rest(h)[k] IN
             /\ s # x /\ s \in CallSlots /\ Scanned(h)[s] = call[s]
             /\ call[s].state \in {"QUEUED", "ABANDONED"}
             /\ call[s].ep = i /\ call[s].epgen = ep[i].gen
             /\ \A l \in 1 .. Len(Rest(h)) : Rest(h)[l] = s => l = k
             /\ \E j \in 1 .. Len(ep[i].queue) : ep[i].queue[j] = s
  BY <1>6, ScanIs
<1>7. /\ Drained(h) => call' = Scanned(h) /\ rcvd' = rcvd
      /\ ~Drained(h) =>
           \/ call' = [Scanned(h) EXCEPT ![x].state = "FAILED"] /\ rcvd' = rcvd
           \/ /\ call' = [Scanned(h) EXCEPT ![x].state = "SERVING"]
              /\ rcvd' = [rcvd EXCEPT ![p] = @ \cup {m0}]
  BY DEF do_recv, RecvEmpty, RecvTooBig, RecvDeliver
<1>8. UNCHANGED <<pstate, pend, cnt>>
  BY DEF do_recv
<1>9. m0.h = h /\ m0.id[2] = x /\ m0.req = Scanned(h)[x].req
  BY DEF Message, make_id
<1> HIDE DEF i, p, x, m0
<1>10. ASSUME ~Drained(h)
       PROVE  /\ call'[x].state = "FAILED" \/ call'[x].state = "SERVING"
              /\ call'[x].gen = call[x].gen /\ call'[x].tid = call[x].tid
              /\ call'[x].pid = call[x].pid /\ call'[x].req = call[x].req
              /\ call'[x].ep = call[x].ep /\ call'[x].epgen = call[x].epgen
              /\ \A s \in CallSlots : s # x => call'[s] = Scanned(h)[s]
  <2>1. Scanned(h)[x] \in CallRec /\ Scanned(h)[x] = call[x]
    BY <1>1, <1>5, <1>10
  <2>2. PICK v \in {"FAILED", "SERVING"} : call' = [Scanned(h) EXCEPT ![x].state = v]
    BY <1>7, <1>10
  <2> DEFINE c == [call[x] EXCEPT !.state = v]
  <2>3. call'[x] = c /\ \A s \in CallSlots : s # x => call'[s] = Scanned(h)[s]
    BY <1>1, <1>10, <2>1, <2>2
  <2>4. /\ c.state = v /\ c.gen = call[x].gen /\ c.tid = call[x].tid /\ c.pid = call[x].pid
        /\ c.req = call[x].req /\ c.ep = call[x].ep /\ c.epgen = call[x].epgen
    BY <2>1 DEF CallRec
  <2> HIDE DEF c
  <2> QED
    BY <2>3, <2>4
<1>11. ASSUME NEW s \in CallSlots
       PROVE  \/ call'[s] = call[s]
              \/ /\ call'[s].state = "FREE" /\ call[s].state = "ABANDONED"
                 /\ call[s].ep = i /\ \E k \in 1 .. Len(ep[i].queue) : ep[i].queue[k] = s
              \/ ~Drained(h) /\ s = x
  BY <1>4, <1>7, <1>10
<1>12. ASSUME NEW s \in CallSlots
       PROVE  /\ KeptCall(call[s], call'[s])
              /\ call[s].state \in Waited => GoesOn(call[s].state, call'[s].state)
  <2>1. CASE call'[s] = call[s]
    BY <2>1, RunsTypes DEF KeptCall, GoesOn, Claimed
  <2>2. CASE call'[s].state = "FREE" /\ call[s].state = "ABANDONED"
    BY <2>2 DEF KeptCall, Waited
  <2>3. CASE ~Drained(h) /\ s = x
    BY <2>3, <1>5, <1>10 DEF KeptCall, GoesOn, Waited, InFlight
  <2> QED
    BY <1>11, <2>1, <2>2, <2>3
<1>13. Issued(call') /\ Claimed(call', pend', cnt')
  BY <1>8, <1>12, RunsTypes, KeptClaimed
<1>14. Lined(ep', call')
  <2> SUFFICES ASSUME NEW j \in EpSlots, NEW k \in 1 .. Len(ep'[j].queue)
               PROVE  Entry(ep'[j], j, call', k)
    BY DEF Lined
  <2>1. CASE j # i
    <3>1. ep'[j] = ep[j] /\ Entry(ep[j], j, call, k)
      BY <1>3, <2>1, RunsTypes DEF Lined
    <3>2. ep[j].queue[k] \in CallSlots
      BY <3>1, RunsTypes, ElementOfSeq DEF EndpointRec
    <3>3. call[ep[j].queue[k]].ep # i
      BY <2>1, <3>1 DEF Entry
    <3>4. call'[ep[j].queue[k]] = call[ep[j].queue[k]]
      BY <1>5, <1>11, <3>2, <3>3
    <3> QED
      BY <3>1, <3>4 DEF Entry
  <2>2. CASE j = i
    <3>1. ep'[j].queue = r /\ ep'[j].gen = ep[i].gen /\ k \in 1 .. Len(r)
      BY <1>3, <2>2
    <3>2. ~Drained(h) /\ r = Rest(h)
      BY <1>2, <3>1
    <3>3. /\ r[k] # x /\ r[k] \in CallSlots /\ Scanned(h)[r[k]] = call[r[k]]
          /\ call[r[k]].state \in {"QUEUED", "ABANDONED"}
          /\ call[r[k]].ep = i /\ call[r[k]].epgen = ep[i].gen
          /\ \A l \in 1 .. Len(r) : r[l] = r[k] => l = k
      BY <1>6, <3>1, <3>2
    <3>4. call'[r[k]] = call[r[k]]
      BY <1>10, <3>2, <3>3
    <3> QED
      BY <2>2, <3>1, <3>3, <3>4 DEF Entry
  <2> QED
    BY <2>1, <2>2
<1>15. ASSUME NEW o \in Procs, NEW m \in rcvd[o], Taken(ep, call, o, m)
       PROVE  Taken(ep', call', o, m)
  <2>1. m.h[2] \in EpSlots /\ m.id[2] \in CallSlots
    <3>1. m \in Received
      BY RunsTypes
    <3> QED
      BY <3>1 DEF Received
  <2>2. /\ call[m.id[2]].state \in {"SERVING", "ABANDONED"} /\ call[m.id[2]].ep = m.h[2]
        /\ \A k \in 1 .. Len(ep[m.h[2]].queue) : ep[m.h[2]].queue[k] # m.id[2]
    BY <1>15 DEF Taken
  <2>3. call'[m.id[2]] = call[m.id[2]]
    BY <1>5, <1>11, <2>1, <2>2
  <2>4. \A k \in 1 .. Len(ep'[m.h[2]].queue) : ep'[m.h[2]].queue[k] # m.id[2]
    <3>1. CASE m.h[2] # i
      BY <1>3, <2>1, <2>2, <3>1
    <3>2. CASE m.h[2] = i
      <4>1. ep'[m.h[2]].queue = r
        BY <1>3, <2>1, <3>2
      <4>2. ASSUME NEW k \in 1 .. Len(r), r[k] = m.id[2] PROVE FALSE
        <5>1. ~Drained(h) /\ r = Rest(h)
          BY <1>2, <4>2
        <5>2. PICK j \in 1 .. Len(ep[i].queue) : ep[i].queue[j] = r[k]
          BY <1>6, <4>2, <5>1
        <5> QED
          BY <2>2, <3>2, <4>2, <5>2
      <4> QED
        BY <4>1, <4>2
    <3> QED
      BY <3>1, <3>2
  <2> QED
    BY <1>3, <1>15, <2>1, <2>3, <2>4 DEF Taken
<1>16. HeldOnce(ep', call', rcvd)
  <2>1. \A j \in EpSlots : ep'[j].gen >= ep[j].gen
    BY <1>3, RunsTypes DEF EndpointRec
  <2> QED
    BY <1>3, <1>15, <2>1, RunsTypes, HeldKept
<1>17. HeldOnce(ep', call', rcvd')
  <2>1. CASE rcvd' = rcvd
    BY <1>16, <2>1
  <2>2. CASE /\ ~Drained(h) /\ call' = [Scanned(h) EXCEPT ![x].state = "SERVING"]
             /\ rcvd' = [rcvd EXCEPT ![p] = @ \cup {m0}]
    <3>1. \A o \in Procs : rcvd'[o] = IF o = p THEN rcvd[o] \cup {m0} ELSE rcvd[o]
      BY <2>2, <1>1, RunsTypes
    <3>2. m0.h[2] = i /\ m0.h[1] = ep'[i].gen /\ ep'[i].gen \in Nat
      BY <1>1, <1>3, <1>9 DEF ep_from_handle, i, EndpointRec
    <3>3. call'[x].state = "SERVING"
      <4>1. Scanned(h)[x] \in CallRec
        BY <1>1, <2>2
      <4> QED
        BY <1>1, <2>2, <4>1 DEF CallRec
    <3>4. \A k \in 1 .. Len(r) : r[k] # x
      BY <1>2, <1>6, <2>2
    <3>5. Taken(ep', call', p, m0)
      <4>1. ep'[i].used /\ ep'[i].owner = p /\ ep'[i].queue = r
        BY <1>1, <1>3 DEF ep_from_handle, i
      <4>2. /\ call'[x].req = m0.req /\ call'[x].ep = i /\ call'[x].epgen = m0.h[1]
        BY <1>3, <1>1, <1>5, <1>9, <1>10, <2>2, <3>2
      <4> QED
        BY <1>9, <3>2, <3>3, <3>4, <4>1, <4>2 DEF Taken
    <3>6. ASSUME NEW o \in Procs, NEW m \in rcvd[o], Fresh(ep', m), m.id[2] = x PROVE FALSE
      <4>1. m.h[2] \in EpSlots
        <5>1. m \in Received
          BY RunsTypes
        <5> QED
          BY <5>1 DEF Received
      <4>2. Fresh(ep, m)
        BY <1>3, <3>6, <4>1 DEF Fresh
      <4>3. Taken(ep, call, o, m)
        BY <4>2, RunsTypes DEF HeldOnce
      <4> QED
        BY <1>5, <2>2, <3>6, <4>3 DEF Taken
    <3>7. ASSUME NEW o \in Procs, NEW m \in rcvd'[o]
          PROVE  m.h[1] <= ep'[m.h[2]].gen /\ (Fresh(ep', m) => Taken(ep', call', o, m))
      <4>1. CASE m \in rcvd[o]
        BY <1>16, <4>1 DEF HeldOnce
      <4>2. CASE m = m0 /\ o = p
        BY <3>2, <3>5, <4>2
      <4> QED
        BY <3>1, <4>1, <4>2
    <3>8. ASSUME NEW o \in Procs, NEW q \in Procs, NEW m \in rcvd'[o], NEW n \in rcvd'[q],
                 Fresh(ep', m), Fresh(ep', n), m.id[2] = n.id[2]
          PROVE  m = n
      <4>1. (m \in rcvd[o] \/ m = m0) /\ (n \in rcvd[q] \/ n = m0)
        BY <3>1
      <4>2. CASE m \in rcvd[o] /\ n \in rcvd[q]
        BY <1>16, <3>8, <4>2 DEF HeldOnce
      <4>3. CASE m \in rcvd[o] /\ n = m0
        BY <1>9, <3>6, <3>8, <4>3
      <4>4. CASE n \in rcvd[q] /\ m = m0
        BY <1>9, <3>6, <3>8, <4>4
      <4> QED
        BY <4>1, <4>2, <4>3, <4>4
    <3> QED
      BY <3>7, <3>8 DEF HeldOnce
  <2> QED
    BY <1>7, <2>1, <2>2
<1>18. Served(ep', pstate')
  BY <1>3, <1>8 DEF Served, RInv
<1>19. Forward
  BY <1>8, <1>12 DEF Forward, Advanced
<1> QED
  BY <1>13, <1>14, <1>17, <1>18, <1>19 DEF RunsNext, Runs

\* A step that leaves the endpoints alone, and the calls that are queued or held.
LEMMA CallsOnlyRuns ==
    ASSUME RInv, UNCHANGED ep, NEW B, NEW Q, \A p \in Procs : Q[p] \subseteq rcvd[p],
           \A i \in EpSlots : \A k \in 1 .. Len(ep[i].queue) :
               LET s == ep[i].queue[k] IN
               /\ B[s].state \in {"QUEUED", "ABANDONED"}
               /\ B[s].ep = call[s].ep /\ B[s].epgen = call[s].epgen,
           \A p \in Procs : \A m \in Q[p] :
               LET s == m.id[2] IN
               Fresh(ep, m) /\ Taken(ep, call, p, m) =>
                   /\ B[s].state \in {"SERVING", "ABANDONED"} /\ B[s].req = call[s].req
                   /\ B[s].ep = call[s].ep /\ B[s].epgen = call[s].epgen
    PROVE  Lined(ep', B) /\ HeldOnce(ep', B, Q)
<1>1. Lined(ep, B)
  BY RunsTypes DEF Lined, Entry
<1>2. HeldOnce(ep, B, Q)
  <2>1. \A i \in EpSlots : ep[i].gen >= ep[i].gen
    BY RunsTypes DEF EndpointRec
  <2>2. \A p \in Procs : \A m \in Q[p] :
           Fresh(ep, m) /\ Fresh(ep, m) /\ Taken(ep, call, p, m) => Taken(ep, B, p, m)
    BY DEF Taken
  <2> QED
    BY <2>1, <2>2, RunsTypes, HeldKept
<1> QED
  BY <1>1, <1>2

\* REPLY answers the call the request came from, or frees it.
LEMMA ReplyRuns ==
    ASSUME RInv, NEW t \in Threads, NEW m \in rcvd[ProcOf[t]], do_reply(t, m)
    PROVE  RunsNext /\ Forward
<1> DEFINE p == ProcOf[t]
           s == m.id[2]
<1>1. /\ p \in Procs /\ m \in Received /\ s \in CallSlots /\ m.h[2] \in EpSlots
  <2>1. p \in Procs
    BY IpcConstants
  <2>2. m \in Received
    BY <2>1, RunsTypes
  <2> QED
    BY <2>1, <2>2 DEF Received
<1>2. /\ UNCHANGED <<ep, pstate, pend, cnt>> /\ rcvd' = [rcvd EXCEPT ![p] = @ \ {m}]
  BY DEF do_reply
<1>3. /\ \A o \in Procs : rcvd'[o] \subseteq rcvd[o]
      /\ m \notin rcvd'[p]
  BY <1>1, <1>2, RunsTypes
<1>4. CASE call' = call
  <2>1. Lined(ep', call') /\ HeldOnce(ep', call', rcvd')
    <3>1. \A i \in EpSlots : \A k \in 1 .. Len(ep[i].queue) :
             call[ep[i].queue[k]].state \in {"QUEUED", "ABANDONED"}
      BY RunsTypes DEF Lined, Entry
    <3>2. \A o \in Procs : \A n \in rcvd'[o] :
             Fresh(ep, n) /\ Taken(ep, call, o, n) => call[n.id[2]].state \in {"SERVING", "ABANDONED"}
      BY DEF Taken
    <3>3. Lined(ep', call) /\ HeldOnce(ep', call, rcvd')
      BY <1>2, <1>3, <3>1, <3>2, CallsOnlyRuns
    <3> QED
      BY <1>4, <3>3
  <2>2. Served(ep', pstate')
    BY <1>2 DEF RInv
  <2> QED
    BY <1>2, <1>4, <2>1, <2>2, SameForward, RunsTypes DEF RunsNext, Runs
<1>5. CASE call' # call
  <2>1. /\ Owns(t, m.h) /\ call_from_id(m.id, call)
        /\ \/ call[s].state = "SERVING" /\ call' = [call EXCEPT ![s].state = "DONE", ![s].resp = m.req]
           \/ call[s].state = "ABANDONED" /\ call' = [call EXCEPT ![s] = FreeCall]
    BY <1>5 DEF do_reply, CanAnswer, CanDrop, Answers
  <2>2. Fresh(ep, m)
    BY <2>1 DEF Owns, ep_from_handle, Fresh
  <2>3. Taken(ep, call, p, m)
    BY <1>1, <2>2, RunsTypes DEF HeldOnce
  <2>4. call[s] \in CallRec
    BY <1>1, RunsTypes
  <2>5. /\ \A r \in CallSlots : r # s => call'[r] = call[r]
        /\ \/ /\ call[s].state = "SERVING" /\ call'[s].state = "DONE"
              /\ call'[s].resp = m.req /\ call'[s].req = call[s].req
              /\ call'[s].gen = call[s].gen /\ call'[s].tid = call[s].tid
              /\ call'[s].pid = call[s].pid
           \/ call[s].state = "ABANDONED" /\ call'[s].state = "FREE"
    <3> DEFINE d == [call[s] EXCEPT !.state = "DONE", !.resp = m.req]
    <3>1. /\ d.state = "DONE" /\ d.resp = m.req /\ d.req = call[s].req /\ d.gen = call[s].gen
          /\ d.tid = call[s].tid /\ d.pid = call[s].pid
      BY <2>4 DEF CallRec
    <3>2. [call EXCEPT ![s].state = "DONE", ![s].resp = m.req] = [call EXCEPT ![s] = d]
      BY <1>1, RunsTypes
    <3> HIDE DEF d
    <3>3. FreeCall.state = "FREE"
      BY DEF FreeCall
    <3>4. CASE call' = [call EXCEPT ![s] = FreeCall] /\ call[s].state = "ABANDONED"
      BY <1>1, <3>3, <3>4, RunsTypes
    <3>5. CASE call' = [call EXCEPT ![s] = d] /\ call[s].state = "SERVING"
      BY <1>1, <3>1, <3>5, RunsTypes
    <3> QED
      BY <2>1, <3>2, <3>4, <3>5
  <2> HIDE DEF s
  <2>6. call[s].req = m.req /\ call[s].ep = m.h[2]
    BY <2>3 DEF Taken, s
  <2>7. \A r \in CallSlots :
           /\ KeptCall(call[r], call'[r])
           /\ call[r].state \in Waited => GoesOn(call[r].state, call'[r].state)
    <3>1. /\ KeptCall(call[s], call'[s])
          /\ call[s].state \in Waited => GoesOn(call[s].state, call'[s].state)
      BY <2>5, <2>6 DEF KeptCall, GoesOn, Waited
    <3>2. \A r \in CallSlots : KeptCall(call[r], call[r]) /\ GoesOn(call[r].state, call[r].state)
      BY RunsTypes DEF KeptCall, GoesOn, Claimed
    <3> QED
      BY <2>5, <3>1, <3>2
  <2>8. Issued(call') /\ Claimed(call', pend', cnt')
    BY <1>2, <2>7, RunsTypes, KeptClaimed
  <2>9. ASSUME NEW i \in EpSlots, NEW k \in 1 .. Len(ep[i].queue)
        PROVE  LET r == ep[i].queue[k] IN
               call'[r] = call[r] /\ call[r].state \in {"QUEUED", "ABANDONED"}
    <3>1. Entry(ep[i], i, call, k)
      BY RunsTypes DEF Lined
    <3>2. ep[i].queue[k] \in CallSlots
      BY RunsTypes, ElementOfSeq DEF EndpointRec
    <3>3. ep[i].queue[k] # s
      BY <2>3, <3>1 DEF Entry, Taken, s
    <3> QED
      BY <2>5, <3>1, <3>2, <3>3 DEF Entry
  <2>10. ASSUME NEW o \in Procs, NEW n \in rcvd'[o], Fresh(ep, n), Taken(ep, call, o, n)
         PROVE  call'[n.id[2]] = call[n.id[2]] /\ call[n.id[2]].state \in {"SERVING", "ABANDONED"}
    <3>1. n \in rcvd[o]
      BY <1>3
    <3>2. n.id[2] \in CallSlots
      <4>1. n \in Received
        BY <3>1, RunsTypes
      <4> QED
        BY <4>1 DEF Received
    <3>3. n.id[2] # s
      <4>1. ASSUME n.id[2] = s PROVE FALSE
        <5>1. n = m
          BY <1>1, <2>2, <2>10, <3>1, <4>1, RunsTypes DEF HeldOnce, s
        <5>2. o = p
          BY <2>3, <2>10, <5>1 DEF Taken
        <5> QED
          BY <1>3, <2>10, <5>1, <5>2
      <4> QED
        BY <4>1
    <3> QED
      BY <2>5, <2>10, <3>2, <3>3 DEF Taken
  <2>11. Lined(ep', call') /\ HeldOnce(ep', call', rcvd')
    <3>1. ASSUME NEW i \in EpSlots, NEW k \in 1 .. Len(ep[i].queue)
          PROVE  LET r == ep[i].queue[k] IN
                 /\ call'[r].state \in {"QUEUED", "ABANDONED"}
                 /\ call'[r].ep = call[r].ep /\ call'[r].epgen = call[r].epgen
      BY <2>9
    <3>2. ASSUME NEW o \in Procs, NEW n \in rcvd'[o]
          PROVE  LET r == n.id[2] IN
                 Fresh(ep, n) /\ Taken(ep, call, o, n) =>
                     /\ call'[r].state \in {"SERVING", "ABANDONED"} /\ call'[r].req = call[r].req
                     /\ call'[r].ep = call[r].ep /\ call'[r].epgen = call[r].epgen
      BY <2>10
    <3>3. UNCHANGED ep /\ \A o \in Procs : rcvd'[o] \subseteq rcvd[o]
      BY <1>2, <1>3
    <3> QED
      BY <3>1, <3>2, <3>3, CallsOnlyRuns
  <2>12. Served(ep', pstate')
    BY <1>2 DEF RInv
  <2> QED
    BY <1>2, <2>7, <2>8, <2>11, <2>12 DEF RunsNext, Runs, Forward, Advanced
<1> QED
  BY <1>4, <1>5

\* What FETCH does: its thread waits for nothing, the calls of others stay.
FetchNext(t) ==
    /\ pend[t] # NoId /\ pend'[t] = NoId /\ cnt'[t] = cnt[t]
    /\ \A u \in Threads \ {t} :
          /\ pend'[u] = pend[u] /\ cnt'[u] = cnt[u]
          /\ pend[u] # NoId => call'[pend[u][2]] = call[pend[u][2]]

\* FETCH takes, or gives up, the thread's own call.
LEMMA FetchRuns ==
    ASSUME RInv, NEW t \in Threads, do_fetch(t)
    PROVE  RunsNext /\ FetchNext(t)
<1> DEFINE s == pend[t][2]
<1>1. /\ pend[t] # NoId /\ UNCHANGED <<ep, pstate, cnt, rcvd>>
      /\ pend' = [pend EXCEPT ![t] = NoId]
  BY DEF do_fetch
<1>2. /\ s \in CallSlots /\ call[s] \in CallRec /\ call[s].state \in Waited
      /\ call[s].tid = t /\ call[s].gen = pend[t][1]
  BY <1>1, RunsTypes DEF Claimed, Ids
<1>3. MyCall(t)
  BY <1>1, <1>2, RunsTypes DEF MyCall, call_from_id, Issued, Waited
<1>4. call' = [call EXCEPT ![s] = Fetched(call[s])]
  BY <1>3 DEF do_fetch
<1>5. /\ \A r \in CallSlots : r # s => call'[r] = call[r]
      /\ \/ call'[s].state = "FREE" /\ call[s].state \in {"DONE", "FAILED"}
         \/ /\ call'[s].state = "ABANDONED" /\ call[s].state \in {"QUEUED", "SERVING"}
            /\ call'[s].tid = call[s].tid /\ call'[s].pid = call[s].pid
            /\ call'[s].req = call[s].req
            /\ call'[s].ep = call[s].ep /\ call'[s].epgen = call[s].epgen
  <2>1. CASE call[s].state \in {"DONE", "FAILED"}
    <3>1. Fetched(call[s]) = FreeCall
      BY <2>1 DEF Fetched
    <3> QED
      BY <1>2, <1>4, <2>1, <3>1, RunsTypes DEF FreeCall
  <2>2. CASE call[s].state \in {"QUEUED", "SERVING"}
    <3> DEFINE d == [call[s] EXCEPT !.state = "ABANDONED"]
    <3>1. Fetched(call[s]) = d
      BY <2>2 DEF Fetched
    <3>2. /\ d.state = "ABANDONED" /\ d.tid = call[s].tid /\ d.pid = call[s].pid
          /\ d.req = call[s].req /\ d.ep = call[s].ep /\ d.epgen = call[s].epgen
      BY <1>2 DEF CallRec
    <3> HIDE DEF d
    <3> QED
      BY <1>2, <1>4, <2>2, <3>1, <3>2, RunsTypes
  <2> QED
    BY <1>2, <2>1, <2>2 DEF Waited
<1>6. pend'[t] = NoId /\ \A u \in Threads : u # t => pend'[u] = pend[u]
  BY <1>1, RunsTypes
<1> HIDE DEF s
<1>7. ASSUME NEW u \in Threads, u # t, pend[u] # NoId
      PROVE  /\ pend[u][2] \in CallSlots /\ pend[u][2] # s
             /\ call'[pend[u][2]] = call[pend[u][2]]
  <2>1. pend[u][2] \in CallSlots /\ call[pend[u][2]].tid = u
    BY <1>7, RunsTypes DEF Claimed, Ids
  <2> QED
    BY <1>2, <1>5, <1>7, <2>1
<1>8. Issued(call')
  <2>1. ASSUME NEW r \in CallSlots, call'[r].state # "FREE"
        PROVE  /\ call[r].state # "FREE" /\ call'[r].tid = call[r].tid
               /\ call'[r].pid = call[r].pid
    BY <1>5, <2>1
  <2> QED
    BY <2>1, RunsTypes DEF Issued
<1>9. Claimed(call', pend', cnt')
  <2>1. ASSUME NEW r \in CallSlots, call'[r].state \in Waited
        PROVE  /\ pend'[call'[r].tid] = make_id(call'[r].gen, r)
               /\ call'[r].req = <<call'[r].tid, cnt'[call'[r].tid]>>
               /\ call'[r].state = "DONE" => call'[r].resp = call'[r].req
    <3>1. r # s
      BY <1>5, <2>1 DEF Waited
    <3>2. call'[r] = call[r] /\ call[r].state \in Waited
      BY <1>5, <2>1, <3>1
    <3>3. call[r].tid \in Threads
      BY <3>2, RunsTypes DEF Issued, Waited
    <3>4. pend[call[r].tid] = make_id(call[r].gen, r)
      BY <3>2, RunsTypes DEF Claimed
    <3>5. call[r].tid # t
      BY <3>1, <3>4 DEF make_id, s
    <3> QED
      BY <1>1, <1>6, <3>2, <3>3, <3>5, RunsTypes DEF Claimed
  <2>2. ASSUME NEW u \in Threads, pend'[u] # NoId
        PROVE  /\ call'[pend'[u][2]].state \in Waited
               /\ call'[pend'[u][2]].tid = u /\ call'[pend'[u][2]].gen = pend'[u][1]
    <3>1. u # t /\ pend'[u] = pend[u] /\ pend[u] # NoId
      BY <1>6, <2>2
    <3>2. call'[pend[u][2]] = call[pend[u][2]]
      BY <1>7, <3>1
    <3> QED
      BY <3>1, <3>2, RunsTypes DEF Claimed
  <2> QED
    BY <2>1, <2>2 DEF Claimed
<1>10. ASSUME NEW i \in EpSlots, NEW k \in 1 .. Len(ep[i].queue)
       PROVE  LET r == ep[i].queue[k] IN
              /\ call'[r].state \in {"QUEUED", "ABANDONED"}
              /\ call'[r].ep = call[r].ep /\ call'[r].epgen = call[r].epgen
  <2>1. Entry(ep[i], i, call, k)
    BY RunsTypes DEF Lined
  <2>2. ep[i].queue[k] \in CallSlots
    BY RunsTypes, ElementOfSeq DEF EndpointRec
  <2> QED
    BY <1>5, <2>1, <2>2 DEF Entry
<1>11. ASSUME NEW o \in Procs, NEW m \in rcvd[o], Taken(ep, call, o, m)
       PROVE  LET r == m.id[2] IN
              /\ call'[r].state \in {"SERVING", "ABANDONED"} /\ call'[r].req = call[r].req
              /\ call'[r].ep = call[r].ep /\ call'[r].epgen = call[r].epgen
  <2>1. m.id[2] \in CallSlots
    <3>1. m \in Received
      BY RunsTypes
    <3> QED
      BY <3>1 DEF Received
  <2> QED
    BY <1>5, <1>11, <2>1 DEF Taken
<1>12. Lined(ep', call') /\ HeldOnce(ep', call', rcvd')
  <2>1. Lined(ep', call') /\ HeldOnce(ep', call', rcvd)
    BY <1>1, <1>10, <1>11, CallsOnlyRuns
  <2> QED
    BY <1>1, <2>1
<1>13. Served(ep', pstate')
  BY <1>1 DEF RInv
<1> QED
  BY <1>1, <1>6, <1>7, <1>8, <1>9, <1>12, <1>13 DEF RunsNext, Runs, FetchNext

\* What every step has to show.
Proceeds == RunsNext /\ (Forward \/ \E t \in Threads : FetchNext(t))

\* Every step keeps the invariant; it makes requests and has them go on, or it
\* is a FETCH.
LEMMA RunsStep ==
    ASSUME RInv, Lasting, [Next]_vars
    PROVE  RInv' /\ (Forward \/ \E t \in Threads : FetchNext(t))
<1>1. ASSUME UNCHANGED <<ep, call, pend, cnt, rcvd>>, Served(ep, pstate') PROVE Proceeds
  BY <1>1, SameForward DEF RInv, RunsNext, Proceeds
<1>2. ASSUME NEW t \in Threads, ipc_ioctl(t) PROVE Proceeds
  <2>1. ASSUME NEW name \in Names, NEW acl \in Acls, do_create(t, name, acl) PROVE Proceeds
    BY <2>1, DoCreateRuns DEF Proceeds
  <2>2. CASE do_connect(t)
    BY <2>2, OnlyPruneRuns DEF do_connect, Proceeds
  <2>3. CASE do_fetch(t)
    BY <2>3, FetchRuns DEF Proceeds
  <2>4. ASSUME NEW h \in Handles, do_destroy(t, h) PROVE Proceeds
    <3>1. h[2] \in EpSlots /\ ep[h[2]].used /\ ep[h[2]].owner = ProcOf[t]
      BY <2>4 DEF do_destroy, ep_from_handle
    <3>2. ProcOf[t] \in Procs /\ ProcOf[t] \notin Callers
      BY <3>1, IpcConstants DEF RInv, Served, Lasting
    <3>3. AuIpcProcessGone(ProcOf[t]) /\ UNCHANGED <<pstate, pend, cnt, rcvd>>
      BY <2>4 DEF do_destroy
    <3>4. \A q \in Procs : pstate'[q] = "run" \/ q \in Mortal
      BY <3>3 DEF RInv, Served
    <3> QED
      BY <3>2, <3>3, <3>4, ProcessGoneRuns DEF Proceeds
  <2>5. ASSUME NEW h \in Handles, do_call(t, h) PROVE Proceeds
    BY <2>5, DoCallRuns DEF Proceeds
  <2>6. ASSUME NEW h \in Handles, do_wait(t, h) PROVE Proceeds
    <3>1. UNCHANGED <<call, pstate, pend, cnt, rcvd>> /\ ep' = [ep EXCEPT ![h[2]].waiter = t]
      BY <2>6 DEF do_wait
    <3>2. \A i \in EpSlots :
             /\ ep'[i].used = ep[i].used /\ ep'[i].gen = ep[i].gen
             /\ ep'[i].owner = ep[i].owner /\ ep'[i].queue = ep[i].queue
      BY <3>1, RunsTypes DEF EndpointRec
    <3>3. Lined(ep', call) /\ Served(ep', pstate)
      <4>1. Served(ep', pstate)
        BY <3>2 DEF Served, RInv
      <4>2. \A i \in EpSlots : \A k \in 1 .. Len(ep[i].queue) : Entry(ep[i], i, call, k)
        BY RunsTypes DEF Lined
      <4>3. Lined(ep', call)
        BY <3>2, <4>2 DEF Lined, Entry
      <4> QED
        BY <4>1, <4>3
    <3>4. HeldOnce(ep', call, rcvd)
      <4>1. ep' \in [EpSlots -> EndpointRec]
        BY TypeStep DEF RInv, IInv, TypeOK
      <4>2. ASSUME NEW o \in Procs, NEW m \in rcvd[o], Taken(ep, call, o, m)
            PROVE  Taken(ep', call, o, m)
        <5>1. m.h[2] \in EpSlots
          <6>1. m \in Received
            BY RunsTypes
          <6> QED
            BY <6>1 DEF Received
        <5> QED
          BY <3>2, <4>2, <5>1 DEF Taken
      <4>3. \A i \in EpSlots : ep'[i].gen >= ep[i].gen
        BY <3>2, RunsTypes DEF EndpointRec
      <4> QED
        BY <4>1, <4>2, <4>3, RunsTypes, HeldKept
    <3> QED
      BY <3>1, <3>3, <3>4, SameForward, RunsTypes DEF RunsNext, Runs, Proceeds
  <2>7. ASSUME NEW h \in Handles, NEW fits \in BOOLEAN, do_recv(t, h, fits) PROVE Proceeds
    BY <2>7, RecvRuns DEF Proceeds
  <2>8. ASSUME NEW m \in rcvd[ProcOf[t]], do_reply(t, m) PROVE Proceeds
    BY <2>8, ReplyRuns DEF Proceeds
  <2> QED
    BY <1>2, <2>1, <2>2, <2>3, <2>4, <2>5, <2>6, <2>7, <2>8 DEF ipc_ioctl
<1>3. ASSUME NEW t \in Threads, Timeout(t) PROVE Proceeds
  BY <1>1, <1>3 DEF Timeout, RInv
<1>4. ASSUME NEW p \in Procs, AuProcessExit(p) PROVE Proceeds
  <2>1. p \in Mortal /\ p \notin Callers /\ UNCHANGED <<ep, call, cnt>>
    BY <1>4 DEF AuProcessExit, Lasting
  <2>2. \A t \in Threads : pend[t] # NoId => ProcOf[t] \in Callers
    <3>1. ASSUME NEW t \in Threads, pend[t] # NoId PROVE ProcOf[t] \in Callers
      <4>1. /\ pend[t][2] \in CallSlots /\ call[pend[t][2]].state \in Waited
            /\ call[pend[t][2]].tid = t
        BY <3>1, RunsTypes DEF Claimed, Ids
      <4> QED
        BY <4>1, RunsTypes DEF Issued, Waited
    <3> QED
      BY <3>1
  <2>3. \A t \in Threads : pend'[t] = pend[t]
    BY <1>4, <2>1, <2>2 DEF AuProcessExit
  <2>4. pend' = pend
    BY <1>4, <2>3, RunsTypes DEF AuProcessExit
  <2>5. Served(ep', pstate')
    BY <1>4, <2>1 DEF AuProcessExit, Served, RInv, IInv, TypeOK
  <2>6. \A o \in Procs : rcvd'[o] \subseteq rcvd[o]
    BY <1>4, RunsTypes DEF AuProcessExit
  <2>7. HeldOnce(ep, call, rcvd')
    <3>1. \A i \in EpSlots : ep[i].gen >= ep[i].gen
      BY RunsTypes DEF EndpointRec
    <3> QED
      BY <2>6, <3>1, RunsTypes, HeldKept
  <2>8. Runs(ep', call', pend', cnt', rcvd')
    BY <2>1, <2>4, <2>7, RunsTypes DEF Runs
  <2> QED
    BY <2>1, <2>4, <2>5, <2>8, SameForward DEF RunsNext, Proceeds
<1>5. ASSUME NEW p \in Procs, AuProcessClean(p) PROVE Proceeds
  <2>1. /\ pstate[p] = "died" /\ AuIpcProcessGone(p) /\ UNCHANGED <<pend, cnt, rcvd>>
        /\ pstate' = [pstate EXCEPT ![p] = "reaped"]
    BY <1>5 DEF AuProcessClean
  <2>2. p \in Mortal /\ p \notin Callers
    BY <2>1 DEF RInv, Served, Lasting
  <2>3. \A q \in Procs : pstate'[q] = "run" \/ q \in Mortal
    BY <2>1, <2>2 DEF RInv, Served, IInv, TypeOK
  <2> QED
    BY <2>1, <2>2, <2>3, ProcessGoneRuns DEF Proceeds
<1>6. ASSUME UNCHANGED vars PROVE Proceeds
  <2>1. UNCHANGED <<ep, call, pend, cnt, rcvd>> /\ pstate' = pstate
    BY <1>6 DEF vars
  <2>2. Served(ep, pstate')
    BY <2>1 DEF RInv
  <2>3. UNCHANGED <<ep, call, pend, cnt, rcvd>>
    BY <2>1
  <2> QED
    BY <1>1, <2>2, <2>3
<1>7. Proceeds
  BY <1>2, <1>3, <1>4, <1>5, <1>6 DEF Next
<1>8. RunsNext => Served(ep, pstate)' /\ Runs(ep, call, pend, cnt, rcvd)'
  BY DEF RunsNext, Served, Runs, Issued, Claimed, Lined, Entry, HeldOnce, Fresh, Taken
<1>9. IInv'
  BY IInvStep DEF RInv
<1> QED
  BY <1>7, <1>8, <1>9 DEF RInv, Proceeds

\* The client of thread t with n requests whose call is in state x.
Shown(x, t, n) ==
    [phase  |-> CASE x = "QUEUED"  -> "asked"
                  [] x = "SERVING" -> "taken"
                  [] x = "DONE"    -> "answered"
                  [] OTHER         -> "failed",
     number |-> n,
     answer |-> IF x = "DONE" THEN <<t, n>> ELSE <<>>]

Resting(n) == [phase |-> "idle", number |-> n, answer |-> <<>>]

\* What the mapping makes of a thread.
Mapped ==
    \A t \in Threads :
        /\ pend[t] = NoId => Client(t) = Resting(cnt[t])
        /\ pend[t] # NoId => /\ call[pend[t][2]].state \in Waited
                             /\ Client(t) = Shown(call[pend[t][2]].state, t, cnt[t])

\* A thread that waits finds its call, answered for its request or not yet.
LEMMA MappedIs == RInv => Mapped
<1> SUFFICES ASSUME RInv, NEW t \in Threads
             PROVE  /\ pend[t] = NoId => Client(t) = Resting(cnt[t])
                    /\ pend[t] # NoId => /\ call[pend[t][2]].state \in Waited
                                         /\ Client(t) = Shown(call[pend[t][2]].state, t, cnt[t])
  BY DEF Mapped
<1>1. CASE pend[t] = NoId
  BY <1>1 DEF Client, Phase, Resting
<1>2. CASE pend[t] # NoId
  <2> DEFINE s == pend[t][2]
  <2>1. /\ s \in CallSlots /\ call[s].state \in Waited
        /\ call[s].tid = t /\ call[s].gen = pend[t][1]
    BY <1>2, RunsTypes DEF Claimed, Ids
  <2>2. MyCall(t)
    BY <1>2, <2>1, RunsTypes DEF MyCall, call_from_id, Issued, Waited
  <2>3. call[s].state = "DONE" => call[s].resp = <<t, cnt[t]>>
    BY <2>1, RunsTypes DEF Claimed
  <2> HIDE DEF s
  <2>4. Phase(t) = CASE call[s].state = "QUEUED"  -> "asked"
                     [] call[s].state = "SERVING" -> "taken"
                     [] call[s].state = "DONE"    -> "answered"
                     [] OTHER                     -> "failed"
    BY <1>2, <2>2 DEF Phase, s
  <2>5. Phase(t) = "answered" <=> call[s].state = "DONE"
    BY <2>1, <2>4 DEF Waited
  <2>6. Client(t) = [phase |-> Phase(t), number |-> cnt[t],
                     answer |-> IF call[s].state = "DONE" THEN <<t, cnt[t]>> ELSE <<>>]
    BY <2>3, <2>5 DEF Client, s
  <2> QED
    BY <1>2, <2>1, <2>4, <2>6 DEF Shown, s
<1> QED
  BY <1>1, <1>2

\* A call that goes on is a move of the client.
LEMMA AdvanceMoves ==
    ASSUME NEW x \in Waited, NEW y, GoesOn(x, y), NEW t, NEW n
    PROVE  Shown(y, t, n) \in {Shown(x, t, n)} \cup Calls!Take(Shown(x, t, n))
                              \cup Calls!Answer(t, Shown(x, t, n)) \cup Calls!Fail(Shown(x, t, n))
<1>1. CASE y = x
  BY <1>1
<1>2. CASE x \in InFlight /\ y = "FAILED"
  <2>1. Shown(x, t, n) = [phase |-> IF x = "QUEUED" THEN "asked" ELSE "taken",
                          number |-> n, answer |-> <<>>]
    BY <1>2 DEF Shown, InFlight
  <2>2. Shown(y, t, n) = [phase |-> "failed", number |-> n, answer |-> <<>>]
    BY <1>2 DEF Shown
  <2> QED
    BY <2>1, <2>2 DEF Calls!Fail
<1>3. CASE x = "QUEUED" /\ y = "SERVING"
  <2>1. Shown(x, t, n) = [phase |-> "asked", number |-> n, answer |-> <<>>]
    BY <1>3 DEF Shown
  <2>2. Shown(y, t, n) = [phase |-> "taken", number |-> n, answer |-> <<>>]
    BY <1>3 DEF Shown
  <2> QED
    BY <2>1, <2>2 DEF Calls!Take
<1>4. CASE x = "SERVING" /\ y = "DONE"
  <2>1. Shown(x, t, n) = [phase |-> "taken", number |-> n, answer |-> <<>>]
    BY <1>4 DEF Shown
  <2>2. Shown(y, t, n) = [phase |-> "answered", number |-> n, answer |-> <<t, n>>]
    BY <1>4 DEF Shown
  <2> QED
    BY <2>1, <2>2 DEF Calls!Answer
<1> QED
  BY <1>1, <1>2, <1>3, <1>4 DEF GoesOn

\* A step of the IPC in which requests are made and go on.
LEMMA ForwardProceeds ==
    ASSUME RInv, Mapped, Mapped', Forward PROVE Calls!Proceed
<1> SUFFICES ASSUME NEW t \in Threads PROVE Client(t)' \in Calls!Moves(t)
  BY DEF Calls!Proceed
<1>1. Calls!Moves(t) = {Client(t)} \cup Calls!Ask(Client(t)) \cup Calls!Take(Client(t))
                       \cup Calls!Answer(t, Client(t)) \cup Calls!Fail(Client(t))
  BY DEF Calls!Moves
<1>2. CASE pend'[t] = pend[t] /\ cnt'[t] = cnt[t] /\ pend[t] = NoId
  BY <1>1, <1>2 DEF Mapped
<1>3. CASE pend'[t] = pend[t] /\ cnt'[t] = cnt[t] /\ pend[t] # NoId
  <2> DEFINE s == pend[t][2]
  <2>1. s \in CallSlots /\ call[s].state \in Waited
    BY <1>3, RunsTypes DEF Claimed, Ids
  <2>2. GoesOn(call[s].state, call'[s].state)
    BY <2>1 DEF Forward, Advanced
  <2>3. Client(t) = Shown(call[s].state, t, cnt[t]) /\ Client(t)' = Shown(call'[s].state, t, cnt[t])
    BY <1>3 DEF Mapped
  <2> HIDE DEF s
  <2> QED
    BY <1>1, <2>1, <2>2, <2>3, AdvanceMoves
<1>4. CASE /\ pend[t] = NoId /\ cnt[t] < MaxReq /\ pend'[t] # NoId /\ cnt'[t] = cnt[t] + 1
           /\ call'[pend'[t][2]].state = "QUEUED"
  <2>1. Client(t) = Resting(cnt[t]) /\ Client(t)' = Shown("QUEUED", t, cnt[t] + 1)
    BY <1>4 DEF Mapped
  <2>2. Shown("QUEUED", t, cnt[t] + 1) = [phase |-> "asked", number |-> cnt[t] + 1, answer |-> <<>>]
    BY DEF Shown
  <2>3. Client(t)' \in Calls!Ask(Client(t))
    BY <1>4, <2>1, <2>2 DEF Calls!Ask, Calls!NoAnswer, Resting
  <2> QED
    BY <1>1, <2>3
<1> QED
  BY <1>2, <1>3, <1>4 DEF Forward

\* A FETCH is the return of its thread.
LEMMA FetchReturns ==
    ASSUME RInv, Mapped, Mapped', NEW t \in Threads, FetchNext(t) PROVE Calls!Return(t)
<1>1. Client(t)' = Resting(cnt[t])
  BY DEF FetchNext, Mapped
<1>2. Client(t) = Shown(call[pend[t][2]].state, t, cnt[t])
  BY DEF FetchNext, Mapped
<1>3. Client(t).phase # "idle" /\ Client(t)' = Calls!Idle(Client(t))
  <2> DEFINE x == call[pend[t][2]].state
             c == Shown(x, t, cnt[t])
  <2>1. c.phase = CASE x = "QUEUED"  -> "asked"
                    [] x = "SERVING" -> "taken"
                    [] x = "DONE"    -> "answered"
                    [] OTHER         -> "failed"
    BY DEF Shown
  <2>2. c.phase # "idle"
    <3> HIDE DEF c
    <3>1. x \in Waited
      BY DEF FetchNext, Mapped
    <3> HIDE DEF x
    <3> QED
      BY <2>1, <3>1 DEF Waited
  <2>3. c.number = cnt[t]
    BY DEF Shown
  <2> QED
    BY <1>1, <1>2, <2>2, <2>3 DEF Resting, Calls!Idle, Calls!NoAnswer
<1>4. ASSUME NEW u \in Threads, u # t PROVE Client(u)' = Client(u)
  BY <1>4 DEF FetchNext, Mapped
<1> QED
  BY <1>3, <1>4 DEF Calls!Return

LEMMA RInvInit == Init => RInv
<1> SUFFICES ASSUME Init PROVE RInv
  OBVIOUS
<1>1. /\ \A i \in EpSlots : ~ep[i].used /\ ep[i].queue = <<>>
      /\ \A s \in CallSlots : call[s].state = "FREE"
      /\ \A p \in Procs : pstate[p] = "run" /\ rcvd[p] = {}
      /\ \A t \in Threads : pend[t] = NoId
  BY DEF Init, NoEp, FreeCall
<1>2. Served(ep, pstate) /\ Issued(call) /\ Claimed(call, pend, cnt)
  BY <1>1 DEF Served, Issued, Claimed, Waited
<1>3. Lined(ep, call) /\ HeldOnce(ep, call, rcvd)
  BY <1>1 DEF Lined, HeldOnce
<1> QED
  BY <1>2, <1>3, IInvInit DEF RInv, Runs

(***************************************************************************)
(* The safety half of RequestsServed.  A caller's request is taken by at   *)
(* most one server, once; its answer, or its failure, is final; and the    *)
(* thread gets the answer to this very request - though slots and ids are  *)
(* reused, servers die and are replaced, and replies come late - as long   *)
(* as callers neither exit nor own endpoints.  (Those that exit have their *)
(* calls freed under the queue, AuIpcProcessGone: see ipc_late_reply.)     *)
(***************************************************************************)
THEOREM CallsAreImplemented == ASSUME Lasting PROVE Spec => Calls!Safe
<1>1. Init => RInv
  BY RInvInit
<1>2. Init => Calls!Init
  <2> SUFFICES ASSUME Init PROVE Calls!Init
    OBVIOUS
  <2>1. \A t \in Threads : pend[t] = NoId /\ cnt[t] = 0
    BY DEF Init
  <2>2. \A t \in Threads : Client(t) = Resting(0)
    BY <2>1, <1>1, MappedIs DEF Mapped
  <2> QED
    BY <2>2 DEF Calls!Init, Resting, Calls!NoAnswer
<1>3. RInv /\ [Next]_vars => RInv' /\ (Forward \/ \E t \in Threads : FetchNext(t))
  BY RunsStep
<1>4. Mapped /\ Mapped' /\ RInv /\ (Forward \/ \E t \in Threads : FetchNext(t))
      => [Calls!Next]_[t \in Threads |-> Client(t)]
  BY ForwardProceeds, FetchReturns DEF Calls!Next
<1> QED
  BY <1>1, <1>2, <1>3, <1>4, MappedIs, PTL DEF Spec, Calls!Safe

\* "Drops late replies after a timeout": under the same condition the answer a
\* client is about to fetch is the answer to its request, however many requests
\* a server holds at a time.
THEOREM AnswersMatchRequests == ASSUME Lasting PROVE Spec => []AnswersMatch
<1>1. Init => RInv
  BY RInvInit
<1>2. RInv /\ [Next]_vars => RInv'
  BY RunsStep
<1>3. RInv => AnswersMatch
  <2> SUFFICES ASSUME RInv, NEW t \in Threads, pend[t] # NoId,
                      call[pend[t][2]].state = "DONE"
               PROVE  call[pend[t][2]].resp = <<t, cnt[t]>>
    BY DEF AnswersMatch
  <2>1. pend[t][2] \in CallSlots
    BY RunsTypes DEF Ids
  <2> QED
    BY <2>1, RunsTypes DEF Claimed, Waited
<1> QED
  BY <1>1, <1>2, <1>3, PTL DEF Spec
=============================================================================
