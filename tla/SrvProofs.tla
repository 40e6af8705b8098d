----------------------------- MODULE SrvProofs -----------------------------
(***************************************************************************)
(* Theorems about SrvFs, for every number of applications, histories,      *)
(* operations, call slots and requests.                                    *)
(***************************************************************************)
EXTENDS SrvFs, AuIpcProofs

-----------------------------------------------------------------------------
(***************************************************************************)
(* The kernel as a client of the IPC.  An execution of a syscall changes   *)
(* the call table in three ways: it gives calls up, it takes an answer, or *)
(* it leaves the table; and it may then begin a new call, which prunes the *)
(* dead servers first.                                                     *)
(***************************************************************************)

\* What an execution of thread t leaves of the calls before it begins another.
Left(t) == IF Used(t) THEN {AbandonedBy({t}), KPolled(LastOp(t).id), call}
                      ELSE {AbandonedBy(Stale)}

\* Its effect on the tables: a new call, a call that is not admitted, or no call.
Begins(t, c) ==
    /\ KAdmitted(Endpoint, c) /\ cnt[t] < MaxReq
    /\ ep' = KEp(Endpoint, c) /\ call' = KCall(t, Endpoint, c)
    /\ cnt' = [cnt EXCEPT ![t] = @ + 1]
    /\ sleep' = [wake_tid(KWoken(Endpoint, c)) EXCEPT ![t] = "call"]
    /\ genc' = PrunedGen

Refused(c) ==
    /\ ep' = PrunedEp /\ call' = KPruned(c) /\ genc' = PrunedGen
    /\ sleep' = wake_tid(KFailed(c)) /\ cnt' = cnt

Leaves(t, c) ==
    /\ ep' = ep /\ call' = c /\ genc' = genc /\ cnt' = cnt
    /\ sleep' \in {sleep, [sleep EXCEPT ![t] = "call"]}

\* Every execution is one of the three.
LEMMA ExecuteTables ==
    ASSUME NEW t \in Users, NEW y, Execute(t, y)
    PROVE  /\ \E c \in Left(t) : Begins(t, c) \/ Refused(c) \/ Leaves(t, c)
           /\ UNCHANGED <<pstate, pend, rcvd>>
<1> DEFINE a == AbandonedBy(Stale)
           b == AbandonedBy({t})
           d == KPolled(LastOp(t).id)
<1>1. IF Used(t) THEN b \in Left(t) /\ d \in Left(t) /\ call \in Left(t) ELSE a \in Left(t)
  BY DEF Left
<1>2. \A c, h, k, at : NewOp(t, y, c, h, k, at) /\ cnt[t] < MaxReq => Begins(t, c)
  BY DEF NewOp, Begins
<1>3. \A c, h, st, done : NoServer(t, y, c, h, st, done) => Refused(c)
  BY DEF NoServer, Refused
<1>4. \A c, st, done : Ends(t, y, c, st, done) => Leaves(t, c)
  BY DEF Ends, Leaves
<1>5. CASE FirstExecution(t, y)
  <2>1. \/ NewOp(t, y, a, Drop(hist, Stale), 1, pos[t])
        \/ NoServer(t, y, a, Drop(hist, Stale), pos[t], 0)
        \/ call' = a /\ UNCHANGED <<ep, genc, sleep, cnt, sent>>
    BY <1>5 DEF FirstExecution
  <2>2. cnt[t] < MaxReq /\ ~Used(t)
    BY <1>5 DEF FirstExecution
  <2>3. call' = a /\ UNCHANGED <<ep, genc, sleep, cnt, sent>> => Leaves(t, a)
    BY DEF Leaves
  <2> HIDE DEF a
  <2> QED
    BY <1>1, <1>2, <1>3, <2>1, <2>2, <2>3 DEF Execute
<1>6. CASE Used(t) /\ StartOver(t, y)
  <2>1. /\ cnt[t] < MaxReq /\ Used(t)
        /\ \/ NewOp(t, y, b, [hist EXCEPT ![t].ops = <<>>], 1, pos[t])
           \/ NoServer(t, y, b, [hist EXCEPT ![t].ops = <<>>], pos[t], 0)
    BY <1>6 DEF StartOver
  <2> HIDE DEF b
  <2> QED
    BY <1>1, <1>2, <1>3, <2>1 DEF Execute
<1>7. CASE Replay(t, y)
  <2>1. \/ sleep' = [sleep EXCEPT ![t] = "call"] /\ UNCHANGED <<ep, call, genc, cnt>>
        \/ \E st, done : Ends(t, y, b, st, done) \/ Ends(t, y, d, st, done)
        \/ /\ cnt[t] < MaxReq
           /\ \E k, at : NewOp(t, y, d, hist, k, at)
        \/ \E st, k : NoServer(t, y, d, hist, st, k)
    BY <1>7 DEF Replay
  <2>0. Used(t)
    BY <1>7 DEF Replay
  <2>2. sleep' = [sleep EXCEPT ![t] = "call"] /\ UNCHANGED <<ep, call, genc, cnt>> => Leaves(t, call)
    BY DEF Leaves
  <2> HIDE DEF b, d
  <2> QED
    BY <1>1, <1>2, <1>3, <1>4, <2>0, <2>1, <2>2 DEF Execute
<1> QED
  BY <1>5, <1>6, <1>7 DEF Execute

\* A call that is given up, once or more often, is marked or freed.
LEMMA AbandonIs ==
    ASSUME NEW c, NEW n
    PROVE  \/ KAbandon(c, n) = c
           \/ c.state \in InFlight /\ KAbandon(c, n) = [c EXCEPT !.state = "ABANDONED"]
           \/ KAbandon(c, n) = FreeCall
<1>1. CASE n = 0
  BY <1>1 DEF KAbandon
<1>2. CASE n = 1 /\ c.state \in InFlight
  BY <1>2 DEF KAbandon
<1>3. CASE n # 0 /\ ~(n = 1 /\ c.state \in InFlight)
  BY <1>3 DEF KAbandon
<1> QED
  BY <1>1, <1>2, <1>3

\* An execution leaves a call as it is, frees it, or marks it as given up.
LEMMA LeftIs ==
    ASSUME TypeOK, NEW t, NEW c \in Left(t), NEW s \in CallSlots
    PROVE  \/ c[s] = call[s]
           \/ call[s].state \in InFlight /\ c[s] = [call[s] EXCEPT !.state = "ABANDONED"]
           \/ c[s] = FreeCall
<1>1. CASE \E U : c = AbandonedBy(U)
  <2>1. PICK U : c = AbandonedBy(U)
    BY <1>1
  <2>2. \E n : c[s] = KAbandon(call[s], n)
    <3> DEFINE n(r) == Cardinality({u \in U : /\ Used(u)
                                                /\ call_from_id(LastOp(u).id, call)
                                                /\ LastOp(u).id[2] = r})
    <3>1. AbandonedBy(U) = [r \in CallSlots |-> KAbandon(call[r], n(r))]
      BY DEF AbandonedBy
    <3> HIDE DEF n
    <3> QED
      BY <2>1, <3>1
  <2> QED
    BY <2>2, AbandonIs
<1>2. CASE c = KPolled(LastOp(t).id)
  <2>1. \A id : [call EXCEPT ![id[2]] = FreeCall][s] \in {call[s], FreeCall}
    BY DEF TypeOK
  <2> QED
    BY <1>2, <2>1 DEF KPolled
<1>3. CASE c = call
  BY <1>3
<1> QED
  BY <1>1, <1>2, <1>3 DEF Left

\* It leaves a call table, whose queued calls are the same.
LEMMA LeftType ==
    ASSUME TypeOK, NEW t, NEW c \in Left(t)
    PROVE  c \in [CallSlots -> CallRec]
<1>1. ASSUME NEW s \in CallSlots PROVE c[s] \in CallRec
  <2>1. call[s] \in CallRec
    BY DEF TypeOK
  <2>2. [call[s] EXCEPT !.state = "ABANDONED"] \in CallRec
    BY <2>1 DEF CallRec, CallStates
  <2> QED
    BY <2>1, <2>2, LeftIs, FreeCallType
<1>2. c = [s \in CallSlots |-> c[s]]
  <2>1. \A U : AbandonedBy(U) = [s \in CallSlots |-> AbandonedBy(U)[s]]
    BY DEF AbandonedBy
  <2>2. call = [s \in CallSlots |-> call[s]]
    BY DEF TypeOK
  <2>3. \A id : [call EXCEPT ![id[2]] = FreeCall] =
                [s \in CallSlots |-> [call EXCEPT ![id[2]] = FreeCall][s]]
    BY DEF TypeOK
  <2> QED
    BY <2>1, <2>2, <2>3 DEF Left, KPolled
<1> QED
  BY <1>1, <1>2

\* It keeps the invariants of the IPC.
LEMMA LeftSound ==
    ASSUME IInv, NEW t, NEW c \in Left(t)
    PROVE  Sound(ep, c, genc, pstate)
<1>1. ASSUME NEW s \in CallSlots, c[s].state = "QUEUED" PROVE c[s] = call[s]
  <2>1. call[s] \in CallRec
    BY DEF IInv, TypeOK
  <2>2. FreeCall.state # "QUEUED" /\ [call[s] EXCEPT !.state = "ABANDONED"].state # "QUEUED"
    BY <2>1 DEF FreeCall, CallRec
  <2> QED
    BY <1>1, <2>2, LeftIs DEF IInv
<1> QED
  BY <1>1 DEF IInv, Sound

\* The endpoint and the slot that AuIpcKCallBegin finds.
LEMMA AdmittedIs ==
    ASSUME TypeOK, NEW c \in [CallSlots -> CallRec], KAdmitted(Endpoint, c)
    PROVE  /\ KEndpoint(Endpoint) \in EpSlots /\ PrunedEp[KEndpoint(Endpoint)].used
           /\ KSlot(c) \in CallSlots /\ KPruned(c)[KSlot(c)].state = "FREE"
           /\ KPruned(c) \in [CallSlots -> CallRec] /\ KGen(c) \in Nat \ {0}
           /\ Len(PrunedEp[KEndpoint(Endpoint)].queue) < EpQueue
<1>1. KEndpoints(Endpoint) \subseteq Nat /\ KEndpoints(Endpoint) # {}
  BY IpcConstants DEF KEndpoints, EpSlots, KAdmitted
<1>2. KEndpoint(Endpoint) \in KEndpoints(Endpoint)
  BY <1>1, LowestIsLeast DEF KEndpoint
<1>3. KSlot(c) \in CallFree(KPruned(c))
  BY FreeSlots DEF KSlot, KAdmitted
<1>4. KPruned(c) \in [CallSlots -> CallRec]
  BY GoneCallsType DEF KPruned
<1>5. KSlot(c) \in CallSlots /\ KPruned(c)[KSlot(c)].state = "FREE"
  BY <1>3 DEF CallFree
<1>6. KGen(c) \in Nat \ {0}
  BY <1>4, <1>5 DEF KGen, CallRec
<1> QED
  BY <1>2, <1>4, <1>5, <1>6 DEF KEndpoints, KAdmitted

\* Executions keep the type invariant of the IPC.
LEMMA ExecuteType ==
    ASSUME TypeOK, NEW t \in Users, NEW y, Execute(t, y)
    PROVE  TypeOK'
<1>1. t \in Threads
  BY SrvConstants
<1>2. PICK c \in Left(t) : Begins(t, c) \/ Refused(c) \/ Leaves(t, c)
  BY ExecuteTables
<1>3. UNCHANGED <<pstate, pend, rcvd>>
  BY ExecuteTables
<1>4. c \in [CallSlots -> CallRec]
  BY LeftType
<1>5. CASE Begins(t, c)
  <2> DEFINE i == KEndpoint(Endpoint)
             s == KSlot(c)
  <2>1. /\ i \in EpSlots /\ s \in CallSlots /\ KGen(c) \in Nat
        /\ KPruned(c) \in [CallSlots -> CallRec]
        /\ Len(PrunedEp[i].queue) < EpQueue
    BY <1>4, <1>5, AdmittedIs DEF Begins
  <2>2. QueuedCall(t, i, KGen(c)) \in CallRec
    BY <1>1, <1>5, <2>1, QueuedCallType DEF Begins
  <2>3. call' \in [CallSlots -> CallRec]
    BY <1>5, <2>1, <2>2 DEF Begins, KCall
  <2>4. ep' = [PrunedEp EXCEPT ![i].queue = Append(@, s), ![i].waiter = None]
    BY <1>5 DEF Begins, KEp
  <2>5. ep' \in [EpSlots -> EndpointRec] /\ \A k \in EpSlots : Len(ep'[k].queue) <= EpQueue
    <3> HIDE DEF i, s
    <3> QED
      BY <2>1, <2>4, EnqueueType, PrunedType
  <2>6. sleep' \in [Threads -> {"no", "call", "wait"}]
    BY <1>5, WakeType DEF Begins
  <2>7. cnt' \in [Threads -> 0 .. MaxReq]
    BY <1>1, <1>5, IpcConstants DEF Begins, TypeOK
  <2> QED
    BY <1>3, <1>5, <2>3, <2>5, <2>6, <2>7, PrunedType DEF Begins, TypeOK
<1>6. CASE Refused(c)
  <2>1. KPruned(c) \in [CallSlots -> CallRec]
    BY <1>4, GoneCallsType DEF KPruned
  <2> QED
    BY <1>3, <1>6, <2>1, PrunedType, WakeType DEF Refused, TypeOK
<1>7. CASE Leaves(t, c)
  BY <1>1, <1>3, <1>4, <1>7 DEF Leaves, TypeOK
<1> QED
  BY <1>2, <1>5, <1>6, <1>7

\* Executions keep the invariants of the IPC.
LEMMA ExecuteSound ==
    ASSUME IInv, NEW t \in Users, NEW y, Execute(t, y)
    PROVE  SoundNext
<1>1. PICK c \in Left(t) : Begins(t, c) \/ Refused(c) \/ Leaves(t, c)
  BY ExecuteTables
<1>2. pstate' = pstate
  BY ExecuteTables
<1>3. c \in [CallSlots -> CallRec] /\ Sound(ep, c, genc, pstate)
  BY LeftType, LeftSound DEF IInv
<1>4. Sound(PrunedEp, KPruned(c), PrunedGen, pstate)
  BY <1>3, GoneSound DEF PrunedEp, KPruned, PrunedGen
<1>5. CASE Begins(t, c)
  <2> DEFINE i == KEndpoint(Endpoint)
             s == KSlot(c)
             d == QueuedCall(t, i, KGen(c))
  <2>1. /\ i \in EpSlots /\ PrunedEp[i].used /\ s \in CallSlots
        /\ KPruned(c) \in [CallSlots -> CallRec]
    BY <1>3, <1>5, AdmittedIs DEF Begins, IInv
  <2>2. d.ep = i /\ d.epgen = PrunedEp[i].gen
    BY DEF QueuedCall
  <2>3. /\ ep' = [PrunedEp EXCEPT ![i].queue = Append(@, s), ![i].waiter = None]
        /\ call' = [KPruned(c) EXCEPT ![s] = d] /\ genc' = PrunedGen
    BY <1>5 DEF Begins, KEp, KCall
  <2>4. PrunedEp \in [EpSlots -> EndpointRec]
    BY PrunedType DEF IInv
  <2> HIDE DEF i, s, d
  <2>5. Sound([PrunedEp EXCEPT ![i].queue = Append(@, s), ![i].waiter = None],
              [KPruned(c) EXCEPT ![s] = d], PrunedGen, pstate)
    BY <1>4, <2>1, <2>2, <2>4, EnqueueSound
  <2> QED
    BY <1>2, <2>3, <2>5 DEF SoundNext
<1>6. CASE Refused(c)
  BY <1>2, <1>4, <1>6 DEF Refused, SoundNext
<1>7. CASE Leaves(t, c)
  BY <1>2, <1>3, <1>7 DEF Leaves, SoundNext
<1> QED
  BY <1>1, <1>5, <1>6, <1>7

\* Every other step is one that AuIpc knows, or none to it.
LEMMA StepIs ==
    ASSUME [SrvNext]_allVars
    PROVE  [Next]_vars \/ \E t \in Users : \E y : Execute(t, y)
<1>1. CASE UNCHANGED allVars
  BY <1>1 DEF allVars
<1>2. ASSUME NEW t \in Users,
             \/ \E n \in 1 .. MaxChunks : WriteFile(t, n)
             \/ \E create \in BOOLEAN : OpenFile(t, create)
             \/ ReadFile(t) \/ CreateDir(t) \/ ReadDir(t) \/ RemoveFile(t)
             \/ Restart(t)
      PROVE  \E y : Execute(t, y)
  BY <1>2 DEF WriteFile, OpenFile, ReadFile, CreateDir, ReadDir, RemoveFile, Enter, Restart
<1>3. ASSUME NEW t \in Threads \ Users, Serving(t) PROVE Next
  <2>1. "DAEMONS" \in Acls /\ Endpoint \in Names /\ TRUE \in BOOLEAN
    BY SrvConstants DEF Acls
  <2> QED
    BY <1>3, <2>1 DEF Serving, Serve, Next, ipc_ioctl
<1>4. ASSUME NEW t \in Threads, WakeUp(t) PROVE Next
  BY <1>4 DEF WakeUp, Next
<1>5. CASE Tick
  BY <1>5 DEF Tick
<1>6. ASSUME NEW p \in Procs, Exit(p) \/ Reap(p) PROVE Next
  BY <1>6 DEF Exit, Reap, Next
<1> QED
  BY <1>1, <1>2, <1>3, <1>4, <1>5, <1>6 DEF SrvNext

\* The invariants of the IPC hold with the kernel as a client, too.
LEMMA IpcInvariant == SrvSpec => []IInv
<1>1. SrvInit => IInv
  BY IInvInit DEF SrvInit
<1>2. ASSUME IInv, [SrvNext]_allVars PROVE IInv'
  <2>1. CASE [Next]_vars
    BY <1>2, <2>1, IInvStep
  <2>2. ASSUME NEW t \in Users, NEW y, Execute(t, y) PROVE IInv'
    <3>1. TypeOK' /\ SoundNext
      BY <1>2, <2>2, ExecuteType, ExecuteSound DEF IInv
    <3>2. Sound(ep, call, genc, pstate)'
      BY <3>1 DEF Sound, SoundNext
    <3> QED
      BY <3>1, <3>2 DEF IInv
  <2> QED
    BY <1>2, <2>1, <2>2, StepIs
<1> QED
  BY <1>1, <1>2, PTL DEF SrvSpec

-----------------------------------------------------------------------------
(***************************************************************************)
(* The histories: their types, and what one execution does to them.        *)
(***************************************************************************)
HistRec == [age : 0 .. HistStale + 1, ops : Seq(Ops)]

Busy == {t \in Threads : Used(t)}

\* The types of the proxy's state; histories belong to applications, a slot
\* without operations is empty, and no more slots are taken than there are.
SrvTyped ==
    /\ hist \in [Threads -> HistRec]
    /\ \A t \in Threads :
          /\ Len(hist[t].ops) <= MaxOps
          /\ Used(t) => t \in Users
          /\ ~Used(t) => hist[t].age = 0
    /\ IsFiniteSet(Busy) /\ Cardinality(Busy) <= MaxHist
    /\ sys \in [Threads -> Syscalls \cup {None}]
    /\ pos \in [Threads -> Nat]
    /\ mode \in BOOLEAN
    /\ sent = [r \in Reqs |-> sent[r]] /\ last = [t \in Threads |-> last[t]]

\* The last operation of a history that has any.
LEMMA LastOpType ==
    ASSUME SrvTyped, NEW t \in Threads, Used(t)
    PROVE  /\ Len(hist[t].ops) \in Nat \ {0} /\ Len(hist[t].ops) <= MaxOps
           /\ \A k \in 1 .. Len(hist[t].ops) : hist[t].ops[k] \in Ops
           /\ LastOp(t) \in Ops
<1>1. hist[t] \in HistRec
  BY DEF SrvTyped
<1>2. hist[t].ops \in Seq(Ops) /\ hist[t].ops # <<>>
  BY <1>1 DEF HistRec, Used
<1>3. Len(hist[t].ops) \in Nat \ {0}
  BY <1>2, LenProperties, EmptySeq
<1>4. \A k \in 1 .. Len(hist[t].ops) : hist[t].ops[k] \in Ops
  BY <1>2, ElementOfSeq
<1>5. Len(hist[t].ops) \in 1 .. Len(hist[t].ops)
  BY <1>3
<1>6. LastOp(t) \in Ops
  BY <1>4, <1>5 DEF LastOp
<1>7. Len(hist[t].ops) <= MaxOps
  BY DEF SrvTyped
<1> QED
  BY <1>3, <1>4, <1>6, <1>7

\* A thread's syscall asks the server: operation number k, at a position.
Asks(t, y, c, ops, k, at) ==
    /\ Begins(t, c) /\ at \in Nat
    /\ hist'[t].age = hist[t].age
    /\ hist'[t].ops = Append(ops, [id |-> KCallId(c), pos_before |-> at,
                                   create |-> Flags(y, NotedMode(y)), left |-> SrvTimeout])
    /\ sys'[t] = y /\ last' = last
    /\ sent' = [sent EXCEPT ![<<t, cnt[t] + 1>>] =
                   [sys |-> y, chunk |-> k, at |-> at, status |-> "none"]]

\* It returns.
Finishes(t, y, start, done) ==
    hist'[t] = NoHist /\ Returns(t, y, start, done) /\ UNCHANGED <<sent, cnt>>

\* It sleeps once more.
Sleeps(t) == UNCHANGED <<call, hist, sys, last, sent, cnt>>

\* What an execution does to the thread: a first execution, one that starts over,
\* and a replay, each with its ends.
FirstCase(t, y) ==
    /\ ~Used(t) /\ pos' = pos
    /\ \A u \in Stale : hist'[u] = NoHist
    /\ \/ HistFree /\ Asks(t, y, AbandonedBy(Stale), <<>>, 1, pos[t])
       \/ Finishes(t, y, pos[t], 0)

OverCase(t, y) ==
    /\ Used(t) /\ Mismatch(t, y) /\ pos' = pos
    /\ \/ Asks(t, y, AbandonedBy({t}), <<>>, 1, pos[t])
       \/ Finishes(t, y, pos[t], 0)

ReplayCase(t, y) ==
    LET k  == Len(hist[t].ops)
        at == Restored(t, k)
    IN  /\ Used(t) /\ ~Mismatch(t, y)
        /\ \/ pos' = [pos EXCEPT ![t] = at] /\ (Sleeps(t) \/ Finishes(t, y, StartPos(t), k - 1))
           \/ /\ pos' = [pos EXCEPT ![t] = at + Advance(t, y)]
              /\ KPoll(LastOp(t).id) = "OK" /\ Good(t)
              /\ \/ /\ k = y.n \/ k = MaxOps
                    /\ Finishes(t, y, StartPos(t), k - 1 + Advance(t, y))
                 \/ /\ k # y.n /\ k # MaxOps
                    /\ \/ Asks(t, y, KPolled(LastOp(t).id), hist[t].ops, k + 1,
                               at + Advance(t, y))
                       \/ Finishes(t, y, StartPos(t), k)

\* The other threads keep what they have, but for histories that are dropped as stale.
Others(t) ==
    \A u \in Threads : u # t =>
        /\ hist'[u] = hist[u] \/ (u \in Stale /\ hist'[u] = NoHist)
        /\ sys'[u] = sys[u] /\ pos'[u] = pos[u] /\ last'[u] = last[u] /\ cnt'[u] = cnt[u]

\* Dropping histories leaves histories.
LEMMA DropIs ==
    ASSUME NEW h \in [Threads -> HistRec], NEW U
    PROVE  /\ Drop(h, U) \in [Threads -> HistRec]
           /\ \A u \in Threads : Drop(h, U)[u] = IF u \in U THEN NoHist ELSE h[u]
<1>1. NoHist \in HistRec
  <2>1. << >> \in Seq(Ops)
    BY EmptySeq
  <2> QED
    BY <2>1, SrvConstants DEF NoHist, HistRec
<1> QED
  BY <1>1 DEF Drop

\* A new operation is entered at the end of the thread's history.
LEMMA NewOpIs ==
    ASSUME TypeOK, NEW t \in Threads, NEW y \in Syscalls, mode \in BOOLEAN,
           NEW c \in [CallSlots -> CallRec],
           NEW h \in [Threads -> HistRec], NEW k, NEW at \in Nat, NewOp(t, y, c, h, k, at)
    PROVE  /\ hist' \in [Threads -> HistRec]
           /\ \A u \in Threads : u # t => hist'[u] = h[u]
           /\ hist'[t].age = h[t].age
           /\ hist'[t].ops = Append(h[t].ops, [id |-> KCallId(c), pos_before |-> at,
                                   create |-> Flags(y, NotedMode(y)), left |-> SrvTimeout])
<1> DEFINE o == [id |-> KCallId(c), pos_before |-> at,
                 create |-> Flags(y, NotedMode(y)), left |-> SrvTimeout]
           q == Append(h[t].ops, o)
           r == [h[t] EXCEPT !.ops = q]
<1>1. KCallId(c) \in Nat \X CallSlots
  BY AdmittedIs DEF NewOp, KCallId, make_id
<1>2. Flags(y, NotedMode(y)) \in BOOLEAN
  BY DEF Flags, NotedMode, Opens, Syscalls
<1>3. o \in Ops
  BY <1>1, <1>2, SrvConstants DEF Ops
<1> HIDE DEF o
<1>4. h[t] \in HistRec
  OBVIOUS
<1>5. q \in Seq(Ops)
  BY <1>3, <1>4, AppendProperties DEF HistRec
<1>6. hist' = [h EXCEPT ![t].ops = q]
  BY DEF NewOp, o
<1>7. hist' = [h EXCEPT ![t] = r]
  BY <1>6
<1> HIDE DEF q
<1>8. r \in HistRec /\ r.age = h[t].age /\ r.ops = q
  BY <1>4, <1>5 DEF HistRec
<1> HIDE DEF r
<1>9. hist' \in [Threads -> HistRec] /\ hist'[t] = r /\ \A u \in Threads : u # t => hist'[u] = h[u]
  BY <1>7, <1>8
<1> QED
  BY <1>8, <1>9 DEF q, o

\* What Execute does, in the terms of the three cases.
LEMMA ExecuteIs ==
    ASSUME TypeOK, SrvTyped, NEW t \in Users, NEW y \in Syscalls, Execute(t, y)
    PROVE  /\ FirstCase(t, y) \/ OverCase(t, y) \/ ReplayCase(t, y)
           /\ Others(t)
           /\ hist' \in [Threads -> HistRec] /\ sys' \in [Threads -> Syscalls \cup {None}]
           /\ pos' \in [Threads -> Nat] /\ mode' \in BOOLEAN
           /\ sent' = [r \in Reqs |-> sent'[r]] /\ last' = [u \in Threads |-> last'[u]]
<1> DEFINE a == AbandonedBy(Stale)
           b == AbandonedBy({t})
           d == KPolled(LastOp(t).id)
           h0 == Drop(hist, Stale)
           h1 == [hist EXCEPT ![t].ops = <<>>]
           Typed == /\ hist' \in [Threads -> HistRec] /\ sys' \in [Threads -> Syscalls \cup {None}]
                    /\ sent' = [r \in Reqs |-> sent'[r]] /\ last' = [u \in Threads |-> last'[u]]
           Rest1 == \A u \in Threads : u # t =>
                       sys'[u] = sys[u] /\ last'[u] = last[u] /\ cnt'[u] = cnt[u]
<1>0. t \in Threads /\ pos[t] \in Nat
  BY SrvConstants DEF SrvTyped
<1>m. mode \in BOOLEAN
  BY DEF SrvTyped
<1>1. mode' \in BOOLEAN
  BY DEF Execute, NotedMode, SrvTyped, Syscalls
<1>2. /\ ~Used(t) => a \in [CallSlots -> CallRec]
      /\ Used(t) => b \in [CallSlots -> CallRec] /\ d \in [CallSlots -> CallRec]
  BY LeftType DEF Left
<1>3. hist[t] \in HistRec /\ hist \in [Threads -> HistRec]
  BY <1>0 DEF SrvTyped
<1>4. /\ h0 \in [Threads -> HistRec]
      /\ \A u \in Threads : h0[u] = IF u \in Stale THEN NoHist ELSE hist[u]
  BY <1>3, DropIs
<1>5. /\ h1 \in [Threads -> HistRec] /\ h1[t].age = hist[t].age /\ h1[t].ops = <<>>
      /\ \A u \in Threads : u # t => h1[u] = hist[u]
  <2>1. [hist[t] EXCEPT !.ops = <<>>] \in HistRec
    BY <1>3, EmptySeq DEF HistRec
  <2> QED
    BY <1>0, <1>3, <2>1 DEF HistRec
<1>6. \A c, h, k, at :
         NewOp(t, y, c, h, k, at) =>
            /\ sys' = [sys EXCEPT ![t] = y] /\ last' = last
            /\ cnt' = [cnt EXCEPT ![t] = @ + 1]
            /\ sent' = [sent EXCEPT ![<<t, cnt[t] + 1>>] =
                          [sys |-> y, chunk |-> k, at |-> at, status |-> "none"]]
  BY DEF NewOp
<1>7. ASSUME NEW c, NEW h, NEW k, NEW at, NewOp(t, y, c, h, k, at)
      PROVE  /\ Rest1 /\ sys'[t] = y
             /\ sys' \in [Threads -> Syscalls \cup {None}]
             /\ sent' = [r \in Reqs |-> sent'[r]] /\ last' = [u \in Threads |-> last'[u]]
  <2>1. /\ sys \in [Threads -> Syscalls \cup {None}] /\ cnt \in [Threads -> 0 .. MaxReq]
        /\ sent = [r \in Reqs |-> sent[r]] /\ last = [u \in Threads |-> last[u]]
    BY DEF SrvTyped, TypeOK
  <2>2. /\ sys' = [sys EXCEPT ![t] = y] /\ last' = last
        /\ cnt' = [cnt EXCEPT ![t] = @ + 1]
    BY <1>6, <1>7
  <2>3. \A r, e : [sent EXCEPT ![r] = e] = [q \in Reqs |-> [sent EXCEPT ![r] = e][q]]
    BY <2>1
  <2>4. sent' = [r \in Reqs |-> sent'[r]]
    BY <1>6, <1>7, <2>3
  <2>5. sys'[t] = y /\ sys' \in [Threads -> Syscalls \cup {None}]
    BY <1>0, <2>1, <2>2
  <2>6. Rest1
    BY <1>0, <2>1, <2>2
  <2> QED
    BY <2>1, <2>2, <2>4, <2>5, <2>6
<1>8. \A c, h, st, done :
         NoServer(t, y, c, h, st, done) =>
            /\ Returns(t, y, st, done) /\ UNCHANGED <<sent, cnt>> /\ hist' = Drop(h, {t})
  BY DEF NoServer
<1>9. \A st, done :
         Returns(t, y, st, done) /\ UNCHANGED <<sent, cnt>> =>
            /\ Rest1 /\ sys' \in [Threads -> Syscalls \cup {None}]
            /\ sent' = [r \in Reqs |-> sent'[r]] /\ last' = [u \in Threads |-> last'[u]]
  BY <1>0 DEF Returns, SrvTyped
<1>10. \A c, st, done :
         Ends(t, y, c, st, done) =>
            /\ Returns(t, y, st, done) /\ UNCHANGED <<sent, cnt>> /\ hist' = Drop(hist, {t})
  BY DEF Ends
<1> DEFINE Kept(h) == \A u \in Threads : u # t => hist'[u] = h[u]
<1>11. ASSUME NEW c \in [CallSlots -> CallRec], NEW h \in [Threads -> HistRec], NEW k,
              NEW at \in Nat, NewOp(t, y, c, h, k, at), cnt[t] < MaxReq,
              h[t].age = hist[t].age
       PROVE  Asks(t, y, c, h[t].ops, k, at) /\ Typed /\ Rest1 /\ Kept(h)
  <2>1. Begins(t, c)
    BY <1>11 DEF NewOp, Begins
  <2>2. /\ hist' \in [Threads -> HistRec] /\ Kept(h)
        /\ hist'[t].age = h[t].age
        /\ hist'[t].ops = Append(h[t].ops, [id |-> KCallId(c), pos_before |-> at,
                                   create |-> Flags(y, NotedMode(y)), left |-> SrvTimeout])
    BY <1>0, <1>11, <1>m, NewOpIs
  <2>3. Rest1 /\ Typed /\ sys'[t] = y
    BY <1>7, <1>11, <2>2
  <2>4. last' = last /\ sent' = [sent EXCEPT ![<<t, cnt[t] + 1>>] =
                                   [sys |-> y, chunk |-> k, at |-> at, status |-> "none"]]
    BY <1>6, <1>11
  <2> QED
    BY <1>11, <2>1, <2>2, <2>3, <2>4 DEF Asks
<1>12. ASSUME NEW h \in [Threads -> HistRec], NEW st, NEW done,
              hist' = Drop(h, {t}), Returns(t, y, st, done), UNCHANGED <<sent, cnt>>
       PROVE  Finishes(t, y, st, done) /\ Typed /\ Rest1 /\ Kept(h)
  <2>1. hist' \in [Threads -> HistRec] /\ hist'[t] = NoHist /\ Kept(h)
    BY <1>0, <1>12, DropIs
  <2> QED
    BY <1>9, <1>12, <2>1 DEF Finishes
<1> HIDE DEF Typed, Rest1, a, b, d, h0, h1
<1>13. CASE FirstExecution(t, y)
  <2>0. Kept(h0) => \A u \in Stale : hist'[u] = NoHist
    BY <1>4, <1>13 DEF FirstExecution, Stale
  <2>1. ~Used(t) /\ cnt[t] < MaxReq /\ pos' = pos
    BY <1>13 DEF FirstExecution
  <2>2. h0[t] = hist[t] /\ hist[t].ops = <<>> /\ hist[t].age = 0
    BY <1>0, <1>4, <2>1 DEF Stale, Used, SrvTyped
  <2>3. h0[t] = NoHist
    BY <1>3, <2>2 DEF HistRec, NoHist
  <2>4. ASSUME HistFree /\ NewOp(t, y, a, h0, 1, pos[t])
       PROVE  FirstCase(t, y) /\ Typed /\ Rest1 /\ Kept(h0)
    <3>1. Asks(t, y, a, <<>>, 1, pos[t]) /\ Typed /\ Rest1 /\ Kept(h0)
      BY <1>0, <1>2, <1>4, <1>11, <2>1, <2>2, <2>4
    <3> QED
      BY <2>0, <2>1, <2>4, <3>1 DEF FirstCase, a
  <2>5. ASSUME NoServer(t, y, a, h0, pos[t], 0)
       PROVE  FirstCase(t, y) /\ Typed /\ Rest1 /\ Kept(h0)
    <3>1. Finishes(t, y, pos[t], 0) /\ Typed /\ Rest1 /\ Kept(h0)
      BY <1>4, <1>8, <1>12, <2>5
    <3> QED
      BY <2>0, <2>1, <3>1 DEF FirstCase
  <2>6. ASSUME hist' = h0 /\ Returns(t, y, pos[t], 0) /\ UNCHANGED <<sent, cnt>>
       PROVE  FirstCase(t, y) /\ Typed /\ Rest1 /\ Kept(h0)
    <3>1. Finishes(t, y, pos[t], 0)
      BY <2>3, <2>6 DEF Finishes
    <3>2. Typed /\ Rest1 /\ Kept(h0)
      BY <1>4, <1>9, <2>6 DEF Typed
    <3> QED
      BY <2>0, <2>1, <3>1, <3>2 DEF FirstCase
  <2>7. FirstCase(t, y) /\ Typed /\ Rest1 /\ Kept(h0)
    BY <1>13, <2>4, <2>5, <2>6 DEF FirstExecution, a, h0
  <2>8. Others(t)
    BY <1>4, <2>1, <2>7 DEF Others, Rest1
  <2> QED
    BY <1>1, <2>1, <2>7, <2>8 DEF Typed, SrvTyped
<1>14. CASE Used(t) /\ StartOver(t, y)
  <2>1. Used(t) /\ Mismatch(t, y) /\ cnt[t] < MaxReq /\ pos' = pos
    BY <1>14 DEF StartOver
  <2>2. ASSUME NewOp(t, y, b, h1, 1, pos[t])
       PROVE  OverCase(t, y) /\ Typed /\ Rest1 /\ Kept(h1)
    <3>1. Asks(t, y, b, <<>>, 1, pos[t]) /\ Typed /\ Rest1 /\ Kept(h1)
      BY <1>0, <1>2, <1>5, <1>11, <2>1, <2>2
    <3> QED
      BY <2>1, <3>1 DEF OverCase, b
  <2>3. ASSUME NoServer(t, y, b, h1, pos[t], 0)
       PROVE  OverCase(t, y) /\ Typed /\ Rest1 /\ Kept(h1)
    <3>1. Finishes(t, y, pos[t], 0) /\ Typed /\ Rest1 /\ Kept(h1)
      BY <1>5, <1>8, <1>12, <2>3
    <3> QED
      BY <2>1, <3>1 DEF OverCase
  <2>4. OverCase(t, y) /\ Typed /\ Rest1 /\ Kept(h1)
    BY <1>14, <2>2, <2>3 DEF StartOver, b, h1
  <2>5. Others(t)
    BY <1>5, <2>1, <2>4 DEF Others, Rest1
  <2> QED
    BY <1>1, <2>1, <2>4, <2>5 DEF Typed, SrvTyped
<1>15. CASE Replay(t, y)
  <2> DEFINE k  == Len(hist[t].ops)
             at == Restored(t, k)
             to == at + Advance(t, y)
  <2>1. Used(t) /\ ~Mismatch(t, y)
    BY <1>15 DEF Replay
  <2>2. at \in Nat /\ to \in Nat /\ k \in Nat
    <3>1. hist[t].ops[k] \in Ops /\ k \in Nat
      BY <1>0, <2>1, LastOpType
    <3>2. Advance(t, y) \in {0, 1}
      BY DEF Advance
    <3> QED
      BY <3>1, <3>2 DEF Ops, Restored
  <2>3. \/ /\ pos' = [pos EXCEPT ![t] = at]
           /\ \/ Sleeps(t)
              \/ Finishes(t, y, StartPos(t), k - 1) /\ Typed /\ Rest1 /\ Kept(hist)
        \/ /\ pos' = [pos EXCEPT ![t] = to]
           /\ KPoll(LastOp(t).id) = "OK" /\ Good(t)
           /\ \/ /\ k = y.n \/ k = MaxOps
                 /\ Finishes(t, y, StartPos(t), k - 1 + Advance(t, y))
              \/ /\ k # y.n /\ k # MaxOps
                 /\ \/ Asks(t, y, d, hist[t].ops, k + 1, to)
                    \/ Finishes(t, y, StartPos(t), k)
           /\ Typed /\ Rest1 /\ Kept(hist)
    <3>1. CASE /\ KPoll(LastOp(t).id) = "TIMEOUT" /\ ~Expired(t)
               /\ pos' = [pos EXCEPT ![t] = at]
               /\ UNCHANGED <<call, cnt, hist, sys, sent, last>>
      BY <3>1 DEF Sleeps
    <3>2. CASE /\ pos' = [pos EXCEPT ![t] = at]
               /\ \E c : Ends(t, y, c, StartPos(t), k - 1)
      BY <1>3, <1>10, <1>12, <3>2
    <3>3. CASE /\ KPoll(LastOp(t).id) = "OK" /\ Good(t)
               /\ pos' = [pos EXCEPT ![t] = to]
               /\ k = y.n \/ k = MaxOps
               /\ Ends(t, y, d, StartPos(t), k - 1 + Advance(t, y))
      BY <1>3, <1>10, <1>12, <3>3
    <3>4. CASE /\ KPoll(LastOp(t).id) = "OK" /\ Good(t)
               /\ pos' = [pos EXCEPT ![t] = to]
               /\ k # y.n /\ k # MaxOps /\ cnt[t] < MaxReq
               /\ NewOp(t, y, d, hist, k + 1, to)
      BY <1>2, <1>3, <1>11, <2>1, <2>2, <3>4
    <3>5. CASE /\ KPoll(LastOp(t).id) = "OK" /\ Good(t)
               /\ pos' = [pos EXCEPT ![t] = to]
               /\ k # y.n /\ k # MaxOps
               /\ NoServer(t, y, d, hist, StartPos(t), k)
      BY <1>3, <1>8, <1>12, <3>5
    <3> QED
      BY <1>15, <3>1, <3>2, <3>3, <3>4, <3>5 DEF Replay, d
  <2>4. ReplayCase(t, y)
    BY <2>1, <2>3 DEF ReplayCase, d
  <2>5. Sleeps(t) => Typed /\ Rest1 /\ Kept(hist)
    BY DEF Sleeps, Typed, Rest1, SrvTyped
  <2>6. Typed /\ Rest1 /\ Kept(hist)
    BY <2>3, <2>5
  <2>7. pos' \in [Threads -> Nat] /\ \A u \in Threads : u # t => pos'[u] = pos[u]
    <3>1. pos' = [pos EXCEPT ![t] = at] \/ pos' = [pos EXCEPT ![t] = to]
      BY <2>3
    <3> HIDE DEF at, to
    <3> QED
      BY <2>2, <3>1 DEF SrvTyped
  <2>8. Others(t)
    BY <2>6, <2>7 DEF Others, Rest1
  <2> QED
    BY <1>1, <2>4, <2>6, <2>7, <2>8 DEF Typed
<1> QED
  BY <1>13, <1>14, <1>15 DEF Execute

\* Only a WriteFile has more than one operation.
OneUnlessWrite(y) == y.op = "write" \/ y.n = 1

\* A thread that runs executes a system call: one it makes, or the one it is in.
Executes(t, y) ==
    /\ y \in Syscalls /\ Running(t)
    /\ sys[t] = y \/ (sys[t] = None /\ y.nr = cnt[t] + 1 /\ OneUnlessWrite(y))
    /\ Execute(t, y)

\* The steps of the system; an application takes only executions.
LEMMA StepCases ==
    ASSUME TypeOK, SrvTyped, SrvNext
    PROVE  \/ \E t \in Users, y \in Syscalls : Executes(t, y)
           \/ \E t \in Threads \ Users : Serving(t)
           \/ \E t \in Threads : WakeUp(t)
           \/ Tick
           \/ \E p \in Procs : Exit(p) \/ Reap(p)
<1>1. ASSUME NEW t \in Users, NEW op, NEW n \in 1 .. MaxChunks, NEW create \in BOOLEAN,
             Enter(t, op, n, create), op = "write" \/ n = 1
      PROVE  \E y \in Syscalls : Executes(t, y)
  <2> DEFINE y == [op |-> op, n |-> n, create |-> create, nr |-> cnt[t] + 1]
  <2>1. cnt[t] \in 0 .. MaxReq /\ MaxReq \in Nat
    BY SrvConstants, IpcConstants DEF TypeOK
  <2>2. op \in Uses[t]
    BY <1>1 DEF Enter
  <2>3. y \in Syscalls
    BY <2>1, <2>2 DEF Syscalls
  <2>4. /\ Running(t) /\ sys[t] = None /\ Execute(t, y)
        /\ y.nr = cnt[t] + 1 /\ OneUnlessWrite(y)
    BY <1>1 DEF Enter, Idle, OneUnlessWrite
  <2> HIDE DEF y
  <2> QED
    BY <2>3, <2>4 DEF Executes
<1>2. 1 \in 1 .. MaxChunks
  BY SrvConstants
<1>3. ASSUME NEW t \in Users,
             \/ \E n \in 1 .. MaxChunks : WriteFile(t, n)
             \/ \E create \in BOOLEAN : OpenFile(t, create)
             \/ ReadFile(t) \/ CreateDir(t) \/ ReadDir(t) \/ RemoveFile(t)
      PROVE  \E y \in Syscalls : Executes(t, y)
  BY <1>1, <1>2, <1>3 DEF WriteFile, OpenFile, ReadFile, CreateDir, ReadDir, RemoveFile
<1>4. ASSUME NEW t \in Users, Restart(t) PROVE \E y \in Syscalls : Executes(t, y)
  <2>1. Running(t) /\ sys[t] # None /\ Execute(t, sys[t])
    BY <1>4 DEF Restart
  <2>2. sys[t] \in Syscalls
    BY <2>1, SrvConstants DEF SrvTyped
  <2> QED
    BY <2>1, <2>2 DEF Executes
<1> QED
  BY <1>3, <1>4 DEF SrvNext

\* Executions keep the types, and the array of histories is not overrun.
LEMMA ExecuteTyped ==
    ASSUME TypeOK, SrvTyped, NEW t \in Users, NEW y \in Syscalls, Execute(t, y)
    PROVE  SrvTyped'
<1>1. /\ FirstCase(t, y) \/ OverCase(t, y) \/ ReplayCase(t, y)
      /\ Others(t)
      /\ hist' \in [Threads -> HistRec] /\ sys' \in [Threads -> Syscalls \cup {None}]
      /\ pos' \in [Threads -> Nat] /\ mode' \in BOOLEAN
      /\ sent' = [r \in Reqs |-> sent'[r]] /\ last' = [u \in Threads |-> last'[u]]
  BY ExecuteIs
<1>2. t \in Threads /\ MaxOps \in Nat \ {0} /\ MaxHist \in Nat \ {0}
  BY SrvConstants
<1>3. ASSUME NEW c, NEW ops \in Seq(Ops), NEW k, NEW at, Len(ops) < MaxOps,
             Asks(t, y, c, ops, k, at)
      PROVE  Len(hist'[t].ops) <= MaxOps /\ hist'[t].ops # <<>>
  <2>1. ASSUME NEW o PROVE Len(Append(ops, o)) = Len(ops) + 1 /\ Append(ops, o) # <<>>
    <3>1. ops \in Seq(Ops \cup {o})
      BY SeqDef, LenProperties
    <3>2. o \in Ops \cup {o}
      OBVIOUS
    <3> HIDE DEF Ops
    <3> QED
      BY <3>1, <3>2, AppendProperties, EmptySeq
  <2> QED
    BY <1>2, <1>3, <2>1 DEF Asks
<1>4. NoHist.ops = <<>> /\ NoHist.age = 0 /\ Len(NoHist.ops) = 0
  BY DEF NoHist
<1>5. <<>> \in Seq(Ops) /\ Len(<<>>) < MaxOps
  BY <1>2
<1>6. /\ Len(hist'[t].ops) <= MaxOps
      /\ hist'[t].ops = <<>> => hist'[t].age = 0
  <2>1. CASE FirstCase(t, y)
    <3>1. \/ \E c, at : Asks(t, y, c, <<>>, 1, at)
          \/ hist'[t] = NoHist
      BY <2>1 DEF FirstCase, Finishes
    <3>2. CASE \E c, at : Asks(t, y, c, <<>>, 1, at)
      <4>1. PICK c, at : Asks(t, y, c, <<>>, 1, at)
        BY <3>2
      <4> QED
        BY <1>3, <1>5, <4>1
    <3>3. CASE hist'[t] = NoHist
      BY <1>2, <1>4, <3>3
    <3> QED
      BY <3>1, <3>2, <3>3
  <2>2. CASE OverCase(t, y)
    <3>1. \/ \E c, at : Asks(t, y, c, <<>>, 1, at)
          \/ hist'[t] = NoHist
      BY <2>2 DEF OverCase, Finishes
    <3>2. CASE \E c, at : Asks(t, y, c, <<>>, 1, at)
      <4>1. PICK c, at : Asks(t, y, c, <<>>, 1, at)
        BY <3>2
      <4> QED
        BY <1>3, <1>5, <4>1
    <3>3. CASE hist'[t] = NoHist
      BY <1>2, <1>4, <3>3
    <3> QED
      BY <3>1, <3>2, <3>3
  <2>3. CASE ReplayCase(t, y)
    <3>1. Used(t)
      BY <2>3 DEF ReplayCase
    <3>2. /\ Len(hist[t].ops) \in Nat \ {0} /\ Len(hist[t].ops) <= MaxOps
          /\ hist[t].ops # <<>> /\ hist[t].ops \in Seq(Ops)
      BY <1>2, <3>1, LastOpType DEF Used, SrvTyped, HistRec
    <3>3. CASE Sleeps(t)
      BY <3>2, <3>3 DEF Sleeps
    <3>4. CASE \E st, done : Finishes(t, y, st, done)
      BY <1>2, <1>4, <3>4 DEF Finishes
    <3>5. CASE \E c, at : /\ Len(hist[t].ops) # MaxOps
                          /\ Asks(t, y, c, hist[t].ops, Len(hist[t].ops) + 1, at)
      BY <1>2, <1>3, <3>2, <3>5
    <3> QED
      BY <2>3, <3>3, <3>4, <3>5 DEF ReplayCase
  <2> QED
    BY <1>1, <2>1, <2>2, <2>3
<1>7. ASSUME NEW u \in Threads
      PROVE  /\ Len(hist'[u].ops) <= MaxOps
             /\ hist'[u].ops # <<>> => u \in Users
             /\ hist'[u].ops = <<>> => hist'[u].age = 0
  <2>1. CASE u = t
    BY <1>6, <2>1
  <2>2. CASE u # t
    <3>1. hist'[u] = hist[u] \/ hist'[u] = NoHist
      BY <1>1, <2>2 DEF Others
    <3>2. /\ Len(hist[u].ops) <= MaxOps
          /\ hist[u].ops # <<>> => u \in Users
          /\ hist[u].ops = <<>> => hist[u].age = 0
      BY DEF SrvTyped, Used
    <3>3. 0 <= MaxOps
      BY <1>2
    <3> HIDE DEF NoHist
    <3> QED
      BY <1>4, <3>1, <3>2, <3>3
  <2> QED
    BY <2>1, <2>2
<1>8. IsFiniteSet(Busy') /\ Cardinality(Busy') <= MaxHist
  <2>1. IsFiniteSet(Busy) /\ Cardinality(Busy) <= MaxHist /\ Cardinality(Busy) \in Nat
    BY FS_CardinalityType DEF SrvTyped
  <2>2. Busy' \subseteq Busy \cup {t}
    BY <1>1, <1>4 DEF Others, Busy, Used
  <2>3. CASE Busy' \subseteq Busy
    <3>1. IsFiniteSet(Busy') /\ Cardinality(Busy') <= Cardinality(Busy) /\ Cardinality(Busy') \in Nat
      BY <2>1, <2>3, FS_Subset, FS_CardinalityType
    <3> QED
      BY <1>2, <2>1, <3>1
  <2>4. CASE ~(Busy' \subseteq Busy)
    <3> DEFINE F == {u \in Threads \ Stale : Used(u)}
    <3>1. ~Used(t) /\ hist'[t].ops # <<>>
      BY <2>2, <2>4 DEF Busy, Used
    <3>2. FirstCase(t, y) /\ HistFree
      BY <1>1, <1>4, <3>1 DEF FirstCase, OverCase, ReplayCase, Finishes
    <3>3. Busy' \subseteq F \cup {t}
      BY <1>1, <1>4, <3>2 DEF FirstCase, Others, Busy, Used, Stale
    <3>4. F \subseteq Busy /\ Cardinality(F) < MaxHist
      BY <3>2 DEF Busy, HistFree
    <3> HIDE DEF F
    <3>5. IsFiniteSet(F) /\ Cardinality(F) \in Nat
      BY <2>1, <3>4, FS_Subset, FS_CardinalityType
    <3>6. IsFiniteSet(F \cup {t}) /\ Cardinality(F \cup {t}) <= Cardinality(F) + 1
          /\ Cardinality(F \cup {t}) \in Nat
      BY <3>5, FS_AddElement, FS_CardinalityType
    <3>7. IsFiniteSet(Busy') /\ Cardinality(Busy') <= Cardinality(F \cup {t})
          /\ Cardinality(Busy') \in Nat
      BY <3>3, <3>6, FS_Subset, FS_CardinalityType
    <3> QED
      BY <1>2, <3>4, <3>5, <3>6, <3>7
  <2> QED
    BY <2>3, <2>4
<1> QED
  BY <1>1, <1>7, <1>8 DEF SrvTyped, Used

\* A history ages: its last operation has one tick less left.
LEMMA AgedType ==
    ASSUME NEW h \in HistRec
    PROVE  /\ Aged(h) \in HistRec /\ Len(Aged(h).ops) = Len(h.ops)
           /\ (Aged(h).ops = <<>>) <=> (h.ops = <<>>)
           /\ h.ops = <<>> => Aged(h) = h
           /\ h.ops # <<>> =>
                 /\ Len(h.ops) \in 1 .. Len(h.ops)
                 /\ Aged(h).age = IF h.age > HistStale THEN h.age ELSE h.age + 1
                 /\ Aged(h).ops[Len(h.ops)].left =
                       IF h.ops[Len(h.ops)].left = 0 THEN 0 ELSE h.ops[Len(h.ops)].left - 1
                 /\ \A k \in 1 .. Len(h.ops) :
                       /\ Aged(h).ops[k].id = h.ops[k].id
                       /\ Aged(h).ops[k].pos_before = h.ops[k].pos_before
                       /\ Aged(h).ops[k].create = h.ops[k].create
<1>1. CASE h.ops = <<>>
  BY <1>1 DEF Aged
<1>2. CASE h.ops # <<>>
  <2> DEFINE n == Len(h.ops)
             o == [h.ops[n] EXCEPT !.left = IF @ = 0 THEN 0 ELSE @ - 1]
             q == [h.ops EXCEPT ![n] = o]
             a == IF h.age > HistStale THEN h.age ELSE h.age + 1
  <2>1. h.ops \in Seq(Ops) /\ h.age \in 0 .. HistStale + 1
    BY DEF HistRec
  <2>2. n \in 1 .. n /\ n \in Nat /\ h.ops \in [1 .. n -> Ops]
    BY <1>2, <2>1
  <2>3. h.ops[n] \in Ops
    BY <2>2
  <2>4. /\ o \in Ops /\ o.id = h.ops[n].id /\ o.pos_before = h.ops[n].pos_before
        /\ o.create = h.ops[n].create
        /\ o.left = IF h.ops[n].left = 0 THEN 0 ELSE h.ops[n].left - 1
    <3>1. h.ops[n].left \in 0 .. SrvTimeout
      BY <2>3 DEF Ops
    <3>2. (IF h.ops[n].left = 0 THEN 0 ELSE h.ops[n].left - 1) \in 0 .. SrvTimeout
      BY <3>1, SrvConstants
    <3> QED
      BY <2>3, <3>2 DEF Ops
  <2>5. Aged(h) = [age |-> a, ops |-> q]
    BY <1>2 DEF Aged
  <2>6. a \in 0 .. HistStale + 1
    BY <2>1, SrvConstants
  <2> HIDE DEF o, a
  <2>7. q \in [1 .. n -> Ops] /\ \A k \in 1 .. n : q[k] = IF k = n THEN o ELSE h.ops[k]
    BY <2>2, <2>4
  <2> HIDE DEF q
  <2>8. q \in Seq(Ops) /\ Len(q) = n /\ q # <<>>
    <3> HIDE DEF n
    <3>1. q \in Seq(Ops) /\ Len(q) = n
      BY <2>2, <2>7, SeqDef, LenProperties
    <3> QED
      BY <2>2, <3>1, EmptySeq
  <2>9. Aged(h).ops = q /\ Aged(h).age = a /\ Aged(h) \in HistRec
    BY <2>5, <2>6, <2>8 DEF HistRec
  <2> QED
    BY <1>2, <2>2, <2>4, <2>7, <2>8, <2>9 DEF a
<1> QED
  BY <1>1, <1>2

\* Every step keeps the types.
LEMMA SrvTypedStep ==
    ASSUME TypeOK, SrvTyped, [SrvNext]_allVars
    PROVE  SrvTyped'
<1>1. ASSUME UNCHANGED <<hist, pos, mode, last>>,
             sys' \in [Threads -> Syscalls \cup {None}],
             sent' = [r \in Reqs |-> sent'[r]]
      PROVE  SrvTyped'
  <2>1. Busy' = Busy
    BY <1>1 DEF Busy, Used
  <2> QED
    BY <1>1, <2>1 DEF SrvTyped, Used
<1>2. CASE UNCHANGED srvVars
  BY <1>1, <1>2 DEF srvVars, SrvTyped
<1>3. ASSUME NEW t \in Threads \ Users, Serving(t)
      PROVE  SrvTyped'
  <2>1. ASSUME NEW m \in rcvd[ProcOf[t]], NEW status, Serve(t, m, status) PROVE SrvTyped'
    <3>1. UNCHANGED <<hist, pos, mode, last, sys>>
      BY <2>1 DEF Serve
    <3>2. sent' = sent \/ sent' = [sent EXCEPT ![m.req].status = status]
      BY <2>1 DEF Serve
    <3>3. sent' = [r \in Reqs |-> sent'[r]]
      BY <3>2 DEF SrvTyped
    <3> QED
      BY <1>1, <3>1, <3>3 DEF SrvTyped
  <2> QED
    BY <1>2, <1>3, <2>1 DEF Serving
<1>4. ASSUME NEW t \in Threads, WakeUp(t) PROVE SrvTyped'
  BY <1>2, <1>4 DEF WakeUp
<1>5. CASE Tick
  <2>1. hist' = [t \in Threads |-> Aged(hist[t])] /\ UNCHANGED <<sys, pos, mode, sent, last>>
    BY <1>5 DEF Tick
  <2>2. \A t \in Threads : hist[t] \in HistRec
    BY DEF SrvTyped
  <2>3. hist' \in [Threads -> HistRec]
    BY <2>1, <2>2, AgedType
  <2>4. \A t \in Threads : /\ Len(hist'[t].ops) = Len(hist[t].ops)
                           /\ (hist'[t].ops = <<>>) <=> (hist[t].ops = <<>>)
                           /\ hist[t].ops = <<>> => hist'[t] = hist[t]
    BY <2>1, <2>2, AgedType
  <2>5. Busy' = Busy
    BY <2>4 DEF Busy, Used
  <2> QED
    BY <2>1, <2>3, <2>4, <2>5 DEF SrvTyped, Used
<1>6. ASSUME NEW p \in Procs, Exit(p) PROVE SrvTyped'
  <2>1. sys' = [t \in Threads |-> IF ProcOf[t] = p THEN None ELSE sys[t]]
    BY <1>6 DEF Exit
  <2>2. sys' \in [Threads -> Syscalls \cup {None}]
    BY <2>1 DEF SrvTyped
  <2>3. UNCHANGED <<hist, pos, mode, sent, last>>
    BY <1>6 DEF Exit
  <2> QED
    BY <1>1, <2>2, <2>3 DEF SrvTyped
<1>7. ASSUME NEW p \in Procs, Reap(p) PROVE SrvTyped'
  BY <1>2, <1>7 DEF Reap
<1>8. CASE UNCHANGED allVars
  BY <1>2, <1>8 DEF allVars, srvVars
<1>9. CASE SrvNext
  <2>1. ASSUME NEW t \in Users, NEW y \in Syscalls, Executes(t, y) PROVE SrvTyped'
    BY <2>1, ExecuteTyped DEF Executes
  <2> QED
    BY <1>3, <1>4, <1>5, <1>6, <1>7, <1>9, <2>1, StepCases
<1> QED
  BY <1>8, <1>9

\* The kernel starts with no history and no syscall in progress.
LEMMA SrvTypedInit == SrvInit => SrvTyped
<1> SUFFICES ASSUME SrvInit PROVE SrvTyped
  OBVIOUS
<1>1. NoHist \in HistRec /\ NoHist.ops = <<>> /\ NoHist.age = 0
  <2>1. << >> \in Seq(Ops)
    BY EmptySeq
  <2> QED
    BY <2>1, SrvConstants DEF NoHist, HistRec
<1>2. Busy = {}
  BY <1>1 DEF SrvInit, Busy, Used
<1>3. IsFiniteSet(Busy) /\ Cardinality(Busy) = 0
  BY <1>2, FS_EmptySet
<1>4. Len(NoHist.ops) <= MaxOps /\ 0 <= MaxHist /\ 0 \in Nat
  BY <1>1, SrvConstants
<1>5. sent = [r \in Reqs |-> sent[r]] /\ last = [t \in Threads |-> last[t]]
  BY DEF SrvInit
<1>6. /\ hist = [t \in Threads |-> NoHist] /\ mode = FALSE
      /\ sys = [t \in Threads |-> None] /\ pos = [t \in Threads |-> 0]
  BY DEF SrvInit
<1> HIDE DEF NoHist
<1> QED
  BY <1>1, <1>3, <1>4, <1>5, <1>6 DEF SrvTyped, Used

\* Type correctness of the proxy; no history and no operation array is overrun
\* (hist_get, srv_op).
THEOREM SrvTypeCorrect == SrvSpec => []SrvTypeOK
<1>1. SrvInit => TypeOK /\ SrvTyped
  BY IInvInit, SrvTypedInit DEF SrvInit, IInv
<1>2. IInv /\ SrvTyped /\ [SrvNext]_allVars => SrvTyped'
  BY SrvTypedStep DEF IInv
<1>3. IInv /\ SrvTyped => SrvTypeOK
  <2> SUFFICES ASSUME IInv, SrvTyped PROVE SrvTypeOK
    OBVIOUS
  <2>1. \A t \in Threads : hist[t].age \in 0 .. HistStale + 1 /\ hist[t].ops \in Seq(Ops)
    BY DEF SrvTyped, HistRec
  <2> QED
    BY <2>1 DEF SrvTyped, SrvTypeOK, IInv, Busy
<1> QED
  BY <1>1, <1>2, <1>3, IpcInvariant, PTL DEF SrvSpec

-----------------------------------------------------------------------------
(***************************************************************************)
(* The call a thread waits for.  It lives in the table among calls that    *)
(* are freed, abandoned and replaced by others; each operation keeps it,   *)
(* whatever other threads, the server and the reaper do.                   *)
(***************************************************************************)

\* The call id in table C is thread t's, for its n-th request.
Mine(C, t, n, id) ==
    /\ call_from_id(id, C)
    /\ C[id[2]].tid = t /\ C[id[2]].pid = ProcOf[t] /\ C[id[2]].req = <<t, n>>
    /\ C[id[2]].state # "ABANDONED"

Live(t) == pstate[ProcOf[t]] = "run"

\* Every live thread's waiting operation has its call.
OwnCalls == \A t \in Users : Used(t) /\ Live(t) => Mine(call, t, cnt[t], LastOp(t).id)

\* A call that is neither free nor given up stays so from table C to table D.
Keeps(C, D, s) ==
    C[s].state \notin {"FREE", "ABANDONED"} =>
        /\ D[s].state \notin {"FREE", "ABANDONED"}
        /\ D[s].gen = C[s].gen /\ D[s].tid = C[s].tid
        /\ D[s].pid = C[s].pid /\ D[s].req = C[s].req

\* A call that is kept stays the caller's own.
LEMMA KeepsMine ==
    ASSUME NEW C, NEW D, NEW t, NEW n, NEW id, Mine(C, t, n, id), Keeps(C, D, id[2])
    PROVE  Mine(D, t, n, id) /\ C[id[2]].pid = ProcOf[t] /\ id[2] \in CallSlots
BY DEF Mine, Keeps, call_from_id

\* A call kept by two changes of the table in a row is kept.
LEMMA KeepsAlong ==
    ASSUME NEW C, NEW D, NEW E, NEW s, Keeps(C, D, s), Keeps(D, E, s) PROVE Keeps(C, E, s)
BY DEF Keeps

\* Another state of a call that is not given up.
LEMMA StateKeeps ==
    ASSUME NEW C \in [CallSlots -> CallRec], NEW r \in CallSlots,
           NEW st \in {"FAILED", "SERVING"}, NEW s \in CallSlots
    PROVE  Keeps(C, [C EXCEPT ![r].state = st], s)
<1>1. C[s] \in CallRec
  OBVIOUS
<1> QED
  BY <1>1 DEF Keeps, CallRec

\* AuIpcProcessGone keeps the calls of processes that stay; it may fail them.
LEMMA GoneKeeps ==
    ASSUME NEW C \in [CallSlots -> CallRec], NEW P, NEW s \in CallSlots, C[s].pid \notin P
    PROVE  Keeps(C, GoneCalls(P, C), s) /\ GoneCalls(P, C)[s].pid = C[s].pid
<1>1. C[s] \in CallRec
  OBVIOUS
<1>2. GoneCalls(P, C)[s] = C[s] \/ GoneCalls(P, C)[s] = [C[s] EXCEPT !.state = "FAILED"]
  BY DEF GoneCalls
<1> QED
  BY <1>1, <1>2 DEF Keeps, CallRec

\* RECV frees abandoned calls only, and hands out one of the others.
LEMMA RecvKeeps ==
    ASSUME TypeOK, NEW t, NEW h \in Handles, NEW fits, do_recv(t, h, fits), NEW s \in CallSlots
    PROVE  Keeps(call, call', s)
<1> DEFINE q == Queue(h)
           n == Skips(q)
<1>1. /\ h[2] \in EpSlots /\ Scanned(h) \in [CallSlots -> CallRec]
      /\ ~Drained(h) => NextSlot(h) \in CallSlots
  BY RecvParts
<1>2. ep[h[2]] \in EndpointRec
  BY <1>1 DEF TypeOK
<1>3. q \in Seq(CallSlots)
  BY <1>2 DEF EndpointRec, Queue
<1>4. \A k \in 1 .. n : call[q[k]].state = "ABANDONED"
  BY <1>3, SkipsInQueue DEF SkippedAll, Skipped
<1>5. Keeps(call, Scanned(h), s)
  <2> HIDE DEF q, n
  <2>1. Scanned(h)[s] = IF \E k \in 1 .. n : q[k] = s THEN FreeCall ELSE call[s]
    BY DEF Scanned, AfterSkips, q, n
  <2> QED
    BY <1>4, <2>1 DEF Keeps
<1>6. CASE call' = Scanned(h)
  BY <1>5, <1>6
<1>7. ASSUME NEW st \in {"FAILED", "SERVING"}, ~Drained(h),
             call' = [Scanned(h) EXCEPT ![NextSlot(h)].state = st]
      PROVE  Keeps(call, call', s)
  <2>1. Keeps(Scanned(h), call', s)
    BY <1>1, <1>7, StateKeeps
  <2> QED
    BY <1>5, <2>1, KeepsAlong
<1> QED
  BY <1>6, <1>7 DEF do_recv, RecvEmpty, RecvTooBig, RecvDeliver

\* A reply stores the answer of a call that is served, or frees one given up.
LEMMA ReplyKeeps ==
    ASSUME TypeOK, NEW t, NEW m, do_reply(t, m), NEW s \in CallSlots
    PROVE  Keeps(call, call', s)
<1>1. call[s] \in CallRec /\ call \in [CallSlots -> CallRec]
  BY DEF TypeOK
<1>2. CASE call' = [call EXCEPT ![m.id[2]].state = "DONE", ![m.id[2]].resp = m.req]
  <2>1. /\ call'[s].state \in {call[s].state, "DONE"}
        /\ call'[s].gen = call[s].gen /\ call'[s].tid = call[s].tid
        /\ call'[s].pid = call[s].pid /\ call'[s].req = call[s].req
    <3> DEFINE r == m.id[2]
               c == [call[r] EXCEPT !.state = "DONE", !.resp = m.req]
    <3>1. call' = [call EXCEPT ![r] = c]
      BY <1>1, <1>2
    <3>2. r = s => /\ c.state = "DONE" /\ c.gen = call[s].gen /\ c.tid = call[s].tid
                   /\ c.pid = call[s].pid /\ c.req = call[s].req
      BY <1>1 DEF CallRec
    <3> HIDE DEF c, r
    <3> QED
      BY <1>1, <3>1, <3>2
  <2> QED
    BY <2>1 DEF Keeps
<1>3. CASE CanDrop(m) /\ call' = [call EXCEPT ![m.id[2]] = FreeCall]
  <2>1. call'[s] = call[s] \/ (s = m.id[2] /\ call[s].state = "ABANDONED")
    BY <1>1, <1>3 DEF CanDrop
  <2> QED
    BY <2>1 DEF Keeps
<1>4. CASE call' = call
  BY <1>4 DEF Keeps
<1> QED
  BY <1>2, <1>3, <1>4 DEF do_reply

\* A history that is dropped gives up the calls of its own thread only.
LEMMA LeftKeeps ==
    ASSUME IInv, SrvTyped, OwnCalls, IdsFresh, NEW t \in Users, Live(t), NEW c \in Left(t),
           NEW u \in Users, u # t, Used(u), Live(u), ~Used(t) => u \notin Stale
    PROVE  Keeps(call, c, LastOp(u).id[2])
<1> DEFINE s == LastOp(u).id[2]
<1>1. Mine(call, u, cnt[u], LastOp(u).id)
  BY DEF OwnCalls
<1>2. s \in CallSlots /\ call[s].tid = u
  BY <1>1 DEF Mine, call_from_id
<1>3. ASSUME NEW w \in Threads, Used(w), call_from_id(LastOp(w).id, call), LastOp(w).id[2] = s,
             w = t \/ (w \in Stale /\ ~Used(t))
      PROVE  w = u
  <2>1. w \in Users
    BY <1>3 DEF SrvTyped
  <2>2. CASE Live(w)
    BY <1>2, <1>3, <2>1, <2>2 DEF OwnCalls, Mine
  <2>3. CASE ~Live(w)
    <3>1. LastOp(w).id # LastOp(u).id
      BY <1>3, <2>1, <2>3 DEF IdsFresh, Live
    <3>2. LastOp(w).id \in Nat \X CallSlots /\ LastOp(u).id \in Nat \X CallSlots
      BY <1>3, LastOpType, SrvConstants DEF Ops
    <3>3. LastOp(w).id[1] = LastOp(u).id[1]
      BY <1>1, <1>3 DEF Mine, call_from_id
    <3> QED
      BY <1>3, <3>1, <3>2, <3>3
  <2> QED
    BY <2>2, <2>3
<1>4. ASSUME NEW U, u \notin U, U \subseteq Threads, \A w \in U : w = t \/ (w \in Stale /\ ~Used(t))
      PROVE  AbandonedBy(U)[s] = call[s]
  <2> DEFINE N == {w \in U : Used(w) /\ call_from_id(LastOp(w).id, call)
                             /\ LastOp(w).id[2] = s}
  <2>1. N = {}
    BY <1>3, <1>4
  <2>2. Cardinality(N) = 0
    BY <2>1, FS_EmptySet
  <2>3. AbandonedBy(U)[s] = KAbandon(call[s], Cardinality(N))
    BY <1>2 DEF AbandonedBy
  <2> QED
    BY <2>2, <2>3 DEF KAbandon
<1>5. CASE ~Used(t)
  <2>1. c = AbandonedBy(Stale) /\ Stale \subseteq Threads
    BY <1>5 DEF Left, Stale
  <2> QED
    BY <1>4, <1>5, <2>1 DEF Keeps
<1>6. CASE Used(t)
  <2>1. t \in Threads
    BY SrvConstants
  <2>2. CASE c = AbandonedBy({t})
    BY <1>4, <2>1, <2>2 DEF Keeps
  <2>3. CASE c = KPolled(LastOp(t).id)
    <3>1. KPolled(LastOp(t).id)[s] = call[s]
      <4>1. call_from_id(LastOp(t).id, call) => LastOp(t).id[2] # s
        BY <1>3, <1>6, <2>1
      <4> QED
        BY <1>2, <4>1 DEF KPolled, KPoll, IInv, TypeOK
    <3> QED
      BY <2>3, <3>1 DEF Keeps
  <2>4. CASE c = call
    BY <2>4 DEF Keeps
  <2> QED
    BY <1>6, <2>2, <2>3, <2>4 DEF Left
<1> QED
  BY <1>5, <1>6

\* AuIpcKCallBegin keeps the calls of live processes, whether it begins a call or not.
LEMMA BeginKeeps ==
    ASSUME TypeOK, NEW t, NEW c \in [CallSlots -> CallRec],
           Begins(t, c) \/ Refused(c) \/ Leaves(t, c),
           NEW s \in CallSlots, c[s].pid \notin DeadOwners
    PROVE  Keeps(c, call', s)
<1>1. Keeps(c, KPruned(c), s)
  BY GoneKeeps DEF KPruned
<1>2. CASE Begins(t, c)
  <2>1. /\ KSlot(c) \in CallSlots /\ KPruned(c)[KSlot(c)].state = "FREE"
        /\ KPruned(c) \in [CallSlots -> CallRec]
        /\ call' = [KPruned(c) EXCEPT ![KSlot(c)] = QueuedCall(t, KEndpoint(Endpoint), KGen(c))]
    BY <1>2, AdmittedIs DEF Begins, KCall
  <2> HIDE DEF QueuedCall
  <2>2. CASE s = KSlot(c)
    BY <1>1, <2>1, <2>2 DEF Keeps
  <2>3. CASE s # KSlot(c)
    <3>1. call'[s] = KPruned(c)[s]
      BY <2>1, <2>3
    <3> QED
      BY <1>1, <3>1 DEF Keeps
  <2> QED
    BY <2>2, <2>3
<1>3. CASE Refused(c)
  BY <1>1, <1>3 DEF Refused
<1>4. CASE Leaves(t, c)
  BY <1>4 DEF Leaves, Keeps
<1> QED
  BY <1>2, <1>3, <1>4

\* The call a thread begins is the one its new operation waits for.
LEMMA BeginsMine ==
    ASSUME TypeOK, NEW t \in Threads, NEW c \in [CallSlots -> CallRec], Begins(t, c)
    PROVE  Mine(call', t, cnt'[t], KCallId(c))
<1> DEFINE i == KEndpoint(Endpoint)
           d == QueuedCall(t, i, KGen(c))
<1>1. KSlot(c) \in CallSlots /\ KPruned(c) \in [CallSlots -> CallRec]
  BY AdmittedIs DEF Begins
<1>2. call' = [KPruned(c) EXCEPT ![KSlot(c)] = d] /\ cnt'[t] = cnt[t] + 1
  BY DEF Begins, KCall, TypeOK
<1>3. /\ d.state = "QUEUED" /\ d.gen = KGen(c) /\ d.tid = t /\ d.pid = ProcOf[t]
      /\ d.req = <<t, cnt[t] + 1>>
  BY DEF QueuedCall
<1> HIDE DEF d
<1>4. call'[KSlot(c)] = d
  BY <1>1, <1>2
<1>5. KCallId(c)[1] = KGen(c) /\ KCallId(c)[2] = KSlot(c) /\ KCallId(c) # NoId
  BY DEF KCallId, make_id, NoId
<1> QED
  BY <1>1, <1>2, <1>3, <1>4, <1>5 DEF Mine, call_from_id

\* An execution keeps the calls of the other threads, and its thread's own.
LEMMA ExecuteOwn ==
    ASSUME IInv, SrvTyped, OwnCalls, IdsFresh,
           NEW t \in Users, NEW y \in Syscalls, Executes(t, y)
    PROVE  OwnCalls'
<1>1. TypeOK /\ t \in Threads /\ Live(t) /\ Execute(t, y)
  BY SrvConstants DEF IInv, Executes, Running, Live
<1>2. /\ FirstCase(t, y) \/ OverCase(t, y) \/ ReplayCase(t, y)
      /\ Others(t)
  BY <1>1, ExecuteIs
<1>3. /\ \E c \in Left(t) : Begins(t, c) \/ Refused(c) \/ Leaves(t, c)
      /\ pstate' = pstate
  BY <1>1, ExecuteTables
<1>4. NoHist.ops = <<>>
  BY DEF NoHist
<1>5. ASSUME NEW u \in Users, u # t, hist'[u].ops # <<>>, Live(u)
      PROVE  Mine(call', u, cnt'[u], hist'[u].ops[Len(hist'[u].ops)].id)
  <2>1. u \in Threads
    BY SrvConstants
  <2>2. hist'[u] = hist[u] /\ cnt'[u] = cnt[u] /\ Used(u)
    <3> HIDE DEF NoHist
    <3> QED
      BY <1>2, <1>4, <1>5, <2>1 DEF Others, Used
  <2>3. ~Used(t) => u \notin Stale
    <3> HIDE DEF NoHist
    <3> QED
      BY <1>2, <1>4, <1>5 DEF FirstCase, OverCase, ReplayCase
  <2>4. PICK c \in Left(t) : Begins(t, c) \/ Refused(c) \/ Leaves(t, c)
    BY <1>3
  <2>5. c \in [CallSlots -> CallRec]
    BY <1>1, LeftType
  <2>6. Mine(call, u, cnt[u], LastOp(u).id)
    BY <1>5, <2>2 DEF OwnCalls
  <2>7. Keeps(call, c, LastOp(u).id[2])
    BY <1>1, <1>5, <2>2, <2>3, LeftKeeps
  <2>8. /\ Mine(c, u, cnt[u], LastOp(u).id) /\ LastOp(u).id[2] \in CallSlots
        /\ c[LastOp(u).id[2]].pid = ProcOf[u]
    <3>1. Mine(c, u, cnt[u], LastOp(u).id) /\ LastOp(u).id[2] \in CallSlots
      BY <2>6, <2>7, KeepsMine
    <3> QED
      BY <3>1 DEF Mine
  <2>9. ProcOf[u] \notin DeadOwners
    BY <1>5 DEF Live, DeadOwners
  <2>10. Keeps(c, call', LastOp(u).id[2])
    BY <1>1, <2>4, <2>5, <2>8, <2>9, BeginKeeps
  <2>11. Mine(call', u, cnt[u], LastOp(u).id)
    BY <2>8, <2>10, KeepsMine
  <2> QED
    BY <2>2, <2>11 DEF LastOp
<1>6. ASSUME hist'[t].ops # <<>>
      PROVE  Mine(call', t, cnt'[t], hist'[t].ops[Len(hist'[t].ops)].id)
  <2>1. ASSUME NEW c \in Left(t), NEW ops \in Seq(Ops), NEW k, NEW at, Asks(t, y, c, ops, k, at)
        PROVE  Mine(call', t, cnt'[t], hist'[t].ops[Len(hist'[t].ops)].id)
    <3> DEFINE o == [id |-> KCallId(c), pos_before |-> at,
                     create |-> Flags(y, NotedMode(y)), left |-> SrvTimeout]
    <3>1. Begins(t, c) /\ hist'[t].ops = Append(ops, o)
      BY <2>1 DEF Asks
    <3>2. c \in [CallSlots -> CallRec]
      BY <1>1, LeftType
    <3>3. o.id = KCallId(c)
      OBVIOUS
    <3> HIDE DEF o
    <3>4. Append(ops, o)[Len(Append(ops, o))] = o
      <4>1. ops \in Seq(Ops \cup {o}) /\ o \in Ops \cup {o}
        BY SeqDef, LenProperties
      <4> HIDE DEF Ops
      <4> QED
        BY <4>1, AppendProperties
    <3> QED
      BY <1>1, <3>1, <3>2, <3>3, <3>4, BeginsMine
  <2>2. CASE hist'[t] = NoHist
    BY <1>4, <1>6, <2>2
  <2>3. <<>> \in Seq(Ops)
    OBVIOUS
  <2>4. CASE FirstCase(t, y)
    <3>1. AbandonedBy(Stale) \in Left(t)
      BY <2>4 DEF FirstCase, Left
    <3> QED
      BY <2>1, <2>2, <2>3, <2>4, <3>1 DEF FirstCase, Finishes
  <2>5. CASE OverCase(t, y)
    <3>1. AbandonedBy({t}) \in Left(t)
      BY <2>5 DEF OverCase, Left
    <3> QED
      BY <2>1, <2>2, <2>3, <2>5, <3>1 DEF OverCase, Finishes
  <2>6. CASE ReplayCase(t, y)
    <3>1. KPolled(LastOp(t).id) \in Left(t) /\ hist[t].ops \in Seq(Ops) /\ Used(t)
      BY <1>1, <2>6 DEF ReplayCase, Left, SrvTyped, HistRec
    <3>2. CASE Sleeps(t)
      BY <1>1, <3>1, <3>2 DEF Sleeps, OwnCalls, LastOp
    <3>3. CASE \E k, at : Asks(t, y, KPolled(LastOp(t).id), hist[t].ops, k, at)
      BY <2>1, <3>1, <3>3
    <3>4. Sleeps(t) \/ hist'[t] = NoHist
            \/ \E k, at : Asks(t, y, KPolled(LastOp(t).id), hist[t].ops, k, at)
      BY <2>6 DEF ReplayCase, Finishes
    <3> QED
      BY <2>2, <3>2, <3>3, <3>4
  <2> QED
    BY <1>2, <2>4, <2>5, <2>6
<1> QED
  BY <1>3, <1>5, <1>6 DEF OwnCalls, Used, Live, LastOp

\* So does every step.
LEMMA OwnCallsStep ==
    ASSUME IInv, SrvTyped, OwnCalls, IdsFresh, [SrvNext]_allVars
    PROVE  OwnCalls'
<1>1. TypeOK
  BY DEF IInv
<1>2. ASSUME hist' = hist, cnt' = cnt,
             \A t \in Users : Live(t)' => Live(t),
             \A s \in CallSlots : Keeps(call, call', s) \/
                 \E p \in Procs : pstate[p] = "died" /\ call[s].pid = p
      PROVE  OwnCalls'
  <2>1. ASSUME NEW t \in Users, Used(t), Live(t) PROVE Mine(call', t, cnt[t], LastOp(t).id)
    <3>1. Mine(call, t, cnt[t], LastOp(t).id)
      BY <2>1 DEF OwnCalls
    <3>2. LastOp(t).id[2] \in CallSlots /\ call[LastOp(t).id[2]].pid = ProcOf[t]
      BY <3>1 DEF Mine, call_from_id
    <3>3. Keeps(call, call', LastOp(t).id[2])
      BY <1>2, <2>1, <3>2 DEF Live
    <3> QED
      BY <3>1, <3>3, KeepsMine
  <2> QED
    BY <1>2, <2>1 DEF OwnCalls, Used, LastOp
<1>3. \A s : Keeps(call, call, s)
  BY DEF Keeps
<1>4. ASSUME NEW P, P \subseteq {p \in Procs : pstate[p] = "died"}, call' = GoneCall(P)
      PROVE  \A s \in CallSlots : Keeps(call, call', s) \/
                 \E p \in Procs : pstate[p] = "died" /\ call[s].pid = p
  BY <1>1, <1>4, GoneKeeps DEF GoneCall, TypeOK
<1>5. DeadOwners \subseteq {p \in Procs : pstate[p] = "died"}
  BY DEF DeadOwners
<1>6. CASE UNCHANGED allVars
  <2>1. UNCHANGED <<hist, cnt, call, pstate>>
    BY <1>6 DEF allVars, vars, srvVars
  <2> QED
    BY <1>2, <1>3, <2>1 DEF Live
<1>7. ASSUME NEW t \in Threads \ Users, Serving(t) PROVE OwnCalls'
  <2>1. ASSUME do_create(t, Endpoint, "DAEMONS"), UNCHANGED srvVars PROVE OwnCalls'
    <3>1. call' = GoneCall(DeadOwners) /\ UNCHANGED <<hist, cnt, pstate>>
      BY <2>1 DEF do_create, OnlyPrune, PrunedCall, srvVars
    <3> QED
      BY <1>2, <1>4, <1>5, <3>1 DEF Live
  <2>2. ASSUME NEW h \in Handles, do_wait(t, h), UNCHANGED srvVars PROVE OwnCalls'
    <3>1. UNCHANGED <<hist, cnt, call, pstate>>
      BY <2>2 DEF do_wait, srvVars
    <3> QED
      BY <1>2, <1>3, <3>1 DEF Live
  <2>3. ASSUME NEW h \in Handles, do_recv(t, h, TRUE), UNCHANGED srvVars PROVE OwnCalls'
    <3>1. UNCHANGED <<hist, cnt, pstate>>
      BY <2>3 DEF do_recv, srvVars
    <3>2. \A s \in CallSlots : Keeps(call, call', s)
      BY <1>1, <2>3, RecvKeeps
    <3> QED
      BY <1>2, <3>1, <3>2 DEF Live
  <2>4. ASSUME NEW m, NEW status, Serve(t, m, status) PROVE OwnCalls'
    <3>1. do_reply(t, m) /\ UNCHANGED <<hist, cnt, pstate>>
      BY <2>4 DEF Serve, do_reply
    <3>2. \A s \in CallSlots : Keeps(call, call', s)
      BY <1>1, <3>1, ReplyKeeps
    <3> QED
      BY <1>2, <3>1, <3>2 DEF Live
  <2> QED
    BY <1>7, <2>1, <2>2, <2>3, <2>4 DEF Serving
<1>8. ASSUME NEW t \in Threads, WakeUp(t) PROVE OwnCalls'
  <2>1. UNCHANGED <<hist, cnt, call, pstate>>
    BY <1>8 DEF WakeUp, Timeout, srvVars
  <2> QED
    BY <1>2, <1>3, <2>1 DEF Live
<1>9. CASE Tick
  <2>1. hist' = [t \in Threads |-> Aged(hist[t])] /\ UNCHANGED <<cnt, call, pstate>>
    BY <1>9 DEF Tick, vars
  <2>2. ASSUME NEW t \in Users, hist'[t].ops # <<>>
        PROVE  Used(t) /\ hist'[t].ops[Len(hist'[t].ops)].id = LastOp(t).id
    <3>1. t \in Threads /\ hist[t] \in HistRec
      BY SrvConstants DEF SrvTyped
    <3>2. hist'[t] = Aged(hist[t])
      BY <2>1, <3>1
    <3>3. Used(t)
      BY <2>2, <3>1, <3>2, AgedType DEF Used
    <3> QED
      BY <3>1, <3>2, <3>3, AgedType DEF Used, LastOp
  <2> QED
    BY <2>1, <2>2 DEF OwnCalls, Used, Live, LastOp
<1>10. ASSUME NEW p \in Procs, Exit(p) PROVE OwnCalls'
  <2>1. UNCHANGED <<hist, cnt, call>> /\ pstate' = [pstate EXCEPT ![p] = "died"]
    BY <1>10 DEF Exit, AuProcessExit
  <2>2. \A t \in Users : Live(t)' => Live(t)
    BY <1>1, <2>1, IpcConstants, SrvConstants DEF Live, TypeOK
  <2> QED
    BY <1>2, <1>3, <2>1, <2>2
<1>11. ASSUME NEW p \in Procs, Reap(p) PROVE OwnCalls'
  <2>1. /\ UNCHANGED <<hist, cnt>> /\ pstate' = [pstate EXCEPT ![p] = "reaped"]
        /\ pstate[p] = "died" /\ call' = GoneCall({p})
    BY <1>11 DEF Reap, AuProcessClean, AuIpcProcessGone, srvVars
  <2>2. \A t \in Users : Live(t)' => Live(t)
    BY <1>1, <2>1, IpcConstants, SrvConstants DEF Live, TypeOK
  <2>3. {p} \subseteq {q \in Procs : pstate[q] = "died"}
    BY <2>1
  <2> QED
    BY <1>2, <1>4, <2>1, <2>2, <2>3
<1>12. CASE SrvNext
  <2>1. ASSUME NEW t \in Users, NEW y \in Syscalls, Executes(t, y) PROVE OwnCalls'
    BY <2>1, ExecuteOwn
  <2> QED
    BY <1>1, <1>7, <1>8, <1>9, <1>10, <1>11, <1>12, <2>1, StepCases
<1> QED
  BY <1>6, <1>12

\* The types hold always.
LEMMA SrvInvariant == SrvSpec => [](IInv /\ SrvTyped)
<1>1. SrvInit => SrvTyped
  BY SrvTypedInit
<1>2. IInv /\ SrvTyped /\ [SrvNext]_allVars => SrvTyped'
  BY SrvTypedStep DEF IInv
<1> QED
  BY <1>1, <1>2, IpcInvariant, PTL DEF SrvSpec

\* As long as no stale history of a dead thread, when it is dropped, names the call
\* for which another thread waits, a thread that waits in a /srv syscall waits for
\* its own call, which neither the histories dropped by others nor the server nor
\* the reaper take from it (srv_op, hist_drop, AuIpcKCallAbandon).
LEMMA OwnCall == SrvSpec /\ []IdsFresh => []WaitsForOwnCall
<1>1. SrvInit => OwnCalls
  BY SrvConstants DEF SrvInit, OwnCalls, Used, NoHist
<1>2. IInv /\ SrvTyped /\ OwnCalls /\ IdsFresh /\ [SrvNext]_allVars => OwnCalls'
  BY OwnCallsStep
<1>3. OwnCalls => WaitsForOwnCall
  BY DEF OwnCalls, WaitsForOwnCall, Live, Mine
<1> QED
  BY <1>1, <1>2, <1>3, SrvInvariant, PTL DEF SrvSpec

\* Applications that never exit keep no history of a dead thread.
LEMMA AppsStay ==
    ASSUME \A t \in Users : ProcOf[t] \notin Mortal
    PROVE  SrvSpec => []IdsFresh
<1> DEFINE AllLive == \A t \in Users : Live(t)
<1>1. SrvInit => AllLive
  BY IpcConstants, SrvConstants DEF SrvInit, Init, Live
<1>2. ASSUME TypeOK, AllLive, [SrvNext]_allVars PROVE AllLive'
  <2>1. ASSUME UNCHANGED pstate PROVE AllLive'
    BY <1>2, <2>1 DEF Live
  <2>2. CASE UNCHANGED allVars
    BY <2>1, <2>2 DEF allVars, vars
  <2>3. ASSUME NEW t \in Users, NEW y, Execute(t, y) PROVE AllLive'
    BY <2>1, <2>3 DEF Execute
  <2>4. ASSUME Next PROVE AllLive'
    <3>1. ASSUME NEW t, ipc_ioctl(t) \/ Timeout(t) PROVE pstate' = pstate
      BY <3>1 DEF ipc_ioctl, Timeout, do_create, do_connect, OnlyPrune, do_fetch, do_destroy,
                  do_call, do_wait, do_recv, do_reply
    <3>2. ASSUME NEW p \in Procs, AuProcessExit(p) PROVE AllLive'
      BY <1>2, <3>2, IpcConstants, SrvConstants DEF AuProcessExit, Live, TypeOK
    <3>3. ASSUME NEW p \in Procs, AuProcessClean(p) PROVE AllLive'
      BY <1>2, <3>3, IpcConstants, SrvConstants DEF AuProcessClean, Live, TypeOK
    <3> QED
      BY <2>1, <2>4, <3>1, <3>2, <3>3 DEF Next
  <2> QED
    BY <1>2, <2>1, <2>2, <2>3, <2>4, StepIs DEF vars
<1>3. AllLive => IdsFresh
  BY DEF Live, IdsFresh
<1>4. IInv => TypeOK
  BY DEF IInv
<1> QED
  BY <1>1, <1>2, <1>3, <1>4, IpcInvariant, PTL DEF SrvSpec

\* With such applications the call a thread waits for is its own, whatever the
\* server processes do and however often they are replaced.
THEOREM OwnCallOfLasting ==
    ASSUME \A t \in Users : ProcOf[t] \notin Mortal
    PROVE  SrvSpec => []WaitsForOwnCall
BY AppsStay, OwnCall, PTL

-----------------------------------------------------------------------------
(***************************************************************************)
(* The requests a thread has made, and the history they left.              *)
(***************************************************************************)

\* What a request asks of the server.
SentRec == [sys : Syscalls, chunk : Nat \ {0}, at : Nat, status : {"none", "ok", "end", "err"}]

\* Requests are numbered along the syscalls they belong to; only a READ finds the
\* end of its file.
SentOK ==
    \A t \in Users :
        /\ sys[t] # None => sys[t].nr <= cnt[t] + 1
        /\ \A i \in 1 .. cnt[t] :
              /\ sent[<<t, i>>] \in SentRec /\ sent[<<t, i>>].sys.nr <= i
              /\ sent[<<t, i>>].status = "end" => sent[<<t, i>>].sys.op = "read"

\* A live thread stays alive or dies for good.
LEMMA LivesOn ==
    ASSUME TypeOK, [SrvNext]_allVars, NEW t \in Threads
    PROVE  Live(t)' => Live(t)
<1>1. ASSUME UNCHANGED pstate PROVE Live(t)' => Live(t)
  BY <1>1 DEF Live
<1>2. CASE UNCHANGED allVars
  BY <1>1, <1>2 DEF allVars, vars
<1>3. ASSUME NEW u \in Users, NEW y, Execute(u, y) PROVE Live(t)' => Live(t)
  BY <1>1, <1>3 DEF Execute
<1>4. ASSUME NEW p \in Procs, AuProcessExit(p) PROVE Live(t)' => Live(t)
  BY <1>4, IpcConstants DEF AuProcessExit, Live, TypeOK
<1>5. ASSUME NEW p \in Procs, AuProcessClean(p) PROVE Live(t)' => Live(t)
  BY <1>5, IpcConstants DEF AuProcessClean, Live, TypeOK
<1>6. ASSUME NEW u, ipc_ioctl(u) \/ Timeout(u) PROVE pstate' = pstate
  BY <1>6 DEF ipc_ioctl, Timeout, do_create, do_connect, OnlyPrune, do_fetch, do_destroy,
              do_call, do_wait, do_recv, do_reply
<1>7. [Next]_vars => (Live(t)' => Live(t))
  BY <1>1, <1>4, <1>5, <1>6 DEF Next, vars
<1> QED
  BY <1>2, <1>3, <1>7, StepIs

\* One more request: the others stay what they were.
LEMMA AsksSent ==
    ASSUME TypeOK, SrvTyped, NEW t \in Threads, NEW y, NEW c, NEW ops, NEW k, NEW at,
           Asks(t, y, c, ops, k, at)
    PROVE  /\ cnt'[t] = cnt[t] + 1 /\ cnt[t] \in Nat /\ cnt[t] + 1 \in 1 .. MaxReq
           /\ sent'[<<t, cnt[t] + 1>>] = [sys |-> y, chunk |-> k, at |-> at, status |-> "none"]
           /\ \A u \in Threads, i \in 1 .. MaxReq :
                 u # t \/ i # cnt[t] + 1 => sent'[<<u, i>>] = sent[<<u, i>>]
<1>1. cnt \in [Threads -> 0 .. MaxReq] /\ MaxReq \in Nat
  BY IpcConstants DEF TypeOK
<1>2. cnt' = [cnt EXCEPT ![t] = @ + 1] /\ cnt[t] < MaxReq
  BY DEF Asks, Begins
<1>3. cnt[t] \in Nat /\ cnt[t] + 1 \in 1 .. MaxReq /\ cnt'[t] = cnt[t] + 1
  BY <1>1, <1>2
<1> DEFINE r == [sys |-> y, chunk |-> k, at |-> at, status |-> "none"]
           n == cnt[t] + 1
<1>4. sent' = [sent EXCEPT ![<<t, n>>] = r] /\ sent = [q \in Reqs |-> sent[q]]
  BY DEF Asks, SrvTyped
<1> HIDE DEF r, n
<1>5. ASSUME n \in 1 .. MaxReq
      PROVE  /\ sent'[<<t, n>>] = r
             /\ \A u \in Threads, i \in 1 .. MaxReq :
                   u # t \/ i # n => sent'[<<u, i>>] = sent[<<u, i>>]
  <2>1. <<t, n>> \in Reqs
    BY <1>5 DEF Reqs
  <2>2. \A q \in Reqs : sent'[q] = IF q = <<t, n>> THEN r ELSE sent[q]
    BY <1>4
  <2>3. ASSUME NEW u \in Threads, NEW i \in 1 .. MaxReq, u # t \/ i # n
        PROVE  sent'[<<u, i>>] = sent[<<u, i>>]
    <3>1. <<u, i>> \in Reqs /\ <<u, i>> # <<t, n>>
      BY <2>3 DEF Reqs
    <3> QED
      BY <2>2, <3>1
  <2> QED
    BY <2>1, <2>2, <2>3
<1> QED
  BY <1>3, <1>5 DEF n, r

\* An execution asks once more, returns, or sleeps again.
LEMMA ExecuteEnds ==
    ASSUME TypeOK, SrvTyped, NEW t \in Users, NEW y \in Syscalls, Execute(t, y)
    PROVE  \/ \E c, ops, k, at : k \in Nat \ {0} /\ Asks(t, y, c, ops, k, at)
           \/ hist'[t] = NoHist /\ sys'[t] = None /\ UNCHANGED <<sent, cnt>>
           \/ Sleeps(t)
<1>2. ASSUME NEW st, NEW done, Finishes(t, y, st, done)
      PROVE  hist'[t] = NoHist /\ sys'[t] = None /\ UNCHANGED <<sent, cnt>>
  BY <1>2, SrvConstants DEF Finishes, Returns, SrvTyped
<1>3. FirstCase(t, y) \/ OverCase(t, y) \/ ReplayCase(t, y)
  BY ExecuteIs
<1>4. ReplayCase(t, y) => Len(hist[t].ops) + 1 \in Nat \ {0}
  BY SrvConstants, LastOpType DEF ReplayCase
<1> QED
  BY <1>2, <1>3, <1>4 DEF FirstCase, OverCase, ReplayCase

\* The requests stay in order.
LEMMA SentStep ==
    ASSUME TypeOK, SrvTyped, SentOK, [SrvNext]_allVars
    PROVE  SentOK'
<1>0. \A t \in Users : t \in Threads /\ cnt[t] \in Nat /\ cnt[t] <= MaxReq
  BY SrvConstants, IpcConstants DEF TypeOK
<1>1. ASSUME \A t \in Users : sys'[t] \in {sys[t], None}, UNCHANGED <<cnt, sent>>
      PROVE  SentOK'
  BY <1>1, SrvConstants DEF SentOK
<1>2. ASSUME NEW t \in Users, NEW y \in Syscalls, Executes(t, y) PROVE SentOK'
  <2>1. Execute(t, y) /\ Others(t)
    BY <1>2, ExecuteIs DEF Executes
  <2>2. CASE hist'[t] = NoHist /\ sys'[t] = None /\ UNCHANGED <<sent, cnt>>
    BY <1>0, <1>1, <2>1, <2>2 DEF Others
  <2>3. CASE Sleeps(t)
    BY <1>1, <2>3 DEF Sleeps
  <2>4. ASSUME NEW c, NEW ops, NEW k \in Nat \ {0}, NEW at, Asks(t, y, c, ops, k, at)
        PROVE  SentOK'
    <3>1. /\ cnt'[t] = cnt[t] + 1 /\ cnt[t] \in Nat /\ cnt[t] + 1 \in 1 .. MaxReq
          /\ sent'[<<t, cnt[t] + 1>>] = [sys |-> y, chunk |-> k, at |-> at, status |-> "none"]
          /\ \A u \in Threads, i \in 1 .. MaxReq :
                 u # t \/ i # cnt[t] + 1 => sent'[<<u, i>>] = sent[<<u, i>>]
      BY <1>0, <2>4, AsksSent
    <3>2. sys'[t] = y /\ at \in Nat
      BY <2>4 DEF Asks
    <3>3. y.nr \in Nat /\ y.nr <= cnt[t] + 1
      BY <1>2, <3>1, IpcConstants, SrvConstants DEF Executes, SentOK, Syscalls
    <3> DEFINE r == [sys |-> y, chunk |-> k, at |-> at, status |-> "none"]
    <3>4. r \in SentRec /\ r.sys.nr <= cnt[t] + 1 /\ r.status # "end"
      BY <3>2, <3>3 DEF SentRec
    <3> HIDE DEF r
    <3>5. ASSUME NEW u \in Users
          PROVE  /\ sys'[u] # None => sys'[u].nr <= cnt'[u] + 1
                 /\ \A i \in 1 .. cnt'[u] :
                       /\ sent'[<<u, i>>] \in SentRec /\ sent'[<<u, i>>].sys.nr <= i
                       /\ sent'[<<u, i>>].status = "end" => sent'[<<u, i>>].sys.op = "read"
      <4>1. CASE u = t
        <5>1. sys'[u] # None => sys'[u].nr <= cnt'[u] + 1
          BY <3>1, <3>2, <3>3, <4>1
        <5>2. ASSUME NEW i \in 1 .. cnt'[u]
              PROVE  /\ sent'[<<u, i>>] \in SentRec /\ sent'[<<u, i>>].sys.nr <= i
                     /\ sent'[<<u, i>>].status = "end" => sent'[<<u, i>>].sys.op = "read"
          <6>1. CASE i = cnt[t] + 1
            <7>1. sent'[<<u, i>>] = r
              BY <3>1, <4>1, <6>1 DEF r
            <7> QED
              BY <3>4, <6>1, <7>1
          <6>2. CASE i # cnt[t] + 1
            <7>1. i \in 1 .. cnt[u] /\ i \in 1 .. MaxReq
              BY <1>0, <3>1, <4>1, <6>2, IpcConstants
            <7>2. sent'[<<u, i>>] = sent[<<u, i>>]
              BY <1>0, <3>1, <6>2, <7>1
            <7> QED
              BY <7>1, <7>2 DEF SentOK
          <6> QED
            BY <6>1, <6>2
        <5> QED
          BY <5>1, <5>2
      <4>2. CASE u # t
        <5>1. sys'[u] = sys[u] /\ cnt'[u] = cnt[u]
          BY <1>0, <2>1, <4>2 DEF Others
        <5>2. \A i \in 1 .. cnt[u] : sent'[<<u, i>>] = sent[<<u, i>>]
          <6>1. \A i \in 1 .. cnt[u] : i \in 1 .. MaxReq
            BY <1>0, IpcConstants
          <6> QED
            BY <1>0, <3>1, <4>2, <6>1
        <5> QED
          BY <5>1, <5>2 DEF SentOK
      <4> QED
        BY <4>1, <4>2
    <3> QED
      BY <3>5 DEF SentOK
  <2> QED
    BY <2>1, <2>2, <2>3, <2>4, ExecuteEnds
<1>3. ASSUME NEW t \in Threads \ Users, Serving(t) PROVE SentOK'
  <2>1. ASSUME NEW m \in rcvd[ProcOf[t]], NEW st \in {"ok", "end", "err"}, Serve(t, m, st)
        PROVE  SentOK'
    <3>1. UNCHANGED <<sys, cnt>>
      BY <2>1 DEF Serve, do_reply
    <3>2. CASE UNCHANGED sent
      BY <1>1, <3>1, <3>2
    <3>3. CASE /\ st = "end" => sent[m.req].sys.op = "read"
               /\ sent' = [sent EXCEPT ![m.req].status = st]
      <4>1. ASSUME NEW u \in Users, NEW i \in 1 .. cnt[u]
            PROVE  /\ sent'[<<u, i>>] \in SentRec /\ sent'[<<u, i>>].sys.nr <= i
                   /\ sent'[<<u, i>>].status = "end" => sent'[<<u, i>>].sys.op = "read"
        <5>1. /\ sent[<<u, i>>] \in SentRec /\ sent[<<u, i>>].sys.nr <= i
              /\ sent[<<u, i>>].status = "end" => sent[<<u, i>>].sys.op = "read"
          BY DEF SentOK
        <5>2. <<u, i>> \in Reqs /\ sent = [q \in Reqs |-> sent[q]]
          BY <1>0, IpcConstants DEF SrvTyped, Reqs
        <5>3. CASE m.req = <<u, i>>
          <6>1. sent'[<<u, i>>] = [sent[<<u, i>>] EXCEPT !.status = st]
            BY <3>3, <5>2, <5>3
          <6>2. /\ sent'[<<u, i>>] \in SentRec /\ sent'[<<u, i>>].status = st
                /\ sent'[<<u, i>>].sys = sent[<<u, i>>].sys
            BY <5>1, <6>1 DEF SentRec
          <6> QED
            BY <3>3, <5>1, <5>3, <6>2
        <5>4. CASE m.req # <<u, i>>
          <6>1. sent'[<<u, i>>] = sent[<<u, i>>]
            BY <3>3, <5>2, <5>4
          <6> QED
            BY <5>1, <6>1
        <5> QED
          BY <5>3, <5>4
      <4> QED
        BY <3>1, <4>1 DEF SentOK
    <3> QED
      BY <2>1, <3>2, <3>3 DEF Serve
  <2>2. CASE UNCHANGED srvVars /\ UNCHANGED cnt
    BY <1>1, <2>2 DEF srvVars
  <2>3. ASSUME \/ do_create(t, Endpoint, "DAEMONS")
               \/ \E h \in Handles : do_wait(t, h) \/ do_recv(t, h, TRUE)
        PROVE  UNCHANGED cnt
    BY <2>3 DEF do_create, OnlyPrune, do_wait, do_recv
  <2> QED
    BY <1>3, <2>1, <2>2, <2>3 DEF Serving
<1>4. ASSUME NEW t \in Threads, WakeUp(t) PROVE SentOK'
  BY <1>1, <1>4 DEF WakeUp, Timeout, srvVars
<1>5. CASE Tick
  BY <1>1, <1>5 DEF Tick, vars
<1>6. ASSUME NEW p \in Procs, Exit(p) PROVE SentOK'
  BY <1>0, <1>1, <1>6 DEF Exit, AuProcessExit
<1>7. ASSUME NEW p \in Procs, Reap(p) PROVE SentOK'
  BY <1>1, <1>7 DEF Reap, AuProcessClean, srvVars
<1>8. CASE UNCHANGED allVars
  BY <1>1, <1>8 DEF allVars, vars, srvVars
<1> QED
  BY <1>2, <1>3, <1>4, <1>5, <1>6, <1>7, <1>8, StepCases

\* What the history of a thread is after one more operation.
LEMMA AsksOps ==
    ASSUME NEW t, NEW y, NEW c, NEW ops \in Seq(Ops), NEW k, NEW at, Asks(t, y, c, ops, k, at)
    PROVE  LET q == hist'[t].ops
               n == Len(q)
           IN  /\ n = Len(ops) + 1 /\ Len(ops) \in Nat /\ q # <<>>
               /\ q[n].id = KCallId(c) /\ q[n].pos_before = at /\ q[n].left = SrvTimeout
               /\ q[n].create = Flags(y, NotedMode(y))
               /\ \A j \in 1 .. Len(ops) : q[j] = ops[j]
<1> DEFINE o == [id |-> KCallId(c), pos_before |-> at,
                 create |-> Flags(y, NotedMode(y)), left |-> SrvTimeout]
<1>1. hist'[t].ops = Append(ops, o)
  BY DEF Asks
<1>2. o.id = KCallId(c) /\ o.pos_before = at /\ o.create = Flags(y, NotedMode(y))
  OBVIOUS
<1>a. o.left = SrvTimeout
  OBVIOUS
<1> HIDE DEF o
<1>3. ops \in Seq(Ops \cup {o}) /\ o \in Ops \cup {o}
  BY SeqDef, LenProperties
<1>4. /\ Len(Append(ops, o)) = Len(ops) + 1 /\ Len(ops) \in Nat
      /\ Append(ops, o)[Len(ops) + 1] = o
      /\ \A j \in 1 .. Len(ops) : Append(ops, o)[j] = ops[j]
  <2> HIDE DEF Ops
  <2> QED
    BY <1>3, AppendProperties, LenProperties
<1>5. Append(ops, o) # <<>>
  BY <1>4, EmptySeq
<1> QED
  BY <1>1, <1>2, <1>a, <1>4, <1>5

\* A history is matched by the next execution of the thread exactly while the
\* thread is in a syscall, as long as none that is alive becomes stale.
LEMMA StrayStep ==
    ASSUME TypeOK, SrvTyped, NoStrayHistory, InTime, [SrvNext]_allVars
    PROVE  NoStrayHistory'
<1>0. \A t \in Users : t \in Threads /\ (Live(t)' => Live(t))
  BY LivesOn, SrvConstants
<1>1. ASSUME \A t \in Users : Live(t)' => (Used(t)' <=> Used(t)) /\ sys'[t] = sys[t]
      PROVE  NoStrayHistory'
  BY <1>0, <1>1 DEF NoStrayHistory, Live
<1>2. CASE hist' = hist /\ sys' = sys
  BY <1>1, <1>2 DEF Used
<1>3. ASSUME NEW t \in Users, NEW y \in Syscalls, Executes(t, y) PROVE NoStrayHistory'
  <2>1. Execute(t, y) /\ Others(t)
    BY <1>3, ExecuteIs DEF Executes
  <2>2. NoHist.ops = <<>> /\ y # None
    BY SrvConstants DEF NoHist
  <2>3. Used(t)' <=> sys'[t] # None
    <3>1. ASSUME NEW c, NEW ops, NEW k, NEW at, Asks(t, y, c, ops, k, at)
          PROVE  Used(t)' /\ sys'[t] = y
      <4>1. /\ hist'[t].ops = Append(ops, [id |-> KCallId(c), pos_before |-> at,
                                   create |-> Flags(y, NotedMode(y)), left |-> SrvTimeout])
            /\ sys'[t] = y
        BY <3>1 DEF Asks
      <4> QED
        BY <4>1 DEF Used
    <3>2. CASE Sleeps(t)
      <4>1. Used(t) <=> sys[t] # None
        BY <1>3 DEF NoStrayHistory, Executes, Running
      <4> QED
        BY <3>2, <4>1 DEF Sleeps, Used
    <3>3. CASE hist'[t] = NoHist /\ sys'[t] = None
      BY <2>2, <3>3 DEF Used
    <3> QED
      BY <2>1, <2>2, <3>1, <3>2, <3>3, ExecuteEnds
  <2>4. ASSUME NEW u \in Users, u # t, Live(u) PROVE (Used(u)' <=> Used(u)) /\ sys'[u] = sys[u]
    <3>1. u \notin Stale
      BY <2>4, SrvConstants DEF InTime, Stale, Live, SrvTyped, HistRec
    <3> QED
      BY <1>0, <2>1, <2>4, <3>1 DEF Others, Used
  <2> QED
    BY <1>0, <2>3, <2>4 DEF NoStrayHistory, Live
<1>4. ASSUME NEW t \in Threads \ Users, Serving(t) PROVE NoStrayHistory'
  BY <1>2, <1>4 DEF Serving, Serve, srvVars
<1>5. ASSUME NEW t \in Threads, WakeUp(t) PROVE NoStrayHistory'
  BY <1>2, <1>5 DEF WakeUp, srvVars
<1>6. CASE Tick
  <2>1. hist' = [t \in Threads |-> Aged(hist[t])] /\ sys' = sys
    BY <1>6 DEF Tick
  <2>2. \A t \in Threads : hist[t] \in HistRec
    BY DEF SrvTyped
  <2> QED
    BY <1>0, <1>1, <2>1, <2>2, AgedType DEF Used
<1>7. ASSUME NEW p \in Procs, Exit(p) PROVE NoStrayHistory'
  <2>1. /\ hist' = hist /\ pstate' = [pstate EXCEPT ![p] = "died"]
        /\ sys' = [t \in Threads |-> IF ProcOf[t] = p THEN None ELSE sys[t]]
    BY <1>7 DEF Exit, AuProcessExit
  <2>2. \A t \in Users : Live(t)' => ProcOf[t] # p
    BY <2>1 DEF Live, TypeOK
  <2> QED
    BY <1>0, <1>1, <2>1, <2>2 DEF Used
<1>8. ASSUME NEW p \in Procs, Reap(p) PROVE NoStrayHistory'
  BY <1>2, <1>8 DEF Reap, srvVars
<1>9. CASE UNCHANGED allVars
  BY <1>2, <1>9 DEF allVars, srvVars
<1> QED
  BY <1>3, <1>4, <1>5, <1>6, <1>7, <1>8, <1>9, StepCases

\* The pages of a WriteFile are sent in order, one request each.
AskOK ==
    \A t \in Users :
        /\ \A i, j \in 1 .. cnt[t] :
              LET a == sent[<<t, i>>]
                  b == sent[<<t, j>>]
              IN  a.sys.op = "write" /\ a.sys = b.sys /\ a.chunk = b.chunk => i = j
        /\ Live(t) /\ sys[t] # None /\ sys[t].op = "write" =>
              /\ LastOp(t).create = FALSE
              /\ sys[t].nr + Len(hist[t].ops) = cnt[t] + 1
              /\ \A i \in 1 .. cnt[t] :
                    i >= sys[t].nr => sent[<<t, i>>].chunk + sys[t].nr = i + 1

\* Every execution of a WriteFile asks for the page after those it has asked for.
LEMMA AskStep ==
    ASSUME TypeOK, SrvTyped, SentOK, NoStrayHistory, InTime, AskOK, [SrvNext]_allVars
    PROVE  AskOK'
<1>0. \A t \in Users : /\ t \in Threads /\ (Live(t)' => Live(t))
                       /\ cnt[t] \in Nat /\ cnt[t] <= MaxReq
  BY LivesOn, SrvConstants, IpcConstants DEF TypeOK
<1>1. ASSUME cnt' = cnt,
             \A t \in Users : \A i \in 1 .. cnt[t] :
                sent'[<<t, i>>].sys = sent[<<t, i>>].sys
                /\ sent'[<<t, i>>].chunk = sent[<<t, i>>].chunk,
             \A t \in Users : Live(t)' =>
                /\ sys'[t] = sys[t] /\ Len(hist'[t].ops) = Len(hist[t].ops)
                /\ Used(t) => LastOp(t)'.create = LastOp(t).create
      PROVE  AskOK'
  <2>1. ASSUME NEW t \in Users, NEW i \in 1 .. cnt[t], NEW j \in 1 .. cnt[t]
        PROVE  LET a == sent'[<<t, i>>]
                   b == sent'[<<t, j>>]
               IN  a.sys.op = "write" /\ a.sys = b.sys /\ a.chunk = b.chunk => i = j
    BY <1>1 DEF AskOK
  <2>2. ASSUME NEW t \in Users, Live(t)', sys'[t] # None, sys'[t].op = "write"
        PROVE  /\ LastOp(t)'.create = FALSE
               /\ sys'[t].nr + Len(hist'[t].ops) = cnt[t] + 1
               /\ \A i \in 1 .. cnt[t] :
                     i >= sys'[t].nr => sent'[<<t, i>>].chunk + sys'[t].nr = i + 1
    <3>1. Live(t) /\ sys'[t] = sys[t] /\ Used(t)
      BY <1>0, <1>1, <2>2 DEF NoStrayHistory, Live
    <3> QED
      BY <1>1, <2>2, <3>1 DEF AskOK
  <2> QED
    BY <1>1, <2>1, <2>2 DEF AskOK
<1>2. CASE UNCHANGED <<cnt, hist, sys, sent>>
  BY <1>1, <1>2 DEF LastOp
<1>3. ASSUME NEW t \in Users, NEW y \in Syscalls, Executes(t, y) PROVE AskOK'
  <2>1. Execute(t, y) /\ Others(t) /\ Live(t)
    BY <1>3, ExecuteIs DEF Executes, Running, Live
  <2>2. y # None
    BY SrvConstants
  <2>3. ASSUME NEW u \in Users, u # t,
               cnt'[u] = cnt[u],
               \A i \in 1 .. cnt[u] : sent'[<<u, i>>] = sent[<<u, i>>]
        PROVE  /\ \A i, j \in 1 .. cnt'[u] :
                    LET a == sent'[<<u, i>>]
                        b == sent'[<<u, j>>]
                    IN  a.sys.op = "write" /\ a.sys = b.sys /\ a.chunk = b.chunk => i = j
               /\ Live(u) /\ sys'[u] # None /\ sys'[u].op = "write" =>
                    /\ LastOp(u)'.create = FALSE
                    /\ sys'[u].nr + Len(hist'[u].ops) = cnt'[u] + 1
                    /\ \A i \in 1 .. cnt'[u] :
                          i >= sys'[u].nr => sent'[<<u, i>>].chunk + sys'[u].nr = i + 1
    <3>1. Live(u) => hist'[u] = hist[u]
      <4>1. Live(u) => u \notin Stale
        BY SrvConstants DEF InTime, Stale, Live, SrvTyped, HistRec
      <4> QED
        BY <1>0, <2>1, <2>3, <4>1 DEF Others
    <3>2. sys'[u] = sys[u]
      BY <1>0, <2>1, <2>3 DEF Others
    <3> QED
      BY <2>3, <3>1, <3>2 DEF AskOK, LastOp
  <2>4. pstate' = pstate
    BY <2>1 DEF Execute
  <2>5. CASE Sleeps(t)
    BY <1>0, <1>1, <2>1, <2>3, <2>5, <2>4 DEF Sleeps, LastOp
  <2>6. CASE hist'[t] = NoHist /\ sys'[t] = None /\ UNCHANGED <<sent, cnt>>
    BY <1>0, <2>1, <2>3, <2>4, <2>6 DEF AskOK, Live, Others
  <2>7. ASSUME NEW c, NEW ops \in Seq(Ops), NEW k \in Nat \ {0}, NEW at,
               Asks(t, y, c, ops, k, at),
               y.op = "write" => y.nr + Len(ops) = cnt[t] + 1 /\ k = Len(ops) + 1,
               y.op = "write" => \A i \in 1 .. cnt[t] :
                    /\ i >= y.nr => sent[<<t, i>>].chunk + y.nr = i + 1
                    /\ i < y.nr => sent[<<t, i>>].sys # y
        PROVE  AskOK'
    <3>1. /\ cnt'[t] = cnt[t] + 1 /\ cnt[t] \in Nat /\ cnt[t] + 1 \in 1 .. MaxReq
          /\ sent'[<<t, cnt[t] + 1>>] = [sys |-> y, chunk |-> k, at |-> at, status |-> "none"]
          /\ \A u \in Threads, i \in 1 .. MaxReq :
                 u # t \/ i # cnt[t] + 1 => sent'[<<u, i>>] = sent[<<u, i>>]
      BY <1>0, <2>7, AsksSent
    <3>2. \A i \in 1 .. cnt[t] : sent'[<<t, i>>] = sent[<<t, i>>]
      <4>1. \A i \in 1 .. cnt[t] : i \in 1 .. MaxReq /\ i # cnt[t] + 1
        BY <1>0, <3>1, IpcConstants
      <4> QED
        BY <1>0, <3>1, <4>1
    <3>3. /\ sys'[t] = y /\ LastOp(t)'.create = Flags(y, NotedMode(y))
          /\ Len(hist'[t].ops) = Len(ops) + 1 /\ Len(ops) \in Nat
      BY <2>7, AsksOps DEF Asks, LastOp
    <3>4. y.nr \in Nat
      BY IpcConstants DEF Syscalls
    <3> DEFINE n == cnt[t] + 1
               r == sent'[<<t, n>>]
    <3>5. r.sys = y /\ r.chunk = k
      BY <3>1
    <3>6. ASSUME NEW i \in 1 .. cnt[t], y.op = "write", sent[<<t, i>>].sys = y
          PROVE  sent[<<t, i>>].chunk # k
      <4>1. i >= y.nr /\ sent[<<t, i>>].chunk + y.nr = i + 1
        BY <2>7, <3>1, <3>4, <3>6
      <4>2. sent[<<t, i>>].chunk \in Nat
        BY DEF SentOK, SentRec
      <4> QED
        BY <2>7, <3>1, <3>3, <3>4, <3>6, <4>1, <4>2
    <3> HIDE DEF r
    <3>7. ASSUME NEW i \in 1 .. n, NEW j \in 1 .. n
          PROVE  LET a == sent'[<<t, i>>]
                     b == sent'[<<t, j>>]
                 IN  a.sys.op = "write" /\ a.sys = b.sys /\ a.chunk = b.chunk => i = j
      <4>1. i \in 1 .. cnt[t] \/ i = n
        BY <3>1
      <4>2. j \in 1 .. cnt[t] \/ j = n
        BY <3>1
      <4> HIDE DEF n
      <4>3. CASE i \in 1 .. cnt[t] /\ j \in 1 .. cnt[t]
        BY <3>2, <4>3 DEF AskOK
      <4>4. CASE i = n /\ j \in 1 .. cnt[t]
        BY <3>2, <3>5, <3>6, <4>4 DEF r
      <4>5. CASE i \in 1 .. cnt[t] /\ j = n
        BY <3>2, <3>5, <3>6, <4>5 DEF r
      <4> QED
        BY <4>1, <4>2, <4>3, <4>4, <4>5
    <3>8. ASSUME y.op = "write"
          PROVE  /\ LastOp(t)'.create = FALSE
                 /\ y.nr + Len(hist'[t].ops) = n + 1
                 /\ \A i \in 1 .. n : i >= y.nr => sent'[<<t, i>>].chunk + y.nr = i + 1
      <4>1. LastOp(t)'.create = FALSE
        BY <3>3, <3>8 DEF Flags, Opens
      <4>2. y.nr + Len(hist'[t].ops) = n + 1
        BY <2>7, <3>1, <3>3, <3>4, <3>8
      <4>3. ASSUME NEW i \in 1 .. n, i >= y.nr PROVE sent'[<<t, i>>].chunk + y.nr = i + 1
        <5>1. CASE i = n
          <6>1. sent'[<<t, i>>].chunk = k
            BY <3>5, <5>1 DEF r
          <6>2. y.nr + Len(ops) = cnt[t] + 1 /\ k = Len(ops) + 1
            BY <2>7, <3>8
          <6> QED
            BY <3>1, <3>3, <3>4, <5>1, <6>1, <6>2
        <5>2. CASE i # n
          <6>1. i \in 1 .. cnt[t]
            BY <3>1, <5>2
          <6> QED
            BY <2>7, <3>2, <3>8, <4>3, <6>1
        <5> QED
          BY <5>1, <5>2
      <4> QED
        BY <4>1, <4>2, <4>3
    <3>9. ASSUME NEW u \in Users, u # t
          PROVE  cnt'[u] = cnt[u] /\ \A i \in 1 .. cnt[u] : sent'[<<u, i>>] = sent[<<u, i>>]
      <4>1. \A i \in 1 .. cnt[u] : i \in 1 .. MaxReq
        BY <1>0, IpcConstants
      <4> QED
        BY <1>0, <2>1, <3>1, <3>9, <4>1 DEF Others
    <3> QED
      BY <2>3, <2>4, <3>1, <3>3, <3>7, <3>8, <3>9 DEF AskOK, Live
  <2>8. ASSUME y.op = "write", NEW i \in 1 .. cnt[t], i < y.nr PROVE sent[<<t, i>>].sys # y
    BY <1>0, <2>8, IpcConstants DEF SentOK, SentRec, Syscalls
  <2>9. CASE FirstCase(t, y)
    <3>1. y.nr = cnt[t] + 1
      BY <1>3, <2>1, <2>2, <2>9 DEF FirstCase, NoStrayHistory, Executes, Live
    <3>2. <<>> \in Seq(Ops) /\ Len(<<>>) = 0
      OBVIOUS
    <3>3. \A i \in 1 .. cnt[t] : i < y.nr
      BY <1>0, <3>1
    <3>4. ASSUME NEW c, NEW ops, NEW at, ops = <<>>, Asks(t, y, c, ops, 1, at) PROVE AskOK'
      <4>1. /\ ops \in Seq(Ops) /\ 1 \in Nat \ {0}
            /\ y.nr + Len(ops) = cnt[t] + 1 /\ 1 = Len(ops) + 1
            /\ \A i \in 1 .. cnt[t] : ~(i >= y.nr)
        BY <1>0, <3>1, <3>2, <3>3, <3>4
      <4>2. \A i \in 1 .. cnt[t] : y.op = "write" => sent[<<t, i>>].sys # y
        BY <2>8, <3>3
      <4> QED
        BY <2>7, <3>4, <4>1, <4>2
    <3>5. CASE \E c, at : Asks(t, y, c, <<>>, 1, at)
      BY <3>4, <3>5
    <3>6. CASE hist'[t] = NoHist /\ sys'[t] = None /\ UNCHANGED <<sent, cnt>>
      BY <2>6, <3>6
    <3>7. \A st, done : Finishes(t, y, st, done) =>
             hist'[t] = NoHist /\ sys'[t] = None /\ UNCHANGED <<sent, cnt>>
      BY <1>0 DEF Finishes, Returns, SrvTyped
    <3> QED
      BY <2>9, <3>5, <3>6, <3>7 DEF FirstCase
  <2>10. CASE OverCase(t, y)
    <3>1. sys[t] = y
      BY <1>3, <2>1, <2>10 DEF OverCase, NoStrayHistory, Executes, Live
    <3>2. y.op # "write"
      BY <2>1, <2>2, <2>10, <3>1 DEF OverCase, Mismatch, Flags, Opens, AskOK
    <3>3. <<>> \in Seq(Ops)
      OBVIOUS
    <3>4. ASSUME NEW c, NEW ops, NEW at, ops = <<>>, Asks(t, y, c, ops, 1, at) PROVE AskOK'
      <4>1. ops \in Seq(Ops) /\ 1 \in Nat \ {0}
        BY <3>3, <3>4
      <4> QED
        BY <2>7, <3>2, <3>4, <4>1
    <3>5. CASE \E c, at : Asks(t, y, c, <<>>, 1, at)
      BY <3>4, <3>5
    <3>6. CASE hist'[t] = NoHist /\ sys'[t] = None /\ UNCHANGED <<sent, cnt>>
      BY <2>6, <3>6
    <3>7. \A st, done : Finishes(t, y, st, done) =>
             hist'[t] = NoHist /\ sys'[t] = None /\ UNCHANGED <<sent, cnt>>
      BY <1>0 DEF Finishes, Returns, SrvTyped
    <3> QED
      BY <2>10, <3>5, <3>6, <3>7 DEF OverCase
  <2>11. CASE ReplayCase(t, y)
    <3>1. sys[t] = y /\ Used(t) /\ t \in Threads
      BY <1>0, <1>3, <2>1, <2>11 DEF ReplayCase, NoStrayHistory, Executes, Live
    <3>2. hist[t].ops \in Seq(Ops) /\ Len(hist[t].ops) \in Nat
      BY <3>1, LastOpType DEF SrvTyped, HistRec
    <3>3. y.op = "write" => /\ y.nr + Len(hist[t].ops) = cnt[t] + 1
                            /\ \A i \in 1 .. cnt[t] :
                                  i >= y.nr => sent[<<t, i>>].chunk + y.nr = i + 1
      BY <2>1, <2>2, <3>1 DEF AskOK
    <3>4. ASSUME NEW c, NEW at, Asks(t, y, c, hist[t].ops, Len(hist[t].ops) + 1, at) PROVE AskOK'
      BY <2>7, <2>8, <3>2, <3>3, <3>4
    <3> QED
      BY <2>5, <2>6, <2>11, <3>1, <3>4 DEF ReplayCase, Finishes, Returns, SrvTyped
  <2> QED
    BY <2>1, <2>9, <2>10, <2>11, ExecuteIs
<1>4. ASSUME NEW t \in Threads \ Users, Serving(t) PROVE AskOK'
  <2>1. ASSUME NEW m \in rcvd[ProcOf[t]], NEW st, Serve(t, m, st) PROVE AskOK'
    <3>1. UNCHANGED <<sys, cnt, hist>>
      BY <2>1 DEF Serve, do_reply
    <3>2. sent' = sent \/ sent' = [sent EXCEPT ![m.req].status = st]
      BY <2>1 DEF Serve
    <3>3. ASSUME NEW u \in Users, NEW i \in 1 .. cnt[u]
          PROVE  sent'[<<u, i>>].sys = sent[<<u, i>>].sys /\ sent'[<<u, i>>].chunk = sent[<<u, i>>].chunk
      <4>1. sent[<<u, i>>] \in SentRec
        BY DEF SentOK
      <4>2. <<u, i>> \in Reqs /\ sent = [q \in Reqs |-> sent[q]]
        BY <1>0, IpcConstants DEF SrvTyped, Reqs
      <4>3. sent'[<<u, i>>] = sent[<<u, i>>]
            \/ sent'[<<u, i>>] = [sent[<<u, i>>] EXCEPT !.status = st]
        BY <3>2, <4>2
      <4> QED
        BY <4>1, <4>3 DEF SentRec
    <3> QED
      BY <1>1, <3>1, <3>3 DEF LastOp
  <2>2. CASE UNCHANGED srvVars /\ UNCHANGED cnt
    BY <1>2, <2>2 DEF srvVars
  <2>3. ASSUME \/ do_create(t, Endpoint, "DAEMONS")
               \/ \E h \in Handles : do_wait(t, h) \/ do_recv(t, h, TRUE)
        PROVE  UNCHANGED cnt
    BY <2>3 DEF do_create, OnlyPrune, do_wait, do_recv
  <2> QED
    BY <1>4, <2>1, <2>2, <2>3 DEF Serving
<1>5. ASSUME NEW t \in Threads, WakeUp(t) PROVE AskOK'
  BY <1>2, <1>5 DEF WakeUp, Timeout, srvVars
<1>6. CASE Tick
  <2>1. hist' = [t \in Threads |-> Aged(hist[t])] /\ UNCHANGED <<sys, cnt, sent>>
    BY <1>6 DEF Tick, vars
  <2>2. \A t \in Threads : hist[t] \in HistRec
    BY DEF SrvTyped
  <2>3. ASSUME NEW t \in Users
        PROVE  /\ Len(hist'[t].ops) = Len(hist[t].ops)
               /\ Used(t) => LastOp(t)'.create = LastOp(t).create
    BY <1>0, <2>1, <2>2, AgedType DEF Used, LastOp
  <2> QED
    BY <1>1, <2>1, <2>3
<1>7. ASSUME NEW p \in Procs, Exit(p) PROVE AskOK'
  <2>1. /\ UNCHANGED <<hist, cnt, sent>> /\ pstate' = [pstate EXCEPT ![p] = "died"]
        /\ sys' = [t \in Threads |-> IF ProcOf[t] = p THEN None ELSE sys[t]]
    BY <1>7 DEF Exit, AuProcessExit
  <2>2. \A t \in Users : Live(t)' => ProcOf[t] # p
    BY <2>1 DEF Live, TypeOK
  <2> QED
    BY <1>0, <1>1, <2>1, <2>2 DEF LastOp
<1>8. ASSUME NEW p \in Procs, Reap(p) PROVE AskOK'
  BY <1>2, <1>8 DEF Reap, AuProcessClean, srvVars
<1>9. CASE UNCHANGED allVars
  BY <1>2, <1>9 DEF allVars, vars, srvVars
<1> QED
  BY <1>3, <1>4, <1>5, <1>6, <1>7, <1>8, <1>9, StepCases

\* The requests are in order, always.
LEMMA SentInvariant == SrvSpec => []SentOK
<1>1. SrvInit => SentOK
  <2> SUFFICES ASSUME SrvInit PROVE SentOK
    OBVIOUS
  <2>1. \A t \in Users : cnt[t] = 0 /\ sys[t] = None
    BY SrvConstants DEF SrvInit, Init
  <2> QED
    BY <2>1 DEF SentOK
<1>2. IInv /\ SrvTyped /\ SentOK /\ [SrvNext]_allVars => SentOK'
  BY SentStep DEF IInv
<1> QED
  BY <1>1, <1>2, SrvInvariant, PTL DEF SrvSpec

\* As long as no live thread's history becomes stale, a thread has one exactly
\* while it is in a /srv syscall: none is left behind to be matched against the
\* next one (AuSrvfsSyscallExit), none is lost in mid-syscall (hist_get).
THEOREM HistoriesAreMatched == SrvSpec /\ []InTime => []NoStrayHistory
<1>1. SrvInit => NoStrayHistory
  BY SrvConstants DEF SrvInit, NoStrayHistory, Used, NoHist
<1>2. IInv /\ SrvTyped /\ NoStrayHistory /\ InTime /\ [SrvNext]_allVars => NoStrayHistory'
  BY StrayStep DEF IInv
<1> QED
  BY <1>1, <1>2, SrvInvariant, PTL DEF SrvSpec

\* Under the same condition no page of a WriteFile is sent to the server twice,
\* however often the syscall is executed (srv_op's replay).
THEOREM PagesAreAskedOnce == SrvSpec /\ []InTime => []AskedOnce
<1>1. SrvInit => AskOK
  <2> SUFFICES ASSUME SrvInit PROVE AskOK
    OBVIOUS
  <2>1. \A t \in Users : cnt[t] = 0 /\ sys[t] = None
    BY SrvConstants DEF SrvInit, Init
  <2> QED
    BY <2>1 DEF AskOK
<1>2. IInv /\ SrvTyped /\ SentOK /\ NoStrayHistory /\ InTime /\ AskOK /\ [SrvNext]_allVars => AskOK'
  BY AskStep DEF IInv
<1>3. AskOK => AskedOnce
  BY DEF AskOK, AskedOnce
<1> QED
  BY <1>1, <1>2, <1>3, SrvInvariant, SentInvariant, HistoriesAreMatched, PTL DEF SrvSpec

-----------------------------------------------------------------------------
(***************************************************************************)
(* When the condition holds: syscalls whose operations fit into the time   *)
(* after which a history is stale, and none that starts over.              *)
(***************************************************************************)

\* The mode its open sends, when only OpenFile opens.
Own(y) == y.op = "open" /\ y.create

\* The time a history has taken, and may still take, is that of its operations.
Brief ==
    \A t \in Users : Live(t) /\ Used(t) =>
        /\ LastOp(t).create = Own(sys[t])
        /\ Len(hist[t].ops) <= sys[t].n
        /\ hist[t].age + LastOp(t).left <= Len(hist[t].ops) * SrvTimeout

\* The multiplication facts that the deadlines of a history need.
LEMMA Multiples ==
    /\ \A a, b \in Nat : (a + 1) * b = a * b + b /\ a * b \in Nat
    /\ \A a, b, c \in Nat : a <= b => a * c <= b * c
    /\ \A b \in Nat : 1 * b = b
<1>1. \A a, b \in Nat : (a + 1) * b = a * b + b /\ a * b \in Nat
  OBVIOUS
<1>2. \A a, b, c \in Nat : a <= b => a * c <= b * c
  OBVIOUS
<1>3. \A b \in Nat : 1 * b = b
  OBVIOUS
<1> QED
  BY <1>1, <1>2, <1>3

\* A brief history is not stale.
LEMMA BriefInTime ==
    ASSUME MaxChunks * SrvTimeout <= HistStale, SrvTyped, NoStrayHistory, Brief
    PROVE  InTime
<1> SUFFICES ASSUME NEW t \in Users, Used(t), Live(t) PROVE hist[t].age <= HistStale
  BY DEF InTime, Live
<1>1. t \in Threads /\ sys[t] \in Syscalls
  BY SrvConstants DEF NoStrayHistory, SrvTyped, Live
<1>2. /\ Len(hist[t].ops) \in Nat /\ LastOp(t) \in Ops /\ hist[t] \in HistRec
  BY <1>1, LastOpType DEF SrvTyped
<1>3. /\ LastOp(t).left \in Nat /\ hist[t].age \in Nat
  BY <1>2, SrvConstants DEF Ops, HistRec
<1>4. /\ Len(hist[t].ops) <= sys[t].n /\ sys[t].n \in Nat /\ sys[t].n <= MaxChunks
      /\ hist[t].age + LastOp(t).left <= Len(hist[t].ops) * SrvTimeout
  BY <1>1, SrvConstants DEF Brief, Syscalls
<1>5. MaxChunks \in Nat /\ SrvTimeout \in Nat /\ HistStale \in Nat
  BY SrvConstants
<1>6. Len(hist[t].ops) <= MaxChunks
  BY <1>2, <1>4, <1>5
<1>7. /\ Len(hist[t].ops) * SrvTimeout <= MaxChunks * SrvTimeout
      /\ Len(hist[t].ops) * SrvTimeout \in Nat /\ MaxChunks * SrvTimeout \in Nat
  BY <1>2, <1>5, <1>6, Multiples
<1> DEFINE a == Len(hist[t].ops) * SrvTimeout
           b == MaxChunks * SrvTimeout
<1>8. hist[t].age + LastOp(t).left <= a /\ a <= b /\ a \in Nat /\ b \in Nat /\ b <= HistStale
  BY <1>4, <1>7
<1> HIDE DEF a, b
<1> QED
  BY <1>3, <1>5, <1>8

\* Histories stay brief.
LEMMA BriefStep ==
    ASSUME MaxChunks * SrvTimeout <= HistStale, \A t \in Users : "dir" \notin Uses[t],
           TypeOK, SrvTyped, NoStrayHistory, Brief, [SrvNext]_allVars
    PROVE  Brief'
<1>0. /\ \A t \in Users : t \in Threads /\ (Live(t)' => Live(t))
      /\ MaxChunks \in Nat \ {0} /\ SrvTimeout \in Nat \ {0} /\ HistStale \in Nat
  BY LivesOn, SrvConstants
<1>1. InTime
  BY BriefInTime
<1>2. ASSUME UNCHANGED hist, \A t \in Users : Live(t)' => sys'[t] = sys[t]
      PROVE  Brief'
  BY <1>0, <1>2 DEF Brief, Used, LastOp
<1>3. ASSUME NEW t \in Users, NEW y \in Syscalls, Executes(t, y) PROVE Brief'
  <2>1. Execute(t, y) /\ Others(t) /\ Live(t) /\ t \in Threads /\ pstate' = pstate
    BY <1>0, <1>3, ExecuteIs DEF Executes, Execute, Running, Live
  <2>2. y.op # "dir" /\ y.n \in Nat /\ 1 <= y.n
    <3>1. y.op \in UNION {Uses[u] : u \in Users} /\ y.n \in 1 .. MaxChunks
      BY DEF Syscalls
    <3> QED
      BY <1>0, <3>1
  <2>3. Flags(y, NotedMode(y)) = Own(y)
    BY <2>2 DEF Flags, NotedMode, Opens, Own, Syscalls
  <2>4. NoHist.ops = <<>>
    BY DEF NoHist
  <2>5. ASSUME NEW u \in Users, u # t, Live(u) PROVE hist'[u] = hist[u] /\ sys'[u] = sys[u]
    <3>1. u \notin Stale
      BY <1>1, <2>5, SrvConstants DEF InTime, Stale, Live, SrvTyped, HistRec
    <3> QED
      BY <1>0, <2>1, <2>5, <3>1 DEF Others
  <2>6. ASSUME hist'[t].ops # <<>>
        PROVE  /\ LastOp(t)'.create = Own(sys'[t])
               /\ Len(hist'[t].ops) <= sys'[t].n
               /\ hist'[t].age + LastOp(t)'.left <= Len(hist'[t].ops) * SrvTimeout
    <3>1. ASSUME NEW c, NEW ops \in Seq(Ops), NEW k, NEW at, Asks(t, y, c, ops, k, at),
                 Len(ops) + 1 <= y.n, hist[t].age <= Len(ops) * SrvTimeout
          PROVE  /\ LastOp(t)'.create = Own(sys'[t])
                 /\ Len(hist'[t].ops) <= sys'[t].n
                 /\ hist'[t].age + LastOp(t)'.left <= Len(hist'[t].ops) * SrvTimeout
      <4>1. /\ Len(hist'[t].ops) = Len(ops) + 1 /\ Len(ops) \in Nat
            /\ LastOp(t)'.left = SrvTimeout /\ LastOp(t)'.create = Own(y)
        <5>1. /\ Len(hist'[t].ops) = Len(ops) + 1 /\ Len(ops) \in Nat
              /\ hist'[t].ops[Len(hist'[t].ops)].left = SrvTimeout
              /\ hist'[t].ops[Len(hist'[t].ops)].create = Flags(y, NotedMode(y))
          BY <3>1, AsksOps DEF Asks
        <5>2. LastOp(t)' = hist'[t].ops[Len(hist'[t].ops)]
          BY DEF LastOp
        <5> QED
          BY <2>3, <5>1, <5>2
      <4>2. sys'[t] = y /\ hist'[t].age = hist[t].age
        BY <3>1 DEF Asks
      <4>3. hist[t].age \in Nat
        BY <2>1, SrvConstants DEF SrvTyped, HistRec
      <4>4. /\ (Len(ops) + 1) * SrvTimeout = Len(ops) * SrvTimeout + SrvTimeout
            /\ Len(ops) * SrvTimeout \in Nat
        BY <1>0, <4>1, Multiples
      <4> QED
        BY <1>0, <3>1, <4>1, <4>2, <4>3, <4>4
    <3>2. CASE hist'[t] = NoHist
      BY <2>4, <2>6, <3>2
    <3>3. CASE FirstCase(t, y)
      <4>1. ASSUME NEW c, NEW ops, NEW at, ops = <<>>, Asks(t, y, c, ops, 1, at)
            PROVE  /\ LastOp(t)'.create = Own(sys'[t])
                   /\ Len(hist'[t].ops) <= sys'[t].n
                   /\ hist'[t].age + LastOp(t)'.left <= Len(hist'[t].ops) * SrvTimeout
        <5>1. ops \in Seq(Ops) /\ Len(ops) = 0
          BY <4>1
        <5>2. hist[t].age = 0
          BY <2>1, <3>3 DEF FirstCase, SrvTyped
        <5>3. Len(ops) * SrvTimeout = 0
          BY <1>0, <5>1
        <5>4. Len(ops) + 1 <= y.n /\ hist[t].age <= Len(ops) * SrvTimeout
          BY <2>2, <5>1, <5>2, <5>3
        <5> QED
          BY <3>1, <4>1, <5>1, <5>4
      <4> QED
        BY <3>2, <3>3, <4>1 DEF FirstCase, Finishes
    <3>4. CASE OverCase(t, y)
      <4>1. sys[t] = y /\ Used(t)
        BY <1>3, <2>1, <3>4 DEF OverCase, NoStrayHistory, Executes, Live
      <4>2. LastOp(t).create = Own(y)
        BY <2>1, <4>1 DEF Brief
      <4> QED
        BY <2>3, <3>4, <4>2 DEF OverCase, Mismatch
    <3>5. CASE ReplayCase(t, y)
      <4>1. sys[t] = y /\ Used(t)
        BY <1>3, <2>1, <3>5 DEF ReplayCase, NoStrayHistory, Executes, Live
      <4>2. /\ hist[t].ops \in Seq(Ops) /\ Len(hist[t].ops) \in Nat /\ hist[t].age \in Nat
            /\ LastOp(t).left \in Nat
        <5>1. LastOp(t) \in Ops /\ Len(hist[t].ops) \in Nat
          BY <2>1, <4>1, LastOpType
        <5>2. hist[t] \in HistRec
          BY <2>1 DEF SrvTyped
        <5>3. LastOp(t).left \in Nat
          BY <5>1, SrvConstants DEF Ops
        <5> QED
          BY <1>0, <5>1, <5>2, <5>3 DEF HistRec
      <4>3. /\ LastOp(t).create = Own(y) /\ Len(hist[t].ops) <= y.n
            /\ hist[t].age + LastOp(t).left <= Len(hist[t].ops) * SrvTimeout
        BY <2>1, <4>1 DEF Brief
      <4>4. Len(hist[t].ops) * SrvTimeout \in Nat
        BY <1>0, <4>2, Multiples
      <4>5. hist[t].age <= Len(hist[t].ops) * SrvTimeout
        BY <4>2, <4>3, <4>4
      <4>6. CASE Sleeps(t)
        BY <4>1, <4>3, <4>6 DEF Sleeps, LastOp
      <4>7. ASSUME NEW c, NEW k, NEW at, Asks(t, y, c, hist[t].ops, k, at),
                   Len(hist[t].ops) # y.n
            PROVE  /\ LastOp(t)'.create = Own(sys'[t])
                   /\ Len(hist'[t].ops) <= sys'[t].n
                   /\ hist'[t].age + LastOp(t)'.left <= Len(hist'[t].ops) * SrvTimeout
        <5>1. Len(hist[t].ops) + 1 <= y.n
          BY <2>2, <4>2, <4>3, <4>7
        <5> QED
          BY <3>1, <4>2, <4>5, <4>7, <5>1
      <4> QED
        BY <3>2, <3>5, <4>6, <4>7 DEF ReplayCase, Finishes
    <3> QED
      BY <2>1, <3>3, <3>4, <3>5, ExecuteIs
  <2>7. ASSUME NEW u \in Users, Live(u)', hist'[u].ops # <<>>
        PROVE  /\ LastOp(u)'.create = Own(sys'[u])
               /\ Len(hist'[u].ops) <= sys'[u].n
               /\ hist'[u].age + LastOp(u)'.left <= Len(hist'[u].ops) * SrvTimeout
    <3>1. CASE u = t
      BY <2>6, <2>7, <3>1
    <3>2. CASE u # t
      BY <1>0, <2>5, <2>7, <3>2 DEF Brief, Used, LastOp
    <3> QED
      BY <3>1, <3>2
  <2> QED
    BY <2>7 DEF Brief, Used
<1>4. ASSUME NEW t \in Threads \ Users, Serving(t) PROVE Brief'
  BY <1>2, <1>4 DEF Serving, Serve, srvVars
<1>5. ASSUME NEW t \in Threads, WakeUp(t) PROVE Brief'
  BY <1>2, <1>5 DEF WakeUp, srvVars
<1>6. CASE Tick
  <2>1. /\ hist' = [t \in Threads |-> Aged(hist[t])] /\ UNCHANGED <<sys, pstate>>
        /\ \A t \in Users : ~Due(t)
    BY <1>6 DEF Tick, vars
  <2>2. ASSUME NEW t \in Users, Live(t), hist'[t].ops # <<>>
        PROVE  /\ LastOp(t)'.create = Own(sys[t])
               /\ Len(hist'[t].ops) <= sys[t].n
               /\ hist'[t].age + LastOp(t)'.left <= Len(hist'[t].ops) * SrvTimeout
    <3>1. t \in Threads /\ hist[t] \in HistRec /\ hist'[t] = Aged(hist[t])
      BY <1>0, <2>1 DEF SrvTyped
    <3>2. Used(t) /\ Len(hist'[t].ops) = Len(hist[t].ops)
      BY <2>2, <3>1, AgedType DEF Used
    <3>3. /\ hist'[t].age = IF hist[t].age > HistStale THEN hist[t].age ELSE hist[t].age + 1
          /\ LastOp(t)'.left = IF LastOp(t).left = 0 THEN 0 ELSE LastOp(t).left - 1
          /\ LastOp(t)'.create = LastOp(t).create
      BY <3>1, <3>2, AgedType DEF Used, LastOp
    <3>4. LastOp(t).left \in Nat \ {0} /\ hist[t].age \in Nat /\ hist[t].age <= HistStale
      <4>1. LastOp(t) \in Ops
        BY <3>1, <3>2, LastOpType
      <4>2. sys[t] # None
        BY <2>2, <3>2 DEF NoStrayHistory, Live
      <4>3. LastOp(t).left # 0
        BY <2>1, <2>2, <3>2, <4>2 DEF Due, Live
      <4> QED
        BY <1>1, <2>2, <3>1, <3>2, <4>1, <4>3, SrvConstants DEF InTime, Live, Ops, HistRec
    <3>5. /\ LastOp(t).create = Own(sys[t])
          /\ Len(hist[t].ops) <= sys[t].n
          /\ hist[t].age + LastOp(t).left <= Len(hist[t].ops) * SrvTimeout
      BY <2>2, <3>2 DEF Brief
    <3>6. hist'[t].age + LastOp(t)'.left = hist[t].age + LastOp(t).left
      BY <1>0, <3>3, <3>4
    <3> QED
      BY <3>2, <3>3, <3>5, <3>6
  <2> QED
    BY <2>1, <2>2 DEF Brief, Used, Live
<1>7. ASSUME NEW p \in Procs, Exit(p) PROVE Brief'
  <2>1. /\ hist' = hist /\ pstate' = [pstate EXCEPT ![p] = "died"]
        /\ sys' = [t \in Threads |-> IF ProcOf[t] = p THEN None ELSE sys[t]]
    BY <1>7 DEF Exit, AuProcessExit
  <2>2. \A t \in Users : Live(t)' => ProcOf[t] # p
    BY <2>1 DEF Live, TypeOK
  <2> QED
    BY <1>0, <1>2, <2>1, <2>2
<1>8. ASSUME NEW p \in Procs, Reap(p) PROVE Brief'
  BY <1>2, <1>8 DEF Reap, srvVars
<1>9. CASE UNCHANGED allVars
  BY <1>2, <1>9 DEF allVars, srvVars
<1> QED
  BY <1>3, <1>4, <1>5, <1>6, <1>7, <1>8, <1>9, StepCases

\* A syscall of so few operations that all their deadlines fit into HIST_STALE_US
\* keeps its history, if only OpenFile opens: the two theorems above hold of it.
THEOREM ShortSyscallsAreSound ==
    ASSUME MaxChunks * SrvTimeout <= HistStale, \A t \in Users : "dir" \notin Uses[t]
    PROVE  SrvSpec => [](NoStrayHistory /\ AskedOnce)
<1>1. SrvInit => NoStrayHistory /\ Brief
  <2> SUFFICES ASSUME SrvInit PROVE NoStrayHistory /\ Brief
    OBVIOUS
  <2>1. \A t \in Users : ~Used(t) /\ sys[t] = None
    BY SrvConstants DEF SrvInit, Used, NoHist
  <2> QED
    BY <2>1 DEF NoStrayHistory, Brief
<1>2. IInv /\ SrvTyped /\ NoStrayHistory /\ Brief => InTime
  BY BriefInTime
<1>3. IInv /\ SrvTyped /\ NoStrayHistory /\ Brief /\ [SrvNext]_allVars => Brief'
  BY BriefStep DEF IInv
<1>4. IInv /\ SrvTyped /\ NoStrayHistory /\ InTime /\ [SrvNext]_allVars => NoStrayHistory'
  BY StrayStep DEF IInv
<1>5. SrvSpec => []InTime
  BY <1>1, <1>2, <1>3, <1>4, SrvInvariant, PTL DEF SrvSpec
<1> QED
  BY <1>5, HistoriesAreMatched, PagesAreAskedOnce, PTL

-----------------------------------------------------------------------------
(***************************************************************************)
(* The answers.  A freed call slot starts its generations over, so an id   *)
(* may be given out again while a server still holds the request it named  *)
(* before; a server that answers one request before it takes the next one  *)
(* cannot confuse the two.                                                 *)
(***************************************************************************)
AnswerOK ==
    /\ \A i \in EpSlots : ep[i].used => ep[i].name = Endpoint
    /\ \A s \in CallSlots : call[s].state = "DONE" => call[s].resp = call[s].req
    /\ \A p \in Procs : IsFiniteSet(rcvd[p])
    /\ \A p \in Procs : \A m \in rcvd[p] :
          /\ pstate[p] = "run" /\ ep_from_handle(m.h, ep) /\ ep[m.h[2]].owner = p
          /\ CanAnswer(m) => call[m.id[2]].req = m.req

\* Steps that take no request: no call comes to be served, an answer is the
\* request's, and the endpoints of running servers stay.
LEMMA AnswerKept ==
    ASSUME TypeOK, AnswerOK,
           \A s \in CallSlots :
              /\ call'[s].state = "SERVING" => call'[s] = call[s]
              /\ call'[s].state = "DONE" => call'[s] = call[s] \/ call'[s].resp = call'[s].req,
           \A i \in EpSlots :
              /\ ep[i].used /\ pstate'[ep[i].owner] = "run" =>
                    ep'[i].used /\ ep'[i].gen = ep[i].gen /\ ep'[i].owner = ep[i].owner
              /\ ep'[i].used => ep'[i].name = Endpoint,
           \A p \in Procs :
              rcvd'[p] \subseteq rcvd[p] /\ (rcvd'[p] # {} /\ pstate[p] = "run" => pstate'[p] = "run")
    PROVE  AnswerOK'
<1>1. \A s \in CallSlots : call'[s].state = "DONE" => call'[s].resp = call'[s].req
  BY DEF AnswerOK
<1>2. \A p \in Procs : IsFiniteSet(rcvd'[p])
  BY FS_Subset DEF AnswerOK
<1>3. ASSUME NEW p \in Procs, NEW m \in rcvd'[p]
      PROVE  /\ pstate'[p] = "run" /\ ep_from_handle(m.h, ep') /\ ep'[m.h[2]].owner = p
             /\ CanAnswer(m)' => call'[m.id[2]].req = m.req
  <2>1. /\ pstate[p] = "run" /\ ep_from_handle(m.h, ep) /\ ep[m.h[2]].owner = p
        /\ CanAnswer(m) => call[m.id[2]].req = m.req
    BY DEF AnswerOK
  <2>2. pstate'[p] = "run"
    BY <2>1
  <2>3. /\ m.h[2] \in EpSlots /\ ep'[m.h[2]].used /\ ep'[m.h[2]].gen = ep[m.h[2]].gen
        /\ ep'[m.h[2]].owner = p /\ ep[m.h[2]].gen = m.h[1]
    BY <2>1, <2>2 DEF ep_from_handle
  <2>4. ASSUME CanAnswer(m)' PROVE call'[m.id[2]].req = m.req
    <3>1. m.id[2] \in CallSlots /\ call'[m.id[2]].state = "SERVING"
      BY <2>4 DEF CanAnswer, Answers, call_from_id
    <3>2. call'[m.id[2]] = call[m.id[2]]
      BY <3>1
    <3>3. CanAnswer(m)
      BY <2>3, <2>4, <3>2 DEF CanAnswer, Answers, call_from_id
    <3> QED
      BY <2>1, <3>2, <3>3
  <2> QED
    BY <2>2, <2>3, <2>4 DEF ep_from_handle
<1> QED
  BY <1>1, <1>2, <1>3 DEF AnswerOK

\* AuIpcProcessGone serves and answers no call.
LEMMA GoneServes ==
    ASSUME NEW C \in [CallSlots -> CallRec], NEW P, NEW s \in CallSlots,
           GoneCalls(P, C)[s].state \in {"SERVING", "DONE"}
    PROVE  GoneCalls(P, C)[s] = C[s]
<1>1. C[s] \in CallRec
  OBVIOUS
<1>2. \/ GoneCalls(P, C)[s] = C[s]
      \/ GoneCalls(P, C)[s] = [C[s] EXCEPT !.state = "ABANDONED"]
      \/ GoneCalls(P, C)[s] = [C[s] EXCEPT !.state = "FAILED"]
      \/ GoneCalls(P, C)[s] = FreeCall
  BY DEF GoneCalls
<1>3. /\ [C[s] EXCEPT !.state = "ABANDONED"].state = "ABANDONED"
      /\ [C[s] EXCEPT !.state = "FAILED"].state = "FAILED"
      /\ FreeCall.state = "FREE"
  BY <1>1 DEF CallRec, FreeCall
<1> QED
  BY <1>2, <1>3

\* It removes the endpoints of these processes only.
LEMMA GoneEndpoints ==
    ASSUME NEW P, NEW i \in EpSlots
    PROVE  /\ ep[i].used /\ ep[i].owner \notin P => GoneEp(P)[i] = ep[i]
           /\ GoneEp(P)[i].used => GoneEp(P)[i] = ep[i]
<1>1. \A g : ~NoEp(g).used
  BY DEF NoEp
<1> QED
  BY <1>1 DEF GoneEp, OwnedBy

\* So does an execution of a syscall.
LEMMA ExecuteServes ==
    ASSUME TypeOK, NEW t \in Users, NEW y, Execute(t, y)
    PROVE  /\ \A s \in CallSlots :
                 call'[s].state \in {"SERVING", "DONE"} => call'[s] = call[s]
           /\ \A i \in EpSlots :
                 /\ ep[i].used /\ pstate[ep[i].owner] = "run" =>
                       ep'[i].used /\ ep'[i].gen = ep[i].gen /\ ep'[i].owner = ep[i].owner
                 /\ ep'[i].used => ep[i].used /\ ep'[i].name = ep[i].name
<1>1. PICK c \in Left(t) : Begins(t, c) \/ Refused(c) \/ Leaves(t, c)
  BY ExecuteTables
<1>2. c \in [CallSlots -> CallRec]
  BY LeftType
<1>3. ASSUME NEW s \in CallSlots, c[s].state \in {"SERVING", "DONE"} PROVE c[s] = call[s]
  <2>1. call[s] \in CallRec
    BY DEF TypeOK
  <2>2. [call[s] EXCEPT !.state = "ABANDONED"].state = "ABANDONED" /\ FreeCall.state = "FREE"
    BY <2>1 DEF CallRec, FreeCall
  <2> QED
    BY <1>3, <2>2, LeftIs
<1>4. ASSUME NEW s \in CallSlots, KPruned(c)[s].state \in {"SERVING", "DONE"}
      PROVE  KPruned(c)[s] = call[s]
  <2>1. KPruned(c)[s] = c[s]
    BY <1>2, <1>4, GoneServes DEF KPruned
  <2> QED
    BY <1>3, <1>4, <2>1
<1>5. ASSUME NEW i \in EpSlots
      PROVE  /\ ep[i].used /\ pstate[ep[i].owner] = "run" => PrunedEp[i] = ep[i]
             /\ PrunedEp[i].used => PrunedEp[i] = ep[i]
  BY GoneEndpoints DEF PrunedEp, DeadOwners
<1>6. CASE Begins(t, c)
  <2> DEFINE i == KEndpoint(Endpoint)
             d == QueuedCall(t, i, KGen(c))
  <2>1. /\ KSlot(c) \in CallSlots /\ KPruned(c) \in [CallSlots -> CallRec]
        /\ i \in EpSlots /\ PrunedEp \in [EpSlots -> EndpointRec]
    BY <1>2, <1>6, AdmittedIs, PrunedType DEF Begins
  <2>2. call' = [KPruned(c) EXCEPT ![KSlot(c)] = d] /\ d.state = "QUEUED"
    BY <1>6 DEF Begins, KCall, QueuedCall
  <2>3. ep' = [PrunedEp EXCEPT ![i].queue = Append(@, KSlot(c)), ![i].waiter = None]
    BY <1>6 DEF Begins, KEp
  <2> HIDE DEF i, d
  <2>4. ASSUME NEW s \in CallSlots, call'[s].state \in {"SERVING", "DONE"}
        PROVE  call'[s] = call[s]
    <3>1. s # KSlot(c)
      BY <2>1, <2>2, <2>4
    <3>2. call'[s] = KPruned(c)[s]
      BY <2>1, <2>2, <3>1
    <3> QED
      BY <1>4, <2>4, <3>2
  <2>5. ASSUME NEW j \in EpSlots
        PROVE  /\ ep'[j].used = PrunedEp[j].used /\ ep'[j].gen = PrunedEp[j].gen
               /\ ep'[j].owner = PrunedEp[j].owner /\ ep'[j].name = PrunedEp[j].name
    <3> DEFINE q == Append(PrunedEp[i].queue, KSlot(c))
               e == [PrunedEp[i] EXCEPT !.queue = q, !.waiter = None]
    <3>1. ep' = [PrunedEp EXCEPT ![i] = e]
      BY <2>1, <2>3
    <3>2. PrunedEp[i] \in EndpointRec
      BY <2>1
    <3> HIDE DEF q
    <3>3. /\ e.used = PrunedEp[i].used /\ e.gen = PrunedEp[i].gen
          /\ e.owner = PrunedEp[i].owner /\ e.name = PrunedEp[i].name
      BY <3>2 DEF EndpointRec
    <3> HIDE DEF e
    <3> QED
      BY <2>1, <3>1, <3>3
  <2> QED
    BY <1>5, <2>4, <2>5
<1>7. CASE Refused(c)
  BY <1>4, <1>5, <1>7 DEF Refused
<1>8. CASE Leaves(t, c)
  BY <1>3, <1>8 DEF Leaves
<1> QED
  BY <1>1, <1>6, <1>7, <1>8

\* Creating the endpoint neither serves nor answers a call.
LEMMA CreateServes ==
    ASSUME TypeOK, NEW t \in Threads, do_create(t, Endpoint, "DAEMONS")
    PROVE  /\ \A s \in CallSlots :
                 call'[s].state \in {"SERVING", "DONE"} => call'[s] = call[s]
           /\ \A i \in EpSlots :
                 /\ ep[i].used /\ pstate[ep[i].owner] = "run" => ep'[i] = ep[i]
                 /\ ep'[i].used => ep'[i].name = Endpoint \/ ep'[i] = ep[i]
<1>1. call' = GoneCalls(DeadOwners, call)
  BY DEF do_create, OnlyPrune, PrunedCall, GoneCall
<1>2. \A s \in CallSlots : call'[s].state \in {"SERVING", "DONE"} => call'[s] = call[s]
  BY <1>1, GoneServes DEF TypeOK
<1>3. ASSUME NEW i \in EpSlots
      PROVE  /\ ep[i].used /\ pstate[ep[i].owner] = "run" => PrunedEp[i] = ep[i]
             /\ PrunedEp[i].used => PrunedEp[i] = ep[i]
  BY GoneEndpoints DEF PrunedEp, DeadOwners
<1>4. CASE ep' = PrunedEp
  BY <1>2, <1>3, <1>4
<1>5. CASE CanCreate(Endpoint)
  <2> DEFINE i == Lowest(EpFree(PrunedEp))
         e == [used |-> TRUE,
               gen |-> IF PrunedEp[i].gen # 0 THEN PrunedEp[i].gen ELSE PrunedGen,
               name |-> Endpoint, owner |-> ProcOf[t], acl |-> "DAEMONS",
               waiter |-> None, queue |-> <<>>]
  <2>1. ep' = [PrunedEp EXCEPT ![i] = e] /\ e.name = Endpoint
    BY <1>5 DEF do_create
  <2>2. EpFree(PrunedEp) \subseteq Nat /\ EpFree(PrunedEp) # {}
    BY <1>5 DEF CanCreate, EpFree, EpSlots
  <2>3. i \in EpFree(PrunedEp)
    BY <2>2, LowestIsLeast
  <2>4. i \in EpSlots /\ ~PrunedEp[i].used
    BY <2>3 DEF EpFree
  <2> HIDE DEF i, e
  <2>5. \A j \in EpSlots : ep'[j] = IF j = i THEN e ELSE PrunedEp[j]
    BY <2>1, PrunedType
  <2> QED
    BY <1>2, <1>3, <2>1, <2>4, <2>5
<1> QED
  BY <1>4, <1>5 DEF do_create, OnlyPrune

\* No server holds a request when one takes the next.
LEMMA NoneHeld ==
    ASSUME MaxServe = 1, TypeOK, NamesUnique, AnswerOK,
           NEW t \in Threads, NEW h \in Handles, Ready(t), Owns(t, h)
    PROVE  \A r \in Procs : rcvd[r] = {}
<1> DEFINE p == ProcOf[t]
<1>1. h[2] \in EpSlots /\ p \in Procs /\ Cardinality(rcvd[p]) < MaxServe
  BY RecvParts, IpcConstants DEF Ready
<1>2. rcvd[p] = {}
  <2>1. IsFiniteSet(rcvd[p])
    BY <1>1 DEF AnswerOK
  <2>2. Cardinality(rcvd[p]) = 0
    BY <1>1, <2>1, FS_CardinalityType
  <2> QED
    BY <2>1, <2>2, FS_EmptySet
<1>3. ASSUME NEW r \in Procs, NEW x \in rcvd[r], r # p PROVE FALSE
  <2>1. x.h[2] \in EpSlots /\ ep[x.h[2]].used /\ ep[x.h[2]].owner = r
    BY DEF AnswerOK, ep_from_handle
  <2>2. ep[h[2]].used /\ ep[h[2]].owner = p
    BY DEF Owns, ep_from_handle
  <2>3. ep[x.h[2]].name = ep[h[2]].name
    BY <1>1, <2>1, <2>2 DEF AnswerOK
  <2> QED
    BY <1>1, <1>3, <2>1, <2>2, <2>3 DEF NamesUnique
<1> QED
  BY <1>2, <1>3

\* A server that holds no request takes one: all others hold none either.
LEMMA RecvAnswers ==
    ASSUME MaxServe = 1, TypeOK, NamesUnique, AnswerOK,
           NEW t \in Threads, NEW h \in Handles, do_recv(t, h, TRUE)
    PROVE  AnswerOK'
<1> DEFINE p == ProcOf[t]
           q == Queue(h)
           n == Skips(q)
<1>1. /\ h[2] \in EpSlots /\ Scanned(h) \in [CallSlots -> CallRec]
      /\ ~Drained(h) => NextSlot(h) \in CallSlots
  BY RecvParts
<1>2. p \in Procs /\ pstate[p] = "run" /\ Owns(t, h) /\ Cardinality(rcvd[p]) < MaxServe
  BY IpcConstants DEF do_recv, Ready, Idle, Running
<1>3. ASSUME NEW s \in CallSlots, Scanned(h)[s].state \in {"SERVING", "DONE"}
      PROVE  Scanned(h)[s] = call[s]
  <2>1. Scanned(h)[s] \in {call[s], FreeCall}
    BY DEF Scanned, AfterSkips
  <2> QED
    BY <1>3, <2>1 DEF FreeCall
<1>4. \A i \in EpSlots : /\ ep'[i].used = ep[i].used /\ ep'[i].gen = ep[i].gen
                         /\ ep'[i].owner = ep[i].owner /\ ep'[i].name = ep[i].name
  <2>1. PICK r : ep' = [ep EXCEPT ![h[2]].queue = r]
    BY DEF do_recv, RecvEmpty, RecvDeliver
  <2>2. ep[h[2]] \in EndpointRec
    BY <1>1 DEF TypeOK
  <2> DEFINE e == [ep[h[2]] EXCEPT !.queue = r]
  <2>3. /\ e.used = ep[h[2]].used /\ e.gen = ep[h[2]].gen
        /\ e.owner = ep[h[2]].owner /\ e.name = ep[h[2]].name
    BY <2>2 DEF EndpointRec
  <2>4. ep' = [ep EXCEPT ![h[2]] = e]
    BY <2>1 DEF TypeOK
  <2> HIDE DEF e
  <2> QED
    BY <1>1, <2>3, <2>4 DEF TypeOK
<1>5. pstate' = pstate
  BY DEF do_recv
<1>6. CASE RecvEmpty(h)
  <2>1. call' = Scanned(h) /\ rcvd' = rcvd
    BY <1>6 DEF RecvEmpty
  <2>2. \A s \in CallSlots :
           /\ call'[s].state = "SERVING" => call'[s] = call[s]
           /\ call'[s].state = "DONE" => call'[s] = call[s] \/ call'[s].resp = call'[s].req
    BY <1>3, <2>1
  <2>3. \A i \in EpSlots :
           /\ ep[i].used /\ pstate'[ep[i].owner] = "run" =>
                 ep'[i].used /\ ep'[i].gen = ep[i].gen /\ ep'[i].owner = ep[i].owner
           /\ ep'[i].used => ep'[i].name = Endpoint
    BY <1>4 DEF AnswerOK
  <2>4. \A r \in Procs :
           rcvd'[r] \subseteq rcvd[r] /\ (rcvd'[r] # {} /\ pstate[r] = "run" => pstate'[r] = "run")
    BY <1>5, <2>1
  <2> QED
    BY <2>2, <2>3, <2>4, AnswerKept
<1>7. CASE RecvDeliver(p, h)
  <2> DEFINE m == Message(h)
             s == NextSlot(h)
  <2>1. \A r \in Procs : rcvd[r] = {}
    BY NoneHeld DEF do_recv
  <2>2. /\ rcvd' = [rcvd EXCEPT ![p] = @ \cup {m}]
        /\ call' = [Scanned(h) EXCEPT ![s].state = "SERVING"] /\ s \in CallSlots
    BY <1>1, <1>7 DEF RecvDeliver
  <2>3. m.h = h /\ m.id[2] = s /\ m.req = Scanned(h)[s].req
    BY DEF Message, make_id
  <2>4. call'[s].req = Scanned(h)[s].req
    <3>1. Scanned(h)[s] \in CallRec
      BY <1>1, <2>2
    <3> QED
      BY <1>1, <2>2, <3>1 DEF CallRec
  <2>5. \A r \in Procs : rcvd'[r] \subseteq {m} /\ (rcvd'[r] # {} => r = p)
    BY <2>1, <2>2 DEF TypeOK
  <2>6. \A r \in Procs : IsFiniteSet(rcvd'[r])
    <3>1. IsFiniteSet({m})
      BY FS_Singleton
    <3> QED
      BY <2>5, <3>1, FS_Subset
  <2>7. \A k \in CallSlots : call'[k].state = "DONE" => call'[k].resp = call'[k].req
    <3>1. ASSUME NEW k \in CallSlots, call'[k].state = "DONE" PROVE call'[k].resp = call'[k].req
      <4>1. Scanned(h)[k] \in CallRec /\ Scanned(h)[s] \in CallRec
        BY <1>1, <2>2
      <4>2. call'[s].state = "SERVING"
        BY <1>1, <2>2, <4>1 DEF CallRec
      <4>3. call'[k] = Scanned(h)[k]
        BY <1>1, <2>2, <3>1, <4>2
      <4>4. call'[k] = call[k]
        BY <1>3, <3>1, <4>3
      <4> QED
        BY <3>1, <4>4 DEF AnswerOK
    <3> QED
      BY <3>1
  <2>8. ep_from_handle(m.h, ep') /\ ep'[m.h[2]].owner = p
    BY <1>1, <1>2, <1>4, <2>3 DEF Owns, ep_from_handle
  <2>9. \A i \in EpSlots : ep'[i].used => ep'[i].name = Endpoint
    BY <1>4 DEF AnswerOK
  <2> HIDE DEF m, s, p
  <2>10. ASSUME NEW r \in Procs, NEW x \in rcvd'[r]
         PROVE  /\ pstate'[r] = "run" /\ ep_from_handle(x.h, ep') /\ ep'[x.h[2]].owner = r
                /\ CanAnswer(x)' => call'[x.id[2]].req = x.req
    <3>1. x = m /\ r = p
      BY <2>5
    <3> QED
      BY <1>2, <1>5, <2>3, <2>4, <2>8, <3>1
  <2> QED
    BY <2>6, <2>7, <2>9, <2>10 DEF AnswerOK
<1> QED
  BY <1>6, <1>7 DEF do_recv

\* A reply is the request's answer, and the request is not held any more.
LEMMA ReplyAnswers ==
    ASSUME TypeOK, AnswerOK, NEW t \in Threads, NEW m, do_reply(t, m)
    PROVE  AnswerOK'
<1> DEFINE p == ProcOf[t]
           s == m.id[2]
<1>1. p \in Procs /\ m \in rcvd[p] /\ UNCHANGED <<ep, pstate>> /\ rcvd' = [rcvd EXCEPT ![p] = @ \ {m}]
  BY IpcConstants DEF do_reply
<1>2. \A r \in Procs : rcvd'[r] \subseteq rcvd[r]
  BY <1>1 DEF TypeOK
<1>3. CASE UNCHANGED call
  BY <1>1, <1>2, <1>3, AnswerKept DEF AnswerOK
<1>4. CASE CanDrop(m) /\ call' = [call EXCEPT ![s] = FreeCall]
  <2>1. s \in CallSlots /\ FreeCall.state = "FREE"
    BY <1>4 DEF CanDrop, Answers, call_from_id, FreeCall
  <2>2. \A k \in CallSlots : call'[k].state \in {"SERVING", "DONE"} => call'[k] = call[k]
    BY <1>4, <2>1 DEF TypeOK
  <2> QED
    BY <1>1, <1>2, <2>2, AnswerKept DEF AnswerOK
<1>5. CASE CanAnswer(m) /\ call' = [call EXCEPT ![s].state = "DONE", ![s].resp = m.req]
  <2> DEFINE c == [call[s] EXCEPT !.state = "DONE", !.resp = m.req]
  <2>1. s \in CallSlots /\ call[s] \in CallRec
    BY <1>5 DEF CanAnswer, Answers, call_from_id, TypeOK
  <2>2. call' = [call EXCEPT ![s] = c]
    BY <1>5, <2>1 DEF TypeOK
  <2>3. call[s].req = m.req
    BY <1>1, <1>5 DEF AnswerOK
  <2>4. c.state = "DONE" /\ c.resp = c.req
    BY <2>1, <2>3 DEF CallRec
  <2> HIDE DEF c
  <2>5. \A k \in CallSlots :
           /\ call'[k].state = "SERVING" => call'[k] = call[k]
           /\ call'[k].state = "DONE" => call'[k] = call[k] \/ call'[k].resp = call'[k].req
    BY <2>1, <2>2, <2>4 DEF TypeOK
  <2> QED
    BY <1>1, <1>2, <2>5, AnswerKept DEF AnswerOK
<1> QED
  BY <1>3, <1>4, <1>5 DEF do_reply

\* Every step keeps the answers right, when a server holds one request.
LEMMA AnswerStep ==
    ASSUME MaxServe = 1, IInv, SrvTyped, AnswerOK, [SrvNext]_allVars
    PROVE  AnswerOK'
<1>0. TypeOK /\ NamesUnique
  BY IInvImplies DEF IInv
<1>1. ASSUME NEW t \in Users, NEW y, Execute(t, y) PROVE AnswerOK'
  <2>1. UNCHANGED <<pstate, rcvd>>
    BY <1>1 DEF Execute
  <2>2. \A s \in CallSlots : call'[s].state \in {"SERVING", "DONE"} => call'[s] = call[s]
    BY <1>0, <1>1, ExecuteServes
  <2>3. \A i \in EpSlots :
           /\ ep[i].used /\ pstate'[ep[i].owner] = "run" =>
                 ep'[i].used /\ ep'[i].gen = ep[i].gen /\ ep'[i].owner = ep[i].owner
           /\ ep'[i].used => ep'[i].name = Endpoint
    BY <1>0, <1>1, <2>1, ExecuteServes DEF AnswerOK
  <2> QED
    BY <1>0, <2>1, <2>2, <2>3, AnswerKept
<1>2. ASSUME NEW t \in Threads, Serving(t) PROVE AnswerOK'
  <2>1. CASE do_create(t, Endpoint, "DAEMONS")
    <3>1. UNCHANGED <<pstate, rcvd>>
      BY <2>1 DEF do_create, OnlyPrune
    <3>2. \A s \in CallSlots : call'[s].state \in {"SERVING", "DONE"} => call'[s] = call[s]
      BY <1>0, <2>1, CreateServes
    <3>3. \A i \in EpSlots :
             /\ ep[i].used /\ pstate'[ep[i].owner] = "run" =>
                   ep'[i].used /\ ep'[i].gen = ep[i].gen /\ ep'[i].owner = ep[i].owner
             /\ ep'[i].used => ep'[i].name = Endpoint
      BY <1>0, <2>1, <3>1, CreateServes DEF AnswerOK
    <3> QED
      BY <1>0, <3>1, <3>2, <3>3, AnswerKept
  <2>2. ASSUME NEW h \in Handles, do_wait(t, h) PROVE AnswerOK'
    <3>1. UNCHANGED <<call, pstate, rcvd>> /\ ep' = [ep EXCEPT ![h[2]].waiter = t]
      BY <2>2 DEF do_wait
    <3>2. \A i \in EpSlots :
             /\ ep'[i].used = ep[i].used /\ ep'[i].gen = ep[i].gen
             /\ ep'[i].owner = ep[i].owner /\ ep'[i].name = ep[i].name
      BY <1>0, <3>1 DEF TypeOK, EndpointRec
    <3> QED
      BY <1>0, <3>1, <3>2, AnswerKept DEF AnswerOK
  <2>3. ASSUME NEW h \in Handles, do_recv(t, h, TRUE) PROVE AnswerOK'
    BY <1>0, <2>3, RecvAnswers
  <2>4. ASSUME NEW m, NEW status, Serve(t, m, status) PROVE AnswerOK'
    BY <1>0, <2>4, ReplyAnswers DEF Serve
  <2> QED
    BY <1>2, <2>1, <2>2, <2>3, <2>4 DEF Serving
<1>3. ASSUME UNCHANGED <<ep, call, pstate, rcvd>> PROVE AnswerOK'
  BY <1>0, <1>3, AnswerKept DEF AnswerOK
<1>4. ASSUME NEW t \in Threads, WakeUp(t) PROVE AnswerOK'
  BY <1>3, <1>4 DEF WakeUp, Timeout
<1>5. CASE Tick \/ UNCHANGED allVars
  BY <1>3, <1>5 DEF Tick, vars, allVars
<1>6. ASSUME NEW p \in Procs, Exit(p) PROVE AnswerOK'
  <2>1. /\ UNCHANGED <<ep, call>> /\ rcvd' = [rcvd EXCEPT ![p] = {}]
        /\ pstate' = [pstate EXCEPT ![p] = "died"]
    BY <1>6 DEF Exit, AuProcessExit
  <2>2. \A r \in Procs :
           rcvd'[r] \subseteq rcvd[r] /\ (rcvd'[r] # {} /\ pstate[r] = "run" => pstate'[r] = "run")
    BY <1>0, <2>1 DEF TypeOK
  <2>3. \A i \in EpSlots : ep[i].used => ep'[i].name = Endpoint
    BY <2>1 DEF AnswerOK
  <2> QED
    BY <1>0, <2>1, <2>2, <2>3, AnswerKept
<1>7. ASSUME NEW p \in Procs, Reap(p) PROVE AnswerOK'
  <2>1. /\ ep' = GoneEp({p}) /\ call' = GoneCalls({p}, call) /\ UNCHANGED rcvd
        /\ pstate[p] = "died" /\ pstate' = [pstate EXCEPT ![p] = "reaped"]
    BY <1>7 DEF Reap, AuProcessClean, AuIpcProcessGone, GoneCall
  <2>2. \A s \in CallSlots : call'[s].state \in {"SERVING", "DONE"} => call'[s] = call[s]
    BY <1>0, <2>1, GoneServes DEF TypeOK
  <2>3. \A i \in EpSlots :
           /\ ep[i].used /\ pstate'[ep[i].owner] = "run" => ep'[i] = ep[i]
           /\ ep'[i].used => ep'[i] = ep[i]
    BY <1>0, <2>1, GoneEndpoints DEF TypeOK
  <2>4. \A r \in Procs : pstate[r] = "run" => pstate'[r] = "run"
    BY <1>0, <2>1 DEF TypeOK
  <2>5. \A i \in EpSlots :
           /\ ep[i].used /\ pstate'[ep[i].owner] = "run" =>
                 ep'[i].used /\ ep'[i].gen = ep[i].gen /\ ep'[i].owner = ep[i].owner
           /\ ep'[i].used => ep'[i].name = Endpoint
    BY <2>3 DEF AnswerOK
  <2> QED
    BY <1>0, <2>1, <2>2, <2>4, <2>5, AnswerKept
<1>8. SrvNext => \/ \E t \in Users : \E y : Execute(t, y)
                 \/ \E t \in Threads \ Users : Serving(t)
                 \/ \E t \in Threads : WakeUp(t)
                 \/ Tick
                 \/ \E p \in Procs : Exit(p) \/ Reap(p)
  BY <1>0, StepCases DEF Executes
<1> QED
  BY <1>1, <1>2, <1>4, <1>5, <1>6, <1>7, <1>8

\* The requests a server holds, and the answers it gave, are those of the calls.
LEMMA AnswerInvariant ==
    ASSUME MaxServe = 1
    PROVE  SrvSpec => []AnswerOK
<1>1. SrvInit => AnswerOK
  <2> SUFFICES ASSUME SrvInit PROVE AnswerOK
    OBVIOUS
  <2>1. /\ \A i \in EpSlots : ~ep[i].used
        /\ \A s \in CallSlots : call[s].state = "FREE"
        /\ \A p \in Procs : rcvd[p] = {}
    BY DEF SrvInit, Init, NoEp, FreeCall
  <2> QED
    BY <2>1, FS_EmptySet DEF AnswerOK
<1>2. IInv /\ SrvTyped /\ AnswerOK /\ [SrvNext]_allVars => AnswerOK'
  BY AnswerStep
<1> QED
  BY <1>1, <1>2, SrvInvariant, PTL DEF SrvSpec

-----------------------------------------------------------------------------
(***************************************************************************)
(* The file position.  The operations of a WriteFile were found at          *)
(* positions that follow each other, those of other syscalls at the        *)
(* position the file has.                                                  *)
(***************************************************************************)
Placed(t) ==
    /\ sys[t] # None => OneUnlessWrite(sys[t])
    /\ Used(t) =>
          /\ sys[t] # None /\ cnt[t] # 0 /\ sent[<<t, cnt[t]>>].sys = sys[t]
          /\ Len(hist[t].ops) <= sys[t].n
          /\ \A k \in 1 .. Len(hist[t].ops) :
                hist[t].ops[k].pos_before = IF Moves(sys[t])
                                            THEN hist[t].ops[1].pos_before + k - 1
                                            ELSE pos[t]
    /\ last[t] # None /\ (sys[t] # None => ~Moves(sys[t])) =>
          pos[t] = last[t].start + last[t].done

PosOK == \A t \in Users : Live(t) => Placed(t)

\* A thread that takes no step keeps its place, whether its history ages or goes.
LEMMA PlaceKept ==
    ASSUME SrvTyped, NEW t \in Threads, Placed(t),
           sys'[t] = sys[t], pos'[t] = pos[t], last'[t] = last[t], cnt'[t] = cnt[t],
           cnt[t] # 0 => sent'[<<t, cnt[t]>>].sys = sent[<<t, cnt[t]>>].sys,
           \/ hist'[t].ops = <<>>
           \/ /\ Used(t) /\ Len(hist'[t].ops) = Len(hist[t].ops)
              /\ \A k \in 1 .. Len(hist[t].ops) :
                    hist'[t].ops[k].pos_before = hist[t].ops[k].pos_before
    PROVE  Placed(t)'
<1>1. Used(t)' => Used(t)
  BY DEF Used
<1>2. Used(t) => 1 \in 1 .. Len(hist[t].ops)
  BY LastOpType
<1>3. CASE Used(t)'
  BY <1>1, <1>2, <1>3 DEF Placed, Used, Moves
<1>4. CASE ~Used(t)'
  BY <1>4 DEF Placed, Moves
<1> QED
  BY <1>3, <1>4

\* The answer a waiting operation polls is to the request it made.
LEMMA OwnAnswer ==
    ASSUME TypeOK, SrvTyped, OwnCalls, AnswerOK, SentOK, NEW t \in Users, Live(t), Used(t),
           Placed(t), KPoll(LastOp(t).id) = "OK", Good(t)
    PROVE  sys[t].op = "write" => Advance(t, sys[t]) = 1
<1> DEFINE s == LastOp(t).id[2]
<1>1. call_from_id(LastOp(t).id, call) /\ call[s].req = <<t, cnt[t]>>
  BY DEF OwnCalls, Mine
<1>2. s \in CallSlots /\ call[s].state = "DONE"
  BY <1>1 DEF KPoll, call_from_id
<1>3. Answer(t) = <<t, cnt[t]>>
  BY <1>1, <1>2 DEF AnswerOK, Answer
<1>4. cnt[t] \in 1 .. cnt[t]
  BY SrvConstants DEF Placed, TypeOK
<1>5. sent[Answer(t)].sys = sys[t] /\ (sent[Answer(t)].status = "end" => sys[t].op = "read")
  BY <1>3, <1>4 DEF SentOK, Placed
<1> QED
  BY <1>5 DEF Advance, Good, Moves

\* A new operation continues where the earlier ones of the execution ended.
LEMMA AsksPlaced ==
    ASSUME TypeOK, SrvTyped, NEW t \in Threads, NEW y \in Syscalls, OneUnlessWrite(y),
           NEW c, NEW ops \in Seq(Ops), NEW k, NEW at, Asks(t, y, c, ops, k, at),
           Len(ops) + 1 <= y.n,
           \A j \in 1 .. Len(ops) : ops[j].pos_before = IF Moves(y) THEN ops[1].pos_before + j - 1
                                                        ELSE pos[t],
           at = IF ~Moves(y) THEN pos[t]
                ELSE IF Len(ops) = 0 THEN at ELSE ops[1].pos_before + Len(ops),
           ~Moves(y) => /\ pos'[t] = pos[t]
                        /\ last[t] # None => pos[t] = last[t].start + last[t].done
    PROVE  Placed(t)'
<1> DEFINE q == hist'[t].ops
<1>1. /\ Len(q) = Len(ops) + 1 /\ Len(ops) \in Nat /\ q # <<>> /\ at \in Nat
      /\ q[Len(q)].pos_before = at /\ \A j \in 1 .. Len(ops) : q[j] = ops[j]
  BY AsksOps DEF Asks
<1>2. /\ cnt'[t] = cnt[t] + 1 /\ cnt[t] \in Nat /\ sent'[<<t, cnt[t] + 1>>].sys = y
      /\ sys'[t] = y /\ last' = last
  <2>1. /\ cnt'[t] = cnt[t] + 1 /\ cnt[t] \in Nat
        /\ sent'[<<t, cnt[t] + 1>>] = [sys |-> y, chunk |-> k, at |-> at, status |-> "none"]
    BY AsksSent
  <2> QED
    BY <2>1 DEF Asks
<1>3. y # None
  BY SrvConstants
<1> HIDE DEF q
<1>4. ASSUME NEW j \in 1 .. Len(q)
      PROVE  q[j].pos_before = IF Moves(y) THEN q[1].pos_before + j - 1 ELSE pos'[t]
  <2>1. CASE Len(ops) = 0
    <3>1. j = 1 /\ j = Len(q) /\ at + 1 - 1 = at
      BY <1>1, <2>1
    <3> QED
      BY <1>1, <3>1
  <2>2. CASE Len(ops) # 0 /\ j = Len(q)
    <3>1. q[1] = ops[1] /\ j - 1 = Len(ops) /\ 1 \in 1 .. Len(ops)
      BY <1>1, <2>2
    <3>2. ops[1] \in Ops
      BY <3>1, ElementOfSeq
    <3>3. ops[1].pos_before + Len(ops) = ops[1].pos_before + j - 1
      BY <1>1, <2>2, <3>1, <3>2 DEF Ops
    <3> QED
      BY <1>1, <2>2, <3>1, <3>3
  <2>3. CASE Len(ops) # 0 /\ j # Len(q)
    <3>1. j \in 1 .. Len(ops) /\ 1 \in 1 .. Len(ops)
      BY <1>1, <2>3
    <3> QED
      BY <1>1, <3>1
  <2> QED
    BY <2>1, <2>2, <2>3
<1>5. cnt'[t] # 0 /\ sent'[<<t, cnt'[t]>>].sys = y
  BY <1>2
<1>6. last'[t] # None /\ ~Moves(y) => pos'[t] = last'[t].start + last'[t].done
  BY <1>2
<1> HIDE DEF Moves
<1> QED
  BY <1>1, <1>2, <1>3, <1>4, <1>5, <1>6 DEF Placed, Used, q, Moves

\* A syscall that ends says by how much it moved the position.
LEMMA FinishesPlaced ==
    ASSUME TypeOK, SrvTyped, NEW t \in Threads, NEW y \in Syscalls, NEW start, NEW done,
           Finishes(t, y, start, done),
           Moves(y) => pos'[t] = start + done,
           ~Moves(y) => /\ pos'[t] = pos[t]
                        /\ last[t] # None => pos[t] = last[t].start + last[t].done
    PROVE  Placed(t)'
<1>1. hist'[t].ops = <<>> /\ sys'[t] = None
  BY DEF Finishes, Returns, SrvTyped, NoHist
<1>2. last'[t] = IF Moves(y) THEN [op |-> y.op, nr |-> y.nr, start |-> start, done |-> done]
                 ELSE IF y.op = "remove" THEN None ELSE last[t]
  BY DEF Finishes, Returns, SrvTyped, Moves
<1>3. CASE Moves(y)
  BY <1>1, <1>2, <1>3 DEF Placed, Used
<1>4. CASE ~Moves(y)
  BY <1>1, <1>2, <1>4 DEF Placed, Used
<1> QED
  BY <1>3, <1>4

\* Executions of a syscall restore and move the position as they should.
LEMMA ExecutePlaced ==
    ASSUME IInv, SrvTyped, OwnCalls, AnswerOK, SentOK, NEW t \in Users, Live(t), Placed(t),
           NEW y \in Syscalls, Executes(t, y)
    PROVE  Placed(t)'
<1>0. TypeOK /\ t \in Threads /\ Execute(t, y) /\ OneUnlessWrite(y)
  BY SrvConstants DEF IInv, Executes, Placed
<1>1. FirstCase(t, y) \/ OverCase(t, y) \/ ReplayCase(t, y)
  BY <1>0, ExecuteIs
<1>2. ~Moves(y) /\ last[t] # None => pos[t] = last[t].start + last[t].done
  BY DEF Executes, Placed
<1>3. pos[t] \in Nat /\ pos \in [Threads -> Nat] /\ y.n \in Nat \ {0}
  BY <1>0, SrvConstants DEF SrvTyped, Syscalls
<1>4. ASSUME NEW c, NEW ops, ops = <<>>, Asks(t, y, c, ops, 1, pos[t]), pos' = pos PROVE Placed(t)'
  <2>1. ops \in Seq(Ops) /\ Len(ops) = 0
    BY <1>4, EmptySeq
  <2>2. Len(ops) + 1 <= y.n
    BY <1>3, <2>1
  <2>3. \A j \in 1 .. Len(ops) : ops[j].pos_before = IF Moves(y) THEN ops[1].pos_before + j - 1
                                                     ELSE pos[t]
    BY <2>1
  <2> QED
    BY <1>0, <1>2, <1>4, <2>1, <2>2, <2>3, AsksPlaced
<1>5. ASSUME Finishes(t, y, pos[t], 0), pos' = pos PROVE Placed(t)'
  BY <1>0, <1>2, <1>3, <1>5, FinishesPlaced
<1>6. CASE FirstCase(t, y)
  BY <1>4, <1>5, <1>6 DEF FirstCase
<1>7. CASE OverCase(t, y)
  BY <1>4, <1>5, <1>7 DEF OverCase
<1>8. CASE ReplayCase(t, y)
  <2> DEFINE ops == hist[t].ops
             k == Len(ops)
             first == ops[1].pos_before
             at == Restored(t, k)
             adv == Advance(t, y)
  <2>1. Used(t) /\ sys[t] = y /\ y # None
    BY <1>8, SrvConstants DEF ReplayCase, Executes, Placed
  <2>2. /\ k \in Nat \ {0} /\ k <= y.n /\ ops \in Seq(Ops)
        /\ \A j \in 1 .. k : ops[j].pos_before = IF Moves(y) THEN first + j - 1 ELSE pos[t]
    <3>1. k \in Nat \ {0}
      BY <1>0, <2>1, LastOpType
    <3>2. hist[t].ops \in Seq(Ops)
      BY <1>0 DEF SrvTyped, HistRec
    <3> QED
      BY <2>1, <3>1, <3>2 DEF Placed
  <2>3. first \in Nat /\ StartPos(t) = first
    <3>1. ops[1] \in Ops
      BY <2>2, ElementOfSeq
    <3> QED
      BY <2>1, <3>1 DEF Ops, StartPos
  <2>4. at = IF Moves(y) THEN first + (k - 1) ELSE pos[t]
    BY <2>2, <2>3 DEF Restored
  <2>5. adv \in {0, 1} /\ (~Moves(y) => adv = 0)
    BY DEF Advance
  <2>6. KPoll(LastOp(t).id) = "OK" /\ Good(t) => (y.op = "write" => adv = 1)
    BY <1>0, <2>1, OwnAnswer
  <2>7. Moves(y) /\ k # y.n => y.op = "write"
    BY <1>0, <1>3, <2>2 DEF OneUnlessWrite
  <2> HIDE DEF ops, first, at, adv, k
  <2>8. CASE pos' = [pos EXCEPT ![t] = at] /\ Sleeps(t)
    <3>1. pos'[t] = at
      BY <1>0, <1>3, <2>8
    <3>2. ~Moves(y) => pos'[t] = pos[t]
      BY <2>4, <3>1
    <3>3. UNCHANGED <<hist, sys, last, sent, cnt>>
      BY <2>8 DEF Sleeps
    <3> QED
      BY <2>1, <2>2, <3>2, <3>3 DEF Placed, Used, ops, k, first
  <2>9. CASE pos' = [pos EXCEPT ![t] = at] /\ Finishes(t, y, StartPos(t), k - 1)
    <3>1. pos'[t] = at
      BY <1>0, <1>3, <2>9
    <3> QED
      BY <1>0, <1>2, <2>3, <2>4, <2>9, <3>1, FinishesPlaced
  <2>10. CASE /\ pos' = [pos EXCEPT ![t] = at + adv]
              /\ KPoll(LastOp(t).id) = "OK" /\ Good(t)
              /\ \/ Finishes(t, y, StartPos(t), k - 1 + adv)
                 \/ /\ k # y.n
                    /\ \/ Asks(t, y, KPolled(LastOp(t).id), ops, k + 1, at + adv)
                       \/ Finishes(t, y, StartPos(t), k)
    <3>1. pos'[t] = at + adv
      BY <1>0, <1>3, <2>10
    <3>2. ~Moves(y) => at + adv = pos[t]
      BY <1>3, <2>4, <2>5
    <3>3. Moves(y) => at + adv = first + (k - 1 + adv)
      BY <2>2, <2>3, <2>4, <2>5
    <3>4. Moves(y) /\ k # y.n => at + adv = first + k
      BY <2>2, <2>3, <2>4, <2>6, <2>7, <2>10
    <3>5. CASE Finishes(t, y, StartPos(t), k - 1 + adv)
      BY <1>0, <1>2, <2>3, <3>1, <3>2, <3>3, <3>5, FinishesPlaced
    <3>6. CASE k # y.n /\ Finishes(t, y, StartPos(t), k)
      BY <1>0, <1>2, <2>3, <3>1, <3>2, <3>4, <3>6, FinishesPlaced
    <3>7. CASE k # y.n /\ Asks(t, y, KPolled(LastOp(t).id), ops, k + 1, at + adv)
      <4>1. Len(ops) = k /\ Len(ops) + 1 <= y.n /\ Len(ops) # 0
        BY <1>3, <2>2, <3>7 DEF k
      <4>2. at + adv = IF ~Moves(y) THEN pos[t]
                       ELSE IF Len(ops) = 0 THEN at + adv ELSE ops[1].pos_before + Len(ops)
        BY <3>2, <3>4, <3>7, <4>1 DEF first
      <4>3. \A j \in 1 .. Len(ops) : ops[j].pos_before = IF Moves(y) THEN ops[1].pos_before + j - 1
                                                         ELSE pos[t]
        BY <2>2, <4>1 DEF first
      <4>4. ~Moves(y) => /\ pos'[t] = pos[t]
                         /\ last[t] # None => pos[t] = last[t].start + last[t].done
        BY <1>2, <3>1, <3>2
      <4> QED
        BY <1>0, <2>2, <3>7, <4>1, <4>2, <4>3, <4>4, AsksPlaced
    <3> QED
      BY <2>10, <3>5, <3>6, <3>7
  <2> QED
    BY <1>8, <2>8, <2>9, <2>10 DEF ReplayCase, ops, k, at, adv
<1> QED
  BY <1>1, <1>6, <1>7, <1>8

\* The others' steps leave a thread its place.
LEMMA PosStep ==
    ASSUME IInv, SrvTyped, OwnCalls, AnswerOK, SentOK, PosOK, [SrvNext]_allVars
    PROVE  PosOK'
<1>0. TypeOK /\ Users \subseteq Threads
  BY SrvConstants DEF IInv
<1>1. \A u \in Users : Live(u)' => Live(u) /\ Placed(u)
  BY <1>0, LivesOn DEF PosOK
<1>2. ASSUME UNCHANGED <<hist, sys, pos, last, cnt>>,
             \A u \in Users : cnt[u] # 0 =>
                sent'[<<u, cnt[u]>>].sys = sent[<<u, cnt[u]>>].sys
      PROVE  PosOK'
  <2>1. ASSUME NEW u \in Users, Placed(u) PROVE Placed(u)'
    BY <1>0, <1>2, <2>1, PlaceKept DEF Used
  <2> QED
    BY <1>1, <2>1 DEF PosOK
<1>3. ASSUME NEW t \in Users, NEW y \in Syscalls, Executes(t, y) PROVE PosOK'
  <2>1. Others(t) /\ Execute(t, y) /\ t \in Threads
    BY <1>0, <1>3, ExecuteIs DEF Executes
  <2>2. \A u \in Users : u # t => sent'[<<u, cnt[u]>>] = sent[<<u, cnt[u]>>] \/ cnt[u] = 0
    <3>1. \A u \in Users : cnt[u] \in 0 .. MaxReq /\ MaxReq \in Nat
      BY <1>0, IpcConstants DEF TypeOK
    <3>2. ASSUME NEW c, NEW ops, NEW k, NEW at, Asks(t, y, c, ops, k, at),
                 NEW u \in Users, u # t, cnt[u] # 0
          PROVE  sent'[<<u, cnt[u]>>] = sent[<<u, cnt[u]>>]
      <4>1. cnt[u] \in 1 .. MaxReq /\ u \in Threads
        BY <1>0, <3>1, <3>2
      <4> QED
        BY <1>0, <2>1, <3>2, <4>1, AsksSent
    <3> QED
      BY <1>0, <2>1, <3>2, ExecuteEnds DEF Sleeps
  <2>3. ASSUME NEW u \in Users, Live(u)' PROVE Placed(u)'
    <3>1. CASE u = t
      BY <1>1, <1>3, <2>3, <3>1, ExecutePlaced
    <3>2. CASE u # t
      <4>1. Placed(u) /\ u \in Threads
        BY <1>0, <1>1, <2>3
      <4>2. /\ sys'[u] = sys[u] /\ pos'[u] = pos[u] /\ last'[u] = last[u] /\ cnt'[u] = cnt[u]
            /\ hist'[u] = hist[u] \/ hist'[u] = NoHist
        BY <2>1, <3>2, <4>1 DEF Others
      <4>3. cnt[u] # 0 => sent'[<<u, cnt[u]>>].sys = sent[<<u, cnt[u]>>].sys
        BY <2>2, <3>2
      <4> QED
        BY <4>1, <4>2, <4>3, PlaceKept DEF Used, NoHist
    <3> QED
      BY <3>1, <3>2
  <2> QED
    BY <2>3 DEF PosOK
<1>4. ASSUME NEW t \in Threads \ Users, Serving(t) PROVE PosOK'
  <2>1. CASE UNCHANGED srvVars
    <3>1. cnt' = cnt
      <4>1. ASSUME NEW h, do_create(t, Endpoint, "DAEMONS") \/ do_wait(t, h) \/ do_recv(t, h, TRUE)
            PROVE  cnt' = cnt
        BY <4>1 DEF do_create, OnlyPrune, do_wait, do_recv
      <4>2. ASSUME NEW m, NEW status, Serve(t, m, status) PROVE cnt' = cnt
        BY <4>2 DEF Serve, do_reply
      <4> QED
        BY <1>4, <4>1, <4>2 DEF Serving
    <3> QED
      BY <1>2, <2>1, <3>1 DEF srvVars
  <2>2. ASSUME NEW m \in rcvd[ProcOf[t]], NEW status \in {"ok", "end", "err"}, Serve(t, m, status)
        PROVE  PosOK'
    <3>1. UNCHANGED <<hist, sys, pos, last, cnt>>
      BY <2>2 DEF Serve, do_reply
    <3>2. sent' = sent \/ sent' = [sent EXCEPT ![m.req].status = status]
      BY <2>2 DEF Serve
    <3>3. ASSUME NEW u \in Users, cnt[u] # 0
          PROVE  sent'[<<u, cnt[u]>>].sys = sent[<<u, cnt[u]>>].sys
      <4>1. cnt[u] \in 1 .. cnt[u] /\ <<u, cnt[u]>> \in Reqs
        BY <1>0, <3>3, IpcConstants DEF TypeOK, Reqs
      <4>2. sent[<<u, cnt[u]>>] \in SentRec
        BY <4>1 DEF SentOK
      <4>3. [sent[<<u, cnt[u]>>] EXCEPT !.status = status].sys = sent[<<u, cnt[u]>>].sys
        BY <4>2 DEF SentRec
      <4>4. \/ sent'[<<u, cnt[u]>>] = sent[<<u, cnt[u]>>]
            \/ sent'[<<u, cnt[u]>>] = [sent[<<u, cnt[u]>>] EXCEPT !.status = status]
        BY <3>2, <4>1 DEF SrvTyped
      <4> QED
        BY <4>3, <4>4
    <3> QED
      BY <1>2, <3>1, <3>3
  <2> QED
    BY <1>4, <2>1, <2>2 DEF Serving
<1>5. ASSUME NEW t \in Threads, WakeUp(t) PROVE PosOK'
  BY <1>2, <1>5 DEF WakeUp, Timeout, srvVars
<1>6. CASE Tick
  <2>1. hist' = [t \in Threads |-> Aged(hist[t])] /\ UNCHANGED <<sys, pos, last, cnt, sent>>
    BY <1>6 DEF Tick, vars
  <2>2. ASSUME NEW u \in Users, Placed(u) PROVE Placed(u)'
    <3>1. u \in Threads /\ hist[u] \in HistRec /\ hist'[u] = Aged(hist[u])
      BY <1>0, <2>1 DEF SrvTyped
    <3>2. \/ hist'[u].ops = <<>>
          \/ /\ Used(u) /\ Len(hist'[u].ops) = Len(hist[u].ops)
             /\ \A k \in 1 .. Len(hist[u].ops) :
                   hist'[u].ops[k].pos_before = hist[u].ops[k].pos_before
      BY <3>1, AgedType DEF Used
    <3> QED
      BY <2>1, <2>2, <3>1, <3>2, PlaceKept
  <2> QED
    BY <1>1, <2>2 DEF PosOK
<1>7. ASSUME NEW p \in Procs, Exit(p) PROVE PosOK'
  <2>1. /\ UNCHANGED <<hist, pos, last, cnt, sent>> /\ pstate' = [pstate EXCEPT ![p] = "died"]
        /\ sys' = [t \in Threads |-> IF ProcOf[t] = p THEN None ELSE sys[t]]
    BY <1>7 DEF Exit, AuProcessExit
  <2>2. ASSUME NEW u \in Users, Live(u)' PROVE Placed(u)'
    <3>1. ProcOf[u] # p
      BY <1>0, <2>1, <2>2 DEF Live, TypeOK
    <3>2. sys'[u] = sys[u] /\ u \in Threads /\ Placed(u)
      BY <1>0, <1>1, <2>1, <2>2, <3>1
    <3> QED
      BY <2>1, <3>2, PlaceKept DEF Used
  <2> QED
    BY <2>2 DEF PosOK
<1>8. ASSUME NEW p \in Procs, Reap(p) PROVE PosOK'
  BY <1>2, <1>8 DEF Reap, AuProcessClean, srvVars
<1>9. CASE UNCHANGED allVars
  BY <1>2, <1>9 DEF allVars, vars, srvVars
<1> QED
  BY <1>0, <1>3, <1>4, <1>5, <1>6, <1>7, <1>8, <1>9, StepCases

\* "Side effects of an earlier pass are not applied twice" (srvfs.c:19): under the
\* same condition on stale histories, a ReadFile or WriteFile moves the file
\* position by what it returns, however often it was executed, if a server answers
\* a request before it takes the next one (fssrv's main loop).
THEOREM PositionMatches ==
    ASSUME MaxServe = 1
    PROVE  SrvSpec /\ []IdsFresh => []PositionMatchesReturn
<1>1. SrvInit => PosOK /\ OwnCalls
  <2> SUFFICES ASSUME SrvInit PROVE PosOK /\ OwnCalls
    OBVIOUS
  <2>1. \A t \in Users : ~Used(t) /\ sys[t] = None /\ last[t] = None
    BY SrvConstants DEF SrvInit, Used, NoHist
  <2> QED
    BY <2>1 DEF PosOK, Placed, OwnCalls
<1>2. IInv /\ SrvTyped /\ OwnCalls /\ IdsFresh /\ [SrvNext]_allVars => OwnCalls'
  BY OwnCallsStep
<1>3. IInv /\ SrvTyped /\ OwnCalls /\ AnswerOK /\ SentOK /\ PosOK /\ [SrvNext]_allVars => PosOK'
  BY PosStep
<1>4. PosOK => PositionMatchesReturn
  BY DEF PosOK, Placed, PositionMatchesReturn, Live
<1>5. SrvSpec => []AnswerOK
  BY AnswerInvariant
<1> QED
  BY <1>1, <1>2, <1>3, <1>4, <1>5, SrvInvariant, SentInvariant, PTL DEF SrvSpec

-----------------------------------------------------------------------------
(***************************************************************************)
(* What a WriteFile reports.  A request that its thread gave up may still  *)
(* be held by a server, and done later; what matters is what such a late   *)
(* request can overwrite.                                                  *)
(***************************************************************************)

\* The requests of a thread that a server holds.
Held(t) == {i \in 1 .. MaxReq : \E p \in Procs : \E m \in rcvd[p] : m.req = <<t, i>>}

\* The calls of a thread in table C that are not given up, with their requests.
Going(C, t) == {a \in CallSlots \X (1 .. MaxReq) :
                   C[a[1]].req = <<t, a[2]>> /\ C[a[1]].state # "ABANDONED"}

\* At most one request is held, whoever holds it.
OneHeld == \A p, q \in Procs : \A m \in rcvd[p], n \in rcvd[q] : p = q /\ m = n

\* No call of the thread goes on but the one its last operation waits for.
OnlyOwn(t) == Going(call, t) \subseteq IF Used(t) THEN {<<LastOp(t).id[2], cnt[t]>>} ELSE {}

\* What a place of a file can hold.
Cells == (Nat \X Nat) \cup {None}

DiskShape == disk = [p \in Procs |-> [t \in Users |-> disk[p][t]]]

\* A server's copy of the thread's file has x in its place i.
Stored(t, i, x) == \E p \in Procs : i <= Len(disk[p][t]) /\ disk[p][t][i] = x

\* The request a thread made last.
Newest(t) == sent[<<t, cnt[t]>>]

\* What a waiting operation asked for, and what those before it achieved.  An
\* older request is held only while nothing of the syscall was answered.
Asking(t) ==
    LET k == Len(hist[t].ops) IN
    Used(t) =>
        /\ Newest(t).chunk = k /\ Newest(t).at = LastOp(t).pos_before
        /\ call[LastOp(t).id[2]].state = "DONE" => Held(t) = {}
        /\ k > 1 \/ Newest(t).status # "none" => Held(t) \subseteq {cnt[t]}
        /\ sys[t].op = "write" =>
              /\ \A j \in 1 .. k - 1 : Stored(t, hist[t].ops[j].pos_before + 1, <<sys[t].nr, j>>)
              /\ Newest(t).status = "ok" =>
                    Stored(t, LastOp(t).pos_before + 1, <<sys[t].nr, k>>)

\* The thread's i-th request, done now, leaves the first n pages of its file alone.
Spares(t, i, n) ==
    sent[<<t, i>>].sys.op # "remove" /\ (sent[<<t, i>>].sys.op = "write" => sent[<<t, i>>].at >= n)

\* Where what the last WriteFile reported ends.
End(t) == last[t].start + last[t].done

\* What the last WriteFile reported is stored, and nothing to come reaches it.
Told(t) ==
    Reported(t) =>
        /\ last[t].start \in Nat /\ last[t].done \in Nat
        /\ \A k \in 1 .. last[t].done : Stored(t, last[t].start + k, <<last[t].nr, k>>)
        /\ last[t].done > 0 => \A i \in Held(t) : Spares(t, i, End(t))
        /\ pos[t] >= End(t)
        /\ \A k \in 1 .. Len(hist[t].ops) : hist[t].ops[k].pos_before >= End(t)

Writes(t) ==
    /\ Held(t) \subseteq 1 .. cnt[t]
    /\ \A p \in Procs : disk[p][t] \in Seq(Cells)
    /\ Asking(t) /\ Told(t)

WritesOK == OneHeld /\ DiskShape /\ \A t \in Users : Live(t) => OnlyOwn(t) /\ Writes(t)

\* AuIpcProcessGone lets no given-up call go on.
LEMMA GoneGoing ==
    ASSUME NEW C \in [CallSlots -> CallRec], NEW P, NEW t
    PROVE  Going(GoneCalls(P, C), t) \subseteq Going(C, t)
<1> SUFFICES ASSUME NEW a \in Going(GoneCalls(P, C), t) PROVE a \in Going(C, t)
  OBVIOUS
<1> DEFINE s == a[1]
           D == GoneCalls(P, C)
<1>1. s \in CallSlots /\ C[s] \in CallRec /\ a \in CallSlots \X (1 .. MaxReq)
  BY DEF Going
<1>2. /\ D[s].req = <<t, a[2]>> /\ D[s].state # "ABANDONED"
  BY DEF Going
<1>3. \/ D[s] = C[s]
      \/ D[s] = [C[s] EXCEPT !.state = "ABANDONED"]
      \/ D[s] = [C[s] EXCEPT !.state = "FAILED"] /\ C[s].state \in InFlight
      \/ D[s] = FreeCall
  BY <1>1 DEF GoneCalls, Fails
<1>4. FreeCall.req # <<t, a[2]>>
  BY DEF FreeCall, NoReq
<1>5. /\ [C[s] EXCEPT !.state = "ABANDONED"].state = "ABANDONED"
      /\ [C[s] EXCEPT !.state = "FAILED"].req = C[s].req
  BY <1>1 DEF CallRec
<1>6. C[s].req = <<t, a[2]>> /\ C[s].state # "ABANDONED"
  BY <1>2, <1>3, <1>4, <1>5 DEF InFlight
<1> QED
  BY <1>1, <1>6 DEF Going

\* Nor does an execution that gives calls up or takes an answer.
LEMMA LeftGoing ==
    ASSUME TypeOK, NEW u, NEW c \in Left(u), NEW t
    PROVE  Going(c, t) \subseteq Going(call, t)
<1> SUFFICES ASSUME NEW a \in Going(c, t) PROVE a \in Going(call, t)
  OBVIOUS
<1> DEFINE s == a[1]
<1>1. s \in CallSlots /\ call[s] \in CallRec /\ a \in CallSlots \X (1 .. MaxReq)
  BY DEF Going, TypeOK
<1>2. c[s].req = <<t, a[2]>> /\ c[s].state # "ABANDONED"
  BY DEF Going
<1>3. FreeCall.req # <<t, a[2]>>
  BY DEF FreeCall, NoReq
<1>4. [call[s] EXCEPT !.state = "ABANDONED"].state = "ABANDONED"
  BY <1>1 DEF CallRec
<1>5. c[s] = call[s]
  BY <1>1, <1>2, <1>3, <1>4, LeftIs
<1> QED
  BY <1>1, <1>2, <1>5 DEF Going

\* The call a history waits for is given up with it.
LEMMA AbandonGoing ==
    ASSUME TypeOK, NEW U, U \subseteq Threads, IsFiniteSet(U), NEW t \in U, Used(t),
           call_from_id(LastOp(t).id, call), NEW i
    PROVE  <<LastOp(t).id[2], i>> \notin Going(AbandonedBy(U), t)
<1> DEFINE s == LastOp(t).id[2]
           N == {u \in U : Used(u) /\ call_from_id(LastOp(u).id, call) /\ LastOp(u).id[2] = s}
<1>1. s \in CallSlots /\ call[s] \in CallRec
  BY DEF call_from_id, TypeOK
<1>2. AbandonedBy(U)[s] = KAbandon(call[s], Cardinality(N))
  BY <1>1 DEF AbandonedBy
<1>3. Cardinality(N) # 0
  <2>1. IsFiniteSet(N) /\ t \in N
    BY FS_Subset
  <2> HIDE DEF N
  <2> QED
    BY <2>1, FS_EmptySet
<1> HIDE DEF N
<1>4. \/ AbandonedBy(U)[s] = [call[s] EXCEPT !.state = "ABANDONED"]
      \/ AbandonedBy(U)[s] = FreeCall
  BY <1>2, <1>3 DEF KAbandon
<1>5. [call[s] EXCEPT !.state = "ABANDONED"].state = "ABANDONED" /\ FreeCall.req # <<t, i>>
  BY <1>1 DEF CallRec, FreeCall, NoReq
<1>6. ASSUME <<s, i>> \in Going(AbandonedBy(U), t) PROVE FALSE
  <2>1. AbandonedBy(U)[s].req = <<t, i>> /\ AbandonedBy(U)[s].state # "ABANDONED"
    BY <1>6 DEF Going
  <2> QED
    BY <1>4, <1>5, <2>1
<1> QED
  BY <1>6

\* A call that begins goes on, with the others that did.
LEMMA BeginsGoing ==
    ASSUME TypeOK, NEW u \in Threads, NEW c \in [CallSlots -> CallRec],
           Begins(u, c) \/ Refused(c) \/ Leaves(u, c), NEW t
    PROVE  Going(call', t) \subseteq
              Going(c, t) \cup IF Begins(u, c) /\ u = t THEN {<<KSlot(c), cnt[t] + 1>>} ELSE {}
<1>1. Going(KPruned(c), t) \subseteq Going(c, t)
  BY GoneGoing DEF KPruned
<1>2. CASE Begins(u, c)
  <2> DEFINE d == QueuedCall(u, KEndpoint(Endpoint), KGen(c))
  <2>1. /\ KSlot(c) \in CallSlots /\ KPruned(c) \in [CallSlots -> CallRec]
        /\ call' = [KPruned(c) EXCEPT ![KSlot(c)] = d]
    BY <1>2, AdmittedIs DEF Begins, KCall
  <2>2. d.req = <<u, cnt[u] + 1>>
    BY DEF QueuedCall
  <2> HIDE DEF d
  <2>3. ASSUME NEW a \in Going(call', t), a \notin Going(KPruned(c), t)
        PROVE  u = t /\ a = <<KSlot(c), cnt[t] + 1>>
    <3>1. a \in CallSlots \X (1 .. MaxReq) /\ call'[a[1]].req = <<t, a[2]>>
      BY <2>3 DEF Going
    <3>2. a[1] = KSlot(c)
      BY <2>1, <2>3, <3>1 DEF Going
    <3>3. <<u, cnt[u] + 1>> = <<t, a[2]>>
      BY <2>1, <2>2, <3>1, <3>2
    <3> QED
      BY <3>1, <3>2, <3>3
  <2> QED
    BY <1>1, <1>2, <2>3
<1>3. CASE Refused(c)
  BY <1>1, <1>3 DEF Refused
<1>4. CASE Leaves(u, c)
  BY <1>4 DEF Leaves
<1> QED
  BY <1>2, <1>3, <1>4

\* What an execution leaves of the calls, unless it sleeps again at once.
Gives(t) ==
    IF Used(t) THEN {AbandonedBy({t})} \cup
                    {c \in {KPolled(LastOp(t).id)} : KPoll(LastOp(t).id) # "TIMEOUT"}
               ELSE {AbandonedBy(Stale)}

\* An execution that goes on gives up the call it waited for; it drops histories of
\* others only if it is the first.
LEMMA ExecuteGives ==
    ASSUME SrvTyped, NEW t \in Users, NEW y, Execute(t, y)
    PROVE  /\ \/ UNCHANGED <<call, hist, cnt>>
              \/ \E c \in Gives(t) : Begins(t, c) \/ Refused(c) \/ Leaves(t, c)
           /\ Used(t) => \A u \in Threads : u # t => hist'[u] = hist[u]
<1> DEFINE a == AbandonedBy(Stale)
           b == AbandonedBy({t})
           d == KPolled(LastOp(t).id)
           h1 == [hist EXCEPT ![t].ops = <<>>]
           Same == \A u \in Threads : u # t => hist'[u] = hist[u]
<1>1. /\ ~Used(t) => a \in Gives(t)
      /\ Used(t) => b \in Gives(t) /\ (KPoll(LastOp(t).id) # "TIMEOUT" => d \in Gives(t))
  BY DEF Gives
<1>2. \A c, h, k, at : NewOp(t, y, c, h, k, at) /\ cnt[t] < MaxReq => Begins(t, c)
  BY DEF NewOp, Begins
<1>3. \A c, h, st, done : NoServer(t, y, c, h, st, done) => Refused(c)
  BY DEF NoServer, Refused
<1>4. \A c, st, done : Ends(t, y, c, st, done) => Leaves(t, c)
  BY DEF Ends, Leaves
<1>5. hist \in [Threads -> HistRec]
  BY DEF SrvTyped
<1>6. \A h : h \in {hist, h1} => \A u \in Threads : u # t => h[u] = hist[u]
  BY <1>5
<1>7. ASSUME NEW h \in {hist, h1},
             \/ \E c, k, at : NewOp(t, y, c, h, k, at)
             \/ \E c, st, done : NoServer(t, y, c, h, st, done)
      PROVE  Same
  <2>1. \A x : \A u \in Threads : u # t => [h EXCEPT ![t].ops = x][u] = h[u]
    BY <1>5
  <2>2. \A u \in Threads : u # t => Drop(h, {t})[u] = h[u]
    BY DEF Drop
  <2>3. ASSUME NEW c, NEW k, NEW at, NewOp(t, y, c, h, k, at) PROVE Same
    <3> DEFINE x == Append(h[t].ops, [id |-> KCallId(c), pos_before |-> at,
                                      create |-> Flags(y, NotedMode(y)), left |-> SrvTimeout])
    <3>1. hist' = [h EXCEPT ![t].ops = x]
      BY <2>3 DEF NewOp
    <3> HIDE DEF x
    <3> QED
      BY <1>6, <2>1, <3>1
  <2>4. ASSUME NEW c, NEW st, NEW done, NoServer(t, y, c, h, st, done) PROVE Same
    BY <1>6, <2>2, <2>4 DEF NoServer
  <2> QED
    BY <1>7, <2>3, <2>4
<1>8. ASSUME NEW c, NEW st, NEW done, Ends(t, y, c, st, done) PROVE Same
  BY <1>8 DEF Ends, Drop
<1> HIDE DEF a, b, d, h1, Same
<1>9. CASE FirstExecution(t, y)
  <2>1. \/ NewOp(t, y, a, Drop(hist, Stale), 1, pos[t])
        \/ NoServer(t, y, a, Drop(hist, Stale), pos[t], 0)
        \/ call' = a /\ UNCHANGED <<ep, genc, sleep, cnt, sent>>
    BY <1>9 DEF FirstExecution, a
  <2>2. cnt[t] < MaxReq /\ ~Used(t)
    BY <1>9 DEF FirstExecution
  <2>3. call' = a /\ UNCHANGED <<ep, genc, sleep, cnt, sent>> => Leaves(t, a)
    BY DEF Leaves
  <2> QED
    BY <1>1, <1>2, <1>3, <2>1, <2>2, <2>3
<1>10. CASE Used(t) /\ StartOver(t, y)
  <2>1. /\ cnt[t] < MaxReq /\ Used(t)
        /\ \/ NewOp(t, y, b, h1, 1, pos[t])
           \/ NoServer(t, y, b, h1, pos[t], 0)
    BY <1>10 DEF StartOver, b, h1
  <2> QED
    BY <1>1, <1>2, <1>3, <1>7, <2>1 DEF Same
<1>11. CASE Replay(t, y)
  <2>1. \/ UNCHANGED <<call, hist, cnt>>
        \/ \E st, done : Ends(t, y, b, st, done)
        \/ KPoll(LastOp(t).id) # "TIMEOUT" /\ \E st, done : Ends(t, y, d, st, done)
        \/ /\ KPoll(LastOp(t).id) # "TIMEOUT" /\ cnt[t] < MaxReq
           /\ \E k, at : NewOp(t, y, d, hist, k, at)
        \/ KPoll(LastOp(t).id) # "TIMEOUT" /\ \E st, k : NoServer(t, y, d, hist, st, k)
    BY <1>11 DEF Replay, b, d
  <2>2. Used(t)
    BY <1>11 DEF Replay
  <2>3. Same
    BY <1>7, <1>8, <2>1 DEF Same
  <2> QED
    BY <1>1, <1>2, <1>3, <1>4, <2>1, <2>2, <2>3 DEF Same
<1> QED
  BY <1>9, <1>10, <1>11 DEF Execute, Same

\* So no call of the thread that goes on is left.
LEMMA GivesAllUp ==
    ASSUME TypeOK, SrvTyped, OwnCalls, NEW t \in Users, Live(t), OnlyOwn(t), NEW c \in Gives(t)
    PROVE  Going(c, t) = {}
<1>1. t \in Threads /\ c \in Left(t)
  BY SrvConstants DEF Gives, Left
<1>2. Going(c, t) \subseteq Going(call, t)
  BY <1>1, LeftGoing
<1>3. CASE ~Used(t)
  BY <1>2, <1>3 DEF OnlyOwn
<1>4. CASE Used(t)
  <2> DEFINE s == LastOp(t).id[2]
  <2>1. call_from_id(LastOp(t).id, call) /\ s \in CallSlots
    BY <1>4 DEF OwnCalls, Mine, call_from_id
  <2>2. Going(c, t) \subseteq {<<s, cnt[t]>>}
    BY <1>2, <1>4 DEF OnlyOwn
  <2>3. CASE c = AbandonedBy({t})
    <3>1. <<s, cnt[t]>> \notin Going(c, t)
      BY <1>1, <1>4, <2>1, <2>3, AbandonGoing, FS_Singleton
    <3> QED
      BY <2>2, <3>1
  <2>4. CASE c = KPolled(LastOp(t).id) /\ KPoll(LastOp(t).id) # "TIMEOUT"
    <3>1. c = [call EXCEPT ![s] = FreeCall]
      BY <2>1, <2>4 DEF KPolled, KPoll
    <3>2. c[s] = FreeCall
      BY <2>1, <3>1 DEF TypeOK
    <3>3. FreeCall.req # <<t, cnt[t]>>
      BY DEF FreeCall, NoReq
    <3>4. <<s, cnt[t]>> \notin Going(c, t)
      BY <3>2, <3>3 DEF Going
    <3> QED
      BY <2>2, <3>4
  <2> QED
    BY <1>4, <2>3, <2>4 DEF Gives
<1> QED
  BY <1>3, <1>4

\* An execution leaves every live thread with no call but the one it waits for.
LEMMA ExecuteOnly ==
    ASSUME TypeOK, SrvTyped, OwnCalls, OwnCalls', NEW t \in Users, NEW y \in Syscalls,
           Executes(t, y), NEW u \in Users, Live(u), OnlyOwn(u)
    PROVE  OnlyOwn(u)'
<1>1. t \in Threads /\ u \in Threads /\ Live(t) /\ Execute(t, y)
  BY SrvConstants DEF Executes, Running, Live
<1>2. Others(t) /\ (FirstCase(t, y) \/ OverCase(t, y) \/ ReplayCase(t, y)) /\ pstate' = pstate
  BY <1>1, ExecuteIs DEF Execute
<1>3. /\ \/ UNCHANGED <<call, hist, cnt>>
         \/ \E c \in Gives(t) : Begins(t, c) \/ Refused(c) \/ Leaves(t, c)
      /\ Used(t) => \A v \in Threads : v # t => hist'[v] = hist[v]
  BY <1>1, ExecuteGives
<1>4. CASE UNCHANGED <<call, hist, cnt>>
  BY <1>4 DEF OnlyOwn, Going, Used, LastOp
<1>5. ASSUME NEW c \in Gives(t), Begins(t, c) \/ Refused(c) \/ Leaves(t, c)
      PROVE  OnlyOwn(u)'
  <2>1. c \in Left(t) /\ c \in [CallSlots -> CallRec]
    BY <1>1, LeftType DEF Gives, Left
  <2>2. Going(call', u) \subseteq
           Going(c, u) \cup IF Begins(t, c) /\ t = u THEN {<<KSlot(c), cnt[u] + 1>>} ELSE {}
    BY <1>1, <1>5, <2>1, BeginsGoing
  <2>3. CASE u = t
    <3>1. Going(c, u) = {}
      BY <1>1, <2>3, GivesAllUp
    <3>2. CASE ~Begins(t, c)
      BY <2>2, <3>1, <3>2 DEF OnlyOwn, Going
    <3>3. CASE Begins(t, c)
      <4>1. cnt'[t] = cnt[t] + 1 /\ cnt[t] \in Nat /\ cnt[t] + 1 \in 1 .. MaxReq
        BY <1>1, <3>3, IpcConstants DEF Begins, TypeOK
      <4>2. Used(t)'
        <5>1. ASSUME NEW cc, NEW ops, NEW k, NEW at, Asks(t, y, cc, ops, k, at) PROVE Used(t)'
          <6>1. hist'[t].ops = Append(ops, [id |-> KCallId(cc), pos_before |-> at,
                                   create |-> Flags(y, NotedMode(y)), left |-> SrvTimeout])
            BY <5>1 DEF Asks
          <6> QED
            BY <6>1 DEF Used
        <5>2. cnt' # cnt
          BY <4>1
        <5>3. \E cc, ops, k, at : Asks(t, y, cc, ops, k, at)
          BY <1>1, <5>2, ExecuteEnds DEF Sleeps
        <5> QED
          BY <5>1, <5>3
      <4>3. Mine(call', t, cnt'[t], LastOp(t)'.id)
        BY <1>1, <1>2, <4>2 DEF OwnCalls, Live
      <4>4. <<LastOp(t)'.id[2], cnt'[t]>> \in Going(call', t)
        BY <4>1, <4>3 DEF Mine, Going, call_from_id
      <4>5. LastOp(t)'.id[2] = KSlot(c)
        BY <2>2, <2>3, <3>1, <4>4
      <4>6. Going(call', t) \subseteq {<<LastOp(t)'.id[2], cnt'[t]>>}
        BY <2>2, <2>3, <3>1, <3>3, <4>1, <4>5
      <4> QED
        BY <2>3, <4>2, <4>6 DEF OnlyOwn, Going
    <3> QED
      BY <3>2, <3>3
  <2>4. CASE u # t
    <3>1. Going(call', u) \subseteq Going(call, u)
      BY <1>1, <2>1, <2>2, <2>4, LeftGoing
    <3>2. cnt'[u] = cnt[u]
      BY <1>1, <1>2, <2>4 DEF Others
    <3>3. CASE hist'[u] = hist[u]
      BY <3>1, <3>2, <3>3 DEF OnlyOwn, Going, Used, LastOp
    <3>4. CASE hist'[u] # hist[u]
      <4>1. ~Used(t) /\ u \in Stale /\ Used(u)
        BY <1>1, <1>2, <1>3, <2>4, <3>4 DEF Others, Stale
      <4>2. c = AbandonedBy(Stale) /\ Stale \subseteq Threads /\ IsFiniteSet(Stale)
        <5>1. Stale \subseteq Busy
          BY DEF Stale, Busy
        <5> QED
          BY <4>1, <5>1, FS_Subset DEF Gives, SrvTyped, Stale
      <4>3. call_from_id(LastOp(u).id, call)
        BY <4>1 DEF OwnCalls, Mine
      <4>4. <<LastOp(u).id[2], cnt[u]>> \notin Going(c, u)
        BY <4>1, <4>2, <4>3, AbandonGoing
      <4>5. Going(call', u) \subseteq Going(c, u) /\ Going(c, u) \subseteq Going(call, u)
        BY <1>1, <2>1, <2>2, <2>4, LeftGoing
      <4>6. Going(call', u) = {}
        BY <4>1, <4>4, <4>5 DEF OnlyOwn
      <4> QED
        BY <4>6 DEF OnlyOwn, Going
    <3> QED
      BY <3>3, <3>4
  <2> QED
    BY <2>3, <2>4
<1> QED
  BY <1>3, <1>4, <1>5

\* RECV hands out a call that was not given up; the others stay or go.
LEMMA RecvGoing ==
    ASSUME TypeOK, NEW h \in Handles, NEW t
    PROVE  /\ Going(Scanned(h), t) \subseteq Going(call, t)
           /\ ~Drained(h) =>
                /\ Scanned(h)[NextSlot(h)].state # "ABANDONED"
                /\ Going([Scanned(h) EXCEPT ![NextSlot(h)].state = "SERVING"], t)
                      \subseteq Going(call, t)
<1> DEFINE q == Queue(h)
           n == Skips(q)
           C == Scanned(h)
<1>1. /\ h[2] \in EpSlots /\ C \in [CallSlots -> CallRec]
      /\ ~Drained(h) => NextSlot(h) \in CallSlots
  BY RecvParts
<1>2. q \in Seq(CallSlots)
  BY <1>1 DEF TypeOK, EndpointRec, Queue
<1>3. \A s \in CallSlots : C[s] = IF \E k \in 1 .. n : q[k] = s THEN FreeCall ELSE call[s]
  BY DEF Scanned, AfterSkips
<1>4. FreeCall.state # "ABANDONED" /\ \A i : FreeCall.req # <<t, i>>
  BY DEF FreeCall, NoReq
<1>5. Going(C, t) \subseteq Going(call, t)
  BY <1>3, <1>4 DEF Going
<1>6. ASSUME ~Drained(h) PROVE C[NextSlot(h)].state # "ABANDONED"
  <2>1. n \in 0 .. Len(q) /\ n # Len(q) /\ Len(q) \in Nat
    BY <1>2, <1>6, SkipsInQueue, LenProperties DEF Drained
  <2>2. ~Skipped(q, n + 1)
    BY <1>2, <2>1, SkipsInQueue
  <2>3. NextSlot(h) = q[n + 1]
    BY DEF NextSlot
  <2>4. \A j \in 1 .. (n + 1) - 1 : j \in 1 .. n
    BY <2>1
  <2> HIDE DEF n, q, C
  <2> QED
    BY <1>1, <1>3, <1>4, <1>6, <2>2, <2>3, <2>4 DEF Skipped
<1>7. ASSUME ~Drained(h), NEW a \in Going([C EXCEPT ![NextSlot(h)].state = "SERVING"], t)
      PROVE  a \in Going(C, t)
  <2> DEFINE D == [C EXCEPT ![NextSlot(h)].state = "SERVING"]
  <2>1. a \in CallSlots \X (1 .. MaxReq) /\ D[a[1]].req = <<t, a[2]>> /\ D[a[1]].state # "ABANDONED"
    BY <1>7 DEF Going
  <2>2. D[a[1]].req = C[a[1]].req /\ (a[1] # NextSlot(h) => D[a[1]] = C[a[1]])
    BY <1>1, <2>1 DEF CallRec
  <2> HIDE DEF D, C
  <2>3. C[a[1]].state # "ABANDONED"
    BY <1>6, <1>7, <2>1, <2>2
  <2> QED
    BY <2>1, <2>2, <2>3 DEF Going
<1> QED
  BY <1>5, <1>6, <1>7

\* A reply answers a call that goes on, or frees one that does not.
LEMMA ReplyGoing ==
    ASSUME TypeOK, NEW u, NEW m, do_reply(u, m), NEW t
    PROVE  Going(call', t) \subseteq Going(call, t)
<1>1. CASE CanAnswer(m) /\ call' = [call EXCEPT ![m.id[2]].state = "DONE", ![m.id[2]].resp = m.req]
  <2> DEFINE s == m.id[2]
             c == [call[s] EXCEPT !.state = "DONE", !.resp = m.req]
  <2>1. s \in CallSlots /\ call[s] \in CallRec /\ call[s].state = "SERVING"
    BY <1>1 DEF CanAnswer, Answers, call_from_id, TypeOK
  <2>2. call' = [call EXCEPT ![s] = c] /\ c.req = call[s].req
    BY <1>1, <2>1 DEF TypeOK, CallRec
  <2> HIDE DEF c
  <2> QED
    BY <2>1, <2>2 DEF TypeOK, Going
<1>2. CASE CanDrop(m) /\ call' = [call EXCEPT ![m.id[2]] = FreeCall]
  <2>1. \A i : FreeCall.req # <<t, i>>
    BY DEF FreeCall, NoReq
  <2> QED
    BY <1>2, <2>1 DEF TypeOK, Going
<1>3. CASE call' = call
  BY <1>3
<1> QED
  BY <1>1, <1>2, <1>3 DEF do_reply

\* The steps after which a thread waits for the same call as before.
LEMMA OnlyKept ==
    ASSUME NEW t, OnlyOwn(t), Going(call', t) \subseteq Going(call, t), cnt'[t] = cnt[t],
           Used(t) => Used(t)' /\ LastOp(t)'.id[2] = LastOp(t).id[2]
    PROVE  OnlyOwn(t)'
BY DEF OnlyOwn, Going

\* Every step leaves a live thread with no call but the one it waits for.
LEMMA OnlyStep ==
    ASSUME IInv, SrvTyped, OwnCalls, OwnCalls', [SrvNext]_allVars,
           NEW u \in Users, Live(u), OnlyOwn(u)
    PROVE  OnlyOwn(u)'
<1>0. TypeOK /\ u \in Threads
  BY SrvConstants DEF IInv
<1>1. ASSUME UNCHANGED <<hist, cnt>>, Going(call', u) \subseteq Going(call, u) PROVE OnlyOwn(u)'
  BY <1>1, OnlyKept DEF Used, LastOp
<1>2. UNCHANGED call => Going(call', u) \subseteq Going(call, u)
  OBVIOUS
<1>3. ASSUME NEW P, call' = GoneCalls(P, call) PROVE Going(call', u) \subseteq Going(call, u)
  BY <1>0, <1>3, GoneGoing DEF TypeOK
<1>4. ASSUME NEW t \in Users, NEW y \in Syscalls, Executes(t, y) PROVE OnlyOwn(u)'
  BY <1>0, <1>4, ExecuteOnly
<1>5. ASSUME NEW t \in Threads \ Users, Serving(t) PROVE OnlyOwn(u)'
  <2>1. ASSUME do_create(t, Endpoint, "DAEMONS"), UNCHANGED srvVars PROVE OnlyOwn(u)'
    <3>1. call' = GoneCalls(DeadOwners, call) /\ UNCHANGED <<hist, cnt>>
      BY <2>1 DEF do_create, OnlyPrune, PrunedCall, GoneCall, srvVars
    <3> QED
      BY <1>1, <1>3, <3>1
  <2>2. ASSUME NEW h \in Handles, do_wait(t, h), UNCHANGED srvVars PROVE OnlyOwn(u)'
    <3>1. UNCHANGED <<hist, cnt, call>>
      BY <2>2 DEF do_wait, srvVars
    <3> QED
      BY <1>1, <1>2, <3>1
  <2>3. ASSUME NEW h \in Handles, do_recv(t, h, TRUE), UNCHANGED srvVars PROVE OnlyOwn(u)'
    <3>1. UNCHANGED <<hist, cnt>>
      BY <2>3 DEF do_recv, srvVars
    <3>2. \/ call' = Scanned(h)
          \/ ~Drained(h) /\ call' = [Scanned(h) EXCEPT ![NextSlot(h)].state = "SERVING"]
      BY <2>3 DEF do_recv, RecvEmpty, RecvDeliver
    <3>3. Going(call', u) \subseteq Going(call, u)
      BY <1>0, <3>2, RecvGoing
    <3> QED
      BY <1>1, <3>1, <3>3
  <2>4. ASSUME NEW m, NEW status, Serve(t, m, status) PROVE OnlyOwn(u)'
    <3>1. do_reply(t, m) /\ UNCHANGED <<hist, cnt>>
      BY <2>4 DEF Serve, do_reply
    <3>2. Going(call', u) \subseteq Going(call, u)
      BY <1>0, <3>1, ReplyGoing
    <3> QED
      BY <1>1, <3>1, <3>2
  <2> QED
    BY <1>5, <2>1, <2>2, <2>3, <2>4 DEF Serving
<1>6. ASSUME NEW t \in Threads, WakeUp(t) PROVE OnlyOwn(u)'
  BY <1>1, <1>2, <1>6 DEF WakeUp, Timeout, srvVars
<1>7. CASE Tick
  <2>1. hist' = [t \in Threads |-> Aged(hist[t])] /\ UNCHANGED <<cnt, call>>
    BY <1>7 DEF Tick, vars
  <2>2. hist[u] \in HistRec /\ hist'[u] = Aged(hist[u])
    BY <1>0, <2>1 DEF SrvTyped
  <2>3. Used(u) => Used(u)' /\ LastOp(u)'.id[2] = LastOp(u).id[2]
    BY <2>2, AgedType DEF Used, LastOp
  <2> QED
    BY <1>2, <2>1, <2>3, OnlyKept
<1>8. ASSUME NEW p \in Procs, Exit(p) PROVE OnlyOwn(u)'
  BY <1>1, <1>2, <1>8 DEF Exit, AuProcessExit
<1>9. ASSUME NEW p \in Procs, Reap(p) PROVE OnlyOwn(u)'
  <2>1. call' = GoneCalls({p}, call) /\ UNCHANGED <<hist, cnt>>
    BY <1>9 DEF Reap, AuProcessClean, AuIpcProcessGone, GoneCall, srvVars
  <2> QED
    BY <1>1, <1>3, <2>1
<1>10. CASE UNCHANGED allVars
  BY <1>1, <1>2, <1>10 DEF allVars, vars, srvVars
<1> QED
  BY <1>0, <1>4, <1>5, <1>6, <1>7, <1>8, <1>9, <1>10, StepCases

\* Servers hold one request among them.
LEMMA OneHeldStep ==
    ASSUME MaxServe = 1, IInv, SrvTyped, AnswerOK, OneHeld, [SrvNext]_allVars
    PROVE  OneHeld'
<1>0. TypeOK /\ NamesUnique
  BY IInvImplies DEF IInv
<1>1. ASSUME \A p \in Procs : rcvd'[p] \subseteq rcvd[p] PROVE OneHeld'
  BY <1>1 DEF OneHeld
<1>2. UNCHANGED rcvd => OneHeld'
  BY <1>1
<1>3. ASSUME NEW t \in Users, NEW y \in Syscalls, Executes(t, y) PROVE OneHeld'
  BY <1>2, <1>3 DEF Executes, Execute
<1>4. ASSUME NEW t \in Threads \ Users, Serving(t) PROVE OneHeld'
  <2>1. CASE do_create(t, Endpoint, "DAEMONS")
    BY <1>2, <2>1 DEF do_create, OnlyPrune
  <2>2. ASSUME NEW h \in Handles, do_wait(t, h) PROVE OneHeld'
    BY <1>2, <2>2 DEF do_wait
  <2>3. ASSUME NEW h \in Handles, do_recv(t, h, TRUE) PROVE OneHeld'
    <3>1. \A r \in Procs : rcvd[r] = {}
      BY <1>0, <2>3, NoneHeld DEF do_recv
    <3>2. rcvd' = rcvd \/ rcvd' = [rcvd EXCEPT ![ProcOf[t]] = @ \cup {Message(h)}]
      BY <2>3 DEF do_recv, RecvEmpty, RecvDeliver
    <3>3. ASSUME NEW r \in Procs PROVE rcvd'[r] \subseteq {Message(h)} /\ (rcvd'[r] # {} => r = ProcOf[t])
      BY <1>0, <3>1, <3>2 DEF TypeOK
    <3> QED
      BY <3>3 DEF OneHeld
  <2>4. ASSUME NEW m, NEW status, Serve(t, m, status) PROVE OneHeld'
    <3>1. rcvd' = [rcvd EXCEPT ![ProcOf[t]] = @ \ {m}]
      BY <2>4 DEF Serve, do_reply
    <3> QED
      BY <1>0, <1>1, <3>1 DEF TypeOK
  <2> QED
    BY <1>4, <2>1, <2>2, <2>3, <2>4 DEF Serving
<1>5. ASSUME NEW t \in Threads, WakeUp(t) PROVE OneHeld'
  BY <1>2, <1>5 DEF WakeUp, Timeout
<1>6. CASE Tick \/ UNCHANGED allVars
  BY <1>2, <1>6 DEF Tick, vars, allVars
<1>7. ASSUME NEW p \in Procs, Exit(p) PROVE OneHeld'
  <2>1. rcvd' = [rcvd EXCEPT ![p] = {}]
    BY <1>7 DEF Exit, AuProcessExit
  <2> QED
    BY <1>0, <1>1, <2>1 DEF TypeOK
<1>8. ASSUME NEW p \in Procs, Reap(p) PROVE OneHeld'
  BY <1>2, <1>8 DEF Reap, AuProcessClean
<1> QED
  BY <1>0, <1>3, <1>4, <1>5, <1>6, <1>7, <1>8, StepCases

\* A server that writes a page keeps the others and fills up to it.
LEMMA WrittenIs ==
    ASSUME NEW d \in Seq(Cells), NEW r, sent[r].at \in Nat,
           sent[r].sys.nr \in Nat, sent[r].chunk \in Nat
    PROVE  /\ Written(d, r) \in Seq(Cells)
           /\ sent[r].at + 1 <= Len(Written(d, r))
           /\ Written(d, r)[sent[r].at + 1] = <<sent[r].sys.nr, sent[r].chunk>>
           /\ \A i \in 1 .. Len(d) : /\ i <= Len(Written(d, r))
                                     /\ i # sent[r].at + 1 => Written(d, r)[i] = d[i]
<1> DEFINE a == sent[r].at
           x == <<sent[r].sys.nr, sent[r].chunk>>
           n == IF Len(d) > a THEN Len(d) ELSE a + 1
           f(i) == IF i = a + 1 THEN x ELSE IF i <= Len(d) THEN d[i] ELSE None
           w == [i \in 1 .. n |-> f(i)]
<1>1. Len(d) \in Nat /\ a \in Nat
  BY LenProperties
<1>2. n \in Nat /\ a + 1 \in 1 .. n /\ \A i \in 1 .. Len(d) : i \in 1 .. n
  BY <1>1
<1>3. \A i \in 1 .. n : f(i) \in Cells
  <2>1. x \in Cells /\ None \in Cells
    BY DEF Cells
  <2>2. \A i \in 1 .. Len(d) : d[i] \in Cells
    BY ElementOfSeq
  <2> HIDE DEF x, Cells
  <2> QED
    BY <1>1, <1>2, <2>1, <2>2
<1>4. Written(d, r) = w
  BY DEF Written
<1> HIDE DEF n
<1>5. w \in Seq(Cells) /\ Len(w) = n
  <2> HIDE DEF f, Cells
  <2>1. w \in [1 .. n -> Cells]
    BY <1>3
  <2>2. w \in Seq(Cells) /\ DOMAIN w = 1 .. n
    BY <1>2, <2>1, SeqDef
  <2>3. Len(w) \in Nat /\ DOMAIN w = 1 .. Len(w)
    BY <2>2, LenProperties
  <2>4. Len(w) = n
    BY <1>2, <2>2, <2>3
  <2> QED
    BY <2>2, <2>4
<1>6. w[a + 1] = x
  BY <1>2
<1>7. \A i \in 1 .. Len(d) : i # a + 1 => w[i] = d[i]
  BY <1>2
<1> HIDE DEF w, a, x
<1>8. \A i \in 1 .. Len(d) : i <= Len(w)
  BY <1>2, <1>5
<1>9. a + 1 <= Len(w)
  BY <1>1, <1>2, <1>5
<1> QED
  BY <1>4, <1>5, <1>6, <1>7, <1>8, <1>9 DEF a, x

\* A thread for which nothing is done: its own request may come to a server.
LEMMA Bystander ==
    ASSUME SrvTyped, NEW t \in Users, t \in Threads, Live(t), Placed(t), Writes(t), cnt[t] \in Nat,
           sys'[t] = sys[t], last'[t] = last[t], cnt'[t] = cnt[t],
           Reported(t) => pos'[t] >= End(t),
           \/ hist'[t].ops = <<>>
           \/ /\ Used(t) /\ Len(hist'[t].ops) = Len(hist[t].ops)
              /\ \A k \in 1 .. Len(hist[t].ops) :
                    /\ hist'[t].ops[k].pos_before = hist[t].ops[k].pos_before
                    /\ hist'[t].ops[k].id = hist[t].ops[k].id,
           \A i \in 1 .. cnt[t] : sent'[<<t, i>>] = sent[<<t, i>>],
           \A p \in Procs : disk'[p][t] = disk[p][t],
           Held(t)' \subseteq Held(t) \/ (Used(t)' /\ Held(t)' \subseteq {cnt[t]}),
           Used(t)' => (call'[LastOp(t)'.id[2]].state = "DONE" =>
                            \/ call[LastOp(t)'.id[2]].state = "DONE" /\ Held(t)' \subseteq Held(t)
                            \/ Held(t)' = {})
    PROVE  Writes(t)'
<1> DEFINE k == Len(hist[t].ops)
           Here(i, x) == \E p \in Procs : i <= Len(disk'[p][t]) /\ disk'[p][t][i] = x
<1>1. ASSUME NEW i, NEW x PROVE Here(i, x) <=> Stored(t, i, x)
  BY DEF Stored
<1> HIDE DEF Here
<1>2. Used(t)' => /\ Used(t) /\ Len(hist'[t].ops) = k /\ k \in 1 .. k
                  /\ LastOp(t)'.id = LastOp(t).id
                  /\ LastOp(t)'.pos_before = LastOp(t).pos_before
                  /\ cnt[t] \in 1 .. cnt[t] /\ Newest(t)' = Newest(t)
  <2> SUFFICES ASSUME Used(t)' PROVE
                  /\ Used(t) /\ Len(hist'[t].ops) = k /\ k \in 1 .. k
                  /\ LastOp(t)'.id = LastOp(t).id
                  /\ LastOp(t)'.pos_before = LastOp(t).pos_before
                  /\ cnt[t] \in 1 .. cnt[t] /\ Newest(t)' = Newest(t)
    OBVIOUS
  <2>1. Used(t) /\ Len(hist'[t].ops) = k
    BY DEF Used
  <2>2. k \in 1 .. k
    BY <2>1, LastOpType
  <2>3. cnt[t] # 0
    BY <2>1 DEF Placed
  <2>4. cnt[t] \in 1 .. cnt[t]
    BY <2>3
  <2>5. /\ hist'[t].ops[k].pos_before = hist[t].ops[k].pos_before
        /\ hist'[t].ops[k].id = hist[t].ops[k].id
    BY <2>2 DEF Used
  <2> QED
    BY <2>1, <2>2, <2>4, <2>5 DEF LastOp, Newest
<1>3. Held(t)' \subseteq 1 .. cnt'[t]
  BY <1>2 DEF Writes
<1>4. \A p \in Procs : disk'[p][t] \in Seq(Cells)
  BY DEF Writes
<1>5. Asking(t)'
  <2> SUFFICES ASSUME Used(t)' PROVE
        /\ Newest(t)'.chunk = k /\ Newest(t)'.at = LastOp(t)'.pos_before
        /\ call'[LastOp(t)'.id[2]].state = "DONE" => Held(t)' = {}
        /\ k > 1 \/ Newest(t)'.status # "none" => Held(t)' \subseteq {cnt'[t]}
        /\ sys'[t].op = "write" =>
              /\ \A j \in 1 .. k - 1 : Here(hist'[t].ops[j].pos_before + 1, <<sys'[t].nr, j>>)
              /\ Newest(t)'.status = "ok" =>
                    Here(LastOp(t)'.pos_before + 1, <<sys'[t].nr, k>>)
    BY <1>2 DEF Asking, Stored, Here
  <2>1. /\ Newest(t).chunk = k /\ Newest(t).at = LastOp(t).pos_before
        /\ call[LastOp(t).id[2]].state = "DONE" => Held(t) = {}
        /\ k > 1 \/ Newest(t).status # "none" => Held(t) \subseteq {cnt[t]}
        /\ sys[t].op = "write" =>
              /\ \A j \in 1 .. k - 1 : Stored(t, hist[t].ops[j].pos_before + 1, <<sys[t].nr, j>>)
              /\ Newest(t).status = "ok" =>
                    Stored(t, LastOp(t).pos_before + 1, <<sys[t].nr, k>>)
    BY <1>2 DEF Writes, Asking
  <2>2. call'[LastOp(t)'.id[2]].state = "DONE" => Held(t)' = {}
    BY <1>2, <2>1
  <2>3. \A j \in 1 .. k - 1 : hist'[t].ops[j].pos_before = hist[t].ops[j].pos_before
    <3>1. \A j \in 1 .. k - 1 : j \in 1 .. k
      BY <1>2
    <3> QED
      BY <3>1 DEF Used
  <2>4. sys'[t].op = "write" =>
          \A j \in 1 .. k - 1 : Here(hist'[t].ops[j].pos_before + 1, <<sys'[t].nr, j>>)
    BY <1>1, <2>1, <2>3
  <2>5. sys'[t].op = "write" /\ Newest(t)'.status = "ok" =>
          Here(LastOp(t)'.pos_before + 1, <<sys'[t].nr, k>>)
    BY <1>1, <1>2, <2>1
  <2> QED
    BY <1>2, <2>1, <2>2, <2>4, <2>5
<1>6. Told(t)'
  <2> SUFFICES ASSUME Reported(t)' PROVE
        /\ last'[t].start \in Nat /\ last'[t].done \in Nat
        /\ \A j \in 1 .. last'[t].done : Here(last'[t].start + j, <<last'[t].nr, j>>)
        /\ last'[t].done > 0 => \A i \in Held(t)' : Spares(t, i, End(t))'
        /\ pos'[t] >= End(t)'
        /\ \A j \in 1 .. Len(hist'[t].ops) : hist'[t].ops[j].pos_before >= End(t)'
    BY DEF Told, Stored, Here
  <2>1. Reported(t) /\ End(t)' = End(t)
    BY DEF Reported, Live, End
  <2>2. /\ last[t].start \in Nat /\ last[t].done \in Nat
        /\ \A j \in 1 .. last[t].done : Stored(t, last[t].start + j, <<last[t].nr, j>>)
        /\ last[t].done > 0 => \A i \in Held(t) : Spares(t, i, End(t))
        /\ \A j \in 1 .. k : hist[t].ops[j].pos_before >= End(t)
    BY <2>1 DEF Writes, Told
  <2>3. \A j \in 1 .. last'[t].done : Here(last'[t].start + j, <<last'[t].nr, j>>)
    BY <1>1, <2>2
  <2>4. \A j \in 1 .. Len(hist'[t].ops) : hist'[t].ops[j].pos_before >= End(t)'
    <3>1. CASE Used(t)'
      BY <1>2, <2>1, <2>2, <3>1 DEF Used
    <3>2. CASE ~Used(t)'
      <4>1. Len(hist'[t].ops) = 0
        BY <3>2, EmptySeq DEF Used
      <4> QED
        BY <4>1
    <3> QED
      BY <3>1, <3>2
  <2>5. ASSUME last[t].done > 0, NEW i \in Held(t)' PROVE Spares(t, i, End(t))'
    <3>1. i \in 1 .. cnt[t] => (Spares(t, i, End(t)) => Spares(t, i, End(t))')
      BY <2>1 DEF Spares
    <3>2. i \in 1 .. cnt[t]
      BY <1>3, <2>5
    <3>3. CASE i \in Held(t)
      BY <2>2, <2>5, <3>1, <3>2, <3>3
    <3>4. CASE Used(t)' /\ i = cnt[t]
      <4>1. Newest(t).sys = sys[t] /\ sys[t] # None /\ Newest(t).at = LastOp(t).pos_before
        BY <1>2, <3>4 DEF Placed, Newest, Writes, Asking
      <4>2. sys[t].op # "remove"
        BY <2>1, <4>1 DEF Reported
      <4>3. LastOp(t).pos_before >= End(t)
        BY <1>2, <2>2, <3>4 DEF LastOp
      <4>4. Spares(t, i, End(t))
        BY <3>4, <4>1, <4>2, <4>3 DEF Spares, Newest
      <4> QED
        BY <3>1, <3>2, <4>4
    <3> QED
      BY <2>5, <3>3, <3>4
  <2> QED
    BY <2>1, <2>2, <2>3, <2>4, <2>5
<1> QED
  BY <1>3, <1>4, <1>5, <1>6 DEF Writes

\* A thread asks once more: what it was told and what was answered stay stored.
LEMMA AsksWrites ==
    ASSUME TypeOK, SrvTyped, NEW t \in Users, Live(t), Writes(t), NEW y \in Syscalls,
           sys[t] = y \/ sys[t] = None, rcvd' = rcvd, disk' = disk,
           NEW c \in [CallSlots -> CallRec], NEW ops \in Seq(Ops), NEW n, NEW at,
           Asks(t, y, c, ops, n, at), n = Len(ops) + 1,
           Len(ops) # 0 => ops = hist[t].ops /\ Held(t) = {},
           y.op = "write" => \A j \in 1 .. Len(ops) :
                                Stored(t, ops[j].pos_before + 1, <<y.nr, j>>),
           Reported(t) => pos'[t] >= End(t) /\ at >= End(t)
    PROVE  Writes(t)'
<1> DEFINE q == hist'[t].ops
<1>0. t \in Threads /\ Held(t)' = Held(t) /\ Len(ops) \in Nat
  BY SrvConstants, LenProperties DEF Held
<1>1. /\ Len(q) = n /\ q # <<>> /\ q[n].id = KCallId(c) /\ q[n].pos_before = at
      /\ \A j \in 1 .. Len(ops) : q[j] = ops[j]
  <2>1. /\ Len(q) = Len(ops) + 1 /\ q # <<>> /\ q[Len(q)].id = KCallId(c)
        /\ q[Len(q)].pos_before = at /\ \A j \in 1 .. Len(ops) : q[j] = ops[j]
    BY AsksOps DEF Asks
  <2> QED
    BY <2>1
<1>2. /\ cnt'[t] = cnt[t] + 1 /\ cnt[t] \in Nat /\ cnt[t] + 1 \in 1 .. MaxReq
      /\ sent'[<<t, cnt[t] + 1>>] = [sys |-> y, chunk |-> n, at |-> at, status |-> "none"]
      /\ \A i \in 1 .. cnt[t] : sent'[<<t, i>>] = sent[<<t, i>>]
  <2>1. /\ cnt'[t] = cnt[t] + 1 /\ cnt[t] \in Nat /\ cnt[t] + 1 \in 1 .. MaxReq
        /\ sent'[<<t, cnt[t] + 1>>] = [sys |-> y, chunk |-> n, at |-> at, status |-> "none"]
        /\ \A i \in 1 .. MaxReq : i # cnt[t] + 1 => sent'[<<t, i>>] = sent[<<t, i>>]
    BY <1>0, AsksSent
  <2>2. \A i \in 1 .. cnt[t] : i \in 1 .. MaxReq /\ i # cnt[t] + 1
    BY <2>1, IpcConstants
  <2> QED
    BY <2>1, <2>2
<1>3. sys'[t] = y /\ last' = last
  BY DEF Asks
<1>4. call'[KCallId(c)[2]].state = "QUEUED"
  <2>1. /\ KSlot(c) \in CallSlots /\ KPruned(c) \in [CallSlots -> CallRec]
        /\ call' = [KPruned(c) EXCEPT ![KSlot(c)] = QueuedCall(t, KEndpoint(Endpoint), KGen(c))]
    BY AdmittedIs DEF Asks, Begins, KCall
  <2> QED
    BY <2>1 DEF QueuedCall, KCallId, make_id
<1> HIDE DEF q
<1>5. Held(t)' \subseteq 1 .. cnt'[t] /\ \A p \in Procs : disk'[p][t] \in Seq(Cells)
  BY <1>0, <1>2 DEF Writes
<1>6. Asking(t)'
  <2>1. LastOp(t)' = q[n] /\ Newest(t)' = [sys |-> y, chunk |-> n, at |-> at, status |-> "none"]
    BY <1>1, <1>2 DEF LastOp, Newest, q
  <2>2. n > 1 => Held(t)' = {}
    BY <1>0
  <2>3. y.op = "write" => \A j \in 1 .. n - 1 : Stored(t, q[j].pos_before + 1, <<y.nr, j>>)
    BY <1>0, <1>1
  <2>4. Newest(t)'.status = "none" /\ Newest(t)'.chunk = n /\ Newest(t)'.at = at
    BY <2>1
  <2> QED
    BY <1>1, <1>3, <1>4, <2>1, <2>2, <2>3, <2>4 DEF Asking, Stored, q
<1>7. Told(t)'
  <2> SUFFICES ASSUME Reported(t)' PROVE
        /\ last[t].start \in Nat /\ last[t].done \in Nat
        /\ \A j \in 1 .. last[t].done : Stored(t, last[t].start + j, <<last[t].nr, j>>)
        /\ last[t].done > 0 => \A i \in Held(t) : Spares(t, i, End(t))'
        /\ pos'[t] >= End(t)
        /\ \A j \in 1 .. Len(q) : q[j].pos_before >= End(t)
    BY <1>0, <1>3 DEF Told, Stored, End, q
  <2>1. Reported(t)
    BY <1>3, SrvConstants DEF Reported, Live
  <2>2. /\ last[t].start \in Nat /\ last[t].done \in Nat
        /\ \A j \in 1 .. last[t].done : Stored(t, last[t].start + j, <<last[t].nr, j>>)
        /\ last[t].done > 0 => \A i \in Held(t) : Spares(t, i, End(t))
        /\ \A j \in 1 .. Len(hist[t].ops) : hist[t].ops[j].pos_before >= End(t)
    BY <2>1 DEF Writes, Told
  <2>3. \A i \in Held(t) : Spares(t, i, End(t)) => Spares(t, i, End(t))'
    <3>1. \A i \in Held(t) : sent'[<<t, i>>] = sent[<<t, i>>]
      BY <1>2 DEF Writes
    <3>2. End(t)' = End(t)
      BY <1>3 DEF End
    <3> QED
      BY <3>1, <3>2 DEF Spares
  <2>4. \A j \in 1 .. Len(q) : q[j].pos_before >= End(t)
    <3>1. at >= End(t)
      BY <2>1
    <3>2. \A j \in 1 .. Len(ops) : ops[j].pos_before >= End(t)
      BY <1>0, <2>2
    <3>3. \A j \in 1 .. Len(q) : j = n \/ j \in 1 .. Len(ops)
      BY <1>0, <1>1
    <3> QED
      BY <1>1, <3>1, <3>2, <3>3
  <2> QED
    BY <2>1, <2>2, <2>3, <2>4
<1> QED
  BY <1>5, <1>6, <1>7 DEF Writes

\* A syscall that returns: what a WriteFile says is stored, or it says nothing new.
LEMMA FinishesWrites ==
    ASSUME TypeOK, SrvTyped, NEW t \in Users, Live(t), Writes(t), NEW y \in Syscalls,
           sys[t] = y \/ sys[t] = None, rcvd' = rcvd, disk' = disk,
           NEW start, NEW done, Finishes(t, y, start, done),
           y.op = "write" =>
              /\ start \in Nat /\ done \in Nat /\ pos'[t] = start + done
              /\ \A j \in 1 .. done : Stored(t, start + j, <<y.nr, j>>)
              /\ done > 0 => \A i \in Held(t) : Spares(t, i, start + done),
           ~Moves(y) => pos'[t] = pos[t]
    PROVE  Writes(t)'
<1>0. t \in Threads /\ Held(t)' = Held(t) /\ pos[t] \in Nat
  BY SrvConstants DEF Held, SrvTyped
<1>1. hist'[t].ops = <<>> /\ sys'[t] = None /\ sent' = sent /\ cnt' = cnt
  BY <1>0 DEF Finishes, Returns, SrvTyped, NoHist
<1>2. last'[t] = IF Moves(y) THEN [op |-> y.op, nr |-> y.nr, start |-> start, done |-> done]
                 ELSE IF y.op = "remove" THEN None ELSE last[t]
  BY <1>0 DEF Finishes, Returns, SrvTyped, Moves
<1>3. Held(t)' \subseteq 1 .. cnt'[t] /\ \A p \in Procs : disk'[p][t] \in Seq(Cells)
  BY <1>0, <1>1 DEF Writes
<1>4. Asking(t)'
  BY <1>1 DEF Asking, Used
<1>5. Told(t)'
  <2> SUFFICES ASSUME Reported(t)' PROVE
        /\ last'[t].start \in Nat /\ last'[t].done \in Nat
        /\ \A j \in 1 .. last'[t].done : Stored(t, last'[t].start + j, <<last'[t].nr, j>>)
        /\ last'[t].done > 0 => \A i \in Held(t) : Spares(t, i, last'[t].start + last'[t].done)
        /\ pos'[t] >= last'[t].start + last'[t].done
    <3>1. Len(hist'[t].ops) = 0
      BY <1>1, EmptySeq
    <3>2. \A i, x : Stored(t, i, x) => \E p \in Procs : i <= Len(disk'[p][t]) /\ disk'[p][t][i] = x
      BY DEF Stored
    <3>3. End(t)' = last'[t].start + last'[t].done
      BY DEF End
    <3>4. \A i : Spares(t, i, last'[t].start + last'[t].done) => Spares(t, i, End(t))'
      BY <1>1, <3>3 DEF Spares
    <3>5. \A j \in 1 .. Len(hist'[t].ops) : hist'[t].ops[j].pos_before >= End(t)'
      BY <3>1
    <3> QED
      BY <1>0, <3>2, <3>3, <3>4, <3>5 DEF Told, Stored
  <2>1. CASE y.op = "write"
    <3>1. last'[t] = [op |-> y.op, nr |-> y.nr, start |-> start, done |-> done]
      BY <1>2, <2>1 DEF Moves
    <3>2. last'[t].start = start /\ last'[t].done = done /\ last'[t].nr = y.nr
      BY <3>1
    <3> QED
      BY <2>1, <3>2
  <2>2. CASE y.op = "read"
    BY <1>2, <2>2 DEF Moves, Reported
  <2>3. CASE ~Moves(y)
    <3>1. last'[t] = last[t] /\ y.op # "remove"
      BY <1>2, <2>3 DEF Reported
    <3>2. Reported(t)
      BY <3>1, SrvConstants DEF Reported, Live
    <3> QED
      BY <2>3, <3>1, <3>2 DEF Writes, Told, End
  <2> QED
    BY <2>1, <2>2, <2>3 DEF Moves
<1> QED
  BY <1>3, <1>4, <1>5 DEF Writes

\* The good answer of a WriteFile's operation: the page is stored, and no server
\* holds a request of the thread.
LEMMA GoodIsStored ==
    ASSUME TypeOK, SrvTyped, OwnCalls, AnswerOK, SentOK, NEW t \in Users, Live(t), Used(t),
           Placed(t), Writes(t), KPoll(LastOp(t).id) = "OK", Good(t)
    PROVE  /\ Held(t) = {}
           /\ sys[t].op = "write" =>
                 \A j \in 1 .. Len(hist[t].ops) :
                    Stored(t, hist[t].ops[j].pos_before + 1, <<sys[t].nr, j>>)
<1> DEFINE s == LastOp(t).id[2]
           k == Len(hist[t].ops)
<1>1. call_from_id(LastOp(t).id, call) /\ call[s].req = <<t, cnt[t]>>
  BY DEF OwnCalls, Mine
<1>2. s \in CallSlots /\ call[s].state = "DONE"
  BY <1>1 DEF KPoll, call_from_id
<1>3. Answer(t) = <<t, cnt[t]>>
  BY <1>1, <1>2 DEF AnswerOK, Answer
<1>4. cnt[t] \in 1 .. cnt[t] /\ k \in Nat \ {0}
  BY SrvConstants, LastOpType DEF Placed, TypeOK
<1>5. Newest(t).sys = sys[t] /\ (Newest(t).status = "end" => sys[t].op = "read")
  BY <1>4 DEF SentOK, Placed, Newest
<1>6. sys[t].op = "write" => Newest(t).status = "ok"
  BY <1>3, <1>5 DEF Good, Newest
<1>7. /\ Held(t) = {}
      /\ sys[t].op = "write" =>
            /\ \A j \in 1 .. k - 1 : Stored(t, hist[t].ops[j].pos_before + 1, <<sys[t].nr, j>>)
            /\ Stored(t, hist[t].ops[k].pos_before + 1, <<sys[t].nr, k>>)
  BY <1>2, <1>6 DEF Writes, Asking, LastOp
<1>8. \A j \in 1 .. k : j = k \/ j \in 1 .. k - 1
  BY <1>4
<1> HIDE DEF k
<1> QED
  BY <1>7, <1>8 DEF k

\* Executions of a syscall report what is stored.
LEMMA ExecuteWrites ==
    ASSUME IInv, SrvTyped, OwnCalls, AnswerOK, SentOK, NEW t \in Users, Live(t), Placed(t),
           Writes(t), NEW y \in Syscalls, Executes(t, y)
    PROVE  Writes(t)'
<1>0. /\ TypeOK /\ t \in Threads /\ Execute(t, y) /\ OneUnlessWrite(y)
      /\ sys[t] = y \/ sys[t] = None
  BY SrvConstants DEF IInv, Executes, Placed
<1>1. (FirstCase(t, y) \/ OverCase(t, y) \/ ReplayCase(t, y)) /\ rcvd' = rcvd /\ disk' = disk
  BY <1>0, ExecuteIs DEF Execute
<1>2. /\ ~Used(t) => AbandonedBy(Stale) \in [CallSlots -> CallRec]
      /\ Used(t) => /\ AbandonedBy({t}) \in [CallSlots -> CallRec]
                    /\ KPolled(LastOp(t).id) \in [CallSlots -> CallRec]
  BY <1>0, LeftType DEF Left
<1>3. pos[t] \in Nat /\ pos \in [Threads -> Nat] /\ y.n \in Nat \ {0}
  BY <1>0, SrvConstants DEF SrvTyped, Syscalls
<1>4. Reported(t) => pos[t] >= End(t)
  BY DEF Writes, Told
<1>5. ASSUME NEW c \in [CallSlots -> CallRec], NEW ops, ops = <<>>,
             NEW n, n = 1, Asks(t, y, c, ops, n, pos[t]), pos' = pos
      PROVE  Writes(t)'
  <2>1. ops \in Seq(Ops) /\ Len(ops) = 0 /\ n = Len(ops) + 1
    BY <1>5, EmptySeq
  <2>2. y.op = "write" => \A j \in 1 .. Len(ops) : Stored(t, ops[j].pos_before + 1, <<y.nr, j>>)
    BY <2>1
  <2>3. Reported(t) => pos'[t] >= End(t) /\ pos[t] >= End(t)
    BY <1>4, <1>5
  <2>4. Asks(t, y, c, ops, n, pos[t])
    BY <1>5
  <2> QED
    BY <1>0, <1>1, <2>1, <2>2, <2>3, <2>4, AsksWrites
<1>6. ASSUME Finishes(t, y, pos[t], 0), pos' = pos PROVE Writes(t)'
  BY <1>0, <1>1, <1>3, <1>6, FinishesWrites
<1>7. CASE FirstCase(t, y)
  BY <1>2, <1>5, <1>6, <1>7 DEF FirstCase
<1>8. CASE OverCase(t, y)
  BY <1>2, <1>5, <1>6, <1>8 DEF OverCase
<1>9. CASE ReplayCase(t, y)
  <2> DEFINE ops == hist[t].ops
             k == Len(ops)
             first == ops[1].pos_before
             at == Restored(t, k)
             adv == Advance(t, y)
  <2>1. Used(t) /\ sys[t] = y /\ y # None
    BY <1>9, SrvConstants DEF ReplayCase, Executes, Placed
  <2>2. /\ k \in Nat \ {0} /\ k <= y.n /\ ops \in Seq(Ops)
        /\ \A j \in 1 .. k : ops[j].pos_before = IF Moves(y) THEN first + j - 1 ELSE pos[t]
    <3>1. k \in Nat \ {0}
      BY <1>0, <2>1, LastOpType
    <3>2. hist[t].ops \in Seq(Ops)
      BY <1>0 DEF SrvTyped, HistRec
    <3> QED
      BY <2>1, <3>1, <3>2 DEF Placed
  <2>3. first \in Nat /\ StartPos(t) = first
    <3>1. ops[1] \in Ops
      BY <2>2, ElementOfSeq
    <3> QED
      BY <2>1, <3>1 DEF Ops, StartPos
  <2>4. at = ops[k].pos_before /\ at = (IF Moves(y) THEN first + (k - 1) ELSE pos[t])
    BY <2>2, <2>3 DEF Restored
  <2>5. adv \in {0, 1} /\ (~Moves(y) => adv = 0)
    BY DEF Advance
  <2>6. KPoll(LastOp(t).id) = "OK" /\ Good(t) =>
           /\ y.op = "write" => adv = 1 /\ \A j \in 1 .. k : Stored(t, ops[j].pos_before + 1, <<y.nr, j>>)
           /\ Held(t) = {}
    BY <1>0, <2>1, OwnAnswer, GoodIsStored
  <2>7. y.op = "write" => Moves(y) /\ \A j \in 1 .. k : ops[j].pos_before + 1 = first + j
    <3> HIDE DEF ops, k, first
    <3>1. ASSUME y.op = "write", NEW j \in 1 .. k PROVE ops[j].pos_before + 1 = first + j
      <4>1. ops[j].pos_before = first + j - 1 /\ j \in Nat
        BY <2>2, <3>1 DEF Moves
      <4> QED
        BY <2>3, <4>1
    <3> QED
      BY <3>1 DEF Moves
  <2>8. Reported(t) => at >= End(t)
    <3>1. Reported(t) => \A j \in 1 .. k : ops[j].pos_before >= End(t)
      BY DEF Writes, Told
    <3> QED
      BY <2>2, <2>4, <3>1
  <2>9. y.op = "write" =>
           /\ \A j \in 1 .. k - 1 : Stored(t, first + j, <<y.nr, j>>)
           /\ k > 1 => \A i \in Held(t) : Spares(t, i, first + (k - 1))
    <3> SUFFICES ASSUME y.op = "write" PROVE
           /\ \A j \in 1 .. k - 1 : Stored(t, first + j, <<y.nr, j>>)
           /\ k > 1 => \A i \in Held(t) : Spares(t, i, first + (k - 1))
      OBVIOUS
    <3>1. /\ \A j \in 1 .. k - 1 : Stored(t, ops[j].pos_before + 1, <<y.nr, j>>)
          /\ k > 1 => Held(t) \subseteq {cnt[t]}
          /\ Newest(t).at = LastOp(t).pos_before
      BY <2>1 DEF Writes, Asking
    <3>2. \A j \in 1 .. k - 1 : j \in 1 .. k
      BY <2>2
    <3>3. Newest(t).sys = y /\ Newest(t).at = first + (k - 1)
      BY <2>1, <2>4, <2>7, <3>1 DEF Placed, Newest, LastOp
    <3>4. Spares(t, cnt[t], first + (k - 1))
      BY <2>2, <2>3, <3>3 DEF Spares, Newest
    <3>5. \A j \in 1 .. k - 1 : Stored(t, first + j, <<y.nr, j>>)
      BY <2>7, <3>1, <3>2
    <3> QED
      BY <3>1, <3>4, <3>5
  <2> HIDE DEF ops, first, at, adv, k
  <2>10. CASE pos' = [pos EXCEPT ![t] = at] /\ Sleeps(t)
    <3>1. pos'[t] = at
      BY <1>0, <1>3, <2>10
    <3>2. UNCHANGED <<call, hist, sys, last, sent, cnt>>
      BY <2>10 DEF Sleeps
    <3>3. cnt[t] \in Nat /\ Held(t)' = Held(t)
      BY <1>0, <1>1 DEF TypeOK, Held
    <3> QED
      BY <1>0, <1>1, <2>1, <2>8, <3>1, <3>2, <3>3, Bystander DEF Used, LastOp
  <2>11. CASE pos' = [pos EXCEPT ![t] = at] /\ Finishes(t, y, StartPos(t), k - 1)
    <3>1. pos'[t] = at
      BY <1>0, <1>3, <2>11
    <3>2. y.op = "write" => k - 1 \in Nat /\ pos'[t] = StartPos(t) + (k - 1)
      BY <2>2, <2>3, <2>4, <2>7, <3>1
    <3>3. k - 1 > 0 => k > 1
      BY <2>2
    <3>4. ~Moves(y) => pos'[t] = pos[t]
      BY <2>4, <3>1
    <3> QED
      BY <1>0, <1>1, <2>3, <2>9, <2>11, <3>2, <3>3, <3>4, FinishesWrites
  <2>12. CASE /\ pos' = [pos EXCEPT ![t] = at + adv]
              /\ KPoll(LastOp(t).id) = "OK" /\ Good(t)
              /\ \/ Finishes(t, y, StartPos(t), k - 1 + adv)
                 \/ /\ k # y.n
                    /\ \/ Asks(t, y, KPolled(LastOp(t).id), ops, k + 1, at + adv)
                       \/ Finishes(t, y, StartPos(t), k)
    <3>1. pos'[t] = at + adv /\ at \in Nat
      BY <1>0, <1>3, <2>2, <2>3, <2>4, <2>12
    <3>2. ~Moves(y) => pos'[t] = pos[t]
      BY <1>3, <2>4, <2>5, <3>1
    <3>3. y.op = "write" => /\ k - 1 + adv = k /\ k \in Nat /\ pos'[t] = StartPos(t) + k
                            /\ \A j \in 1 .. k : Stored(t, first + j, <<y.nr, j>>)
      BY <2>2, <2>3, <2>4, <2>6, <2>7, <2>12, <3>1
    <3>4. Held(t) = {}
      BY <2>6, <2>12
    <3>5. ASSUME NEW done, Finishes(t, y, StartPos(t), done), y.op = "write" => done = k
          PROVE  Writes(t)'
      BY <1>0, <1>1, <2>3, <3>2, <3>3, <3>4, <3>5, FinishesWrites
    <3>6. CASE Asks(t, y, KPolled(LastOp(t).id), ops, k + 1, at + adv)
      <4>1. Reported(t) => End(t) \in Nat
        BY DEF Writes, Told, End
      <4>2. Reported(t) => pos'[t] >= End(t) /\ at + adv >= End(t)
        BY <2>5, <2>8, <3>1, <4>1
      <4>3. k + 1 = Len(ops) + 1
        BY DEF k
      <4>4. y.op = "write" => \A j \in 1 .. Len(ops) : Stored(t, ops[j].pos_before + 1, <<y.nr, j>>)
        BY <2>6, <2>12 DEF k
      <4>5. KPolled(LastOp(t).id) \in [CallSlots -> CallRec] /\ ops = hist[t].ops
        BY <1>2, <2>1 DEF ops
      <4> QED
        BY <1>0, <1>1, <2>2, <3>4, <3>6, <4>2, <4>3, <4>4, <4>5, AsksWrites
    <3> QED
      BY <2>12, <3>3, <3>5, <3>6
  <2> QED
    BY <1>9, <2>10, <2>11, <2>12 DEF ReplayCase, ops, k, at, adv
<1> QED
  BY <1>1, <1>7, <1>8, <1>9

\* An answered request of the thread: its page comes, the others stay.
LEMMA ServeWrites ==
    ASSUME TypeOK, SrvTyped, SentOK, OneHeld, DiskShape, NEW t \in Users, Live(t), Placed(t), Writes(t),
           NEW u \in Threads \ Users, NEW m \in rcvd[ProcOf[u]], NEW status, Serve(u, m, status),
           NEW j, m.req = <<t, j>>, m.req \in Reqs
    PROVE  Writes(t)'
<1> DEFINE p == ProcOf[u]
           r == <<t, j>>
           R == sent[r]
           k == Len(hist[t].ops)
           Here(i, x) == \E q \in Procs : i <= Len(disk'[q][t]) /\ disk'[q][t][i] = x
<1>0. t \in Threads /\ p \in Procs
  BY SrvConstants, IpcConstants
<1>1. UNCHANGED <<hist, sys, pos, last, cnt, pstate>>
  BY DEF Serve, do_reply
<1>2. j \in Held(t) /\ j \in 1 .. MaxReq
  BY <1>0 DEF Held, Reqs
<1>3. j \in 1 .. cnt[t] /\ R \in SentRec
  BY <1>2 DEF Writes, SentOK
<1>4. Held(t)' = {}
  <2>1. rcvd' = [rcvd EXCEPT ![p] = @ \ {m}]
    BY DEF Serve, do_reply
  <2>2. \A q \in Procs : rcvd'[q] = {}
    BY <1>0, <2>1 DEF TypeOK, OneHeld
  <2> QED
    BY <2>2 DEF Held
<1>5. \A i \in 1 .. cnt[t] :
         /\ sent'[<<t, i>>].sys = sent[<<t, i>>].sys /\ sent'[<<t, i>>].chunk = sent[<<t, i>>].chunk
         /\ sent'[<<t, i>>].at = sent[<<t, i>>].at
         /\ i # j => sent'[<<t, i>>] = sent[<<t, i>>]
         /\ i = j => sent'[<<t, i>>].status = status
  <2> TAKE i \in 1 .. cnt[t]
  <2>1. <<t, i>> \in Reqs /\ sent[<<t, i>>] \in SentRec
    BY <1>0, IpcConstants DEF Reqs, SentOK, TypeOK
  <2>2. sent' = [sent EXCEPT ![r].status = status]
    BY DEF Serve
  <2>3. sent'[<<t, i>>] = IF i = j THEN [sent[<<t, i>>] EXCEPT !.status = status] ELSE sent[<<t, i>>]
    BY <2>1, <2>2 DEF SrvTyped
  <2> QED
    BY <2>1, <2>3 DEF SentRec
<1>6. ASSUME NEW q \in Procs
      PROVE  disk'[q][t] = IF status = "ok" /\ q = p THEN Effect(disk[q][t], r) ELSE disk[q][t]
  <2>1. disk' = IF status = "ok" THEN [disk EXCEPT ![p][t] = Effect(@, r)] ELSE disk
    BY DEF Serve
  <2>2. disk = [s \in Procs |-> [v \in Users |-> disk[s][v]]]
    BY DEF DiskShape
  <2>3. disk[p] = [v \in Users |-> disk[p][v]]
    BY <1>0, <2>2
  <2>4. [disk[p] EXCEPT ![t] = Effect(@, r)][t] = Effect(disk[p][t], r)
    BY <2>3
  <2>5. status = "ok" => disk' = [disk EXCEPT ![p] = [disk[p] EXCEPT ![t] = Effect(@, r)]]
    BY <2>1
  <2> HIDE DEF p, r
  <2>6. status = "ok" => disk'[q] = IF q = p THEN [disk[p] EXCEPT ![t] = Effect(@, r)] ELSE disk[q]
    BY <1>0, <2>2, <2>5
  <2> QED
    BY <2>1, <2>4, <2>6
<1>7. \A q \in Procs : disk[q][t] \in Seq(Cells)
  BY DEF Writes
<1>8. R.at \in Nat /\ R.sys.nr \in Nat /\ R.chunk \in Nat
  BY <1>3 DEF SentRec, Syscalls
<1>9. \A q \in Procs : disk'[q][t] \in Seq(Cells)
  <2>1. \A d \in Seq(Cells) : Effect(d, r) \in Seq(Cells)
    <3>1. << >> \in Seq(Cells)
      BY EmptySeq
    <3> QED
      BY <1>8, <3>1, WrittenIs DEF Effect
  <2> QED
    BY <1>6, <1>7, <2>1
<1>10. ASSUME NEW i \in Nat \ {0}, NEW x, Stored(t, i, x), R.sys.op # "remove",
              R.sys.op = "write" => i # R.at + 1
       PROVE  Here(i, x)
  <2>1. PICK q \in Procs : i <= Len(disk[q][t]) /\ disk[q][t][i] = x
    BY <1>10 DEF Stored
  <2>2. disk[q][t] \in Seq(Cells) /\ i \in 1 .. Len(disk[q][t])
    BY <1>7, <2>1, LenProperties
  <2>3. i <= Len(Effect(disk[q][t], r)) /\ Effect(disk[q][t], r)[i] = x
    <3>1. CASE R.sys.op = "write"
      BY <1>8, <1>10, <2>1, <2>2, <3>1, WrittenIs DEF Effect
    <3>2. CASE R.sys.op # "write"
      BY <1>10, <2>1, <3>2 DEF Effect
    <3> QED
      BY <3>1, <3>2
  <2> QED
    BY <1>6, <2>1, <2>3
<1>11. status = "ok" /\ R.sys.op = "write" => Here(R.at + 1, <<R.sys.nr, R.chunk>>)
  <2>1. disk[p][t] \in Seq(Cells)
    BY <1>0, <1>7
  <2>2. /\ R.at + 1 <= Len(Written(disk[p][t], r))
        /\ Written(disk[p][t], r)[R.at + 1] = <<R.sys.nr, R.chunk>>
    BY <1>8, <2>1, WrittenIs
  <2>3. status = "ok" /\ R.sys.op = "write" => disk'[p][t] = Written(disk[p][t], r)
    BY <1>0, <1>6 DEF Effect
  <2> QED
    BY <1>0, <2>2, <2>3
<1> HIDE DEF Here, p, k, R
<1>12. Asking(t)'
  <2> SUFFICES ASSUME Used(t) PROVE
        /\ Newest(t)'.chunk = k /\ Newest(t)'.at = LastOp(t).pos_before
        /\ sys[t].op = "write" =>
              /\ \A i \in 1 .. k - 1 : Here(hist[t].ops[i].pos_before + 1, <<sys[t].nr, i>>)
              /\ Newest(t)'.status = "ok" => Here(LastOp(t).pos_before + 1, <<sys[t].nr, k>>)
    <3>1. Used(t)' = Used(t) /\ LastOp(t)' = LastOp(t)
      BY <1>1 DEF Used, LastOp
    <3> QED
      BY <1>1, <1>4, <3>1 DEF Asking, Stored, Here, k
  <2>1. /\ Newest(t).chunk = k /\ Newest(t).at = LastOp(t).pos_before
        /\ k > 1 \/ Newest(t).status # "none" => Held(t) \subseteq {cnt[t]}
        /\ sys[t].op = "write" =>
              /\ \A i \in 1 .. k - 1 : Stored(t, hist[t].ops[i].pos_before + 1, <<sys[t].nr, i>>)
              /\ Newest(t).status = "ok" => Stored(t, LastOp(t).pos_before + 1, <<sys[t].nr, k>>)
    BY DEF Writes, Asking, k
  <2>2. /\ cnt[t] \in 1 .. cnt[t] /\ Newest(t).sys = sys[t] /\ Newest(t)' = sent'[<<t, cnt[t]>>]
        /\ j = cnt[t] => R = Newest(t)
    <3>1. cnt[t] \in Nat /\ cnt[t] # 0
      BY <1>0 DEF Placed, TypeOK
    <3>2. cnt[t] \in 1 .. cnt[t]
      BY <3>1
    <3> QED
      BY <1>1, <3>2 DEF Placed, Newest, R
  <2>3. Newest(t)'.chunk = Newest(t).chunk /\ Newest(t)'.at = Newest(t).at
    BY <1>5, <2>2 DEF Newest
  <2>4. /\ k \in Nat \ {0} /\ LastOp(t) = hist[t].ops[k] /\ hist[t].ops[1].pos_before \in Nat
        /\ sys[t].op = "write" =>
              \A i \in 1 .. k : hist[t].ops[i].pos_before = hist[t].ops[1].pos_before + i - 1
    <3>1. /\ k \in Nat \ {0} /\ \A i \in 1 .. k : hist[t].ops[i] \in Ops
      BY <1>0, LastOpType DEF k
    <3>2. hist[t].ops[1] \in Ops
      BY <3>1
    <3> QED
      BY <3>1, <3>2 DEF Placed, Moves, LastOp, Ops, k
  <2>5. ASSUME sys[t].op = "write", NEW i \in 1 .. k - 1
        PROVE  Here(hist[t].ops[i].pos_before + 1, <<sys[t].nr, i>>)
    <3>1. k > 1 /\ i \in 1 .. k /\ k \in 1 .. k
      BY <2>4
    <3>2. j = cnt[t]
      BY <1>2, <2>1, <3>1
    <3>3. R.sys.op = "write" /\ R.at = hist[t].ops[k].pos_before
      BY <2>1, <2>2, <2>4, <2>5, <3>2
    <3> DEFINE f == hist[t].ops[1].pos_before
               a == hist[t].ops[i].pos_before
    <3>4. a = f + i - 1 /\ R.at = f + k - 1 /\ f \in Nat
      BY <2>4, <2>5, <3>1, <3>3
    <3> HIDE DEF f, a
    <3>5. a + 1 \in Nat \ {0} /\ a + 1 # R.at + 1
      BY <2>4, <3>1, <3>4
    <3>6. Stored(t, a + 1, <<sys[t].nr, i>>)
      BY <2>1, <2>5 DEF a
    <3>7. Here(a + 1, <<sys[t].nr, i>>)
      BY <1>10, <3>3, <3>5, <3>6
    <3> QED
      BY <3>7 DEF a
  <2>6. ASSUME sys[t].op = "write", Newest(t)'.status = "ok"
        PROVE  Here(LastOp(t).pos_before + 1, <<sys[t].nr, k>>)
    <3>1. CASE j = cnt[t]
      <4>1. status = "ok"
        BY <1>5, <2>2, <2>6, <3>1
      <4>2. R.sys = sys[t] /\ R.at = LastOp(t).pos_before /\ R.chunk = k
        BY <2>1, <2>2, <3>1
      <4> QED
        BY <1>11, <2>6, <4>1, <4>2
    <3>2. CASE j # cnt[t]
      <4>1. Newest(t).status = "ok"
        BY <1>5, <2>2, <2>6, <3>2 DEF Newest
      <4> QED
        BY <1>2, <2>1, <3>2, <4>1
    <3> QED
      BY <3>1, <3>2
  <2> QED
    BY <2>1, <2>3, <2>5, <2>6
<1>13. Told(t)'
  <2> SUFFICES ASSUME Reported(t) PROVE
        /\ last[t].start \in Nat /\ last[t].done \in Nat
        /\ \A i \in 1 .. last[t].done : Here(last[t].start + i, <<last[t].nr, i>>)
        /\ pos[t] >= End(t)
        /\ \A i \in 1 .. Len(hist[t].ops) : hist[t].ops[i].pos_before >= End(t)
    <3>1. Reported(t)' = Reported(t) /\ End(t)' = End(t)
      BY <1>1 DEF Reported, End
    <3> QED
      BY <1>1, <1>4, <3>1 DEF Told, Stored, Here
  <2>1. /\ last[t].start \in Nat /\ last[t].done \in Nat
        /\ \A i \in 1 .. last[t].done : Stored(t, last[t].start + i, <<last[t].nr, i>>)
        /\ last[t].done > 0 => \A i \in Held(t) : Spares(t, i, End(t))
        /\ pos[t] >= End(t)
        /\ \A i \in 1 .. Len(hist[t].ops) : hist[t].ops[i].pos_before >= End(t)
    BY DEF Writes, Told
  <2>2. ASSUME NEW i \in 1 .. last[t].done PROVE Here(last[t].start + i, <<last[t].nr, i>>)
    <3> DEFINE a == last[t].start + i
    <3>1. Spares(t, j, End(t))
      BY <1>2, <2>1
    <3>2. R.sys.op # "remove" /\ (R.sys.op = "write" => R.at >= End(t))
      BY <3>1 DEF Spares, R
    <3>3. a \in Nat \ {0} /\ a <= End(t)
      BY <2>1 DEF End
    <3>4. R.sys.op = "write" => a # R.at + 1
      BY <1>8, <2>1, <3>2, <3>3 DEF End
    <3> QED
      BY <1>10, <2>1, <3>2, <3>3, <3>4
  <2> QED
    BY <2>1, <2>2
<1> QED
  BY <1>4, <1>9, <1>12, <1>13 DEF Writes

\* A step that answers no call and takes no request does nothing to any thread.
LEMMA Onlooker ==
    ASSUME TypeOK, SrvTyped, NEW t \in Users, Live(t), Placed(t), Writes(t),
           UNCHANGED <<hist, pos, last, cnt, sent, disk>>, sys'[t] = sys[t],
           \A p \in Procs : rcvd'[p] \subseteq rcvd[p],
           \A s \in CallSlots : call'[s].state = "DONE" => call[s].state = "DONE"
    PROVE  Writes(t)'
<1>1. t \in Threads /\ cnt[t] \in Nat /\ Held(t)' \subseteq Held(t)
  BY SrvConstants DEF TypeOK, Held
<1>2. Used(t) => LastOp(t).id[2] \in CallSlots
  BY <1>1, LastOpType DEF Ops
<1>3. Reported(t) => pos[t] >= End(t)
  BY DEF Writes, Told
<1> QED
  BY <1>1, <1>2, <1>3, Bystander DEF Used, LastOp

\* Nor does another thread's execution, but for a stale history it may drop.
LEMMA OthersWrite ==
    ASSUME IInv, SrvTyped, NEW u \in Users, NEW y \in Syscalls, Executes(u, y),
           NEW t \in Users, t # u, Live(t), Placed(t), Writes(t)
    PROVE  Writes(t)'
<1>0. TypeOK /\ t \in Threads /\ u \in Threads /\ Execute(u, y)
  BY SrvConstants DEF IInv, Executes
<1>1. Others(u) /\ rcvd' = rcvd /\ disk' = disk
  BY <1>0, ExecuteIs DEF Execute
<1>2. /\ sys'[t] = sys[t] /\ last'[t] = last[t] /\ cnt'[t] = cnt[t] /\ pos'[t] = pos[t]
      /\ hist'[t] = hist[t] \/ hist'[t] = NoHist
  BY <1>0, <1>1 DEF Others
<1>3. cnt[t] \in Nat /\ \A i \in 1 .. cnt[t] : i \in 1 .. MaxReq
  BY <1>0, IpcConstants DEF TypeOK
<1>4. \A i \in 1 .. cnt[t] : sent'[<<t, i>>] = sent[<<t, i>>]
  <2>1. ASSUME NEW c, NEW ops, NEW k, NEW at, Asks(u, y, c, ops, k, at),
               NEW i \in 1 .. cnt[t]
        PROVE  sent'[<<t, i>>] = sent[<<t, i>>]
    BY <1>0, <1>3, <2>1, AsksSent
  <2> QED
    BY <1>0, <2>1, ExecuteEnds DEF Sleeps
<1>5. Held(t)' = Held(t)
  BY <1>1 DEF Held
<1>6. \A s \in CallSlots : call'[s].state = "DONE" => call[s].state = "DONE"
  BY <1>0, ExecuteServes
<1>7. Reported(t) => pos'[t] >= End(t)
  BY <1>2 DEF Writes, Told
<1>8. CASE hist'[t] = NoHist
  <2>1. hist'[t].ops = <<>>
    BY <1>8 DEF NoHist
  <2> QED
    BY <1>0, <1>1, <1>2, <1>3, <1>4, <1>5, <1>7, <2>1, Bystander DEF Used
<1>9. CASE hist'[t] = hist[t]
  <2>1. Used(t) => LastOp(t).id[2] \in CallSlots
    BY <1>0, LastOpType DEF Ops
  <2>2. Used(t)' = Used(t) /\ LastOp(t)' = LastOp(t)
    BY <1>9 DEF Used, LastOp
  <2>3. Used(t)' => (call'[LastOp(t)'.id[2]].state = "DONE" =>
                            \/ call[LastOp(t)'.id[2]].state = "DONE" /\ Held(t)' \subseteq Held(t)
                            \/ Held(t)' = {})
    BY <1>5, <1>6, <2>1, <2>2
  <2>4. \/ hist'[t].ops = <<>>
        \/ /\ Used(t) /\ Len(hist'[t].ops) = Len(hist[t].ops)
           /\ \A k \in 1 .. Len(hist[t].ops) :
                 /\ hist'[t].ops[k].pos_before = hist[t].ops[k].pos_before
                 /\ hist'[t].ops[k].id = hist[t].ops[k].id
    BY <1>9 DEF Used
  <2> QED
    BY <1>0, <1>1, <1>2, <1>3, <1>4, <1>5, <1>7, <2>3, <2>4, Bystander
<1> QED
  BY <1>2, <1>8, <1>9

\* A server takes a request: it is the one its thread waits for.
LEMMA RecvWrites ==
    ASSUME MaxServe = 1, TypeOK, NamesUnique, SrvTyped, AnswerOK, NEW u \in Threads, NEW h \in Handles,
           do_recv(u, h, TRUE), UNCHANGED srvVars,
           NEW t \in Users, Live(t), Placed(t), OnlyOwn(t), Writes(t)
    PROVE  Writes(t)'
<1>0. t \in Threads /\ cnt[t] \in Nat /\ cnt' = cnt /\ Ready(u) /\ Owns(u, h)
  BY SrvConstants DEF TypeOK, do_recv
<1>1. UNCHANGED <<hist, sys, pos, last, sent, disk>>
  BY DEF srvVars
<1>2. /\ Scanned(h) \in [CallSlots -> CallRec]
      /\ ~Drained(h) => NextSlot(h) \in CallSlots
  BY RecvParts
<1>3. \A s \in CallSlots : Scanned(h)[s] \in {call[s], FreeCall}
  BY DEF Scanned, AfterSkips
<1>4. \A s \in CallSlots : Scanned(h)[s].state = "DONE" => call[s].state = "DONE"
  BY <1>3 DEF FreeCall
<1>5. CASE RecvEmpty(h)
  <2>1. call' = Scanned(h) /\ rcvd' = rcvd
    BY <1>5 DEF RecvEmpty
  <2> QED
    BY <1>0, <1>1, <1>4, <2>1, Onlooker
<1>6. CASE RecvDeliver(ProcOf[u], h)
  <2> DEFINE p == ProcOf[u]
             s == NextSlot(h)
             m == Message(h)
  <2>1. /\ ~Drained(h) /\ rcvd' = [rcvd EXCEPT ![p] = @ \cup {m}] /\ s \in CallSlots
        /\ call' = [Scanned(h) EXCEPT ![s].state = "SERVING"]
    BY <1>2, <1>6 DEF RecvDeliver
  <2>2. \A r \in Procs : rcvd[r] = {}
    BY <1>0, NoneHeld
  <2>3. m.req = Scanned(h)[s].req /\ Scanned(h)[s].state # "ABANDONED"
    BY <2>1, RecvGoing DEF Message
  <2>4. call'[s].state = "SERVING"
    BY <1>2, <2>1 DEF CallRec
  <2>5. \A r \in CallSlots : call'[r].state = "DONE" => call[r].state = "DONE"
    <3>1. \A r \in CallSlots : r # s => call'[r] = Scanned(h)[r]
      BY <1>2, <2>1
    <3> QED
      BY <1>4, <2>4, <3>1
  <2> HIDE DEF m, s
  <2>6. ASSUME NEW i \in Held(t)' PROVE Used(t) /\ i = cnt[t] /\ s = LastOp(t).id[2]
    <3>1. PICK r \in Procs : \E x \in rcvd'[r] : x.req = <<t, i>>
      BY <2>6 DEF Held
    <3>2. rcvd'[r] \subseteq {m} /\ i \in 1 .. MaxReq
      BY <2>1, <2>2, <2>6, <3>1 DEF TypeOK, Held
    <3>3. m.req = <<t, i>>
      BY <3>1, <3>2
    <3>4. <<s, i>> \in Going(Scanned(h), t)
      BY <2>1, <2>3, <3>2, <3>3 DEF Going
    <3>5. <<s, i>> \in Going(call, t)
      BY <3>4, RecvGoing
    <3> QED
      BY <3>5 DEF OnlyOwn
  <2>7. Held(t)' = {} \/ (Used(t) /\ s = LastOp(t).id[2] /\ Held(t)' \subseteq {cnt[t]})
    BY <2>6
  <2>8. Used(t) => (call'[LastOp(t).id[2]].state = "DONE" => Held(t)' = {})
    BY <2>4, <2>7
  <2>9. Reported(t) => pos[t] >= End(t)
    BY DEF Writes, Told
  <2>10. Used(t)' = Used(t) /\ LastOp(t)' = LastOp(t)
    BY <1>1 DEF Used, LastOp
  <2>11. Held(t)' \subseteq Held(t) \/ (Used(t)' /\ Held(t)' \subseteq {cnt[t]})
    BY <2>7, <2>10
  <2> QED
    BY <1>0, <1>1, <2>8, <2>9, <2>10, <2>11, Bystander DEF Used
<1> QED
  BY <1>5, <1>6 DEF do_recv

\* The files stay files of the threads.
LEMMA DiskStep ==
    ASSUME TypeOK, SrvTyped, DiskShape, [SrvNext]_allVars
    PROVE  DiskShape'
<1>1. ASSUME UNCHANGED disk PROVE DiskShape'
  BY <1>1 DEF DiskShape
<1>2. ASSUME NEW t \in Users, NEW y \in Syscalls, Executes(t, y) PROVE DiskShape'
  BY <1>1, <1>2 DEF Executes, Execute
<1>3. ASSUME NEW t \in Threads \ Users, Serving(t) PROVE DiskShape'
  <2>1. ASSUME NEW m, NEW status, Serve(t, m, status) PROVE DiskShape'
    <3> DEFINE p == ProcOf[t]
               e == [disk[p] EXCEPT ![m.req[1]] = Effect(@, m.req)]
    <3>1. disk' = [disk EXCEPT ![p] = e] \/ disk' = disk
      BY <2>1 DEF Serve
    <3>2. p \in Procs /\ disk = [q \in Procs |-> [u \in Users |-> disk[q][u]]]
      BY IpcConstants DEF DiskShape
    <3>3. e = [u \in Users |-> e[u]]
      <4>1. disk[p] = [u \in Users |-> disk[p][u]]
        BY <3>2
      <4> QED
        BY <4>1
    <3> HIDE DEF e, p
    <3>4. ASSUME disk' = [disk EXCEPT ![p] = e] PROVE DiskShape'
      <4>1. \A q \in Procs : disk'[q] = IF q = p THEN e ELSE disk[q]
        BY <3>2, <3>4
      <4>2. \A q \in Procs : disk'[q] = [u \in Users |-> disk'[q][u]]
        BY <3>2, <3>3, <4>1
      <4>3. disk' = [q \in Procs |-> disk'[q]]
        BY <3>2, <3>4
      <4> QED
        BY <4>2, <4>3 DEF DiskShape
    <3> QED
      BY <1>1, <3>1, <3>4
  <2> QED
    BY <1>1, <1>3, <2>1 DEF Serving, srvVars
<1>4. ASSUME NEW t \in Threads, WakeUp(t) PROVE DiskShape'
  BY <1>1, <1>4 DEF WakeUp, srvVars
<1>5. CASE Tick \/ UNCHANGED allVars
  BY <1>1, <1>5 DEF Tick, allVars, srvVars
<1>6. ASSUME NEW p \in Procs, Exit(p) \/ Reap(p) PROVE DiskShape'
  BY <1>1, <1>6 DEF Exit, Reap, srvVars
<1> QED
  BY <1>2, <1>3, <1>4, <1>5, <1>6, StepCases

\* The steps of a server.
LEMMA ServingWrites ==
    ASSUME MaxServe = 1, TypeOK, NamesUnique, SrvTyped, AnswerOK, SentOK, WritesOK,
           NEW u \in Threads \ Users, Serving(u),
           NEW t \in Users, Live(t), Placed(t)
    PROVE  Writes(t)'
<1>0. /\ OneHeld /\ DiskShape /\ OnlyOwn(t) /\ Writes(t)
      /\ t \in Threads /\ cnt[t] \in Nat /\ ProcOf[u] \in Procs
  BY SrvConstants, IpcConstants DEF WritesOK, TypeOK
<1>1. ASSUME do_create(u, Endpoint, "DAEMONS"), UNCHANGED srvVars PROVE Writes(t)'
  <2>1. call' = PrunedCall /\ UNCHANGED <<cnt, rcvd>>
    BY <1>1 DEF do_create, OnlyPrune
  <2>2. \A s \in CallSlots : call'[s].state = "DONE" => call[s].state = "DONE"
    BY <2>1, GoneServes DEF PrunedCall, GoneCall, TypeOK
  <2> QED
    BY <1>0, <1>1, <2>1, <2>2, Onlooker DEF srvVars
<1>2. ASSUME NEW h \in Handles, do_wait(u, h), UNCHANGED srvVars PROVE Writes(t)'
  BY <1>0, <1>2, Onlooker DEF srvVars, do_wait
<1>3. ASSUME NEW h \in Handles, do_recv(u, h, TRUE), UNCHANGED srvVars PROVE Writes(t)'
  BY <1>0, <1>3, RecvWrites
<1>4. ASSUME NEW m \in rcvd[ProcOf[u]], NEW status \in {"ok", "end", "err"}, Serve(u, m, status)
      PROVE  Writes(t)'
  <2>1. UNCHANGED <<hist, sys, pos, last, cnt>>
    BY <1>4 DEF Serve, do_reply
  <2>2. CASE m.req \in Reqs /\ m.req[1] = t
    <3>1. m.req = <<t, m.req[2]>>
      BY <2>2 DEF Reqs
    <3> QED
      BY <1>0, <1>4, <2>2, <3>1, ServeWrites
  <2>3. CASE m.req \notin Reqs \/ m.req[1] # t
    <3>1. rcvd' = [rcvd EXCEPT ![ProcOf[u]] = @ \ {m}]
      BY <1>4 DEF Serve, do_reply
    <3>2. \A q \in Procs : rcvd'[q] = {}
      BY <1>0, <1>4, <3>1 DEF TypeOK, OneHeld
    <3>3. Held(t)' = {}
      BY <3>2 DEF Held
    <3>4. \A i \in 1 .. cnt[t] : sent'[<<t, i>>] = sent[<<t, i>>]
      <4>1. \/ sent' = sent
            \/ m.req \in Reqs /\ m.req[1] # t /\ sent' = [sent EXCEPT ![m.req].status = status]
        BY <1>4, <2>3 DEF Serve
      <4>2. \A i \in 1 .. cnt[t] : <<t, i>> \in Reqs /\ (m.req[1] # t => <<t, i>> # m.req)
        BY <1>0, IpcConstants DEF TypeOK, Reqs
      <4> QED
        BY <4>1, <4>2 DEF SrvTyped
    <3>5. ASSUME NEW q \in Procs PROVE disk'[q][t] = disk[q][t]
      <4> DEFINE e == [disk[ProcOf[u]] EXCEPT ![m.req[1]] = Effect(@, m.req)]
      <4>1. disk' = disk \/ (m.req[1] # t /\ disk' = [disk EXCEPT ![ProcOf[u]] = e])
        BY <1>4, <2>3 DEF Serve
      <4>2. disk = [s \in Procs |-> [v \in Users |-> disk[s][v]]]
        BY <1>0 DEF DiskShape
      <4>3. disk[ProcOf[u]] = [v \in Users |-> disk[ProcOf[u]][v]]
        BY <1>0, <4>2
      <4>4. m.req[1] # t => e[t] = disk[ProcOf[u]][t]
        BY <4>3
      <4> HIDE DEF e
      <4>5. disk' = [disk EXCEPT ![ProcOf[u]] = e] =>
               disk'[q] = IF q = ProcOf[u] THEN e ELSE disk[q]
        BY <1>0, <4>2
      <4> QED
        BY <4>1, <4>4, <4>5
    <3>6. Reported(t) => pos[t] >= End(t)
      BY <1>0 DEF Writes, Told
    <3> QED
      BY <1>0, <2>1, <3>3, <3>4, <3>5, <3>6, Bystander DEF Used
  <2> QED
    BY <2>2, <2>3
<1> QED
  BY <1>1, <1>2, <1>3, <1>4 DEF Serving

\* Every step keeps what was reported.
LEMMA WritesStep ==
    ASSUME MaxServe = 1, IInv, SrvTyped, OwnCalls, OwnCalls', AnswerOK, SentOK, PosOK, WritesOK,
           [SrvNext]_allVars
    PROVE  WritesOK'
<1>0. /\ TypeOK /\ NamesUnique /\ Users \subseteq Threads
      /\ OneHeld /\ DiskShape /\ \A t \in Users : Live(t) => OnlyOwn(t) /\ Writes(t)
  BY SrvConstants, IInvImplies DEF IInv, WritesOK
<1> SUFFICES ASSUME NEW t \in Users, Live(t)' PROVE OnlyOwn(t)' /\ Writes(t)'
  BY <1>0, OneHeldStep, DiskStep DEF WritesOK
<1>1. t \in Threads /\ Live(t) /\ OnlyOwn(t) /\ Writes(t) /\ Placed(t) /\ cnt[t] \in Nat
  BY <1>0, LivesOn DEF PosOK, TypeOK
<1>2. OnlyOwn(t)'
  BY <1>1, OnlyStep
<1>3. ASSUME NEW u \in Users, NEW y \in Syscalls, Executes(u, y) PROVE Writes(t)'
  <2>1. CASE u = t
    BY <1>1, <1>3, <2>1, ExecuteWrites
  <2>2. CASE u # t
    BY <1>1, <1>3, <2>2, OthersWrite
  <2> QED
    BY <2>1, <2>2
<1>4. ASSUME NEW u \in Threads \ Users, Serving(u) PROVE Writes(t)'
  BY <1>0, <1>1, <1>4, ServingWrites
<1>5. ASSUME NEW u \in Threads, WakeUp(u) PROVE Writes(t)'
  BY <1>0, <1>1, <1>5, Onlooker DEF WakeUp, Timeout, srvVars
<1>6. CASE Tick
  <2>1. /\ hist' = [v \in Threads |-> Aged(hist[v])]
        /\ UNCHANGED <<sys, pos, last, cnt, sent, disk, rcvd, call>>
    BY <1>6 DEF Tick, vars
  <2>2. hist[t] \in HistRec /\ hist'[t] = Aged(hist[t])
    BY <1>1, <2>1 DEF SrvTyped
  <2>3. Held(t)' = Held(t)
    BY <2>1 DEF Held
  <2>4. /\ sys'[t] = sys[t] /\ last'[t] = last[t] /\ cnt'[t] = cnt[t] /\ pos'[t] = pos[t]
        /\ \A i \in 1 .. cnt[t] : sent'[<<t, i>>] = sent[<<t, i>>]
        /\ \A p \in Procs : disk'[p][t] = disk[p][t]
    BY <2>1
  <2>5. Reported(t) => pos'[t] >= End(t)
    BY <1>1, <2>1 DEF Writes, Told
  <2>6. CASE ~Used(t)
    <3>1. hist'[t].ops = <<>>
      BY <2>2, <2>6, AgedType DEF Used
    <3>2. ~Used(t)'
      BY <3>1 DEF Used
    <3> QED
      BY <1>1, <1>2, <2>3, <2>4, <2>5, <3>1, <3>2, Bystander
  <2>7. CASE Used(t)
    <3>1. /\ Used(t)' /\ Len(hist'[t].ops) = Len(hist[t].ops)
          /\ \A k \in 1 .. Len(hist[t].ops) :
                /\ hist'[t].ops[k].pos_before = hist[t].ops[k].pos_before
                /\ hist'[t].ops[k].id = hist[t].ops[k].id
          /\ LastOp(t)'.id = LastOp(t).id
      BY <2>2, <2>7, AgedType DEF Used, LastOp
    <3>2. Used(t)' => (call'[LastOp(t)'.id[2]].state = "DONE" =>
                            \/ call[LastOp(t)'.id[2]].state = "DONE" /\ Held(t)' \subseteq Held(t)
                            \/ Held(t)' = {})
      BY <2>1, <2>3
    <3> QED
      BY <1>1, <1>2, <2>3, <2>4, <2>5, <2>7, <3>1, <3>2, Bystander
  <2> QED
    BY <2>6, <2>7
<1>7. ASSUME NEW p \in Procs, Exit(p) PROVE Writes(t)'
  <2>1. /\ UNCHANGED <<hist, pos, last, cnt, sent, disk, call>>
        /\ pstate' = [pstate EXCEPT ![p] = "died"] /\ rcvd' = [rcvd EXCEPT ![p] = {}]
        /\ sys' = [v \in Threads |-> IF ProcOf[v] = p THEN None ELSE sys[v]]
    BY <1>7 DEF Exit, AuProcessExit
  <2>2. ProcOf[t] # p
    BY <1>0, <2>1 DEF Live, TypeOK
  <2>3. sys'[t] = sys[t] /\ \A q \in Procs : rcvd'[q] \subseteq rcvd[q]
    BY <1>0, <1>1, <2>1, <2>2 DEF TypeOK
  <2> QED
    BY <1>0, <1>1, <2>1, <2>3, Onlooker
<1>8. ASSUME NEW p \in Procs, Reap(p) PROVE Writes(t)'
  <2>1. call' = GoneCall({p}) /\ UNCHANGED <<cnt, rcvd>> /\ UNCHANGED srvVars
    BY <1>8 DEF Reap, AuProcessClean, AuIpcProcessGone
  <2>2. \A s \in CallSlots : call'[s].state = "DONE" => call[s].state = "DONE"
    BY <1>0, <2>1, GoneServes DEF GoneCall, TypeOK
  <2> QED
    BY <1>0, <1>1, <2>1, <2>2, Onlooker DEF srvVars
<1>9. CASE UNCHANGED allVars
  <2>1. UNCHANGED <<hist, pos, last, cnt, sent, disk>> /\ sys'[t] = sys[t]
    BY <1>9 DEF allVars, vars, srvVars
  <2>2. /\ \A p \in Procs : rcvd'[p] \subseteq rcvd[p]
        /\ \A s \in CallSlots : call'[s].state = "DONE" => call[s].state = "DONE"
    BY <1>9 DEF allVars, vars
  <2> QED
    BY <1>0, <1>1, <1>2, <2>1, <2>2, Onlooker
<1> QED
  BY <1>0, <1>2, <1>3, <1>4, <1>5, <1>6, <1>7, <1>8, <1>9, StepCases

\* A WriteFile reports only what is stored: under the same condition on stale
\* histories, and if a server answers a request before it takes the next one, every
\* page a WriteFile counts is in a file where the position pointed to, and no
\* request of the thread that is still on its way can take it away.
THEOREM ReportedStaysWritten ==
    ASSUME MaxServe = 1
    PROVE  SrvSpec /\ []IdsFresh => []ReportedIsWritten
<1>1. SrvInit => WritesOK /\ PosOK /\ OwnCalls
  <2> SUFFICES ASSUME SrvInit PROVE WritesOK /\ PosOK /\ OwnCalls
    OBVIOUS
  <2>1. \A t \in Users : ~Used(t) /\ sys[t] = None /\ last[t] = None
    BY SrvConstants DEF SrvInit, Used, NoHist
  <2>2. PosOK /\ OwnCalls
    BY <2>1 DEF PosOK, Placed, OwnCalls
  <2>3. \A p \in Procs : rcvd[p] = {}
    BY DEF SrvInit, Init
  <2>4. OneHeld /\ \A t \in Users : Held(t) = {}
    BY <2>3 DEF OneHeld, Held
  <2>5. disk = [p \in Procs |-> [t \in Users |-> <<>>]]
    BY DEF SrvInit
  <2>6. DiskShape /\ \A p \in Procs, t \in Users : disk[p][t] = <<>>
    BY <2>5 DEF DiskShape
  <2>7. \A p \in Procs, t \in Users : disk[p][t] \in Seq(Cells)
    BY <2>6, EmptySeq
  <2>8. \A t \in Users : OnlyOwn(t)
    <3>1. \A s \in CallSlots : call[s] = FreeCall
      BY DEF SrvInit, Init
    <3>2. \A t : \A i : FreeCall.req # <<t, i>>
      BY DEF FreeCall, NoReq
    <3> QED
      BY <3>1, <3>2 DEF OnlyOwn, Going
  <2>9. \A t \in Users : Asking(t) /\ Told(t)
    BY <2>1 DEF Asking, Told, Reported
  <2> QED
    BY <2>2, <2>4, <2>6, <2>7, <2>8, <2>9 DEF WritesOK, Writes
<1>2. IInv /\ SrvTyped /\ OwnCalls /\ IdsFresh /\ [SrvNext]_allVars => OwnCalls'
  BY OwnCallsStep
<1>3. IInv /\ SrvTyped /\ OwnCalls /\ AnswerOK /\ SentOK /\ PosOK /\ [SrvNext]_allVars => PosOK'
  BY PosStep
<1>4. IInv /\ SrvTyped /\ OwnCalls /\ OwnCalls' /\ AnswerOK /\ SentOK /\ PosOK /\ WritesOK
      /\ [SrvNext]_allVars => WritesOK'
  BY WritesStep
<1>5. WritesOK => ReportedIsWritten
  <2> SUFFICES ASSUME WritesOK, NEW t \in Users, Reported(t), NEW k \in 1 .. last[t].done
      PROVE  Stored(t, last[t].start + k, <<last[t].nr, k>>)
    BY DEF ReportedIsWritten, Stored
  <2>1. Live(t)
    BY DEF Reported, Live
  <2> QED
    BY <2>1 DEF WritesOK, Writes, Told
<1>6. SrvSpec => []AnswerOK
  BY AnswerInvariant
<1> QED
  BY <1>1, <1>2, <1>3, <1>4, <1>5, <1>6, SrvInvariant, SentInvariant, PTL DEF SrvSpec

=============================================================================
