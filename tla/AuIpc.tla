------------------------------- MODULE AuIpc -------------------------------
(***************************************************************************)
(* Generic kernel IPC of the Aurora kernel: KernelAA64/Ipc/auipc.c.        *)
(*                                                                         *)
(* Named endpoints, a fixed table of calls, synchronous call/reply.  The   *)
(* kernel is single-CPU and a syscall enters with interrupts masked, so    *)
(* one ioctl on /dev/ipc is one atomic step.  A sleeping ioctl resumes     *)
(* AFTER the svc, so CALL is paired with FETCH and WAIT with RECV; what    *)
(* the user-side half remembers between the two (call id, received         *)
(* requests) is part of the state.                                         *)
(*                                                                         *)
(* Payloads are abstracted to their identity: the n-th request of thread   *)
(* t is <<t, n>>, and a response is identified with the request the server *)
(* was looking at when it produced it.                                     *)
(***************************************************************************)
EXTENDS Naturals, Sequences, FiniteSets

CONSTANTS
    Procs,        \* AuProcess objects
    Threads,      \* AA64Thread objects
    ProcOf,       \* the process of each thread
    Mortal,       \* processes that may exit
    Callers,      \* processes that issue calls
    Daemons,      \* processes AuHwdevCallerAllowed admits (MISC_DAEMONS group)
    Names,        \* endpoint names
    MaxEp,        \* MAX_EP (16)
    MaxCalls,     \* MAX_CALLS (32)
    EpQueue,      \* EP_QUEUE (8)
    MaxServe,     \* requests a server process holds unanswered at a time
    MaxReq,       \* bound: requests a thread issues
    MaxGen,       \* bound: endpoint generations handed out
    None          \* NULL pointer, tid 0, empty name

ASSUME IpcConstants ==
    /\ ProcOf \in [Threads -> Procs]
    /\ Daemons \subseteq Procs /\ Mortal \subseteq Procs /\ Callers \subseteq Procs
    /\ None \notin Procs /\ None \notin Threads /\ None \notin Names
    /\ MaxEp \in Nat \ {0} /\ MaxCalls \in Nat \ {0} /\ EpQueue \in Nat \ {0}
    /\ MaxServe \in Nat \ {0} /\ MaxReq \in Nat

\* make_id packs the generation above eight slot bits of an int32: handles of
\* different generations stay distinct as long as they fit in 23 bits.
ASSUME IdWidth ==
    MaxGen \in Nat /\ MaxGen + MaxEp < 2^23 /\ MaxEp <= 256 /\ MaxCalls <= 256

VARIABLES
    ep,       \* g_ep: the endpoint table
    call,     \* g_call: the call table
    genc,     \* g_gen_counter
    pstate,   \* process life: "run", "died" (zombie), "reaped"
    sleep,    \* thread in the scheduler's sleep list: "no", "call", "wait"
    pend,     \* call id a client thread holds between CALL and FETCH
    cnt,      \* requests issued per thread (payload identity)
    rcvd      \* per server process: requests received, not yet answered

vars == <<ep, call, genc, pstate, sleep, pend, cnt, rcvd>>

EpSlots   == 0 .. MaxEp - 1
CallSlots == 0 .. MaxCalls - 1
Acls      == {"ANY", "DAEMONS"}
Reqs      == Threads \X (1 .. MaxReq)
NoReq     == <<>>
CallStates == {"FREE", "QUEUED", "SERVING", "DONE", "FAILED", "ABANDONED"}
InFlight  == {"QUEUED", "SERVING"}

\* make_id: an id is a slot and the generation the slot had.
make_id(gen, slot) == <<gen, slot>>
NoId      == <<>>

\* memset(c, 0): call_free leaves a slot whose generation is zero again.
FreeCall == [state |-> "FREE", gen |-> 0, ep |-> 0, epgen |-> 0, pid |-> None,
             tid |-> None, req |-> NoReq, resp |-> NoReq]

NoEp(g) == [used |-> FALSE, gen |-> g, name |-> None, owner |-> None,
            acl |-> "ANY", waiter |-> None, queue |-> <<>>]

Init ==
    /\ ep = [i \in EpSlots |-> NoEp(0)]
    /\ call = [s \in CallSlots |-> FreeCall]
    /\ genc = 1
    /\ pstate = [p \in Procs |-> "run"]
    /\ sleep = [t \in Threads |-> "no"]
    /\ pend = [t \in Threads |-> NoId]
    /\ cnt = [t \in Threads |-> 0]
    /\ rcvd = [p \in Procs |-> {}]

-----------------------------------------------------------------------------
(* Lookups *)

\* ep_from_handle(h) succeeds and yields slot h[2].
ep_from_handle(h, eps) ==
    h[2] \in EpSlots /\ eps[h[2]].used /\ eps[h[2]].gen = h[1]

\* call_from_id(id) succeeds and yields slot id[2].
call_from_id(id, calls) ==
    /\ id # NoId
    /\ id[2] \in CallSlots
    /\ calls[id[2]].state # "FREE"
    /\ calls[id[2]].gen = id[1]

\* Handles a process can present: every slot with every generation so far.
Handles == (1 .. genc) \X EpSlots

Running(t) == pstate[ProcOf[t]] = "run" /\ sleep[t] = "no"
\* A client thread that came back from CALL does FETCH next.
Idle(t) == Running(t) /\ pend[t] = NoId

\* Mutant: the thread is looked up in the wrong list and not found.
wake_tid_Lost(T) == sleep

\* wake_tid on each thread of T: only threads in the sleep list are affected.
wake_tid(T) == [t \in Threads |-> IF t \in T THEN "no" ELSE sleep[t]]

Lowest(S) == CHOOSE s \in S : \A r \in S : s <= r

-----------------------------------------------------------------------------
(* AuIpcProcessGone, for the processes of P one after the other in the     *)
(* order in which ipc_prune_dead meets them: by their first endpoint slot. *)

OwnedBy(P) == {i \in EpSlots : ep[i].used /\ ep[i].owner \in P}

\* Process p is torn down no later than process q.
NotAfter(p, q) ==
    \A j \in OwnedBy({q}) : \E i \in OwnedBy({p}) : i <= j

Precedes(j, i) ==
    IF ep[j].owner = ep[i].owner THEN j < i
                                 ELSE NotAfter(ep[j].owner, ep[i].owner)

\* Mutant: the slot keeps the generation of the endpoint that was removed.
GoneEp_SameGen(P) ==
    [i \in EpSlots |-> IF i \in OwnedBy(P) THEN NoEp(ep[i].gen) ELSE ep[i]]

GoneEp(P) ==
    [i \in EpSlots |->
        IF i \in OwnedBy(P)
        THEN NoEp(genc + Cardinality({j \in OwnedBy(P) : Precedes(j, i)}))
        ELSE ep[i]]

GoneGen(P) == genc + Cardinality(OwnedBy(P))

\* Mutant: calls no server has taken yet are forgotten.
Fails_ServingOnly(P, c) ==
    /\ c.state = "SERVING"
    /\ c.ep \in OwnedBy(P) /\ c.epgen = ep[c.ep].gen
    /\ c.pid \in P => NotAfter(ep[c.ep].owner, c.pid)

\* call_fail hits this call: its endpoint goes while the call is in flight,
\* and its client was not torn down (hence abandoned) first.
Fails(P, c) ==
    /\ c.state \in InFlight
    /\ c.ep \in OwnedBy(P) /\ c.epgen = ep[c.ep].gen
    /\ c.pid \in P => NotAfter(ep[c.ep].owner, c.pid)

\* The calls an AuIpcProcessGone that meets the table calls leaves.
GoneCalls(P, calls) ==
    [s \in CallSlots |->
        LET c == calls[s] IN
        CASE c.pid \in P /\ c.state \in InFlight /\ ~Fails(P, c)
                            -> [c EXCEPT !.state = "ABANDONED"]
          [] c.pid \in P /\ ~(c.state \in InFlight /\ ~Fails(P, c))
                            -> FreeCall
          [] c.pid \notin P /\ Fails(P, c)
                            -> [c EXCEPT !.state = "FAILED"]
          [] OTHER          -> c]

GoneCall(P) == GoneCalls(P, call)

\* Mutant: call_fail marks the call but does not wake its client.
GoneWoken_None(P) == {}

\* call_fail wakes the client of every call it fails.
FailedTids(P, calls) == {calls[s].tid : s \in {r \in CallSlots : Fails(P, calls[r])}}
GoneWoken(P) == FailedTids(P, call)

\* ipc_prune_dead: owners that died and were not reaped yet.
DeadOwners == {ep[i].owner : i \in {j \in EpSlots : ep[j].used}}
              \cap {p \in Procs : pstate[p] = "died"}

\* The tables after ipc_prune_dead, with which create, connect, call and
\* AuIpcKCallBegin go on.
PrunedEp    == GoneEp(DeadOwners)
PrunedCall  == GoneCall(DeadOwners)
PrunedGen   == GoneGen(DeadOwners)
PrunedWoken == GoneWoken(DeadOwners)

\* A request that fails after the prune leaves the pruned tables behind.
OnlyPrune ==
    /\ ep' = PrunedEp
    /\ call' = PrunedCall
    /\ genc' = PrunedGen
    /\ sleep' = wake_tid(PrunedWoken)
    /\ UNCHANGED <<pstate, pend, cnt, rcvd>>

-----------------------------------------------------------------------------
(* Endpoint life *)

NameTaken(name, eps) == \E i \in EpSlots : eps[i].used /\ eps[i].name = name
EpFree(eps) == {i \in EpSlots : ~eps[i].used}

\* Mutant: the name is not looked up.
CanCreate_AnyName(name) == EpFree(PrunedEp) # {}

CanCreate(name) == ~NameTaken(name, PrunedEp) /\ EpFree(PrunedEp) # {}

do_create(t, name, acl) ==
    /\ Idle(t) /\ ProcOf[t] \in Daemons /\ genc <= MaxGen
    /\ \/ /\ CanCreate(name)
          /\ LET i == Lowest(EpFree(PrunedEp))
                 old == PrunedEp[i].gen
             IN /\ ep' = [PrunedEp EXCEPT ![i] =
                            [used |-> TRUE, gen |-> IF old # 0 THEN old ELSE PrunedGen,
                             name |-> name, owner |-> ProcOf[t], acl |-> acl,
                             waiter |-> None, queue |-> <<>>]]
                /\ genc' = IF old # 0 THEN PrunedGen ELSE PrunedGen + 1
          /\ call' = PrunedCall
          /\ sleep' = wake_tid(PrunedWoken)
          /\ UNCHANGED <<pstate, pend, cnt, rcvd>>
       \/ ~CanCreate(name) /\ OnlyPrune

\* The handle do_connect returns is one of Handles; what it changes is the prune.
do_connect(t) == Idle(t) /\ OnlyPrune

acl_admits(e, p) == e.acl = "DAEMONS" => p \in Daemons

\* AuIpcProcessGone of one process.
AuIpcProcessGone(p) ==
    /\ ep' = GoneEp({p})
    /\ call' = GoneCall({p})
    /\ genc' = GoneGen({p})
    /\ sleep' = wake_tid(GoneWoken({p}))

\* Destroying one endpoint tears down every endpoint of the process, and
\* abandons the calls the process itself has in flight.
do_destroy(t, h) ==
    /\ Idle(t)
    /\ ep_from_handle(h, ep) /\ ep[h[2]].owner = ProcOf[t]
    /\ AuIpcProcessGone(ProcOf[t])
    /\ UNCHANGED <<pstate, pend, cnt, rcvd>>

-----------------------------------------------------------------------------
(* Client side *)

CallFree(calls) == {s \in CallSlots : calls[s].state = "FREE"}

\* The slot is filled and appended to the endpoint's queue; the waiter is
\* taken out of the endpoint.
QueuedCall(t, i, gen) ==
    [state |-> "QUEUED", gen |-> gen, ep |-> i,
     epgen |-> PrunedEp[i].gen, pid |-> ProcOf[t], tid |-> t,
     req |-> <<t, cnt[t] + 1>>, resp |-> NoReq]

\* Mutant: the woken waiter stays registered.
Enqueue_KeepWaiter(t, i, s) ==
    /\ ep' = [PrunedEp EXCEPT ![i].queue = Append(@, s)]
    /\ call' = [PrunedCall EXCEPT ![s] = QueuedCall(t, i, PrunedCall[s].gen + 1)]
    /\ genc' = PrunedGen
    /\ cnt' = [cnt EXCEPT ![t] = @ + 1]

Enqueue(t, i, s) ==
    /\ ep' = [PrunedEp EXCEPT ![i].queue = Append(@, s), ![i].waiter = None]
    /\ call' = [PrunedCall EXCEPT ![s] = QueuedCall(t, i, PrunedCall[s].gen + 1)]
    /\ genc' = PrunedGen
    /\ cnt' = [cnt EXCEPT ![t] = @ + 1]

\* Mutant: the endpoint's queue array is not checked for room.
Admitted_NoLimit(t, h) ==
    /\ ep_from_handle(h, PrunedEp)
    /\ PrunedEp[h[2]].owner # ProcOf[t]
    /\ acl_admits(PrunedEp[h[2]], ProcOf[t])
    /\ CallFree(PrunedCall) # {}

Admitted(t, h) ==
    /\ ep_from_handle(h, PrunedEp)
    /\ PrunedEp[h[2]].owner # ProcOf[t]            \* a server cannot call itself
    /\ acl_admits(PrunedEp[h[2]], ProcOf[t])
    /\ Len(PrunedEp[h[2]].queue) < EpQueue
    /\ CallFree(PrunedCall) # {}

do_call(t, h) ==
    /\ Idle(t) /\ ProcOf[t] \in Callers /\ cnt[t] < MaxReq
    /\ \/ /\ Admitted(t, h)
          /\ LET s == Lowest(CallFree(PrunedCall)) IN
             /\ Enqueue(t, h[2], s)
             /\ pend' = [pend EXCEPT ![t] = make_id(PrunedCall[s].gen + 1, s)]
          /\ sleep' = [wake_tid(PrunedWoken \cup {PrunedEp[h[2]].waiter})
                         EXCEPT ![t] = "call"]
          /\ UNCHANGED <<pstate, rcvd>>
       \/ ~Admitted(t, h) /\ OnlyPrune

\* The call FETCH finds, if it is a call of this process.
MyCall(t) ==
    /\ call_from_id(pend[t], call)
    /\ call[pend[t][2]].pid = ProcOf[t]

\* Answered or failed: deliver and free.  Otherwise give up: ABANDONED.
Fetched(c) == IF c.state \in {"DONE", "FAILED"} THEN FreeCall
                                              ELSE [c EXCEPT !.state = "ABANDONED"]

do_fetch(t) ==
    /\ Running(t) /\ pend[t] # NoId
    /\ call' = IF MyCall(t) THEN [call EXCEPT ![pend[t][2]] = Fetched(@)] ELSE call
    /\ pend' = [pend EXCEPT ![t] = NoId]
    /\ UNCHANGED <<ep, genc, pstate, sleep, cnt, rcvd>>

-----------------------------------------------------------------------------
(* Server side *)

Owns(t, h) == ep_from_handle(h, ep) /\ ep[h[2]].owner = ProcOf[t]

\* A server asks for more only below the number of requests it can hold; the
\* repository's servers hold one, and answer it before they wait again.
Ready(t) == Idle(t) /\ Cardinality(rcvd[ProcOf[t]]) < MaxServe

\* WAIT sleeps only on an empty queue; the check and the sleep are atomic.
do_wait(t, h) ==
    /\ Ready(t) /\ Owns(t, h)
    /\ ep[h[2]].queue = <<>>
    /\ ep' = [ep EXCEPT ![h[2]].waiter = t]
    /\ sleep' = [sleep EXCEPT ![t] = "wait"]
    /\ UNCHANGED <<call, genc, pstate, pend, cnt, rcvd>>

\* RECV frees the abandoned calls at the head of the queue (a slot it has just
\* freed is FREE if it is met again) and stops at the first other one.
Skipped(q, k) == call[q[k]].state = "ABANDONED" /\ \A j \in 1 .. k - 1 : q[j] # q[k]
SkippedAll(q, n) == \A k \in 1 .. n : Skipped(q, k)

\* Number of queue entries RECV drops before the one it delivers.
Skips(q) == CHOOSE n \in 0 .. Len(q) :
                SkippedAll(q, n) /\ (n < Len(q) => ~Skipped(q, n + 1))

AfterSkips(q, n) ==
    [s \in CallSlots |-> IF \E k \in 1 .. n : q[k] = s THEN FreeCall ELSE call[s]]

Queue(h)    == ep[h[2]].queue
Scanned(h)  == AfterSkips(Queue(h), Skips(Queue(h)))
Drained(h)  == Skips(Queue(h)) = Len(Queue(h))
NextSlot(h) == Queue(h)[Skips(Queue(h)) + 1]
Rest(h)     == SubSeq(Queue(h), Skips(Queue(h)) + 2, Len(Queue(h)))
Message(h)  == [h |-> h, id |-> make_id(Scanned(h)[NextSlot(h)].gen, NextSlot(h)),
                req |-> Scanned(h)[NextSlot(h)].req]

RecvEmpty(h) ==                                                  \* IPC_E_EMPTY
    /\ Drained(h)
    /\ ep' = [ep EXCEPT ![h[2]].queue = <<>>]
    /\ call' = Scanned(h)
    /\ UNCHANGED <<sleep, rcvd>>

RecvTooBig(h) ==                                                \* IPC_E_TOOBIG
    /\ ~Drained(h)
    /\ Scanned(h)[NextSlot(h)].state # "FREE"             \* an empty one always fits
    /\ ep' = [ep EXCEPT ![h[2]].queue = Rest(h)]
    /\ call' = [Scanned(h) EXCEPT ![NextSlot(h)].state = "FAILED"]
    /\ sleep' = wake_tid({Scanned(h)[NextSlot(h)].tid})
    /\ UNCHANGED rcvd

RecvDeliver(p, h) ==
    /\ ~Drained(h)
    /\ ep' = [ep EXCEPT ![h[2]].queue = Rest(h)]
    /\ call' = [Scanned(h) EXCEPT ![NextSlot(h)].state = "SERVING"]
    /\ rcvd' = [rcvd EXCEPT ![p] = @ \cup {Message(h)}]
    /\ UNCHANGED sleep

\* fits: the request is no longer than the server's buffer.
do_recv(t, h, fits) ==
    /\ Ready(t) /\ Owns(t, h)
    /\ \/ RecvEmpty(h)
       \/ ~fits /\ RecvTooBig(h)
       \/ fits /\ RecvDeliver(ProcOf[t], h)
    /\ UNCHANGED <<genc, pstate, pend, cnt>>

\* The reply is stored, dropped because the client gave up, or refused.
Answers(m) ==
    /\ call_from_id(m.id, call)
    /\ call[m.id[2]].ep = m.h[2]
    /\ call[m.id[2]].epgen = ep[m.h[2]].gen

CanAnswer(m) == Answers(m) /\ call[m.id[2]].state = "SERVING"
CanDrop(m)   == Answers(m) /\ call[m.id[2]].state = "ABANDONED"

do_reply(t, m) ==
    /\ Idle(t) /\ m \in rcvd[ProcOf[t]]
    /\ LET s == m.id[2] IN
       \/ /\ Owns(t, m.h) /\ CanAnswer(m)
          /\ call' = [call EXCEPT ![s].state = "DONE", ![s].resp = m.req]
          /\ sleep' = wake_tid({call[s].tid})
       \/ /\ Owns(t, m.h) /\ CanDrop(m)
          /\ call' = [call EXCEPT ![s] = FreeCall]
          /\ UNCHANGED sleep
       \/ /\ ~(Owns(t, m.h) /\ (CanAnswer(m) \/ CanDrop(m)))
          /\ UNCHANGED <<call, sleep>>
    /\ rcvd' = [rcvd EXCEPT ![ProcOf[t]] = @ \ {m}]
    /\ UNCHANGED <<ep, genc, pstate, pend, cnt>>

-----------------------------------------------------------------------------
(* Kernel-side client API.  A kernel client cannot block in a nested call: *)
(* it begins, polls and abandons, and decides itself how to wait.  These   *)
(* operators are the values the tables take; the client's step uses them.  *)

\* AuIpcKCallBegin, for a client that has changed the call table to calls
\* before, looks the endpoint up by name: no ACL, no owner check.
KEndpoints(name) == {i \in EpSlots : PrunedEp[i].used /\ PrunedEp[i].name = name}
KEndpoint(name)  == Lowest(KEndpoints(name))
KPruned(calls)   == GoneCalls(DeadOwners, calls)

KAdmitted(name, calls) ==
    /\ KEndpoints(name) # {}
    /\ Len(PrunedEp[KEndpoint(name)].queue) < EpQueue
    /\ CallFree(KPruned(calls)) # {}

KSlot(calls)   == Lowest(CallFree(KPruned(calls)))
KGen(calls)    == KPruned(calls)[KSlot(calls)].gen + 1
KCallId(calls) == make_id(KGen(calls), KSlot(calls))
KCall(t, name, calls) ==
    [KPruned(calls) EXCEPT ![KSlot(calls)] = QueuedCall(t, KEndpoint(name), KGen(calls))]
KEp(name, calls) ==
    [PrunedEp EXCEPT ![KEndpoint(name)].queue = Append(@, KSlot(calls)),
                     ![KEndpoint(name)].waiter = None]

\* Whom a call that fails wakes, and whom one that is queued.
KFailed(calls)      == FailedTids(DeadOwners, calls)
KWoken(name, calls) == KFailed(calls) \cup {PrunedEp[KEndpoint(name)].waiter}

\* AuIpcKCallPoll: what it returns, and the calls it leaves.
KPoll(id) ==
    IF ~call_from_id(id, call) THEN "NOENT"
    ELSE CASE call[id[2]].state = "DONE"   -> "OK"
           [] call[id[2]].state = "FAILED" -> "FAILED"
           [] OTHER                        -> "TIMEOUT"

KPolled(id) == IF KPoll(id) \in {"OK", "FAILED"}
               THEN [call EXCEPT ![id[2]] = FreeCall] ELSE call

\* AuIpcKCallAbandon of a call, n times over: the second one frees it.
KAbandon(c, n) ==
    CASE n = 0                        -> c
      [] n = 1 /\ c.state \in InFlight -> [c EXCEPT !.state = "ABANDONED"]
      [] OTHER                         -> FreeCall

-----------------------------------------------------------------------------
(* The scheduler and process life, as far as IPC depends on them *)

\* Mutant: the sleep of CALL has no deadline.
Timeout_WaitOnly(t) ==
    /\ sleep[t] = "wait"
    /\ sleep' = [sleep EXCEPT ![t] = "no"]
    /\ UNCHANGED <<ep, call, genc, pstate, pend, cnt, rcvd>>

\* The sleep's deadline passes.
Timeout(t) ==
    /\ sleep[t] # "no"
    /\ sleep' = [sleep EXCEPT ![t] = "no"]
    /\ UNCHANGED <<ep, call, genc, pstate, pend, cnt, rcvd>>

\* AuProcessExit: the threads leave the scheduler, the process is a zombie.
AuProcessExit(p) ==
    /\ p \in Mortal /\ pstate[p] = "run"
    /\ pstate' = [pstate EXCEPT ![p] = "died"]
    /\ sleep' = [t \in Threads |-> IF ProcOf[t] = p THEN "no" ELSE sleep[t]]
    /\ pend' = [t \in Threads |-> IF ProcOf[t] = p THEN NoId ELSE pend[t]]
    /\ rcvd' = [rcvd EXCEPT ![p] = {}]
    /\ UNCHANGED <<ep, call, genc, cnt>>

\* Mutant: the reaper frees the process and leaves its endpoints behind.
AuProcessClean_NoIpc(p) ==
    /\ pstate[p] = "died"
    /\ pstate' = [pstate EXCEPT ![p] = "reaped"]
    /\ UNCHANGED <<ep, call, genc, sleep, pend, cnt, rcvd>>

\* AuProcessClean: the parent reaps the zombie.
AuProcessClean(p) ==
    /\ pstate[p] = "died"
    /\ AuIpcProcessGone(p)
    /\ pstate' = [pstate EXCEPT ![p] = "reaped"]
    /\ UNCHANGED <<pend, cnt, rcvd>>

\* ipc_ioctl: the dispatch on the ioctl code.
ipc_ioctl(t) ==
    \/ \E name \in Names, acl \in Acls : do_create(t, name, acl)
    \/ do_connect(t)
    \/ do_fetch(t)
    \/ \E h \in Handles :
          \/ do_destroy(t, h)
          \/ do_call(t, h)
          \/ do_wait(t, h)
          \/ \E fits \in BOOLEAN : do_recv(t, h, fits)
    \/ \E m \in rcvd[ProcOf[t]] : do_reply(t, m)

Next ==
    \/ \E t \in Threads : ipc_ioctl(t) \/ Timeout(t)
    \/ \E p \in Procs : AuProcessExit(p) \/ AuProcessClean(p)

Spec == Init /\ [][Next]_vars

\* The scheduler runs every ready thread: a client back from CALL fetches, a
\* server with a request to take or to answer does so, a parent reaps.
ServersFair ==
    /\ \A t \in Threads :
          /\ WF_vars(do_fetch(t))
          /\ WF_vars(\E h \in Handles : do_recv(t, h, TRUE))
          /\ WF_vars(\E m \in rcvd[ProcOf[t]] : do_reply(t, m))
    /\ \A p \in Procs : WF_vars(AuProcessClean(p))

SpecServersFair == Spec /\ ServersFair

-----------------------------------------------------------------------------
(* Properties *)

EndpointRec ==
    [used : BOOLEAN, gen : Nat, name : Names \cup {None}, owner : Procs \cup {None},
     acl : Acls, waiter : Threads \cup {None}, queue : Seq(CallSlots)]

CallRec ==
    [state : CallStates, gen : Nat, ep : EpSlots, epgen : Nat,
     pid : Procs \cup {None}, tid : Threads \cup {None},
     req : Reqs \cup {NoReq}, resp : Reqs \cup {NoReq}]

Received == [h : Nat \X EpSlots, id : Nat \X CallSlots, req : Reqs \cup {NoReq}]

\* Type invariant of the two tables and of the threads' user-side memory; the
\* queue array of an endpoint is never overrun (e->queue[e->qcount++]).
TypeOK ==
    /\ ep \in [EpSlots -> EndpointRec]
    /\ \A i \in EpSlots : Len(ep[i].queue) <= EpQueue
    /\ call \in [CallSlots -> CallRec]
    /\ genc \in Nat \ {0}
    /\ pstate \in [Procs -> {"run", "died", "reaped"}]
    /\ sleep \in [Threads -> {"no", "call", "wait"}]
    /\ pend \in [Threads -> {NoId} \cup (Nat \X CallSlots)]
    /\ cnt \in [Threads -> 0 .. MaxReq]
    /\ rcvd \in [Procs -> SUBSET Received]

\* The endpoint a call was queued on is still the one in its slot.
EndpointLives(c) == ep[c.ep].used /\ ep[c.ep].gen = c.epgen

\* A queued call is never lost: it is in the queue of its endpoint, and that
\* endpoint is still there (do_call, do_recv, AuIpcProcessGone).
QueuedCallsReachable ==
    \A s \in CallSlots :
        call[s].state = "QUEUED" =>
            /\ EndpointLives(call[s])
            /\ \E k \in 1 .. Len(ep[call[s].ep].queue) : ep[call[s].ep].queue[k] = s

\* The check-then-sleep of do_wait cannot miss a request: an endpoint with
\* queued calls has no registered waiter (do_call takes it out and wakes it).
NoWaiterWithRequests ==
    \A i \in EpSlots : ep[i].waiter # None => ep[i].used /\ ep[i].queue = <<>>

\* e->owner is never a dangling pointer: an endpoint is torn down no later than
\* its process is reaped (AuProcessClean), so ipc_prune_dead may read owner->state.
OwnerNotReaped ==
    \A i \in EpSlots : ep[i].used => ep[i].owner \in Procs /\ pstate[ep[i].owner] # "reaped"

\* Two live endpoints never share a name, across deaths and replacements of
\* their servers (do_create after ipc_prune_dead).
NamesUnique ==
    \A i, j \in EpSlots : ep[i].used /\ ep[j].used /\ ep[i].name = ep[j].name => i = j

\* A handle names at most one endpoint, ever: the generation of a slot never
\* decreases, grows when the endpoint is removed, and while it is unchanged the
\* endpoint keeps its owner, name and ACL (make_id / ep_from_handle).
HandlesNeverReused ==
    [][\A i \in EpSlots :
          /\ ep'[i].gen >= ep[i].gen
          /\ ep[i].used /\ ~ep'[i].used => ep'[i].gen > ep[i].gen
          /\ ep[i].used /\ ep'[i].used /\ ep'[i].gen = ep[i].gen =>
                /\ ep'[i].owner = ep[i].owner
                /\ ep'[i].name = ep[i].name
                /\ ep'[i].acl = ep[i].acl]_vars

\* The slot of a sleeping client's call, which is still its own.
SleepsOn(t, s) == sleep[t] = "call" /\ pend[t] = make_id(call[s].gen, s) /\ call[s].tid = t

\* No lost wake-up on the client side: a thread is never asleep in CALL while
\* its call is answered or failed (do_reply, call_fail).
ClientsWoken ==
    \A t \in Threads, s \in CallSlots :
        SleepsOn(t, s) => call[s].state \notin {"FREE", "DONE", "FAILED"}

\* "Drops late replies after a timeout": the answer a client is about to fetch
\* is the answer to the request it made.
AnswersMatch ==
    \A t \in Threads :
        pend[t] # NoId /\ MyCall(t) /\ call[pend[t][2]].state = "DONE"
            => call[pend[t][2]].resp = <<t, cnt[t]>>
============================================================================
