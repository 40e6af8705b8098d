-------------------------------- MODULE Proc --------------------------------
(***************************************************************************)
(* Processes and their threads: how they exit, are killed, are waited for  *)
(* and are reaped.  KernelAA64/process.c and clean.c, the system calls of  *)
(* Serv/thrserv.c, the waiting of Hal/sched.c, and the end of a process in *)
(* the abort handler of Hal/vector.c, on the lists of ThreadLists.         *)
(*                                                                         *)
(* Every action is a system call or a fault of the thread that has the     *)
(* CPU, made with interrupts masked, or the timer interrupt.  A process    *)
(* has a main thread and the sub threads it creates.                       *)
(***************************************************************************)
EXTENDS ThreadLists

CONSTANTS
    Procs,      \* processes
    root,       \* the root process, init: it reaps and never exits
    Main,       \* main thread of each process
    SubOf,      \* the process that may create it, for every other thread
    Signalled,  \* threads that may be sent a signal
    MaxWaits    \* bound: entries on a waitlist

Subs == DOMAIN SubOf

ASSUME ProcConstants ==
    /\ RealTime = {} /\ IsFiniteSet(Procs) /\ root \in Procs
    /\ Main \in [Procs -> Threads] /\ SubOf \in [Subs -> Procs]
    /\ Subs = Threads \ {Main[p] : p \in Procs}
    /\ \A p, q \in Procs : Main[p] = Main[q] => p = q
    /\ Signalled \subseteq Threads /\ MaxWaits \in Nat \ {0}

VARIABLES
    k,       \* the scheduler
    procs,   \* the process table
    joins,   \* waitlist of a thread: the threads that wait for its end
    at       \* where a thread is: in user code, waiting in the kernel, or over

vars == <<k, procs, joins, at>>

\* A process as AuCreateProcessSlot leaves it.
Slot == [state |-> "alive", threads |-> <<>>, busy |-> FALSE, waiting |-> 0, waitlist |-> <<>>]

User == <<"user">>
Over == <<"over">>

Init ==
    /\ \E order \in [1 .. Cardinality(Procs) -> Procs] :
          /\ order[1] = root /\ Elems(order) = Procs
          /\ k = InitialK([i \in DOMAIN order |-> Main[order[i]]])
    /\ procs = [p \in Procs |-> Slot]
    /\ joins = [t \in Threads |-> <<>>]
    /\ at = [t \in All |-> User]

Listed(p) == procs[p].state # "reaped"

\* AuProcessFindThread: by the main thread only.
AuProcessFindThread(t) == {p \in Procs : Listed(p) /\ Main[p] = t}

\* The process of any thread (procSlot).
ProcOf(t) == IF t \in Subs THEN SubOf[t] ELSE CHOOSE p \in Procs : Main[p] = t

\* The system calls below change a record of scheduler, process table and waitlists.
Now == [k |-> k, procs |-> procs, joins |-> joins]

Unblock(m, t) == [m EXCEPT !.k = AuUnblockThread(@, t)]
Trash(m, t)   == [m EXCEPT !.k = AuThreadMoveToTrash(@, t)]

\* Applies op to the threads of s, one after the other.
Each(op(_, _), m, s) ==
    LET f[i \in 0 .. Len(s)] == IF i = 0 THEN m ELSE op(f[i - 1], s[i]) IN f[Len(s)]

-----------------------------------------------------------------------------
(* Waiting for the end of a thread *)

AuProcessReapWaitcount(m, p) ==
    LET n == m.procs[p].waiting - 1
    IN  [m EXCEPT !.procs[p].waiting = IF n <= 0 THEN 0 ELSE n,
                  !.procs[p].busy = @ /\ n > 0]

\* Waiters are main threads, of processes that are still listed.
AwakeWaiter(m, w) == Unblock(AuProcessReapWaitcount(m, ProcOf(w)), w)

AwakeAll(m, s) == Each(AwakeWaiter, m, s)

AuThreadAwakeWaiters(m, t) == [AwakeAll(m, m.joins[t]) EXCEPT !.joins[t] = <<>>]

\* AuProcessFreeKeResource: post box, sound and timer are not modelled.
AuProcessFreeKeResource(m, t) == AuThreadAwakeWaiters(m, t)

-----------------------------------------------------------------------------
(* The end of a process *)

UnblockAll(m, s) == Each(Unblock, m, s)

AuProcessWakeWaiters(m, p) ==
    [UnblockAll(m, m.procs[p].waitlist) EXCEPT !.procs[p].waitlist = <<>>]

Refused(m, p) == m.procs[p].state # "alive" \/ m.procs[p].busy \/ p = root

\* Mutant: only the main thread is stopped.
OtherThreads_Main(m, p) == IF Main[p] # m.k.cur THEN <<Main[p]>> ELSE <<>>

OtherThreads(m, p) == Without(<<Main[p]>> \o m.procs[p].threads, {m.k.cur})

TrashAll(m, s) == Each(Trash, m, s)

\* Threads that are marked already are passed over: of the sub threads, all but
\* the current one.
EndSub(m, t) ==
    IF m.k.state[t] = "KILLABLE" THEN m
    ELSE LET r == AuProcessFreeKeResource(m, t) IN IF t = m.k.cur THEN Trash(r, t) ELSE r

EndSubs(m, s) == Each(EndSub, m, s)

\* Mutant: nobody is told.
AuProcessExit_Silent(m, p) ==
    IF Refused(m, p) THEN m
    ELSE LET stopped == TrashAll(m, OtherThreads(m, p))
             freed   == AuProcessFreeKeResource(stopped, Main[p])
             ended   == EndSubs(freed, m.procs[p].threads)
         IN  [ended EXCEPT !.procs[p].state = "died"]

AuProcessExit(m, p) ==
    IF Refused(m, p) THEN m
    ELSE LET stopped == TrashAll(m, OtherThreads(m, p))
             freed   == AuProcessFreeKeResource(stopped, Main[p])
             woken   == AuProcessWakeWaiters(freed, p)
             ended   == EndSubs(woken, m.procs[p].threads)
         IN  [ended EXCEPT !.procs[p].state = "died"]

-----------------------------------------------------------------------------
(* Reaping *)

\* The address space in use is that of the current process.
AuProcessCanReap(m, p) ==
    /\ m.procs[p].state = "died"
    /\ m.k.cur = Idle \/ ProcOf(m.k.cur) # p
    /\ \A t \in {Main[p]} \cup Elems(m.procs[p].threads) : m.k.state[t] = "KILLABLE"

\* Mutant: the threads of a process stay linked.
AuProcessClean_Linked(m, p) == [m EXCEPT !.procs[p].state = "reaped"]

CleanThread(m, t) == [m EXCEPT !.k = AuThreadCleanTrash(@, t), !.joins[t] = <<>>]

CleanAll(m, s) == Each(CleanThread, m, s)

AuProcessClean(m, p) ==
    LET cleaned == CleanAll(m, m.procs[p].threads \o <<Main[p]>>)
    IN  [AuProcessWakeWaiters(cleaned, p) EXCEPT !.procs[p].state = "reaped"]

ReapOne(m, p) == IF AuProcessCanReap(m, p) THEN AuProcessClean(m, p) ELSE m

ReapAll(m, s) == Each(ReapOne, m, s)

-----------------------------------------------------------------------------
(* What the current thread does *)

InUser(t) == k.cur = t /\ ~k.wild

\* The call ends in AuScheduleThread; the thread it picks is in user code then,
\* and one that is over never is.
Switch(m, where) ==
    LET q == AuScheduleThread(m.k)
    IN  /\ k' = q
        /\ procs' = m.procs
        /\ joins' = m.joins
        /\ at' = IF where[q.cur] = Over THEN where ELSE [where EXCEPT ![q.cur] = User]

\* Threads whose code ran to its end in this step: t, and what its exit stopped.
Ended(m, where, t) ==
    [u \in All |-> IF u = t \/ m.k.state[u] = "KILLABLE" THEN Over ELSE where[u]]

Tick == ~k.wild /\ Switch(Now, at)

AuCreateUserthread(t, u) ==
    /\ InUser(t) /\ ProcOf(t) = SubOf[u]
    /\ u \notin Elems(procs[SubOf[u]].threads)
    /\ k' = schedLink(k, "ready", u)
    /\ procs' = [procs EXCEPT ![SubOf[u]].threads = Append(@, u)]
    /\ UNCHANGED <<joins, at>>

\* pthread_join: of a thread that is found on one of the lists.
AuThreadWaitForTermination(t, u) ==
    /\ InUser(t)
    /\ \E l \in Lists \ {"trash"} : OnList(k, l, u)
    /\ \E p \in AuProcessFindThread(t) :
          /\ u \in Elems(procs[p].threads) /\ Len(joins[u]) < MaxWaits
          /\ Switch([Now EXCEPT !.procs[p].busy = TRUE,
                                !.procs[p].waiting = @ + 1,
                                !.joins[u] = Append(@, t),
                                !.k = AuBlockThread(@, t)],
                    [at EXCEPT ![t] = <<"join", u>>])

\* ProcessWaitForTermination of a given process.
AuProcessWaitForTermination(t, p) ==
    /\ InUser(t) /\ p # ProcOf(t)
    /\ procs[p].state = "alive" /\ Len(procs[p].waitlist) < MaxWaits
    /\ Switch([Now EXCEPT !.k = AuBlockThread(@, t), !.procs[p].waitlist = Append(@, t)],
              [at EXCEPT ![t] = <<"wait", p>>])

\* ProcessWaitForTermination(-1): reaps all it can, in the order of the table.
ReapAny(t) ==
    /\ InUser(t) /\ t = Main[root]
    /\ \E order \in [1 .. Cardinality(Procs) -> Procs] :
          /\ Elems(order) = Procs
          /\ LET m == ReapAll(Now, order)
             IN  /\ m # Now
                 /\ k' = m.k /\ joins' = m.joins
                 /\ procs' = [m.procs EXCEPT ![root].busy = FALSE]
    /\ UNCHANGED at

\* From a sub thread the process is not found, and the kernel loops for ever.
ProcessExit(t) ==
    /\ InUser(t)
    /\ \/ /\ AuProcessFindThread(t) = {}
          /\ k' = [k EXCEPT !.wild = TRUE]
          /\ UNCHANGED <<procs, joins, at>>
       \/ \E p \in AuProcessFindThread(t) \ {root} :
             LET m == Trash(AuProcessExit(Now, p), t) IN Switch(m, Ended(m, at, t))

\* EL0 abort: the whole process is killed, or the thread alone.
Fault(t) ==
    /\ InUser(t) /\ ProcOf(t) # root
    /\ LET m == Trash(AuProcessExit(Now, ProcOf(t)), t) IN Switch(m, Ended(m, at, t))

\* AuThreadMoveToTrash finds the thread marked and leaves it where it is.
ExitSubThread(t) ==
    /\ InUser(t) /\ t \in Subs
    /\ LET m == AuProcessFreeKeResource([Now EXCEPT !.k.state[t] = "KILLABLE"], t)
       IN  Switch(Trash(m, t), Ended(m, at, t))

\* SendSignal and SendSignalToThread, from whatever thread runs.
AuAllocSignal(t) ==
    /\ ~k.wild /\ t \in Signalled /\ Listed(ProcOf(t))
    /\ k' = AuThreadMakeReady(k, t)
    /\ UNCHANGED <<procs, joins, at>>

Next ==
    \/ Tick
    \/ \E t \in Threads :
          \/ \E u \in Subs : AuCreateUserthread(t, u) \/ AuThreadWaitForTermination(t, u)
          \/ \E p \in Procs : AuProcessWaitForTermination(t, p)
          \/ ReapAny(t) \/ ProcessExit(t) \/ Fault(t)
          \/ AuAllocSignal(t)
    \/ \E t \in Subs : ExitSubThread(t)

Spec == Init /\ [][Next]_vars

-----------------------------------------------------------------------------
(* Properties *)

\* Type invariant.
ProcTypeOK ==
    /\ \A l \in Lists : Elems(k.list[l]) \subseteq All
    /\ \A l, m \in Lists : l # m => Elems(k.list[l]) \cap Elems(k.list[m]) = {}
    /\ k.state \in [All -> {"READY", "RUNNING", "BLOCKED", "KILLABLE"}] /\ k.cur \in All
    /\ \A p \in Procs :
          /\ procs[p].state \in {"alive", "died", "reaped"}
          /\ Elems(procs[p].threads) \subseteq {u \in Subs : SubOf[u] = p}
          /\ procs[p].busy \in BOOLEAN /\ procs[p].waiting \in Nat
    /\ \A t \in Threads : Len(joins[t]) <= MaxWaits
    /\ \A t \in All : at[t] \in {User, Over} \cup ({"join"} \X Subs) \cup ({"wait"} \X Procs)

\* A thread blocked for the end of a process waits for one that is alive: an
\* exit misses no waiter, and nobody starts to wait after it.
WaitersWoken ==
    \A t \in Threads, p \in Procs :
        at[t] = <<"wait", p>> /\ k.state[t] = "BLOCKED" => procs[p].state = "alive"

\* A thread blocked for the end of a thread waits for one that is not over
\* ("wait for desired thread termination", sched.c:978).
JoinersWoken ==
    \A t \in Threads, u \in Subs :
        at[t] = <<"join", u>> /\ k.state[t] = "BLOCKED" => at[u] # Over

\* "Publish death only after exit cleanup is complete" (process.c:472): when a
\* process has died, every thread of it is over.
DeathIsComplete ==
    \A p \in Procs :
        procs[p].state # "alive" =>
            \A t \in {Main[p]} \cup Elems(procs[p].threads) : at[t] = Over

\* The memory of a reaped process's threads is gone: the scheduler has no link to
\* them, and neither the waitlist of a thread.
ReapedUnlinked ==
    \A t \in Threads :
        procs[ProcOf(t)].state = "reaped" /\ ~k.wild =>
            /\ k.cur # t
            /\ \A l \in Lists : ~OnList(k, l, t)
            /\ \A u \in Threads : t \notin Elems(joins[u])
=============================================================================
