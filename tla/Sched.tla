------------------------------- MODULE Sched -------------------------------
(***************************************************************************)
(* The scheduler of the Aurora kernel at work: what threads, interrupts    *)
(* and wakers do with the lists of ThreadLists.                            *)
(*                                                                         *)
(* System calls run with interrupts masked and are one step; the kernel    *)
(* threads of Unmasked can be interrupted between two calls.  Time passes  *)
(* while user code, a job or the idle thread runs.                         *)
(***************************************************************************)
EXTENDS ThreadLists

CONSTANTS
    Unmasked,     \* kernel threads: they run with interrupts enabled
    Wcet,         \* the times a thread may announce, in ticks; its jobs keep to them
    MaxNap        \* bound: ticks of a sleep

ASSUME SchedConstants ==
    /\ RealTime \subseteq Unmasked /\ Unmasked \subseteq Threads
    /\ Wcet \in [RealTime -> SUBSET (Nat \ {0})]
    /\ \A t \in RealTime : \A c \in Wcet[t] : c <= Period[t]
    /\ MaxNap \in Nat \ {0}

VARIABLES
    k,       \* the scheduler: lists, current thread, and the threads' fields
    scheduler_tick,   \* modulo 2
    armed,   \* AuScheduleNext made the timer fire at once
    pc,      \* where an unmasked thread is between two calls
    left,    \* ticks of work left in the job of a real-time thread
    asked    \* real-time threads that asked for their reservation

vars == <<k, scheduler_tick, armed, pc, left, asked>>

-----------------------------------------------------------------------------
(* What threads and interrupts do *)

Init ==
    /\ \E order \in [1 .. Cardinality(Threads) -> Threads] :
          /\ \A t \in Threads : \E i \in DOMAIN order : order[i] = t
          /\ \A i, j \in DOMAIN order : i < j => order[i] < order[j]
          /\ k = InitialK(order)
    /\ scheduler_tick = 0
    /\ armed = FALSE
    /\ pc = [t \in Threads |-> "run"]
    /\ left = [t \in Threads |-> 0]
    /\ asked = {}

Running(t) == k.cur = t /\ pc[t] = "run" /\ ~k.wild

\* A job is over when it has used the time it announced.
JobOver(t) == k.edf[t].on /\ left[t] = 0

\* A kernel thread is between two of its calls: no time passes there.
Between == k.cur # Idle /\ pc[k.cur] # "run"

\* The timer interrupt, a tick later.
Tick ==
    /\ ~k.wild /\ ~armed /\ ~Between
    /\ k.cur # Idle => ~JobOver(k.cur)
    /\ scheduler_tick' = (scheduler_tick + 1) % 2
    /\ k' = AuScheduleThread(Aged(k))
    /\ left' = [t \in Threads |-> IF t = k.cur /\ k.edf[t].on THEN left[t] - 1 ELSE left[t]]
    /\ UNCHANGED <<armed, pc, asked>>

\* The timer interrupt, between two calls or because AuScheduleNext asked for it.
Kick ==
    /\ ~k.wild
    /\ armed \/ Between
    /\ k' = AuScheduleThread(k)
    /\ armed' = FALSE
    /\ UNCHANGED <<scheduler_tick, pc, left, asked>>

\* System calls that come back through the exception frame: ProcessSleep,
\* ipc_sleep, hw_handle_ioctl and srv_sleep, and PauseThread.
BestEffort(t) == Running(t) /\ t \notin asked

svc_sleep(t, nap) ==
    /\ BestEffort(t) /\ t \notin Unmasked
    /\ k' = AuScheduleThread(AuSleepThread(k, t, nap))
    /\ UNCHANGED <<scheduler_tick, armed, pc, left, asked>>

svc_block(t) ==
    /\ BestEffort(t) /\ t \notin Unmasked
    /\ k' = AuScheduleThread(AuBlockThread(k, t))
    /\ UNCHANGED <<scheduler_tick, armed, pc, left, asked>>

\* AuSchedYieldMs, and AuPoll with a timeout.
AuSchedYieldMs(t, nap, poll) ==
    /\ BestEffort(t) /\ t \notin Unmasked
    /\ k' = AuScheduleNext(AuSleepThread([k EXCEPT !.polling[t] = poll], t, nap))
    /\ armed' = TRUE
    /\ UNCHANGED <<scheduler_tick, pc, left, asked>>

\* AuPoll without a timeout.
AuPoll(t) ==
    /\ BestEffort(t) /\ t \notin Unmasked
    /\ k' = AuScheduleNext(AuBlockThread([k EXCEPT !.polling[t] = TRUE], t))
    /\ armed' = TRUE
    /\ UNCHANGED <<scheduler_tick, pc, left, asked>>

\* The first half of the same in a kernel thread: soak_sleep_ms and soak_churn.
Park(t) ==
    /\ BestEffort(t) /\ t \in Unmasked
    /\ \/ \E nap \in 1 .. MaxNap :
             k' = AuSleepThread(k, t, nap)
       \/ k' = AuBlockThread(k, t)
    /\ pc' = [pc EXCEPT ![t] = "parked"]
    /\ UNCHANGED <<scheduler_tick, armed, left, asked>>

\* AuScheduleNext of an unmasked thread, in two steps.
ParkedLeaves(t) ==
    /\ ~k.wild /\ k.cur = t /\ pc[t] = "parked"
    /\ k' = LeaveKernel(k)
    /\ armed' = TRUE
    /\ pc' = [pc EXCEPT ![t] = "leaving"]
    /\ UNCHANGED <<scheduler_tick, left, asked>>

ParkedHandsOff(t) ==
    /\ ~k.wild /\ k.cur = t /\ pc[t] = "leaving"
    /\ k' = HandOff(k)
    /\ pc' = [pc EXCEPT ![t] = "run"]
    /\ UNCHANGED <<scheduler_tick, armed, left, asked>>

\* soak_edf_worker asks once.
soak_edf_worker(t) ==
    /\ Running(t) /\ t \notin asked
    /\ \E c \in Wcet[t] :
          /\ k' = AuEDFSetParams(k, t, c)
          /\ left' = [left EXCEPT ![t] = IF Admits(k, t, c) THEN c ELSE 0]
    /\ asked' = asked \cup {t}
    /\ UNCHANGED <<scheduler_tick, armed, pc>>

AuEDFWaitPeriod(t) ==
    /\ Running(t) /\ k.edf[t].on
    /\ left' = [left EXCEPT ![t] = k.edf[t].wcet]
    /\ k' = EndJob(k, t)
    /\ pc' = [pc EXCEPT ![t] = "parked"]
    /\ UNCHANGED <<scheduler_tick, armed, asked>>

\* soak_parker: the end of a real-time thread.
soak_parker(t) ==
    /\ Running(t) /\ t \in asked
    /\ left' = [left EXCEPT ![t] = 0]
    /\ k' = AuBlockThread(AuEDFRemove(k, t), t)
    /\ pc' = [pc EXCEPT ![t] = "parked"]
    /\ UNCHANGED <<scheduler_tick, armed, asked>>

\* A signal, a reply, a device interrupt or a futex wake for thread t.
Wake(t) ==
    /\ ~k.wild
    /\ k' = AuThreadMakeReady(k, t)
    /\ UNCHANGED <<scheduler_tick, armed, pc, left, asked>>

\* PostBoxPutEventByID: only for a thread found blocked.
PostBoxPutEventByID(t) ==
    /\ ~k.wild
    /\ k.state[t] = "BLOCKED" /\ (OnList(k, "ready", t) \/ OnList(k, "blocked", t))
    /\ k' = AuUnblockThread(k, t)
    /\ UNCHANGED <<scheduler_tick, armed, pc, left, asked>>

\* soak_waker, and the drivers' threads: for a thread on the blocked list.
soak_waker(t) ==
    /\ ~k.wild /\ OnList(k, "blocked", t)
    /\ k' = AuUnblockThread(k, t)
    /\ UNCHANGED <<scheduler_tick, armed, pc, left, asked>>

\* AuWaitQueue_Wake reaches thread t.
PollWake(t) ==
    /\ ~k.wild
    /\ k' = AuThreadWakePoller(k, t)
    /\ UNCHANGED <<scheduler_tick, armed, pc, left, asked>>

Wakes(t) ==
    \/ Wake(t)
    \/ PostBoxPutEventByID(t)
    \/ soak_waker(t)
    \/ PollWake(t)

Calls(t) ==
    \/ svc_block(t) \/ AuPoll(t) \/ Park(t) \/ ParkedLeaves(t) \/ ParkedHandsOff(t)
    \/ \E nap \in 1 .. MaxNap :
          svc_sleep(t, nap) \/ \E poll \in BOOLEAN : AuSchedYieldMs(t, nap, poll)

Next ==
    \/ Tick \/ Kick
    \/ \E t \in Threads : Calls(t)
    \/ \E t \in Threads \ asked : Wakes(t)
    \/ \E t \in RealTime : soak_edf_worker(t) \/ AuEDFWaitPeriod(t) \/ soak_parker(t)

Spec == Init /\ [][Next]_vars

\* Time passes, unless undefined behaviour ended the run.
TimePasses == <>[]k.wild \/ []<><<Tick>>_vars

SpecFair == Spec /\ TimePasses

-----------------------------------------------------------------------------
(* Properties *)

ThreadStates == {"READY", "BLOCKED", "SLEEP", "KILLABLE", "LEFT_IN_KERNEL", "RUNNING"}

\* Type invariant of the scheduler's record and of the threads.
SchedTypeOK ==
    /\ \A l \in Lists : k.list[l] \in Seq(All)
    /\ k.state \in [All -> ThreadStates] /\ k.cur \in All
    /\ k.frame \in [All -> {"entry", "exception", "handoff"}]
    /\ k.polling \in [All -> BOOLEAN] /\ k.until \in [All -> 0 .. MaxNap]
    /\ \A t \in All : k.edf[t].waiting => k.edf[t].on
    /\ k.util \in Int /\ k.wild \in BOOLEAN
    /\ left \in [Threads -> Nat] /\ asked \subseteq RealTime

Allowed(l) ==
    CASE l = "ready"   -> {"READY", "RUNNING", "LEFT_IN_KERNEL"}
      [] l = "blocked" -> {"BLOCKED", "LEFT_IN_KERNEL"}
      [] l = "sleep"   -> {"SLEEP", "LEFT_IN_KERNEL"}
      [] l = "trash"   -> {"KILLABLE"}

\* The links of a thread: a list, and a place on it.
Links(t) ==
    UNION {{<<l, i>> : i \in {j \in DOMAIN k.list[l] : k.list[l][j] = t}} : l \in Lists}

\* AuSchedValidateLists, which the soak test asserts of every moment: the state
\* of a thread allows the list it is on; and no thread is lost or linked twice.
ListsValid ==
    /\ \A l \in Lists : \A i \in DOMAIN k.list[l] : k.state[k.list[l][i]] \in Allowed(l)
    /\ \A t \in All : Cardinality(Links(t)) = 1

\* "I treat this frame as the only valid resume point" (AuScheduleThread): a
\* thread that is not running is resumed the way it left.
FrameFits(t) ==
    t # k.cur => (k.state[t] = "LEFT_IN_KERNEL") = (k.frame[t] = "handoff")

\* So for every thread that enters the kernel with interrupts masked.  It is not so
\* for kernel threads: the timer can strike AuScheduleNext after it has set the
\* state and before it stores the frame (sched.c:592).
MaskedFramesFit == \A t \in Threads \ Unmasked : FrameFits(t)

\* "Admitted tasks are schedulable on one CPU" (sched_edf.c:9): the reservations
\* never exceed the CPU, and a released job is never past its deadline, as long as
\* jobs keep to the time they announced.
DeadlinesHeld ==
    /\ k.util \in 0 .. One
    /\ \A t \in RealTime :
          k.edf[t].on /\ ~k.wild =>
              deadline(k, t) >= IF k.edf[t].waiting THEN 0 ELSE left[t]

\* A thread that is ready or asleep runs in the end, unless real-time threads
\* keep the CPU: no place in the round robin starves.
EveryThreadRuns ==
    \A t \in Threads :
        (OnList(k, "ready", t) \/ OnList(k, "sleep", t))
            ~> (k.cur = t \/ EdfReady(k) # {} \/ k.wild)
=============================================================================
