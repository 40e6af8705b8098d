---------------------------- MODULE ThreadLists ----------------------------
(***************************************************************************)
(* The thread lists of the Aurora kernel and the functions that move       *)
(* threads between them: KernelAA64/Hal/sched.c and its real-time class,   *)
(* KernelAA64/Hal/sched_edf.c.  Sched and Proc are built on them.          *)
(*                                                                         *)
(* The state of the scheduler is one record, and every function of the     *)
(* code that changes it is an operator on that record, so that a system    *)
(* call is the composition of the functions it calls.  There is one CPU.   *)
(* A thread leaves it in one of two ways: through the exception frame of   *)
(* an interrupt or system call (AuScheduleThread), or by a handoff to the  *)
(* idle thread from inside the kernel (AuScheduleNext), which leaves a     *)
(* frame of another shape behind.  Time is kept as the ticks left until    *)
(* each deadline, so that the clock needs no bound.                        *)
(***************************************************************************)
EXTENDS Selection

CONSTANTS
    Threads,      \* thread ids (thread_id); the idle thread has id 0
    RealTime,     \* kernel threads that ask for an EDF reservation
    Period        \* of a real-time thread, in ticks

ASSUME ListConstants ==
    /\ Threads \subseteq Nat \ {0} /\ IsFiniteSet(Threads) /\ RealTime \subseteq Threads
    /\ Period \in [RealTime -> Nat \ {0}]

Idle == 0
All  == Threads \cup {Idle}
Lists == {"ready", "blocked", "sleep", "trash"}
Runnable == {"READY", "LEFT_IN_KERNEL"}

\* No reservation (edf_enabled is 0).
NoEdf == [on |-> FALSE, wcet |-> 0, waiting |-> FALSE, release |-> 0]

\* Threads in the order of their creation; the idle thread comes first.
InitialK(order) ==
    [list    |-> [l \in Lists |-> IF l = "ready" THEN <<Idle>> \o order ELSE <<>>],
     state   |-> [t \in All |-> "READY"],
     cur     |-> Idle,
     frame   |-> [t \in All |-> "entry"],
     polling |-> [t \in All |-> FALSE],
     until   |-> [t \in All |-> 0],
     edf     |-> [t \in All |-> NoEdf],
     util    |-> 0,
     wild    |-> FALSE]

-----------------------------------------------------------------------------
(* The lists *)

OnList(q, l, t) == \E i \in DOMAIN q.list[l] : q.list[l][i] = t

schedLink(q, l, t)   == [q EXCEPT !.list[l] = Append(@, t)]
schedUnlink(q, l, t) == [q EXCEPT !.list[l] = Without(@, {t})]

\* The functions unlink without a look at the list; the list they name is the
\* one the thread is on, or its links are corrupted.
Move(q, from, to, t) ==
    [schedLink(schedUnlink(q, from, t), to, t) EXCEPT !.wild = @ \/ ~OnList(q, from, t)]

\* A thread parked in the kernel keeps its state when it is woken.
WokenState(s) == IF s = "LEFT_IN_KERNEL" THEN s ELSE "READY"

Woken(q, t) == [q EXCEPT !.state[t] = WokenState(@), !.until[t] = 0]

\* A walk over a list wakes each of the threads of s, in the order of the list.
WakeAll(q, from, s) ==
    LET woken == {s[i] : i \in DOMAIN s}
    IN  [q EXCEPT
            !.list[from]    = Without(@, woken),
            !.list["ready"] = @ \o s,
            !.state = [t \in All |-> IF t \in woken THEN WokenState(@[t]) ELSE @[t]],
            !.until = [t \in All |-> IF t \in woken THEN 0 ELSE @[t]]]

AuBlockThread(q, t) == Move([q EXCEPT !.state[t] = "BLOCKED"], "ready", "blocked", t)

AuSleepThread(q, t, nap) ==
    Move([q EXCEPT !.state[t] = "SLEEP", !.until[t] = nap], "ready", "sleep", t)

\* Mutant: the state says ready, whatever frame the thread has.
AuUnblockThread_AsReady(q, t) ==
    LET r == [q EXCEPT !.state[t] = "READY"]
    IN  IF OnList(q, "blocked", t) THEN Move(r, "blocked", "ready", t) ELSE r

\* Mutant: the thread is made ready on the blocked list.
AuUnblockThread_InPlace(q, t) == Woken(q, t)

AuUnblockThread(q, t) ==
    IF OnList(q, "blocked", t) THEN Move(Woken(q, t), "blocked", "ready", t) ELSE Woken(q, t)

AuThreadWakePoller(q, t) ==
    IF q.polling[t] /\ OnList(q, "blocked", t) THEN Move(Woken(q, t), "blocked", "ready", t)
    ELSE IF q.polling[t] /\ OnList(q, "sleep", t) THEN Move(Woken(q, t), "sleep", "ready", t)
    ELSE q

\* A sleeper that is parked in the kernel is not woken.
AuThreadMakeReady(q, t) ==
    CASE q.state[t] = "SLEEP"   -> Move(Woken(q, t), "sleep", "ready", t)
      [] q.state[t] = "BLOCKED" -> AuUnblockThread(q, t)
      [] OTHER                  -> q

-----------------------------------------------------------------------------
(* The real-time class *)

One == 65536                                              \* Q16: the whole CPU

edf_job_util_q16(t, wcet) == (wcet * One) \div Period[t]

\* What the reservation of a thread takes of the CPU now.
Share(q, t) == IF q.edf[t].on THEN edf_job_util_q16(t, q.edf[t].wcet) ELSE 0

Admits(q, t, wcet) == q.util - Share(q, t) + edf_job_util_q16(t, wcet) <= One

AuEDFSetParams(q, t, wcet) ==
    IF ~Admits(q, t, wcet) THEN q
    ELSE [q EXCEPT
            !.util = @ - Share(q, t) + edf_job_util_q16(t, wcet),
            !.edf[t] = [on |-> TRUE, wcet |-> wcet, waiting |-> FALSE, release |-> 0]]

AuEDFRemove(q, t) ==
    IF q.edf[t].on THEN [q EXCEPT !.util = @ - Share(q, t), !.edf[t] = NoEdf] ELSE q

\* Times of a reservation, from now on: a deadline is the end of the period.
deadline(q, t) == q.edf[t].release + Period[t]

\* The release after this job: periods that are over already are left out.
NextRelease(q, t) ==
    LET lost == IF deadline(q, t) <= 0 THEN (-deadline(q, t)) \div Period[t] + 1 ELSE 0
    IN  deadline(q, t) + lost * Period[t]

EndJob(q, t) ==
    AuBlockThread([q EXCEPT !.edf[t].release = NextRelease(q, t), !.edf[t].waiting = TRUE], t)

ToRelease(q, t) ==
    /\ q.edf[t].on /\ q.edf[t].waiting /\ q.edf[t].release <= 0
    /\ q.state[t] \in {"BLOCKED", "LEFT_IN_KERNEL"}

Released(q) ==
    Selection(q.list["blocked"], {i \in DOMAIN q.list["blocked"] : ToRelease(q, q.list["blocked"][i])})

AuEDFHandleReleases(q) ==
    LET s == Released(q)
        released == {s[i] : i \in DOMAIN s}
    IN  WakeAll([q EXCEPT !.edf = [t \in All |->
                    IF t \in released THEN [@[t] EXCEPT !.waiting = FALSE] ELSE @[t]]],
                "blocked", s)

\* Mutant: the earliest release goes first.
Before_Release(q, t, u) ==
    \/ q.edf[t].release < q.edf[u].release
    \/ q.edf[t].release = q.edf[u].release /\ t <= u

Before(q, t, u) ==
    \/ deadline(q, t) < deadline(q, u)
    \/ deadline(q, t) = deadline(q, u) /\ t <= u

EdfReady(q) ==
    {t \in Threads : OnList(q, "ready", t) /\ q.edf[t].on /\ q.state[t] \in Runnable}

AuEDFPickNext(q) == CHOOSE t \in EdfReady(q) : \A u \in EdfReady(q) : Before(q, t, u)

-----------------------------------------------------------------------------
(* Threads that end *)

\* Mutant: a blocked thread stays on its list.
AuThreadMoveToTrash_Blocked(q, t) ==
    IF q.state[t] = "KILLABLE" THEN q
    ELSE schedLink(schedUnlink([AuEDFRemove(q, t) EXCEPT !.state[t] = "KILLABLE"], "ready", t),
                   "trash", t)

\* The thread is taken off the list it is found on, unless it is marked already.
AuThreadMoveToTrash(q, t) ==
    IF q.state[t] = "KILLABLE" THEN q
    ELSE LET r == [AuEDFRemove(q, t) EXCEPT !.state[t] = "KILLABLE",
                      !.list = [l \in Lists |->
                          IF l = "trash" THEN @[l] ELSE Without(@[l], {t})]]
         IN  schedLink(r, "trash", t)

\* The tail of a list is known by its own head only: unlinked as if from the
\* trash list, a thread at the end of another list leaves a dangling tail there.
Dangles(q, t) ==
    ~\E l \in Lists : OnList(q, l, t) /\ (l = "trash" \/ q.list[l][Len(q.list[l])] # t)

AuThreadCleanTrash(q, t) ==
    [q EXCEPT !.list = [l \in Lists |-> Without(@[l], {t})],
              !.wild = @ \/ Dangles(q, t)]

-----------------------------------------------------------------------------
(* Switching threads *)

Successors(s, t) ==
    LET i == CHOOSE j \in DOMAIN s : s[j] = t IN SubSeq(s, i + 1, Len(s))

\* The threads behind current_thread on whichever list it is linked.
Following(q) ==
    IF \E l \in Lists : OnList(q, l, q.cur)
    THEN Successors(q.list[CHOOSE l \in Lists : OnList(q, l, q.cur)], q.cur)
    ELSE <<>>

CanRun(q, t) == t # Idle /\ q.state[t] \in Runnable

Candidates(q) ==
    LET s == Following(q) \o q.list["ready"] IN Selection(s, {i \in DOMAIN s : CanRun(q, s[i])})

\* Mutant: every walk starts at the head of the list.
AA64NextThread_FromHead(q) ==
    LET heads == SelectSeq(q.list["ready"], LAMBDA t : CanRun(q, t))
    IN  CASE EdfReady(q) # {} -> AuEDFPickNext(q)
          [] EdfReady(q) = {} /\ heads # <<>> -> Head(heads)
          [] OTHER -> Idle

AA64NextThread(q) ==
    CASE EdfReady(q) # {}                             -> AuEDFPickNext(q)
      [] EdfReady(q) = {} /\ Candidates(q) # <<>>     -> Head(Candidates(q))
      [] OTHER                                        -> Idle

Sleepers(q) ==
    Selection(q.list["sleep"], {i \in DOMAIN q.list["sleep"] : q.until[q.list["sleep"][i]] = 0})

AuHandleSleepThreads(q) == WakeAll(q, "sleep", Sleepers(q))

\* The frame of the interrupted thread is the one the vector captured.
Captured(q) ==
    [q EXCEPT !.frame[q.cur] = "exception",
              !.state[q.cur] = IF @ = "RUNNING" THEN "READY" ELSE @]

\* A thread parked in the kernel goes on behind AuScheduleNext, any other one
\* through its exception frame (or its entry).  AuPoll clears blocked_on_poll.
Resume(q, t) ==
    [q EXCEPT !.cur = t,
              !.state[t] = CASE @ = "READY" -> "RUNNING"
                             [] @ = "LEFT_IN_KERNEL" -> "READY"
                             [] OTHER -> @,
              !.polling[t] = @ /\ q.state[t] # "LEFT_IN_KERNEL",
              !.wild = @ \/ (q.state[t] = "LEFT_IN_KERNEL") # (q.frame[t] = "handoff")]

AuScheduleThread(q) ==
    LET r == AuEDFHandleReleases(AuHandleSleepThreads(Captured(q)))
    IN  Resume(r, AA64NextThread(r))

\* The two halves of AuScheduleNext: an interrupt may come between them.
LeaveKernel(q) == [q EXCEPT !.state[q.cur] = "LEFT_IN_KERNEL"]
HandOff(q)     == [q EXCEPT !.frame[q.cur] = "handoff", !.frame[Idle] = "entry", !.cur = Idle]
AuScheduleNext(q) == HandOff(LeaveKernel(q))

\* Mutant: a sleep that is over is counted down too.
Aged_NoFloor(q) ==
    [q EXCEPT !.until = [t \in All |-> @[t] - 1],
              !.edf = [t \in All |-> IF q.edf[t].on THEN [q.edf[t] EXCEPT !.release = @ - 1]
                                     ELSE q.edf[t]]]

\* A tick of time passes.
Aged(q) ==
    [q EXCEPT !.until = [t \in All |-> IF @[t] > 0 THEN @[t] - 1 ELSE 0],
              !.edf = [t \in All |-> IF q.edf[t].on THEN [q.edf[t] EXCEPT !.release = @ - 1]
                                     ELSE q.edf[t]]]
=============================================================================
