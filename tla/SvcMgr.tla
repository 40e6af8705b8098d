------------------------------- MODULE SvcMgr -------------------------------
(***************************************************************************)
(* The supervisor of user-space services, Process/svcmgr/main.cpp, the     *)
(* supervisor of the supervisor in Process/Init/_init.cpp, and the part of *)
(* the kernel's process table they stand on (KernelAA64/process.c,         *)
(* clean.c): creating, loading, waiting for, exiting, listing and reaping. *)
(*                                                                         *)
(* A system call is one step (interrupts are masked); svcmgr can die       *)
(* between any two of them, a service at any time after it was loaded.     *)
(* svcmgr has one watcher thread per service; a thread is identified by    *)
(* the pid of its svcmgr and its service.  Time is counted in ticks, and   *)
(* the clocks hold elapsed or remaining time up to the threshold they are  *)
(* compared with.                                                          *)
(***************************************************************************)
EXTENDS Selection

CONSTANTS
    Services,      \* names in the service table
    Mgr,           \* the name of the svcmgr process
    Pids,          \* process ids
    MaxRestarts,   \* max_restarts, window_s, cooldown_s, stable_s of the table
    Window,
    Cooldown,
    Stable,
    MaxCooldown,   \* MAX_COOLDOWN_MS
    Backoff,       \* BACKOFF_BASE_MS
    RetryDelay,    \* 1000 ms after a failed restart
    MgrRestarts,   \* init relaunches svcmgr at most 5 times ...
    MgrWindow,     \* ... in 60 s
    MaxFaults,     \* bound: svcmgr deaths
    MaxFails       \* bound: failures to create or load a process

ASSUME SvcConstants ==
    /\ Mgr \notin Services
    /\ Pids \subseteq Nat \ {0} /\ Pids # {}
    /\ {MaxRestarts, Window, MgrRestarts, MgrWindow, MaxFaults, MaxFails} \subseteq Nat
    /\ {Cooldown, Stable, MaxCooldown, Backoff, RetryDelay} \subseteq Nat \ {0}

\* The back-off delays are numbers (said here because the provers know nothing of powers).
ASSUME Delays == \A n \in 0 .. MaxRestarts : Backoff * 2^n \in Nat

VARIABLES
    procs,     \* the process list, in the order of creation
    spoiled,   \* threads of dead processes whose state is not KILLABLE any more
    init,      \* init's loop and what it knows of svcmgr
    w,         \* svcmgr: the Service of each watcher, and where the watcher is
    faults,    \* svcmgr deaths so far
    fails,     \* failed creations and loads so far
    \* history of the supervision, for the properties
    ages,      \* the age of every failure of a service no older than its window
    probation  \* the cool-down a service on probation served, 0 if on none

kernel == <<procs, spoiled>>
bounds == <<faults, fails>>
ghosts == <<ages, probation>>
vars   == <<kernel, init, w, bounds, ghosts>>

None == 0                                    \* no pid (-1)

Process(pid, name, state) ==
    [pid |-> pid, name |-> name, state |-> state, waitlist |-> {}]

NewWatcher(pc) ==
    [pc |-> pc, pid |-> None, first |-> TRUE, crashes |-> 0, cooldown |-> Cooldown,
     up |-> 0, window |-> 0, left |-> 0]

Init ==
    /\ LET p == CHOOSE x \in Pids : TRUE
       IN  /\ procs = <<Process(p, Mgr, "ready")>>
           /\ init = [pc |-> "reap", mgr |-> p, restarts |-> 0, window |-> 0]
    /\ spoiled = {}
    /\ w = [s \in Services |-> NewWatcher("find")]
    /\ faults = 0 /\ fails = 0
    /\ ages = [s \in Services |-> <<>>]
    /\ probation = [s \in Services |-> 0]

-----------------------------------------------------------------------------
(* The process table *)

Listed(pid) == {i \in DOMAIN procs : procs[i].pid = pid}
Present(pid) == Listed(pid) # {}

Remembered ==
    {w[s].pid : s \in Services} \cup {init.mgr} \cup {t[1] : t \in spoiled}
    \cup UNION {{procs[i].pid} \cup {t[1] : t \in procs[i].waitlist} : i \in DOMAIN procs}

\* The kernel counts pids up.  Here a pid is used again once nothing mentions it.
AuAllocateProcessID == CHOOSE p \in Pids \ Remembered : TRUE
CanCreate == Pids \ Remembered # {}

\* svcmgr has at most one process that is not dead.
MgrUp     == \E i \in DOMAIN procs : procs[i].name = Mgr /\ procs[i].state = "ready"
MgrPid    == procs[CHOOSE i \in DOMAIN procs : procs[i].name = Mgr /\ procs[i].state = "ready"].pid
Thread(s) == <<MgrPid, s>>

\* Mutant: nobody is woken.
Unblocked_None(T, s, hit) == FALSE

\* AuProcessWakeWaiters: is the watcher of s taken off the blocked list?  hit: the
\* threads that live where a freed thread of the list T used to be.
Unblocked(T, s, hit) == w[s].pc = "blocked" /\ MgrUp /\ (Thread(s) \in T \/ s \in hit)

\* Dead threads that are still there: AuUnblockThread sets their state to READY.
Overwritten(T) == {t \in T : Present(t[1]) /\ ~(MgrUp /\ t[1] = MgrPid)}

\* Where the waitlist still points to freed threads.
Freed(T) == {t \in T : ~Present(t[1])}

\* AuProcessExit of the service process procs[i], which exits or is killed by a
\* fault: its waiters are unblocked.  AuUnblockThread makes a thread READY without
\* asking whether it is dead, or still a thread: the memory of a freed one (clean.c:61)
\* may be a watcher of the next svcmgr by now.
AuProcessExit(i) ==
    LET T == procs[i].waitlist IN
    /\ procs[i].state = "ready" /\ procs[i].name \in Services
    /\ \E hit \in SUBSET Services :
          /\ Cardinality(hit) <= Cardinality(Freed(T))
          /\ w' = [s \in Services |->
                     IF Unblocked(T, s, hit) THEN [w[s] EXCEPT !.pc = "gone"] ELSE w[s]]
    /\ spoiled' = spoiled \cup Overwritten(T)
    /\ procs' = [procs EXCEPT ![i].state = "died", ![i].waitlist = {}]
    /\ UNCHANGED <<init, bounds, ghosts>>

\* A process can be reaped when it is dead and so are all its threads.
AuProcessCanReap(r) == r.state = "died" /\ ~\E t \in spoiled : t[1] = r.pid

-----------------------------------------------------------------------------
(* init: the reaper, which also watches svcmgr *)

Unreaped == {i \in DOMAIN procs : ~AuProcessCanReap(procs[i])}

\* AuProcessWaitForTermination(-1), then a sleep of one second.
InitReap ==
    /\ init.pc = "reap"
    /\ procs' = Selection(procs, Unreaped)
    /\ init' = [init EXCEPT !.pc = "sleep"]
    /\ UNCHANGED <<spoiled, w, bounds, ghosts>>

\* launch_svcmgr: a new svcmgr starts its watchers with a blank table.
launch_svcmgr(n) ==
    /\ CanCreate
    /\ procs' = Append(procs, Process(AuAllocateProcessID, Mgr, "ready"))
    /\ init' = [init EXCEPT !.pc = "reap", !.mgr = AuAllocateProcessID, !.restarts = n,
                            !.window = IF @ > MgrWindow THEN 0 ELSE @]
    /\ w' = [s \in Services |-> NewWatcher("find")]
    /\ UNCHANGED <<spoiled, bounds, ghosts>>

\* init gives svcmgr up: too many deaths, or it could not be loaded.
GiveUp(P) ==
    /\ procs' = P
    /\ init' = [init EXCEPT !.pc = "reap", !.mgr = None]
    /\ UNCHANGED <<spoiled, w, faults, ghosts>>

\* init_watch_svcmgr, once per round of the reaper.
init_watch_svcmgr ==
    LET n == (IF init.window > MgrWindow THEN 0 ELSE init.restarts) + 1 IN
    /\ init.pc = "watch"
    /\ \/ /\ init.mgr = None \/ Present(init.mgr)
          /\ init' = [init EXCEPT !.pc = "reap"]
          /\ UNCHANGED <<kernel, w, bounds, ghosts>>
       \/ /\ init.mgr # None /\ ~Present(init.mgr)
          /\ \/ n > MgrRestarts /\ GiveUp(procs) /\ UNCHANGED fails
             \/ n <= MgrRestarts /\ launch_svcmgr(n)
             \/ /\ n <= MgrRestarts /\ fails < MaxFails /\ CanCreate
                /\ GiveUp(Append(procs, Process(AuAllocateProcessID, Mgr, "slot")))
                /\ fails' = fails + 1

-----------------------------------------------------------------------------
(* svcmgr *)

Step(s, pc) == MgrUp /\ w[s].pc = pc

Named(name) == {i \in DOMAIN procs : procs[i].name = name}

\* Mutant: a service that is running is not looked for.
find_running_Never(s) == None

\* The first process in the list that has the service's name.
find_running(s) ==
    IF Named(s) = {} THEN None
    ELSE procs[CHOOSE i \in Named(s) : \A j \in Named(s) : i <= j].pid

\* service_loop begins: adopt, or start for the first time.
Adopt(s) ==
    /\ Step(s, "find")
    /\ w' = [w EXCEPT ![s] = IF find_running(s) = None
                             THEN [@ EXCEPT !.pc = "create"]
                             ELSE [@ EXCEPT !.pc = "wait", !.pid = find_running(s), !.first = FALSE]]
    /\ UNCHANGED <<kernel, init, bounds, ghosts>>

\* start_service failed: the first time the loop goes on at once, without a pid.
StartFailed(s) ==
    /\ fails < MaxFails /\ fails' = fails + 1
    /\ w' = [w EXCEPT ![s].pc = IF w[s].first THEN "wait" ELSE "retry",
                      ![s].pid = None, ![s].first = FALSE, ![s].up = 0,
                      ![s].window = IF w[s].first THEN 0 ELSE @,
                      ![s].left = IF w[s].first THEN 0 ELSE RetryDelay]

\* start_service, its first system call: a process slot with the service's name.
CreateProcess(s) ==
    /\ Step(s, "create")
    /\ \/ /\ CanCreate
          /\ procs' = Append(procs, Process(AuAllocateProcessID, s, "slot"))
          /\ w' = [w EXCEPT ![s].pc = "load", ![s].pid = AuAllocateProcessID]
          /\ UNCHANGED fails
       \/ StartFailed(s) /\ UNCHANGED procs
    /\ UNCHANGED <<spoiled, init, faults, ghosts>>

\* Its last one: the program is loaded, and runs.  A slot that could not be
\* loaded stays in the list.
ProcessLoadExec(s) ==
    /\ Step(s, "load")
    /\ \/ /\ procs' = [i \in DOMAIN procs |->
                         IF procs[i].pid = w[s].pid THEN [procs[i] EXCEPT !.state = "ready"] ELSE procs[i]]
          /\ w' = [w EXCEPT ![s].pc = "wait", ![s].first = FALSE, ![s].up = 0,
                            ![s].window = IF w[s].first THEN 0 ELSE @]
          /\ UNCHANGED fails
       \/ StartFailed(s) /\ UNCHANGED procs
    /\ UNCHANGED <<spoiled, init, faults, ghosts>>

\* Mutant: the state of the process is not looked at.
Waitable_Any(i) == TRUE

Waitable(i) == procs[i].state # "died"

\* AuProcessWaitForTermination(pid): a process that is dead or unknown is not
\* waited for, and neither is no pid.
AuProcessWaitForTermination(s) ==
    /\ Step(s, "wait")
    /\ \/ \E i \in Listed(w[s].pid) :
             /\ Waitable(i)
             /\ procs' = [procs EXCEPT ![i].waitlist = @ \cup {Thread(s)}]
             /\ w' = [w EXCEPT ![s].pc = "blocked"]
       \/ /\ ~\E i \in Listed(w[s].pid) : Waitable(i)
          /\ w' = [w EXCEPT ![s].pc = "gone"]
          /\ UNCHANGED procs
    /\ UNCHANGED <<spoiled, init, bounds, ghosts>>

\* Mutant: old crashes never age out of the budget.
Counted_Always(s) == IF w[s].up >= Stable THEN 0 ELSE w[s].crashes

\* The crashes that still count when another one is noticed.
Counted(s) ==
    IF w[s].up >= Stable \/ w[s].window > Window THEN 0 ELSE w[s].crashes

\* "It ran long enough to be forgiven."
CooldownNow(s) == IF w[s].up >= Stable THEN Cooldown ELSE w[s].cooldown

Recent(q) == SelectSeq(q, LAMBDA a : a <= Window)

\* The watcher notices that its service is gone, and decides.
Gone(s) ==
    LET n == Counted(s) + 1 IN
    /\ Step(s, "gone")
    /\ w' = [w EXCEPT ![s] =
               [w[s] EXCEPT !.crashes = n, !.cooldown = CooldownNow(s), !.up = 0,
                            !.window = IF w[s].window > Window THEN 0 ELSE w[s].window,
                            !.pc = IF n > MaxRestarts THEN "cooldown" ELSE "backoff",
                            !.left = IF n > MaxRestarts THEN CooldownNow(s)
                                     ELSE Backoff * 2^(n - 1)]]
    /\ ages' = [ages EXCEPT ![s] = Append(Recent(@), 0)]
    /\ probation' = [probation EXCEPT ![s] = 0]
    /\ UNCHANGED <<kernel, init, bounds>>

\* Mutants: no strike is left on probation, or all of them.
Strikes_Over(n) == n + 1
Strikes_None(n) == 0

Doubled(c) == IF c < MaxCooldown THEN 2 * c ELSE c
Strikes(n) == n

\* The cool-down is over: probation, with one strike left.
Probation(s) ==
    /\ Step(s, "cooldown") /\ w[s].left = 0
    /\ w' = [w EXCEPT ![s].cooldown = Doubled(@), ![s].crashes = Strikes(MaxRestarts),
                      ![s].window = 0, ![s].pc = "create"]
    /\ probation' = [probation EXCEPT ![s] = w[s].cooldown]
    /\ UNCHANGED <<kernel, init, bounds, ages>>

\* The back-off is over.
Restart(s) ==
    /\ Step(s, "backoff") /\ w[s].left = 0
    /\ w' = [w EXCEPT ![s].pc = "create"]
    /\ UNCHANGED <<kernel, init, bounds, ghosts>>

\* One second after a failed restart the loop goes on, without a pid.
Retry(s) ==
    /\ Step(s, "retry") /\ w[s].left = 0
    /\ w' = [w EXCEPT ![s].pc = "wait"]
    /\ UNCHANGED <<kernel, init, bounds, ghosts>>

\* svcmgr dies, with all its watchers and what they knew (bound: MaxFaults).
MgrDies ==
    /\ MgrUp /\ faults < MaxFaults
    /\ procs' = [i \in DOMAIN procs |->
                   IF procs[i].pid = MgrPid THEN [procs[i] EXCEPT !.state = "died"] ELSE procs[i]]
    /\ w' = [s \in Services |-> NewWatcher("dead")]
    /\ faults' = faults + 1
    /\ ages' = [s \in Services |-> <<>>]
    /\ probation' = [s \in Services |-> 0]
    /\ UNCHANGED <<spoiled, init, fails>>

-----------------------------------------------------------------------------
(* Time *)

Upto(n, max) == IF n < max THEN n + 1 ELSE n
Downto(n) == IF n = 0 THEN 0 ELSE n - 1

\* A watcher that is not asleep runs within the tick: ticks are seconds.
Due(s) == \/ \E pc \in {"find", "create", "load", "wait", "gone"} : Step(s, pc)
          \/ \E pc \in {"cooldown", "backoff", "retry"} : Step(s, pc) /\ w[s].left = 0

Tick ==
    /\ \A s \in Services : ~Due(s)
    /\ w' = [s \in Services |->
               [w[s] EXCEPT !.left = Downto(@),
                            !.up = IF w[s].pc = "blocked" THEN Upto(@, Stable) ELSE @,
                            !.window = IF w[s].pc = "dead" THEN @ ELSE Upto(@, Window + 1)]]
    /\ init' = [init EXCEPT !.pc = IF @ = "sleep" THEN "watch" ELSE @,
                            !.window = Upto(@, MgrWindow + 1)]
    /\ ages' = [s \in Services |-> Recent([k \in DOMAIN ages[s] |-> ages[s][k] + 1])]
    /\ UNCHANGED <<kernel, bounds, probation>>

Watcher(s) ==
    \/ Adopt(s) \/ CreateProcess(s) \/ ProcessLoadExec(s) \/ AuProcessWaitForTermination(s)
    \/ Gone(s) \/ Probation(s) \/ Restart(s) \/ Retry(s)

Next ==
    \/ \E i \in DOMAIN procs : AuProcessExit(i)
    \/ InitReap \/ init_watch_svcmgr
    \/ \E s \in Services : Watcher(s)
    \/ MgrDies
    \/ Tick

Spec == Init /\ [][Next]_vars

\* Threads that can run do, and time passes; nothing has to die.
Fairness ==
    /\ WF_vars(InitReap) /\ WF_vars(init_watch_svcmgr) /\ WF_vars(Tick)
    /\ \A s \in Services : WF_vars(Watcher(s))

SpecFair == Spec /\ Fairness

-----------------------------------------------------------------------------
(* Properties *)

Watchers ==
    [pc : {"find", "create", "load", "wait", "blocked", "gone", "cooldown", "backoff", "retry", "dead"},
     pid : Pids \cup {None}, first : BOOLEAN, crashes : 0 .. MaxRestarts + 1,
     cooldown : Nat \ {0}, up : 0 .. Stable, window : 0 .. Window + 1,
     left : Nat]

Processes == [pid : Pids, name : Services \cup {Mgr}, state : {"slot", "ready", "died"},
              waitlist : SUBSET (Pids \X Services)]

\* Type invariant: the strikes stay within the budget and one more (main.cpp:319,
\* 358), and no two processes have one pid.
SvcTypeOK ==
    /\ procs \in Seq(Processes)
    /\ \A i, j \in DOMAIN procs : procs[i].pid = procs[j].pid => i = j
    /\ w \in [Services -> Watchers]
    /\ spoiled \subseteq Pids \X Services
    /\ init \in [pc : {"reap", "sleep", "watch"}, mgr : Pids \cup {None},
                 restarts : 0 .. MgrRestarts, window : 0 .. MgrWindow + 1]

\* A relaunched svcmgr "ADOPTS an instance that is already running" (main.cpp:8):
\* no service ever runs twice.  It takes more than adoption: zombies of the
\* service must be off the list before the new svcmgr looks at it, and they are,
\* because init reaps all of them in the pass that takes the old svcmgr off.
\* It holds of a table of one service, as the built-in one and what the build writes
\* for one server.  With two it is false: the exit of one may wake the watcher of the
\* other, whose service runs, and which then starts it again.
SingleInstance ==
    \A s \in Services : \A i, j \in Named(s) :
        procs[i].state = "ready" /\ procs[j].state = "ready" => i = j

\* A service that dies between two system calls of its watcher is not missed: a
\* blocked watcher is on the waitlist of a process that has not died.
BlockedWillBeWoken ==
    \A s \in Services : Step(s, "blocked") =>
        \E i \in Listed(w[s].pid) :
            procs[i].state # "died" /\ Thread(s) \in procs[i].waitlist

\* "After more than max_restarts crashes inside window_s it stops restarting"
\* (main.cpp:12), and not after fewer: a service is given up only when it failed
\* more often than that within its window, or failed on probation.
GivesUpOnlyIfFailing ==
    [][\A s \in Services : w[s].pc = "gone" /\ w'[s].pc = "cooldown" =>
          \/ Len(ages'[s]) > MaxRestarts
          \/ probation[s] # 0 /\ w[s].up < Stable]_vars

\* "Starts it again with a single strike left; if it then stays up for stable_s
\* the slate is wiped, otherwise the cooldown doubles (up to five minutes)"
\* (main.cpp:15): a failure on probation means another cool-down, at least as long
\* as the header says.  (It may be longer: Doubled tests the old length against
\* MAX_COOLDOWN_MS, so that four minutes become eight.  Provided stable_s <=
\* window_s, as in every service table: a longer window would age the probation's
\* strikes out first.)
OneStrike ==
    [][\A s \in Services :
          w[s].pc = "gone" /\ w'[s].pc \in {"cooldown", "backoff"} /\ probation[s] # 0 =>
             IF w[s].up >= Stable
             THEN w'[s].crashes = 1 /\ w'[s].cooldown = Cooldown
             ELSE /\ w'[s].pc = "cooldown"
                  /\ w'[s].left >= 2 * probation[s] \/ w'[s].left >= MaxCooldown]_vars

Up(s) == \E i \in Named(s) : procs[i].state = "ready"

\* The watcher waits for a process that has no program.
WaitsOnSlot(s) == Step(s, "blocked") /\ \E i \in Listed(w[s].pid) : procs[i].state = "slot"

\* "When it dies bring it back" (main.cpp:5): a service that is down comes back, as
\* long as svcmgr lives and did not adopt a slot.
ServiceComesBack ==
    \A s \in Services : (MgrUp /\ ~Up(s)) ~> (Up(s) \/ ~MgrUp \/ WaitsOnSlot(s))

\* init "checks from inside its reaper loop whether svcmgr still exists and
\* relaunches it" (_init.cpp:325): a svcmgr that died is back, unless init gave up.
SupervisorReturns == ~MgrUp ~> (MgrUp \/ init.mgr = None)
=============================================================================
