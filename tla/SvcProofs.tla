----------------------------- MODULE SvcProofs -----------------------------
(***************************************************************************)
(* Theorems about SvcMgr, for every number of services and pids, and every *)
(* budget, window and cool-down.                                           *)
(***************************************************************************)
EXTENDS SvcMgr, SelectionProofs

-----------------------------------------------------------------------------
(* The process list *)

\* A process list in which no pid occurs twice.
ProcList(q) ==
    /\ q \in Seq(Processes)
    /\ \A i, j \in DOMAIN q : q[i].pid = q[j].pid => i = j

\* A list of processes is indexed from 1 on.
LEMMA ListShape ==
    ASSUME NEW q, ProcList(q)
    PROVE  /\ Len(q) \in Nat /\ DOMAIN q = 1 .. Len(q)
           /\ \A i \in DOMAIN q : q[i] \in Processes
BY LenProperties, ElementOfSeq DEF ProcList

\* A pid that AuAllocateProcessID returns is used nowhere.
LEMMA FreshPid ==
    ASSUME CanCreate
    PROVE  LET a == AuAllocateProcessID IN
           /\ a \in Pids
           /\ \A s \in Services : w[s].pid # a
           /\ init.mgr # a
           /\ \A t \in spoiled : t[1] # a
           /\ \A i \in DOMAIN procs : procs[i].pid # a /\ \A t \in procs[i].waitlist : t[1] # a
<1> DEFINE a == AuAllocateProcessID
<1>1. a \in Pids \ Remembered
  BY DEF CanCreate, AuAllocateProcessID
<1> HIDE DEF a
<1>2. \A i \in DOMAIN procs : procs[i].pid # a /\ \A t \in procs[i].waitlist : t[1] # a
  BY <1>1 DEF Remembered
<1>3. \A s \in Services : w[s].pid # a
  BY <1>1 DEF Remembered
<1>4. init.mgr # a /\ \A t \in spoiled : t[1] # a
  BY <1>1 DEF Remembered
<1> QED
  BY <1>1, <1>2, <1>3, <1>4 DEF a

\* A new process goes to the end of the list.
LEMMA Appended ==
    ASSUME NEW q, ProcList(q), NEW r \in Processes, \A i \in DOMAIN q : q[i].pid # r.pid
    PROVE  LET n == Len(q) + 1
               e == Append(q, r)
           IN  /\ ProcList(e) /\ DOMAIN e = DOMAIN q \cup {n} /\ n \notin DOMAIN q
               /\ e[n] = r /\ \A i \in DOMAIN q : e[i] = q[i]
<1> DEFINE n == Len(q) + 1
           e == Append(q, r)
<1>1. Len(q) \in Nat /\ DOMAIN q = 1 .. Len(q) /\ q \in Seq(Processes)
  BY ListShape DEF ProcList
<1>2. /\ e \in Seq(Processes) /\ Len(e) = n /\ e[n] = r
      /\ \A i \in 1 .. Len(q) : e[i] = q[i]
  BY <1>1, AppendProperties
<1>3. DOMAIN e = 1 .. n
  BY <1>2, LenProperties
<1>4. DOMAIN e = DOMAIN q \cup {n} /\ n \notin DOMAIN q
  BY <1>1, <1>3
<1> HIDE DEF n, e
<1>5. ProcList(e)
  BY <1>1, <1>2, <1>4 DEF ProcList
<1> QED
  BY <1>1, <1>2, <1>4, <1>5 DEF n, e

\* A list with the same pids in the same places is a process list.
LEMMA Rewritten ==
    ASSUME NEW q, ProcList(q), NEW e, e = [i \in DOMAIN q |-> e[i]],
           \A i \in DOMAIN q : e[i] \in Processes /\ e[i].pid = q[i].pid
    PROVE  ProcList(e) /\ DOMAIN e = DOMAIN q
<1>1. Len(q) \in Nat /\ DOMAIN q = 1 .. Len(q)
  BY ListShape
<1>2. DOMAIN e = DOMAIN q
  OBVIOUS
<1>3. e \in [1 .. Len(q) -> Processes]
  BY <1>1
<1>4. e \in Seq(Processes)
  BY <1>1, <1>3
<1> QED
  BY <1>2, <1>4 DEF ProcList

\* The fields of a process in the list, and a process with some of them changed.
LEMMA ProcessFields ==
    ASSUME NEW r \in Processes, NEW x \in {"slot", "ready", "died"},
           NEW W \in SUBSET (Pids \X Services)
    PROVE  /\ r.pid \in Pids /\ r.name \in Services \cup {Mgr}
           /\ r.state \in {"slot", "ready", "died"} /\ r.waitlist \in SUBSET (Pids \X Services)
           /\ LET e == [r EXCEPT !.state = x] IN
              e \in Processes /\ e.pid = r.pid /\ e.name = r.name /\ e.state = x
                /\ e.waitlist = r.waitlist
           /\ LET e == [r EXCEPT !.waitlist = W] IN
              e \in Processes /\ e.pid = r.pid /\ e.name = r.name /\ e.state = r.state
                /\ e.waitlist = W
           /\ LET e == [r EXCEPT !.state = x, !.waitlist = W] IN
              e \in Processes /\ e.pid = r.pid /\ e.name = r.name /\ e.state = x
                /\ e.waitlist = W
BY DEF Processes

\* A new process is a process.
LEMMA ProcessType ==
    ASSUME NEW p \in Pids, NEW n \in Services \cup {Mgr}, NEW x \in {"slot", "ready", "died"}
    PROVE  Process(p, n, x) \in Processes
BY DEF Process, Processes

\* The processes init leaves in the list, in their order.
LEMMA Reaped ==
    ASSUME NEW q, ProcList(q), NEW I \in SUBSET DOMAIN q
    PROVE  LET e == Selection(q, I) IN
           /\ ProcList(e)
           /\ \A k \in DOMAIN e : Place(I, k) \in I /\ e[k] = q[Place(I, k)]
           /\ \A i \in I : \E k \in DOMAIN e : e[k] = q[i]
<1> DEFINE e == Selection(q, I)
<1>1. q \in Seq(Processes) /\ DOMAIN q = 1 .. Len(q) /\ Len(q) \in Nat
  BY ListShape DEF ProcList
<1>2. /\ e \in Seq(Processes) /\ DOMAIN e = 1 .. Cardinality(I)
      /\ \A k \in DOMAIN e : Place(I, k) \in I /\ e[k] = q[Place(I, k)]
      /\ \A i \in I : \E k \in DOMAIN e : Place(I, k) = i
      /\ \A k, l \in DOMAIN e : k < l => Place(I, k) < Place(I, l)
  BY <1>1, SelectionIs
<1> HIDE DEF e
<1>3. ASSUME NEW k \in DOMAIN e, NEW l \in DOMAIN e, e[k].pid = e[l].pid PROVE k = l
  <2>1. Place(I, k) = Place(I, l)
    BY <1>2, <1>3 DEF ProcList
  <2>2. ~(k < l) /\ ~(l < k)
    <3>1. Place(I, k) \in 1 .. Len(q)
      BY <1>1, <1>2
    <3> QED
      BY <1>1, <1>2, <2>1, <3>1
  <2>3. Cardinality(I) \in Nat
    BY <1>1, Places
  <2> QED
    BY <1>2, <2>2, <2>3
<1>4. ProcList(e)
  BY <1>2, <1>3 DEF ProcList
<1> QED
  BY <1>2, <1>4 DEF e

-----------------------------------------------------------------------------
(* Types *)

\* A watcher has used up more than its budget only while it cools down.
Watch(v) == v \in Watchers /\ (v.pc # "cooldown" => v.crashes <= MaxRestarts)

Watching == w \in [Services -> Watchers] /\ \A s \in Services : Watch(w[s])

InitRecs == [pc : {"reap", "sleep", "watch"}, mgr : Pids \cup {None},
             restarts : 0 .. MgrRestarts, window : 0 .. MgrWindow + 1]

\* The type invariant, with the strikes that make the crash counter's bound inductive.
Typed ==
    /\ ProcList(procs) /\ Watching
    /\ spoiled \subseteq Pids \X Services
    /\ init \in InitRecs

\* The types the proofs use are those of the type invariant.
LEMMA TypedIs == Typed => SvcTypeOK
BY DEF Typed, ProcList, Watching, InitRecs, SvcTypeOK

\* The constants, one by one.
LEMMA Numbers ==
    /\ MaxRestarts \in Nat /\ Window \in Nat /\ MgrRestarts \in Nat /\ MgrWindow \in Nat
    /\ Cooldown \in Nat /\ Cooldown > 0 /\ Stable \in Nat /\ Stable > 0
    /\ MaxCooldown \in Nat /\ MaxCooldown > 0 /\ Backoff \in Nat /\ RetryDelay \in Nat
BY SvcConstants

Pcs == {"find", "create", "load", "wait", "blocked", "gone", "cooldown", "backoff", "retry",
        "dead"}

\* Another program counter leaves the rest of a watcher as it is.
LEMMA AtPc ==
    ASSUME NEW v, Watch(v), NEW pc \in Pcs, v.pc # "cooldown"
    PROVE  /\ Watch([v EXCEPT !.pc = pc])
           /\ [v EXCEPT !.pc = pc].pc = pc /\ [v EXCEPT !.pc = pc].pid = v.pid
<1>1. v \in Watchers /\ v.crashes <= MaxRestarts
  BY DEF Watch
<1> DEFINE u == [v EXCEPT !.pc = pc]
<1>2. u \in Watchers /\ u.pc = pc /\ u.crashes = v.crashes /\ u.pid = v.pid
  BY <1>1 DEF Watchers, Pcs
<1> HIDE DEF u
<1> QED
  BY <1>1, <1>2 DEF Watch, u

\* A watcher with a blank table.
LEMMA NewWatcherIs ==
    ASSUME NEW pc \in {"find", "dead"} PROVE Watch(NewWatcher(pc))
BY SvcConstants DEF NewWatcher, Watch, Watchers, None

\* A step that changes the record of one watcher.
LEMMA OneWatcher ==
    ASSUME Watching, NEW s \in Services, NEW v, Watch(v), w' = [w EXCEPT ![s] = v]
    PROVE  Watching'
BY DEF Watching, Watch

\* The name search finds nothing or a process of that name.
LEMMA FindsNamed ==
    ASSUME ProcList(procs), NEW s \in Services
    PROVE  \/ Named(s) = {} /\ find_running(s) = None
           \/ \E i \in Named(s) : find_running(s) = procs[i].pid
<1>1. Len(procs) \in Nat /\ Named(s) \in SUBSET (1 .. Len(procs))
  BY ListShape DEF Named
<1>2. ASSUME Named(s) # {} PROVE \E i \in Named(s) : \A j \in Named(s) : i <= j
  BY <1>1, <1>2, LeastOf
<1> QED
  BY <1>2 DEF find_running

\* The exit of a service process rewrites one process of the list and wakes watchers.
LEMMA ExitList ==
    ASSUME Typed, NEW i \in DOMAIN procs, AuProcessExit(i)
    PROVE  /\ ProcList(procs') /\ DOMAIN procs' = DOMAIN procs
           /\ \A j \in DOMAIN procs :
                 /\ procs'[j].pid = procs[j].pid /\ procs'[j].name = procs[j].name
                 /\ j # i => procs'[j] = procs[j]
           /\ procs[i].state = "ready" /\ procs[i].name \in Services
           /\ procs'[i].state = "died" /\ procs'[i].waitlist = {}
<1> DEFINE r == [procs[i] EXCEPT !.state = "died", !.waitlist = {}]
<1>1. procs[i] \in Processes /\ ProcList(procs)
  BY ListShape DEF Typed
<1>2. r \in Processes /\ r.pid = procs[i].pid /\ r.name = procs[i].name
        /\ r.state = "died" /\ r.waitlist = {}
  BY <1>1 DEF Processes
<1>3. procs' = [procs EXCEPT ![i] = r]
  <2>1. procs' = [procs EXCEPT ![i].state = "died", ![i].waitlist = {}]
    BY DEF AuProcessExit
  <2> QED
    BY <2>1
<1> HIDE DEF r
<1>4. /\ DOMAIN procs' = DOMAIN procs /\ procs'[i] = r
      /\ \A j \in DOMAIN procs : j # i => procs'[j] = procs[j]
      /\ procs' = [j \in DOMAIN procs |-> procs'[j]]
  BY <1>3
<1>5. \A j \in DOMAIN procs : procs'[j] \in Processes /\ procs'[j].pid = procs[j].pid
  BY <1>1, <1>2, <1>4, ListShape
<1>6. ProcList(procs')
  BY <1>1, <1>4, <1>5, Rewritten
<1>7. procs[i].state = "ready" /\ procs[i].name \in Services
  BY DEF AuProcessExit
<1> QED
  BY <1>2, <1>4, <1>6, <1>7

\* AuProcessExit marks one entry of the list and wakes watchers.
LEMMA ExitTyped ==
    ASSUME Typed, NEW i \in DOMAIN procs, AuProcessExit(i)
    PROVE  Typed'
<1>1. PICK hit \in SUBSET Services :
         w' = [s \in Services |->
                 IF Unblocked(procs[i].waitlist, s, hit) THEN [w[s] EXCEPT !.pc = "gone"] ELSE w[s]]
  BY DEF AuProcessExit
<1>2. ASSUME NEW s \in Services, w[s].pc = "blocked" PROVE Watch([w[s] EXCEPT !.pc = "gone"])
  <2>1. Watch(w[s]) /\ w[s].pc # "cooldown" /\ "gone" \in Pcs
    BY <1>2 DEF Typed, Watching, Pcs
  <2> QED
    BY <2>1, AtPc
<1>3. ASSUME NEW s \in Services PROVE Watch(w'[s])
  <2>1. Unblocked(procs[i].waitlist, s, hit) => w[s].pc = "blocked"
    BY DEF Unblocked
  <2>2. Watch(w[s])
    BY DEF Typed, Watching
  <2> QED
    BY <1>1, <1>2, <2>1, <2>2
<1>4. w' = [s \in Services |-> w'[s]]
  BY <1>1
<1>5. Watching'
  BY <1>3, <1>4 DEF Watching, Watch
<1>6. spoiled' \subseteq Pids \X Services
  <2>1. procs[i].waitlist \subseteq Pids \X Services
    BY ListShape DEF Typed, Processes
  <2>2. spoiled' = spoiled \cup Overwritten(procs[i].waitlist)
    BY DEF AuProcessExit
  <2> QED
    BY <2>1, <2>2 DEF Overwritten, Typed
<1>7. ProcList(procs') /\ init' = init
  BY ExitList DEF AuProcessExit
<1> QED
  BY <1>5, <1>6, <1>7 DEF Typed

\* The reaper takes entries out of the list.
LEMMA ReapTyped ==
    ASSUME Typed, InitReap PROVE Typed'
<1>1. Unreaped \in SUBSET DOMAIN procs
  BY DEF Unreaped
<1>2. ProcList(procs')
  BY <1>1, Reaped DEF InitReap, Typed
<1>3. init' \in InitRecs
  BY DEF InitReap, Typed, InitRecs
<1> QED
  BY <1>2, <1>3 DEF InitReap, Typed, Watching

\* init's loop around svcmgr: it leaves the list, or appends a process to it.
LEMMA WatchTyped ==
    ASSUME Typed, init_watch_svcmgr PROVE Typed'
<1> DEFINE n == (IF init.window > MgrWindow THEN 0 ELSE init.restarts) + 1
           a == AuAllocateProcessID
<1>1. n \in Nat \ {0}
  BY SvcConstants DEF Typed, InitRecs
<1>2. ASSUME CanCreate, NEW x \in {"ready", "slot"}
      PROVE  ProcList(Append(procs, Process(a, Mgr, x))) /\ a \in Pids
  <2>1. Process(a, Mgr, x) \in Processes /\ Process(a, Mgr, x).pid = a
    BY <1>2, FreshPid, ProcessType DEF Process
  <2>2. \A i \in DOMAIN procs : procs[i].pid # a
    BY <1>2, FreshPid
  <2> QED
    BY <1>2, <2>1, <2>2, Appended, FreshPid DEF Typed
<1>3. CASE init' = [init EXCEPT !.pc = "reap"] /\ UNCHANGED <<procs, spoiled, w>>
  BY <1>3 DEF Typed, Watching, InitRecs
<1>4. ASSUME NEW P, ProcList(P), GiveUp(P) PROVE Typed'
  <2>1. init' \in InitRecs
    BY <1>4 DEF GiveUp, Typed, InitRecs
  <2> QED
    BY <1>4, <2>1 DEF GiveUp, Typed, Watching
<1>5. CASE n <= MgrRestarts /\ launch_svcmgr(n)
  <2>1. CanCreate /\ procs' = Append(procs, Process(a, Mgr, "ready"))
    BY <1>5 DEF launch_svcmgr
  <2>2. init' \in InitRecs
    <3>1. /\ init' = [init EXCEPT !.pc = "reap", !.mgr = a, !.restarts = n,
                                 !.window = IF @ > MgrWindow THEN 0 ELSE @]
          /\ a \in Pids
      BY <1>2, <1>5, <2>1 DEF launch_svcmgr
    <3>2. n \in 0 .. MgrRestarts
      BY <1>1, <1>5, SvcConstants
    <3> HIDE DEF n, a
    <3>3. PICK x : x = (IF init.window > MgrWindow THEN 0 ELSE init.window)
      OBVIOUS
    <3>4. x \in 0 .. MgrWindow + 1
      BY <3>3, SvcConstants DEF Typed, InitRecs
    <3>5. init' = [init EXCEPT !.pc = "reap", !.mgr = a, !.restarts = n, !.window = x]
      BY <3>1, <3>3
    <3> QED
      BY <3>1, <3>2, <3>4, <3>5 DEF Typed, InitRecs
  <2>3. w' = [s \in Services |-> NewWatcher("find")] /\ spoiled' = spoiled
    BY <1>5 DEF launch_svcmgr
  <2>4. Watching'
    BY <2>3, NewWatcherIs DEF Watching, Watch
  <2>5. ProcList(procs')
    BY <1>2, <2>1
  <2> QED
    BY <2>2, <2>3, <2>4, <2>5 DEF Typed
<1> HIDE DEF n, a
<1>6. CASE GiveUp(procs)
  BY <1>4, <1>6 DEF Typed
<1>7. CASE CanCreate /\ GiveUp(Append(procs, Process(a, Mgr, "slot")))
  BY <1>2, <1>4, <1>7
<1> QED
  BY <1>3, <1>5, <1>6, <1>7 DEF init_watch_svcmgr, kernel, n, a

\* Adopt, and the steps that only move a watcher on.
LEMMA AdoptTyped ==
    ASSUME Typed, NEW s \in Services, Adopt(s) PROVE Typed'
<1> DEFINE v == IF find_running(s) = None THEN [w[s] EXCEPT !.pc = "create"]
                ELSE [w[s] EXCEPT !.pc = "wait", !.pid = find_running(s), !.first = FALSE]
<1>1. w' = [w EXCEPT ![s] = v] /\ w[s].pc = "find"
  BY DEF Adopt, Step
<1>2. Watch(w[s])
  BY DEF Typed, Watching
<1>3. find_running(s) \in Pids \cup {None}
  BY FindsNamed, ListShape DEF Typed, Processes, Named
<1>4. Watch(v)
  <2>1. CASE find_running(s) = None
    BY <1>1, <1>2, <2>1, AtPc DEF Pcs
  <2>2. CASE find_running(s) # None
    BY <1>1, <1>2, <1>3, <2>2 DEF Watch, Watchers
  <2> QED
    BY <2>1, <2>2
<1> HIDE DEF v
<1>5. Watching'
  BY <1>1, <1>4, OneWatcher DEF Typed
<1> QED
  BY <1>5 DEF Adopt, kernel, Typed

\* What changing several fields of a watcher at once leaves of it: a failed start, a
\* start, a service that is gone, and the end of a cool-down.
LEMMA FieldsSet ==
    ASSUME NEW A, NEW B, NEW C, NEW D, NEW E, NEW F, NEW G, NEW H,
           NEW v \in [pc : A, pid : B, first : C, crashes : D, cooldown : E, up : F,
                      window : G, left : H],
           NEW a \in A, NEW b \in B, NEW c \in C, NEW d \in D, NEW e \in E, NEW f \in F,
           NEW g \in G, NEW h \in H
    PROVE  LET R == [pc : A, pid : B, first : C, crashes : D, cooldown : E, up : F,
                     window : G, left : H]
               u1 == [v EXCEPT !.pc = a, !.pid = b, !.first = c, !.up = f, !.window = g, !.left = h]
               u2 == [v EXCEPT !.pc = a, !.first = c, !.up = f, !.window = g]
               u3 == [v EXCEPT !.crashes = d, !.cooldown = e, !.up = f, !.window = g, !.pc = a,
                               !.left = h]
               u4 == [v EXCEPT !.cooldown = e, !.crashes = d, !.window = g, !.pc = a]
           IN  /\ u1 \in R /\ u1.pc = a /\ u1.pid = b /\ u1.crashes = v.crashes
               /\ u2 \in R /\ u2.pc = a /\ u2.pid = v.pid /\ u2.crashes = v.crashes
               /\ u3 \in R /\ u3.pc = a /\ u3.pid = v.pid /\ u3.crashes = d
               /\ u4 \in R /\ u4.pc = a /\ u4.pid = v.pid /\ u4.crashes = d
OBVIOUS

\* What a failed start leaves of the watcher.
LEMMA FailedIs ==
    ASSUME Typed, NEW s \in Services, StartFailed(s), w[s].pc \in {"create", "load"}
    PROVE  /\ Watching'
           /\ \A r \in Services : r # s => w'[r] = w[r]
           /\ w'[s].pid = None
           /\ w'[s].pc \in {"wait", "retry"}
<1>1. w[s] \in Watchers /\ w[s].crashes <= MaxRestarts /\ w \in [Services -> Watchers]
  BY DEF Typed, Watching, Watch
<1>2. PICK pc, win, l :
         /\ pc \in {"wait", "retry"} /\ win \in 0 .. Window + 1 /\ l \in Nat
         /\ w' = [w EXCEPT ![s].pc = pc, ![s].pid = None, ![s].first = FALSE, ![s].up = 0,
                           ![s].window = win, ![s].left = l]
  <2>1. PICK pc, win, l :
           /\ pc = (IF w[s].first THEN "wait" ELSE "retry")
           /\ win = (IF w[s].first THEN 0 ELSE w[s].window)
           /\ l = (IF w[s].first THEN 0 ELSE RetryDelay)
    OBVIOUS
  <2>2. win \in 0 .. Window + 1 /\ l \in Nat
    BY <1>1, <2>1, SvcConstants DEF Watchers
  <2>3. w' = [w EXCEPT ![s].pc = pc, ![s].pid = None, ![s].first = FALSE, ![s].up = 0,
                       ![s].window = win, ![s].left = l]
    BY <2>1 DEF StartFailed
  <2> QED
    BY <2>1, <2>2, <2>3
<1> DEFINE v == [w[s] EXCEPT !.pc = pc, !.pid = None, !.first = FALSE, !.up = 0,
                             !.window = win, !.left = l]
<1>3. w' = [w EXCEPT ![s] = v]
  BY <1>1, <1>2
<1>4. v \in Watchers /\ v.pc = pc /\ v.pid = None /\ v.crashes = w[s].crashes
  <2>1. 0 \in 0 .. Stable /\ None \in Pids \cup {None} /\ pc \in Pcs /\ FALSE \in BOOLEAN
    BY <1>2, Numbers DEF Pcs
  <2>2. w[s].crashes \in 0 .. MaxRestarts + 1 /\ w[s].cooldown \in Nat \ {0}
    BY <1>1 DEF Watchers
  <2> QED
    BY <1>1, <1>2, <2>1, <2>2, FieldsSet DEF Watchers, Pcs
<1> HIDE DEF v
<1>5. Watch(v)
  BY <1>1, <1>2, <1>4 DEF Watch
<1>6. Watching'
  BY <1>3, <1>5, OneWatcher DEF Typed
<1> QED
  BY <1>1, <1>2, <1>3, <1>4, <1>6

\* The first half of a start: a slot at the end of the list, or a failure.
LEMMA CreateIs ==
    ASSUME Typed, NEW s \in Services, CreateProcess(s)
    PROVE  /\ Typed' /\ w[s].pc = "create"
           /\ \A r \in Services : r # s => w'[r] = w[r]
           /\ \/ /\ CanCreate
                 /\ procs' = Append(procs, Process(AuAllocateProcessID, s, "slot"))
                 /\ w'[s].pc = "load" /\ w'[s].pid = AuAllocateProcessID
              \/ procs' = procs /\ w'[s].pid = None /\ w'[s].pc \in {"wait", "retry"}
<1> DEFINE a == AuAllocateProcessID
<1>1. /\ w[s].pc = "create" /\ Watch(w[s]) /\ w \in [Services -> Watchers]
      /\ UNCHANGED <<spoiled, init>>
  BY DEF CreateProcess, Step, Typed, Watching
<1>2. CASE CanCreate /\ procs' = Append(procs, Process(a, s, "slot"))
             /\ w' = [w EXCEPT ![s].pc = "load", ![s].pid = a]
  <2> DEFINE v == [w[s] EXCEPT !.pc = "load", !.pid = a]
  <2>1. a \in Pids /\ \A i \in DOMAIN procs : procs[i].pid # a
    BY <1>2, FreshPid
  <2>2. Process(a, s, "slot") \in Processes /\ Process(a, s, "slot").pid = a
    BY <2>1, ProcessType DEF Process
  <2>3. ProcList(procs')
    BY <1>2, <2>1, <2>2, Appended DEF Typed
  <2> HIDE DEF a
  <2>4. w' = [w EXCEPT ![s] = v]
    BY <1>1, <1>2
  <2>5. v \in Watchers /\ v.pc = "load" /\ v.pid = a /\ v.crashes = w[s].crashes
    BY <1>1, <2>1 DEF Watch, Watchers
  <2> HIDE DEF v
  <2>6. Watch(v)
    BY <1>1, <2>5 DEF Watch
  <2>7. Watching'
    BY <2>4, <2>6, OneWatcher DEF Typed
  <2> QED
    BY <1>1, <1>2, <2>3, <2>4, <2>5, <2>7 DEF Typed, a
<1>3. CASE StartFailed(s) /\ procs' = procs
  BY <1>1, <1>3, FailedIs DEF Typed
<1> QED
  BY <1>2, <1>3 DEF CreateProcess

\* The second half: the slot runs, or a failure.
LEMMA LoadIs ==
    ASSUME Typed, NEW s \in Services, ProcessLoadExec(s)
    PROVE  /\ Typed' /\ w[s].pc = "load"
           /\ \A r \in Services : r # s => w'[r] = w[r]
           /\ \/ /\ DOMAIN procs' = DOMAIN procs
                 /\ \A i \in DOMAIN procs :
                       /\ procs'[i].pid = procs[i].pid /\ procs'[i].name = procs[i].name
                       /\ procs'[i].waitlist = procs[i].waitlist
                       /\ procs[i].pid = w[s].pid => procs'[i].state = "ready"
                       /\ procs[i].pid # w[s].pid => procs'[i].state = procs[i].state
                 /\ w'[s].pc = "wait" /\ w'[s].pid = w[s].pid
              \/ procs' = procs /\ w'[s].pid = None /\ w'[s].pc \in {"wait", "retry"}
<1>1. /\ w[s].pc = "load" /\ Watch(w[s]) /\ w \in [Services -> Watchers]
      /\ UNCHANGED <<spoiled, init>>
  BY DEF ProcessLoadExec, Step, Typed, Watching
<1>2. CASE /\ procs' = [i \in DOMAIN procs |->
                          IF procs[i].pid = w[s].pid THEN [procs[i] EXCEPT !.state = "ready"]
                          ELSE procs[i]]
           /\ w' = [w EXCEPT ![s].pc = "wait", ![s].first = FALSE, ![s].up = 0,
                             ![s].window = IF w[s].first THEN 0 ELSE @]
  <2>1. \A i \in DOMAIN procs :
           /\ procs'[i] \in Processes
           /\ procs'[i].pid = procs[i].pid /\ procs'[i].name = procs[i].name
           /\ procs'[i].waitlist = procs[i].waitlist
           /\ procs[i].pid = w[s].pid => procs'[i].state = "ready"
           /\ procs[i].pid # w[s].pid => procs'[i].state = procs[i].state
    <3> SUFFICES ASSUME NEW i \in DOMAIN procs
                 PROVE  /\ procs'[i] \in Processes
                        /\ procs'[i].pid = procs[i].pid /\ procs'[i].name = procs[i].name
                        /\ procs'[i].waitlist = procs[i].waitlist
                        /\ procs[i].pid = w[s].pid => procs'[i].state = "ready"
                        /\ procs[i].pid # w[s].pid => procs'[i].state = procs[i].state
      OBVIOUS
    <3>1. procs[i] \in Processes
      BY ListShape DEF Typed
    <3> QED
      BY <1>2, <3>1 DEF Processes
  <2>2. DOMAIN procs' = DOMAIN procs /\ ProcList(procs')
    BY <1>2, <2>1, Rewritten DEF Typed
  <2>3. PICK win : win = (IF w[s].first THEN 0 ELSE w[s].window)
    OBVIOUS
  <2>4. win \in 0 .. Window + 1
    BY <1>1, <2>3, Numbers DEF Watch, Watchers
  <2> DEFINE v == [w[s] EXCEPT !.pc = "wait", !.first = FALSE, !.up = 0, !.window = win]
  <2>5. w' = [w EXCEPT ![s] = v]
    BY <1>1, <1>2, <2>3
  <2>6. v \in Watchers /\ v.pc = "wait" /\ v.pid = w[s].pid /\ v.crashes = w[s].crashes
    <3>1. 0 \in 0 .. Stable /\ "wait" \in Pcs /\ FALSE \in BOOLEAN /\ w[s] \in Watchers
      BY <1>1, Numbers DEF Pcs, Watch
    <3>2. /\ w[s].crashes \in 0 .. MaxRestarts + 1 /\ w[s].pid \in Pids \cup {None}
          /\ w[s].cooldown \in Nat \ {0} /\ w[s].left \in Nat
      BY <3>1 DEF Watchers
    <3> QED
      BY <2>4, <3>1, <3>2, FieldsSet DEF Watchers, Pcs
  <2> HIDE DEF v
  <2>7. Watch(v)
    BY <1>1, <2>6 DEF Watch
  <2>8. Watching'
    BY <2>5, <2>7, OneWatcher DEF Typed
  <2> QED
    BY <1>1, <2>1, <2>2, <2>5, <2>6, <2>8 DEF Typed
<1>3. CASE StartFailed(s) /\ procs' = procs
  BY <1>1, <1>3, FailedIs DEF Typed
<1> QED
  BY <1>2, <1>3 DEF ProcessLoadExec

\* svcmgr's pid is that of a ready process with its name.
LEMMA MgrIs ==
    ASSUME MgrUp
    PROVE  \E i \in DOMAIN procs : procs[i].name = Mgr /\ procs[i].state = "ready"
                                     /\ procs[i].pid = MgrPid
BY DEF MgrUp, MgrPid

\* A watcher is identified by a pid and a service.
LEMMA ThreadType ==
    ASSUME Typed, MgrUp, NEW s \in Services PROVE Thread(s) \in Pids \X Services
<1>1. PICK i \in DOMAIN procs : procs[i].pid = MgrPid
  BY MgrIs
<1>2. MgrPid \in Pids
  BY <1>1, ListShape DEF Typed, Processes
<1> QED
  BY <1>2 DEF Thread

\* The wait: on the waitlist of a process that has not died, or no wait at all.
LEMMA WaitIs ==
    ASSUME Typed, NEW s \in Services, AuProcessWaitForTermination(s)
    PROVE  /\ Typed' /\ w[s].pc = "wait" /\ MgrUp
           /\ \A r \in Services : r # s => w'[r] = w[r]
           /\ w'[s].pid = w[s].pid
           /\ \/ \E i \in Listed(w[s].pid) :
                    /\ DOMAIN procs' = DOMAIN procs /\ procs[i].state # "died"
                    /\ procs'[i].waitlist = procs[i].waitlist \cup {Thread(s)}
                    /\ procs'[i].pid = procs[i].pid /\ procs'[i].name = procs[i].name
                    /\ procs'[i].state = procs[i].state
                    /\ \A j \in DOMAIN procs : j # i => procs'[j] = procs[j]
                    /\ w'[s].pc = "blocked"
              \/ /\ procs' = procs /\ w'[s].pc = "gone"
                 /\ ~\E i \in Listed(w[s].pid) : Waitable(i)
<1>1. /\ w[s].pc = "wait" /\ Watch(w[s]) /\ w \in [Services -> Watchers] /\ MgrUp
      /\ UNCHANGED <<spoiled, init>>
  BY DEF AuProcessWaitForTermination, Step, Typed, Watching
<1>2. ASSUME NEW pc \in {"blocked", "gone"}, w' = [w EXCEPT ![s].pc = pc]
      PROVE  /\ Watching' /\ w'[s].pc = pc /\ w'[s].pid = w[s].pid
             /\ \A r \in Services : r # s => w'[r] = w[r]
  <2>1. Watch([w[s] EXCEPT !.pc = pc]) /\ [w[s] EXCEPT !.pc = pc].pc = pc
          /\ [w[s] EXCEPT !.pc = pc].pid = w[s].pid
    <3>1. pc \in Pcs /\ w[s].pc # "cooldown"
      BY <1>1 DEF Pcs
    <3> QED
      BY <1>1, <3>1, AtPc
  <2>2. w' = [w EXCEPT ![s] = [w[s] EXCEPT !.pc = pc]]
    BY <1>1, <1>2
  <2>3. Watching'
    BY <2>1, <2>2, OneWatcher DEF Typed
  <2> QED
    BY <1>1, <2>1, <2>2, <2>3
<1>3. ASSUME NEW i \in Listed(w[s].pid), Waitable(i),
             procs' = [procs EXCEPT ![i].waitlist = @ \cup {Thread(s)}],
             w' = [w EXCEPT ![s].pc = "blocked"]
      PROVE  /\ Typed' /\ DOMAIN procs' = DOMAIN procs /\ procs[i].state # "died"
             /\ procs'[i].waitlist = procs[i].waitlist \cup {Thread(s)}
             /\ procs'[i].pid = procs[i].pid /\ procs'[i].name = procs[i].name
             /\ procs'[i].state = procs[i].state
             /\ \A j \in DOMAIN procs : j # i => procs'[j] = procs[j]
  <2>1. procs[i] \in Processes /\ i \in DOMAIN procs /\ ProcList(procs)
    BY ListShape DEF Typed, Listed
  <2> DEFINE W == procs[i].waitlist \cup {Thread(s)}
             r == [procs[i] EXCEPT !.waitlist = W]
  <2>2. W \in SUBSET (Pids \X Services)
    BY <1>1, <2>1, ThreadType DEF Processes
  <2>3. procs' = [procs EXCEPT ![i] = r]
    BY <1>3, <2>1
  <2> HIDE DEF W
  <2>4. r \in Processes /\ r.pid = procs[i].pid /\ r.name = procs[i].name
          /\ r.state = procs[i].state /\ r.waitlist = W
    BY <2>1, <2>2 DEF Processes
  <2> HIDE DEF r
  <2>5. /\ DOMAIN procs' = DOMAIN procs /\ procs'[i] = r
        /\ \A j \in DOMAIN procs : j # i => procs'[j] = procs[j]
        /\ procs' = [j \in DOMAIN procs |-> procs'[j]]
    BY <2>1, <2>3
  <2>6. \A j \in DOMAIN procs : procs'[j] \in Processes /\ procs'[j].pid = procs[j].pid
    BY <2>1, <2>4, <2>5, ListShape
  <2>7. ProcList(procs')
    BY <2>1, <2>5, <2>6, Rewritten
  <2>8. Watching'
    BY <1>2, <1>3
  <2>9. procs[i].state # "died"
    BY <1>3 DEF Waitable
  <2> QED
    BY <1>1, <2>4, <2>5, <2>7, <2>8, <2>9 DEF Typed, W
<1>4. CASE \E i \in Listed(w[s].pid) :
              /\ Waitable(i)
              /\ procs' = [procs EXCEPT ![i].waitlist = @ \cup {Thread(s)}]
              /\ w' = [w EXCEPT ![s].pc = "blocked"]
  BY <1>1, <1>2, <1>3, <1>4
<1>5. CASE /\ ~\E i \in Listed(w[s].pid) : Waitable(i)
           /\ w' = [w EXCEPT ![s].pc = "gone"] /\ procs' = procs
  BY <1>1, <1>2, <1>5 DEF Typed
<1> QED
  BY <1>4, <1>5 DEF AuProcessWaitForTermination

\* The steps of a watcher that leave the processes alone.
Thinks(s) == Gone(s) \/ Probation(s) \/ Restart(s) \/ Retry(s)

\* Whatever a watcher decides, its pid stays and it goes on to a delay or an attempt.
LEMMA ThinksIs ==
    ASSUME Typed, NEW s \in Services, Thinks(s)
    PROVE  /\ Typed' /\ UNCHANGED <<procs, spoiled, init>>
           /\ w[s].pc \in {"gone", "cooldown", "backoff", "retry"}
           /\ \A r \in Services : r # s => w'[r] = w[r]
           /\ w'[s].pid = w[s].pid
           /\ w'[s].pc \in {"cooldown", "backoff", "create", "wait"}
           /\ w'[s].pc = "wait" => w[s].pc = "retry"
<1>1. /\ Watch(w[s]) /\ w[s] \in Watchers /\ w \in [Services -> Watchers]
      /\ UNCHANGED <<procs, spoiled, init>>
  BY DEF Thinks, Gone, Probation, Restart, Retry, kernel, Typed, Watching, Watch
<1>2. /\ w[s].crashes \in 0 .. MaxRestarts + 1 /\ w[s].pid \in Pids \cup {None}
      /\ w[s].cooldown \in Nat \ {0} /\ w[s].left \in Nat
      /\ w[s].window \in 0 .. Window + 1 /\ w[s].first \in BOOLEAN /\ w[s].up \in 0 .. Stable
  BY <1>1 DEF Watchers
<1>3. ASSUME NEW v, Watch(v), v.pid = w[s].pid, w' = [w EXCEPT ![s] = v]
      PROVE  /\ Typed' /\ w'[s] = v /\ \A r \in Services : r # s => w'[r] = w[r]
  BY <1>1, <1>3, OneWatcher DEF Typed
<1>4. CASE Gone(s)
  <2> DEFINE n == Counted(s) + 1
  <2>1. n \in 0 .. MaxRestarts + 1 /\ n - 1 \in 0 .. MaxRestarts /\ w[s].pc = "gone"
    <3>1. w[s].pc = "gone"
      BY <1>4 DEF Gone, Step
    <3>2. w[s].crashes \in 0 .. MaxRestarts
      BY <1>1, <1>2, <3>1, Numbers DEF Watch
    <3>3. Counted(s) \in 0 .. MaxRestarts
      BY <3>2, Numbers DEF Counted
    <3> QED
      BY <3>1, <3>3, Numbers
  <2>2. CooldownNow(s) \in Nat \ {0}
    BY <1>2, Numbers DEF CooldownNow
  <2>3. PICK c, win, pc, l :
           /\ c = CooldownNow(s)
           /\ win = (IF w[s].window > Window THEN 0 ELSE w[s].window)
           /\ pc = (IF n > MaxRestarts THEN "cooldown" ELSE "backoff")
           /\ l = (IF n > MaxRestarts THEN CooldownNow(s) ELSE Backoff * 2^(n - 1))
    OBVIOUS
  <2>4. l \in Nat
    <3>1. CooldownNow(s) \in Nat
      BY <2>2, Numbers
    <3>2. Backoff * 2^(n - 1) \in Nat
      BY <2>1, Delays
    <3> QED
      BY <2>3, <3>1, <3>2
  <2>5. win \in 0 .. Window + 1 /\ pc \in {"cooldown", "backoff"} /\ pc \in Pcs
        /\ (pc # "cooldown" => n <= MaxRestarts) /\ 0 \in 0 .. Stable
    BY <1>2, <2>1, <2>3, Numbers DEF Pcs
  <2> DEFINE v == [w[s] EXCEPT !.crashes = n, !.cooldown = c, !.up = 0, !.window = win,
                               !.pc = pc, !.left = l]
  <2>6. w' = [w EXCEPT ![s] = v]
    <3>1. w' = [w EXCEPT ![s] =
                  [w[s] EXCEPT !.crashes = n, !.cooldown = CooldownNow(s), !.up = 0,
                               !.window = IF w[s].window > Window THEN 0 ELSE w[s].window,
                               !.pc = IF n > MaxRestarts THEN "cooldown" ELSE "backoff",
                               !.left = IF n > MaxRestarts THEN CooldownNow(s)
                                        ELSE Backoff * 2^(n - 1)]]
      BY <1>4, Zenon DEF Gone
    <3>2. v = [w[s] EXCEPT !.crashes = n, !.cooldown = CooldownNow(s), !.up = 0,
                           !.window = IF w[s].window > Window THEN 0 ELSE w[s].window,
                           !.pc = IF n > MaxRestarts THEN "cooldown" ELSE "backoff",
                           !.left = IF n > MaxRestarts THEN CooldownNow(s)
                                    ELSE Backoff * 2^(n - 1)]
      <4> HIDE DEF n
      <4> QED
        BY <2>3
    <3> HIDE DEF n, v
    <3> QED
      BY <3>1, <3>2, Zenon
  <2> HIDE DEF n
  <2>7. v \in Watchers /\ v.pc = pc /\ v.pid = w[s].pid /\ v.crashes = n
    BY <1>1, <1>2, <2>1, <2>2, <2>3, <2>4, <2>5, FieldsSet DEF Watchers, Pcs
  <2> HIDE DEF v
  <2>8. Watch(v)
    BY <2>5, <2>7 DEF Watch
  <2> QED
    BY <1>1, <1>3, <2>1, <2>5, <2>6, <2>7, <2>8
<1>5. CASE Probation(s)
  <2>1. w[s].pc = "cooldown" /\ MaxRestarts \in 0 .. MaxRestarts + 1 /\ 0 \in 0 .. Window + 1
        /\ "create" \in Pcs
    BY <1>5, Numbers DEF Probation, Step, Pcs
  <2>2. PICK c : c = Doubled(w[s].cooldown)
    OBVIOUS
  <2>3. c \in Nat \ {0}
    BY <1>2, <2>2, Numbers DEF Doubled
  <2> DEFINE v == [w[s] EXCEPT !.cooldown = c, !.crashes = MaxRestarts, !.window = 0,
                               !.pc = "create"]
  <2>4. w' = [w EXCEPT ![s] = v]
    BY <1>1, <1>5, <2>2 DEF Probation, Strikes
  <2>5. v \in Watchers /\ v.pc = "create" /\ v.pid = w[s].pid /\ v.crashes = MaxRestarts
    BY <1>1, <1>2, <2>1, <2>3, FieldsSet DEF Watchers, Pcs
  <2> HIDE DEF v
  <2>6. Watch(v)
    BY <2>5, Numbers DEF Watch
  <2> QED
    BY <1>1, <1>3, <2>1, <2>4, <2>5, <2>6
<1>6. ASSUME NEW pc \in {"create", "wait"}, w[s].pc \in {"backoff", "retry"},
             w' = [w EXCEPT ![s].pc = pc]
      PROVE  Typed' /\ w'[s].pc = pc /\ w'[s].pid = w[s].pid
               /\ \A r \in Services : r # s => w'[r] = w[r]
  <2> DEFINE v == [w[s] EXCEPT !.pc = pc]
  <2>1. Watch(v) /\ v.pc = pc /\ v.pid = w[s].pid
    <3>1. pc \in Pcs /\ w[s].pc # "cooldown"
      BY <1>6 DEF Pcs
    <3> QED
      BY <1>1, <3>1, AtPc
  <2>2. w' = [w EXCEPT ![s] = v]
    BY <1>1, <1>6
  <2> HIDE DEF v
  <2> QED
    BY <1>3, <2>1, <2>2
<1>7. CASE Restart(s)
  <2>1. w[s].pc = "backoff" /\ w' = [w EXCEPT ![s].pc = "create"]
    BY <1>7 DEF Restart, Step
  <2> QED
    BY <1>1, <1>6, <2>1
<1>8. CASE Retry(s)
  <2>1. w[s].pc = "retry" /\ w' = [w EXCEPT ![s].pc = "wait"]
    BY <1>8 DEF Retry, Step
  <2> QED
    BY <1>1, <1>6, <2>1
<1> QED
  BY <1>4, <1>5, <1>7, <1>8 DEF Thinks

\* The death of svcmgr.
LEMMA DiesIs ==
    ASSUME Typed, MgrDies
    PROVE  /\ Typed' /\ DOMAIN procs' = DOMAIN procs /\ UNCHANGED <<spoiled, init>>
           /\ \A i \in DOMAIN procs :
                 /\ procs'[i].pid = procs[i].pid /\ procs'[i].name = procs[i].name
                 /\ procs'[i].waitlist = procs[i].waitlist
                 /\ procs[i].pid = MgrPid => procs'[i].state = "died"
                 /\ procs[i].pid # MgrPid => procs'[i].state = procs[i].state
           /\ \A s \in Services : w'[s].pc = "dead" /\ w'[s].pid = None
<1> DEFINE m == MgrPid
<1>1. /\ procs' = [i \in DOMAIN procs |->
                     IF procs[i].pid = m THEN [procs[i] EXCEPT !.state = "died"] ELSE procs[i]]
      /\ w' = [s \in Services |-> NewWatcher("dead")] /\ UNCHANGED <<spoiled, init>>
  BY DEF MgrDies
<1> HIDE DEF m
<1>2. ASSUME NEW i \in DOMAIN procs
      PROVE  /\ procs'[i] \in Processes
             /\ procs'[i].pid = procs[i].pid /\ procs'[i].name = procs[i].name
             /\ procs'[i].waitlist = procs[i].waitlist
             /\ procs[i].pid = m => procs'[i].state = "died"
             /\ procs[i].pid # m => procs'[i].state = procs[i].state
  <2>1. procs[i] \in Processes
    BY ListShape DEF Typed
  <2> QED
    BY <1>1, <2>1 DEF Processes
<1>3. DOMAIN procs' = DOMAIN procs /\ ProcList(procs')
  BY <1>1, <1>2, Rewritten DEF Typed
<1>4. Watching' /\ \A s \in Services : w'[s].pc = "dead" /\ w'[s].pid = None
  BY <1>1, NewWatcherIs DEF Watching, Watch, NewWatcher
<1> QED
  BY <1>1, <1>2, <1>3, <1>4 DEF Typed, m

\* A watcher after a tick.
Ticked(v) ==
    [v EXCEPT !.left = Downto(v.left),
              !.up = IF v.pc = "blocked" THEN Upto(v.up, Stable) ELSE v.up,
              !.window = IF v.pc = "dead" THEN v.window ELSE Upto(v.window, Window + 1)]

\* Only its clocks move.
LEMMA TickedIs ==
    ASSUME NEW v, Watch(v)
    PROVE  Watch(Ticked(v)) /\ Ticked(v).pc = v.pc /\ Ticked(v).pid = v.pid
<1>1. PICK l, u, win :
         /\ l = Downto(v.left)
         /\ u = (IF v.pc = "blocked" THEN Upto(v.up, Stable) ELSE v.up)
         /\ win = (IF v.pc = "dead" THEN v.window ELSE Upto(v.window, Window + 1))
  OBVIOUS
<1> DEFINE e == [v EXCEPT !.left = l, !.up = u, !.window = win]
<1>2. v \in Watchers /\ v.left \in Nat /\ v.up \in 0 .. Stable /\ v.window \in 0 .. Window + 1
  BY DEF Watch, Watchers
<1>3. l \in Nat
  BY <1>1, <1>2 DEF Downto
<1>4. u \in 0 .. Stable
  BY <1>1, <1>2, Numbers DEF Upto
<1>5. win \in 0 .. Window + 1
  BY <1>1, <1>2, Numbers DEF Upto
<1>6. e \in Watchers /\ e.pc = v.pc /\ e.pid = v.pid /\ e.crashes = v.crashes
  BY <1>2, <1>3, <1>4, <1>5 DEF Watchers
<1>7. Ticked(v) = e
  BY <1>1 DEF Ticked
<1> HIDE DEF e
<1> QED
  BY <1>6, <1>7 DEF Watch

\* A tick moves clocks.
LEMMA TickIs ==
    ASSUME Typed, Tick
    PROVE  /\ Typed' /\ UNCHANGED <<procs, spoiled>> /\ init'.mgr = init.mgr
           /\ \A s \in Services : w'[s].pc = w[s].pc /\ w'[s].pid = w[s].pid
<1>1. /\ w' = [s \in Services |->
                 [w[s] EXCEPT !.left = Downto(@),
                              !.up = IF w[s].pc = "blocked" THEN Upto(@, Stable) ELSE @,
                              !.window = IF w[s].pc = "dead" THEN @ ELSE Upto(@, Window + 1)]]
      /\ UNCHANGED <<procs, spoiled>>
  BY DEF Tick, kernel
<1>2. ASSUME NEW s \in Services
      PROVE  Watch(w'[s]) /\ w'[s].pc = w[s].pc /\ w'[s].pid = w[s].pid
  <2>1. w'[s] = Ticked(w[s])
    BY <1>1 DEF Ticked
  <2>2. Watch(w[s])
    BY DEF Typed, Watching
  <2> QED
    BY <2>1, <2>2, TickedIs
<1>3. Watching'
  <2>1. w' = [s \in Services |-> w'[s]]
    BY <1>1
  <2> QED
    BY <1>2, <2>1 DEF Watching, Watch
<1>4. init' \in InitRecs /\ init'.mgr = init.mgr
  <2>1. PICK pc, win : /\ pc = (IF init.pc = "sleep" THEN "watch" ELSE init.pc)
                       /\ win = Upto(init.window, MgrWindow + 1)
    OBVIOUS
  <2>2. win \in 0 .. MgrWindow + 1 /\ pc \in {"reap", "sleep", "watch"}
    <3>1. init.window \in 0 .. MgrWindow + 1 /\ init.pc \in {"reap", "sleep", "watch"}
      BY DEF Typed, InitRecs
    <3> QED
      BY <2>1, <3>1, Numbers DEF Upto
  <2>3. init' = [init EXCEPT !.pc = pc, !.window = win]
    BY <2>1 DEF Tick
  <2> QED
    BY <2>2, <2>3 DEF Typed, InitRecs
<1> QED
  BY <1>1, <1>2, <1>3, <1>4 DEF Typed

-----------------------------------------------------------------------------
(* Nobody waits in vain *)

\* The svcmgr that runs is the one init remembers.
MgrRunning ==
    \A i \in DOMAIN procs : procs[i].name = Mgr /\ procs[i].state = "ready" =>
        procs[i].pid = init.mgr

\* A watcher's pid belongs to no process of another name.
OwnName ==
    \A s \in Services : \A i \in DOMAIN procs : procs[i].pid = w[s].pid => procs[i].name = s

\* A blocked watcher is on the waitlist of a process that has not died.
Awaited ==
    \A s \in Services : MgrUp /\ w[s].pc = "blocked" =>
        \E i \in DOMAIN procs :
            /\ procs[i].pid = w[s].pid /\ procs[i].state # "died"
            /\ <<init.mgr, s>> \in procs[i].waitlist

IInv == Typed /\ MgrRunning /\ OwnName /\ Awaited

\* A running svcmgr has the pid init remembers.
LEMMA MgrPidIs ==
    ASSUME MgrRunning, MgrUp PROVE MgrPid = init.mgr
BY MgrIs DEF MgrRunning

\* A wait that is on the waitlist of its pid is one that will be woken.
LEMMA AwaitedIs == IInv => BlockedWillBeWoken
<1> SUFFICES ASSUME IInv, NEW s \in Services, Step(s, "blocked")
             PROVE  \E i \in Listed(w[s].pid) :
                       procs[i].state # "died" /\ Thread(s) \in procs[i].waitlist
  BY DEF BlockedWillBeWoken
<1>1. MgrUp /\ w[s].pc = "blocked"
  BY DEF Step
<1>2. Thread(s) = <<init.mgr, s>>
  BY <1>1, MgrPidIs DEF IInv, Thread
<1> QED
  BY <1>1, <1>2 DEF IInv, Awaited, Listed

\* A step in which no process appears, no name changes and no svcmgr becomes ready
\* keeps what the pids stand for.
LEMMA Kept ==
    ASSUME IInv, init'.mgr = init.mgr,
           \A k \in DOMAIN procs' : \E i \in DOMAIN procs :
              /\ procs'[k].pid = procs[i].pid /\ procs'[k].name = procs[i].name
              /\ procs'[k].name = Mgr /\ procs'[k].state = "ready" => procs[i].state = "ready",
           \A s \in Services :
              \/ w'[s].pid = w[s].pid
              \/ \A i \in DOMAIN procs : procs[i].pid = w'[s].pid => procs[i].name = s
    PROVE  MgrRunning' /\ OwnName' /\ (MgrUp' => MgrUp)
<1>1. MgrRunning'
  BY DEF IInv, MgrRunning
<1>2. OwnName'
  <2> SUFFICES ASSUME NEW s \in Services, NEW k \in DOMAIN procs', procs'[k].pid = w'[s].pid
               PROVE  procs'[k].name = s
    BY DEF OwnName
  <2>1. PICK i \in DOMAIN procs : procs'[k].pid = procs[i].pid /\ procs'[k].name = procs[i].name
    OBVIOUS
  <2>2. procs[i].pid = w'[s].pid
    BY <2>1
  <2>3. CASE w'[s].pid = w[s].pid
    BY <2>1, <2>2, <2>3 DEF IInv, OwnName
  <2>4. CASE \A j \in DOMAIN procs : procs[j].pid = w'[s].pid => procs[j].name = s
    BY <2>1, <2>2, <2>4
  <2> QED
    BY <2>3, <2>4
<1>3. MgrUp' => MgrUp
  BY DEF MgrUp
<1> QED
  BY <1>1, <1>2, <1>3

\* No process has no pid.
LEMMA NoneUnlisted ==
    ASSUME Typed, NEW i \in DOMAIN procs PROVE procs[i].pid # None /\ procs[i].pid \in Pids
BY ListShape, SvcConstants DEF Typed, Processes, None

\* A service's exit wakes those that wait for it: nobody waits for the dead.
LEMMA ExitStep ==
    ASSUME IInv, NEW i \in DOMAIN procs, AuProcessExit(i) PROVE IInv'
<1>1. /\ Typed' /\ DOMAIN procs' = DOMAIN procs /\ init' = init
      /\ \A j \in DOMAIN procs :
            /\ procs'[j].pid = procs[j].pid /\ procs'[j].name = procs[j].name
            /\ j # i => procs'[j] = procs[j]
      /\ procs[i].name \in Services /\ procs'[i].state = "died"
  BY ExitList, ExitTyped DEF IInv, AuProcessExit
<1>2. PICK hit \in SUBSET Services :
         w' = [s \in Services |->
                 IF Unblocked(procs[i].waitlist, s, hit) THEN [w[s] EXCEPT !.pc = "gone"] ELSE w[s]]
  BY DEF AuProcessExit
<1>3. ASSUME NEW s \in Services
      PROVE  /\ w'[s].pid = w[s].pid
             /\ w'[s].pc = "blocked" => w[s].pc = "blocked" /\ ~Unblocked(procs[i].waitlist, s, hit)
  <2>1. w[s] \in Watchers
    BY DEF IInv, Typed, Watching, Watch
  <2>2. [w[s] EXCEPT !.pc = "gone"].pc = "gone" /\ [w[s] EXCEPT !.pc = "gone"].pid = w[s].pid
    BY <2>1 DEF Watchers
  <2> QED
    BY <1>2, <2>2 DEF Unblocked
<1>4. MgrRunning' /\ OwnName' /\ (MgrUp' => MgrUp)
  BY <1>1, <1>3, Kept
<1>5. Awaited'
  <2> SUFFICES ASSUME NEW s \in Services, MgrUp, w'[s].pc = "blocked"
               PROVE  \E j \in DOMAIN procs' :
                         /\ procs'[j].pid = w'[s].pid /\ procs'[j].state # "died"
                         /\ <<init'.mgr, s>> \in procs'[j].waitlist
    BY <1>4 DEF Awaited
  <2>1. PICK j \in DOMAIN procs : /\ procs[j].pid = w[s].pid /\ procs[j].state # "died"
                                  /\ <<init.mgr, s>> \in procs[j].waitlist
    BY <1>3 DEF IInv, Awaited
  <2>2. Thread(s) = <<init.mgr, s>>
    BY MgrPidIs DEF IInv, Thread
  <2>3. j # i
    BY <1>3, <2>1, <2>2 DEF Unblocked
  <2> QED
    BY <1>1, <1>3, <2>1, <2>3
<1> QED
  BY <1>1, <1>4, <1>5 DEF IInv

\* init takes dead processes off the list, and no others.
LEMMA ReapIs ==
    ASSUME Typed, InitReap
    PROVE  /\ \A k \in DOMAIN procs' : \E i \in DOMAIN procs : i \in Unreaped /\ procs'[k] = procs[i]
           /\ \A i \in DOMAIN procs : ~AuProcessCanReap(procs[i]) =>
                 \E k \in DOMAIN procs' : procs'[k] = procs[i]
           /\ \A i \in DOMAIN procs : procs[i].state # "died" =>
                 \E k \in DOMAIN procs' : procs'[k] = procs[i]
           /\ UNCHANGED <<w, spoiled>> /\ init'.mgr = init.mgr
<1>1. Unreaped \in SUBSET DOMAIN procs /\ procs' = Selection(procs, Unreaped)
  BY DEF Unreaped, InitReap
<1>2. /\ \A k \in DOMAIN procs' : \E i \in Unreaped : procs'[k] = procs[i]
      /\ \A i \in Unreaped : \E k \in DOMAIN procs' : procs'[k] = procs[i]
  BY <1>1, Reaped DEF Typed
<1>3. init'.mgr = init.mgr /\ UNCHANGED <<w, spoiled>>
  BY DEF InitReap, Typed, InitRecs
<1> QED
  BY <1>1, <1>2, <1>3 DEF Unreaped, AuProcessCanReap

\* The reaper frees only processes that died, which nobody waits for.
LEMMA ReapStep ==
    ASSUME IInv, InitReap PROVE IInv'
<1>1. Typed'
  BY ReapTyped DEF IInv
<1>2. MgrRunning' /\ OwnName' /\ (MgrUp' => MgrUp)
  BY ReapIs, Kept DEF IInv
<1>3. Awaited'
  <2> SUFFICES ASSUME NEW s \in Services, MgrUp, w'[s].pc = "blocked"
               PROVE  \E j \in DOMAIN procs' :
                         /\ procs'[j].pid = w'[s].pid /\ procs'[j].state # "died"
                         /\ <<init'.mgr, s>> \in procs'[j].waitlist
    BY <1>2 DEF Awaited
  <2>1. PICK j \in DOMAIN procs : /\ procs[j].pid = w[s].pid /\ procs[j].state # "died"
                                  /\ <<init.mgr, s>> \in procs[j].waitlist
    BY ReapIs DEF IInv, Awaited
  <2> QED
    BY <2>1, ReapIs DEF IInv
<1> QED
  BY <1>1, <1>2, <1>3 DEF IInv

\* A process that is created has a pid nobody remembers and an empty waitlist.
LEMMA NewProcess ==
    ASSUME Typed, CanCreate, NEW n \in Services \cup {Mgr}, NEW x \in {"slot", "ready", "died"},
           procs' = Append(procs, Process(AuAllocateProcessID, n, x))
    PROVE  \E k : /\ k \notin DOMAIN procs /\ DOMAIN procs' = DOMAIN procs \cup {k}
                  /\ procs'[k].pid = AuAllocateProcessID /\ procs'[k].name = n
                  /\ procs'[k].state = x /\ procs'[k].waitlist = {}
                  /\ \A i \in DOMAIN procs : procs'[i] = procs[i]
<1> DEFINE a == AuAllocateProcessID
           r == Process(a, n, x)
<1>1. a \in Pids /\ \A i \in DOMAIN procs : procs[i].pid # a
  BY FreshPid
<1> HIDE DEF a
<1>2. r \in Processes /\ r.pid = a /\ r.name = n /\ r.state = x /\ r.waitlist = {}
  BY <1>1, ProcessType DEF Process
<1>3. procs' = Append(procs, r)
  BY DEF a
<1> HIDE DEF r
<1> DEFINE k == Len(procs) + 1
<1>4. /\ DOMAIN procs' = DOMAIN procs \cup {k} /\ k \notin DOMAIN procs
      /\ procs'[k] = r /\ \A i \in DOMAIN procs : procs'[i] = procs[i]
  BY <1>1, <1>2, <1>3, Appended DEF Typed
<1> HIDE DEF k
<1> QED
  BY <1>2, <1>4 DEF a

\* What init does about svcmgr: nothing, or once its process is off the list one of
\* three things.
LEMMA WatchIs ==
    ASSUME Typed, init_watch_svcmgr
    PROVE  /\ spoiled' = spoiled
           /\ \/ UNCHANGED <<procs, w>> /\ init'.mgr = init.mgr
              \/ /\ init.mgr # None /\ \A i \in DOMAIN procs : procs[i].pid # init.mgr
                 /\ \/ UNCHANGED <<procs, w>> /\ init'.mgr = None
                    \/ /\ CanCreate /\ init'.mgr = AuAllocateProcessID
                       /\ procs' = Append(procs, Process(AuAllocateProcessID, Mgr, "ready"))
                       /\ \A s \in Services : w'[s].pc = "find" /\ w'[s].pid = None
                    \/ /\ CanCreate /\ init'.mgr = None /\ w' = w
                       /\ procs' = Append(procs, Process(AuAllocateProcessID, Mgr, "slot"))
<1> DEFINE n == (IF init.window > MgrWindow THEN 0 ELSE init.restarts) + 1
           a == AuAllocateProcessID
<1>1. init \in InitRecs
  BY DEF Typed
<1>2. CASE init' = [init EXCEPT !.pc = "reap"] /\ UNCHANGED <<procs, spoiled, w>>
  BY <1>1, <1>2 DEF InitRecs
<1>3. \A P : GiveUp(P) => procs' = P /\ init'.mgr = None /\ UNCHANGED <<w, spoiled>>
  BY <1>1 DEF GiveUp, InitRecs
<1>4. ASSUME launch_svcmgr(n)
      PROVE  /\ CanCreate /\ init'.mgr = a /\ spoiled' = spoiled
             /\ procs' = Append(procs, Process(a, Mgr, "ready"))
             /\ \A s \in Services : w'[s].pc = "find" /\ w'[s].pid = None
  <2> HIDE DEF n, a
  <2>1. /\ CanCreate /\ spoiled' = spoiled /\ w' = [s \in Services |-> NewWatcher("find")]
        /\ procs' = Append(procs, Process(a, Mgr, "ready"))
        /\ init' = [init EXCEPT !.pc = "reap", !.mgr = a, !.restarts = n,
                                !.window = IF @ > MgrWindow THEN 0 ELSE @]
    BY <1>4 DEF launch_svcmgr, a
  <2>2. PICK x : x = (IF init.window > MgrWindow THEN 0 ELSE init.window)
    OBVIOUS
  <2>3. init' = [init EXCEPT !.pc = "reap", !.mgr = a, !.restarts = n, !.window = x]
    BY <2>1, <2>2
  <2>4. init'.mgr = a
    BY <1>1, <2>3 DEF InitRecs
  <2> QED
    BY <2>1, <2>4 DEF NewWatcher
<1> HIDE DEF n
<1>5. CASE \/ GiveUp(procs) \/ launch_svcmgr(n)
           \/ CanCreate /\ GiveUp(Append(procs, Process(a, Mgr, "slot")))
  <2>1. init_watch_svcmgr /\ ~(init' = [init EXCEPT !.pc = "reap"] /\ UNCHANGED <<procs, spoiled, w>>)
          => init.mgr # None /\ ~Present(init.mgr)
    BY DEF init_watch_svcmgr, kernel
  <2> QED
    BY <1>2, <1>3, <1>4, <1>5, <2>1 DEF Present, Listed
<1> QED
  BY <1>2, <1>5 DEF init_watch_svcmgr, kernel, n

\* A new svcmgr starts with watchers that are in no wait.
LEMMA WatchStep ==
    ASSUME IInv, init_watch_svcmgr PROVE IInv'
<1>1. Typed'
  BY WatchTyped DEF IInv
<1>2. CASE UNCHANGED <<procs, w>> /\ init'.mgr = init.mgr
  BY <1>1, <1>2 DEF IInv, MgrRunning, OwnName, Awaited, MgrUp
<1>3. ASSUME \A i \in DOMAIN procs : procs[i].pid # init.mgr
      PROVE  \A i \in DOMAIN procs : ~(procs[i].name = Mgr /\ procs[i].state = "ready")
  BY <1>3 DEF IInv, MgrRunning
<1>4. CASE /\ UNCHANGED <<procs, w>> /\ init'.mgr = None
           /\ \A i \in DOMAIN procs : procs[i].pid # init.mgr
  BY <1>1, <1>3, <1>4 DEF IInv, MgrRunning, OwnName, Awaited, MgrUp
<1>5. CASE /\ CanCreate /\ init'.mgr = AuAllocateProcessID
           /\ procs' = Append(procs, Process(AuAllocateProcessID, Mgr, "ready"))
           /\ \A s \in Services : w'[s].pc = "find" /\ w'[s].pid = None
           /\ \A i \in DOMAIN procs : procs[i].pid # init.mgr
  <2>1. PICK k : /\ k \notin DOMAIN procs /\ DOMAIN procs' = DOMAIN procs \cup {k}
                 /\ procs'[k].pid = AuAllocateProcessID
                 /\ \A i \in DOMAIN procs : procs'[i] = procs[i]
    BY <1>5, NewProcess DEF IInv
  <2>2. MgrRunning'
    BY <1>3, <1>5, <2>1 DEF MgrRunning
  <2>3. OwnName'
    <3>1. AuAllocateProcessID # None
      BY <1>5, FreshPid, SvcConstants DEF None
    <3>2. \A i \in DOMAIN procs' : procs'[i].pid # None
      BY <2>1, <3>1, NoneUnlisted DEF IInv
    <3> QED
      BY <1>5, <3>2 DEF OwnName
  <2> QED
    BY <1>1, <1>5, <2>2, <2>3 DEF IInv, Awaited
<1>6. CASE /\ CanCreate /\ init'.mgr = None /\ w' = w
           /\ procs' = Append(procs, Process(AuAllocateProcessID, Mgr, "slot"))
           /\ \A i \in DOMAIN procs : procs[i].pid # init.mgr
  <2>1. PICK k : /\ k \notin DOMAIN procs /\ DOMAIN procs' = DOMAIN procs \cup {k}
                 /\ procs'[k].pid = AuAllocateProcessID /\ procs'[k].state = "slot"
                 /\ \A i \in DOMAIN procs : procs'[i] = procs[i]
    BY <1>6, NewProcess DEF IInv
  <2>2. MgrRunning' /\ ~MgrUp'
    BY <1>3, <1>6, <2>1 DEF MgrRunning, MgrUp
  <2>3. OwnName'
    BY <1>6, <2>1, FreshPid DEF IInv, OwnName
  <2> QED
    BY <1>1, <2>2, <2>3 DEF IInv, Awaited
<1> QED
  BY <1>2, <1>4, <1>5, <1>6, WatchIs DEF IInv

\* What a watcher's search for its service finds, and what it changes.
LEMMA AdoptIs ==
    ASSUME Typed, NEW s \in Services, Adopt(s)
    PROVE  /\ Typed' /\ UNCHANGED <<procs, spoiled, init>> /\ w[s].pc = "find" /\ MgrUp
           /\ \A r \in Services : r # s => w'[r] = w[r]
           /\ \/ Named(s) = {} /\ w'[s].pc = "create" /\ w'[s].pid = w[s].pid
              \/ /\ w'[s].pc = "wait"
                 /\ \E i \in Named(s) : w'[s].pid = procs[i].pid
<1>1. w \in [Services -> Watchers] /\ w[s] \in Watchers /\ w[s].pc = "find" /\ MgrUp
        /\ UNCHANGED <<procs, spoiled, init>>
  BY DEF Adopt, Step, kernel, Typed, Watching, Watch
<1>2. PICK p : p = find_running(s)
  OBVIOUS
<1>3. CASE p = None
  <2>1. w' = [w EXCEPT ![s] = [w[s] EXCEPT !.pc = "create"]]
    BY <1>2, <1>3 DEF Adopt
  <2>2. Named(s) = {}
    <3>1. \A i \in Named(s) : procs[i].pid # None
      BY NoneUnlisted DEF Named
    <3> QED
      BY <1>2, <1>3, <3>1, FindsNamed DEF Typed
  <2>3. w'[s].pc = "create" /\ w'[s].pid = w[s].pid /\ \A r \in Services : r # s => w'[r] = w[r]
    BY <1>1, <2>1 DEF Watchers
  <2> QED
    BY <1>1, <2>2, <2>3, AdoptTyped
<1>4. CASE p # None
  <2>1. w' = [w EXCEPT ![s] = [w[s] EXCEPT !.pc = "wait", !.pid = p, !.first = FALSE]]
    BY <1>2, <1>4 DEF Adopt
  <2>2. \E i \in Named(s) : p = procs[i].pid
    BY <1>2, <1>4, FindsNamed DEF Typed
  <2>3. w'[s].pc = "wait" /\ w'[s].pid = p /\ \A r \in Services : r # s => w'[r] = w[r]
    BY <1>1, <2>1 DEF Watchers
  <2> QED
    BY <1>1, <2>2, <2>3, AdoptTyped
<1> QED
  BY <1>3, <1>4

\* A step that leaves the processes alone, and blocks no watcher that was not blocked.
LEMMA QuietStep ==
    ASSUME IInv, Typed', UNCHANGED procs, init'.mgr = init.mgr,
           \A s \in Services :
              /\ \/ w'[s].pid = w[s].pid
                 \/ \A i \in DOMAIN procs : procs[i].pid = w'[s].pid => procs[i].name = s
              /\ w'[s].pc = "blocked" => w[s].pc = "blocked" /\ w'[s].pid = w[s].pid
    PROVE  IInv'
<1>1. MgrRunning' /\ OwnName' /\ (MgrUp' => MgrUp)
  BY Kept
<1>2. Awaited'
  BY <1>1 DEF IInv, Awaited
<1> QED
  BY <1>1, <1>2 DEF IInv

\* No process has a failed watcher's pid.
LEMMA NoPidMatches ==
    ASSUME Typed, NEW p, p = None PROVE \A i \in DOMAIN procs : procs[i].pid # p
BY NoneUnlisted

\* A search waits for nothing.
LEMMA AdoptStep ==
    ASSUME IInv, NEW s \in Services, Adopt(s) PROVE IInv'
<1>1. /\ Typed' /\ UNCHANGED <<procs, init>> /\ \A r \in Services : r # s => w'[r] = w[r]
      /\ w'[s].pc # "blocked"
      /\ \/ w'[s].pid = w[s].pid
         \/ \E i \in Named(s) : w'[s].pid = procs[i].pid
  BY AdoptIs DEF IInv
<1>2. \/ w'[s].pid = w[s].pid
      \/ \A i \in DOMAIN procs : procs[i].pid = w'[s].pid => procs[i].name = s
  BY <1>1 DEF Named, IInv, Typed, ProcList
<1> QED
  BY <1>1, <1>2, QuietStep

\* The accounting of a crash waits for nothing.
LEMMA ThinksStep ==
    ASSUME IInv, NEW s \in Services, Thinks(s) PROVE IInv'
<1>1. /\ Typed' /\ UNCHANGED <<procs, init>> /\ \A r \in Services : r # s => w'[r] = w[r]
      /\ w'[s].pc # "blocked" /\ w'[s].pid = w[s].pid
  BY ThinksIs DEF IInv
<1> QED
  BY <1>1, QuietStep

\* Time alone changes no wait.
LEMMA TickStep ==
    ASSUME IInv, Tick PROVE IInv'
<1>1. /\ Typed' /\ UNCHANGED procs /\ init'.mgr = init.mgr
      /\ \A s \in Services : w'[s].pc = w[s].pc /\ w'[s].pid = w[s].pid
  BY TickIs DEF IInv
<1> QED
  BY <1>1, QuietStep

\* A new process joins the list and disturbs no wait.
LEMMA CreateStep ==
    ASSUME IInv, NEW s \in Services, CreateProcess(s) PROVE IInv'
<1>1. /\ Typed' /\ init' = init /\ \A r \in Services : r # s => w'[r] = w[r]
      /\ w'[s].pc # "blocked"
  BY CreateIs DEF IInv, CreateProcess
<1>2. CASE procs' = procs /\ w'[s].pid = None
  <2>1. \A i \in DOMAIN procs : procs[i].pid # w'[s].pid
    BY <1>2, NoPidMatches DEF IInv
  <2> QED
    BY <1>1, <1>2, <2>1, QuietStep
<1>3. CASE /\ CanCreate /\ w'[s].pid = AuAllocateProcessID
           /\ procs' = Append(procs, Process(AuAllocateProcessID, s, "slot"))
  <2>1. PICK k : /\ k \notin DOMAIN procs /\ DOMAIN procs' = DOMAIN procs \cup {k}
                 /\ procs'[k].pid = AuAllocateProcessID /\ procs'[k].state = "slot"
                 /\ procs'[k].name = s
                 /\ \A i \in DOMAIN procs : procs'[i] = procs[i]
    BY <1>3, NewProcess DEF IInv
  <2>2. MgrRunning' /\ (MgrUp' => MgrUp)
    BY <1>1, <2>1 DEF IInv, MgrRunning, MgrUp
  <2>3. OwnName'
    BY <1>1, <1>3, <2>1, FreshPid DEF IInv, OwnName
  <2>4. Awaited'
    BY <1>1, <2>1, <2>2 DEF IInv, Awaited
  <2> QED
    BY <1>1, <2>2, <2>3, <2>4 DEF IInv
<1> QED
  BY <1>2, <1>3, CreateIs DEF IInv

\* Loading makes a process ready and disturbs no wait.
LEMMA LoadStep ==
    ASSUME IInv, NEW s \in Services, ProcessLoadExec(s) PROVE IInv'
<1>1. /\ Typed' /\ init' = init /\ \A r \in Services : r # s => w'[r] = w[r]
      /\ w'[s].pc # "blocked"
  BY LoadIs DEF IInv, ProcessLoadExec
<1>2. CASE procs' = procs /\ w'[s].pid = None
  <2>1. \A i \in DOMAIN procs : procs[i].pid # w'[s].pid
    BY <1>2, NoPidMatches DEF IInv
  <2> QED
    BY <1>1, <1>2, <2>1, QuietStep
<1>3. CASE /\ DOMAIN procs' = DOMAIN procs /\ w'[s].pid = w[s].pid
           /\ \A i \in DOMAIN procs :
                 /\ procs'[i].pid = procs[i].pid /\ procs'[i].name = procs[i].name
                 /\ procs'[i].waitlist = procs[i].waitlist
                 /\ procs[i].pid = w[s].pid => procs'[i].state = "ready"
                 /\ procs[i].pid # w[s].pid => procs'[i].state = procs[i].state
  <2>1. \A i \in DOMAIN procs : procs'[i].name = Mgr => procs[i].pid # w[s].pid
    BY <1>3, SvcConstants DEF IInv, OwnName
  <2>2. MgrRunning' /\ OwnName' /\ (MgrUp' => MgrUp)
    BY <1>1, <1>3, <2>1, Kept
  <2>3. Awaited'
    BY <1>1, <1>3, <2>2 DEF IInv, Awaited
  <2> QED
    BY <1>1, <2>2, <2>3 DEF IInv
<1> QED
  BY <1>2, <1>3, LoadIs DEF IInv

\* A wait is entered in the waitlist of a process that is still alive.
LEMMA WaitStep ==
    ASSUME IInv, NEW s \in Services, AuProcessWaitForTermination(s) PROVE IInv'
<1>1. /\ Typed' /\ init' = init /\ \A r \in Services : r # s => w'[r] = w[r]
      /\ w'[s].pid = w[s].pid /\ MgrUp
  BY WaitIs DEF IInv, AuProcessWaitForTermination
<1>2. CASE procs' = procs /\ w'[s].pc = "gone"
  BY <1>1, <1>2, QuietStep
<1>3. ASSUME NEW i \in Listed(w[s].pid),
             /\ DOMAIN procs' = DOMAIN procs /\ procs[i].state # "died"
             /\ procs'[i].waitlist = procs[i].waitlist \cup {Thread(s)}
             /\ procs'[i].pid = procs[i].pid /\ procs'[i].name = procs[i].name
             /\ procs'[i].state = procs[i].state
             /\ \A j \in DOMAIN procs : j # i => procs'[j] = procs[j]
      PROVE  IInv'
  <2>1. i \in DOMAIN procs /\ procs[i].pid = w[s].pid /\ Thread(s) = <<init.mgr, s>>
    BY <1>1, MgrPidIs DEF Listed, IInv, Thread
  <2>2. \A j \in DOMAIN procs : /\ procs'[j].pid = procs[j].pid /\ procs'[j].name = procs[j].name
                                /\ procs'[j].state = procs[j].state
                                /\ procs[j].waitlist \subseteq procs'[j].waitlist
    BY <1>3
  <2>3. MgrRunning' /\ OwnName' /\ (MgrUp' => MgrUp)
    BY <1>1, <1>3, <2>2, Kept
  <2>4. Awaited'
    <3> SUFFICES ASSUME NEW r \in Services, w'[r].pc = "blocked"
                 PROVE  \E j \in DOMAIN procs' :
                           /\ procs'[j].pid = w'[r].pid /\ procs'[j].state # "died"
                           /\ <<init'.mgr, r>> \in procs'[j].waitlist
      BY DEF Awaited
    <3>1. CASE r = s
      BY <1>1, <1>3, <2>1, <3>1
    <3>2. CASE r # s
      BY <1>1, <1>3, <2>2, <3>2 DEF IInv, Awaited
    <3> QED
      BY <3>1, <3>2
  <2> QED
    BY <1>1, <2>3, <2>4 DEF IInv
<1> QED
  BY <1>2, <1>3, WaitIs DEF IInv

\* With svcmgr its watchers die: none of them is in a wait.
LEMMA DiesStep ==
    ASSUME IInv, MgrDies PROVE IInv'
<1>1. /\ Typed' /\ DOMAIN procs' = DOMAIN procs /\ init' = init
      /\ \A i \in DOMAIN procs :
            /\ procs'[i].pid = procs[i].pid /\ procs'[i].name = procs[i].name
            /\ procs'[i].state = "ready" => procs[i].state = "ready"
      /\ \A s \in Services : w'[s].pc = "dead" /\ w'[s].pid = None
  BY DiesIs DEF IInv
<1>2. \A i \in DOMAIN procs : procs[i].pid # None
  BY NoneUnlisted DEF IInv
<1>3. MgrRunning' /\ OwnName' /\ (MgrUp' => MgrUp)
  BY <1>1, <1>2, Kept
<1> QED
  BY <1>1, <1>3 DEF IInv, Awaited

\* The first svcmgr runs and is remembered; no watcher waits.
LEMMA InitIInv == Init => IInv
<1> SUFFICES ASSUME Init PROVE IInv
  OBVIOUS
<1> DEFINE p == CHOOSE x \in Pids : TRUE
<1>1. p \in Pids
  BY SvcConstants
<1>2. /\ procs = <<Process(p, Mgr, "ready")>>
      /\ init = [pc |-> "reap", mgr |-> p, restarts |-> 0, window |-> 0]
      /\ spoiled = {} /\ w = [s \in Services |-> NewWatcher("find")]
  BY DEF Init
<1> HIDE DEF p
<1> DEFINE r == Process(p, Mgr, "ready")
<1>3. r \in Processes /\ r.pid = p
  BY <1>1, ProcessType DEF Process
<1>4. procs = <<r>>
  BY <1>2
<1> HIDE DEF r
<1>5. procs \in Seq(Processes) /\ DOMAIN procs = {1} /\ procs[1] = r
  BY <1>3, <1>4
<1>6. ProcList(procs)
  BY <1>5 DEF ProcList
<1>7. Watching /\ \A s \in Services : w[s].pc = "find" /\ w[s].pid = None
  BY <1>2, NewWatcherIs DEF Watching, Watch, NewWatcher
<1>8. init \in InitRecs /\ init.mgr = p
  BY <1>1, <1>2, Numbers DEF InitRecs
<1>9. Typed
  BY <1>2, <1>6, <1>7, <1>8 DEF Typed
<1>10. MgrRunning /\ OwnName
  BY <1>1, <1>3, <1>5, <1>7, <1>8, SvcConstants DEF MgrRunning, OwnName, None
<1> QED
  BY <1>7, <1>9, <1>10 DEF IInv, Awaited

\* Every step keeps it.
LEMMA StepIInv == IInv /\ [Next]_vars => IInv'
<1> SUFFICES ASSUME IInv, [Next]_vars PROVE IInv'
  OBVIOUS
<1>1. CASE \E i \in DOMAIN procs : AuProcessExit(i)
  BY <1>1, ExitStep
<1>2. CASE InitReap
  BY <1>2, ReapStep
<1>3. CASE init_watch_svcmgr
  BY <1>3, WatchStep
<1>4. ASSUME NEW s \in Services, Watcher(s) PROVE IInv'
  BY <1>4, AdoptStep, CreateStep, LoadStep, WaitStep, ThinksStep DEF Watcher, Thinks
<1>5. CASE MgrDies
  BY <1>5, DiesStep
<1>6. CASE Tick
  BY <1>6, TickStep
<1>7. CASE UNCHANGED vars
  <2>1. UNCHANGED <<procs, spoiled, init, w>>
    BY <1>7 DEF vars, kernel
  <2>2. Typed'
    BY <2>1 DEF IInv, Typed, Watching
  <2> QED
    BY <2>1, <2>2, QuietStep
<1> QED
  BY <1>1, <1>2, <1>3, <1>4, <1>5, <1>6, <1>7 DEF Next

\* The invariant holds in every state that init, svcmgr and the services reach,
\* whatever dies between two of their system calls.
THEOREM InvariantHolds == Spec => []IInv
BY InitIInv, StepIInv, PTL DEF Spec

\* The strikes, the cool-down and the clocks of every watcher stay within the bounds
\* of the service table, and no two processes have one pid.
THEOREM TypeCorrect == Spec => []SvcTypeOK
<1>1. IInv => SvcTypeOK
  BY TypedIs DEF IInv
<1> QED
  BY <1>1, InvariantHolds, PTL

\* A watcher that is blocked in a wait is on the waitlist of a process that has not
\* died, whatever dies between its system calls: its service's death wakes it.
THEOREM NobodyWaitsInVain == Spec => []BlockedWillBeWoken
BY AwaitedIs, InvariantHolds, PTL

-----------------------------------------------------------------------------
(* No service runs twice, when the table has one *)

\* At most one process of s in the list q has been loaded; at most one runs.
Lone(q, s) ==
    \A i, j \in DOMAIN q :
        q[i].name = s /\ q[j].name = s /\ q[i].state # "slot" /\ q[j].state # "slot" => i = j
Single(q, s) ==
    \A i, j \in DOMAIN q :
        q[i].name = s /\ q[j].name = s /\ q[i].state = "ready" /\ q[j].state = "ready" => i = j

\* The watcher v of s waits for a slot, or knows the only process of s that can run.
Own(q, v, s) ==
    \/ v.pc \in {"wait", "blocked"} /\ \E i \in DOMAIN q : q[i].pid = v.pid /\ q[i].state = "slot"
    \/ \A i \in DOMAIN q : q[i].name = s /\ q[i].state = "ready" =>
           v.pc \in {"wait", "blocked"} /\ q[i].pid = v.pid

\* Only threads of svcmgr are on a waitlist.
Waits ==
    \A i \in DOMAIN procs : \A t \in procs[i].waitlist : \A j \in DOMAIN procs :
        procs[j].pid = t[1] => procs[j].name = Mgr

\* Only threads of svcmgr are spoiled: a dead service process can always be reaped.
Spoils == \A t \in spoiled : \A j \in DOMAIN procs : procs[j].pid = t[1] => procs[j].name = Mgr

\* A watcher that is past its search owns its service.
Mine == \A s \in Services : MgrUp /\ w[s].pc # "find" => Own(procs, w[s], s)

\* When svcmgr is off the list, and until its successor has looked, a service has no
\* second process that runs or is dead.
Gap(m, q) == m # None /\ \A i \in DOMAIN q : q[i].pid # m
Fresh == \A s \in Services : Gap(init.mgr, procs) \/ (MgrUp /\ w[s].pc = "find") => Lone(procs, s)

SInv == IInv /\ Waits /\ Spoils /\ Mine /\ Fresh /\ \A s \in Services : Single(procs, s)

\* One process per service is part of the second invariant.
LEMMA SingleIs == SInv => SingleInstance
BY DEF SInv, Single, SingleInstance, Named

\* While svcmgr runs it is on the list.
LEMMA NoGap == ASSUME IInv, MgrUp PROVE ~Gap(init.mgr, procs)
BY DEF IInv, MgrRunning, MgrUp, Gap

\* A step that leaves the processes alone, and after which a watcher that moved on owns
\* its service.
LEMMA QuietSingle ==
    ASSUME SInv, IInv', UNCHANGED <<procs, spoiled>>, init'.mgr = init.mgr,
           \A s \in Services :
              \/ w'[s].pc = w[s].pc /\ w'[s].pid = w[s].pid
              \/ /\ w[s].pc # "blocked" /\ w'[s].pc # "find"
                 /\ MgrUp => Own(procs, w'[s], s)
    PROVE  SInv'
<1>1. MgrUp' = MgrUp
  BY DEF MgrUp
<1>2. Waits'
  BY DEF SInv, Waits
<1>3. Spoils'
  BY DEF SInv, Spoils
<1>4. Mine'
  <2> SUFFICES ASSUME NEW s \in Services, MgrUp, w'[s].pc # "find" PROVE Own(procs, w'[s], s)
    BY <1>1 DEF Mine
  <2>1. CASE w'[s].pc = w[s].pc /\ w'[s].pid = w[s].pid
    <3>1. Own(procs, w[s], s)
      BY <2>1 DEF SInv, Mine
    <3> QED
      BY <2>1, <3>1 DEF Own
  <2> QED
    BY <2>1
<1>5. Fresh'
  BY <1>1 DEF SInv, Fresh
<1>6. \A s \in Services : Single(procs', s)
  BY DEF SInv
<1> QED
  BY <1>2, <1>3, <1>4, <1>5, <1>6 DEF SInv

\* Time alone starts no service.
LEMMA TickSingle ==
    ASSUME SInv, Tick PROVE SInv'
<1>1. /\ UNCHANGED <<procs, spoiled>> /\ init'.mgr = init.mgr
      /\ \A s \in Services : w'[s].pc = w[s].pc /\ w'[s].pid = w[s].pid
  BY TickIs DEF SInv, IInv
<1> QED
  BY <1>1, TickStep, QuietSingle DEF SInv

\* A watcher that neither searches nor waits has no process that runs.
LEMMA NoneRuns ==
    ASSUME SInv, MgrUp, NEW s \in Services, w[s].pc \notin {"find", "wait", "blocked"}
    PROVE  \A i \in DOMAIN procs : procs[i].name = s => procs[i].state # "ready"
BY DEF SInv, Mine, Own

\* The accounting of a crash starts no service.
LEMMA ThinksSingle ==
    ASSUME SInv, NEW s \in Services, Thinks(s) PROVE SInv'
<1>1. /\ UNCHANGED <<procs, spoiled>> /\ init' = init
      /\ \A r \in Services : r # s => w'[r] = w[r]
      /\ w[s].pc \in {"gone", "cooldown", "backoff", "retry"} /\ w'[s].pc # "find"
  BY ThinksIs DEF SInv, IInv
<1>2. MgrUp => Own(procs, w'[s], s)
  BY <1>1, NoneRuns DEF Own
<1> QED
  BY <1>1, <1>2, ThinksStep, QuietSingle DEF SInv

\* A new svcmgr adopts the only process its service has.
LEMMA AdoptSingle ==
    ASSUME SInv, NEW s \in Services, Adopt(s) PROVE SInv'
<1>1. /\ UNCHANGED <<procs, spoiled>> /\ init' = init
      /\ \A r \in Services : r # s => w'[r] = w[r]
      /\ w[s].pc = "find" /\ w'[s].pc # "find" /\ MgrUp
  BY AdoptIs DEF SInv, IInv
<1>2. Own(procs, w'[s], s)
  <2>1. CASE Named(s) = {}
    BY <2>1 DEF Own, Named
  <2>2. ASSUME NEW i \in Named(s), w'[s].pc = "wait", w'[s].pid = procs[i].pid
        PROVE  Own(procs, w'[s], s)
    <3>1. Lone(procs, s) /\ i \in DOMAIN procs /\ procs[i].name = s
      BY <1>1 DEF SInv, Fresh, Named
    <3> QED
      BY <2>2, <3>1 DEF Own, Lone
  <2> QED
    BY <2>1, <2>2, AdoptIs DEF SInv, IInv
<1> QED
  BY <1>1, <1>2, AdoptStep, QuietSingle DEF SInv

\* The service's process exits, and then none runs, whichever watcher wakes.
LEMMA ExitSingle ==
    ASSUME \A s, r \in Services : s = r, SInv, NEW i \in DOMAIN procs, AuProcessExit(i) PROVE SInv'
<1>1. /\ IInv' /\ DOMAIN procs' = DOMAIN procs /\ init' = init
      /\ \A j \in DOMAIN procs :
            /\ procs'[j].pid = procs[j].pid /\ procs'[j].name = procs[j].name
            /\ j # i => procs'[j] = procs[j]
      /\ procs[i].name \in Services /\ procs[i].state = "ready"
      /\ procs'[i].state = "died" /\ procs'[i].waitlist = {}
  BY ExitList, ExitStep DEF SInv, IInv, AuProcessExit
<1>2. \A s \in Services : w'[s].pc # "find" \/ w'[s] = w[s]
  <2> SUFFICES ASSUME NEW s \in Services PROVE w'[s].pc # "find" \/ w'[s] = w[s]
    OBVIOUS
  <2>1. w[s] \in Watchers
    BY DEF SInv, IInv, Typed, Watching, Watch
  <2>2. [w[s] EXCEPT !.pc = "gone"].pc = "gone"
    BY <2>1 DEF Watchers
  <2>3. w'[s] = [w[s] EXCEPT !.pc = "gone"] \/ w'[s] = w[s]
    BY DEF AuProcessExit
  <2> QED
    BY <2>2, <2>3
<1>3. (MgrUp' <=> MgrUp) /\ init'.mgr = init.mgr
  BY <1>1, SvcConstants DEF MgrUp
<1>4. Waits'
  BY <1>1 DEF SInv, Waits
<1>5. Spoils'
  <2>1. spoiled' = spoiled \cup Overwritten(procs[i].waitlist)
    BY DEF AuProcessExit
  <2>2. \A t \in Overwritten(procs[i].waitlist) : t \in procs[i].waitlist
    BY DEF Overwritten
  <2> QED
    BY <1>1, <2>1, <2>2 DEF SInv, Spoils, Waits
<1>6. Mine'
  <2> SUFFICES ASSUME NEW s \in Services PROVE Own(procs', w'[s], s)
    BY DEF Mine
  <2>1. procs[i].name = s /\ Single(procs, s)
    BY <1>1 DEF SInv
  <2>2. \A j \in DOMAIN procs : procs[j].name = s /\ procs[j].state = "ready" => j = i
    BY <1>1, <2>1 DEF Single
  <2> QED
    BY <1>1, <2>2 DEF Own
<1>7. Fresh' /\ \A s \in Services : Single(procs', s)
  <2>1. \A s \in Services : /\ Lone(procs, s) => Lone(procs', s)
                            /\ Single(procs, s) => Single(procs', s)
    BY <1>1 DEF Lone, Single
  <2>2. Gap(init.mgr, procs) = Gap(init.mgr, procs')
    BY <1>1 DEF Gap
  <2> QED
    BY <1>1, <1>2, <1>3, <2>1, <2>2 DEF SInv, Fresh
<1> QED
  BY <1>1, <1>4, <1>5, <1>6, <1>7 DEF SInv

\* init reaps: whatever of a service is left in the list runs or was never loaded.
LEMMA ReapSingle ==
    ASSUME SInv, InitReap PROVE SInv'
<1>1. /\ IInv' /\ UNCHANGED <<w, spoiled>> /\ init'.mgr = init.mgr
      /\ \A k \in DOMAIN procs' : \E i \in DOMAIN procs : i \in Unreaped /\ procs'[k] = procs[i]
      /\ \A i \in DOMAIN procs : procs[i].state # "died" =>
            \E k \in DOMAIN procs' : procs'[k] = procs[i]
  BY ReapIs, ReapStep DEF SInv, IInv
<1>2. MgrUp' => MgrUp
  BY <1>1 DEF MgrUp
<1>3. \A k, l \in DOMAIN procs' : procs'[k].pid = procs'[l].pid => k = l
  BY <1>1 DEF IInv, Typed, ProcList
<1>4. \A s \in Services : Single(procs', s)
  <2> SUFFICES ASSUME NEW s \in Services, NEW k \in DOMAIN procs', NEW l \in DOMAIN procs',
                      procs'[k].name = s, procs'[l].name = s,
                      procs'[k].state = "ready", procs'[l].state = "ready"
               PROVE  procs'[k].pid = procs'[l].pid
    BY <1>3 DEF Single
  <2>1. PICK i \in DOMAIN procs : procs'[k] = procs[i]
    BY <1>1
  <2>2. PICK j \in DOMAIN procs : procs'[l] = procs[j]
    BY <1>1
  <2>3. Single(procs, s)
    BY DEF SInv
  <2> QED
    BY <2>1, <2>2, <2>3 DEF Single
<1>5. ASSUME NEW i \in Unreaped, procs[i].name \in Services PROVE procs[i].state # "died"
  <2>1. procs[i].name # Mgr /\ i \in DOMAIN procs
    BY <1>5, SvcConstants DEF Unreaped
  <2>2. ~\E t \in spoiled : t[1] = procs[i].pid
    BY <2>1 DEF SInv, Spoils
  <2> QED
    BY <2>2 DEF Unreaped, AuProcessCanReap
<1>6. Fresh'
  <2> SUFFICES ASSUME NEW s \in Services PROVE Lone(procs', s)
    BY DEF Fresh
  <2>1. ASSUME NEW k \in DOMAIN procs', procs'[k].name = s, procs'[k].state # "slot"
        PROVE  procs'[k].state = "ready"
    <3>1. PICK i \in Unreaped : procs'[k] = procs[i]
      BY <1>1
    <3>2. procs[i].state # "died"
      BY <1>5, <2>1, <3>1
    <3>3. procs[i].state \in {"slot", "ready", "died"}
      BY ListShape DEF SInv, IInv, Typed, Processes, Unreaped
    <3> QED
      BY <2>1, <3>1, <3>2, <3>3
  <2> QED
    BY <1>4, <2>1 DEF Lone, Single
<1>7. Waits'
  <2> SUFFICES ASSUME NEW k \in DOMAIN procs', NEW t \in procs'[k].waitlist
               PROVE  \A j \in DOMAIN procs' : procs'[j].pid = t[1] => procs'[j].name = Mgr
    BY DEF Waits
  <2>1. PICK i \in DOMAIN procs : procs'[k] = procs[i]
    BY <1>1
  <2>2. t \in procs[i].waitlist
    BY <2>1
  <2> QED
    BY <1>1, <2>1, <2>2 DEF SInv, Waits
<1>8. Spoils'
  BY <1>1 DEF SInv, Spoils
<1>9. Mine'
  <2> SUFFICES ASSUME NEW s \in Services, MgrUp, w[s].pc # "find" PROVE Own(procs', w[s], s)
    BY <1>1, <1>2 DEF Mine
  <2>1. Own(procs, w[s], s)
    BY DEF SInv, Mine
  <2>2. CASE w[s].pc \in {"wait", "blocked"} /\ \E i \in DOMAIN procs :
                procs[i].pid = w[s].pid /\ procs[i].state = "slot"
    BY <1>1, <2>2 DEF Own
  <2>3. CASE \A i \in DOMAIN procs : procs[i].name = s /\ procs[i].state = "ready" =>
                w[s].pc \in {"wait", "blocked"} /\ procs[i].pid = w[s].pid
    BY <1>1, <2>3 DEF Own
  <2> QED
    BY <2>1, <2>2, <2>3 DEF Own
<1> QED
  BY <1>1, <1>4, <1>6, <1>7, <1>8, <1>9 DEF SInv

\* A process that is created, a slot or a new svcmgr, is on no waitlist and is no process
\* of a service that runs.
LEMMA CreatedSingle ==
    ASSUME SInv, CanCreate, NEW n \in Services \cup {Mgr}, NEW x \in {"slot", "ready"},
           procs' = Append(procs, Process(AuAllocateProcessID, n, x)), spoiled' = spoiled,
           x = "ready" => n = Mgr
    PROVE  /\ \A k \in DOMAIN procs' : \A t \in procs'[k].waitlist :
                 /\ \E i \in DOMAIN procs : t \in procs[i].waitlist /\ procs'[k] = procs[i]
                 /\ \A j \in DOMAIN procs' : procs'[j].pid = t[1] => procs'[j].name = Mgr
                 /\ t[1] # AuAllocateProcessID
           /\ Spoils'
           /\ \A s \in Services : Single(procs', s) /\ (Lone(procs, s) => Lone(procs', s))
           /\ \A v : \A s \in Services : Own(procs, v, s) => Own(procs', v, s)
<1> DEFINE a == AuAllocateProcessID
<1>1. PICK k : /\ k \notin DOMAIN procs /\ DOMAIN procs' = DOMAIN procs \cup {k}
               /\ procs'[k].pid = a /\ procs'[k].name = n /\ procs'[k].state = x
               /\ procs'[k].waitlist = {} /\ \A i \in DOMAIN procs : procs'[i] = procs[i]
  BY NewProcess DEF SInv, IInv
<1>2. /\ \A i \in DOMAIN procs : \A t \in procs[i].waitlist : t[1] # a
      /\ \A t \in spoiled : t[1] # a
  BY FreshPid
<1> HIDE DEF a
<1>3. ASSUME NEW l \in DOMAIN procs', NEW t \in procs'[l].waitlist
      PROVE  /\ \E i \in DOMAIN procs : t \in procs[i].waitlist /\ procs'[l] = procs[i]
             /\ \A j \in DOMAIN procs' : procs'[j].pid = t[1] => procs'[j].name = Mgr
             /\ t[1] # a
  <2>1. l \in DOMAIN procs /\ procs'[l] = procs[l] /\ t \in procs[l].waitlist
    BY <1>1
  <2>2. t[1] # a /\ \A j \in DOMAIN procs : procs[j].pid = t[1] => procs[j].name = Mgr
    BY <1>2, <2>1 DEF SInv, Waits
  <2> QED
    BY <1>1, <2>1, <2>2
<1>4. Spoils'
  BY <1>1, <1>2 DEF SInv, Spoils
<1>5. \A s \in Services : procs'[k].name = s => procs'[k].state = "slot"
  BY <1>1, SvcConstants
<1>6. \A s \in Services : Single(procs', s) /\ (Lone(procs, s) => Lone(procs', s))
  BY <1>1, <1>5 DEF SInv, Single, Lone
<1>7. \A v : \A s \in Services : Own(procs, v, s) => Own(procs', v, s)
  BY <1>1, <1>5 DEF Own
<1> QED
  BY <1>3, <1>4, <1>6, <1>7 DEF a

\* A new svcmgr has started nothing yet, and looks for what its predecessor left.
LEMMA WatchSingle ==
    ASSUME SInv, init_watch_svcmgr PROVE SInv'
<1>1. IInv' /\ spoiled' = spoiled
  BY WatchStep, WatchIs DEF SInv, IInv
<1>2. CASE UNCHANGED <<procs, w>> /\ init'.mgr = init.mgr
  BY <1>1, <1>2, QuietSingle
<1>3. CASE UNCHANGED <<procs, w>> /\ init'.mgr = None /\ Gap(init.mgr, procs)
  <2>1. ~MgrUp /\ ~MgrUp' /\ ~Gap(init'.mgr, procs')
    BY <1>3, NoGap DEF SInv, MgrUp, Gap
  <2> QED
    BY <1>1, <1>3, <2>1 DEF SInv, Waits, Spoils, Mine, Fresh
<1>4. CASE /\ CanCreate /\ init'.mgr = AuAllocateProcessID /\ Gap(init.mgr, procs)
           /\ procs' = Append(procs, Process(AuAllocateProcessID, Mgr, "ready"))
           /\ \A s \in Services : w'[s].pc = "find" /\ w'[s].pid = None
  <2>1. Waits' /\ Spoils' /\ \A s \in Services : Single(procs', s)
    BY <1>1, <1>4, CreatedSingle DEF Waits
  <2>2. Fresh'
    BY <1>1, <1>4, CreatedSingle DEF SInv, Fresh
  <2> QED
    BY <1>1, <1>4, <2>1, <2>2 DEF SInv, Mine
<1>5. CASE /\ CanCreate /\ init'.mgr = None /\ w' = w /\ Gap(init.mgr, procs)
           /\ procs' = Append(procs, Process(AuAllocateProcessID, Mgr, "slot"))
  <2>1. PICK k : /\ k \notin DOMAIN procs /\ DOMAIN procs' = DOMAIN procs \cup {k}
                 /\ procs'[k].state = "slot"
                 /\ \A i \in DOMAIN procs : procs'[i] = procs[i]
    BY <1>5, NewProcess DEF SInv, IInv
  <2>2. ~MgrUp' /\ ~Gap(init'.mgr, procs')
    BY <1>5, <2>1, NoGap DEF SInv, MgrUp, Gap
  <2>3. /\ Spoils' /\ \A s \in Services : Single(procs', s)
        /\ \A l \in DOMAIN procs' : \A t \in procs'[l].waitlist :
              \A j \in DOMAIN procs' : procs'[j].pid = t[1] => procs'[j].name = Mgr
    <3> HIDE DEF Spoils, Single
    <3> QED
      BY <1>1, <1>5, CreatedSingle
  <2> QED
    BY <1>1, <2>2, <2>3 DEF SInv, Waits, Mine, Fresh
<1> QED
  BY <1>2, <1>3, <1>4, <1>5, WatchIs DEF SInv, IInv, Gap

\* A service is created by a watcher that found no process of its name.
LEMMA CreateSingle ==
    ASSUME SInv, NEW s \in Services, CreateProcess(s) PROVE SInv'
<1>1. /\ IInv' /\ init' = init /\ spoiled' = spoiled /\ MgrUp /\ w[s].pc = "create"
      /\ \A r \in Services : r # s => w'[r] = w[r]
  BY CreateIs, CreateStep DEF SInv, IInv, CreateProcess, Step
<1>2. \A i \in DOMAIN procs : procs[i].name = s => procs[i].state # "ready"
  BY <1>1, NoneRuns
<1>3. \A v : Own(procs, v, s)
  BY <1>2 DEF Own
<1>4. CASE procs' = procs /\ w'[s].pc \in {"wait", "retry"}
  BY <1>1, <1>3, <1>4, QuietSingle
<1>5. CASE /\ CanCreate /\ w'[s].pc = "load"
           /\ procs' = Append(procs, Process(AuAllocateProcessID, s, "slot"))
  <2>1. /\ \A k \in DOMAIN procs' : \A t \in procs'[k].waitlist :
              /\ \E i \in DOMAIN procs : t \in procs[i].waitlist /\ procs'[k] = procs[i]
              /\ \A j \in DOMAIN procs' : procs'[j].pid = t[1] => procs'[j].name = Mgr
        /\ Spoils'
        /\ \A r \in Services : Single(procs', r) /\ (Lone(procs, r) => Lone(procs', r))
        /\ \A v : \A r \in Services : Own(procs, v, r) => Own(procs', v, r)
    <3> HIDE DEF Spoils, Single, Lone, Own
    <3> QED
      BY <1>1, <1>5, CreatedSingle
  <2>2. Waits'
    BY <2>1 DEF Waits
  <2>3. Mine'
    <3> SUFFICES ASSUME NEW r \in Services, w'[r].pc # "find" PROVE Own(procs, w'[r], r)
      BY <2>1 DEF Mine
    <3> QED
      BY <1>1, <1>3 DEF SInv, Mine
  <2>4. Fresh'
    <3>1. ~Gap(init'.mgr, procs')
      <4>1. PICK i \in DOMAIN procs : procs[i].pid = init.mgr
        BY <1>1 DEF SInv, IInv, MgrRunning, MgrUp
      <4>2. \E k \in DOMAIN procs' : procs'[k] = procs[i]
        BY <1>5, NewProcess DEF SInv, IInv
      <4> QED
        BY <1>1, <4>1, <4>2 DEF Gap
    <3> QED
      BY <1>1, <1>5, <2>1, <3>1 DEF SInv, Fresh
  <2> QED
    BY <1>1, <2>1, <2>2, <2>3, <2>4 DEF SInv
<1> QED
  BY <1>4, <1>5, CreateIs DEF SInv, IInv

\* What a watcher loads is the only process of its service that runs.
LEMMA LoadSingle ==
    ASSUME SInv, NEW s \in Services, ProcessLoadExec(s) PROVE SInv'
<1>1. /\ IInv' /\ init' = init /\ spoiled' = spoiled /\ MgrUp /\ w[s].pc = "load"
      /\ \A r \in Services : r # s => w'[r] = w[r]
  BY LoadIs, LoadStep DEF SInv, IInv, ProcessLoadExec, Step
<1>2. \A i \in DOMAIN procs : procs[i].name = s => procs[i].state # "ready"
  BY <1>1, NoneRuns
<1>3. CASE procs' = procs /\ w'[s].pc \in {"wait", "retry"}
  <2>1. Own(procs, w'[s], s)
    BY <1>2 DEF Own
  <2> QED
    BY <1>1, <1>3, <2>1, QuietSingle
<1>4. CASE /\ DOMAIN procs' = DOMAIN procs /\ w'[s].pc = "wait" /\ w'[s].pid = w[s].pid
           /\ \A i \in DOMAIN procs :
                 /\ procs'[i].pid = procs[i].pid /\ procs'[i].name = procs[i].name
                 /\ procs'[i].waitlist = procs[i].waitlist
                 /\ procs[i].pid = w[s].pid => procs'[i].state = "ready"
                 /\ procs[i].pid # w[s].pid => procs'[i].state = procs[i].state
  <2>1. \A i \in DOMAIN procs : procs[i].pid = w[s].pid => procs[i].name = s
    BY DEF SInv, IInv, OwnName
  <2>3. Waits'
    BY <1>4 DEF SInv, Waits
  <2>4. Spoils'
    BY <1>1, <1>4 DEF SInv, Spoils
  <2>5. \A i \in DOMAIN procs : procs'[i].name = s /\ procs'[i].state = "ready" => procs'[i].pid = w[s].pid
    BY <1>2, <1>4
  <2>6. ASSUME NEW r \in Services, r # s
        PROVE  /\ Single(procs', r) /\ (Lone(procs, r) => Lone(procs', r))
               /\ \A v : Own(procs, v, r) /\ v.pc = w[r].pc /\ v.pid = w[r].pid => Own(procs', v, r)
    <3>1. \A i \in DOMAIN procs : procs[i].name = r \/ procs[i].pid = w[r].pid =>
             procs'[i].state = procs[i].state
      BY <1>4, <2>1, <2>6 DEF SInv, IInv, OwnName
    <3>2. Single(procs, r)
      BY DEF SInv
    <3>3. Single(procs', r)
      BY <1>4, <3>1, <3>2 DEF Single
    <3>4. Lone(procs, r) => Lone(procs', r)
      BY <1>4, <3>1 DEF Lone
    <3>5. \A v : Own(procs, v, r) /\ v.pc = w[r].pc /\ v.pid = w[r].pid => Own(procs', v, r)
      BY <1>4, <3>1 DEF Own
    <3> QED
      BY <3>3, <3>4, <3>5
  <2>7. Single(procs', s)
    BY <1>4, <2>5 DEF Single, SInv, IInv, Typed, ProcList
  <2>8. Own(procs', w'[s], s)
    BY <1>4, <2>5 DEF Own
  <2>9. Mine'
    <3> SUFFICES ASSUME NEW r \in Services, w'[r].pc # "find" PROVE Own(procs', w'[r], r)
      BY DEF Mine
    <3>1. CASE r = s
      BY <2>8, <3>1
    <3>2. CASE r # s
      <4>1. w'[r] = w[r] /\ Own(procs, w[r], r)
        BY <1>1, <3>2 DEF SInv, Mine
      <4> HIDE DEF Own
      <4> QED
        BY <2>6, <3>2, <4>1
    <3> QED
      BY <3>1, <3>2
  <2>10. Fresh'
    <3>1. ~Gap(init'.mgr, procs')
      BY <1>1, <1>4, NoGap DEF SInv, Gap
    <3> QED
      BY <1>1, <1>4, <2>6, <3>1 DEF SInv, Fresh
  <2> QED
    BY <1>1, <2>3, <2>4, <2>6, <2>7, <2>9, <2>10 DEF SInv
<1> QED
  BY <1>3, <1>4, LoadIs DEF SInv, IInv

\* A watcher comes back from a wait only when its own process died.
LEMMA WaitSingle ==
    ASSUME SInv, NEW s \in Services, AuProcessWaitForTermination(s) PROVE SInv'
<1>1. /\ IInv' /\ init' = init /\ spoiled' = spoiled /\ MgrUp /\ w[s].pc = "wait"
      /\ \A r \in Services : r # s => w'[r] = w[r]
      /\ w'[s].pid = w[s].pid /\ Own(procs, w[s], s)
  BY WaitIs, WaitStep DEF SInv, IInv, Mine, AuProcessWaitForTermination
<1>2. CASE /\ procs' = procs /\ w'[s].pc = "gone"
           /\ ~\E i \in Listed(w[s].pid) : Waitable(i)
  <2>1. \A i \in DOMAIN procs : procs[i].pid = w[s].pid => procs[i].state = "died"
    BY <1>2 DEF Listed, Waitable
  <2>2. Own(procs, w'[s], s)
    BY <1>1, <2>1 DEF Own
  <2> QED
    BY <1>1, <1>2, <2>2, QuietSingle
<1>3. ASSUME NEW i \in Listed(w[s].pid),
             /\ DOMAIN procs' = DOMAIN procs /\ procs[i].state # "died"
             /\ procs'[i].waitlist = procs[i].waitlist \cup {Thread(s)}
             /\ procs'[i].pid = procs[i].pid /\ procs'[i].name = procs[i].name
             /\ procs'[i].state = procs[i].state
             /\ \A j \in DOMAIN procs : j # i => procs'[j] = procs[j]
             /\ w'[s].pc = "blocked"
      PROVE  SInv'
  <2>1. i \in DOMAIN procs /\ procs[i].pid = w[s].pid /\ Thread(s) = <<init.mgr, s>>
    BY <1>1, MgrPidIs DEF Listed, SInv, IInv, Thread
  <2>2. \A j \in DOMAIN procs : /\ procs'[j].pid = procs[j].pid /\ procs'[j].name = procs[j].name
                                /\ procs'[j].state = procs[j].state
    BY <1>3
  <2>3. (MgrUp' <=> MgrUp) /\ init'.mgr = init.mgr
    BY <1>1, <1>3, <2>2 DEF MgrUp
  <2>4. Waits'
    <3> SUFFICES ASSUME NEW k \in DOMAIN procs, NEW t \in procs'[k].waitlist
                 PROVE  \A j \in DOMAIN procs : procs[j].pid = t[1] => procs[j].name = Mgr
      BY <1>3, <2>2 DEF Waits
    <3>1. CASE k = i /\ t = Thread(s)
      <4>1. t[1] = init.mgr
        BY <2>1, <3>1
      <4>2. PICK m \in DOMAIN procs : procs[m].name = Mgr /\ procs[m].pid = init.mgr
        BY <1>1 DEF SInv, IInv, MgrRunning, MgrUp
      <4> QED
        BY <4>1, <4>2 DEF SInv, IInv, Typed, ProcList
    <3>2. CASE t \in procs[k].waitlist
      BY <3>2 DEF SInv, Waits
    <3> QED
      BY <1>3, <3>1, <3>2
  <2>5. Spoils'
    BY <1>1, <1>3, <2>2 DEF SInv, Spoils
  <2>6. \A r \in Services : /\ Single(procs', r) /\ (Lone(procs, r) => Lone(procs', r))
                            /\ \A v : Own(procs, v, r) => Own(procs', v, r)
    BY <1>3, <2>2 DEF SInv, Single, Lone, Own
  <2>7. Own(procs, w'[s], s)
    BY <1>1, <1>3 DEF Own
  <2>8. Mine'
    <3> SUFFICES ASSUME NEW r \in Services, w'[r].pc # "find" PROVE Own(procs, w'[r], r)
      BY <2>6 DEF Mine
    <3> QED
      BY <1>1, <2>7 DEF SInv, Mine
  <2>9. Fresh'
    <3>1. Gap(init'.mgr, procs') = Gap(init.mgr, procs)
      BY <1>3, <2>2, <2>3 DEF Gap
    <3>2. \A r \in Services : w'[r].pc = "find" => w[r].pc = "find"
      BY <1>1, <1>3
    <3> QED
      BY <1>1, <2>3, <2>6, <3>1, <3>2 DEF SInv, Fresh
  <2> QED
    BY <1>1, <2>4, <2>5, <2>6, <2>8, <2>9 DEF SInv
<1> QED
  BY <1>2, <1>3, WaitIs DEF SInv, IInv

\* A svcmgr that dies leaves its services as they are.
LEMMA DiesSingle ==
    ASSUME SInv, MgrDies PROVE SInv'
<1>1. /\ IInv' /\ DOMAIN procs' = DOMAIN procs /\ UNCHANGED <<spoiled, init>>
      /\ \A i \in DOMAIN procs :
            /\ procs'[i].pid = procs[i].pid /\ procs'[i].name = procs[i].name
            /\ procs'[i].waitlist = procs[i].waitlist
            /\ procs[i].pid = MgrPid => procs'[i].state = "died"
            /\ procs[i].pid # MgrPid => procs'[i].state = procs[i].state
      /\ \A s \in Services : w'[s].pc = "dead"
  BY DiesIs, DiesStep DEF SInv, IInv
<1>2. MgrUp /\ MgrPid = init.mgr
  BY MgrPidIs DEF MgrDies, SInv, IInv
<1>3. ~MgrUp'
  BY <1>1, <1>2 DEF MgrUp, SInv, IInv, MgrRunning
<1>4. ~Gap(init'.mgr, procs')
  BY <1>1, <1>2, NoGap DEF SInv, Gap
<1>5. \A i \in DOMAIN procs : procs'[i].state = "ready" => procs[i].state = "ready"
  BY <1>1
<1>6. \A s \in Services : Single(procs', s)
  BY <1>1, <1>5 DEF SInv, Single
<1>7. Spoils'
  BY <1>1 DEF SInv, Spoils
<1>8. Waits'
  BY <1>1, <1>3 DEF SInv, Waits
<1> QED
  BY <1>1, <1>3, <1>4, <1>6, <1>7, <1>8 DEF SInv, Mine, Fresh

\* At boot no service has a process.
LEMMA InitSInv == Init => SInv
<1> SUFFICES ASSUME Init PROVE SInv
  OBVIOUS
<1>1. IInv
  BY InitIInv
<1>2. PICK p : procs = <<Process(p, Mgr, "ready")>>
  BY DEF Init
<1>3. DOMAIN procs = {1} /\ procs[1].waitlist = {} /\ spoiled = {}
  BY <1>2 DEF Process, Init
<1>4. w = [s \in Services |-> NewWatcher("find")]
  BY DEF Init
<1>5. \A s \in Services : w[s].pc = "find"
  BY <1>4 DEF NewWatcher
<1> QED
  BY <1>1, <1>3, <1>5 DEF SInv, Waits, Spoils, Mine, Fresh, Lone, Single

\* Every step keeps it, when there is one service.
LEMMA StepSInv ==
    ASSUME \A s, r \in Services : s = r, SInv, [Next]_vars PROVE SInv'
<1>1. CASE \E i \in DOMAIN procs : AuProcessExit(i)
  BY <1>1, ExitSingle
<1>2. CASE InitReap
  BY <1>2, ReapSingle
<1>3. CASE init_watch_svcmgr
  BY <1>3, WatchSingle
<1>4. ASSUME NEW s \in Services, Watcher(s) PROVE SInv'
  BY <1>4, AdoptSingle, CreateSingle, LoadSingle, WaitSingle, ThinksSingle DEF Watcher, Thinks
<1>5. CASE MgrDies
  BY <1>5, DiesSingle
<1>6. CASE Tick
  BY <1>6, TickSingle
<1>7. CASE UNCHANGED vars
  <2>1. UNCHANGED <<procs, spoiled, init, w>>
    BY <1>7 DEF vars, kernel
  <2>2. IInv'
    BY StepIInv DEF SInv
  <2> QED
    BY <2>1, <2>2, QuietSingle
<1> QED
  BY <1>1, <1>2, <1>3, <1>4, <1>5, <1>6, <1>7 DEF Next

\* The service of a one-service table (the built-in one, and what the build writes for
\* one server) never has two processes that run: not when its watcher is slow to notice
\* a death, not when svcmgr dies between any two of its system calls, not when its
\* successor adopts what it finds, and not when the exit of the service wakes a thread
\* that got the memory of a freed one.  (With two services that last case starts one of
\* them twice.)
THEOREM NoServiceRunsTwice ==
    ASSUME \A s, r \in Services : s = r PROVE Spec => []SingleInstance
<1>1. SInv /\ [Next]_vars => SInv'
  BY StepSInv
<1> QED
  BY <1>1, InitSInv, SingleIs, PTL DEF Spec
=============================================================================
