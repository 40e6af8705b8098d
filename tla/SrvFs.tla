------------------------------- MODULE SrvFs -------------------------------
(***************************************************************************)
(* /srv, a file system served by a user process: KernelAA64/Fs/srvfs.c on  *)
(* top of the kernel IPC (AuIpc), with the server Process/fssrv.           *)
(*                                                                         *)
(* A syscall that must wait rewinds its return address and sleeps; it then *)
(* RE-EXECUTES from its entry, and each proxy operation is matched against *)
(* the thread's history.  One execution, from the entry to the next sleep  *)
(* or to the return, is one step.  In a history all operations but the     *)
(* last are answered, the last one waits (an execution never sleeps        *)
(* elsewhere and a failed operation ends the syscall).                     *)
(*                                                                         *)
(* Data is abstracted to identity: a syscall writes chunks 1 .. n of a     *)
(* file of its own, one page each, and positions count pages.  Other       *)
(* applications may do anything to the files, so that the server may find  *)
(* a file or not, and a page or the end of it, as it likes.  Time is       *)
(* counted in ticks; a thread runs within the tick in which it is ready.   *)
(***************************************************************************)
EXTENDS AuIpc

CONSTANTS
    Users,        \* threads of applications, which use /srv
    Uses,         \* the syscalls each of them makes on /srv paths and files
    Endpoint,     \* FSSRV_ENDPOINT
    MaxHist,      \* MAX_HIST (8)
    MaxOps,       \* MAX_OPS (16)
    SrvTimeout,   \* SRV_TIMEOUT_MS (3000), in ticks
    HistStale,    \* HIST_STALE_US (15 s), in ticks
    MaxChunks     \* bound: pages one WriteFile moves

\* A system call: what it does in how many operations (pages), whether it asks
\* for a file to be created, and its number.
Syscalls == [op : UNION {Uses[t] : t \in Users}, n : 1 .. MaxChunks, create : BOOLEAN,
             nr : 1 .. MaxReq + 1]

ASSUME SrvConstants ==
    /\ Users \subseteq Threads /\ Endpoint \in Names
    /\ Uses \in [Users -> SUBSET {"write", "read", "open", "dir", "readdir", "remove"}]
    /\ MaxHist \in Nat \ {0} /\ MaxOps \in Nat \ {0} /\ MaxChunks \in Nat \ {0}
    /\ SrvTimeout \in Nat \ {0} /\ HistStale \in Nat \ {0}
    /\ None \notin Syscalls

VARIABLES
    hist,     \* g_hist, by thread: its recorded operations and their age
    sys,      \* the syscall a thread is executing, None outside of one
    pos,      \* file->pos of the thread's open file
    mode,     \* g_open_mode: did the last OpenFile ask for a file to be created
    sent,     \* per request: what it asks of the server, and for which syscall
    disk,     \* per server process: the chunk each position of a thread's file holds
    last      \* per thread: what its last ReadFile or WriteFile returned

srvVars == <<hist, sys, pos, mode, sent, disk, last>>
allVars == <<vars, srvVars>>

NoHist  == [age |-> 0, ops |-> <<>>]
Used(t) == hist[t].ops # <<>>

SrvInit ==
    /\ Init
    /\ hist = [t \in Threads |-> NoHist]
    /\ sys = [t \in Threads |-> None]
    /\ pos = [t \in Threads |-> 0]
    /\ mode = FALSE
    /\ sent = [r \in Reqs |-> None]
    /\ disk = [p \in Procs |-> [t \in Users |-> <<>>]]
    /\ last = [t \in Threads |-> None]

-----------------------------------------------------------------------------
(* The history *)

LastOp(t) == hist[t].ops[Len(hist[t].ops)]

\* hist_drop for each thread of U: the waiting call is abandoned.  Ids may
\* coincide, since a freed call slot starts its generations over.
AbandonedBy(U) ==
    [s \in CallSlots |->
        KAbandon(call[s], Cardinality({u \in U : /\ Used(u)
                                                 /\ call_from_id(LastOp(u).id, call)
                                                 /\ LastOp(u).id[2] = s}))]

\* Mutant: a history is given up as soon as another thread needs a slot.
Stale_Any == {u \in Threads : Used(u)}

\* hist_get drops the histories older than HIST_STALE_US.
Stale == {u \in Threads : Used(u) /\ hist[u].age > HistStale}

\* Mutant: the history outlives the syscall.
Drop_Not(h, U) == h

Drop(h, U) == [u \in Threads |-> IF u \in U THEN NoHist ELSE h[u]]

\* Mutant: the array of histories has no end.
HistFree_Always == TRUE

\* hist_get for a thread without a history finds a slot once the stale ones
\* are dropped.
HistFree == Cardinality({u \in Threads \ Stale : Used(u)}) < MaxHist

-----------------------------------------------------------------------------
(* Executions of a syscall *)

\* Bytes the execution starts from: a replay restores the position that the
\* first operation found.
StartPos(t) == IF Used(t) THEN hist[t].ops[1].pos_before ELSE pos[t]

\* srv_open sends the mode OpenFile noted last, whoever is opening.
Opens(y)    == y.op \in {"open", "dir"}
Flags(y, m) == Opens(y) /\ m

\* OpenFile notes its mode before the open; no other opener does.
NotedMode(y) == IF y.op = "open" THEN y.create ELSE mode

\* Moved along the file by done pages, from position start on.
Moves(y) == y.op \in {"write", "read"}

\* The syscall returns to the application and its history is dropped
\* (AuSrvfsSyscallExit); done pages were moved, from position start on.  After
\* a RemoveFile nothing is said of earlier pages any more.
Returns(t, y, start, done) ==
    /\ sys' = [sys EXCEPT ![t] = None]
    /\ last' = [last EXCEPT ![t] =
                  CASE Moves(y) -> [op |-> y.op, nr |-> y.nr, start |-> start, done |-> done]
                    [] y.op = "remove" -> None
                    [] OTHER -> @]

\* srv_op without a match in the history: a new operation, number k of the
\* syscall, with the calls c and the histories h the execution has so far.
\* The request is queued, and the thread sleeps until it re-executes.
NewOp(t, y, c, h, k, at) ==
    /\ KAdmitted(Endpoint, c)
    /\ ep' = KEp(Endpoint, c)
    /\ call' = KCall(t, Endpoint, c)
    /\ genc' = PrunedGen
    /\ cnt' = [cnt EXCEPT ![t] = @ + 1]
    /\ sleep' = [wake_tid(KWoken(Endpoint, c)) EXCEPT ![t] = "call"]
    /\ sent' = [sent EXCEPT ![<<t, cnt[t] + 1>>] =
                  [sys |-> y, chunk |-> k, at |-> at, status |-> "none"]]
    /\ hist' = [h EXCEPT ![t].ops = Append(@, [id |-> KCallId(c), pos_before |-> at,
                                              create |-> Flags(y, NotedMode(y)),
                                              left |-> SrvTimeout])]
    /\ sys' = [sys EXCEPT ![t] = y]
    /\ UNCHANGED last

\* No server, or its queue or the call table is full: the operation fails at once.
NoServer(t, y, c, h, start, done) ==
    /\ ~KAdmitted(Endpoint, c)
    /\ ep' = PrunedEp
    /\ call' = KPruned(c)
    /\ genc' = PrunedGen
    /\ sleep' = wake_tid(KFailed(c))
    /\ hist' = Drop(h, {t})
    /\ Returns(t, y, start, done)
    /\ UNCHANGED <<cnt, sent>>

\* The syscall ends without another word to the server, which leaves calls c.
Ends(t, y, c, start, done) ==
    /\ call' = c
    /\ hist' = Drop(hist, {t})
    /\ Returns(t, y, start, done)
    /\ UNCHANGED <<ep, genc, sleep, cnt, sent>>

\* An execution that finds no history of the thread (hist_get).
FirstExecution(t, y) ==
    /\ ~Used(t) /\ cnt[t] < MaxReq
    /\ pos' = pos
    /\ \/ /\ HistFree
          /\ \/ NewOp(t, y, AbandonedBy(Stale), Drop(hist, Stale), 1, pos[t])
             \/ NoServer(t, y, AbandonedBy(Stale), Drop(hist, Stale), pos[t], 0)
       \/ /\ ~HistFree                                             \* IPC_E_BUSY
          /\ call' = AbandonedBy(Stale)
          /\ hist' = Drop(hist, Stale)
          /\ Returns(t, y, pos[t], 0)
          /\ UNCHANGED <<ep, genc, sleep, cnt, sent>>

\* The recorded operation is not the one this execution is about to do.
Mismatch(t, y) == LastOp(t).create # Flags(y, NotedMode(y))

\* It is abandoned, and the operation starts over.
StartOver(t, y) ==
    /\ Mismatch(t, y) /\ cnt[t] < MaxReq
    /\ pos' = pos
    /\ \/ NewOp(t, y, AbandonedBy({t}), [hist EXCEPT ![t].ops = <<>>], 1, pos[t])
       \/ NoServer(t, y, AbandonedBy({t}), [hist EXCEPT ![t].ops = <<>>], pos[t], 0)

\* Mutant: the replayed operations move the position that an earlier execution
\* already moved.
Restored_Not(t, k) == pos[t] + k - 1

\* The position after the replay of the operations before the k-th.
Restored(t, k) == hist[t].ops[k].pos_before

\* The answer the waiting operation polls.
Answer(t) == call[LastOp(t).id[2]].resp

\* Mutant: the server's status is not looked at.
Good_Any(t) == Answer(t) \in Reqs

\* It says that the server did what it was asked, "end" that a READ found no more.
Good(t) == Answer(t) \in Reqs /\ sent[Answer(t)].status \in {"ok", "end"}

\* Pages by which a good answer moves the file position.
Advance(t, y) == IF Moves(y) /\ sent[Answer(t)].status = "ok" THEN 1 ELSE 0

\* Mutant: the deadline is not checked when the thread wakes up.
Expired_Never(t) == FALSE

\* now >= op->deadline_us.
Expired(t) == LastOp(t).left = 0

\* The finished operations are replayed from the history and the k-th, which
\* waits, polls.
Replay(t, y) ==
    LET k   == Len(hist[t].ops)
        id  == LastOp(t).id
        at  == Restored(t, k)
    IN  /\ Used(t) /\ ~Mismatch(t, y)
        /\ \/ /\ KPoll(id) = "TIMEOUT" /\ ~Expired(t)             \* sleep again
              /\ pos' = [pos EXCEPT ![t] = at]
              /\ sleep' = [sleep EXCEPT ![t] = "call"]
              /\ UNCHANGED <<ep, call, genc, cnt, hist, sys, sent, last>>
           \/ /\ KPoll(id) = "TIMEOUT" /\ Expired(t)              \* give up
              /\ pos' = [pos EXCEPT ![t] = at]
              /\ Ends(t, y, AbandonedBy({t}), StartPos(t), k - 1)
           \/ /\ KPoll(id) \in {"FAILED", "NOENT"} \/ (KPoll(id) = "OK" /\ ~Good(t))
              /\ pos' = [pos EXCEPT ![t] = at]
              /\ Ends(t, y, KPolled(id), StartPos(t), k - 1)
           \/ /\ KPoll(id) = "OK" /\ Good(t)
              /\ pos' = [pos EXCEPT ![t] = at + Advance(t, y)]
              /\ IF k = y.n \/ k = MaxOps
                 THEN Ends(t, y, KPolled(id), StartPos(t), k - 1 + Advance(t, y))
                 ELSE /\ cnt[t] < MaxReq
                      /\ \/ NewOp(t, y, KPolled(id), hist, k + 1, at + Advance(t, y))
                         \/ NoServer(t, y, KPolled(id), hist, StartPos(t), k)

\* The system-call entry: first execution or re-execution alike.
Execute(t, y) ==
    /\ mode' = NotedMode(y)
    /\ \/ FirstExecution(t, y)
       \/ Used(t) /\ StartOver(t, y)
       \/ Replay(t, y)
    /\ UNCHANGED <<pstate, pend, rcvd, disk>>

\* A thread of an application makes a system call of n operations (bound: MaxReq).
Enter(t, op, n, create) ==
    /\ op \in Uses[t] /\ Idle(t) /\ sys[t] = None /\ cnt[t] + MaxChunks <= MaxReq
    /\ Execute(t, [op |-> op, n |-> n, create |-> create, nr |-> cnt[t] + 1])

\* WriteFile on a /srv file, n pages; ReadFile, a page at most whatever was asked.
WriteFile(t, n) == Enter(t, "write", n, FALSE)
ReadFile(t)     == Enter(t, "read", 1, FALSE)

\* OpenFile; an open by CreateDir, which asks for no file to be created.
OpenFile(t, create) == Enter(t, "open", 1, create)
CreateDir(t)        == Enter(t, "dir", 1, FALSE)

\* ReadDir and RemoveFile; OpenDir asks the server nothing.
ReadDir(t)    == Enter(t, "readdir", 1, FALSE)
RemoveFile(t) == Enter(t, "remove", 1, FALSE)

\* The svc is executed again.
Restart(t) == Running(t) /\ sys[t] # None /\ Execute(t, sys[t])

-----------------------------------------------------------------------------
(* The server, time, and process life *)

\* fssrv does what the request says, or refuses it, and replies at once.
Written(d, r) ==
    [i \in 1 .. IF Len(d) > sent[r].at THEN Len(d) ELSE sent[r].at + 1 |->
        IF i = sent[r].at + 1 THEN <<sent[r].sys.nr, sent[r].chunk>>
        ELSE IF i <= Len(d) THEN d[i] ELSE None]

\* The thread's file after the request was done.
Effect(d, r) ==
    CASE sent[r].sys.op = "write"  -> Written(d, r)
      [] sent[r].sys.op = "remove" -> <<>>
      [] OTHER                     -> d

Serve(t, m, status) ==
    /\ do_reply(t, m)
    /\ IF m.req \in Reqs
       THEN /\ status = "end" => sent[m.req].sys.op = "read"
            /\ sent' = [sent EXCEPT ![m.req].status = status]
            /\ disk' = IF status = "ok"
                       THEN [disk EXCEPT ![ProcOf[t]][m.req[1]] = Effect(@, m.req)] ELSE disk
       ELSE UNCHANGED <<sent, disk>>                    \* an empty message: E_INVAL
    /\ UNCHANGED <<hist, sys, pos, mode, last>>

Serving(t) ==
    \/ /\ \/ do_create(t, Endpoint, "DAEMONS")
          \/ \E h \in Handles : do_wait(t, h) \/ do_recv(t, h, TRUE)
       /\ UNCHANGED srvVars
    \/ \E m \in rcvd[ProcOf[t]], status \in {"ok", "end", "err"} : Serve(t, m, status)

\* A sleeping thread is ready when its time is up: a server's WAIT any time,
\* a client's at its operation's deadline.
WakeUp(t) ==
    /\ t \in Users => sys[t] # None /\ Used(t) /\ LastOp(t).left = 0
    /\ Timeout(t)
    /\ UNCHANGED srvVars

\* A thread that is ready, or whose sleep is over, runs before the next tick.
Due(t) == /\ sys[t] # None /\ pstate[ProcOf[t]] = "run"
          /\ sleep[t] = "no" \/ (Used(t) /\ LastOp(t).left = 0)

Aged(h) == IF h.ops = <<>> THEN h
           ELSE [age |-> IF h.age > HistStale THEN h.age ELSE h.age + 1,
                 ops |-> [h.ops EXCEPT ![Len(h.ops)].left = IF @ = 0 THEN 0 ELSE @ - 1]]

Tick ==
    /\ \A t \in Users : ~Due(t)
    /\ \E t \in Users : Used(t)
    /\ hist' = [t \in Threads |-> Aged(hist[t])]
    /\ UNCHANGED <<vars, sys, pos, mode, sent, disk, last>>

\* A process that exits in the middle of a /srv syscall leaves its history.
Exit(p) ==
    /\ AuProcessExit(p)
    /\ sys' = [t \in Threads |-> IF ProcOf[t] = p THEN None ELSE sys[t]]
    /\ UNCHANGED <<hist, pos, mode, sent, disk, last>>

Reap(p) == AuProcessClean(p) /\ UNCHANGED srvVars

SrvNext ==
    \/ \E t \in Users :
          \/ \E n \in 1 .. MaxChunks : WriteFile(t, n)
          \/ \E create \in BOOLEAN : OpenFile(t, create)
          \/ ReadFile(t) \/ CreateDir(t) \/ ReadDir(t) \/ RemoveFile(t)
          \/ Restart(t)
    \/ \E t \in Threads \ Users : Serving(t)
    \/ \E t \in Threads : WakeUp(t)
    \/ Tick
    \/ \E p \in Procs : Exit(p) \/ Reap(p)

SrvSpec == SrvInit /\ [][SrvNext]_allVars

\* Time passes, sleepers wake at their deadline and ready threads run.
SrvFair ==
    /\ WF_allVars(Tick)
    /\ \A t \in Users : WF_allVars(Restart(t)) /\ WF_allVars(WakeUp(t))

SrvSpecFair == SrvSpec /\ SrvFair

-----------------------------------------------------------------------------
(* Properties *)

Ops == [id : Nat \X CallSlots, pos_before : Nat, create : BOOLEAN, left : 0 .. SrvTimeout]

\* Type invariant; the history array and the operation arrays are not overrun.
SrvTypeOK ==
    /\ TypeOK
    /\ \A t \in Threads :
          /\ hist[t].age \in 0 .. HistStale + 1
          /\ hist[t].ops \in Seq(Ops) /\ Len(hist[t].ops) <= MaxOps
          /\ sys[t] \in Syscalls \cup {None} /\ pos[t] \in Nat
    /\ Cardinality({t \in Threads : Used(t)}) <= MaxHist
    /\ mode \in BOOLEAN

\* "Side effects of an earlier pass are not applied twice" (srvfs.c:19): when a
\* ReadFile or WriteFile has returned, the file position has moved by what it says.
PositionMatchesReturn ==
    \A t \in Users : sys[t] = None /\ last[t] # None /\ pstate[ProcOf[t]] = "run" =>
        pos[t] = last[t].start + last[t].done

Reported(t) ==
    /\ last[t] # None /\ last[t].op = "write" /\ pstate[ProcOf[t]] = "run"
    /\ sys[t] # None => sys[t].op # "remove"

\* Every page a WriteFile reports written is in a server's file, at the place
\* the file position pointed to when the syscall was made, until the application
\* removes the file.
ReportedIsWritten ==
    \A t \in Users : Reported(t) =>
        \A k \in 1 .. last[t].done : \E p \in Procs :
            /\ last[t].start + k <= Len(disk[p][t])
            /\ disk[p][t][last[t].start + k] = <<last[t].nr, k>>

\* "A finished one returns its saved answer without asking the server again"
\* (srvfs.c:16): no page is sent to the server twice by one WriteFile.
AskedOnce ==
    \A t \in Users : \A i, j \in 1 .. cnt[t] :
        LET a == sent[<<t, i>>]
            b == sent[<<t, j>>]
        IN  a.sys.op = "write" /\ a.sys = b.sys /\ a.chunk = b.chunk => i = j

\* The call a live thread waits for is its own, for the request it made last,
\* and nobody but itself gives it up.  (Not of every behaviour of the code: the
\* stale history of a dead thread gives up the call of another thread that has
\* got the same id, srvfs.c:89.  IdsFresh says when it does not.)
WaitsForOwnCall ==
    \A t \in Users : Used(t) /\ pstate[ProcOf[t]] = "run" =>
        /\ call_from_id(LastOp(t).id, call)
        /\ LET c == call[LastOp(t).id[2]] IN
           c.tid = t /\ c.req = <<t, cnt[t]>> /\ c.state # "ABANDONED"

\* A dead thread's history stays until it is stale, and its call is then given
\* up by its id, when a thread enters its next syscall.  That id is not the one
\* for which a third thread waits, although a freed slot starts its generations
\* over.  (No invariant of the code: with three applications it is false, and
\* the stale history then gives up the call of a live thread.)
IdsFresh ==
    \A t, u, v \in Users :
        /\ t \in Stale
        /\ pstate[ProcOf[t]] # "run" /\ pstate[ProcOf[u]] = "run" /\ pstate[ProcOf[v]] = "run"
        /\ Used(u) /\ ~Used(v)
        => LastOp(t).id # LastOp(u).id

\* A thread out of a syscall has no history left that could be matched against
\* its next one (AuSrvfsSyscallExit).
NoStrayHistory ==
    \A t \in Users : pstate[ProcOf[t]] = "run" => (Used(t) <=> sys[t] # None)

\* No live thread's history has become stale.  (No invariant either: a syscall
\* whose operations each take a good part of their time outlives HIST_STALE_US.)
InTime == \A t \in Users : Used(t) /\ pstate[ProcOf[t]] = "run" => hist[t].age <= HistStale

\* "A dead or stuck server never hangs a client" (srvfs.c:22): every /srv syscall
\* returns, even if no server process ever takes a step.  (True of WriteFile and
\* OpenFile; the open by CreateDir starts over, with a new deadline, each time
\* another thread notes another mode in between: it returns only if they stop.)
SyscallsReturn == \A t \in Users : (sys[t] # None) ~> (sys[t] = None)
============================================================================
