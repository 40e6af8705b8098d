# XenevaOS: the microkernel services, in TLA+

XenevaOS's active kernel is *Aurora*, the AArch64 kernel in `src/KernelAA64`.
Its drivers and file systems move, step by step, out of the kernel into user
processes (`src/Docs/Development/Microkernel.md`): a process serves a named IPC
endpoint, the kernel forwards to it, and a supervisor restarts it when it dies.
This project specifies the machinery that carries that design: the kernel IPC,
the `/srv` file system on top of it, the supervisor, the threads and processes
under them all, and the graphics and sound proxies that share memory with a
server, each with the death of a process at every point. It model-checks them on
small instances with TLC, and proves safety properties of each of these parts for every
size with TLAPS.

## 1. Inventory

| component | source | state | operations |
|---|---|---|---|
| kernel IPC | `KernelAA64/Ipc/auipc.c`, `BaseHdr/auipc.h` | endpoint table `g_ep` (name, owner, ACL, queue, one waiter), call table `g_call`, generation counter | CREATE, CONNECT, DESTROY, CALL, FETCH, WAIT, RECV, REPLY; `AuIpcKCall*` for the kernel itself; teardown at process death |
| `/srv` proxy | `Fs/srvfs.c`, `Serv/fileserv.c`, `Hal/systable.c` | per-thread operation histories `g_hist`, `g_open_mode`, file positions | open, read, write, readdir, remove by *restartable syscalls* |
| file server | `Process/fssrv/main.cpp` | a tmpfs | serves endpoint `fs` |
| service manager | `Process/svcmgr/main.cpp` | service table: pid, crashes, window, cool-down | adopt, start, wait, back off, hand back, probation |
| init | `Process/Init/_init.cpp` | pid of svcmgr, its restarts | reap, relaunch svcmgr |
| process lifecycle | `process.c`, `clean.c`, `Serv/thrserv.c` | process list, waitlists, thread states | create slot, load, exit, wait, reap |
| scheduler | `Hal/sched.c`, `Sync/waitq.c`, `Sync/poll.c` | ready, blocked and sleep lists | block, unblock, sleep, wake, trash, poll |
| EDF class | `Hal/sched_edf.c` | admitted utilisation (Q16) | admit, remove, wait for the next period |
| shared memory | `Mm/shm.c` | segments by key and id, mapping counts, ranges per process | create, map, unmap, unmap all |
| GPU proxy | `Fs/Dev/devgpu.c`, `BaseHdr/gpudamage.h`, `Process/gpusrv/main.cpp`; its painters `aucon.c` and `Process/DeodhaiXR` (`main.cpp`, `dirty.cpp`, `compose3d.cpp`), the display token of `proctoken.c` | owner, generation, damage rectangle, frame in flight; who has the display | acquire, damage, take, acknowledge, owner gone; draw, report, take the display |
| sound proxy | `Sound/sndproxy.c`, `Process/sndsrv/main.cpp` | ring shared with the server, audio carried over from the last one | attach, write, detach; the server's drain loop |
| network proxy | `Net/netproxy.c` | rings shared with a server, writers in flight | attach, transmit, receive, detach |
| input, hardware access | `Fs/Dev/devhw.c`, `Fs/Dev/devinputsrv.c` | device claims of server processes | claim, map, release at death |
| pipes, post boxes | `Fs/pipe.c`, `Ipc/postbox.c` | byte rings, event queues | read, write, open, close |
| allocators | `Mm/tlsf.c`, `Mm/pmmngr.c`, `Mm/vmmngr.c`, `Mm/mmap.c` | free lists, page owners | allocate, free, map |
| network stack, drivers, local file systems, compositor, applications, x86-64 kernel | see `PROJECT.json` | | not planned, reasons there |

**How they interact.** An application's system call on a `/srv` path runs
`srvfs.c`, which issues a call to the endpoint `fs` through `AuIpcKCallBegin`,
rewinds the return address and sleeps; the reply (or a timeout) makes it ready,
it executes the whole system call again, and the history answers what was
already done. The server is a process like any other: when it exits,
`AuProcessExit` leaves a zombie, and the endpoint is torn down either by the
next create, connect or call (`ipc_prune_dead`) or by the reaper (`clean.c` calls
`AuIpcProcessGone`), whichever is first. svcmgr's watcher thread waits on the
process's waitlist and starts a new server. Zombies are reaped by init, which
also watches svcmgr.

**What is hard.** System calls run with interrupts masked on one CPU, so each is
atomic. Everything between two of them is not: a client can time out, die or be
reaped while its request is queued, held by a server or answered; a server can
die at each of these points and be replaced under the same name; sleeping
threads are woken by id; a re-executed system call meets a world that moved on;
a supervisor can die between two of its own system calls. `PROJECT.json` lists
these hazards at the lines where they bite.

Below the services, the scheduler's lists are shared by system calls, the timer
interrupt, real-time releases and wakers that hold a thread id or pointer of
their own. The graphics proxy has one damage slot between two painters and one
presenting server; the sound proxy one ring between clients and the server. Both
servers hold a device through a handle whose release detaches the proxy first.

**What makes each component correct.** IPC: the tables stay consistent, no
caller is left waiting for a server that is gone, no wake-up is lost, an answer
reaches the request it belongs to, a handle never changes its meaning. `/srv`:
re-execution is invisible (each page is sent once, the position moves once, what
is reported written is written) and bounded by deadlines. Supervision: no second
instance, no missed exit, giving up exactly within the stated budget, and the
service and its supervisor come back. Scheduler: a thread is on exactly the list
its state says, is resumed the way it left, and runs in the end. EDF: the admitted
utilisation never exceeds one, and then no deadline is missed. Processes: who is
over never runs again, death is published when every thread is stopped, waiters
are told, reaped memory is linked nowhere. GPU proxy: what is painted is shown in
the end, the one frame in flight has a presenter, copies go only into memory that
is still the server's. Sound proxy: what was accepted is played, in order, across
the death of servers. Shared memory and pipes (not modelled yet): ids and address
ranges in use are disjoint, a segment lives exactly while it is mapped; a ring
delivers the bytes written, in order.

## 2. Modules

| module | models | used by |
|---|---|---|
| `AuIpc` | `auipc.c`, process death and reap as far as the IPC sees them | `SrvFs` (EXTENDS), `AuIpcProofs`, `AuIpcRefines` |
| `AuIpcProofs` | theorems about the tables and the wake-ups of `AuIpc`, and that it implements `IpcCalls` | `SrvProofs` (EXTENDS) |
| `IpcCalls` | abstract: what the IPC promises a client | `AuIpcRefines` (INSTANCE) |
| `AuIpcRefines` | the refinement mapping from `AuIpc` to `IpcCalls` | `MCAuIpc`, `AuIpcProofs` |
| `SrvFs` | `srvfs.c` over `AuIpc`, with the server `fssrv` | `MCSrvFs`, `SrvProofs` |
| `SrvProofs` | theorems about `SrvFs` | |
| `Selection` | a walk over a list that keeps some of its elements, without recursion | `SvcMgr`, `ThreadLists` (EXTENDS) |
| `SelectionProofs` | lemmas about selections and other lists | `SvcProofs`, `SchedProofs`, `ProcProofs` (EXTENDS) |
| `SvcMgr` | `svcmgr/main.cpp`, init's watch, the process table under them | `MCSvcMgr`, `SvcProofs` |
| `SvcProofs` | theorems about `SvcMgr` | |
| `ThreadLists` | `sched.c`'s lists and `sched_edf.c`, as operators on one record | `Sched`, `Proc` (EXTENDS) |
| `Sched` | threads, interrupts and wakers at work on the lists | `MCSched`, `SchedProofs` |
| `SchedProofs` | theorems about `Sched` | |
| `Proc` | `process.c`, `clean.c`, `thrserv.c`: the end of threads and processes | `MCProc`, `ProcProofs` |
| `ProcProofs` | theorems about `Proc` | |
| `GpuProxy` | `devgpu.c`, `gpudamage.h`, `gpusrv`, the two painters | `MCGpuProxy`, `GpuProofs` |
| `GpuProofs` | theorems about `GpuProxy` | |
| `SndRing` | `sndproxy.c`, `sndsrv` | `MCSndRing`, `SndProofs` |
| `SndProofs` | theorems about `SndRing` | |
| `MC*` | instances for TLC | the `.cfg` files |

`PROJECT.json` maps each definition to its source lines. Definitions keep the
source's names where there is one (`do_recv`, `AuIpcProcessGone`, `find_running`).

### AuIpc

State: `ep` is `g_ep`, `call` is `g_call`, `genc` is `g_gen_counter`; `pstate`
is a process's life (`run`, `died` a zombie, `reaped`), `sleep` a thread's place
in the scheduler's sleep list, `pend` the id a client keeps between CALL and
FETCH. Each `do_*` action is one ioctl, from its checks to its sleep, with
`ipc_prune_dead` inside where the code calls it. `AuIpcProcessGone` is one operator
applied to a set of processes: prune tears down all dead owners, DESTROY its
caller, the reaper the process it frees. What follows a sleep is the next ioctl
of that thread: after CALL its FETCH. `Timeout` ends a bounded sleep at any time.
RECV's skipping of abandoned slots is modelled slot by slot (`Skips`), with its
early ends: an empty queue, and a message that does not fit the caller's buffer.

Data: a request is `<<thread, number>>`, an answer is the request it answers.
Pids and names are identities; the ACL is "any" or "daemons". The generation of
a call slot restarts at zero when the slot is freed, as `call_free`'s memset does,
so call ids repeat; endpoint generations come from a counter and do not.

`KAdmitted`, `KCall` and the other `K` operators are `AuIpcKCallBegin`, `Poll` and
`Abandon`, for `SrvFs`, where the kernel is the caller. They are functions of a call
table, because one execution of a system call gives up a call, polls it and begins
the next one.

### SrvFs

One *execution* of a system call, from its entry to the next sleep or to its
return, is one action (`Execute`), taken first by `WriteFile`, `ReadFile`, `OpenFile`,
`CreateDir`, `ReadDir` or `RemoveFile` and again by `Restart`. It either finds no history
(`FirstExecution`), or replays its finished operations and polls the last
(`Replay`): sleep again, give up at the deadline, fail, finish, or go on to the
next operation, with a new request; or it finds that the recorded operation is
not the one it is about to do and starts over (`StartOver`). The history keeps
the fields the code compares or restores: position before, mode, call id, and
the deadline as the time left. `AuSrvfsSyscallExit` is part of each return.

The server does what a request says (`disk`, `Effect`), or refuses, or finds the end
of the file, and replies: other applications may have done anything to its files. Time is
counted in ticks; a thread whose sleep is over runs within the tick (`Due`): the
model assumes prompt scheduling where the code compares times.

### SvcMgr

`procs` is the kernel's process list in order, with each process's waitlist;
`spoiled` are threads of dead processes that a wake-up has set back to READY.
Each action is one system call of init or of a watcher thread, or a decision of
the watcher between two of them (`Gone`); `Tick` is one second. svcmgr may die
between any two actions (bound: `MaxFaults`), services exit or crash at any time
after they were loaded, creating or loading may fail (bound: `MaxFails`). init's
500 ms check interval is subsumed by the one second it sleeps between two
rounds; the hand-back command is external and does not touch this state. A pid is
reused only when nothing mentions it any more, where the kernel counts up.
The memory of a freed thread (`clean.c:61`) may be given to any watcher of the next
svcmgr while a waitlist still points to it (`process.c:413`): when a process exits, as many
watchers may be hit by its wake-ups as its waitlist has freed threads (`hit`). The
constants give the table one service, as the built-in table of `main.cpp` has it and the one
`Scripts/Linux/lib/llvm.sh` writes when the build moves one server out of the kernel (each
option adds a line); section 3 says what happens with two.

The reaper's passes over the process list are `Selection`s: the walk as a set of kept
indices and the place each one gets, where `SelectSeq` recurses. `MCSvcMgr` assumes,
and TLC checks, that both agree on short lists.

`ages` and `probation` are histories kept only for the properties.

### IpcCalls and AuIpcRefines

`IpcCalls` knows no endpoint, table, queue or server: a thread asks, at most one
server takes the request, once, its answer or a failure is final, and FETCH
delivers the answer to this very request, a failure, or gives up; and every request
comes back. The mapping reads a client's phase off its call slot: no pending id is
`idle`; a slot that is not the thread's any more, or says so, is `failed`; QUEUED is
`asked`, SERVING `taken`, DONE `answered`, with the answer that lies in the slot. A
server's death moves many clients in one step, which `Proceed` allows.

### ThreadLists, Sched and Proc

One record `k` holds the four lists, the current thread, and per thread its state,
the kind of frame it left behind, its wake-up time and its reservation. Each
function of `sched.c` and `sched_edf.c` is an operator on that record, so a system
call is the composition of the functions it calls. `frame` says how a thread left
the CPU: through an exception frame (`AuScheduleThread`) or by a handoff from inside
the kernel (`AuScheduleNext`); resuming it the other way is undefined and sets
`wild`, as does unlinking a thread from a list it is not on. Behind `wild` the model
stops. Times are the ticks left, so the clock needs no bound. Every list that the
code walks is cut with `Selection`. Threads are finitely many, and `ListsValid` says of
each that exactly one link of exactly one list is its own.

`Sched` has the callers: system calls that sleep, block or poll (interrupts masked,
one step), the soak test's kernel threads, which run with interrupts enabled and are
cut between their calls and between the two halves of `AuScheduleNext` (`LeaveKernel`,
`HandOff`), and every kind of waker, at any time. A real-time thread asks for its
reservation once, works a tick at a time, and waits for its next period.

`Proc` adds processes, their waitlists (`procs[p].waitlist`, and `joins[t]` of a
thread) and `at`, where a thread's own code is: in user code, waiting for the end of
a thread or process, or over. `ProcessExit`, the EL0 abort (`Fault`), `ExitSubThread`,
pthread_join, `ProcessWaitForTermination` and signals are actions; reaping runs over
the process table in any order. `Each` applies a function to the elements of a list
one after the other; each loop of the code is such an application with a name
(`TrashAll`, `UnblockAll`, `EndSubs`, `CleanAll`, `AwakeAll`, `ReapAll`), and a system
call works on a copy of the tables (`Now`) until it returns or switches threads.

### GpuProxy

`gpu` and `damage` are the proxy's statics, `srv.pc` is where gpusrv is between two
commands. The model keeps no pixels: a painted cell travels from the framebuffer to
the server's backing (TAKE), to the host's resource (TRANSFER) and to the screen
(FLUSH), and `fresh` says for each of the three places which cells are up to date.
Painters draw and report in two steps, as the console's `AuPutC` and
`AuConsoleFlushMirror` do and the compositor's blit and its DAMAGE ioctl; the
display changes hands in between. `deo` is how far the compositor is, in the order of its
`main`: it draws its first picture (`start`), copies it to the framebuffer and reports
it, while the console still has the display, so that the proxy refuses the report
(`CompositorReports`) and the compositor goes on; then it sets up its pipeline
(`CompositorSetsUp`: 3D, or 2D when that fails), takes PROCESS_TOKEN_DISPLAY
(`CompositorTakesDisplay`), composes its first frame (`CompositorFirstFrame`: the whole
screen in 3D, nothing in 2D), and from then on paints what changes. Every command of the server may fail, the server
may crash anywhere, and is then started again; giving the device back detaches the
proxy, frees the handle, and loads the kernel's driver, in this order.

### SndRing

Audio is counted in units, numbered in the order the card accepts them, so that
loss, repetition and order can be told apart. `ring` is the shared memory with its
two wrapping counters, `px` the proxy's `attached` and the carried copy, `srv` the
drain loop cut at every access to the ring: look, copy, play, advance the tail. A
period that times out or a crash leaves open whether it was played (`played` or
not); the tail was not advanced, so the next server plays it (again). `gone` collects
what the proxy decides to lose: a carried copy that is too old, that cannot be
allocated, or whose card finds no slot.

## 3. Runs

Runs that pass:

| run | instance | what it shows |
|---|---|---|
| `ipc_core` | 2 servers that also call each other, 1 client; one server and the client mortal; 2 endpoints, 2 calls, queue of 1, 2 generations | table invariants, no lost wake-up, handles keep their meaning |
| `ipc_requests` | 2 mortal servers, 2 immortal clients of 2 requests each, a queue of 2 | `AuIpc` implements `IpcCalls`: each request is taken once, answered by its own answer, and returns, without a timeout |
| `srv_core` | 2 applications, 1 server; one writes (up to 2 pages), opens and removes, the other reads, removes, lists and calls CreateDir; server and one application mortal; a syscall each | re-execution is invisible |
| `srv_stuck` | histories for one thread, 2 operations each, writes of up to 3 pages; the server need not move | arrays are not overrun; each syscall returns by its deadlines |
| `svc_core` | 1 service, budget 2 in 4 ticks, cool-down 1 doubling to 3, stable at 3; one svcmgr death, one failed creation or load; freed threads' memory is reused | supervision as its header states for a table of one service, no deadlock |
| `sched_core` | 2 kernel threads that may become real-time (1 of 2 and 3 or 4 of 6 ticks), 1 user thread; naps of up to 2 ticks | lists agree with states, masked threads resume as they left, deadlines hold, nobody starves |
| `proc_core` | init, a process with a main and a sub thread, a process of one thread; signals to the two main threads | exits, waits and reaping leave nobody behind and no link to freed memory |
| `gpu_core` | 3 cells in a row, 2 drawings besides those of the compositor's start, 2 faults (a 3D start that fails is one) | no painted cell is forgotten, the slot is never stuck, memory outlives its use, the screen catches up |
| `snd_core` | ring of 4 units, periods of 2, counters that wrap at 8, 9 units written, 2 faults | nothing is eaten, order is kept, all is heard |

Runs that TLC refutes, each a place where the code does something else than it
says; `PROJECT.json`, "findings", quotes the texts:

| run | what happens |
|---|---|
| `ipc_late_reply` | a client gives up and exits; its call is freed while a server of two requests still holds it, the slot is reused under the same id, and the late reply is taken as the next client's answer |
| `svc_lost` | a dead svcmgr whose watcher is woken by its service's exit can never be reaped; init never relaunches it |
| `proc_join` | a sub thread that its main thread joins faults; the process is BUSY_WAIT, so it is not ended, the thread is trashed, and the joiner is never woken |

`OneStrike` bounds a doubled cool-down from below only, `SingleInstance` is checked of one
service, `NoPaintLost` leaves out the compositor's start (`StartupPicture`), and
`ScreenCatchesUp` the 2D fallback: in each of these the code does otherwise, as the next
section says.

### More disagreements, without a run

Met while modelling, each traced in the source. Those that name a property or an
instance can be seen by running it; the others were read off the code.

- `svcmgr/main.cpp:356`: the cool-down doubles whenever it is *below* `MAX_COOLDOWN_MS`, so
  that 240 s become 480 s, where the header says that it doubles "up to five minutes"
  (`main.cpp:15-17`). `Doubled` does what the code does; `OneStrike` asks for a cool-down of
  at least twice the last one or at least the cap, so it holds of both readings and the
  overshoot breaks no property.
- `clean.c:61`, `process.c:413`: with two services in the table the promise that a
  relaunched svcmgr "ADOPTS an instance that is already running" (`main.cpp:8`) fails: a
  service that the old svcmgr watched has threads on its waitlist that init reaped and
  freed; their memory holds a watcher of the new svcmgr, blocked for the *other* service;
  the exit of the first wakes it, it takes its own service for gone, and starts it a
  second time (`SingleInstance` with `Services = {a, b}`). Builds with several servers have such tables.
- `DeodhaiXR/main.cpp:1389-1394`: the compositor reports its first whole picture before it
  has the display token (`main.cpp:1479`), and `devgpu.c:301-302` refuses the report with
  E_PERM; the result is not looked at. With 3D the first frame (`compose3d.cpp:1504-1514`)
  makes up for it. If the 3D start fails (`compose3d.cpp:1233-1236`) nothing does: the
  startup picture, which `main.cpp:1339-1343` wants on the screen, is presented only where
  the loop repaints it (`ScreenCatchesUp` without `deo.mode = "2d"`).
- `auipc.c:366`: WAIT leaves `waiter_tid` set when it times out; a later request wakes
  the thread out of a CALL of its own, whose FETCH then gives the call up.
- `auipc.c:131`: a client that timed out and is reaped frees its call while the slot is
  queued; the server receives an empty request (queues then hold slots that are free
  or another's; with mortal clients).
- `auipc.c:117`: calls abandoned at an endpoint that is torn down are freed by nobody
  until their client is reaped.
- `srvfs.c:104`: a WriteFile of 16 pages of up to 3 s each outlives the 15 s after which
  its history counts as stale; its pages are then sent twice (`AskedOnce` with
  `HistStale` shorter than the longest syscall).
- `srvfs.c:89`: dropping a dead thread's stale history abandons the call of another
  application that has got the same id. `WaitsForOwnCall` says that this does not happen;
  TLC refutes it with 3 applications of which one dies (writes of one page, `MaxHist` 3,
  `MaxGen` 1, `MaxReq` 1, `HistStale` 2, `SrvTimeout` 2). With the two of `srv_core` there is
  nobody to be hit, so no passing run claims it.
- `svcmgr/main.cpp:214`: a relaunched svcmgr adopts by name a slot that its predecessor
  created and never loaded; the service is never started. `ServiceComesBack` excuses
  this case by name.
- `clean.c:144`: an exited sub thread stays on the ready list (KILLABLE is set before
  `AuThreadMoveToTrash`, which then returns), and a wake-up it gets nevertheless makes
  it READY, so that it runs again: with `Signalled = {4}`, a sub thread (`thrserv.c:381` lets
  a caller name any thread), TLC reaches states with `at[k.cur] = Over`. So no run claims
  that what is over stays over; `proc_core` signals main threads, and so do the theorems of
  section 4 where it matters (`Undisturbed`).
- `sched.c:592`: the timer that strikes a kernel thread inside `AuScheduleNext` leaves an
  exception frame that is later unpacked as a handoff frame (`FrameFits` said of all
  threads, instead of `MaskedFramesFit`).
- `srvfs.c:276`: `g_open_mode` is one global; a CreateDir asks the server to create a
  file when another thread's OpenFile noted that mode last, and starts over each time
  it changes.
- `process.c:466`: `AuProcessExit` passes over the sub threads it has just trashed, so
  their joiners and resources are left; `process.c:413`: a waitlist may point to
  threads of a reaped process; `process.c:516`: `ProcessWaitForTermination(-1)` clears
  the caller's BUSY_WAIT; `process.c:338`: `AuCreateUserthread` does not check
  MAX_THREADS.
- `thrserv.c:88`: ProcessExit from a sub thread does not find its process and spins.
- `sched.c:782`: `AuThreadMakeReady` does nothing for a sleeper that is parked in the
  kernel; `sched_edf.c:99`: a job that ends exactly at its deadline counts as missed.
- `waitq.c:96`: `AuWaitQueue_DetachAll` leaves the entries' queue pointers.
- `DeodhaiXR/main.cpp:1357`: the compositor binds to `/dev/gpusrv` once; after the
  server gave the device back its DAMAGE is refused and the kernel's driver is not
  told. `devgpu.c:255` zeroes `next`, which `gpudamage.h:51` says goes on counting
  (harmless: only the owner may acknowledge).
- `sndproxy.c`: the carried audio is freed before `AuSoundRegisterCard` can fail
  (modelled: `Attach`'s second case); a write longer than the ring is truncated without
  being counted as dropped.
- `svcmgr/main.cpp:363`: the back-off shift overflows from 25 crashes on (the tables allow
  fewer); `_init.cpp:384`: a failed `launch_svcmgr` ends the watch for good.

**Bounds, and why they are enough.** The hazards of the IPC involve one endpoint
reused (2 generations), one call slot reused (2 slots, up to 3 requests), a queue of
one behind a call being served, two processes dying in either order. `MaxReq` bounds
requests per thread, `MaxGen` endpoint creations, `MaxServe` the requests a server
holds unanswered: the repository's servers hold one; `ipc_late_reply` has two. In
`ipc_requests` the clients are immortal: a client that dies while a server holds its
request is the case that `ipc_late_reply` shows to break the promise. In `srv_core`
staleness (3 ticks) is longer than the longest syscall (2 pages of 1 tick), as the
constants are meant. In the histories array of `srv_stuck` there is room for one
thread of two, so the refusal happens; its operation array is shorter than the
longest write, so the short write happens. In `svc_core` the window (4) is longer
than a stable run (3), as in every table of the repository (60 s and at most 20 s),
and the budget can be exhausted within it.

`sched_core`: the two reservations fit exactly one way (1/2 + 3/6 is the whole CPU,
1/2 + 4/6 is refused), and periods of 2 and 6 put releases, ends and preemptions at
every offset; `MaxNap` of 2 makes two sleepers wake in one tick or in different ones.
`proc_core`: three processes are a waiter, a waited-for one and the reaper; `MaxWaits`
of 2 lets two threads wait for one. Signals go to main threads: for sub threads see
the list above. `gpu_core`: three cells are the fewest for which two boxes have a
union with a cell in neither; two drawings put damage before and during a frame; two
faults kill two servers in a row, or fail a command of the one that replaces a dead
one, or force the compositor into 2D and then kill a server. `snd_core`: 9 units move the 8-unit counters past their wrap with a ring of 4,
and every `Period` of 2 can straddle the end of the data because partial periods are
flushed after `IdlePolls`.

**Deadlock** is checked in `svc_core`, `gpu_core` and `snd_core`. The IPC and `/srv`
runs really stop, when the bounded requests are used up or all processes died; the
scheduler and process models stop at `wild`.

**Fairness.** `ServersFair`: the scheduler is round robin, so a thread that is ready
runs: a client back from CALL fetches, a server that has a request receives and
answers it (the servers of the repository do nothing that blocks in between), and
parents reap their children. No timeout is fair there. `SrvFair`: time passes,
sleepers wake at their deadline (timer interrupt), and ready threads of
applications run; nothing is assumed of the server. `SvcMgr`'s `Fairness`: init's
loop, the watcher threads and time go on; nothing has to crash. `TimePasses`
(`Sched`): the timer interrupt comes again and again; that this makes threads run is
what `EveryThreadRuns` shows, and nothing is assumed of threads. `GpuProxy`: a
painter that drew goes on to report, the compositor gets on with its start once it
began, gpusrv runs, and svcmgr starts it again
(`SvcMgr` models that); painting need not go on. `SndRing`: sndsrv runs and is
started again, and the device completes or fails what it is given. Faults are
bounded, so a server is never given up.

## 4. Proofs

The theorems hold for all values of the constants that satisfy the ASSUMEs of the
modules: finite tables of at least one slot, ids that differ from NULL, generations
within the bits `make_id` leaves them, periods and deadlines of at least one tick.
TLC evaluates these on every run. A bound that exists only to make a model finite
(`MaxReq`, `MaxFaults`, `MaxUnits`, ...) is an arbitrary number in a theorem.

Each theorem follows from an inductive invariant: the property itself is seldom
inductive, because it says nothing of the state from which a step could break it.
What is added, and why, is the content of the proof.

### AuIpc (`AuIpcProofs`)

- `TypeCorrect`: `TypeOK`, including that no queue array is overrun. It is
  inductive by itself; the interesting parts are `RecvType`, where the scan of RECV
  must end inside the queue (`SkipsInQueue`), and the least-free-slot searches
  (`LowestIsLeast`, from the well-foundedness of strict inclusion among finite sets).
- `QueuedCallsAreReachable`, `WaitersHaveNoRequests`, `OwnersAreNotReaped`,
  `NamesAreUnique`: from `IInv == TypeOK /\ Sound(...)`. `Sound` adds to the four
  properties that generations in the table are below the counter (so that the one
  given out next is new) and that only endpoints in use have waiters. It is stated of
  a pair of tables rather than of the variables, because create, connect and call
  first prune: `GoneSound` shows once that tearing down any set of processes keeps it,
  and each operation is proved from the pruned tables on.
- `HandlesAreNeverReused`: the action property, from the same invariant.
- `ClientsAreWoken`: nobody sleeps on a call that is over. The invariant adds that a
  free slot names no thread (`Freed`: `call_free` zeroes it), so that a slot that is
  freed and given out again cannot look like the sleeper's own. Each step then shows of
  every call that it stays, is freed, is still in flight, or its client is awake
  (`Settled`).
- `CallsAreImplemented` and `AnswersMatchRequests`: the safety half of the refinement
  `RequestsServed` (`Calls!Safe`), and what a client sees of it, for callers that neither
  exit nor may own endpoints (`Lasting`); servers die and are replaced at any moment, and
  may hold any number of requests. The run `ipc_requests` is such a system.
  `Runs` adds to `IInv`: a call that is not given up is the one its thread waits for,
  carries its last request, and has no other answer (`Claimed`); a call is in its
  endpoint's queue at most once, and is then served by nobody (`Lined`); a request that a
  server holds and could still answer is of a call that is still in the slot it came
  from, and is held once (`HeldOnce`). So an id that repeats - `call_free` zeroes the
  slot's generation - is not used by a late reply: an abandoned call keeps its slot until
  its server answers it. With callers that exit, `AuIpcProcessGone` frees such a
  slot under the server, and `Taken` fails: that is what `ipc_late_reply` shows, and the
  theorem says that nothing else leads there. Owners of endpoints are left out because
  `do_destroy` tears down by the same function. Each step then either lets calls
  go on (`GoesOn`), many at once if a server died, or is a FETCH.

### SrvFs (`SrvProofs`)

The IPC invariant is proved again of the composed system, in which the kernel calls
and gives up calls several times within one step.

- `SrvTypeCorrect`: `SrvTypeOK` and `TypeOK`; the array of histories (`hist_get`'s
  oldest is dropped) and the operations of one history are never overrun.
- `OwnCallOfLasting`: `WaitsForOwnCall`, for applications that do not exit; servers may die
  and be replaced at any moment. `OwnCalls`, the invariant, says of every
  live thread in a syscall that the slot its last id names is its own and holds its
  last request. What could break it is the abandon of *another* thread's call: each step
  is shown to keep the slots of the others (`Keeps`). With applications that exit it is
  false (section 3), and the lemma `OwnCall` has the exact condition: `IdsFresh`, that no stale
  history of a dead thread names the call of a third thread when it is dropped. The lemma is
  what the last two theorems below rest on.
- `HistoriesAreMatched` and `PagesAreAskedOnce`: `[]InTime => ...`, where `InTime` says
  that no live thread's history outlives HIST_STALE_US. The code does not
  guarantee it: 15 s against 3 s for each operation. `ShortSyscallsAreSound` discharges
  the condition for syscalls whose deadlines together fit (5 pages, with the code's
  constants), if only OpenFile opens: CreateDir's open may start over, with a new
  deadline, each time another thread notes another mode. Its invariant (`Brief`) counts
  the age of a history against the deadlines of its operations.
- `PositionMatches`: a ReadFile or WriteFile moves the position by what it returns,
  under `IdsFresh` and for a server that answers a request before it takes the next one
  (`MaxServe = 1`, as fssrv's loop does; with two, a late answer can be taken for another
  request's, which is `ipc_late_reply`). The invariant says where each operation of a
  history found the position (`PosOK`), and that the answer in a slot is the answer to
  the request in it (`AnswerOK`).
- `ReportedStaysWritten`: `ReportedIsWritten` under the same two conditions. A request
  that its thread gave up may still be held by a server and done late, so the invariant
  (`WritesOK`) says what such a request can overwrite: one request is held at a time
  (`OneHeld`); of a thread's calls only the one it waits for goes on (`OnlyOwn`); its older
  requests are held only while nothing of the syscall was answered, and each page
  answered is stored (`Asking`); and no held request reaches below the end of what was
  reported (`Told`, `Spares`). A late request is thus done before the first page the syscall
  counts, or behind the last one.

Both conditions hold in every state of `srv_core`, `IdsFresh` because it takes three
applications to break it: the theorems say there what the run shows, and for three or more
applications of which some exit they say less than one would like.

### SvcMgr (`SelectionProofs`, `SvcProofs`)

`SelectionProofs` shows of a selected list what induction would show of `SelectSeq`:
each kept element once, in order, no other (`SelectionIs`).

- `TypeCorrect`: `SvcTypeOK`; a watcher has used up more strikes than its budget only
  while it cools down (`Watch`), which makes the bound inductive.
- `NobodyWaitsInVain`: `BlockedWillBeWoken`, from `IInv == Typed /\ MgrRunning /\ OwnName /\
  Awaited`: the svcmgr that runs is the one init remembers, a watcher's pid belongs to no
  process of another name, and a blocked watcher is on the waitlist it believes to be on.
- `NoServiceRunsTwice`: `SingleInstance` of a table of one service, with the memory of freed
  threads reused at will (with two services it is false, see section 3). A wake-up that
  hits the watcher by accident comes from the exit of a process of its own service, and then
  none of that service runs. The invariant `SInv` adds that only threads of svcmgr are on waitlists
  (`Waits`) or are made READY after death (`Spoils`), so that a dead service process is
  always reaped; that a watcher past its search owns the only process of its service that
  can run (`Mine`); and, in the gap between two svcmgrs, that init's pass which takes
  the old one off the list took every zombie of the services before (`Fresh`).

### Sched (`SchedProofs`)

- `TypeCorrect`: `SchedTypeOK`.
- `ListsAreValid`: what `AuSchedValidateLists` asserts, for any number of threads.
- `MaskedThreadsResume`: a thread that enters the kernel masked is resumed through the
  kind of frame it left.

All three follow from one `IInv`, whose core is `Sound(k)`: each list holds a thread once,
no two lists share one, each thread is on a list its state allows, the idle thread is
ready, and the current thread is *the last of its list* unless it is ready. The last part
is what `AA64NextThread` needs, since it goes on behind the current thread on whichever
list that was moved to: there is nobody behind it, so the walk reaches ready threads only
(`FollowingReady`, `NextIs`). The rest says that a thread on the CPU is ready unless it
is on its way out, and that masked threads are never between two halves of a switch.
Each function of `ThreadLists` has one lemma (`MoveIs`, `WakeAllIs`, `ScheduleIs`, ...), from which
the steps of `Sched` are composed as in the code. `EarliestExists` shows that the earliest
deadline exists, for any set of ready jobs.

### Proc (`ProcProofs`)

- `TypesHold`: `ProcTypeOK`.
- `WaitersAreWoken`, `DeathComesLast`, `ReapedAreUnlinked`: `WaitersWoken`,
  `DeathIsComplete`, `ReapedUnlinked`.

All four are `[]Undisturbed => ...`, where `Undisturbed` says that no thread that may be
signalled is a sub thread waiting for the end of a process. It is needed: woken by a signal
(SendSignalToThread) such a thread stays on the waitlist, may end by `ExitSubThread`, which
leaves it on the ready list (`clean.c:144`), and is made READY by the exit it no longer waits
for; TLC finds that with `Signalled = {4}`. Where only main threads are signalled, as in
`proc_core` and by SendSignal, the condition holds of every state.

The invariant is `Sound(m, w)` of a system (scheduler, processes, waitlists) and of where the
threads are, stated of records rather than of the variables because a system call goes
through many intermediate systems before it returns. Its parts: `ListsOK` (a thread is on the
list its state says; only a sub thread that ended itself is KILLABLE on the ready list),
`EndsOK` (who is marked is over; who is over and linked where it may be picked is marked; the
threads of a dead process are over, those of a reaped one linked nowhere), `CreatedOK` (a
process has its own sub threads; one not created yet does nothing), `WaitsOK` (who is blocked
for a process is on the waitlist of one that is alive; a sub thread on a waitlist is not
ready, and is on one only), and `JoinsOK` (only the main thread waits for its sub threads, the
process counts exactly these waits and is busy while there is one). The last part is why an
exit that is not refused has no joiner to forget, and `WaitsOK` why waking a waitlist
wakes nobody who is over. Main threads may be on several waitlists, ended, and be set back to READY
by an exit (`sched.c:711`); `EndsOK` shows that they are on no list from which they could be picked.

Each step is composed as in the code: a lemma for each function of the scheduler, one for each
loop over a list, then one for each part of the exit (`StopKeeps`, `WakeWaitersKeeps`,
`StopCurKeeps`, `DieKeeps`), of a sub thread's end (`MarkKeeps`, `AwakeKeeps`) and of reaping
(`CleanKeeps`, `BuryKeeps`), and at last `SwitchKeeps`, which needs that the current thread is
ready or the last of its list, as in `Sched`. Loops are the one place that needs induction:
`LoopInduction` is natural induction for a set of pass numbers, and `LoopExists` obtains the
states between the passes from a function on the finite interval, so that no theorem with an
operator parameter is used.

### GpuProxy (`GpuProofs`)

`TypeCorrect`, `FramesHavePresenters`, `BackingsAreAlive` and `NoPaintIsLost`, from
`IInv == Shape /\ Session /\ Numbers /\ FrameHasPresenter /\ PaintOwed`. `Session` ties
the server's program counter to the proxy's owner and the claim of the device;
`Numbers` gives each frame a cause, which bounds the sequence numbers; `PaintOwed` is
stronger than `NoPaintLost` while a server serves, because what the console drew and will
not report belongs to nobody after the compositor took the display. It says nothing from the
compositor's first copy on (`StartupPicture`), and is established anew by the first whole
frame in 3D, when everything is either on the screen or in the compositor's hands.

### SndRing (`SndProofs`)

`TypeCorrect`, `NothingIsEaten` and `OrderIsKept`, from `IInv == SndShape /\ Phases /\
LastAccepted /\ Heard /\ FrontTaken /\ PlayedInOrder`: what is queued (in the ring, or
carried over) is the last units accepted, in order; all before it was played or given
up; what the server took is the front of it until the tail moves. The ring's arithmetic
(counters cut to their width, positions modulo the size, which divides it) is proved
in lemmas of its own.

### What is only model-checked

- Liveness (`ServersFair` and the other fair specifications): TLAPS proves no ENABLED.
  Of the refinement `RequestsServed` that is the part that every request comes back;
  its safety part is proved, for callers that neither exit nor own endpoints.
- `DeadlinesHeld`: that the sum of the shares is the stored utilisation needs
  induction over the set of real-time threads, and that earliest deadline first meets
  all deadlines is a theorem of its own.
- `Proc`: `JoinersWoken`, which the run `proc_join` refutes, and `Proc` without the
  condition `Undisturbed` of section 4, where a thread that is over may run again.
- `PositionMatchesReturn` and `ReportedIsWritten` for a server that takes a second request
  before it answers the first; no run has such a server behind `/srv`, and fssrv is none.

## 5. Not modelled

Message bytes and their copying, user pointers and sizes (other than "does not
fit"), allocation failure where no property depends on it, the texts of the logs.
Several CPUs: the kernel runs on one. In `/srv`: two threads on one open file,
whole-file caching, and with the bound of one syscall per application the late
effect of a removal that was given up. In `SvcMgr`: the table's parser, hand-back,
test hooks, names that share their first 15 characters, more than 96 processes
(where `find_running` and `init_pid_present` see part of the list).

In `Sched`: the later part of `AuScheduleNext`'s window, after the frame is stored and
before the idle thread runs; real-time threads change their reservation once only;
the soak threads exist only in builds with `__XENEVA_SOAK__`, and are the kernel
threads that run with interrupts enabled. In `Proc`: creating, loading and forking
processes, what `AuProcessFreeKeResource` releases besides waiters, joins across
processes (the code looks only among the caller's own sub threads).

In `GpuProxy`: pixel formats, pitches, the checks of user pages; what the kernel's own
driver shows while it has the device; two servers at a time (the device claim
excludes the second, and ACQUIRE refuses it). In `SndRing`: `start` and `stop` (no
caller: the card is one of forced writes), the STATS counters, the mixer above the
card; `px.inflight` is zero whenever detach looks, because a write is one masked step.

Most of the repository is not the system's own logic: ports of other projects
(`Ports`), vendored Linux drivers, generated headers, C and C++ libraries, the x86-64
kernel that the microkernel work left behind, and applications. The other components
are listed with reasons in `PROJECT.json`.

## 6. Plan

Done: `AuIpc` with its proofs and its abstract specification, `SrvFs`, `SvcMgr`,
`ThreadLists` with `Sched` and `Proc`, `GpuProxy`, `SndRing`.

Proved: all safety properties of `AuIpc`, and the safety part of its refinement under the
condition named there; all of `GpuProxy` and `SndRing`; the four invariants of
`Proc`'s run, under `Undisturbed`; of `SvcMgr` those that section 4 names; of `SrvFs` all that the runs check, under
the conditions named there; of `Sched` all but `DeadlinesHeld`.

A run of two services for `SvcMgr` and of a signalled sub thread for `Proc`, as
refutations, are the first to add when a narrower run can go. Modules to come: `Shm` (ids, mapping counts, disjoint ranges), `NetProxy` (two rings,
detach against writers in flight), `Pipe`, with the ring arithmetic checked against a
reference; they will take the place of the narrowest runs.
