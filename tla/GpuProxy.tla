------------------------------ MODULE GpuProxy ------------------------------
(***************************************************************************)
(* The kernel's GPU proxy (KernelAA64/Fs/Dev/devgpu.c), its damage slot    *)
(* (BaseHdr/gpudamage.h), the user-space server that presents frames       *)
(* (Process/gpusrv/main.cpp), the device handle it holds (Dev/devhw.c) and *)
(* the two painters of the kernel's framebuffer: the text console and the  *)
(* compositor.                                                             *)
(*                                                                         *)
(* A painted cell travels framebuffer -> backing (TAKE) -> host resource   *)
(* (TRANSFER) -> screen (FLUSH).  The model keeps no pixels: fresh[p] is   *)
(* the set of cells whose copy at place p is what the framebuffer holds.   *)
(* Every ioctl of the proxy runs with interrupts masked on the one CPU, so *)
(* it is one step; the server's commands and the painters' two halves      *)
(* (draw, then report) interleave.                                         *)
(***************************************************************************)
EXTENDS Integers, FiniteSets, FiniteSetsExt

CONSTANTS Width, Height,   \* the framebuffer, in cells
          MaxPaints,       \* bound on the painters' drawings
          MaxFaults        \* bound on crashes, failed commands, failed copies

ASSUME GpuAssumption ==
    /\ Width \in Nat \ {0} /\ Height \in Nat \ {0}
    /\ MaxPaints \in Nat /\ MaxFaults \in Nat

VARIABLES gpu,        \* the proxy's statics (gpu_damage apart)
          damage,     \* gpu_damage
          fresh,      \* cells up to date in the backing, the resource, the screen
          painter,    \* what each painter has drawn and not yet reported
          display,    \* who owns the display: the console, then the compositor
          deo,        \* how far the compositor is, and which pipeline composes
          device,     \* who has the PCI function, and whether its DMA memory lives
          srv,        \* the gpusrv process
          paints, faults

vars == <<gpu, damage, fresh, painter, display, deo, device, srv, paints, faults>>

Painters == {"console", "compositor"}
Cell == (0 .. Width - 1) \X (0 .. Height - 1)
Box == {b \in [left : 0 .. Width - 1, top : 0 .. Height - 1,
               right : 1 .. Width, bottom : 1 .. Height] :
            b.left < b.right /\ b.top < b.bottom}
Screen == [left |-> 0, top |-> 0, right |-> Width, bottom |-> Height]
NoBox == [left |-> 0, top |-> 0, right |-> 0, bottom |-> 0]
CellsOf(b) == (b.left .. b.right - 1) \X (b.top .. b.bottom - 1)

NoFrame == [sequence |-> 0, box |-> NoBox]

(***************************************************************************)
(* gpudamage.h.  `sized` stands for the width and height of the slot: the  *)
(* screen's once a server is attached, 0 x 0 otherwise, when every         *)
(* rectangle is refused.                                                   *)
(***************************************************************************)
ZeroDamage == [sized |-> FALSE, box |-> NoBox, dirty |-> FALSE, busy |-> FALSE,
               next |-> 0, pending |-> 0]

Union(a, b) == [left   |-> Min({a.left, b.left}),   top    |-> Min({a.top, b.top}),
                right  |-> Max({a.right, b.right}), bottom |-> Max({a.bottom, b.bottom})]

\* GpuDamageAdd: one bounding box; a refused rectangle leaves the slot alone.
DamageAdd(d, b) ==
    IF ~d.sized THEN d
    ELSE [d EXCEPT !.box = IF d.dirty THEN Union(@, b) ELSE b, !.dirty = TRUE]

\* mutant: the damage handed out stays dirty
DamageTake_KeepDirty(d) == [d EXCEPT !.next = @ + 1, !.pending = d.next + 1, !.busy = TRUE]
\* GpuDamageTake: the sequence number advances, the box stays where it was.
DamageTake(d) ==
    [d EXCEPT !.next = @ + 1, !.pending = d.next + 1, !.busy = TRUE, !.dirty = FALSE]

DamageAckable(d, sequence) == d.busy /\ sequence = d.pending

\* mutant: an acknowledgement also forgets damage that came in meanwhile
DamageAck_Clears(d, sequence) ==
    IF DamageAckable(d, sequence) THEN [d EXCEPT !.busy = FALSE, !.dirty = FALSE] ELSE d
DamageAck(d, sequence) ==
    IF DamageAckable(d, sequence) THEN [d EXCEPT !.busy = FALSE] ELSE d

\* mutant: a new server is not given the whole screen
DamageReset_Empty(d) == [d EXCEPT !.busy = FALSE]
\* GpuDamageReset
DamageReset(d) == DamageAdd([d EXCEPT !.busy = FALSE], Screen)

(***************************************************************************)
(* The proxy.  gpu_ready is set and cleared together with gpu_attached;    *)
(* gpu_owner and gpu_hw_device are those of the only server, so owner says *)
(* whether they are set.                                                   *)
(***************************************************************************)
Detached == [owner |-> FALSE, attached |-> FALSE, generation |-> 0,
             submitted |-> 0, completed |-> 0]

Init ==
    /\ gpu = Detached
    /\ damage = ZeroDamage
    /\ fresh = [backing |-> {}, host |-> {}, screen |-> {}]
    /\ painter = [p \in Painters |-> NoBox]
    /\ display = "console"
    /\ deo = [pc |-> "start", mode |-> "none"]
    /\ device = [claim |-> "kernel", dma |-> FALSE]
    /\ srv = [pc |-> "off", frame |-> NoFrame]
    /\ paints = 0 /\ faults = 0

(***************************************************************************)
(* The painters.  AuPutC and its kin draw and mark rows; AuConsoleFlush-   *)
(* Mirror reports them later and drops them when the display has an owner  *)
(* by then.  The compositor copies its canvas and then sends one bounding  *)
(* box; what the ioctl answers is ignored.                                 *)
(*                                                                         *)
(* The compositor starts by copying the whole screen twice, and reports it *)
(* once, while the console still owns the display: the report is refused.  *)
(* It then sets up its 3D pipeline, takes the display token and enters its *)
(* loop.  The first frame of the 3D pipeline is the whole screen; without  *)
(* it (an allocation failed) the 2D pipeline repaints what changes, and    *)
(* nothing else, from the first frame on.                                  *)
(*                                                                         *)
(* Fault is one of the failures the code handles: a command of gpusrv that *)
(* times out or answers an error, a refused allocation, a failed copy.     *)
(***************************************************************************)
Fault == faults < MaxFaults /\ faults' = faults + 1
Works == UNCHANGED faults

Overwrite(b) == fresh' = [at \in DOMAIN fresh |-> fresh[at] \ CellsOf(b)]
Draw(p, b) == painter' = [painter EXCEPT ![p] = b] /\ Overwrite(b)
Deodhai(pc) == deo' = [deo EXCEPT !.pc = pc]

ConsolePaints(b) ==
    /\ display = "console"
    /\ painter["console"] = NoBox
    /\ paints < MaxPaints /\ paints' = paints + 1
    /\ Draw("console", b)
    /\ UNCHANGED <<gpu, damage, display, deo, device, srv, faults>>

\* AuConsoleFlushMirror and AuGpuProxyDamage
ConsoleReports ==
    /\ painter["console"] # NoBox
    /\ painter' = [painter EXCEPT !["console"] = NoBox]
    /\ damage' = IF display = "console" /\ gpu.attached
                 THEN DamageAdd(damage, painter["console"]) ELSE damage
    /\ UNCHANGED <<gpu, fresh, display, deo, device, srv, paints, faults>>

\* The first copy, followed by a SCREEN_UPDATE for a mirror in the kernel.
CompositorStarts ==
    /\ deo.pc = "start"
    /\ Deodhai("copied")
    /\ Overwrite(Screen)
    /\ UNCHANGED <<gpu, damage, painter, display, device, srv, paints, faults>>

\* The second copy, once /dev/gpusrv is open; CompositorReports comes next.
CompositorCopies ==
    /\ deo.pc = "copied"
    /\ Deodhai("drawn")
    /\ Draw("compositor", Screen)
    /\ UNCHANGED <<gpu, damage, display, device, srv, paints, faults>>

\* Deodhai3DInitialise and Deodhai3DSetEnabled
CompositorSetsUp ==
    /\ deo.pc = "drawn" /\ painter["compositor"] = NoBox
    /\ \/ Works /\ deo' = [pc |-> "ready", mode |-> "3d"]
       \/ Fault /\ deo' = [pc |-> "ready", mode |-> "2d"]
    /\ UNCHANGED <<gpu, damage, fresh, painter, display, device, srv, paints>>

\* PROCESS_TOKEN_DISPLAY: AuProcessTokenAddSelf mutes the console.
CompositorTakesDisplay ==
    /\ deo.pc = "ready"
    /\ Deodhai("owner") /\ display' = "compositor"
    /\ UNCHANGED <<gpu, damage, fresh, painter, device, srv, paints, faults>>

\* mutant: the camera is not dirty when 3D is switched on
CompositorFirstFrame_Still ==
    /\ deo.pc = "owner"
    /\ Deodhai("run")
    /\ UNCHANGED <<gpu, damage, fresh, painter, display, device, srv, paints, faults>>
CompositorFirstFrame ==
    /\ deo.pc = "owner"
    /\ Deodhai("run")
    /\ IF deo.mode = "3d" THEN Draw("compositor", Screen) ELSE UNCHANGED <<fresh, painter>>
    /\ UNCHANGED <<gpu, damage, display, device, srv, paints, faults>>

CompositorPaints(b) ==
    /\ deo.pc = "run"
    /\ painter["compositor"] = NoBox
    /\ paints < MaxPaints /\ paints' = paints + 1
    /\ Draw("compositor", b)
    /\ UNCHANGED <<gpu, damage, display, deo, device, srv, faults>>

\* GPUSRV_IOC_DAMAGE, refused unless the caller holds the display token
CompositorReports ==
    /\ painter["compositor"] # NoBox
    /\ painter' = [painter EXCEPT !["compositor"] = NoBox]
    /\ damage' = IF display = "compositor"
                 THEN DamageAdd(damage, painter["compositor"]) ELSE damage
    /\ UNCHANGED <<gpu, fresh, display, deo, device, srv, paints, faults>>

(***************************************************************************)
(* gpusrv.                                                                 *)
(***************************************************************************)
Goto(pc) == srv' = [srv EXCEPT !.pc = pc]

\* drvctl("unload virtgpu"): nothing to do when it is already out.
Start ==
    /\ srv.pc = "off"
    /\ Goto("open") /\ Works
    /\ device' = [device EXCEPT !.claim = IF @ = "kernel" THEN "none" ELSE @]
    /\ UNCHANGED <<gpu, damage, fresh, painter, display, deo, paints>>

\* HWDEV_IOC_PCI_OPEN, the device set up from reset, the backing allocated.
Open ==
    /\ srv.pc = "open"
    /\ \/ /\ device.claim = "none" /\ Works
          /\ device' = [claim |-> "server", dma |-> TRUE]
          /\ fresh' = [backing |-> {}, host |-> {}, screen |-> {}]
          /\ Goto("acquire")
       \/ /\ Fault /\ Goto("reload")               \* not claimed: no handle to close
          /\ UNCHANGED <<device, fresh>>
    /\ UNCHANGED <<gpu, damage, painter, display, deo, paints>>

\* gpu_acquire: the reply is copied out before anything is published.
Acquire ==
    /\ srv.pc = "acquire"
    /\ \/ /\ ~gpu.attached /\ Works
          /\ gpu' = [owner |-> TRUE, attached |-> TRUE, generation |-> gpu.generation + 1,
                     submitted |-> 0, completed |-> 0]
          /\ damage' = DamageReset([ZeroDamage EXCEPT !.sized = TRUE])
          /\ Goto("setup")
       \/ Fault /\ Goto("close") /\ UNCHANGED <<gpu, damage>>
    /\ UNCHANGED <<fresh, painter, display, deo, device, paints>>

\* create_resource, attach_backing, set_scanout
Setup ==
    /\ srv.pc = "setup"
    /\ (Works /\ Goto("take")) \/ (Fault /\ Goto("close"))
    /\ UNCHANGED <<gpu, damage, fresh, painter, display, deo, device, paints>>

\* gpu_take: the box is copied and the frame handed out.  An answer other than
\* OK, EMPTY and BUSY makes the server give the device back.
Take ==
    /\ srv.pc = "take"
    /\ IF ~(gpu.owner /\ gpu.attached)
       THEN Goto("close") /\ UNCHANGED <<gpu, damage, fresh>>
       ELSE /\ ~damage.busy /\ damage.dirty
            /\ damage' = DamageTake(damage)
            /\ gpu' = [gpu EXCEPT !.submitted = @ + 1]
            /\ fresh' = [fresh EXCEPT !.backing = @ \cup CellsOf(damage.box)]
            /\ srv' = [pc |-> "transfer",
                       frame |-> [sequence |-> damage'.pending, box |-> damage.box]]
    /\ Works /\ UNCHANGED <<painter, display, deo, device, paints>>

\* gpu_take fails in a copy: the slot is released and the damage put back;
\* the server does not retry but gives the device up.  The rows copied before
\* a failed copyout are as fresh as those of a frame.
TakeFails ==
    /\ srv.pc = "take"
    /\ gpu.owner /\ gpu.attached /\ ~damage.busy /\ damage.dirty
    /\ Fault
    /\ LET taken == DamageTake(damage)
       IN  damage' = DamageAdd(DamageAck(taken, taken.pending), damage.box)
    /\ \E copied \in {{}, CellsOf(damage.box)} :
           fresh' = [fresh EXCEPT !.backing = @ \cup copied]
    /\ Goto("close")
    /\ UNCHANGED <<gpu, painter, display, deo, device, paints>>

\* BUSY or EMPTY: the server sleeps a millisecond and asks again.
TakeNothing ==
    /\ srv.pc = "take" /\ gpu.owner /\ gpu.attached
    /\ damage.busy \/ ~damage.dirty
    /\ UNCHANGED vars

\* VIRTIO_GPU_CMD_TRANSFER_TO_HOST2D, then RESOURCE_FLUSH
Transfer ==
    /\ srv.pc = "transfer"
    /\ \/ /\ Works /\ Goto("flush")
          /\ fresh' = [fresh EXCEPT !.host = @ \cup (fresh.backing \cap CellsOf(srv.frame.box))]
       \/ Fault /\ Goto("close") /\ UNCHANGED fresh
    /\ UNCHANGED <<gpu, damage, painter, display, deo, device, paints>>

Flush ==
    /\ srv.pc = "flush"
    /\ \/ /\ Works /\ Goto("ack")
          /\ fresh' = [fresh EXCEPT !.screen = @ \cup (fresh.host \cap CellsOf(srv.frame.box))]
       \/ Fault /\ Goto("close") /\ UNCHANGED fresh
    /\ UNCHANGED <<gpu, damage, painter, display, deo, device, paints>>

\* GPUSRV_IOC_ACK
Ack ==
    /\ srv.pc = "ack"
    /\ LET taken == gpu.owner /\ DamageAckable(damage, srv.frame.sequence)
       IN  /\ damage' = IF taken THEN DamageAck(damage, srv.frame.sequence) ELSE damage
           /\ gpu' = IF taken THEN [gpu EXCEPT !.completed = @ + 1] ELSE gpu
           /\ srv' = [pc |-> IF taken THEN "take" ELSE "close", frame |-> NoFrame]
    /\ Works /\ UNCHANGED <<fresh, painter, display, deo, device, paints>>

\* The process dies; its exit releases its capabilities (BordoisilaCapCleanup-
\* Process) by the steps that give_back's close takes, then it is gone.
Crash ==
    /\ srv.pc \notin {"off", "reload", "close", "free", "crashed", "crashfree"}
    /\ Fault
    /\ Goto(IF srv.pc = "open" THEN "off" ELSE "crashed")
    /\ UNCHANGED <<gpu, damage, fresh, painter, display, deo, device, paints>>

(***************************************************************************)
(* AuHwdevCapReleased: the device is stopped, then the proxy detached      *)
(* (AuGpuProxyOwnerGone), then the DMA pages freed and the claim dropped.  *)
(***************************************************************************)
\* mutants: the slot survives its owner; the proxy stays attached
OwnerGone_KeepDamage ==
    /\ gpu' = [gpu EXCEPT !.owner = FALSE, !.attached = FALSE]
    /\ UNCHANGED damage
OwnerGone_StillAttached ==
    /\ gpu' = [gpu EXCEPT !.owner = FALSE]
    /\ damage' = ZeroDamage
OwnerGone ==
    /\ gpu' = IF gpu.owner
              THEN [gpu EXCEPT !.owner = FALSE, !.attached = FALSE] ELSE gpu
    /\ damage' = IF gpu.owner THEN ZeroDamage ELSE damage

Detach ==
    /\ srv.pc \in {"close", "crashed"}
    /\ OwnerGone
    /\ srv' = [pc |-> IF srv.pc = "close" THEN "free" ELSE "crashfree", frame |-> NoFrame]
    /\ Works /\ UNCHANGED <<fresh, painter, display, deo, device, paints>>

FreeHandle ==
    /\ srv.pc \in {"free", "crashfree"}
    /\ device' = [claim |-> "none", dma |-> FALSE]
    /\ Goto(IF srv.pc = "free" THEN "reload" ELSE "off")
    /\ Works /\ UNCHANGED <<gpu, damage, fresh, painter, display, deo, paints>>

\* give_back's drvctl("load virtgpu"): refused while a handle claims the
\* function (AuDriverLoad); then exit(1), and svcmgr starts the server anew.
Reload ==
    /\ srv.pc = "reload"
    /\ device' = [device EXCEPT !.claim = IF @ = "none" THEN "kernel" ELSE @]
    /\ Goto("off")
    /\ Works /\ UNCHANGED <<gpu, damage, fresh, painter, display, deo, paints>>

Serve ==
    \/ Start \/ Open \/ Acquire \/ Setup \/ Take
    \/ Transfer \/ Flush \/ Ack \/ Detach \/ FreeHandle \/ Reload

Report ==
    \/ ConsoleReports \/ CompositorReports
    \/ CompositorCopies \/ CompositorSetsUp \/ CompositorTakesDisplay \/ CompositorFirstFrame

Next ==
    \/ \E b \in Box : ConsolePaints(b) \/ CompositorPaints(b)
    \/ CompositorStarts \/ Report
    \/ Serve \/ TakeFails \/ TakeNothing \/ Crash

Spec == Init /\ [][Next]_vars

\* A painter that has drawn goes on to report, and a compositor that has started
\* goes on to its loop; gpusrv runs, and svcmgr starts
\* it again each time it ends (the faults are bounded, so it is never given up).
Fairness == WF_vars(Report) /\ WF_vars(Serve)
SpecFair == Spec /\ Fairness

-----------------------------------------------------------------------------
(***************************************************************************)
(* Properties                                                              *)
(***************************************************************************)
Sequence == 0 .. (MaxPaints + MaxFaults + 4)

\* The proxy's statics, the slot, the server and the painters keep their types.
GpuTypeOK ==
    /\ gpu \in [owner : BOOLEAN, attached : BOOLEAN, generation : 0 .. MaxFaults + 1,
                submitted : Sequence, completed : Sequence]
    /\ damage \in [sized : BOOLEAN, box : Box \cup {NoBox}, dirty : BOOLEAN,
                   busy : BOOLEAN, next : Sequence, pending : Sequence]
    /\ fresh \in [backing : SUBSET Cell, host : SUBSET Cell, screen : SUBSET Cell]
    /\ painter \in [Painters -> Box \cup {NoBox}]
    /\ display \in {"console", "compositor"}
    /\ deo \in [pc : {"start", "copied", "drawn", "ready", "owner", "run"},
               mode : {"none", "3d", "2d"}]
    /\ device \in [claim : {"kernel", "server", "none"}, dma : BOOLEAN]
    /\ srv.frame \in [sequence : Sequence, box : Box \cup {NoBox}]
    /\ paints \in 0 .. MaxPaints /\ faults \in 0 .. MaxFaults

\* The cells a painter, the slot or the frame in flight still answers for: at
\* each stage of the frame the copy that is to be shown must be up to date.
InFlight ==
    IF ~damage.busy THEN {}
    ELSE CellsOf(srv.frame.box) \cap
             (CASE srv.pc = "transfer" -> fresh.backing
                [] srv.pc = "flush"    -> fresh.host
                [] OTHER               -> {})

Accounted ==
    (IF damage.dirty THEN CellsOf(damage.box) ELSE {})
      \cup InFlight
      \cup UNION {CellsOf(painter[p]) : p \in Painters}

\* From its first copy to its first whole frame the compositor has pictures on
\* the framebuffer that nobody will present: they were reported too early, or not
\* at all.  Composing in 2D it has such pictures for good.
StartupPicture == deo.pc # "start" /\ ~(deo.pc = "run" /\ deo.mode = "3d")

\* While a server serves, and the compositor's startup picture is not in the way,
\* no painted cell is forgotten: a cell the screen does not show as painted is in
\* the pending damage, in the frame being presented with its present content, or
\* drawn and about to be reported.  Damage that comes in while a frame is in
\* flight, a report of the console dropped because the display changed hands, the
\* refused report of the compositor's start, and a server that is replaced must
\* all keep it so.
NoPaintLost ==
    srv.pc \in {"setup", "take", "transfer", "flush", "ack"} /\ ~StartupPicture
        => Cell \ fresh.screen \subseteq Accounted

\* The one frame in flight is in the hands of the server that will acknowledge
\* it, under the sequence number the slot expects: a slot left busy with nobody
\* to acknowledge it would answer BUSY for ever, and the screen would freeze.
FrameHasPresenter ==
    damage.busy => \/ /\ srv.pc \in {"transfer", "flush", "ack"}
                      /\ srv.frame.sequence = damage.pending
                   \/ srv.pc \in {"close", "crashed"}

\* The proxy copies only into DMA memory that still belongs to the server's
\* handle, whatever way the server ends (devgpu.c:374).
BackingAlive == gpu.attached => device.dma /\ device.claim = "server"

\* Whatever is painted is shown in the end, though servers crash, commands time
\* out, the device is given back and claimed again meanwhile, and the compositor's
\* first report is refused: its first 3D frame makes up for that, however long it
\* takes to come.  A compositor that has to compose in 2D is bound only to what it
\* repaints in its loop: its startup picture may never be shown.
ScreenCatchesUp ==
    \A c \in Cell :
        /\ (c \notin fresh.screen) ~> (c \in fresh.screen \/ deo.mode = "2d")
        /\ (deo.pc = "run" /\ c \in CellsOf(painter["compositor"])) ~> (c \in fresh.screen)
=============================================================================
