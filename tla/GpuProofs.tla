----------------------------- MODULE GpuProofs -----------------------------
(***************************************************************************)
(* Theorems about GpuProxy, for every size of the framebuffer and every    *)
(* number of drawings and failures.                                        *)
(***************************************************************************)
EXTENDS GpuProxy, TLAPS

-----------------------------------------------------------------------------
(***************************************************************************)
(* The rectangles of gpudamage.h.                                          *)
(***************************************************************************)
AnyBox == Box \cup {NoBox}
Slot == [sized : BOOLEAN, box : AnyBox, dirty : BOOLEAN, busy : BOOLEAN,
         next : Nat, pending : Nat]

Lo(x, y) == Min({x, y})
Hi(x, y) == Max({x, y})

\* Of two numbers, Min picks one that is no greater than either, Max one that
\* is no less: the corners GpuDamageAdd compares.
LEMMA Corners ==
    ASSUME NEW x \in Int, NEW y \in Int
    PROVE  /\ Lo(x, y) \in {x, y} /\ Lo(x, y) <= x /\ Lo(x, y) <= y
           /\ Hi(x, y) \in {x, y} /\ Hi(x, y) >= x /\ Hi(x, y) >= y
<1>1. \E z \in {x, y} : \A w \in {x, y} : z <= w
  <2>1. CASE x <= y
    BY <2>1
  <2>2. CASE y <= x
    BY <2>2
  <2> QED
    BY <2>1, <2>2
<1>2. \E z \in {x, y} : \A w \in {x, y} : z >= w
  <2>1. CASE x <= y
    BY <2>1
  <2>2. CASE y <= x
    BY <2>2
  <2> QED
    BY <2>1, <2>2
<1>3. Lo(x, y) \in {x, y} /\ \A w \in {x, y} : Lo(x, y) <= w
  BY <1>1 DEF Lo, Min
<1>4. Hi(x, y) \in {x, y} /\ \A w \in {x, y} : Hi(x, y) >= w
  BY <1>2 DEF Hi, Max
<1> QED
  BY <1>3, <1>4

\* The bounding box of a rectangle and another is a rectangle of the screen and
\* covers both (GpuDamageAdd on a dirty slot).
LEMMA UnionCovers ==
    ASSUME NEW a \in AnyBox, NEW b \in Box
    PROVE  Union(a, b) \in Box /\ CellsOf(a) \cup CellsOf(b) \subseteq CellsOf(Union(a, b))
<1> DEFINE l == Lo(a.left, b.left)   t == Lo(a.top, b.top)
           r == Hi(a.right, b.right) m == Hi(a.bottom, b.bottom)
<1>1. /\ a.left \in 0 .. Width - 1 /\ a.top \in 0 .. Height - 1
      /\ a.right \in 0 .. Width /\ a.bottom \in 0 .. Height
      /\ b.left \in 0 .. Width - 1 /\ b.top \in 0 .. Height - 1
      /\ b.right \in 1 .. Width /\ b.bottom \in 1 .. Height
      /\ b.left < b.right /\ b.top < b.bottom
  BY GpuAssumption DEF AnyBox, Box, NoBox
<1>2. /\ l \in {a.left, b.left} /\ l <= a.left /\ l <= b.left
      /\ t \in {a.top, b.top} /\ t <= a.top /\ t <= b.top
      /\ r \in {a.right, b.right} /\ r >= a.right /\ r >= b.right
      /\ m \in {a.bottom, b.bottom} /\ m >= a.bottom /\ m >= b.bottom
  <2>1. l \in {a.left, b.left} /\ l <= a.left /\ l <= b.left
    BY <1>1, Corners
  <2>2. t \in {a.top, b.top} /\ t <= a.top /\ t <= b.top
    BY <1>1, Corners
  <2>3. r \in {a.right, b.right} /\ r >= a.right /\ r >= b.right
    BY <1>1, Corners
  <2>4. m \in {a.bottom, b.bottom} /\ m >= a.bottom /\ m >= b.bottom
    BY <1>1, Corners
  <2> QED
    BY <2>1, <2>2, <2>3, <2>4
<1>3. Union(a, b) = [left |-> l, top |-> t, right |-> r, bottom |-> m]
  BY DEF Union, Lo, Hi
<1> HIDE DEF l, t, r, m
<1>4. /\ l \in 0 .. Width - 1 /\ t \in 0 .. Height - 1
      /\ r \in 1 .. Width /\ m \in 1 .. Height
      /\ l < r /\ t < m
  BY <1>1, <1>2, GpuAssumption
<1>5. Union(a, b) \in Box
  BY <1>3, <1>4 DEF Box
<1>6. ASSUME NEW c \in CellsOf(a) \cup CellsOf(b)
      PROVE  c \in CellsOf(Union(a, b))
  <2>1. PICK x \in Int, y \in Int : /\ c = <<x, y>>
                                    /\ \/ /\ a.left <= x /\ x < a.right
                                          /\ a.top <= y /\ y < a.bottom
                                       \/ /\ b.left <= x /\ x < b.right
                                          /\ b.top <= y /\ y < b.bottom
    BY <1>1, <1>6 DEF CellsOf
  <2>2. l <= x /\ x <= r - 1 /\ t <= y /\ y <= m - 1
    BY <1>1, <1>2, <1>4, <2>1
  <2> QED
    BY <1>3, <1>4, <2>1, <2>2 DEF CellsOf
<1> QED
  BY <1>5, <1>6

\* The screen is a rectangle that covers every cell; the empty one covers none.
LEMMA ScreenIsWhole ==
    Screen \in Box /\ CellsOf(Screen) = Cell /\ CellsOf(NoBox) = {} /\ NoBox \notin Box
  BY GpuAssumption DEF Screen, Box, CellsOf, Cell, NoBox

\* GpuDamageAdd keeps the slot's sequence numbers, forgets nothing it held and
\* covers what it is given, provided that the slot has its size.
LEMMA AddCovers ==
    ASSUME NEW d \in Slot, NEW b \in Box
    PROVE  /\ DamageAdd(d, b) \in Slot
           /\ DamageAdd(d, b).next = d.next /\ DamageAdd(d, b).pending = d.pending
           /\ DamageAdd(d, b).busy = d.busy /\ DamageAdd(d, b).sized = d.sized
           /\ DamageAdd(d, b).dirty = (d.dirty \/ d.sized)
           /\ d.dirty => CellsOf(d.box) \subseteq CellsOf(DamageAdd(d, b).box)
           /\ d.sized => CellsOf(b) \subseteq CellsOf(DamageAdd(d, b).box)
<1>1. CASE ~d.sized
  BY <1>1 DEF DamageAdd, Slot
<1>2. CASE d.sized /\ ~d.dirty
  <2>1. DamageAdd(d, b) = [d EXCEPT !.box = b, !.dirty = TRUE]
    BY <1>2 DEF DamageAdd, Slot
  <2> QED
    BY <1>2, <2>1 DEF Slot, AnyBox
<1>3. CASE d.sized /\ d.dirty
  <2>1. DamageAdd(d, b) = [d EXCEPT !.box = Union(d.box, b), !.dirty = TRUE]
    BY <1>3 DEF DamageAdd, Slot
  <2>2. Union(d.box, b) \in Box
        /\ CellsOf(d.box) \cup CellsOf(b) \subseteq CellsOf(Union(d.box, b))
    BY UnionCovers DEF Slot
  <2> QED
    BY <1>3, <2>1, <2>2 DEF Slot, AnyBox
<1> QED
  BY <1>1, <1>2, <1>3 DEF Slot

\* A rectangle lies on the screen.
LEMMA CellsInside == ASSUME NEW b \in AnyBox PROVE CellsOf(b) \in SUBSET Cell
<1>1. CASE b = NoBox
  BY <1>1, ScreenIsWhole
<1>2. CASE b \in Box
  <2>1. /\ b.left \in 0 .. Width - 1 /\ b.top \in 0 .. Height - 1
        /\ b.right \in 1 .. Width /\ b.bottom \in 1 .. Height
    BY <1>2 DEF Box
  <2>2. b.left .. b.right - 1 \subseteq 0 .. Width - 1
    BY <2>1, GpuAssumption
  <2>3. b.top .. b.bottom - 1 \subseteq 0 .. Height - 1
    BY <2>1, GpuAssumption
  <2> QED
    BY <2>2, <2>3 DEF CellsOf, Cell
<1> QED
  BY <1>1, <1>2 DEF AnyBox

\* GpuDamageTake hands out the pending damage under the next number.
LEMMA TakeFields ==
    ASSUME NEW d \in Slot
    PROVE  LET taken == DamageTake(d)
           IN  /\ taken \in Slot /\ taken.sized = d.sized /\ taken.box = d.box
               /\ ~taken.dirty /\ taken.busy
               /\ taken.next = d.next + 1 /\ taken.pending = d.next + 1
<1>1. d.next + 1 \in Nat
  BY DEF Slot
<1> QED
  BY <1>1 DEF Slot, DamageTake

\* GpuDamageAck releases the slot and leaves the pending damage alone.
LEMMA AckFields ==
    ASSUME NEW d \in Slot, NEW sequence, DamageAckable(d, sequence)
    PROVE  LET acked == DamageAck(d, sequence)
           IN  /\ acked \in Slot /\ acked.sized = d.sized /\ acked.box = d.box
               /\ acked.dirty = d.dirty /\ ~acked.busy
               /\ acked.next = d.next /\ acked.pending = d.pending
  BY DEF Slot, DamageAck

\* A take that fails in a copy uses up a number and leaves the damage pending
\* (gpu_take's way out through the acknowledgement and GpuDamageAdd).
LEMMA TakeBackFields ==
    ASSUME NEW d \in Slot, d.sized
    PROVE  LET left == DamageAdd(DamageAck(DamageTake(d), DamageTake(d).pending), d.box)
           IN  /\ left \in Slot /\ left.sized /\ left.box = d.box /\ left.dirty /\ ~left.busy
               /\ left.next = d.next + 1 /\ left.pending = d.next + 1
<1> DEFINE taken == DamageTake(d)
           acked == DamageAck(taken, taken.pending)
           left  == DamageAdd(acked, d.box)
<1>1. /\ taken \in Slot /\ taken.sized /\ taken.box = d.box /\ ~taken.dirty /\ taken.busy
      /\ taken.next = d.next + 1 /\ taken.pending = d.next + 1
  BY TakeFields
<1> HIDE DEF taken
<1>2. DamageAckable(taken, taken.pending)
  BY <1>1 DEF DamageAckable
<1>3. /\ acked \in Slot /\ acked.sized /\ acked.box = d.box /\ ~acked.dirty /\ ~acked.busy
      /\ acked.next = d.next + 1 /\ acked.pending = d.next + 1
  BY <1>1, <1>2, AckFields
<1> HIDE DEF acked
<1>4. left = [acked EXCEPT !.box = d.box, !.dirty = TRUE]
  BY <1>3 DEF DamageAdd
<1>5. d.box \in AnyBox
  BY DEF Slot
<1>6. /\ left \in Slot /\ left.sized /\ left.box = d.box /\ left.dirty /\ ~left.busy
      /\ left.next = d.next + 1 /\ left.pending = d.next + 1
  BY <1>3, <1>4, <1>5 DEF Slot
<1> QED
  BY <1>6 DEF taken, acked

\* GpuDamageReset of a slot that has just been given its size
LEMMA ResetFields ==
    DamageReset([ZeroDamage EXCEPT !.sized = TRUE])
        = [sized |-> TRUE, box |-> Screen, dirty |-> TRUE, busy |-> FALSE,
           next |-> 0, pending |-> 0]
  BY DEF DamageReset, ZeroDamage, DamageAdd

-----------------------------------------------------------------------------
(***************************************************************************)
(* The inductive invariant.  GpuTypeOK is not inductive: its bounds on the *)
(* sequence numbers hold because each frame uses up a drawing, a failure,  *)
(* the compositor's first frame or the whole screen of a new server.       *)
(***************************************************************************)
Pc == {"off", "open", "acquire", "setup", "take", "transfer", "flush", "ack",
       "close", "crashed", "free", "crashfree", "reload"}
Serving == srv.pc \in {"setup", "take", "transfer", "flush", "ack"}
Ending == srv.pc \in {"close", "crashed"}

\* GpuTypeOK without the bounds, and the server's program counter
Shape ==
    /\ gpu \in [owner : BOOLEAN, attached : BOOLEAN, generation : Nat,
                submitted : Nat, completed : Nat]
    /\ damage \in Slot
    /\ fresh \in [backing : SUBSET Cell, host : SUBSET Cell, screen : SUBSET Cell]
    /\ painter \in [Painters -> AnyBox]
    /\ display \in {"console", "compositor"}
    /\ deo \in [pc : {"start", "copied", "drawn", "ready", "owner", "run"},
               mode : {"none", "3d", "2d"}]
    /\ device \in [claim : {"kernel", "server", "none"}, dma : BOOLEAN]
    /\ srv \in [pc : Pc, frame : [sequence : Nat, box : AnyBox]]
    /\ paints \in 0 .. MaxPaints /\ faults \in 0 .. MaxFaults

\* The proxy is attached to the server that serves or is ending, which holds the
\* device; the slot has a size, and perhaps a frame out, only then.
Session ==
    /\ gpu.attached = gpu.owner /\ damage.sized = gpu.attached
    /\ Serving => gpu.attached
    /\ gpu.attached => Serving \/ Ending
    /\ damage.busy \/ damage.dirty => gpu.attached
    /\ srv.pc \in {"transfer", "flush", "ack"} => damage.busy
    /\ srv.pc = "acquire" \/ Serving \/ Ending
           => device = [claim |-> "server", dma |-> TRUE]

One(b) == IF b THEN 1 ELSE 0
Drawn == One(painter["console"] # NoBox)
            + One(painter["compositor"] # NoBox /\ display = "compositor")
Causes == paints + One(deo.pc = "run") + faults

\* Damage that is pending or about to be reported, and every frame taken since
\* the server attached, has a cause of its own.  The compositor has the display
\* from its token on, and by then its first report was refused.
Numbers ==
    /\ display = "compositor" <=> deo.pc \in {"owner", "run"}
    /\ deo.pc \notin {"drawn", "run"} => painter["compositor"] = NoBox
    /\ Drawn <= Causes - faults
    /\ damage.next + One(damage.dirty) + Drawn <= 1 + Causes
    /\ damage.pending <= damage.next
    /\ srv.frame.sequence <= 1 + Causes
    /\ gpu.submitted <= 1 + Causes
    /\ gpu.attached => gpu.submitted <= damage.next
    /\ gpu.completed + One(damage.busy) <= gpu.submitted
    /\ gpu.generation <= faults + One(Serving)

\* Accounted without what the console drew and will not report, since the
\* compositor has the display by then.
Owed ==
    (IF damage.dirty THEN CellsOf(damage.box) ELSE {})
      \cup InFlight
      \cup CellsOf(painter["compositor"])
      \cup (IF display = "console" THEN CellsOf(painter["console"]) ELSE {})
PaintOwed == Serving /\ ~StartupPicture => Cell \ fresh.screen \subseteq Owed

IInv == Shape /\ Session /\ Numbers /\ FrameHasPresenter /\ PaintOwed

\* Nobody has the display yet, and nothing is painted.
LEMMA InitIInv == Init => IInv
<1> SUFFICES ASSUME Init PROVE IInv
  OBVIOUS
<1> USE DEF Init
<1>1. Shape
  BY GpuAssumption DEF Shape, Detached, ZeroDamage, Slot, AnyBox, Pc, NoFrame
<1>2. Session
  BY DEF Session, Serving, Ending, Detached, ZeroDamage
<1>3. Numbers
  BY DEF Numbers, Drawn, Causes, One, Serving, Detached, ZeroDamage, NoFrame, Painters
<1>4. FrameHasPresenter
  BY DEF FrameHasPresenter, ZeroDamage
<1>5. PaintOwed
  BY DEF PaintOwed, Serving
<1> QED
  BY <1>1, <1>2, <1>3, <1>4, <1>5 DEF IInv

\* A painter that draws takes its cells out of every fresh copy.
LEMMA DrawShape ==
    ASSUME NEW p \in Painters, NEW b \in Box, Shape, Draw(p, b)
    PROVE  /\ painter' \in [Painters -> AnyBox]
           /\ painter'[p] = b /\ \A q \in Painters \ {p} : painter'[q] = painter[q]
           /\ fresh' \in [backing : SUBSET Cell, host : SUBSET Cell, screen : SUBSET Cell]
           /\ fresh'.backing = fresh.backing \ CellsOf(b)
           /\ fresh'.host = fresh.host \ CellsOf(b)
           /\ fresh'.screen = fresh.screen \ CellsOf(b)
<1>1. fresh' = [backing |-> fresh.backing \ CellsOf(b), host |-> fresh.host \ CellsOf(b),
                screen |-> fresh.screen \ CellsOf(b)]
  BY DEF Draw, Overwrite, Shape
<1>2. painter' = [painter EXCEPT ![p] = b]
  BY DEF Draw
<1> QED
  BY <1>1, <1>2 DEF Shape, AnyBox

\* The types that the actions of the painters, the server and the kernel keep.
LEMMA ShapeStep == ASSUME Shape, Session, [Next]_vars PROVE Shape'
<1>1. ASSUME NEW b \in Box, ConsolePaints(b) PROVE Shape'
  <2>1. Draw("console", b) /\ "console" \in Painters
    BY <1>1 DEF ConsolePaints, Painters
  <2> QED
    BY <1>1, <2>1, DrawShape, GpuAssumption DEF ConsolePaints, Shape
<1>2. ASSUME NEW b \in Box, CompositorPaints(b) PROVE Shape'
  <2>1. Draw("compositor", b) /\ "compositor" \in Painters
    BY <1>2 DEF CompositorPaints, Painters
  <2> QED
    BY <1>2, <2>1, DrawShape, GpuAssumption DEF CompositorPaints, Shape
<1>3. CASE CompositorStarts \/ CompositorCopies \/ CompositorSetsUp \/ CompositorTakesDisplay
  <2>1. CASE CompositorStarts
    BY <2>1 DEF CompositorStarts, Deodhai, Overwrite, Shape
  <2>2. CASE CompositorCopies
    <3>1. Draw("compositor", Screen) /\ "compositor" \in Painters
      BY <2>2 DEF CompositorCopies, Painters
    <3> QED
      BY <2>2, <3>1, DrawShape, ScreenIsWhole DEF CompositorCopies, Deodhai, Shape
  <2>3. CASE CompositorSetsUp
    BY <2>3, GpuAssumption DEF CompositorSetsUp, Fault, Works, Shape
  <2>4. CASE CompositorTakesDisplay
    BY <2>4 DEF CompositorTakesDisplay, Deodhai, Shape
  <2> QED
    BY <1>3, <2>1, <2>2, <2>3, <2>4
<1>4. CASE ConsoleReports
  <2>1. painter["console"] \in Box
    BY <1>4 DEF ConsoleReports, Shape, AnyBox, Painters
  <2> QED
    BY <1>4, <2>1, AddCovers DEF ConsoleReports, Shape, AnyBox
<1>5. CASE CompositorFirstFrame
  <2>1. CASE Draw("compositor", Screen)
    <3>1. "compositor" \in Painters
      BY DEF Painters
    <3> QED
      BY <1>5, <2>1, <3>1, DrawShape, ScreenIsWhole DEF CompositorFirstFrame, Deodhai, Shape
  <2>2. CASE UNCHANGED <<fresh, painter>>
    BY <1>5, <2>2 DEF CompositorFirstFrame, Deodhai, Shape
  <2> QED
    BY <1>5, <2>1, <2>2 DEF CompositorFirstFrame
<1>6. CASE CompositorReports
  <2>1. painter["compositor"] \in Box
    BY <1>6 DEF CompositorReports, Shape, AnyBox, Painters
  <2> QED
    BY <1>6, <2>1, AddCovers DEF CompositorReports, Shape, AnyBox
<1>7. CASE Start
  BY <1>7 DEF Start, Goto, Works, Shape, Pc
<1>8. CASE Open
  <2>1. CASE Goto("acquire")
    <3>1. srv' \in [pc : Pc, frame : [sequence : Nat, box : AnyBox]]
      BY <2>1 DEF Goto, Shape, Pc
    <3>2. fresh' \in [backing : SUBSET Cell, host : SUBSET Cell, screen : SUBSET Cell]
      BY <1>8 DEF Open, Shape
    <3>3. device' \in [claim : {"kernel", "server", "none"}, dma : BOOLEAN]
      <4>1. CASE device' = [claim |-> "server", dma |-> TRUE]
        BY <4>1
      <4>2. CASE device' = device
        BY <4>2 DEF Shape
      <4> QED
        BY <1>8, <4>1, <4>2 DEF Open
    <3>4. faults' \in 0 .. MaxFaults
      BY <1>8, GpuAssumption DEF Open, Works, Fault, Shape
    <3> QED
      BY <1>8, <3>1, <3>2, <3>3, <3>4 DEF Open, Shape
  <2>2. CASE Fault /\ Goto("reload")
    BY <1>8, <2>2, GpuAssumption DEF Open, Goto, Works, Fault, Shape, Pc
  <2> QED
    BY <1>8, <2>1, <2>2 DEF Open
<1>9. CASE Acquire
  <2>1. [sized |-> TRUE, box |-> Screen, dirty |-> TRUE, busy |-> FALSE,
         next |-> 0, pending |-> 0] \in Slot
    BY ScreenIsWhole DEF Slot, AnyBox
  <2>2. damage' \in Slot
    BY <1>9, <2>1, ResetFields DEF Acquire, Shape
  <2>3. gpu' \in [owner : BOOLEAN, attached : BOOLEAN, generation : Nat,
                  submitted : Nat, completed : Nat]
    <3>1. gpu.generation + 1 \in Nat
      BY DEF Shape
    <3>2. CASE gpu' = [owner |-> TRUE, attached |-> TRUE, generation |-> gpu.generation + 1,
                       submitted |-> 0, completed |-> 0]
      BY <3>1, <3>2
    <3>3. CASE gpu' = gpu
      BY <3>3 DEF Shape
    <3> QED
      BY <1>9, <3>2, <3>3 DEF Acquire
  <2>4. srv' \in [pc : Pc, frame : [sequence : Nat, box : AnyBox]] /\ faults' \in 0 .. MaxFaults
    BY <1>9, GpuAssumption DEF Acquire, Goto, Works, Fault, Shape, Pc
  <2> QED
    BY <1>9, <2>2, <2>3, <2>4 DEF Acquire, Shape
<1>10. CASE Setup
  BY <1>10, GpuAssumption DEF Setup, Goto, Works, Fault, Shape, Pc
<1>11. CASE Take
  <2>1. CellsOf(damage.box) \in SUBSET Cell
    BY CellsInside DEF Shape, Slot
  <2>2. DamageTake(damage) \in Slot
    BY TakeFields DEF Shape
  <2>3. gpu.submitted + 1 \in Nat
    BY DEF Shape
  <2>4. gpu' \in [owner : BOOLEAN, attached : BOOLEAN, generation : Nat,
                  submitted : Nat, completed : Nat]
    BY <1>11, <2>3 DEF Take, Shape
  <2>5. damage' \in Slot /\ damage.box \in AnyBox
    BY <1>11, <2>2 DEF Take, Shape, Slot
  <2>6. srv' \in [pc : Pc, frame : [sequence : Nat, box : AnyBox]]
    <3>1. CASE Goto("close")
      BY <3>1 DEF Goto, Shape, Pc
    <3>2. CASE srv' = [pc |-> "transfer", frame |-> [sequence |-> damage'.pending, box |-> damage.box]]
      BY <3>2, <2>5 DEF Slot, Pc
    <3> QED
      BY <1>11, <3>1, <3>2 DEF Take
  <2>7. fresh' \in [backing : SUBSET Cell, host : SUBSET Cell, screen : SUBSET Cell]
    BY <1>11, <2>1 DEF Take, Shape
  <2> QED
    BY <1>11, <2>4, <2>5, <2>6, <2>7 DEF Take, Works, Shape
<1>12. CASE TakeFails
  <2>1. CellsOf(damage.box) \in SUBSET Cell
    BY CellsInside DEF Shape, Slot
  <2>2. DamageAdd(DamageAck(DamageTake(damage), DamageTake(damage).pending), damage.box) \in Slot
    BY <1>12, TakeBackFields DEF TakeFails, Session, Shape
  <2> QED
    BY <1>12, <2>1, <2>2, GpuAssumption DEF TakeFails, Goto, Fault, Shape, Pc
<1>13. CASE TakeNothing
  BY <1>13 DEF TakeNothing, vars, Shape
<1>14. CASE Transfer
  BY <1>14, GpuAssumption DEF Transfer, Goto, Works, Fault, Shape, Pc
<1>15. CASE Flush
  BY <1>15, GpuAssumption DEF Flush, Goto, Works, Fault, Shape, Pc
<1>16. CASE Ack
  <2>1. DamageAck(damage, srv.frame.sequence) \in Slot
    BY DEF Shape, Slot, DamageAck
  <2> QED
    BY <1>16, <2>1 DEF Ack, Works, Shape, Pc, NoFrame, AnyBox
<1>17. CASE Crash
  BY <1>17, GpuAssumption DEF Crash, Goto, Fault, Shape, Pc
<1>18. CASE Detach
  <2>1. ZeroDamage \in Slot
    BY DEF ZeroDamage, Slot, AnyBox
  <2> QED
    BY <1>18, <2>1 DEF Detach, OwnerGone, Works, Shape, Pc, NoFrame, AnyBox
<1>19. CASE FreeHandle
  BY <1>19 DEF FreeHandle, Goto, Works, Shape, Pc
<1>20. CASE Reload
  BY <1>20 DEF Reload, Goto, Works, Shape, Pc
<1>21. CASE UNCHANGED vars
  BY <1>21 DEF vars, Shape
<1> QED
  BY <1>1, <1>2, <1>3, <1>4, <1>5, <1>6, <1>7, <1>8, <1>9, <1>10, <1>11, <1>12, <1>13,
     <1>14, <1>15, <1>16, <1>17, <1>18, <1>19, <1>20, <1>21 DEF Next, Report, Serve

\* A server that acquires the proxy attaches it to the handle it opened; it is
\* detached before the handle's memory is freed, whatever way the server ends.
LEMMA SessionStep ==
    ASSUME Shape, Session, FrameHasPresenter, [Next]_vars PROVE Session'
<1> USE DEF Session, Serving, Ending
<1>1. ASSUME NEW b \in Box, ConsolePaints(b) \/ CompositorPaints(b) PROVE Session'
  BY <1>1 DEF ConsolePaints, CompositorPaints
<1>2. CASE \/ CompositorStarts \/ CompositorCopies \/ CompositorSetsUp
           \/ CompositorTakesDisplay \/ CompositorFirstFrame
  BY <1>2 DEF CompositorStarts, CompositorCopies, CompositorSetsUp, Fault, Works,
             CompositorTakesDisplay, CompositorFirstFrame
<1>3. CASE ConsoleReports
  <2>1. painter["console"] \in Box
    BY <1>3 DEF ConsoleReports, Shape, AnyBox, Painters
  <2> QED
    BY <1>3, <2>1, AddCovers DEF ConsoleReports, Shape
<1>4. CASE CompositorReports
  <2>1. painter["compositor"] \in Box
    BY <1>4 DEF CompositorReports, Shape, AnyBox, Painters
  <2> QED
    BY <1>4, <2>1, AddCovers DEF CompositorReports, Shape
<1>5. CASE Start
  BY <1>5 DEF Start, Goto, Shape
<1>6. CASE Open
  BY <1>6 DEF Open, Goto, Shape
<1>7. CASE Acquire
  <2>1. CASE Fault /\ Goto("close") /\ UNCHANGED <<gpu, damage>>
    BY <1>7, <2>1 DEF Acquire, Goto, Shape
  <2>2. CASE /\ gpu'.owner /\ gpu'.attached /\ damage'.sized /\ Goto("setup")
    BY <1>7, <2>2 DEF Acquire, Goto, Shape
  <2> QED
    BY <1>7, <2>1, <2>2, ResetFields DEF Acquire
<1>8. CASE Setup
  BY <1>8 DEF Setup, Goto, Shape
<1>9. CASE Take
  BY <1>9, TakeFields DEF Take, Goto, Shape
<1>10. CASE TakeFails
  BY <1>10, TakeBackFields DEF TakeFails, Goto, Shape
<1>11. CASE TakeNothing \/ UNCHANGED vars
  BY <1>11 DEF TakeNothing, vars
<1>12. CASE Transfer
  BY <1>12 DEF Transfer, Goto, Shape
<1>13. CASE Flush
  BY <1>13 DEF Flush, Goto, Shape
<1>14. CASE Ack
  BY <1>14, AckFields DEF Ack, Shape
<1>15. CASE Crash
  BY <1>15 DEF Crash, Goto, Shape, Pc
<1>16. CASE Detach
  BY <1>16 DEF Detach, OwnerGone, ZeroDamage, Shape
<1>17. CASE FreeHandle
  BY <1>17 DEF FreeHandle, Goto, Shape
<1>18. CASE Reload
  BY <1>18 DEF Reload, Goto, Shape
<1> QED
  BY <1>1, <1>2, <1>3, <1>4, <1>5, <1>6, <1>7, <1>8, <1>9, <1>10, <1>11, <1>12, <1>13,
     <1>14, <1>15, <1>16, <1>17, <1>18 DEF Next, Report, Serve

\* Only the server that holds the frame in flight goes on while the slot is busy.
LEMMA PresenterStep ==
    ASSUME Shape, Session, FrameHasPresenter, [Next]_vars PROVE FrameHasPresenter'
<1> USE DEF FrameHasPresenter
<1>1. ASSUME NEW b \in Box, ConsolePaints(b) \/ CompositorPaints(b) PROVE FrameHasPresenter'
  BY <1>1 DEF ConsolePaints, CompositorPaints
<1>2. CASE \/ CompositorStarts \/ CompositorCopies \/ CompositorSetsUp
           \/ CompositorTakesDisplay \/ CompositorFirstFrame
  BY <1>2 DEF CompositorStarts, CompositorCopies, CompositorSetsUp, Fault, Works,
             CompositorTakesDisplay, CompositorFirstFrame
<1>3. CASE ConsoleReports
  <2>1. painter["console"] \in Box
    BY <1>3 DEF ConsoleReports, Shape, AnyBox, Painters
  <2> QED
    BY <1>3, <2>1, AddCovers DEF ConsoleReports, Shape
<1>4. CASE CompositorReports
  <2>1. painter["compositor"] \in Box
    BY <1>4 DEF CompositorReports, Shape, AnyBox, Painters
  <2> QED
    BY <1>4, <2>1, AddCovers DEF CompositorReports, Shape
<1>5. CASE Start
  BY <1>5 DEF Start, Goto, Shape
<1>6. CASE Open
  BY <1>6 DEF Open, Goto, Shape
<1>7. CASE Acquire
  BY <1>7, ResetFields DEF Acquire, Goto, Shape
<1>8. CASE Setup
  BY <1>8 DEF Setup, Goto, Shape
<1>9. CASE Take
  <2>1. CASE ~(gpu.owner /\ gpu.attached)
    BY <1>9, <2>1 DEF Take, Goto, Shape
  <2>2. CASE gpu.owner /\ gpu.attached
    <3>1. srv'.pc = "transfer" /\ srv'.frame.sequence = damage'.pending
      BY <1>9, <2>2 DEF Take
    <3> QED
      BY <3>1
  <2> QED
    BY <2>1, <2>2
<1>10. CASE TakeFails
  BY <1>10, TakeBackFields DEF TakeFails, Goto, Shape, Session
<1>11. CASE TakeNothing \/ UNCHANGED vars
  BY <1>11 DEF TakeNothing, vars
<1>12. CASE Transfer
  BY <1>12 DEF Transfer, Goto, Shape
<1>13. CASE Flush
  BY <1>13 DEF Flush, Goto, Shape
<1>14. CASE Ack
  BY <1>14, AckFields DEF Ack, Shape
<1>15. CASE Crash
  BY <1>15 DEF Crash, Goto, Shape, Pc
<1>16. CASE Detach
  BY <1>16 DEF Detach, OwnerGone, ZeroDamage, Shape, Session
<1>17. CASE FreeHandle
  BY <1>17 DEF FreeHandle, Goto, Shape
<1>18. CASE Reload
  BY <1>18 DEF Reload, Goto, Shape
<1> QED
  BY <1>1, <1>2, <1>3, <1>4, <1>5, <1>6, <1>7, <1>8, <1>9, <1>10, <1>11, <1>12, <1>13,
     <1>14, <1>15, <1>16, <1>17, <1>18 DEF Next, Report, Serve

\* Each frame, and each drawing waiting to be reported, has used up a cause.
LEMMA NumbersStep ==
    ASSUME Shape, Session, FrameHasPresenter, Numbers, [Next]_vars PROVE Numbers'
<1> USE DEF Numbers, Drawn, Causes, Serving
<1>0. /\ \A x : One(x) \in {0, 1}
      /\ paints \in Nat /\ faults \in Nat
      /\ damage.next \in Nat /\ damage.pending \in Nat
      /\ gpu.generation \in Nat /\ gpu.submitted \in Nat /\ gpu.completed \in Nat
      /\ srv.frame.sequence \in Nat
  BY GpuAssumption DEF One, Shape, Slot
<1>1. ASSUME NEW b \in Box, ConsolePaints(b) PROVE Numbers'
  <2>1. Draw("console", b) /\ "console" \in Painters /\ "compositor" \in Painters
    BY <1>1 DEF ConsolePaints, Painters
  <2>2. painter'["console"] # NoBox /\ painter'["compositor"] = painter["compositor"]
    BY <2>1, DrawShape, ScreenIsWhole DEF Painters
  <2> QED
    BY <1>0, <1>1, <2>2 DEF ConsolePaints, One
<1>2. ASSUME NEW b \in Box, CompositorPaints(b) PROVE Numbers'
  <2>1. Draw("compositor", b) /\ "console" \in Painters /\ "compositor" \in Painters
    BY <1>2 DEF CompositorPaints, Painters
  <2>2. painter'["compositor"] # NoBox /\ painter'["console"] = painter["console"]
    BY <2>1, DrawShape, ScreenIsWhole DEF Painters
  <2> QED
    BY <1>0, <1>2, <2>2 DEF CompositorPaints, One
<1>3. CASE CompositorStarts \/ CompositorCopies \/ CompositorSetsUp \/ CompositorTakesDisplay
  <2>1. CASE CompositorStarts
    BY <1>0, <2>1 DEF CompositorStarts, Deodhai, Shape, One
  <2>2. CASE CompositorCopies
    <3>1. Draw("compositor", Screen) /\ "console" \in Painters /\ "compositor" \in Painters
      BY <2>2 DEF CompositorCopies, Painters
    <3>2. painter'["console"] = painter["console"]
      BY <3>1, DrawShape, ScreenIsWhole DEF Painters
    <3>3. deo.pc = "copied" /\ deo'.pc = "drawn"
      BY <2>2 DEF CompositorCopies, Deodhai, Shape
    <3> QED
      BY <1>0, <2>2, <3>2, <3>3 DEF CompositorCopies, One
  <2>3. CASE CompositorSetsUp
    <3>1. deo.pc = "drawn" /\ deo'.pc = "ready" /\ painter["compositor"] = NoBox
      BY <2>3 DEF CompositorSetsUp
    <3> QED
      BY <1>0, <2>3, <3>1 DEF CompositorSetsUp, Fault, Works, One
  <2>4. CASE CompositorTakesDisplay
    <3>1. deo.pc = "ready" /\ deo'.pc = "owner"
      BY <2>4 DEF CompositorTakesDisplay, Deodhai, Shape
    <3> QED
      BY <1>0, <2>4, <3>1 DEF CompositorTakesDisplay, One
  <2> QED
    BY <1>3, <2>1, <2>2, <2>3, <2>4
<1>4. CASE ConsoleReports
  <2>1. painter["console"] \in Box
    BY <1>4 DEF ConsoleReports, Shape, AnyBox, Painters
  <2>2. painter'["console"] = NoBox /\ painter'["compositor"] = painter["compositor"]
    BY <1>4 DEF ConsoleReports, Shape, Painters
  <2>3. damage'.next = damage.next /\ damage'.pending = damage.pending /\ damage'.busy = damage.busy
    BY <1>4, <2>1, AddCovers DEF ConsoleReports, Shape
  <2> QED
    BY <1>0, <1>4, <2>2, <2>3 DEF ConsoleReports, One
<1>5. CASE CompositorFirstFrame
  <2>1. deo.pc = "owner" /\ deo'.pc = "run" /\ painter["compositor"] = NoBox
    BY <1>5 DEF CompositorFirstFrame, Deodhai, Shape
  <2>2. painter'["console"] = painter["console"]
    <3>1. CASE Draw("compositor", Screen)
      BY <3>1, DrawShape, ScreenIsWhole DEF Painters
    <3> QED
      BY <1>5, <3>1 DEF CompositorFirstFrame
  <2> QED
    BY <1>0, <1>5, <2>1, <2>2 DEF CompositorFirstFrame, One
<1>6. CASE CompositorReports
  <2>1. painter["compositor"] \in Box
    BY <1>6 DEF CompositorReports, Shape, AnyBox, Painters
  <2>2. painter'["compositor"] = NoBox /\ painter'["console"] = painter["console"]
    BY <1>6 DEF CompositorReports, Shape, Painters
  <2>3. damage'.next = damage.next /\ damage'.pending = damage.pending /\ damage'.busy = damage.busy
    BY <1>6, <2>1, AddCovers DEF CompositorReports, Shape
  <2> QED
    BY <1>0, <1>6, <2>2, <2>3 DEF CompositorReports, One
<1>7. CASE Start
  BY <1>0, <1>7 DEF Start, Goto, Works, Shape, One
<1>8. CASE Open
  BY <1>0, <1>8 DEF Open, Goto, Works, Fault, Shape, One
<1>9. CASE Acquire
  <2>1. CASE Fault /\ Goto("close") /\ UNCHANGED <<gpu, damage>>
    BY <1>0, <1>9, <2>1 DEF Acquire, Goto, Fault, Shape, One
  <2>2. CASE /\ gpu' = [owner |-> TRUE, attached |-> TRUE, generation |-> gpu.generation + 1,
                        submitted |-> 0, completed |-> 0]
             /\ Works /\ Goto("setup")
    <3>1. gpu'.generation = gpu.generation + 1 /\ gpu'.submitted = 0 /\ gpu'.completed = 0
      BY <2>2
    <3>2. damage'.next = 0 /\ damage'.pending = 0 /\ ~damage'.busy
      BY <1>9, <2>2, ResetFields DEF Acquire, Session, Shape, Serving, Ending
    <3>3. srv'.pc = "setup" /\ srv'.frame = srv.frame
      BY <2>2 DEF Goto, Shape
    <3> QED
      BY <1>0, <1>9, <2>2, <3>1, <3>2, <3>3 DEF Acquire, Works, One
  <2> QED
    BY <1>9, <2>1, <2>2 DEF Acquire
<1>10. CASE Setup
  BY <1>0, <1>10 DEF Setup, Goto, Works, Fault, Shape, One
<1>11. CASE Take
  <2>1. CASE ~(gpu.owner /\ gpu.attached)
    BY <1>11, <2>1 DEF Take, Session
  <2>2. CASE gpu.owner /\ gpu.attached
    <3>1. /\ ~damage.busy /\ damage.dirty /\ ~damage'.dirty /\ damage'.busy
          /\ damage'.next = damage.next + 1 /\ damage'.pending = damage.next + 1
      BY <1>11, <2>2, TakeFields DEF Take, Shape
    <3>2. /\ gpu'.submitted = gpu.submitted + 1 /\ gpu'.completed = gpu.completed
          /\ gpu'.generation = gpu.generation
      BY <1>11, <2>2 DEF Take, Shape
    <3>3. srv'.pc = "transfer" /\ srv'.frame.sequence = damage.next + 1
      BY <1>11, <2>2, <3>1 DEF Take
    <3> QED
      BY <1>0, <1>11, <3>1, <3>2, <3>3 DEF Take, Works, One
  <2> QED
    BY <2>1, <2>2
<1>12. CASE TakeFails
  <2>1. /\ ~damage.busy /\ damage.dirty /\ damage'.dirty /\ ~damage'.busy
        /\ damage'.next = damage.next + 1 /\ damage'.pending = damage.next + 1
    BY <1>12, TakeBackFields DEF TakeFails, Shape, Session
  <2>2. srv'.pc = "close" /\ srv'.frame = srv.frame
    BY <1>12 DEF TakeFails, Goto, Shape
  <2> QED
    BY <1>0, <1>12, <2>1, <2>2 DEF TakeFails, Fault, One
<1>13. CASE TakeNothing \/ UNCHANGED vars
  BY <1>0, <1>13 DEF TakeNothing, vars
<1>14. CASE Transfer
  BY <1>0, <1>14 DEF Transfer, Goto, Works, Fault, Shape, One
<1>15. CASE Flush
  BY <1>0, <1>15 DEF Flush, Goto, Works, Fault, Shape, One
<1>16. CASE Ack
  <2>1. gpu.owner
    BY <1>16 DEF Ack, Session
  <2>2. CASE DamageAckable(damage, srv.frame.sequence)
    BY <1>0, <1>16, <2>1, <2>2, AckFields DEF Ack, Works, Shape, One, NoFrame, DamageAckable
  <2>3. CASE ~DamageAckable(damage, srv.frame.sequence)
    BY <1>16, <2>3 DEF Ack, Session, FrameHasPresenter, DamageAckable
  <2> QED
    BY <2>2, <2>3
<1>17. CASE Crash
  BY <1>0, <1>17 DEF Crash, Goto, Fault, Shape, One
<1>18. CASE Detach
  BY <1>0, <1>18 DEF Detach, OwnerGone, ZeroDamage, Works, Shape, One, NoFrame
<1>19. CASE FreeHandle
  BY <1>0, <1>19 DEF FreeHandle, Goto, Works, Shape, One
<1>20. CASE Reload
  BY <1>0, <1>20 DEF Reload, Goto, Works, Shape, One
<1> QED
  BY <1>1, <1>2, <1>3, <1>4, <1>5, <1>6, <1>7, <1>8, <1>9, <1>10, <1>11, <1>12, <1>13,
     <1>14, <1>15, <1>16, <1>17, <1>18, <1>19, <1>20 DEF Next, Report, Serve

\* What is owed after a painter has drawn: nothing but what it drew is added to
\* the cells the screen does not show, and it owes that itself.
LEMMA DrawOwed ==
    ASSUME Shape, NEW p \in Painters, NEW b \in Box, Draw(p, b),
           UNCHANGED <<damage, srv>>,
           Cell \ fresh.screen \subseteq Owed,
           painter[p] = NoBox,
           display' = display, p = "compositor" \/ display = "console"
    PROVE  Cell \ fresh'.screen \subseteq Owed'
<1>1. /\ painter'[p] = b /\ \A q \in Painters \ {p} : painter'[q] = painter[q]
      /\ fresh'.backing = fresh.backing \ CellsOf(b)
      /\ fresh'.host = fresh.host \ CellsOf(b)
      /\ fresh'.screen = fresh.screen \ CellsOf(b)
  BY DrawShape
<1>2. CellsOf(painter[p]) = {}
  BY ScreenIsWhole
<1>3. InFlight \ CellsOf(b) \subseteq InFlight'
  <2>1. CASE ~damage.busy
    BY <2>1 DEF InFlight
  <2>2. CASE damage.busy /\ srv.pc = "transfer"
    BY <1>1, <2>2 DEF InFlight
  <2>3. CASE damage.busy /\ srv.pc = "flush"
    BY <1>1, <2>3 DEF InFlight
  <2>4. CASE damage.busy /\ srv.pc \notin {"transfer", "flush"}
    BY <2>4 DEF InFlight
  <2> QED
    BY <2>1, <2>2, <2>3, <2>4
<1>4. CellsOf(b) \subseteq Owed'
  BY <1>1 DEF Owed, Painters
<1>5. CASE p = "console"
  BY <1>1, <1>2, <1>3, <1>4, <1>5 DEF Owed, Painters
<1>6. CASE p = "compositor"
  BY <1>1, <1>2, <1>3, <1>4, <1>6 DEF Owed, Painters
<1> QED
  BY <1>5, <1>6 DEF Painters

\* Reporting moves what is owed from the painter to the slot.
LEMMA ReportOwed ==
    ASSUME Shape, Session, Serving, NEW p \in Painters, painter[p] # NoBox,
           painter' = [painter EXCEPT ![p] = NoBox],
           damage' = DamageAdd(damage, painter[p]),
           UNCHANGED <<fresh, srv, display>>
    PROVE  Owed \subseteq Owed'
<1>1. painter[p] \in Box
  BY DEF Shape, AnyBox
<1>2. /\ damage'.busy = damage.busy /\ damage'.dirty
      /\ damage.dirty => CellsOf(damage.box) \subseteq CellsOf(damage'.box)
      /\ CellsOf(painter[p]) \subseteq CellsOf(damage'.box)
  BY <1>1, AddCovers DEF Shape, Session
<1>3. \A q \in Painters \ {p} : painter'[q] = painter[q]
  BY DEF Shape
<1>4. InFlight' = InFlight
  BY <1>2 DEF InFlight
<1>5. CASE p = "console"
  BY <1>2, <1>3, <1>4, <1>5 DEF Owed, Painters
<1>6. CASE p = "compositor"
  BY <1>2, <1>3, <1>4, <1>6 DEF Owed, Painters
<1> QED
  BY <1>5, <1>6 DEF Painters

\* Painters, the slot and the stages of a frame hand every cell on.
LEMMA PaintStep ==
    ASSUME Shape, Session, Numbers, FrameHasPresenter, PaintOwed, [Next]_vars
    PROVE  PaintOwed'
<1> USE DEF PaintOwed, Serving, StartupPicture
<1>1. ASSUME NEW b \in Box, ConsolePaints(b) PROVE PaintOwed'
  BY <1>1, DrawOwed DEF ConsolePaints, Painters
<1>2. ASSUME NEW b \in Box, CompositorPaints(b) PROVE PaintOwed'
  BY <1>2, DrawOwed DEF CompositorPaints, Painters
<1>3. CASE CompositorStarts \/ CompositorCopies \/ CompositorSetsUp \/ CompositorTakesDisplay
  BY <1>3 DEF CompositorStarts, CompositorCopies, CompositorSetsUp, CompositorTakesDisplay,
             Deodhai, StartupPicture, Shape
<1>4. CASE ConsoleReports
  <2> SUFFICES ASSUME Serving, ~StartupPicture
               PROVE  Cell \ fresh'.screen \subseteq Owed'
    BY <1>4 DEF ConsoleReports, StartupPicture
  <2>1. CASE display = "console"
    BY <1>4, <2>1, ReportOwed DEF ConsoleReports, Painters, Session
  <2>2. CASE display = "compositor"
    <3>1. painter'["compositor"] = painter["compositor"]
      BY <1>4 DEF ConsoleReports, Shape, Painters
    <3> QED
      BY <1>4, <2>2, <3>1 DEF ConsoleReports, Owed, InFlight
  <2> QED
    BY <2>1, <2>2 DEF Shape
<1>5. CASE CompositorFirstFrame
  <2>1. CASE deo.mode = "3d"
    <3>1. painter'["compositor"] = Screen
      BY <1>5, <2>1 DEF CompositorFirstFrame, Draw, Shape, Painters
    <3> QED
      BY <3>1, ScreenIsWhole DEF Owed
  <2>2. CASE deo.mode # "3d"
    BY <1>5, <2>2 DEF CompositorFirstFrame, Deodhai, StartupPicture, Shape
  <2> QED
    BY <2>1, <2>2
<1>6. CASE CompositorReports
  <2> SUFFICES ASSUME Serving, ~StartupPicture
               PROVE  Cell \ fresh'.screen \subseteq Owed'
    BY <1>6 DEF CompositorReports, StartupPicture
  <2>1. display = "compositor"
    BY <1>6 DEF CompositorReports, StartupPicture, Numbers
  <2> QED
    BY <1>6, <2>1, ReportOwed DEF CompositorReports, Painters
<1>7. CASE Start
  BY <1>7 DEF Start, Goto, Shape
<1>8. CASE Open
  BY <1>8 DEF Open, Goto, Shape
<1>9. CASE Acquire
  <2>1. CASE Goto("close")
    BY <1>9, <2>1 DEF Goto, Shape
  <2>2. CASE damage' = DamageReset([ZeroDamage EXCEPT !.sized = TRUE])
    <3>1. damage'.dirty /\ CellsOf(damage'.box) = Cell
      BY <2>2, ResetFields, ScreenIsWhole
    <3> QED
      BY <3>1 DEF Owed
  <2> QED
    BY <1>9, <2>1, <2>2 DEF Acquire
<1>10. CASE Setup
  <2>1. ~damage.busy
    BY <1>10 DEF Setup, FrameHasPresenter
  <2> QED
    BY <1>10, <2>1 DEF Setup, Goto, Shape, Owed, InFlight
<1>11. CASE Take
  <2>1. CASE ~(gpu.owner /\ gpu.attached)
    BY <1>11, <2>1 DEF Take, Session
  <2>2. CASE gpu.owner /\ gpu.attached
    <3>1. damage.dirty /\ ~damage.busy /\ damage'.busy /\ ~damage'.dirty
      BY <1>11, <2>2, TakeFields DEF Take, Shape
    <3>2. srv'.pc = "transfer" /\ srv'.frame.box = damage.box
      BY <1>11, <2>2 DEF Take
    <3>3. CellsOf(damage.box) \subseteq fresh'.backing /\ fresh'.screen = fresh.screen
      BY <1>11, <2>2 DEF Take, Shape
    <3>4. InFlight' = CellsOf(damage.box) /\ InFlight = {}
      BY <3>1, <3>2, <3>3 DEF InFlight
    <3>5. UNCHANGED <<painter, display, deo>>
      BY <1>11 DEF Take
    <3> QED
      BY <1>11, <3>1, <3>3, <3>4, <3>5 DEF Take, Owed
  <2> QED
    BY <2>1, <2>2
<1>12. CASE TakeFails
  BY <1>12 DEF TakeFails, Goto, Shape
<1>13. CASE TakeNothing \/ UNCHANGED vars
  BY <1>13 DEF TakeNothing, vars, Owed, InFlight
<1>14. CASE Transfer
  <2>1. CASE Goto("close")
    BY <1>14, <2>1 DEF Goto, Shape
  <2>2. CASE /\ Goto("flush")
             /\ fresh' = [fresh EXCEPT !.host = @ \cup (fresh.backing \cap CellsOf(srv.frame.box))]
    <3>1. /\ srv.pc = "transfer" /\ srv'.pc = "flush" /\ srv'.frame = srv.frame
          /\ UNCHANGED <<damage, painter, display, deo>>
      BY <1>14, <2>2 DEF Transfer, Goto, Shape
    <3>2. /\ fresh.backing \cap CellsOf(srv.frame.box) \subseteq fresh'.host
          /\ fresh'.screen = fresh.screen
      BY <2>2 DEF Shape
    <3>3. InFlight \subseteq InFlight'
      BY <3>1, <3>2 DEF InFlight
    <3> QED
      BY <3>1, <3>2, <3>3 DEF Owed
  <2> QED
    BY <1>14, <2>1, <2>2 DEF Transfer
<1>15. CASE Flush
  <2>1. CASE Goto("close")
    BY <1>15, <2>1 DEF Goto, Shape
  <2>2. CASE /\ Goto("ack")
             /\ fresh' = [fresh EXCEPT !.screen = @ \cup (fresh.host \cap CellsOf(srv.frame.box))]
    <3>1. /\ srv.pc = "flush" /\ UNCHANGED <<damage, painter, display, deo>>
      BY <1>15, <2>2 DEF Flush
    <3>2. fresh'.screen = fresh.screen \cup (fresh.host \cap CellsOf(srv.frame.box))
      BY <2>2 DEF Shape
    <3>3. InFlight \subseteq fresh'.screen
      BY <3>1, <3>2 DEF InFlight
    <3> QED
      BY <3>1, <3>2, <3>3 DEF Owed
  <2> QED
    BY <1>15, <2>1, <2>2 DEF Flush
<1>16. CASE Ack
  <2>1. /\ srv.pc = "ack" /\ srv'.pc \in {"take", "close"}
        /\ UNCHANGED <<fresh, painter, display, deo>>
    BY <1>16 DEF Ack
  <2>2. damage'.box = damage.box /\ damage'.dirty = damage.dirty
    BY <1>16, AckFields DEF Ack, Shape
  <2> QED
    BY <2>1, <2>2 DEF Owed, InFlight
<1>17. CASE Crash
  BY <1>17 DEF Crash, Goto, Shape, Pc
<1>18. CASE Detach
  BY <1>18 DEF Detach
<1>19. CASE FreeHandle
  BY <1>19 DEF FreeHandle, Goto, Shape
<1>20. CASE Reload
  BY <1>20 DEF Reload, Goto, Shape
<1> QED
  BY <1>1, <1>2, <1>3, <1>4, <1>5, <1>6, <1>7, <1>8, <1>9, <1>10, <1>11, <1>12, <1>13,
     <1>14, <1>15, <1>16, <1>17, <1>18, <1>19, <1>20 DEF Next, Report, Serve

-----------------------------------------------------------------------------
(***************************************************************************)
(* The theorems                                                            *)
(***************************************************************************)
\* IInv holds in every state the kernel, gpusrv and the painters reach.
LEMMA Inductive == Spec => []IInv
<1>1. Init => IInv
  BY InitIInv
<1>2. IInv /\ [Next]_vars => IInv'
  BY ShapeStep, SessionStep, PresenterStep, NumbersStep, PaintStep DEF IInv
<1> QED
  BY <1>1, <1>2, PTL DEF Spec

\* The proxy's statics, the damage slot and the server keep their types, and the
\* sequence numbers of gpudamage.h stay within what was drawn and what failed.
THEOREM TypeCorrect == Spec => []GpuTypeOK
<1>1. IInv => GpuTypeOK
  <2> SUFFICES ASSUME IInv PROVE GpuTypeOK
    OBVIOUS
  <2> USE DEF IInv
  <2>0. paints \in 0 .. MaxPaints /\ faults \in 0 .. MaxFaults
    BY DEF Shape
  <2>1. /\ \A x : One(x) \in {0, 1}
        /\ damage.next \in Nat /\ damage.pending \in Nat
        /\ gpu.generation \in Nat /\ gpu.submitted \in Nat /\ gpu.completed \in Nat
        /\ srv.frame.sequence \in Nat
    BY DEF One, Shape, Slot
  <2>2. /\ damage.next \in Sequence /\ damage.pending \in Sequence
        /\ gpu.submitted \in Sequence /\ gpu.completed \in Sequence
        /\ srv.frame.sequence \in Sequence
        /\ gpu.generation \in 0 .. MaxFaults + 1
    BY <2>0, <2>1, GpuAssumption DEF Numbers, Drawn, Causes, Sequence
  <2>3. gpu \in [owner : BOOLEAN, attached : BOOLEAN, generation : 0 .. MaxFaults + 1,
                 submitted : Sequence, completed : Sequence]
    BY <2>2 DEF Shape
  <2>4. damage \in [sized : BOOLEAN, box : Box \cup {NoBox}, dirty : BOOLEAN,
                    busy : BOOLEAN, next : Sequence, pending : Sequence]
    BY <2>2 DEF Shape, Slot, AnyBox
  <2>5. srv.frame \in [sequence : Sequence, box : Box \cup {NoBox}]
    BY <2>2 DEF Shape, AnyBox
  <2> QED
    BY <2>0, <2>3, <2>4, <2>5 DEF Shape, GpuTypeOK, AnyBox
<1> QED
  BY <1>1, Inductive, PTL

\* A frame in flight is always in the hands of the server that acknowledges it
\* under the number the slot expects (devgpu.c, gpu_take and gpu_ack).
THEOREM FramesHavePresenters == Spec => []FrameHasPresenter
<1>1. IInv => FrameHasPresenter
  BY DEF IInv
<1> QED
  BY <1>1, Inductive, PTL

\* The proxy is detached before the memory it copies into is freed, in every
\* order of failures, exits and crashes (devhw.c's release, AuGpuProxyOwnerGone).
THEOREM BackingsAreAlive == Spec => []BackingAlive
<1>1. IInv => BackingAlive
  BY DEF IInv, Session, BackingAlive
<1> QED
  BY <1>1, Inductive, PTL

\* No painted cell is forgotten while a server serves, for every framebuffer and
\* every sequence of drawings, reports, changes of hands and failures.
THEOREM NoPaintIsLost == Spec => []NoPaintLost
<1>1. IInv => NoPaintLost
  <2> SUFFICES ASSUME IInv, Serving, ~StartupPicture
               PROVE  Cell \ fresh.screen \subseteq Accounted
    BY DEF NoPaintLost, Serving
  <2>1. Owed \subseteq Accounted
    BY DEF Owed, Accounted, Painters
  <2> QED
    BY <2>1 DEF IInv, PaintOwed
<1> QED
  BY <1>1, Inductive, PTL
=============================================================================
