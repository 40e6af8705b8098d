----------------------------- MODULE SndProofs -----------------------------
(***************************************************************************)
(* Theorems about SndRing, for every size of the ring, width of its        *)
(* counters and length of the server's period.                             *)
(***************************************************************************)
EXTENDS SndRing, SequenceTheorems, TLAPS

-----------------------------------------------------------------------------
(***************************************************************************)
(* Arithmetic of the ring: the counters are cut to their width, and their  *)
(* remainders by the size say where a unit lies.                           *)
(***************************************************************************)
Multiple(x) == \E q \in Int : x = q * Size

\* Sums and differences of multiples of the size are multiples of it.
LEMMA MultipleSums ==
    ASSUME NEW x \in Int, NEW y \in Int, Multiple(x), Multiple(y)
    PROVE  Multiple(x + y) /\ Multiple(x - y)
<1>1. PICK p \in Int, q \in Int : x = p * Size /\ y = q * Size
  BY DEF Multiple
<1>2. x + y = (p + q) * Size /\ x - y = (p - q) * Size
  BY <1>1, SndAssumption
<1> QED
  BY <1>2 DEF Multiple

\* What % returns, and that nothing else will do.
LEMMA Remainder ==
    ASSUME NEW x \in Nat
    PROVE  x % Size \in 0 .. Size - 1 /\ Multiple(x - (x % Size))
<1>1. x % Size \in 0 .. Size - 1 /\ x = Size * (x \div Size) + (x % Size) /\ x \div Size \in Int
  BY SndAssumption
<1>2. x - (x % Size) = (x \div Size) * Size
  BY <1>1, SndAssumption
<1> QED
  BY <1>1, <1>2 DEF Multiple

\* A multiple of the ring's size smaller than the ring is zero.
LEMMA SmallMultiple ==
    ASSUME NEW x \in Int, Multiple(x), -Size < x, x < Size PROVE x = 0
<1>1. PICK q \in Int : x = q * Size
  BY DEF Multiple
<1>2. CASE q >= 1
  <2>1. q * Size >= Size
    BY <1>2, SndAssumption
  <2> QED
    BY <1>1, <2>1, SndAssumption
<1>3. CASE q <= -1
  <2>1. q * Size <= -Size
    BY <1>3, SndAssumption
  <2> QED
    BY <1>1, <2>1, SndAssumption
<1>4. CASE q = 0
  BY <1>1, <1>4, SndAssumption
<1> QED
  BY <1>2, <1>3, <1>4

\* A number's offset in the ring is the one that a multiple of the size away gives it.
LEMMA RemainderIs ==
    ASSUME NEW x \in Nat, NEW r \in 0 .. Size - 1, Multiple(x - r)
    PROVE  x % Size = r
<1>1. x % Size \in 0 .. Size - 1 /\ Multiple(x - (x % Size))
  BY Remainder
<1>2. Multiple((x - r) - (x - (x % Size)))
  BY <1>1, MultipleSums, SndAssumption
<1>3. (x - r) - (x - (x % Size)) = (x % Size) - r
  BY <1>1, SndAssumption
<1>4. (x % Size) - r = 0
  BY <1>1, <1>2, <1>3, SmallMultiple, SndAssumption
<1> QED
  BY <1>1, <1>4, SndAssumption

\* The counters wrap at a multiple of the size.
LEMMA CounterIsMultiple == Multiple(Counter) /\ Multiple(Size) /\ Multiple(0)
<1>1. Multiple(Counter - (Counter % Size))
  BY Remainder, SndAssumption
<1>2. Multiple(Counter)
  BY <1>1, SndAssumption
<1>3. Size = 1 * Size /\ 0 = 0 * Size
  BY SndAssumption
<1> QED
  BY <1>2, <1>3 DEF Multiple

\* A counter below twice its width is cut to its width by one subtraction.
LEMMA CutCounter ==
    ASSUME NEW x \in Nat, x < 2 * Counter
    PROVE  /\ x < Counter => x % Counter = x
           /\ x >= Counter => x % Counter = x - Counter
  BY SndAssumption

\* A counter moved on by no more than the size of the ring
LEMMA WrappedSum ==
    ASSUME NEW h \in 0 .. Counter - 1, NEW n \in 0 .. Size, NEW c, c = (h + n) % Counter
    PROVE  c \in 0 .. Counter - 1 /\ (c = h + n \/ c = h + n - Counter)
  BY SndAssumption

\* What the sizes are, apart from remainders
LEMMA Sizes ==
    /\ Size \in Nat /\ 0 < Size /\ Counter \in Nat /\ Size < Counter
    /\ Period \in Nat /\ 0 < Period /\ Period <= Size
    /\ IdlePolls \in Nat /\ MaxUnits \in Nat /\ MaxFaults \in Nat
  BY SndAssumption

-----------------------------------------------------------------------------
(***************************************************************************)
(* The ring                                                                *)
(***************************************************************************)
\* A function on the first n numbers is a sequence of length n.
LEMMA FunctionIsSeq ==
    ASSUME NEW S, NEW n \in Nat, NEW s \in [1 .. n -> S]
    PROVE  s \in Seq(S) /\ Len(s) = n
<1>1. s \in Seq(S)
  BY SeqDef
<1>2. Len(s) \in Nat /\ DOMAIN s = 1 .. Len(s)
  BY <1>1, LenProperties
<1>3. 1 .. n = 1 .. Len(s)
  BY <1>2
<1> QED
  BY <1>1, <1>2, <1>3

Rings == [data : [0 .. Size - 1 -> 0 .. MaxUnits],
          head : 0 .. Counter - 1, tail : 0 .. Counter - 1]
Place(r, i) == (r.tail + i - 1) % Size

\* head - tail in the counters' width, without the remainder
LEMMA FillIs ==
    ASSUME NEW r \in Rings
    PROVE  /\ Fill(r) \in 0 .. Counter - 1
           /\ r.head >= r.tail => Fill(r) = r.head - r.tail
           /\ r.head < r.tail => Fill(r) = r.head - r.tail + Counter
<1>1. r.head \in 0 .. Counter - 1 /\ r.tail \in 0 .. Counter - 1
  BY DEF Rings
<1>2. r.head - r.tail + Counter \in Nat /\ r.head - r.tail + Counter < 2 * Counter
  BY <1>1, Sizes
<1> QED
  BY <1>1, <1>2, CutCounter, Sizes DEF Fill

\* Unread is a sequence of as many units as the counters say, each at its place.
LEMMA UnreadIs ==
    ASSUME NEW r \in Rings
    PROVE  /\ Unread(r) \in Seq(0 .. MaxUnits)
           /\ Len(Unread(r)) = Fill(r)
           /\ \A i \in 1 .. Fill(r) : Place(r, i) \in 0 .. Size - 1
                                      /\ Unread(r)[i] = r.data[Place(r, i)]
<1>1. Fill(r) \in Nat /\ r.tail \in Nat
  BY FillIs, Sizes DEF Rings
<1>2. \A i \in 1 .. Fill(r) : Place(r, i) \in 0 .. Size - 1
  BY <1>1, Remainder DEF Place
<1>3. Unread(r) = [i \in 1 .. Fill(r) |-> r.data[Place(r, i)]]
  BY DEF Unread, Slice, Place
<1>4. \A i \in 1 .. Fill(r) : r.data[Place(r, i)] \in 0 .. MaxUnits
  BY <1>2 DEF Rings
<1>5. Unread(r) \in [1 .. Fill(r) -> 0 .. MaxUnits]
  BY <1>3, <1>4
<1>6. Unread(r) \in Seq(0 .. MaxUnits) /\ Len(Unread(r)) = Fill(r)
  BY <1>1, <1>5, FunctionIsSeq
<1> QED
  BY <1>2, <1>3, <1>6

\* A ring with nothing in it
LEMMA EmptyIs == EmptyRing \in Rings /\ Fill(EmptyRing) = 0
<1>1. EmptyRing \in Rings
  BY Sizes DEF EmptyRing, Rings
<1>2. EmptyRing.head = 0 /\ EmptyRing.tail = 0
  BY DEF EmptyRing
<1> QED
  BY <1>1, <1>2, FillIs, Sizes

\* How far behind the head, on the ring, the unit lies that is the i-th after
\* the tail: the numbers that tell what Copied writes from what it keeps.
LEMMA Distance ==
    ASSUME NEW h \in 0 .. Counter - 1, NEW t \in 0 .. Counter - 1, NEW f \in 0 .. Size,
           h = t + f \/ h = t + f - Counter,
           NEW i \in 1 .. Size, NEW x \in Int, x = (t + i - 1) % Size
    PROVE  /\ x \in 0 .. Size - 1
           /\ i <= f => (x - h + Counter) % Size = Size + i - 1 - f
           /\ i > f  => (x - h + Counter) % Size = i - 1 - f
<1>1. t + i - 1 \in Nat
  BY Sizes
<1>2. x \in 0 .. Size - 1 /\ Multiple(t + i - 1 - x)
  BY <1>1, Remainder
<1>3. x - h + Counter \in Nat
  BY <1>2, Sizes
<1>4. Multiple(t + f - h)
  <2>1. t + f - h = 0 \/ t + f - h = Counter
    BY Sizes
  <2> QED
    BY <2>1, CounterIsMultiple
<1>5. Multiple((t + f - h) - (t + i - 1 - x))
  <2>1. t + f - h \in Int /\ t + i - 1 - x \in Int
    BY <1>2
  <2> QED
    BY <1>2, <1>4, <2>1, MultipleSums
<1>6. (t + f - h) - (t + i - 1 - x) = x - h - (i - 1 - f) /\ x - h - (i - 1 - f) \in Int
  BY <1>2
<1>7. Multiple(x - h - (i - 1 - f) + Counter)
  BY <1>5, <1>6, CounterIsMultiple, MultipleSums, Sizes
<1>8. x - h - (i - 1 - f) + Counter = x - h + Counter - (i - 1 - f)
      /\ x - h + Counter - (i - 1 - f) \in Int
  BY <1>2, Sizes
<1>9. Multiple(x - h + Counter - (i - 1 - f) - Size)
  BY <1>7, <1>8, CounterIsMultiple, MultipleSums, Sizes
<1>10. x - h + Counter - (i - 1 - f) - Size = x - h + Counter - (Size + i - 1 - f)
  BY <1>2, Sizes
<1>11. CASE i <= f
  <2>1. Size + i - 1 - f \in 0 .. Size - 1
    BY <1>11, Sizes
  <2> QED
    <3>2. PICK d \in Nat, v \in 0 .. Size - 1 : d = x - h + Counter /\ v = Size + i - 1 - f
      BY <1>3, <2>1
    <3>3. x - h + Counter - (i - 1 - f) - Size = d - v
      BY <1>2, <3>2, Sizes
    <3>4. Multiple(d - v)
      BY <1>9, <3>3
    <3>5. d % Size = v
      BY <3>4, RemainderIs
    <3> QED
      BY <1>2, <1>11, <3>2, <3>5
<1>12. CASE i > f
  <2>1. i - 1 - f \in 0 .. Size - 1
    BY <1>12, Sizes
  <2> QED
    <3>2. PICK d \in Nat, v \in 0 .. Size - 1 : d = x - h + Counter /\ v = i - 1 - f
      BY <1>3, <2>1
    <3>3. x - h - (i - 1 - f) + Counter = d - v
      BY <1>2, <3>2, Sizes
    <3>4. Multiple(d - v)
      BY <1>7, <3>3
    <3>5. d % Size = v
      BY <3>4, RemainderIs
    <3> QED
      BY <1>2, <1>12, <3>2, <3>5
<1> QED
  BY <1>2, <1>11, <1>12

\* What Copied writes: the units of s behind the head, nothing elsewhere.
LEMMA CopiedIs ==
    ASSUME NEW r \in Rings, NEW s \in Seq(0 .. MaxUnits), Len(s) <= Size
    PROVE  /\ Copied(r, s) \in [0 .. Size - 1 -> 0 .. MaxUnits]
           /\ \A i \in 0 .. Size - 1 :
                  LET k == (i - r.head + Counter) % Size
                  IN  /\ k < Len(s) => Copied(r, s)[i] = s[k + 1]
                      /\ k >= Len(s) => Copied(r, s)[i] = r.data[i]
<1>1. ASSUME NEW i \in 0 .. Size - 1
      PROVE  /\ Copied(r, s)[i] \in 0 .. MaxUnits
             /\ (i - r.head + Counter) % Size < Len(s)
                    => Copied(r, s)[i] = s[((i - r.head + Counter) % Size) + 1]
             /\ (i - r.head + Counter) % Size >= Len(s) => Copied(r, s)[i] = r.data[i]
  <2>1. r.head \in 0 .. Counter - 1 /\ r.data[i] \in 0 .. MaxUnits
    BY DEF Rings
  <2>2. i - r.head + Counter \in Nat
    BY <2>1, Sizes
  <2>3. PICK k \in 0 .. Size - 1 : k = (i - r.head + Counter) % Size
    BY <2>2, Remainder
  <2>4. Copied(r, s)[i] = IF k + 1 <= Len(s) THEN s[k + 1] ELSE r.data[i]
    BY <2>3 DEF Copied
  <2>5. CASE k < Len(s)
    <3>1. Len(s) \in Nat /\ s \in [1 .. Len(s) -> 0 .. MaxUnits]
      BY LenProperties
    <3>2. k + 1 \in 1 .. Len(s) /\ k + 1 <= Len(s) /\ ~(k >= Len(s))
      BY <2>3, <2>5, <3>1
    <3>3. Copied(r, s)[i] = s[k + 1] /\ s[k + 1] \in 0 .. MaxUnits
      BY <2>4, <3>1, <3>2
    <3> QED
      BY <2>3, <3>2, <3>3
  <2>6. CASE k >= Len(s)
    <3>1. ~(k + 1 <= Len(s))
      BY <2>6
    <3> QED
      BY <2>1, <2>3, <2>4, <2>6, <3>1
  <2> QED
    BY <2>5, <2>6
<1>2. Copied(r, s) = [i \in 0 .. Size - 1 |-> Copied(r, s)[i]]
  BY DEF Copied
<1>3. Copied(r, s) \in [0 .. Size - 1 -> 0 .. MaxUnits]
  BY <1>1, <1>2
<1> QED
  BY <1>1, <1>3

\* What is put in behind the head leaves the unread units where they are and
\* follows them, wherever the head and the end of the data lie.
LEMMA ProduceIs ==
    ASSUME NEW r \in Rings, NEW s \in Seq(0 .. MaxUnits), Fits(r, Len(s)), Fill(r) <= Size
    PROVE  /\ Produce(r, s) \in Rings
           /\ Fill(Produce(r, s)) = Fill(r) + Len(s) /\ Fill(r) + Len(s) <= Size
           /\ \A i \in 1 .. Fill(r) : Unread(Produce(r, s))[i] = Unread(r)[i]
           /\ \A j \in 1 .. Len(s) : Unread(Produce(r, s))[Fill(r) + j] = s[j]
<1> DEFINE p == Produce(r, s)
<1>1. PICK n \in Nat, f \in 0 .. Size, h \in 0 .. Counter - 1, t \in 0 .. Counter - 1 :
          n = Len(s) /\ f = Fill(r) /\ h = r.head /\ t = r.tail
  BY FillIs DEF Rings
<1>2. f + n <= Size /\ (h = t + f \/ h = t + f - Counter)
  <2>1. f + n <= Size
    BY <1>1, Sizes DEF Fits
  <2>2. (h >= t => f = h - t) /\ (h < t => f = h - t + Counter)
    BY <1>1, FillIs
  <2>3. h = t + f \/ h = t + f - Counter
    BY <2>2, Sizes
  <2> QED
    BY <2>1, <2>3
<1>3. Copied(r, s) \in [0 .. Size - 1 -> 0 .. MaxUnits]
  <2>1. Len(s) <= Size
    BY <1>1, <1>2, Sizes
  <2> QED
    BY <2>1, CopiedIs
<1>4. PICK c : c = (h + n) % Counter
  OBVIOUS
<1>5. c \in 0 .. Counter - 1 /\ (c = h + n \/ c = h + n - Counter)
  <2>1. n \in 0 .. Size
    BY <1>2, Sizes
  <2> QED
    BY <1>4, <2>1, WrappedSum
<1>6. p \in Rings /\ p.data = Copied(r, s) /\ p.head = c /\ p.tail = t
  <2>1. p.data = Copied(r, s) /\ p.head = c /\ p.tail = t
    BY <1>1, <1>4 DEF Produce, Rings
  <2>2. (h + n) % Counter \in 0 .. Counter - 1
    BY <1>4, <1>5
  <2>3. p \in Rings
    BY <1>1, <1>3, <2>2 DEF Produce, Rings
  <2> QED
    BY <2>1, <2>3
<1> HIDE DEF p
<1>7. Fill(p) = f + n
  <2>1. (c >= t => Fill(p) = c - t) /\ (c < t => Fill(p) = c - t + Counter)
    BY <1>6, FillIs
  <2> QED
    BY <1>2, <1>5, <2>1, Sizes
<1>8. ASSUME NEW i \in 1 .. f + n
      PROVE  /\ i <= f => Unread(p)[i] = Unread(r)[i]
             /\ i > f  => Unread(p)[i] = s[i - f]
  <2>1. PICK x : x = (t + i - 1) % Size
    OBVIOUS
  <2>2. x \in 0 .. Size - 1
    <3>1. t + i - 1 \in Nat
      OBVIOUS
    <3> QED
      BY <2>1, <3>1, Remainder
  <2>3. i \in 1 .. Size /\ x \in Int
    BY <1>2, <2>2, Sizes
  <2>4. /\ i <= f => (x - h + Counter) % Size = Size + i - 1 - f
        /\ i > f  => (x - h + Counter) % Size = i - 1 - f
    BY <1>2, <2>1, <2>3, Distance
  <2>5. PICK k \in Int : k = (x - h + Counter) % Size
    BY <2>2, <2>4, Sizes
  <2>6. Unread(p)[i] = Copied(r, s)[x]
    BY <1>6, <1>7, <2>1, UnreadIs DEF Place
  <2>7. /\ k < n => Copied(r, s)[x] = s[k + 1]
        /\ k >= n => Copied(r, s)[x] = r.data[x]
    <3>1. Len(s) <= Size
      BY <1>1, <1>2, Sizes
    <3> QED
      BY <1>1, <2>2, <2>5, <3>1, CopiedIs
  <2>8. CASE i <= f
    <3>1. k >= n
      BY <1>2, <2>4, <2>5, <2>8, Sizes
    <3>2. Unread(r)[i] = r.data[x]
      BY <1>1, <2>1, <2>8, UnreadIs DEF Place
    <3> QED
      BY <2>6, <2>7, <2>8, <3>1, <3>2
  <2>9. CASE i > f
    <3>1. k < n /\ k + 1 = i - f
      BY <1>2, <2>4, <2>5, <2>9, Sizes
    <3> QED
      BY <2>6, <2>7, <2>9, <3>1
  <2> QED
    BY <2>8, <2>9
<1>9. \A i \in 1 .. f : Unread(p)[i] = Unread(r)[i]
  BY <1>8
<1>10. ASSUME NEW j \in 1 .. n PROVE Unread(p)[f + j] = s[j]
  <2>1. f + j \in 1 .. f + n /\ f + j > f /\ (f + j) - f = j
    OBVIOUS
  <2> QED
    BY <2>1, <1>8
<1> QED
  BY <1>1, <1>2, <1>6, <1>7, <1>9, <1>10 DEF p

\* Consuming units drops them from the front of what is unread.
LEMMA ConsumeIs ==
    ASSUME NEW r \in Rings, Fill(r) <= Size, NEW k \in 0 .. Fill(r),
           NEW p, p = [r EXCEPT !.tail = (@ + k) % Counter]
    PROVE  /\ p \in Rings /\ Fill(p) = Fill(r) - k
           /\ \A i \in 1 .. Fill(r) - k : Unread(p)[i] = Unread(r)[k + i]
<1>1. PICK f \in 0 .. Size, h \in 0 .. Counter - 1, t \in 0 .. Counter - 1 :
          f = Fill(r) /\ h = r.head /\ t = r.tail
  BY FillIs DEF Rings
<1>2. (h >= t => f = h - t) /\ (h < t => f = h - t + Counter) /\ k \in 0 .. Size /\ k <= f
  BY <1>1, FillIs, Sizes
<1>3. PICK c : c = (t + k) % Counter
  OBVIOUS
<1>4. c \in 0 .. Counter - 1 /\ (c = t + k \/ c = t + k - Counter)
  BY <1>2, <1>3, WrappedSum
<1>5. p \in Rings /\ p.data = r.data /\ p.head = h /\ p.tail = c
  BY <1>1, <1>3, <1>4 DEF Rings
<1>6. Fill(p) = f - k
  <2>1. (h >= c => Fill(p) = h - c) /\ (h < c => Fill(p) = h - c + Counter)
    BY <1>5, FillIs
  <2> QED
    BY <1>2, <1>4, <2>1, Sizes
<1>7. ASSUME NEW i \in 1 .. f - k PROVE Unread(p)[i] = Unread(r)[k + i]
  <2>1. PICK x \in Nat, y \in Nat : x = t + (k + i) - 1 /\ y = c + i - 1
    BY <1>2, <1>4
  <2>2. x % Size = y % Size
    <3>1. x = y \/ x = y + Counter
      BY <1>4, <2>1, Sizes
    <3>2. CASE x = y
      BY <3>2
    <3>3. CASE x = y + Counter
      <4>1. y % Size \in 0 .. Size - 1 /\ Multiple(y - (y % Size))
        BY Remainder
      <4>2. PICK v \in 0 .. Size - 1 : v = y % Size
        BY <4>1
      <4>3. Multiple((y - v) + Counter)
        <5>1. PICK d \in Int : d = y - v
          BY <4>2
        <5>2. Multiple(d)
          BY <4>1, <4>2, <5>1
        <5>3. Multiple(d + Counter)
          BY <5>2, CounterIsMultiple, MultipleSums, Sizes
        <5> QED
          BY <5>1, <5>3
      <4>4. (y - v) + Counter = x - v
        BY <3>3, Sizes
      <4>5. x % Size = v
        BY <4>3, <4>4, RemainderIs
      <4> QED
        BY <4>2, <4>5
    <3> QED
      BY <3>1, <3>2, <3>3
  <2>3. i \in 1 .. Fill(p) /\ k + i \in 1 .. Fill(r)
    BY <1>1, <1>2, <1>6
  <2>4. Unread(p)[i] = r.data[y % Size]
    BY <1>5, <2>1, <2>3, UnreadIs DEF Place
  <2>5. Unread(r)[k + i] = r.data[x % Size]
    BY <1>1, <2>1, <2>3, UnreadIs DEF Place
  <2> QED
    BY <2>2, <2>4, <2>5
<1> QED
  BY <1>1, <1>5, <1>6, <1>7

-----------------------------------------------------------------------------
(***************************************************************************)
(* The inductive invariant: what waits to be played, in the ring or carried*)
(* over, is the last units accepted, in order, and what came before them   *)
(* was played or lost on purpose.                                          *)
(***************************************************************************)
Queue == IF px.attached THEN Unread(ring) ELSE px.carry
Before == accepted - Len(Queue)

SndShape ==
    /\ ring \in Rings /\ Fill(ring) <= Size
    /\ px \in [attached : BOOLEAN, carry : Seq(Unit), stale : BOOLEAN]
    /\ Len(px.carry) <= Size
    /\ writer \in {"runs", "sleeps"}
    /\ srv \in [pc : {"off", "attach", "drain", "submit", "advance", "close"},
                take : Seq(Unit), idle : 0 .. IdlePolls]
    /\ Len(srv.take) <= Period
    /\ accepted \in 0 .. MaxUnits /\ played \subseteq Unit /\ gone \subseteq Unit

\* A server that works is attached; nothing is carried over while one is.
Phases ==
    /\ srv.pc \in {"drain", "submit", "advance"} => px.attached
    /\ srv.pc \in {"off", "attach"} => ~px.attached
    /\ px.attached => px.carry = <<>>
    /\ srv.pc \notin {"submit", "advance"} => srv.take = <<>>

LastAccepted ==
    /\ Len(Queue) <= accepted
    /\ \A i \in 1 .. Len(Queue) : Queue[i] = Before + i

Heard == 1 .. Before \subseteq played \cup gone

\* What the server took is the front of what is unread, and still there until
\* the tail is advanced.
FrontTaken ==
    srv.pc \in {"submit", "advance"} =>
        /\ Len(srv.take) <= Len(Queue)
        /\ \A i \in 1 .. Len(srv.take) : srv.take[i] = Queue[i]
        /\ srv.pc = "advance" => \A i \in 1 .. Len(srv.take) : srv.take[i] \in played

IInv == SndShape /\ Phases /\ LastAccepted /\ Heard /\ FrontTaken /\ PlayedInOrder

\* The queue is a sequence, no longer than the ring.
LEMMA QueueIs ==
    ASSUME SndShape
    PROVE  /\ Queue \in Seq(0 .. MaxUnits) /\ Len(Queue) \in 0 .. Size
           /\ px.attached => Queue = Unread(ring) /\ Len(Queue) = Fill(ring)
           /\ ~px.attached => Queue = px.carry
<1>1. Unit \subseteq 0 .. MaxUnits
  BY Sizes DEF Unit
<1>2. px.carry \in Seq(Unit) /\ Len(px.carry) <= Size
  BY DEF SndShape
<1>3. px.carry \in Seq(0 .. MaxUnits) /\ Len(px.carry) \in 0 .. Size
  <2>1. px.carry \in Seq(0 .. MaxUnits)
    BY <1>1, <1>2, SeqMonotonic
  <2>2. Len(px.carry) \in Nat
    BY <1>2, LenProperties
  <2> QED
    BY <1>2, <2>1, <2>2, Sizes
<1>4. Unread(ring) \in Seq(0 .. MaxUnits) /\ Len(Unread(ring)) = Fill(ring)
      /\ Fill(ring) \in 0 .. Size
  BY UnreadIs, FillIs, Sizes DEF SndShape
<1> QED
  BY <1>3, <1>4 DEF Queue, SndShape

\* Every accepted unit was played, is lost or is in the queue.
LEMMA NothingMissing ==
    ASSUME SndShape, LastAccepted, Heard
    PROVE  1 .. accepted \subseteq played \cup gone \cup Range(Queue)
<1>1. Queue \in Seq(0 .. MaxUnits) /\ Len(Queue) \in Nat /\ accepted \in Nat
  BY QueueIs, Sizes DEF SndShape
<1>2. DOMAIN Queue = 1 .. Len(Queue)
  BY <1>1, LenProperties
<1> SUFFICES ASSUME NEW x \in 1 .. accepted, x \notin 1 .. Before PROVE x \in Range(Queue)
  BY DEF Heard
<1>3. x - Before \in 1 .. Len(Queue) /\ Before + (x - Before) = x
  BY <1>1 DEF Before, LastAccepted
<1>4. Queue[x - Before] = x
  BY <1>3 DEF LastAccepted
<1> QED
  BY <1>2, <1>3, <1>4 DEF Range

\* Units in the queue have been accepted.
LEMMA QueueAccepted ==
    ASSUME SndShape, LastAccepted
    PROVE  \A i \in 1 .. Len(Queue) : Queue[i] \in 1 .. accepted /\ Queue[i] \in Unit
<1>1. Len(Queue) \in Nat /\ accepted \in Nat /\ accepted <= MaxUnits
  BY QueueIs, Sizes DEF SndShape
<1> QED
  BY <1>1, Sizes DEF LastAccepted, Before, Unit

-----------------------------------------------------------------------------
(***************************************************************************)
(* One lemma for each action that disturbs the queue                       *)
(***************************************************************************)
\* A write is put in whole behind what is unread, or dropped whole.
LEMMA WriteStep == ASSUME IInv, NEW n \in 1 .. Size, PxWrite(n) PROVE IInv'
<1> USE DEF IInv
<1>1. CASE ~Fits(ring, n)
  <2>1. UNCHANGED <<ring, px, srv, accepted, played, gone>> /\ writer' = "sleeps"
    BY <1>1 DEF PxWrite
  <2>2. Queue' = Queue
    BY <2>1 DEF Queue
  <2> QED
    BY <2>1, <2>2 DEF SndShape, Phases, LastAccepted, Before, Heard, FrontTaken, PlayedInOrder
<1>2. CASE Fits(ring, n)
  <2> DEFINE s == [i \in 1 .. n |-> accepted + i]
  <2>1. /\ px.attached /\ ring' = Produce(ring, s) /\ accepted' = accepted + n
        /\ accepted + n <= MaxUnits /\ writer' \in {"runs", "sleeps"}
        /\ UNCHANGED <<px, srv, played, gone>>
    BY <1>2 DEF PxWrite
  <2>2. accepted \in Nat /\ n \in Nat /\ accepted + n \in 0 .. MaxUnits
    BY <2>1, Sizes DEF SndShape
  <2>3. s \in Seq(0 .. MaxUnits) /\ Len(s) = n
    <3>1. s \in [1 .. n -> 0 .. MaxUnits]
      BY <2>1, <2>2, Sizes
    <3> QED
      BY <2>2, <3>1, FunctionIsSeq
  <2>4. \A i \in 1 .. n : s[i] = accepted + i
    OBVIOUS
  <2> HIDE DEF s
  <2>5. /\ ring' \in Rings /\ Fill(ring') = Fill(ring) + n /\ Fill(ring) + n <= Size
        /\ \A i \in 1 .. Fill(ring) : Unread(ring')[i] = Unread(ring)[i]
        /\ \A i \in 1 .. n : Unread(ring')[Fill(ring) + i] = s[i]
    <3>1. Fits(ring, Len(s))
      BY <1>2, <2>3
    <3>2. /\ Produce(ring, s) \in Rings /\ Fill(Produce(ring, s)) = Fill(ring) + Len(s)
          /\ Fill(ring) + Len(s) <= Size
          /\ \A i \in 1 .. Fill(ring) : Unread(Produce(ring, s))[i] = Unread(ring)[i]
          /\ \A i \in 1 .. Len(s) : Unread(Produce(ring, s))[Fill(ring) + i] = s[i]
      BY <2>3, <3>1, ProduceIs DEF SndShape
    <3> QED
      BY <2>1, <2>3, <3>2
  <2>6. SndShape'
    BY <2>1, <2>2, <2>5 DEF SndShape
  <2>7. PICK f \in 0 .. Size : /\ f = Fill(ring) /\ f = Len(Queue)
                               /\ f + n = Fill(ring') /\ f + n = Len(Queue')
                               /\ Queue = Unread(ring) /\ Queue' = Unread(ring')
    BY <2>1, <2>5, <2>6, QueueIs, UnreadIs DEF SndShape, Queue
  <2>8. Before' = Before
    BY <2>1, <2>2, <2>7 DEF Before
  <2>9. LastAccepted'
    <3>1. f + n <= accepted + n
      BY <2>2, <2>7 DEF LastAccepted
    <3>2. ASSUME NEW i \in 1 .. f + n PROVE Queue'[i] = Before + i
      <4>1. CASE i <= f
        BY <2>5, <2>7, <4>1 DEF LastAccepted
      <4>2. CASE i > f
        <5>1. i - f \in 1 .. n /\ f + (i - f) = i
          BY <4>2
        <5>2. Queue'[i] = accepted + (i - f)
          BY <2>4, <2>5, <2>7, <5>1
        <5> QED
          BY <2>2, <2>7, <5>2 DEF Before
      <4> QED
        BY <4>1, <4>2
    <3> QED
      BY <2>1, <2>7, <2>8, <3>1, <3>2 DEF LastAccepted
  <2>10. Heard'
    BY <2>1, <2>8 DEF Heard
  <2>11. FrontTaken'
    <3> SUFFICES ASSUME srv.pc \in {"submit", "advance"} PROVE FrontTaken'
      BY <2>1 DEF FrontTaken
    <3>1. Len(srv.take) \in Nat
      BY LenProperties DEF SndShape
    <3>2. Len(srv.take) <= f /\ f <= f + n
      BY <2>7 DEF FrontTaken
    <3>3. \A i \in 1 .. Len(srv.take) : Queue'[i] = Queue[i]
      BY <2>5, <2>7, <3>1, <3>2
    <3> QED
      BY <2>1, <2>2, <2>7, <3>1, <3>2, <3>3 DEF FrontTaken
  <2> QED
    BY <2>1, <2>6, <2>9, <2>10, <2>11 DEF Phases, PlayedInOrder
<1> QED
  BY <1>1, <1>2

\* A queue given up whole, and the empty one that follows it
LEMMA GivenUp ==
    ASSUME IInv, SndShape', gone' = gone \cup Range(Queue), Len(Queue') = 0,
           UNCHANGED <<accepted, played>>
    PROVE  LastAccepted' /\ Heard' /\ PlayedInOrder'
<1> USE DEF IInv
<1>1. accepted \in Nat
  BY Sizes DEF SndShape
<1>2. Before' = accepted
  BY <1>1 DEF Before
<1>3. LastAccepted'
  BY <1>1 DEF LastAccepted
<1>4. Heard'
  BY <1>2, NothingMissing DEF Heard
<1> QED
  BY <1>3, <1>4 DEF PlayedInOrder

\* The same queue in another place
LEMMA CarriedOn ==
    ASSUME IInv, SndShape', Len(Queue') = Len(Queue),
           \A i \in 1 .. Len(Queue) : Queue'[i] = Queue[i],
           UNCHANGED <<accepted, played, gone>>
    PROVE  LastAccepted' /\ Heard' /\ PlayedInOrder'
  BY DEF IInv, LastAccepted, Before, Heard, PlayedInOrder

\* A server that attaches finds in its ring what the last one left.
LEMMA AttachStep == ASSUME IInv, Attach PROVE IInv'
<1> USE DEF IInv
<1> DEFINE kept == IF px.stale THEN <<>> ELSE px.carry
           lost == IF px.stale THEN px.carry ELSE <<>>
<1>1. /\ srv.pc = "attach" /\ ~px.attached /\ srv.take = <<>>
      /\ UNCHANGED <<writer, accepted, played>>
  BY DEF Attach, Phases
<1>2. Queue = px.carry /\ Queue \in Seq(0 .. MaxUnits) /\ Len(Queue) \in 0 .. Size
  BY <1>1, QueueIs
<1>3. <<>> \in Seq(Unit) /\ <<>> \in Seq(0 .. MaxUnits) /\ Len(<<>>) = 0 /\ Range(<<>>) = {}
  BY EmptySeq DEF Range
<1>4. \A s \in Seq(Unit) : Range(s) \subseteq Unit
  <2> SUFFICES ASSUME NEW s \in Seq(Unit) PROVE Range(s) \subseteq Unit
    OBVIOUS
  <2>1. DOMAIN s = 1 .. Len(s) /\ \A i \in 1 .. Len(s) : s[i] \in Unit
    BY LenProperties, ElementOfSeq
  <2> QED
    BY <2>1 DEF Range
<1>5. CASE /\ ring' = Produce(EmptyRing, kept) /\ px' = Emptied(TRUE)
           /\ Lose(lost) /\ Goto("drain")
  <2>1. kept \in Seq(0 .. MaxUnits) /\ Len(kept) \in 0 .. Size
    <3>1. CASE px.stale
      BY <1>3, <3>1, Sizes
    <3>2. CASE ~px.stale
      BY <1>2, <3>2
    <3> QED
      BY <3>1, <3>2
  <2> HIDE DEF kept
  <2>2. EmptyRing \in Rings /\ Fill(EmptyRing) = 0 /\ Fits(EmptyRing, Len(kept))
    BY <2>1, EmptyIs, Sizes DEF Fits
  <2>3. /\ ring' \in Rings /\ Fill(ring') = Len(kept)
        /\ \A i \in 1 .. Len(kept) : Unread(ring')[i] = kept[i]
    <3>1. /\ ring' \in Rings /\ Fill(ring') = 0 + Len(kept)
          /\ \A i \in 1 .. Len(kept) : Unread(ring')[0 + i] = kept[i]
      BY <1>5, <2>1, <2>2, ProduceIs, Sizes
    <3>2. 0 + Len(kept) = Len(kept) /\ \A i \in 1 .. Len(kept) : 0 + i = i
      BY <2>1
    <3> QED
      BY <3>1, <3>2
  <2>4. px'.attached /\ px'.carry = <<>> /\ px' \in [attached : BOOLEAN, carry : Seq(Unit), stale : BOOLEAN]
    BY <1>3, <1>5 DEF Emptied
  <2>5. srv'.pc = "drain" /\ srv'.take = <<>> /\ srv'.idle = srv.idle
        /\ srv' \in [pc : {"off", "attach", "drain", "submit", "advance", "close"},
                     take : Seq(Unit), idle : 0 .. IdlePolls]
    BY <1>3, <1>5 DEF Goto, SndShape
  <2>6. gone' = gone \cup Range(lost) /\ lost \in Seq(Unit)
    BY <1>3, <1>5 DEF Lose, SndShape
  <2>7. SndShape'
    <3>1. gone' \subseteq Unit
      BY <1>4, <2>6 DEF SndShape
    <3>2. Len(px'.carry) <= Size /\ Len(srv'.take) <= Period /\ Fill(ring') <= Size
      BY <1>3, <2>1, <2>3, <2>4, <2>5, Sizes
    <3> QED
      BY <1>1, <2>3, <2>4, <2>5, <3>1, <3>2 DEF SndShape
  <2>8. Queue' = Unread(ring') /\ Len(Queue') = Len(kept)
    BY <2>3, <2>4, UnreadIs DEF Queue
  <2>9. LastAccepted' /\ Heard' /\ PlayedInOrder'
    <3>1. CASE px.stale
      <4>1. kept = <<>> /\ lost = Queue
        BY <1>2, <3>1 DEF kept
      <4> QED
        BY <1>1, <1>3, <2>6, <2>7, <2>8, <4>1, GivenUp
    <3>2. CASE ~px.stale
      <4>1. kept = Queue /\ lost = <<>>
        BY <1>2, <3>2 DEF kept
      <4>2. gone' = gone
        BY <1>3, <2>6, <4>1
      <4> QED
        BY <1>1, <2>3, <2>7, <2>8, <4>1, <4>2, CarriedOn
    <3> QED
      BY <3>1, <3>2
  <2> QED
    BY <2>4, <2>5, <2>7, <2>9 DEF Phases, FrontTaken
<1>6. CASE /\ px' = Emptied(FALSE) /\ Lose(px.carry) /\ Goto("close") /\ UNCHANGED ring
  <2>1. ~px'.attached /\ px'.carry = <<>> /\ px' \in [attached : BOOLEAN, carry : Seq(Unit), stale : BOOLEAN]
    BY <1>3, <1>6 DEF Emptied
  <2>2. srv'.pc = "close" /\ srv'.take = <<>> /\ srv'.idle = srv.idle
        /\ srv' \in [pc : {"off", "attach", "drain", "submit", "advance", "close"},
                     take : Seq(Unit), idle : 0 .. IdlePolls]
    BY <1>3, <1>6 DEF Goto, SndShape
  <2>3. gone' = gone \cup Range(px.carry) /\ px.carry \in Seq(Unit)
    BY <1>6 DEF Lose, SndShape
  <2>4. SndShape'
    <3>1. gone' \subseteq Unit
      BY <1>4, <2>3 DEF SndShape
    <3>2. Len(px'.carry) <= Size /\ Len(srv'.take) <= Period
      BY <1>3, <2>1, <2>2, Sizes
    <3> QED
      BY <1>1, <1>6, <2>1, <2>2, <3>1, <3>2 DEF SndShape
  <2>5. Queue' = <<>>
    BY <2>1 DEF Queue
  <2>6. LastAccepted' /\ Heard' /\ PlayedInOrder'
    BY <1>1, <1>2, <1>3, <2>3, <2>4, <2>5, GivenUp
  <2> QED
    BY <2>1, <2>2, <2>4, <2>6 DEF Phases, FrontTaken
<1> QED
  BY <1>5, <1>6 DEF Attach

\* Without a change to what is queued, accepted or heard, only the server's own
\* steps are left to look at.
LEMMA QuietStep ==
    ASSUME IInv, UNCHANGED <<ring, px, accepted, played, gone>>
    PROVE  /\ Queue' = Queue /\ LastAccepted' /\ Heard' /\ PlayedInOrder'
           /\ srv' = srv /\ writer' \in {"runs", "sleeps"} => IInv'
<1>1. Queue' = Queue
  BY DEF Queue
<1>2. LastAccepted' /\ Heard' /\ PlayedInOrder'
  BY <1>1 DEF IInv, LastAccepted, Before, Heard, PlayedInOrder
<1>3. ASSUME srv' = srv, writer' \in {"runs", "sleeps"} PROVE IInv'
  BY <1>1, <1>2, <1>3 DEF IInv, SndShape, Phases, FrontTaken
<1> QED
  BY <1>1, <1>2, <1>3

\* The server takes no more than is unread, nor more than a period.
LEMMA TakeLenIs ==
    ASSUME NEW avail \in Nat, NEW idle \in Nat
    PROVE  /\ TakeLen(avail, idle) \in 0 .. avail /\ TakeLen(avail, idle) <= Period
           /\ TakeLen(avail, idle) = 0 => avail < Period /\ (avail > 0 => idle <= IdlePolls)
  BY Sizes DEF TakeLen

\* The server's count of idle polls, before it is cut off.
LEMMA IdleIs ==
    ASSUME NEW idle \in 0 .. IdlePolls
    PROVE  Min({idle + 1, IdlePolls + 1}) = idle + 1
<1>1. \A w \in {idle + 1, IdlePolls + 1} : idle + 1 <= w
  BY Sizes
<1>2. \A z \in {idle + 1, IdlePolls + 1} : z <= idle + 1 => z = idle + 1
  BY Sizes
<1> QED
  BY <1>1, <1>2 DEF Min

\* A period, or less after some idle polls, is copied from the front.
LEMMA PollStep == ASSUME IInv, Poll PROVE IInv'
<1> USE DEF IInv
<1> DEFINE avail == Fill(ring)
           idle  == IF avail \in 1 .. Period - 1
                    THEN Min({srv.idle + 1, IdlePolls + 1}) ELSE srv.idle
           take  == TakeLen(avail, idle)
<1>1. /\ srv.pc = "drain" /\ px.attached
      /\ UNCHANGED <<ring, px, writer, accepted, played, gone>>
  BY DEF Poll, Phases
<1>2. Queue = Unread(ring) /\ Len(Queue) = avail /\ avail \in Nat
  BY <1>1, QueueIs
<1>3. srv.idle \in 0 .. IdlePolls
  BY DEF SndShape
<1>4. /\ idle \in Nat /\ idle = IF avail \in 1 .. Period - 1 THEN srv.idle + 1 ELSE srv.idle
  BY <1>3, IdleIs, Sizes
<1>5. srv' = IF take > 0
             THEN [pc |-> "submit", take |-> Slice(ring, ring.tail, take), idle |-> 0]
             ELSE [srv EXCEPT !.idle = IF avail = 0 THEN 0 ELSE idle]
  BY DEF Poll
<1> HIDE DEF idle
<1>6. /\ take \in 0 .. avail /\ take <= Period
      /\ take = 0 => avail < Period /\ (avail > 0 => idle <= IdlePolls)
  BY <1>2, <1>4, TakeLenIs
<1>7. Queue' = Queue /\ LastAccepted' /\ Heard' /\ PlayedInOrder'
  BY <1>1, QuietStep
<1> HIDE DEF take
<1>8. CASE take > 0
  <2> DEFINE s == Slice(ring, ring.tail, take)
  <2>1. s = [i \in 1 .. take |-> ring.data[Place(ring, i)]]
    BY DEF Slice, Place
  <2>2. \A i \in 1 .. take : s[i] = Queue[i] /\ s[i] \in Unit
    <3> SUFFICES ASSUME NEW i \in 1 .. take PROVE s[i] = Queue[i] /\ s[i] \in Unit
      OBVIOUS
    <3>1. i \in 1 .. avail
      BY <1>2, <1>6
    <3>2. s[i] = Queue[i]
      BY <1>2, <2>1, <3>1, UnreadIs DEF SndShape
    <3> QED
      BY <1>2, <3>1, <3>2, QueueAccepted
  <2>3. s \in Seq(Unit) /\ Len(s) = take
    <3>1. s \in [1 .. take -> Unit] /\ take \in Nat
      BY <1>2, <1>6, <2>1, <2>2
    <3> HIDE DEF s
    <3> QED
      BY <3>1, FunctionIsSeq
  <2>4. srv'.pc = "submit" /\ srv'.take = s /\ srv'.idle = 0
        /\ srv' = [pc |-> "submit", take |-> s, idle |-> 0]
    BY <1>5, <1>8
  <2> HIDE DEF s
  <2>5. srv' \in [pc : {"off", "attach", "drain", "submit", "advance", "close"},
                  take : Seq(Unit), idle : 0 .. IdlePolls]
    BY <2>3, <2>4, Sizes
  <2>6. SndShape'
    BY <1>1, <1>6, <2>3, <2>4, <2>5 DEF SndShape
  <2>7. FrontTaken'
    BY <1>2, <1>6, <1>7, <2>2, <2>3, <2>4 DEF FrontTaken
  <2> QED
    BY <1>1, <1>7, <2>4, <2>6, <2>7 DEF Phases
<1>9. CASE take = 0
  <2>1. srv'.pc = "drain" /\ srv'.take = srv.take
        /\ srv' = [srv EXCEPT !.idle = IF avail = 0 THEN 0 ELSE idle]
    BY <1>1, <1>5, <1>9 DEF SndShape
  <2>2. (IF avail = 0 THEN 0 ELSE idle) \in 0 .. IdlePolls
    BY <1>2, <1>4, <1>6, <1>9, Sizes
  <2>3. SndShape'
    BY <1>1, <2>1, <2>2 DEF SndShape
  <2> QED
    BY <1>1, <1>7, <2>1, <2>3 DEF Phases, FrontTaken
<1> QED
  BY <1>2, <1>6, <1>8, <1>9

\* The server leaves off with nothing taken.
LEMMA GotoIs ==
    ASSUME SndShape, NEW pc \in {"off", "attach", "drain", "close"}, Goto(pc)
    PROVE  /\ srv'.pc = pc /\ srv'.take = <<>> /\ Len(srv'.take) <= Period
           /\ srv' \in [pc : {"off", "attach", "drain", "submit", "advance", "close"},
                        take : Seq(Unit), idle : 0 .. IdlePolls]
<1>1. <<>> \in Seq(Unit) /\ Len(<<>>) = 0
  BY EmptySeq
<1>2. srv' = [srv EXCEPT !.pc = pc, !.take = <<>>]
  BY DEF Goto
<1>3. srv'.pc = pc /\ srv'.take = <<>> /\ srv'.idle = srv.idle
  BY <1>2 DEF SndShape
<1>4. srv' \in [pc : {"off", "attach", "drain", "submit", "advance", "close"},
                take : Seq(Unit), idle : 0 .. IdlePolls]
  BY <1>1, <1>2 DEF SndShape
<1>5. Len(srv'.take) <= Period
  BY <1>1, <1>3, Sizes
<1> QED
  BY <1>3, <1>4, <1>5

\* What the device has played stays the units before what is unread, and perhaps
\* the first of those: the ones the server took.
LEMMA PlayedStep ==
    ASSUME IInv, srv.pc = "submit", played' \in {played, played \cup Range(srv.take)},
           UNCHANGED <<ring, px, writer, accepted, gone>>
    PROVE  /\ Queue' = Queue /\ played' \subseteq Unit
           /\ LastAccepted' /\ Heard' /\ PlayedInOrder'
<1> USE DEF IInv
<1>1. Queue' = Queue /\ Before' = Before
  BY DEF Queue, Before
<1>2. /\ Len(srv.take) \in Nat /\ DOMAIN srv.take = 1 .. Len(srv.take)
      /\ Len(Queue) \in Nat /\ accepted \in Nat /\ Len(srv.take) <= Len(Queue)
  BY QueueIs, LenProperties, Sizes DEF SndShape, FrontTaken
<1>3. Before \in Nat
  BY <1>2 DEF Before, LastAccepted
<1>4. \A i \in 1 .. Len(srv.take) : srv.take[i] = Before + i /\ srv.take[i] \in Unit
  BY <1>2, QueueAccepted DEF FrontTaken, LastAccepted
<1>5. played' \subseteq Unit
  BY <1>2, <1>4 DEF SndShape, Range
<1>6. ASSUME NEW i \in played', NEW x \in 1 .. i PROVE x \in played' \cup gone
  <2>1. CASE i \in played
    BY <1>6, <2>1 DEF PlayedInOrder
  <2>2. CASE i \notin played
    <3>1. i \in Range(srv.take) /\ played' = played \cup Range(srv.take)
      BY <1>6, <2>2
    <3>2. PICK j \in 1 .. Len(srv.take) : i = srv.take[j]
      BY <1>2, <3>1 DEF Range
    <3>3. i = Before + j
      BY <1>4, <3>2
    <3>4. CASE x <= Before
      BY <1>3, <3>4 DEF Heard
    <3>5. CASE x > Before
      <4>1. x - Before \in 1 .. Len(srv.take) /\ Before + (x - Before) = x
        BY <1>2, <1>3, <3>2, <3>3, <3>5
      <4>2. srv.take[x - Before] = x
        BY <1>4, <4>1
      <4>3. x \in Range(srv.take)
        BY <1>2, <4>1, <4>2 DEF Range
      <4> QED
        BY <3>1, <4>3
    <3> QED
      BY <1>3, <3>3, <3>4, <3>5
  <2> QED
    BY <2>1, <2>2
<1>7. PlayedInOrder'
  BY <1>6 DEF PlayedInOrder
<1> QED
  BY <1>1, <1>5, <1>7 DEF LastAccepted, Heard

\* tx_period, whether it is known to have played or not
LEMMA SubmitStep == ASSUME IInv, Plays \/ TxFails PROVE IInv'
<1> USE DEF IInv
<1>1. /\ srv.pc = "submit" /\ played' \in {played, played \cup Range(srv.take)}
      /\ UNCHANGED <<ring, px, writer, accepted, gone>>
  BY DEF Plays, TxFails
<1>2. /\ Queue' = Queue /\ played' \subseteq Unit
      /\ LastAccepted' /\ Heard' /\ PlayedInOrder'
  BY <1>1, PlayedStep
<1>3. px.attached
  BY <1>1 DEF Phases
<1>4. CASE Plays
  <2>1. srv'.pc = "advance" /\ srv'.take = srv.take /\ played' = played \cup Range(srv.take)
        /\ srv' = [srv EXCEPT !.pc = "advance"]
    BY <1>4 DEF Plays, SndShape
  <2>2. SndShape'
    BY <1>1, <1>2, <2>1 DEF SndShape
  <2>3. \A i \in 1 .. Len(srv.take) : srv.take[i] \in played'
    <3>1. DOMAIN srv.take = 1 .. Len(srv.take)
      BY LenProperties DEF SndShape
    <3> QED
      BY <2>1, <3>1 DEF Range
  <2> QED
    BY <1>1, <1>2, <1>3, <2>1, <2>2, <2>3 DEF Phases, FrontTaken
<1>5. CASE TxFails
  <2>1. Goto("close")
    BY <1>5 DEF TxFails
  <2>2. SndShape' /\ srv'.pc = "close" /\ srv'.take = <<>>
    BY <1>1, <1>2, <2>1, GotoIs DEF SndShape
  <2> QED
    BY <1>1, <1>2, <1>3, <2>2 DEF Phases, FrontTaken
<1> QED
  BY <1>4, <1>5

\* The tail is advanced over what was played.
LEMMA AdvanceStep == ASSUME IInv, Advance PROVE IInv'
<1> USE DEF IInv
<1>1. /\ srv.pc = "advance" /\ px.attached
      /\ ring' = [ring EXCEPT !.tail = (@ + Len(srv.take)) % Counter]
      /\ UNCHANGED <<px, writer, accepted, played, gone>>
  BY DEF Advance, Phases
<1>2. PICK k \in Nat, f \in 0 .. Size : k = Len(srv.take) /\ f = Fill(ring) /\ f = Len(Queue)
                                        /\ k <= f /\ Queue = Unread(ring)
  BY <1>1, QueueIs, LenProperties, Sizes DEF SndShape, FrontTaken
<1>3. /\ ring' \in Rings /\ Fill(ring') = f - k
      /\ \A i \in 1 .. f - k : Unread(ring')[i] = Unread(ring)[k + i]
  <2>1. k \in 0 .. Fill(ring) /\ ring' = [ring EXCEPT !.tail = (@ + k) % Counter]
    BY <1>1, <1>2
  <2>2. ring \in Rings /\ Fill(ring) <= Size
    BY DEF SndShape
  <2>3. /\ ring' \in Rings /\ Fill(ring') = Fill(ring) - k
        /\ \A i \in 1 .. Fill(ring) - k : Unread(ring')[i] = Unread(ring)[k + i]
    BY <2>1, <2>2, ConsumeIs
  <2> QED
    BY <1>2, <2>3
<1>4. /\ srv'.pc = "drain" /\ srv'.take = <<>> /\ Len(srv'.take) <= Period
      /\ srv' \in [pc : {"off", "attach", "drain", "submit", "advance", "close"},
                   take : Seq(Unit), idle : 0 .. IdlePolls]
  BY GotoIs DEF Advance
<1>5. SndShape'
  <2>1. f - k <= Size
    BY <1>2, Sizes
  <2> QED
    BY <1>1, <1>3, <1>4, <2>1 DEF SndShape
<1>6. Queue' = Unread(ring') /\ Len(Queue') = f - k
  BY <1>1, <1>3, UnreadIs DEF Queue
<1>7. accepted \in Nat /\ Before = accepted - f /\ Before' = Before + k /\ Before \in Nat
  <2>1. accepted \in Nat /\ f <= accepted
    BY <1>2, Sizes DEF SndShape, LastAccepted
  <2>2. Before = accepted - f /\ Before' = accepted - (f - k)
    BY <1>1, <1>2, <1>6 DEF Before
  <2> QED
    BY <1>2, <2>1, <2>2
<1>8. LastAccepted'
  <2>1. f - k <= accepted
    BY <1>2, <1>7 DEF LastAccepted
  <2>2. ASSUME NEW i \in 1 .. f - k PROVE Queue'[i] = Before + k + i
    <3>1. k + i \in 1 .. f /\ Before + (k + i) = Before + k + i
      BY <1>2, <1>7
    <3>2. Queue'[i] = Queue[k + i]
      BY <1>2, <1>3, <1>6
    <3> QED
      BY <1>2, <3>1, <3>2 DEF LastAccepted
  <2> QED
    BY <1>1, <1>6, <1>7, <2>1, <2>2 DEF LastAccepted
<1>9. Heard'
  <2> SUFFICES ASSUME NEW x \in 1 .. Before + k PROVE x \in played \cup gone
    BY <1>1, <1>7 DEF Heard
  <2>1. CASE x <= Before
    BY <1>7, <2>1 DEF Heard
  <2>2. CASE x > Before
    <3>1. x - Before \in 1 .. k /\ x - Before \in 1 .. f /\ Before + (x - Before) = x
      BY <1>2, <1>7, <2>2
    <3>2. srv.take[x - Before] = x
      BY <1>1, <1>2, <3>1 DEF FrontTaken, LastAccepted
    <3> QED
      BY <1>1, <1>2, <3>1, <3>2 DEF FrontTaken
  <2> QED
    BY <1>7, <2>1, <2>2
<1>10. PlayedInOrder'
  BY <1>1 DEF PlayedInOrder
<1> QED
  BY <1>1, <1>4, <1>5, <1>8, <1>9, <1>10 DEF Phases, FrontTaken

\* Whenever the server dies, the queue stays for the one that closes its handle.
LEMMA CrashStep == ASSUME IInv, Crash PROVE IInv'
<1> USE DEF IInv
<1>1. UNCHANGED <<ring, px, writer, accepted, gone>>
  BY DEF Crash
<1>2. /\ Queue' = Queue /\ played' \subseteq Unit
      /\ LastAccepted' /\ Heard' /\ PlayedInOrder'
  <2>1. CASE srv.pc = "submit"
    BY <1>1, <2>1, PlayedStep DEF Crash
  <2>2. CASE srv.pc # "submit"
    BY <1>1, <2>2, QuietStep DEF Crash, SndShape
  <2> QED
    BY <2>1, <2>2
<1>3. Goto("close")
  BY DEF Crash
<1>4. SndShape' /\ srv'.pc = "close" /\ srv'.take = <<>>
  BY <1>1, <1>2, <1>3, GotoIs DEF SndShape
<1> QED
  BY <1>1, <1>2, <1>4 DEF Phases, FrontTaken

\* What the server had not consumed is carried over, or lost if there is no room.
LEMMA CloseStep == ASSUME IInv, Close PROVE IInv'
<1> USE DEF IInv
<1>1. /\ srv.pc = "close" /\ srv.take = <<>> /\ ring' = EmptyRing
      /\ UNCHANGED <<writer, accepted, played>>
  BY DEF Close, Phases
<1>2. srv'.pc = "off" /\ srv'.take = <<>>
  BY GotoIs DEF Close
<1>3. /\ srv' \in [pc : {"off", "attach", "drain", "submit", "advance", "close"},
                   take : Seq(Unit), idle : 0 .. IdlePolls]
      /\ Len(srv'.take) <= Period /\ <<>> \in Seq(Unit) /\ Len(<<>>) = 0
  BY GotoIs, EmptySeq DEF Close
<1>4. ring' \in Rings /\ Fill(ring') <= Size
  BY <1>1, EmptyIs, Sizes
<1>5. /\ Queue \in Seq(Unit) /\ Len(Queue) \in 0 .. Size
      /\ Range(Queue) \subseteq Unit
  <2>1. Queue \in Seq(0 .. MaxUnits) /\ Len(Queue) \in 0 .. Size
    BY QueueIs
  <2>2. DOMAIN Queue = 1 .. Len(Queue) /\ Queue \in [1 .. Len(Queue) -> 0 .. MaxUnits]
    BY <2>1, LenProperties
  <2>3. Queue \in [1 .. Len(Queue) -> Unit] /\ Len(Queue) \in Nat
    BY <2>1, <2>2, QueueAccepted
  <2> QED
    BY <2>1, <2>2, <2>3, QueueAccepted, FunctionIsSeq DEF Range
<1>6. CASE ~px.attached /\ UNCHANGED <<px, gone>>
  <2>1. Queue' = Queue
    BY <1>6 DEF Queue
  <2>2. SndShape'
    BY <1>1, <1>3, <1>4, <1>6 DEF SndShape
  <2>3. LastAccepted' /\ Heard' /\ PlayedInOrder'
    BY <1>1, <1>6, <2>1, <2>2, CarriedOn
  <2> QED
    BY <1>2, <1>6, <2>2, <2>3 DEF Phases, FrontTaken
<1>7. CASE /\ px.attached /\ UNCHANGED gone
           /\ px' = [attached |-> FALSE, carry |-> Unread(ring), stale |-> FALSE]
  <2>1. Queue = Unread(ring) /\ Queue' = Queue
    BY <1>7 DEF Queue
  <2>2. /\ px' \in [attached : BOOLEAN, carry : Seq(Unit), stale : BOOLEAN]
        /\ Len(px'.carry) <= Size /\ ~px'.attached
    BY <1>5, <1>7, <2>1
  <2>3. SndShape'
    BY <1>1, <1>3, <1>4, <1>7, <2>2 DEF SndShape
  <2>4. LastAccepted' /\ Heard' /\ PlayedInOrder'
    BY <1>1, <1>7, <2>1, <2>3, CarriedOn
  <2> QED
    BY <1>2, <2>2, <2>3, <2>4 DEF Phases, FrontTaken
<1>8. CASE px.attached /\ px' = Emptied(FALSE) /\ Lose(Unread(ring))
  <2>1. Queue = Unread(ring)
    BY <1>8 DEF Queue
  <2>2. /\ px' \in [attached : BOOLEAN, carry : Seq(Unit), stale : BOOLEAN]
        /\ ~px'.attached /\ px'.carry = <<>>
    BY <1>3, <1>8 DEF Emptied
  <2>3. gone' = gone \cup Range(Queue) /\ gone' \subseteq Unit
    BY <1>5, <1>8, <2>1 DEF Lose, SndShape
  <2>4. SndShape'
    <3>1. Len(px'.carry) <= Size
      BY <1>3, <2>2, Sizes
    <3> QED
      BY <1>1, <1>3, <1>4, <2>2, <2>3, <3>1 DEF SndShape
  <2>5. Queue' = <<>>
    BY <2>2 DEF Queue
  <2>6. LastAccepted' /\ Heard' /\ PlayedInOrder'
    BY <1>1, <1>3, <2>3, <2>4, <2>5, GivenUp
  <2> QED
    BY <1>2, <2>2, <2>4, <2>6 DEF Phases, FrontTaken
<1> QED
  BY <1>6, <1>7, <1>8 DEF Close

\* A new ring, which the card does not know yet, and the ageing of what waits
LEMMA OutsideStep == ASSUME IInv, SetUp \/ CarryAges PROVE IInv'
<1> USE DEF IInv
<1>1. CASE SetUp
  <2>1. /\ srv.pc = "off" /\ ~px.attached /\ ring' = EmptyRing
        /\ UNCHANGED <<px, writer, accepted, played, gone>>
    BY <1>1 DEF SetUp, Phases
  <2>2. srv' = [pc |-> "attach", take |-> <<>>, idle |-> 0]
    BY <1>1 DEF SetUp
  <2>3. srv'.pc = "attach" /\ srv'.take = <<>> /\ <<>> \in Seq(Unit) /\ Len(<<>>) = 0
    BY <2>2, EmptySeq
  <2>4. SndShape'
    BY <2>1, <2>2, <2>3, EmptyIs, Sizes DEF SndShape
  <2>5. Queue' = Queue
    BY <2>1 DEF Queue
  <2>6. LastAccepted' /\ Heard' /\ PlayedInOrder'
    BY <2>1, <2>4, <2>5, CarriedOn
  <2> QED
    BY <2>1, <2>3, <2>4, <2>6 DEF Phases, FrontTaken
<1>2. CASE CarryAges
  <2>1. /\ ~px.attached /\ px' = [px EXCEPT !.stale = TRUE]
        /\ UNCHANGED <<ring, writer, srv, accepted, played, gone>>
    BY <1>2 DEF CarryAges
  <2>2. ~px'.attached /\ px'.carry = px.carry
    BY <2>1 DEF SndShape
  <2>3. SndShape'
    BY <2>1, <2>2 DEF SndShape
  <2>4. Queue' = Queue
    BY <2>1, <2>2 DEF Queue
  <2>5. LastAccepted' /\ Heard' /\ PlayedInOrder'
    BY <2>1, <2>3, <2>4, CarriedOn
  <2> QED
    BY <2>1, <2>2, <2>3, <2>4, <2>5 DEF Phases, FrontTaken
<1> QED
  BY <1>1, <1>2

-----------------------------------------------------------------------------
(***************************************************************************)
(* The theorems                                                            *)
(***************************************************************************)
\* IInv holds in every state the clients, the proxy and sndsrv reach.
LEMMA Inductive == Spec => []IInv
<1>1. Init => IInv
  <2> SUFFICES ASSUME Init PROVE IInv
    OBVIOUS
  <2> USE DEF Init
  <2>1. <<>> \in Seq(Unit) /\ Len(<<>>) = 0
    BY EmptySeq
  <2>2. SndShape
    BY <2>1, EmptyIs, Sizes DEF SndShape
  <2>3. Queue = <<>>
    BY DEF Queue
  <2>4. Len(Queue) = 0 /\ Before = 0 /\ accepted = 0
    <3>1. Len(Queue) = 0 /\ accepted = 0
      BY <2>1, <2>3
    <3> QED
      BY <3>1 DEF Before
  <2> QED
    BY <2>1, <2>2, <2>3, <2>4 DEF IInv, Phases, LastAccepted, Heard, FrontTaken, PlayedInOrder
<1>2. IInv /\ [Next]_vars => IInv'
  <2> SUFFICES ASSUME IInv, [Next]_vars PROVE IInv'
    OBVIOUS
  <2>1. CASE WriterWakes \/ UNCHANGED vars
    <3>1. UNCHANGED <<ring, px, accepted, played, gone, srv>> /\ writer' \in {"runs", "sleeps"}
      BY <2>1 DEF WriterWakes, vars, IInv, SndShape
    <3> QED
      BY <3>1, QuietStep
  <2> QED
    BY <2>1, WriteStep, AttachStep, PollStep, SubmitStep, AdvanceStep, CrashStep, CloseStep,
       OutsideStep DEF Next, Server
<1> QED
  BY <1>1, <1>2, PTL DEF Spec

\* The ring's counters and data, what is carried over, the server and the counts
\* keep their types (sndproxy.c's px, sndsrv's main loop).
THEOREM TypeCorrect == Spec => []SndTypeOK
<1>1. IInv => SndTypeOK
  <2> SUFFICES ASSUME IInv PROVE SndTypeOK
    OBVIOUS
  <2>1. px.carry \in Seq(Unit)
    BY DEF IInv, SndShape
  <2>2. \A i \in DOMAIN px.carry : px.carry[i] \in Unit
    BY <2>1, LenProperties, ElementOfSeq
  <2> QED
    BY <2>2 DEF IInv, SndShape, SndTypeOK, Rings, Range
<1> QED
  BY <1>1, Inductive, PTL

\* No crash, failed attach or close, in any order and wherever the ring and its
\* counters wrap, eats what the clients wrote (sndproxy.c:48).
THEOREM NothingIsEaten == Spec => []NothingEaten
<1>1. IInv => NothingEaten
  <2> SUFFICES ASSUME IInv PROVE NothingEaten
    OBVIOUS
  <2>1. 1 .. accepted \subseteq played \cup gone \cup Range(Queue)
    BY NothingMissing DEF IInv
  <2>2. Range(Queue) \subseteq Held
    BY DEF Queue, Held
  <2> QED
    BY <2>1, <2>2 DEF NothingEaten
<1> QED
  BY <1>1, Inductive, PTL

\* The device plays in the order of the writes, over any number of servers.
THEOREM OrderIsKept == Spec => []PlayedInOrder
<1>1. IInv => PlayedInOrder
  BY DEF IInv
<1> QED
  BY <1>1, Inductive, PTL
=============================================================================
