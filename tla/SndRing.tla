------------------------------- MODULE SndRing ------------------------------
(***************************************************************************)
(* The sound proxy (KernelAA64/Sound/sndproxy.c) and its user-space server *)
(* (Process/sndsrv/main.cpp): a ring shared between the kernel card's      *)
(* write and the server that drains it into the device, and the audio that *)
(* is carried over from a server that went away to the next one.           *)
(*                                                                         *)
(* Audio is counted in units; the units the card accepts are numbered      *)
(* 1, 2, ... in the order they are written.  System calls run with         *)
(* interrupts masked on the one CPU, so px_write up to its sleep, px_detach*)
(* and the ATTACH ioctl are one step each, and px.inflight is 0 whenever   *)
(* another thread looks at it; the server, in user mode, is interleaved    *)
(* with them at every access to the ring.                                  *)
(***************************************************************************)
EXTENDS Integers, Sequences, FiniteSets, SequencesExt

CONSTANTS Size,       \* units the ring holds: a power of two
          Period,     \* units the server takes at a time
          Counter,    \* the head and tail counters wrap here (2^32 bytes)
          IdlePolls,  \* polls before a partial period is flushed (10)
          MaxUnits,   \* bound on the units written
          MaxFaults   \* bound on crashes and failures

ASSUME SndAssumption ==
    /\ Size \in Nat \ {0} /\ Period \in 1 .. Size
    /\ Counter \in Nat /\ Counter > Size /\ Counter % Size = 0
    /\ IdlePolls \in Nat /\ MaxUnits \in Nat /\ MaxFaults \in Nat

VARIABLES ring,      \* the shared memory: data, head, tail
          px,        \* attached, and what was carried over from the last server
          writer,    \* "runs", or "sleeps" as px_write paces it
          srv,       \* the sndsrv process
          accepted,  \* units the card took so far
          played,    \* units the device has played
          gone,      \* units whose loss the proxy decided on (see Lose)
          faults

vars == <<ring, px, writer, srv, accepted, played, gone, faults>>

Unit == 1 .. MaxUnits
EmptyRing == [data |-> [i \in 0 .. Size - 1 |-> 0], head |-> 0, tail |-> 0]

\* head - tail in the counters' width
Fill(r) == (r.head - r.tail + Counter) % Counter

\* The n units from the counter `from` on, wrapping at the end of the data.
Slice(r, from, n) == [i \in 1 .. n |-> r.data[(from + i - 1) % Size]]

\* mutant: what lies beyond the end of the data is forgotten
Unread_First(r) == Slice(r, r.tail, IF Fill(r) > Size - (r.tail % Size)
                                    THEN Size - (r.tail % Size) ELSE Fill(r))
Unread(r) == Slice(r, r.tail, Fill(r))

\* mutant: room for one unit too many
Fits_Slack(r, n) == Size - Fill(r) + 1 >= n
Fits(r, n) == Size - Fill(r) >= n

\* The data with s copied in behind the head.
Copied(r, s) == [i \in 0 .. Size - 1 |->
                    LET k == ((i - r.head + Counter) % Size) + 1
                    IN  IF k <= Len(s) THEN s[k] ELSE r.data[i]]

\* mutant: the head counter is not cut to its width
Produce_Wide(r, s) == [r EXCEPT !.data = Copied(r, s), !.head = @ + Len(s)]
\* Copy s behind the head and publish the new head.
Produce(r, s) == [r EXCEPT !.data = Copied(r, s), !.head = (@ + Len(s)) % Counter]

Init ==
    /\ ring = EmptyRing
    /\ px = [attached |-> FALSE, carry |-> <<>>, stale |-> FALSE]
    /\ writer = "runs"
    /\ srv = [pc |-> "off", take |-> <<>>, idle |-> 0]
    /\ accepted = 0 /\ played = {} /\ gone = {} /\ faults = 0

Fault == faults < MaxFaults /\ faults' = faults + 1
Works == UNCHANGED faults
Lose(s) == gone' = gone \cup Range(s)
Goto(pc) == srv' = [srv EXCEPT !.pc = pc, !.take = <<>>]

(***************************************************************************)
(* The client.  A write that does not fit is dropped whole and counted;    *)
(* one that fits is queued, and beyond two periods of backlog the writer   *)
(* sleeps about as long as the excess plays.                               *)
(***************************************************************************)
PxWrite(n) ==
    /\ writer = "runs" /\ px.attached
    /\ accepted + n <= MaxUnits
    /\ IF ~Fits(ring, n)
       THEN /\ writer' = "sleeps"
            /\ UNCHANGED <<ring, accepted>>
       ELSE /\ ring' = Produce(ring, [i \in 1 .. n |-> accepted + i])
            /\ accepted' = accepted + n
            /\ writer' = IF Fill(ring') > 2 * Period THEN "sleeps" ELSE "runs"
    /\ UNCHANGED <<px, srv, played, gone, faults>>

WriterWakes ==
    /\ writer = "sleeps" /\ writer' = "runs"
    /\ UNCHANGED <<ring, px, srv, accepted, played, gone, faults>>

(***************************************************************************)
(* The server.                                                             *)
(***************************************************************************)
\* The process is up, holds the device and has allocated a ring of its own.
SetUp ==
    /\ srv.pc = "off"
    /\ srv' = [pc |-> "attach", take |-> <<>>, idle |-> 0]
    /\ ring' = EmptyRing
    /\ Works /\ UNCHANGED <<px, writer, accepted, played, gone>>

\* The proxy when nothing is carried (any more).
Emptied(attached) == [attached |-> attached, carry |-> <<>>, stale |-> FALSE]

\* SNDSRV_IOC_ATTACH.  What the last server left unread goes to the front of
\* the new ring, unless it is too old.  The carried copy is freed before the
\* card is registered, so a registry without a free slot loses it.
Attach ==
    /\ srv.pc = "attach" /\ ~px.attached
    /\ LET kept == IF px.stale THEN <<>> ELSE px.carry
       IN  \/ /\ Works
              /\ ring' = Produce(EmptyRing, kept)
              /\ px' = Emptied(TRUE)
              /\ Lose(IF px.stale THEN px.carry ELSE <<>>)
              /\ Goto("drain")
           \/ /\ Fault
              /\ px' = Emptied(FALSE)
              /\ Lose(px.carry)
              /\ Goto("close") /\ UNCHANGED ring
    /\ UNCHANGED <<writer, accepted, played>>

\* mutant: a partial period is never flushed
TakeLen_Whole(avail, idle) == IF avail >= Period THEN Period ELSE 0
TakeLen(avail, idle) ==
    IF avail >= Period THEN Period
    ELSE IF avail > 0 /\ idle > IdlePolls THEN avail ELSE 0

\* One turn of the main loop: head, then tail, then a copy of a period out of
\* the ring, or of less after some idle polls.
Poll ==
    /\ srv.pc = "drain"
    /\ LET avail == Fill(ring)
           idle  == IF avail \in 1 .. Period - 1
                    THEN Min({srv.idle + 1, IdlePolls + 1})   \* matters no further
                    ELSE srv.idle
           take  == TakeLen(avail, idle)
       IN  srv' = IF take > 0
                  THEN [pc |-> "submit", take |-> Slice(ring, ring.tail, take), idle |-> 0]
                  ELSE [srv EXCEPT !.idle = IF avail = 0 THEN 0 ELSE idle]
    /\ Works /\ UNCHANGED <<ring, px, writer, accepted, played, gone>>

\* tx_period: the device plays the period and completes it.
Plays ==
    /\ srv.pc = "submit"
    /\ played' = played \cup Range(srv.take)
    /\ srv' = [srv EXCEPT !.pc = "advance"]
    /\ Works /\ UNCHANGED <<ring, px, writer, accepted, gone>>

\* A timeout or a device error: whether it played is not known.  The tail is
\* not advanced and the device is given back.
TxFails ==
    /\ srv.pc = "submit" /\ Fault
    /\ played' \in {played, played \cup Range(srv.take)}
    /\ Goto("close")
    /\ UNCHANGED <<ring, px, writer, accepted, gone>>

Advance ==
    /\ srv.pc = "advance"
    /\ ring' = [ring EXCEPT !.tail = (@ + Len(srv.take)) % Counter]
    /\ Goto("drain")
    /\ Works /\ UNCHANGED <<px, writer, accepted, played, gone>>

\* The server dies; in "submit" the device may have played what it was given.
Crash ==
    /\ srv.pc \in {"attach", "drain", "submit", "advance"} /\ Fault
    /\ played' \in IF srv.pc = "submit" THEN {played, played \cup Range(srv.take)} ELSE {played}
    /\ Goto("close")
    /\ UNCHANGED <<ring, px, writer, accepted, gone>>

\* The handle is closed (AuHwdevCapReleased): px_detach copies out what the
\* server had not consumed, and the ring's memory is freed after that.
Close ==
    /\ srv.pc = "close"
    /\ IF px.attached
       THEN LET pending == Unread(ring)
            IN  \/ /\ px' = [attached |-> FALSE, carry |-> pending, stale |-> FALSE]
                   /\ Works /\ UNCHANGED gone
                \/ /\ pending # <<>> /\ Fault               \* kmalloc failed
                   /\ px' = Emptied(FALSE)
                   /\ Lose(pending)
       ELSE Works /\ UNCHANGED <<px, gone>>
    /\ ring' = EmptyRing
    /\ Goto("off")
    /\ UNCHANGED <<writer, accepted, played>>

\* PX_CARRY_MAX_AGE_MS pass before a server attaches.
CarryAges ==
    /\ ~px.attached /\ px.carry # <<>> /\ ~px.stale
    /\ px' = [px EXCEPT !.stale = TRUE]
    /\ UNCHANGED <<ring, writer, srv, accepted, played, gone, faults>>

Server == SetUp \/ Attach \/ Poll \/ Plays \/ Advance \/ Close

Next ==
    \/ \E n \in 1 .. Size : PxWrite(n)
    \/ WriterWakes \/ Server \/ TxFails \/ Crash \/ CarryAges

Spec == Init /\ [][Next]_vars

\* The server runs and is started again after it ended (the faults are bounded);
\* the device completes what it is given.
SpecFair == Spec /\ WF_vars(Server)

-----------------------------------------------------------------------------
(***************************************************************************)
(* Properties                                                              *)
(***************************************************************************)
\* The ring, the proxy, the server and the counts keep their types.
SndTypeOK ==
    /\ ring \in [data : [0 .. Size - 1 -> 0 .. MaxUnits],
                 head : 0 .. Counter - 1, tail : 0 .. Counter - 1]
    /\ px.attached \in BOOLEAN /\ px.stale \in BOOLEAN
    /\ Range(px.carry) \subseteq Unit
    /\ writer \in {"runs", "sleeps"}
    /\ srv.pc \in {"off", "attach", "drain", "submit", "advance", "close"}
    /\ Len(srv.take) <= Period /\ srv.idle \in 0 .. IdlePolls
    /\ accepted \in 0 .. MaxUnits /\ played \subseteq Unit /\ gone \subseteq Unit

Held == (IF px.attached THEN Range(Unread(ring)) ELSE {}) \cup Range(px.carry)

\* A crash does not eat what the clients already wrote (sndproxy.c:48): each
\* accepted unit was played, is still queued in the ring, is carried over to
\* the next server, or is one whose loss the proxy decided on.
NothingEaten == 1 .. accepted \subseteq played \cup Held \cup gone

\* The device plays units in the order they were written: none is played before
\* an earlier one that was not lost on purpose, though the counters wrap, a
\* period straddles the end of the data, or a server picks up another's rest.
PlayedInOrder ==
    \A i \in played : 1 .. i \subseteq played \cup gone

\* Every accepted unit is played in the end or lost on purpose, a last partial
\* period included.
AllHeard == \A i \in Unit : (accepted >= i) ~> (i \in played \cup gone)
=============================================================================
