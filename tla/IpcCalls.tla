------------------------------ MODULE IpcCalls ------------------------------
(***************************************************************************)
(* What the kernel IPC promises the clients of its servers (BaseHdr/       *)
(* auipc.h), without endpoints, tables, queues or servers: a thread asks,  *)
(* at most one server takes the request, once, its answer or a failure is  *)
(* final, and the thread gets its answer to this very request, a failure,  *)
(* or gives up.  AuIpc implements it (AuIpcRefines).                       *)
(***************************************************************************)
EXTENDS Naturals

CONSTANTS Threads, MaxReq

VARIABLE client   \* of each thread: where its request is, and the answer to it

NoAnswer == <<>>

Init == client = [t \in Threads |-> [phase |-> "idle", number |-> 0, answer |-> NoAnswer]]

\* What the client of record c, thread t, may become.
Ask(c) ==
    IF c.phase = "idle" /\ c.number < MaxReq
    THEN {[phase |-> "asked", number |-> c.number + 1, answer |-> NoAnswer]} ELSE {}
Take(c) == IF c.phase = "asked" THEN {[c EXCEPT !.phase = "taken"]} ELSE {}
Answer(t, c) ==
    IF c.phase = "taken"
    THEN {[phase |-> "answered", number |-> c.number, answer |-> <<t, c.number>>]} ELSE {}
Fail(c) == IF c.phase \in {"asked", "taken"} THEN {[c EXCEPT !.phase = "failed"]} ELSE {}
Idle(c) == [phase |-> "idle", number |-> c.number, answer |-> NoAnswer]

\* FETCH delivers the answer or the failure, or gives up on the request.
Return(t) ==
    /\ client[t].phase # "idle"
    /\ client' = [client EXCEPT ![t] = Idle(@)]

\* A server's death fails the requests of many threads at once, also in the
\* step in which one more thread asks.
Moves(t) ==
    LET c == client[t] IN {c} \cup Ask(c) \cup Take(c) \cup Answer(t, c) \cup Fail(c)

Proceed ==
    /\ DOMAIN client' = Threads
    /\ \A t \in Threads : client'[t] \in Moves(t)

Next == Proceed \/ \E t \in Threads : Return(t)

Safe == Init /\ [][Next]_client

\* "The caller sleeps until the server REPLYs, the timeout expires, or the
\* server dies": every request comes back.
Spec == Safe /\ \A t \in Threads : WF_client(Return(t))
=============================================================================
