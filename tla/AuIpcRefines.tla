---------------------------- MODULE AuIpcRefines ----------------------------
(* AuIpc implements IpcCalls: the refinement mapping. *)
EXTENDS AuIpc

\* The request a thread waits for, as its call's slot tells.
Phase(t) ==
    IF pend[t] = NoId THEN "idle"
    ELSE IF ~MyCall(t) THEN "failed"
    ELSE LET state == call[pend[t][2]].state
         IN CASE state = "QUEUED"  -> "asked"
              [] state = "SERVING" -> "taken"
              [] state = "DONE"    -> "answered"
              [] OTHER             -> "failed"

Client(t) ==
    [phase  |-> Phase(t),
     number |-> cnt[t],
     answer |-> IF Phase(t) = "answered" THEN call[pend[t][2]].resp ELSE <<>>]

Calls == INSTANCE IpcCalls WITH client <- [t \in Threads |-> Client(t)]

\* Each request is taken by at most one server, once, and comes back: with the
\* answer to it and no other, with a failure, or given up - though call slots
\* and their ids are reused, servers die with requests queued and being served,
\* and late replies arrive.  Under ServersFair this takes no timeout.
RequestsServed == Calls!Spec
=============================================================================
