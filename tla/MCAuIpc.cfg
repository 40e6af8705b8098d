CONSTANTS
    S1 = S1
    S2 = S2
    C1 = C1
    C2 = C2
    s1 = s1
    s2 = s2
    c1 = c1
    c2 = c2
    Procs = {S1, S2, C1}
    Threads = {s1, s2, c1}
    ProcOf <- MCProcOf
    Mortal = {S1, C1}
    Callers = {S1, S2, C1}
    Daemons = {S1, S2}
    Names = {"n", "m"}
    MaxEp = 2
    MaxCalls = 2
    EpQueue = 1
    MaxServe = 1
    MaxReq = 1
    MaxGen = 2
    None = None
SPECIFICATION Spec
CHECK_DEADLOCK FALSE
INVARIANTS
    TypeOK
    QueuedCallsReachable
    NoWaiterWithRequests
    OwnerNotReaped
    NamesUnique
    ClientsWoken
PROPERTIES
    HandlesNeverReused
