CONSTANTS
    S1 = S1
    S2 = S2
    C1 = C1
    C2 = C2
    s1 = s1
    s2 = s2
    c1 = c1
    c2 = c2
    Procs = {S1, S2, C1, C2}
    Threads = {s1, s2, c1, c2}
    ProcOf <- MCProcOf
    Mortal = {S1, S2}
    Callers = {C1, C2}
    Daemons = {S1, S2}
    Names = {"n"}
    MaxEp = 2
    MaxCalls = 2
    EpQueue = 2
    MaxServe = 1
    MaxReq = 2
    MaxGen = 2
    None = None
SPECIFICATION SpecServersFair
CHECK_DEADLOCK FALSE
PROPERTY
    RequestsServed
