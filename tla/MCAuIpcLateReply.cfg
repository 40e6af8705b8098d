CONSTANTS
    S1 = S1
    S2 = S2
    C1 = C1
    C2 = C2
    s1 = s1
    s2 = s2
    c1 = c1
    c2 = c2
    Procs = {S1, C1, C2}
    Threads = {s1, c1, c2}
    ProcOf <- MCProcOf
    Mortal = {S1, C1, C2}
    Callers = {C1, C2}
    Daemons = {S1}
    Names = {"n"}
    MaxEp = 1
    MaxCalls = 2
    EpQueue = 2
    MaxServe = 2
    MaxReq = 1
    MaxGen = 1
    None = None
SPECIFICATION Spec
CHECK_DEADLOCK FALSE
INVARIANTS
    AnswersMatch
