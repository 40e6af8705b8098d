CONSTANTS
    S1 = S1
    C1 = C1
    C2 = C2
    C3 = C3
    s1 = s1
    c1 = c1
    c2 = c2
    c3 = c3
    Procs = {S1, C1, C2}
    Threads = {s1, c1, c2}
    Users = {c1, c2}
    Mortal = {S1, C1}
    ProcOf <- MCProcOf
    Callers = {}
    Daemons = {S1}
    Names = {"fs"}
    Endpoint = "fs"
    None = None
    MaxEp = 1
    MaxCalls = 2
    EpQueue = 2
    MaxServe = 1
    MaxReq = 2
    MaxGen = 2
    MaxHist = 2
    MaxOps = 2
    SrvTimeout = 1
    HistStale = 3
    MaxChunks = 2
    Uses <- MCUses
SPECIFICATION SrvSpec
CHECK_DEADLOCK FALSE
INVARIANTS
    PositionMatchesReturn
    ReportedIsWritten
    AskedOnce
    NoStrayHistory
