CONSTANTS
    Threads = {1, 2, 3, 4}
    RealTime = {}
    Period <- MCPeriod
    P0 = P0
    P1 = P1
    P2 = P2
    Procs = {P0, P1, P2}
    root = P0
    Main <- MCMain
    SubOf <- MCSubOf
    Signalled = {2, 3}
    MaxWaits = 2
SPECIFICATION Spec
CHECK_DEADLOCK FALSE
INVARIANTS
    ProcTypeOK
    WaitersWoken
    DeathIsComplete
    ReapedUnlinked
