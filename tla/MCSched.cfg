CONSTANTS
    Threads = {1, 2, 3}
    RealTime = {1, 2}
    Unmasked = {1, 2}
    Period <- MCPeriod
    Wcet <- MCWcet
    MaxNap = 2
SPECIFICATION SpecFair
CHECK_DEADLOCK FALSE
INVARIANTS
    SchedTypeOK
    ListsValid
    MaskedFramesFit
    DeadlinesHeld
PROPERTY
    EveryThreadRuns
