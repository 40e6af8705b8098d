CONSTANTS
    Services = {"a"}
    Mgr = "svcmgr"
    Pids <- MCPids
    MaxRestarts = 2
    Window = 4
    Cooldown = 1
    Stable = 3
    MaxCooldown = 3
    Backoff = 1
    RetryDelay = 1
    MgrRestarts = 1
    MgrWindow = 2
    MaxFaults = 1
    MaxFails = 1
SPECIFICATION SpecFair
PROPERTIES
    SupervisorReturns
