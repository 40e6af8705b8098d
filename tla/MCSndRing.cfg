SPECIFICATION SpecFair
CONSTANTS
    Size = 4
    Period = 2
    Counter = 8
    IdlePolls = 1
    MaxUnits = 9
    MaxFaults = 2
INVARIANTS
    SndTypeOK
    NothingEaten
    PlayedInOrder
PROPERTY
    AllHeard
