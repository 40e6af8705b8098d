SPECIFICATION SpecFair
CONSTANTS
    Width = 3
    Height = 1
    MaxPaints = 2
    MaxFaults = 2
INVARIANTS
    GpuTypeOK
    NoPaintLost
    FrameHasPresenter
    BackingAlive
PROPERTY
    ScreenCatchesUp
