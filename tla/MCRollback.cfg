SPECIFICATION RbSpec
CONSTANTS
    Seats <- MCSeats
    SealSpan = 8
    HcRing = 8
    MaxTick = 4
    EarlyMax = 3
    Scenarios <- MCScenarios
INVARIANTS
    CorrectionKeptUnlessSlipped
    ResolvedIsTrue
    CommitAgrees
    DrainedIdle
PROPERTY Settles
