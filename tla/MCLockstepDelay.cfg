SPECIFICATION Spec
CONSTANTS
    s0 = s0
    s1 = s1
    Seats <- TwoSeats
    Inputs = {n}
    Neutral = n
    NoRow = noRow
    Delay = 1
    NewDelays <- TooLong
    MinDelay = 1
    MaxDelay = 2
    Redundancy = 1
    Slop = 1
    Ancient = 2
    TrailFloor = 0
    Margin = 0
    History = 6
    MaxTick = 3
    MaxEpoch = 0
    Lossy = FALSE
INVARIANTS TypeOK NeverStranded
PROPERTY ImplementsSharedLog
