SPECIFICATION FairSpec
CONSTANTS
    s0 = s0
    s1 = s1
    Seats <- TwoSeats
    Inputs = {n}
    Neutral = n
    NoRow = noRow
    Delay = 1
    NewDelays <- NoChange
    MinDelay = 1
    MaxDelay = 1
    Redundancy = 1
    Slop = 1
    Ancient = 2
    TrailFloor = 0
    Margin = 0
    History = 4
    MaxTick = 2
    MaxEpoch = 0
    Lossy = TRUE
PROPERTY EveryFramePlayed
