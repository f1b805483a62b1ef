SPECIFICATION Spec
CONSTANTS
    s0 = s0
    s1 = s1
    Seats <- TwoPeers
    Inputs = {n, a}
    Neutral = n
    NoRow = noRow
    Delay = 1
    NewDelays <- NoChange
    MinDelay = 1
    MaxDelay = 1
    Redundancy = 1
    Slop = 1
    Ancient = 2
    TrailFloor = 0
    Margin = 0
    History = 4
    MaxTick = 0
    MaxEpoch = 1
    Lossy = FALSE
INVARIANT NoFalseDesync
SYMMETRY Peers
VIEW Present
