SPECIFICATION PartsSpec
CONSTANTS
    Parts = {"profiles", "boot", "queues", "chain", "sched", "delay", "xfer", "lan"}
    Seats <- ThreeSeats
    Roster <- MCRoster
    MaxProfile = 1
    Hardware = {"x64"}
    Qualifications = {"v1"}
    Lossy = FALSE
    Occupied <- ThreeSeats
    Config <- MixedDelays
    Version <- SameWire
    MaxTick = 2
    BootLossy = FALSE
    Remote = {1, 2}
    CtrlCap = 2
    FcCap = 2
    EpochMod = 128
    MaxArrivals = 4
    CtlScenarios <- MCArrivals
    HcRing = 2
    ChainPeers = {1, 2}
    LastTick = 3
    Histories <- MCHistories
    Budget = 1
    StartDelay = 2
    Delays = {3}
    OffStreak = 1
    AheadArm = 1
    AheadEvery = 1
    DebtCap = 1
    LockTicks = 2
    Plans <- MCMatches
    AdWindows <- MCWindows
    AdStarts = {2, 10}
    AdFloor = 3
    AdMax = 8
    LeadMargin = 2
    Cooldown = 3
    BumpCooldown = 2
    StormEnters = 2
    MaxEvals = 5
    Takers = {1, 2}
    ArchiveLen = 2
    XferWindow = 2
    XferReady = 1
    HoldCap = 2
    XferPlans <- MCTransfers
    LanGuests = {1, 2}
    LanPlans <- MCRoomPlans
INVARIANTS
    PartsTypeOK Agreement NoFrameBeforeBarrier NobodyRunsAlone PrefixHeld
    DigestsHonest SkewBounded BehindIsFed
    PackageIntact SeatKept StartedWithHostCaps
PROPERTIES LowersAreSafe LostOnlyToNewer
CHECK_DEADLOCK FALSE
