SPECIFICATION StartSpec
CONSTANTS
    Seats <- TwoSeats
    Roster <- FullRoster
    MaxProfile = 0
    Hardware = {"x64"}
    Qualifications = {"v1", "v2"}
    Lossy = TRUE
    Occupied <- TwoSeats
    Config <- HostDiffers
    Version <- SameWire
    MaxTick = 1
    BootLossy = TRUE
INVARIANTS QuietOnlyWhenHeard
PROPERTIES RoomAgrees EveryoneRuns
CHECK_DEADLOCK FALSE
