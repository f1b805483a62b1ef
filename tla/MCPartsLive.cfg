SPECIFICATION PartsSpec
CONSTANTS
    Parts = {"peers", "gate", "lobby", "ice"}
    LiveSeats = {1, 2}
    Silence = 1
    LinkBudget = 2
    MaxTouches = 1
    MaxByeLoss = 3
    GateSeats = {0, 1, 2}
    Rooms <- MCRooms
    Clients = {1, 2}
    PendCap = 1
    LobbyPlans <- MCLobby
    IceGuests = {1, 2}
    GenMax = 3
    IcePlans <- MCWaiting
INVARIANTS StartVerified ViewsAgree ReadyAgain
PROPERTIES DepartureNoticed EveryoneLeaves FramesSettle LinkedUnlessFailed
CHECK_DEADLOCK FALSE
