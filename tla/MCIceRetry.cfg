SPECIFICATION PartsSpec
CONSTANTS
    Parts = {"ice"}
    LiveSeats = {1, 2}
    Silence = 1
    LinkBudget = 2
    MaxTouches = 1
    MaxByeLoss = 3
    GateSeats = {0, 1, 2}
    Rooms <- MCRooms
    Clients = {1, 2}
    PendCap = 1
    LobbyPlans <- MCLobby
    IceGuests = {1, 2}
    GenMax = 3
    IcePlans <- OneFailure
PROPERTY LinkedInTheEnd
CHECK_DEADLOCK FALSE
