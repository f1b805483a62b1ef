SPECIFICATION StateFairSpec
CONSTANTS
    MaxGuests = 2
    MaxChunks = 2
    Gens <- MCGens
    Scenarios <- MCScenarios
INVARIANTS
    SentMeansReceived
    AppliedOnce
    StallMatches
PROPERTIES
    TransferEnds
    ParkedReleased
CHECK_DEADLOCK FALSE
