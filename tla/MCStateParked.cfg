SPECIFICATION StateSpec
CONSTANTS
    MaxGuests = 2
    MaxChunks = 2
    Gens <- MCGens
    Scenarios <- Reprobed
INVARIANT MatchMeansAnswered
CHECK_DEADLOCK FALSE
