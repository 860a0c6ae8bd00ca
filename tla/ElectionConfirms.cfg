SPECIFICATION LedSpec
CONSTANTS
    N = 2
    EpochModulus = 3
    MaxInFlight = 1
    Late = {}
    Faulty = {0}
    Timely = TRUE
INVARIANTS
    ConfirmsToLeader
