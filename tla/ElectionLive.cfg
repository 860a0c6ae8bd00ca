SPECIFICATION ConnectedSpec
CONSTANTS
    N = 2
    EpochModulus = 2
    MaxInFlight = 2
    Late = {}
    Faulty = {0}
    Timely = TRUE
PROPERTIES
    EventuallyStable
