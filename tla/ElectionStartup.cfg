SPECIFICATION Spec
CONSTANTS
    N = 2
    EpochModulus = 3
    MaxInFlight = 1
    Late = {0}
    Faulty = {}
    Timely = TRUE
INVARIANTS
    IInv
    FollowersShareEpoch
PROPERTIES
    ImplementsLeadership
