SPECIFICATION FairSpec
CONSTANTS
    N = 2
    Users = {u1}
    MaxId = 1
    MaxEpoch = 0
    MaxFailures = 1
    MaxApplied = 0
    MaxInFlight = 1
    Late = {2}
    Faulty = {2}
    Timely = FALSE
PROPERTIES
    WaitReturns
    CommittedEverywhere
INVARIANTS
    TypeOK
    NothingLost
