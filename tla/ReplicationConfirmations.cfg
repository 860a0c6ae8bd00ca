SPECIFICATION Spec
CONSTANTS
    N = 2
    Users = {u1}
    MaxId = 1
    MaxEpoch = 0
    MaxFailures = 1
    MaxApplied = 2
    MaxInFlight = 2
    Late = {}
    Faulty = {}
    Timely = TRUE
INVARIANTS
    CommittedAfterConfirmations
