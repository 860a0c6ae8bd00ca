SPECIFICATION Spec
CONSTANTS
    N = 2
    Users = {u1, u2}
    MaxId = 2
    MaxEpoch = 0
    MaxFailures = 1
    MaxApplied = 2
    MaxInFlight = 1
    Late = {}
    Faulty = {0, 2}
    Timely = TRUE
INVARIANTS
    AppliedAtMostOnce
    SameOrder
PROPERTY
    ImplementsLog
SYMMETRY UserSymmetry
CHECK_DEADLOCK FALSE
CONSTRAINTS OneFails OneAges
ACTION_CONSTRAINTS AgesWhenRead OneCommandEach LeaderGoesOn
