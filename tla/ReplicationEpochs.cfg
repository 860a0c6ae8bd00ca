SPECIFICATION Spec
CONSTANTS
    N = 1
    Users = {u1}
    MaxId = 2
    MaxEpoch = 2
    MaxFailures = 1
    MaxApplied = 1
    MaxInFlight = 1
    Late = {}
    Faulty = {}
    Timely = FALSE
PROPERTIES
    NoStaleCommit
CONSTRAINT OneAges
ACTION_CONSTRAINT AgesWhenRead
