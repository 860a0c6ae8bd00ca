SPECIFICATION Spec
CONSTANTS
    a = a
    b = b
    t1 = t1
    t2 = t2
    t3 = t3
    Names <- MCNames
    NoName = none
    EndsWith <- MCEndsWith
    Threads <- MCThreads
    UserOf <- MCUserOf
    MaxSessions = 1
    BoxSize = 3
    Followees <- MCFollowees
    MaxMessages = 1
    MaxFollows = 1
    MaxLag = 1
    MaxCancels = 1
    MaxTakeOvers = 1
INVARIANTS
    TypeOK
    SessionAccounting
    AtMostMaxSessions
    BackupNeverFails
    BackupKnowsClients
    BackupForgetsNoFollower
    MessageKept
    ShownIsMarked
    NoDeadlock
SYMMETRY MCSymmetry
