SPECIFICATION FairSpec
CONSTANTS
    MaxLeaders = 3
    MaxMessages = 2
    MaxCommands = 1
    RingSize = 2
    OthersOnline = TRUE
INVARIANTS
    TypeOK
    SaysClose
    ShownOnce
PROPERTIES
    NotAbandoned
    EndsWhenStopped
    ServedOrEnds
CHECK_DEADLOCK FALSE
