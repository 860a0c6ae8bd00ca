SPECIFICATION FairSpec
CONSTANTS
    Producers = {p1, p2}
    Size = 2
    MaxMessages = 5
INVARIANT
    IInv
PROPERTIES
    FirstInFirstOut
    AcceptedIsSent
