SPECIFICATION Spec
CONSTANTS
    Producers = {p1, p2}
    Size = 2
    MaxMessages = 3
INVARIANT
    NothingOverwritten
