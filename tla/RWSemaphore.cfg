SPECIFICATION FairSpec
CONSTANTS
    Readers = {r1, r2, r3}
    Writer = w
INVARIANTS
    TypeOK
    IInv
    MutualExclusion
    NoLostWakeup
PROPERTIES
    WriterIsServed
    ReaderIsServed
    ImplementsLock
