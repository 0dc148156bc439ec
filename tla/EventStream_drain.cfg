CONSTANTS
    Events = {e1, e2}
    NoEvent = NoEvent
    Emitters = {m1}
    Stores = {s1}
    Drainer = d1
    Threads <- AllThreads
    Writes <- AllWrites
    NoThread = NoThread
    Other = Other
    LockThreshold = 2
    SinkBound = TRUE
    RecursionLimit = 2
    SwapCap = 1
    MaxTries = 2
    MaxLines = 2
SPECIFICATION FairSpec
INVARIANTS
    StreamTypeOK
    AtMostOnce
    MarkedIsStored
    VoidsBounded
PROPERTIES
    EmitReturns
    SpillConverges
    ImplementsLog
