CONSTANTS
    Threads = {w1, w2}
    MaxAttempts = 1
    MaxDeferrals = 1
    NoRun = NoRun
    NoErrand = NoErrand
    FaultCap = 1
SPECIFICATION FairSpec
INVARIANTS
    OneRun
PROPERTIES
    EndedRows
    OrphansEnd
    TaskSettles
CHECK_DEADLOCK FALSE
