CONSTANTS
    JobIds = {j1}
    Keys = {k1}
    NoKey = NoKey
    Kinds = {aKind}
    KindOf <- OneKind
    aKind = aKind
    Workers = {w1, w2}
    Ids = {anId}
    anId = anId
    IdOf <- OneId
    NoOne = NoOne
    NoLease = NoLease
    NoClaim = NoClaim
    Callers = {c1}
    Modes = {TRUE, FALSE}
    MaxAttempts = 3
    TTL = 2
    RetryDelay = 1
    StaleAfter = 1
    Retention = 0
    MaxLag = 1
    AdminAllowed = FALSE
    ClaimCap = 4
    Timed = {w1}
    NoRetryKinds = {}
    PolledKinds = {aKind}
    PollCap = 1
SPECIFICATION SteadySpec
INVARIANTS
    WithinBudget
    NoOverlap
    OneReportPerJob
PROPERTIES
    EverythingSettles
