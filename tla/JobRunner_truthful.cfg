CONSTANTS
    JobIds = {j1}
    Keys = {k1}
    NoKey = NoKey
    Kinds = {aKind}
    KindOf <- OneKind
    aKind = aKind
    Workers = {w1, w2}
    Ids = {anId}
    anId = anId
    IdOf <- OneId
    NoOne = NoOne
    NoLease = NoLease
    NoClaim = NoClaim
    Callers = {c1}
    Modes = {TRUE}
    MaxAttempts = 2
    TTL = 1
    RetryDelay = 1
    StaleAfter = 1
    Retention = 0
    MaxLag = 0
    AdminAllowed = FALSE
    ClaimCap = 3
    Timed = {w1}
    NoRetryKinds = {aKind}
    PolledKinds = {}
    PollCap = 0
SPECIFICATION RunnerSpec
INVARIANTS
    TruthfulReport
