CONSTANTS
    JobIds = {j1}
    Keys = {k1}
    NoKey = NoKey
    Kinds = {aKind}
    KindOf <- OneKind
    aKind = aKind
    Workers = {w1, w2}
    Ids = {anId}
    anId = anId
    IdOf <- OneId
    NoOne = NoOne
    NoLease = NoLease
    NoClaim = NoClaim
    Callers = {c1}
    Modes = {TRUE}
    MaxAttempts = 2
    TTL = 2
    RetryDelay = 1
    StaleAfter = 1
    Retention = 0
    MaxLag = 1
    AdminAllowed = TRUE
    ClaimCap = 3
SPECIFICATION FairSpec
INVARIANTS
    LeaseColumns
    FencingTokens
PROPERTIES
    NoLateWrite
    LateCloseIsNoOp
    FreedOnlyAfterExpiry
    StrandedRecovered
    ImplementsQueue
