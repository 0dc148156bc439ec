CONSTANTS
    JobIds = {j1}
    Keys = {k1}
    NoKey = NoKey
    Kinds = {aKind}
    KindOf <- OneKind
    aKind = aKind
    Workers = {w1}
    Ids = {anId}
    anId = anId
    IdOf <- OneId
    NoOne = NoOne
    NoLease = NoLease
    NoClaim = NoClaim
    Callers = {c1}
    Modes = {FALSE}
    MaxAttempts = 3
    TTL = 1
    RetryDelay = 1
    StaleAfter = 1
    Retention = 0
    MaxLag = 0
    AdminAllowed = FALSE
    ClaimCap = 4
    None = None
    Backends = {"cdp", "external"}
    OthersCap = 1
SPECIFICATION LaneSpec
INVARIANTS
    NeverDuplicate
    WriteAhead
PROPERTIES
    ResearchSettles
