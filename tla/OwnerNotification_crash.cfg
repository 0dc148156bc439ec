CONSTANTS
    JobIds = {j1}
    Keys = {k1}
    NoKey = NoKey
    Kinds = {aKind}
    KindOf <- OneKind
    aKind = aKind
    Workers = {w1}
    Ids = {anId}
    anId = anId
    IdOf <- OneId
    NoOne = NoOne
    NoLease = NoLease
    NoClaim = NoClaim
    Callers = {c1}
    Modes = {FALSE}
    MaxAttempts = 3
    TTL = 2
    RetryDelay = 1
    StaleAfter = 1
    Retention = 0
    MaxLag = 1
    AdminAllowed = FALSE
    ClaimCap = 4
    StaleNotice = 2
    SendCap = 2
SPECIFICATION NoticeSpec
PROPERTIES
    AtLeastOnce
