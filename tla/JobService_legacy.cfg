CONSTANTS
    JobIds = {j1, j2}
    Keys = {k1}
    NoKey = NoKey
    Kinds = {aKind}
    KindOf <- OneKind
    aKind = aKind
    Workers = {w1, w2}
    Ids = {anId}
    anId = anId
    IdOf <- OneId
    NoOne = NoOne
    NoLease = NoLease
    NoClaim = NoClaim
    Callers = {c1, c2}
    Modes = {FALSE}
    MaxAttempts = 1
    TTL = 1
    RetryDelay = 0
    StaleAfter = 1
    Retention = 0
    MaxLag = 0
    AdminAllowed = TRUE
    ClaimCap = 2
SYMMETRY SymmetricLegacy
SPECIFICATION Spec
INVARIANTS
    OneActivePerKey
PROPERTIES
    TerminalAbsorbing
