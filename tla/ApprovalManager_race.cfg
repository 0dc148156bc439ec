CONSTANTS
    owner = owner
    tick = tick
    Threads = {owner, tick}
    Duties <- Split
    Sweeper = tick
    Inodes = {i1, i2, i3}
    NoInode = NoInode
    TTL = 0
    CacheTTL = 0
    TokenCap = 2
    Horizon = 1
SPECIFICATION FairSpec
INVARIANTS
    OneWriter
    OneVerdict
    NewestToken
    StaleSinceScan
PROPERTIES
    PendingSettles
    ImplementsDecision
