SPECIFICATION FairSpec
CONSTANTS
    d1 = d1
    d2 = d2
    k1 = k1
    r1 = r1
    Key = {k1}
    Dc = {d1, d2}
    Seed = {s1}
    Raw = {r1}
    Malformed <- MCMalformed
    Config <- CollidingConfig
    Watcher = {w1, w2}
    Stopper = {p1, p2}
    PrefixWatch = TRUE
    NoEntry = NoEntry
    Deleted = Deleted
    NoCall = NoCall
INVARIANTS
    TypeOK
    Provenance
    StopDrains
PROPERTIES
    NoStoreAfterStop
    StopTerminates
CHECK_DEADLOCK FALSE
