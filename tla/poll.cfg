SPECIFICATION FairSpec
CONSTANTS
    k1 = k1
    b = b
    Key = {k1}
    Raw = {a, b, empty, null}
    Absent = Absent
    Default = Default
    Malformed <- MCMalformed
    Watcher = {w1, w2}
    Nobody = Nobody
    Empty = empty
    Unreadable = {null}
    MissingIsError = TRUE
    MaxWrites = 2
INVARIANTS
    TypeOK
    LastMatchesView
    Mirror
PROPERTIES
    Implements
    Converges
    WatchReturns
CHECK_DEADLOCK FALSE
