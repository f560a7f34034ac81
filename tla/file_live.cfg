SPECIFICATION FairSpec
CONSTANTS
    k1 = k1
    b = b
    Key = {k1, k2}
    Raw = {a, b}
    Absent = Absent
    Default = Default
    Malformed <- MCMalformed
    Watcher = {w1}
    MaxWrites = 2
    MaxErrors = 1
INVARIANTS
    TypeOK
PROPERTIES
    Implements
    Converges
    WatchReturns
CHECK_DEADLOCK FALSE
