SPECIFICATION FairSpec
CONSTANTS
    k1 = k1
    Key = {k1, k2}
    Stored = {a, empty}
    Raw = {a, empty}
    Empty = empty
    Absent = Absent
    Default = Default
    Malformed <- MCMalformed
    MaxWrites = 2
    MaxFails = 1
    MaxDrops = 1
INVARIANTS
    TypeOK
    LastMatchesView
    QuietIsCurrent
PROPERTIES
    Implements
    Converges
    WatchReturns
CHECK_DEADLOCK FALSE
