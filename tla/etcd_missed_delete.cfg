SPECIFICATION Spec
CONSTANTS
    k1 = k1
    b = b
    Key = {k1, k2}
    Raw = {a, b}
    Absent = Absent
    Default = Default
    Malformed <- MCMalformed
    MaxWrites = 2
    MaxDrops = 1
    MaxAttempt = 6
INVARIANTS
    MissedChangesCaught
CHECK_DEADLOCK FALSE
