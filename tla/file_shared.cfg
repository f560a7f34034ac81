SPECIFICATION Spec
CONSTANTS
    k1 = k1
    b = b
    Key = {k2, k3}
    Raw = {a}
    Absent = Absent
    Default = Default
    Malformed <- NoneMalformed
    Watcher = {w1, w2}
    MaxWrites = 2
    MaxErrors = 1
INVARIANTS
    ViewFollowsValues
    QuietIsCurrent
CHECK_DEADLOCK FALSE
