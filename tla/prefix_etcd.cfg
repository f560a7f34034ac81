SPECIFICATION Spec
CONSTANTS
    Char = {x, y, slash}
    Slash = slash
    MaxLen = 3
    MaxKeys = 2
INVARIANTS
    EtcdCoversKeys
CHECK_DEADLOCK FALSE
