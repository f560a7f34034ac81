SPECIFICATION Spec
CONSTANTS
    Char = {x, y, slash}
    Slash = slash
    MaxLen = 3
    MaxKeys = 3
INVARIANTS
    LongestCommonPrefix
    SiblingsAreFound
CHECK_DEADLOCK FALSE
