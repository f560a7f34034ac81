SPECIFICATION Spec
CONSTANTS
    d1 = d1
    d2 = d2
    Char = {"a", "b", "app", Slash}
    Slash = Slash
    Dc = {d1, d2}
    Node <- MCNode
    Config <- MCConfig
    Key <- MCKey
    Prefix <- MCPrefix
    NoEntry = NoEntry
    MaxDepth = 4
INVARIANTS
    NothingLeftOut
    LastFieldWins
PROPERTIES
    RegistersAsSDK
CHECK_DEADLOCK FALSE
