SPECIFICATION Spec
CONSTANTS
    Meaning = {v1, big}
    Wide = {big}
    Nil = Nil
    NoEntry = NoEntry
    None = None
    Deleted = Deleted
    Error = Error
    Unhandled = Unhandled
INVARIANTS
    DocumentedTypesParse
CHECK_DEADLOCK FALSE
