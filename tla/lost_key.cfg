SPECIFICATION LocalSpec
CONSTANTS
    Owned = {"a"}
    MaxKeys = 2
    MaxCrashes = 0
    NoAcct = NoAcct
INVARIANT
    KeyKept
CHECK_DEADLOCK FALSE
