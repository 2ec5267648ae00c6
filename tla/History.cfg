\* A client that walks the history with an API key, and one that spends its limits.
CONSTANTS
    Clients = {w, c}
    Walker = w
    Scopes <- MCScopes
    Limit <- MCLimit
    Window <- MCWindow
    NoExpiry = none
    MaxFailures = 1
    MaxId = 3
    Limits <- MCLimits
    HISTORY_PAGE_SIZE = 1
    HISTORY_MAX_PAGE_SIZE = 2
SPECIFICATION HistorySpec
INVARIANT WalkExact
PROPERTIES WindowOrFailure WalkAdvances NoLockout
CHECK_DEADLOCK FALSE
