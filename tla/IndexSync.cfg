SPECIFICATION SessionsAndCalls
CONSTANTS
    Session = {s1, s2}
    Nobody = Nobody
    root = root
    deep = deep
    Scope = {root, deep}
    Calls <- SomeCalls
    INDEX_LOCK_ATTEMPTS = 2
    MaxItems = 2
    MaxMoves = 1
    MaxSessions = 2
    None = None
    Shared <- SomeShared
    MaxGiven = 3
    MaxCalls = 2
    MaxTries = 2
INVARIANTS DocumentsMatchStore MissingIsExplained SurfacesAgree CallsTakeEffectOnce
CHECK_DEADLOCK FALSE
PROPERTY SessionsProceed
