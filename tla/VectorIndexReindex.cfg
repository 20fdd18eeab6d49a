SPECIFICATION Spec
CONSTANTS
    h1 = h1
    h2 = h2
    i1 = i1
    i2 = i2
    i3 = i3
    None = None
    Handle = {h1}
    Item = {i1, i2}
    Version = {1}
    Key = {0, 1, 2, 3}
    COMPACT_THRESHOLD = 1
    JOURNAL_CHUNK = 1
    LOCK_ATTEMPTS = 2
    Legacy <- NoLegacy
    LegacyKey = {0, 1}
    Shared = {i1, i2}
    ConcurrentAdd = FALSE
    MaxCrash = 1
    MaxFault = 0
INVARIANTS DocCountIsSearchable
CHECK_DEADLOCK FALSE
