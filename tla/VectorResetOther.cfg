SPECIFICATION ResetSpec
CONSTANTS
    h1 = h1
    h2 = h2
    i1 = i1
    i2 = i2
    i3 = i3
    None = None
    Handle = {h1, h2}
    Item = {i1, i2, i3}
    Version = {1}
    Key = {0, 1, 2, 3, 4, 5, 6}
    COMPACT_THRESHOLD = 1
    JOURNAL_CHUNK = 1
    LOCK_ATTEMPTS = 2
    Legacy <- NoLegacy
    LegacyKey = {0, 1}
    Shared = {}
    ConcurrentAdd = FALSE
    MaxCrash = 0
    MaxFault = 0
    MaxReset = 1
PROPERTIES OthersVectorsKept
