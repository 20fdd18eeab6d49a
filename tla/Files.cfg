SPECIFICATION FilesSpec
CONSTANTS
    i1 = i1
    i2 = i2
    None = None
    Handle = {h1}
    Item = {i1, i2}
    Version = {1}
    Key = {0, 1, 2, 3}
    COMPACT_THRESHOLD = 1
    JOURNAL_CHUNK = 1
    LOCK_ATTEMPTS = 2
    Legacy <- NoLegacy
    LegacyKey = {0, 1}
    Shared = {i1, i2}
    ConcurrentAdd = FALSE
    MaxCrash = 0
    MaxFault = 0
    Removable = {i1, i2}
    Record = {"r1", "r2"}
    HEADER_LEN = 2
    RECORD_LEN = 3
    MaxBatch = 2
    MaxRecords = 4
    MaxTear = 2
    TearHeader = TRUE
    Opener = {p1, p2}
    FORMAT_VERSION = 4
    ATTEMPTS = 2
    Nothing = Nothing
    UnknownVersion = UnknownVersion
    Process = {q1, q2}
    old_bin = old_bin
    new_bin = new_bin
    lint = lint
    start = start
    stop = stop
    other = other
    Bin = {old_bin, new_bin}
    Foreign = {lint}
    Event = {start, stop}
    OtherEvent = other
    Setting = {theme}
    NoHooks = NoHooks
    NotObject = NotObject
    NotArray = NotArray
    Empty = Empty
    TornBytes = TornBytes
    NoInode = NoInode
    Configs <- SomeConfigs
    MaxVerbs = 2
    MaxEdits = 1
    FirstRows <- SomeRows
    ScopePath <- SomePaths
    NoFilter = NoFilter
    ScopeFilters <- SomeFilters
    ScopeSets <- SomeScopeSets
    SearchLimit = 2
    FetchMultiplier = 2
    RrfK = 60
    MaxBlocks = 2
    WakeupLimit = 2
    Bytes <- SomeBytes
    Budget = 2
    MaxRows = 3
    MaxChanges = 1
INVARIANTS
    LeaksAreExplained
    AgreementKept
    WakeUpIsNewest
    RemovedStaysRemoved
    SchemaMatchesVersion
    NoConflict
    ConfigWhole
PROPERTIES
    ImplementsLog
    MovesForward
    OpensReturn
    ForeignKept
    VerbsTakeEffect
CHECK_DEADLOCK FALSE
