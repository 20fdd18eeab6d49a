SPECIFICATION IngestSpec
CONSTANTS
    k1 = k1
    k2 = k2
    h1 = h1
    h2 = h2
    Process = {p1, p2}
    Key = {k1, k2}
    Hash = {h1, h2}
    Stored <- EmptyOrOld
    Source <- Versions
    None = None
    Unreadable = Unreadable
    BATCH_SIZE = 2
    MaxRun = 2
    MaxFault = 1
    project = project
    elsewhere = elsewhere
    s1 = s1
    c1 = c1
    c2 = c2
    b1 = b1
    b2 = b2
    ClaudeScript <- SomeClaude
    CodexScript <- SomeCodex
    FolderOf <- SomeFolders
    ComposersOf <- SomeComposers
    BubblesOf <- SomeBubbles
    Drafts <- SomeDrafts
    FileTexts <- SomeTexts
    NoFile = NoFile
    Directory = project
    Override = override
    NoValue = NoValue
    Stem = Stem
    max_bytes = 4
    MaxScans = 2
    MaxEdits = 3
CHECK_DEADLOCK FALSE
INVARIANTS
    OkAccounts
    StoredWhole
    StoredOnce
    OkMeansPresent
    ReplacedOnce
PROPERTIES
    KeysStay
    RunsEnd
