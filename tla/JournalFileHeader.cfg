SPECIFICATION JournalSpec
CONSTANTS
    Record = {"r1", "r2"}
    HEADER_LEN = 2
    RECORD_LEN = 3
    MaxBatch = 2
    MaxRecords = 4
    MaxTear = 2
    TearHeader = TRUE
INVARIANTS OpensAgain
