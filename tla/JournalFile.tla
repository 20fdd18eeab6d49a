---------------------------- MODULE JournalFile ----------------------------
(***************************************************************************)
(* journal.bin, byte by byte: struct Journal of vector_journal.rs.         *)
(*                                                                         *)
(* The file is a sequence of cells, each standing for some of its bytes: a *)
(* header has HEADER_LEN cells, a record RECORD_LEN cells.  One owner      *)
(* opens, appends, replays and clears; the commit lock of VectorIndex      *)
(* keeps every other one out meanwhile.  A write that fails, or whose      *)
(* process dies, leaves any number of its cells in the file.               *)
(***************************************************************************)
EXTENDS Integers, Sequences

CONSTANTS
    Record,         \* (id, vector) pairs
    HEADER_LEN, RECORD_LEN,
    MaxBatch,       \* bound: records in one append
    MaxRecords,     \* bound: records appended between two clears
    MaxTear,        \* bound: interrupted writes
    TearHeader      \* may the creation of the file be interrupted?

ASSUME JournalAssumption ==
    /\ HEADER_LEN \in Nat \ {0} /\ RECORD_LEN \in Nat \ {0}
    /\ MaxBatch \in Nat \ {0} /\ MaxRecords \in Nat /\ MaxTear \in Nat
    /\ TearHeader \in BOOLEAN
    \* No record is what the model calls the header's cells or a broken chunk.
    /\ Record \cap {"header", "garbage"} = {}

HeaderCell(n) == <<"header", n>>
RecordCell(r, n) == <<r, n>>
ZeroCell == <<"zero", 0>>

Header == [n \in 1 .. HEADER_LEN |-> HeaderCell(n)]

\* The buffer append fills before it writes: the cells of all the records.
Encode(batch) ==
    [n \in 1 .. Len(batch) * RECORD_LEN |->
        RecordCell(batch[((n - 1) \div RECORD_LEN) + 1], ((n - 1) % RECORD_LEN) + 1)]

VARIABLES
    exists, file,   \* journal.bin
    stage,          \* "closed", "idle", "create", "header", "write", "corrupt"
    batch,          \* the records of the append in progress
    solid,          \* history: records of appends that returned Ok since the
                    \* last clear, up to the first interrupted write
    torn,           \* history: was a write interrupted since the last clear?
    total, tears    \* bounds

journal_vars == <<exists, file, stage, batch, solid, torn, total, tears>>

JournalInit ==
    /\ exists = FALSE /\ file = << >> /\ stage = "closed" /\ batch = << >>
    /\ solid = << >> /\ torn = FALSE /\ total = 0 /\ tears = 0

(***************************************************************************)
(* Reading.                                                                *)
(***************************************************************************)
\* Mutant of Body: the records are looked for one cell too early.
BodyOffByOne == SubSeq(file, HEADER_LEN, Len(file))

Body == SubSeq(file, HEADER_LEN + 1, Len(file))

\* The record a chunk of RECORD_LEN cells is read as.  Cells of two records
\* read as one are an id nobody appended, with somebody else's floats.
Decode(chunk) ==
    IF \E r \in Record : chunk = [n \in 1 .. RECORD_LEN |-> RecordCell(r, n)]
    THEN chunk[1][1] ELSE "garbage"

\* replay: complete records only, a partial tail is dropped.
Replayed ==
    [n \in 1 .. Len(Body) \div RECORD_LEN |->
        Decode(SubSeq(Body, (n - 1) * RECORD_LEN + 1, n * RECORD_LEN))]

\* len: from the file size alone, saturating.
JournalLen ==
    IF Len(file) <= HEADER_LEN THEN 0 ELSE (Len(file) - HEADER_LEN) \div RECORD_LEN

HeaderIntact == Len(file) >= HEADER_LEN /\ SubSeq(file, 1, HEADER_LEN) = Header

\* Journal::open validates an existing file and never creates one.
JournalOpen ==
    /\ stage = "closed"
    /\ stage' = IF exists /\ ~HeaderIntact THEN "corrupt" ELSE "idle"
    /\ UNCHANGED <<exists, file, batch, solid, torn, total, tears>>

(***************************************************************************)
(* append, and create_file before the first one.                           *)
(***************************************************************************)
Batches == UNION {[1 .. n -> Record] : n \in 1 .. MaxBatch}

AppendCall(records) ==
    /\ stage = "idle" /\ total + Len(records) <= MaxRecords
    /\ batch' = records
    /\ total' = total + Len(records)
    /\ stage' = IF exists THEN "write" ELSE "create"
    /\ UNCHANGED <<exists, file, solid, torn, tears>>

CreateFile ==
    /\ stage = "create"
    /\ exists' = TRUE /\ file' = << >>
    /\ stage' = "header"
    /\ UNCHANGED <<batch, solid, torn, total, tears>>

WriteHeader ==
    /\ stage = "header"
    /\ file' = file \o Header
    /\ stage' = "write"
    /\ UNCHANGED <<exists, batch, solid, torn, total, tears>>

WriteRecords ==
    /\ stage = "write"
    /\ file' = file \o Encode(batch)
    /\ solid' = IF torn THEN solid ELSE solid \o batch
    /\ stage' = "idle" /\ batch' = << >>
    /\ UNCHANGED <<exists, torn, total, tears>>

(***************************************************************************)
(* A write stops half-way: the process dies ("closed"), or write_all or    *)
(* sync_all returns an error and the caller keeps the journal ("idle").    *)
(***************************************************************************)
Interrupt(after) ==
    /\ tears < MaxTear /\ tears' = tears + 1
    /\ after \in {"closed", "idle"} /\ stage' = after
    /\ batch' = << >> /\ torn' = TRUE
    /\ UNCHANGED <<exists, solid, total>>

InterruptHeader(after, n) ==
    /\ stage = "header" /\ TearHeader
    /\ file' = file \o SubSeq(Header, 1, n)
    /\ Interrupt(after)

InterruptRecords(after, n) ==
    /\ stage = "write"
    /\ n <= Len(batch) * RECORD_LEN
    /\ file' = file \o SubSeq(Encode(batch), 1, n)
    /\ Interrupt(after)

(***************************************************************************)
(* clear: set_len(header_len), which also lengthens a shorter file.        *)
(***************************************************************************)
Truncated(f) ==
    [n \in 1 .. HEADER_LEN |-> IF n <= Len(f) THEN f[n] ELSE ZeroCell]

\* Mutant of Clear: the file is emptied, header and all.
ClearToZero ==
    /\ stage = "idle"
    /\ file' = << >>
    /\ solid' = << >> /\ torn' = FALSE /\ total' = 0
    /\ UNCHANGED <<exists, stage, batch, tears>>

Clear ==
    /\ stage = "idle"
    /\ file' = IF exists THEN Truncated(file) ELSE file
    /\ solid' = << >> /\ torn' = FALSE /\ total' = 0
    /\ UNCHANGED <<exists, stage, batch, tears>>

Close ==
    /\ stage = "idle"
    /\ stage' = "closed"
    /\ UNCHANGED <<exists, file, batch, solid, torn, total, tears>>

\* `reindex --reset-vectors` is the way out of a file that does not open.
Reset ==
    /\ stage = "corrupt"
    /\ exists' = FALSE /\ file' = << >> /\ stage' = "closed"
    /\ solid' = << >> /\ torn' = FALSE /\ total' = 0
    /\ UNCHANGED <<batch, tears>>

JournalNext ==
    \/ Reset \/ JournalOpen \/ CreateFile \/ WriteHeader \/ WriteRecords \/ Clear \/ Close
    \/ \E records \in Batches : AppendCall(records)
    \/ \E after \in {"closed", "idle"} :
          \/ \E n \in 0 .. HEADER_LEN : InterruptHeader(after, n)
          \/ \E n \in 0 .. MaxBatch * RECORD_LEN : InterruptRecords(after, n)

JournalSpec == JournalInit /\ [][JournalNext]_journal_vars

\* An interrupted append never touches what earlier appends acknowledged:
\* their records replay first, complete and in order (append, replay, clear).
EarlierRecordsIntact ==
    Len(solid) <= Len(Replayed) /\ SubSeq(Replayed, 1, Len(solid)) = solid

\* Every record a replay returns is one that was appended: a partial record
\* is dropped (append, replay).
ReplaysOnlyRecords == \A n \in DOMAIN Replayed : Replayed[n] \in Record

\* A journal file that was left by a crash can be opened (create_file, open).
OpensAgain == stage # "corrupt"

\* A write stopped inside the header or a record.
Damaged ==
    /\ exists /\ stage \notin {"create", "header"}
    /\ \/ ~HeaderIntact \/ ~ReplaysOnlyRecords
       \/ Len(Body) % RECORD_LEN # 0

\* The file is the log VectorIndex takes it for up to the first write that
\* stops inside a record or a header, also across failed appends that stop
\* between two records, reopens and clears (append, replay, clear, open).
Log ==
    INSTANCE RecordLog WITH log <- Replayed, damaged <- Damaged, length <- JournalLen
ImplementsLog == Log!Spec
=============================================================================
