# Singularmem in TLA+

Singularmem is a local-first memory store for LLM tools: items and a knowledge
graph in one SQLite file, a Tantivy full-text index beside it, and a vector
sidecar directory, used by a CLI, an MCP server, editor hooks and Node
bindings, often from several processes at once. This directory specifies the
parts of it whose correctness depends on interleavings, crashes and partial
failures, checks them with TLC and proves some of the results with TLAPS.

## Inventory

`PROJECT.json` has one entry per component, with the status of its model.

| Component | State | Operations | Interacts with |
| --- | --- | --- | --- |
| Store (`singularmem-core`: `store.rs`, `schema.rs`) | the SQLite connection behind a mutex, `format_version`, the attached index hook | open, bootstrap, migrations 1→4 | other processes through SQLite's locks |
| Item writes (`ingest.rs`, `item.rs`) | tables `items`, `item_tags` | `ingest`, `ingest_many`, `ingest_replacing`, `set_scope` | calls the index hook after each commit |
| Item queries, export (`query.rs`, `export.rs`, `scope.rs`) | none | lookups by id and `external_id`, revision walks, listing by scope | read the store |
| Knowledge graph (`graph/`) | tables `entities`, `facts` | `add_fact`, `invalidate_fact`, `supersede_fact`; facts about, timeline, history, stats | transactions of threads and processes |
| Index hooks (`core/hook.rs`, `search/hook.rs`) | queued documents and vectors | `on_ingest`, `on_ingest_batch`, `commit` | called by item writes under the hook mutex |
| Full-text index (`index.rs`, `query.rs`) | the Tantivy directory and its writer lock | add, commit, search | drifts from the store when a hook fails, until `reindex` |
| Vector index (`vector_index.rs`) | `.meta.json`, `index.usearch`, `keymap.bin`, `lock`, and per handle a graph, a keymap and a queue | open, add, commit, compact, remove, search | handles of several processes on one directory |
| Vector journal (`vector_journal.rs`) | `journal.bin` | open, append, replay, len, clear | written and read by the vector index under its lock |
| Search (`hybrid_query.rs`, `semantic_query.rs`) | none | full-text, semantic, hybrid (reciprocal rank fusion) | reads both indexes, loads items from the store |
| Ingest driver (`ingest/driver.rs`) | counters, the batch in work | `ingest_source` | item writes of one process, racing with those of others |
| Sources (`dir`, `claude`, `codex`, `cursor`, `chunk`) | none | turn files of other programs into items | feed the driver |
| Retrieval, wake-up (`singularmem-retrieve`) | none | pick items for a context within a budget | search, store |
| Editor hooks (`singularmem-hooks`) | editors' JSON settings | install, uninstall, parse hook input | CLI |
| CLI, MCP server, Node bindings, adapters, benchmarks | none of their own | decode a request, call the store, format the answer | everything above |

What is hard here, and what makes each part correct:

* **Vector index.** Every handle has a whole graph in memory and publishes it
  with two renames, so handles overwrite one another unless each reloads first;
  a crash may fall between any two file-system calls, and a failed call must
  put the handle's queue back. Correct: what a commit acknowledged is never
  lost and is found by the next open; a handle finds its own additions; keymaps
  stay bijections; no compaction drops what it did not know.
* **Journal.** It is appended to and truncated in place, with a size-derived
  record count. Correct: an interrupted write costs at most its own records.
* **Knowledge graph.** Chains of revisions are only kept linear by transactions;
  there is no unique index. Correct: one open fact per triple, no forks,
  `supersede_fact` all or nothing, history append-only.
* **Item writes and the driver.** An existence check, a lookup, a replacement
  and a batch are separate transactions. Correct: keys stay held, replacement
  chains do not fork, the report tells what happened.
* **Store opening.** Several processes create and migrate one file. Correct: each
  migration is applied once, and nobody sees a half-made schema.
* **Hooks and full-text index.** The index follows the store after its commit.
  Correct: an item that no search finds has been named in a warning, or its
  process died, or it was not its session's to index, and `reindex` repairs it.
  The code misses this in one case: a row that `reindex` itself cannot read is
  left out of the new full-text index in silence (see below).

The hazards, each at its line, are in `PROJECT.json` under `hazards`.

## Plan

Done, in this order: `VectorIndex` (with `VectorRemove`, `VectorReset`),
`JournalFile` over the abstract `RecordLog`, `VectorDurability` (the inductive
invariant), `GraphFacts`, `IngestDriver`, `StoreOpen` over the abstract
`StoreFormat`, `IndexSync`, `GraphReads`, `HooksConfig`, `Sources`,
`Retrieval`, `SurfaceCalls` with `Surfaces`, and the proofs listed below.

What would come next: power cuts
(unsynced renames) and the temporary files of a fresh directory as a variant of `VectorIndex`; the walk of `revision_history`
and the tags of `query.rs`; an abstract durable set of records that
`VectorIndex` implements.

## Modules and the code

`PROJECT.json` maps every definition to the lines it models.

**`VectorIndex`** is `VectorIndex` and its `EmbedderIndex` implementation, for a
set of handles on one directory. The variables are the files, the lock file's
holders, each handle's fields (`inner`, `keymap`, `pending`,
`loaded_generation`, ...), the locals of the call it is in, and history
(`added`, `covers`, `acked`). An embedding is the record `[id, ver]`, a usearch
graph a function from keys to records. One action is one file-system call, or
what lies between two of them: `Open`, `Replay`, `OpenDone` are the load;
`Commit`, `Acquire`, `Busy` the five attempts at the lock; `CommitLocked`,
`AppendChunk`, `AppendDone`, `AppendThenCompact` the journal write;
`ReloadIfStale`, `Replay`, `AbsorbJournal`, `SaveGraph`, `PublishGraph`,
`Stamped`, `PublishKeymap`, `ClearJournal` a compaction. `IoError` fails the
call a handle is in, at any of its steps, and restores the queue as `requeue`
does; `Crash` ends a process and releases its lock. `VectorRemove` adds
`remove`; `VectorReset` the deletion of the directory by `reindex
--reset-vectors`, in a process of its own that then adds the store's items again
while handles of other processes stay open. What is deleted there is deleted on
purpose, so the history starts again with the deletion, and its property speaks
of the rebuilt directory only; one bound is that nobody is inside a call while
the directory goes. `MCVectorIndex` and `MCVectorReset` are the instances;
`VectorRemove` is checked in `MCFiles`.

**`JournalFile`** is `Journal` at the granularity of cells: a header and a record
have several, and a write may stop after any of them. `RecordLog` is the log
`VectorIndex` takes it for, with the length that commits compare with
`COMPACT_THRESHOLD`; `JournalFile!ImplementsLog` is the refinement, with the
replayed records as the log, `len()` as the length, and "the length is not a
whole number of records, or the header is short" as the damage.

**`StoreOpen`** is `Store::open`: the switch to WAL and its retries, the first read
of the version, bootstrap and migrations with the second read under `BEGIN
IMMEDIATE`, failures and deaths between any two statements. `StoreFormat` is
what it promises: whole formats that only move forward. `MovesForward` is the
refinement.

**`GraphFacts`** is `graph/write.rs` with the `recorded_at` filter of
`graph/read.rs`. A call reads the clock (`Call`), takes its store's connection
and its snapshot (`Begin`), decides and writes (`Execute`, or `Standing` when
the fact is there already) and commits; validation errors, `SQLITE_BUSY` and
other errors roll it back. SQLite itself is external: a transaction that has
read cannot write once another connection has committed (`Current`).

`GraphReads` extends it with the reads of `graph/read.rs`, each as what its
SELECTs return for the tables as they are; its properties are checked at every
commit, when the tables change. The walk of `fact_history` is one read of the
tables, although the code runs one SELECT per revision and another process may
commit in between. `graph_stats` has two statements, and takes the
rows its first one saw as a parameter.

**`IngestDriver`** is `ingest_source` and `write_batches` over the three writers
of `ingest.rs`. `Probe` is one query of `existing_external_ids`; `Filter` one
round over the candidates; `Replace`, `Write`, `Retry`, `Each` are one store
transaction each, followed by `Hook`. The writers start with a write, so their
transactions are single steps. What the hook does is the subject of `IndexSync`.
`Lists` has the filter that the driver, the editor hooks and `remove` share, and the sort
of the graph's reads and of the searches.

**`Sources`** is what the driver is fed: Claude and Codex transcripts read line by
line while the editor appends to them, Cursor's workspaces and bubbles, the
files of a directory. An item is named as the code names it, a text is cut as
`chunk.rs` cuts it, and runs are started by verbs and by editor hooks, end
early and start again. One run stores what it yields in one step: the steps
between are `IngestDriver`'s.

**`IndexSync`** is the store with its sidecars: the members `wire_index_hooks`
finds, `fire_hook` and `MultiHook` with what each member takes and commits, the
Tantivy writer lock and its attempts, searches (which hold it too), `reindex`
with and without embeddings, `set_scope`, and deaths between any two of them.
`index_item` adds a document and never deletes one, so an item has one document
only as long as nobody adds it twice; a set of documents does not show two equal
ones, which is why `DocumentsMatchStore` also says that no writer is about to add
a second (`AddsOnce`). The histories `excused`, `unread` and `dropped` have the
reasons of `MissingIsExplained`.

**`Retrieval`** is the path of a prompt: `HybridSearcher::search` in its modes with
their fallback, the fusion, the scope filter of vector hits, the blocks read
one by one, and the wake-up's count, lists, merge and budget, while other
processes ingest, move items and reindex. What Tantivy and usearch rank is a
choice.

**`HooksConfig`** is `hooks install` and `uninstall` on an editor's configuration:
read, merge or remove, write `<path>.tmp`, rename, for several processes, with
failures and deaths, and with the editor's own saves. A file is an inode, so
that a descriptor outlives a rename.

**`SurfaceCalls`** has the three translations of a client's call into a call of
`Store`, operation by operation: `Cli...`, `Mcp...`, and `Node...` with its
`...Task`. `Meant` is the reference: what a call means, written once. A request
to retrieve has two numbers, the `hits` its search asks for and the `blocks` it
reads; the first is each surface's own, and `Fits` compares the rest.
`Surfaces` runs them: a call is asked, translated, executed in one transaction,
answered; its answer may be lost and the call asked again.

Modules compose by what they hand over: the sources feed `IngestDriver`, whose
hook calls are `IndexSync`'s, whose vector member is `VectorIndex`'s `Add` and
`Commit`, whose journal steps are `JournalFile`'s appends and clears.
`VectorIndex` uses complete records only; `ImplementsLog` is what entitles it
to, as long as no append follows an interrupted one. `Surfaces` stands in front
of `GraphFacts` and `IngestDriver`.

`MCFiles` checks five protocols that share no state side by side (`VectorRemove`,
`JournalFile`, `StoreOpen`, `HooksConfig`, `Retrieval`), `MCIngestDriver` the
driver and the sources, `MCIndexSync` the sessions and the calls: each behaviour
runs one of them, while the others stay in their first state.

## Runs

| Run | Checks | Bounds |
| --- | --- | --- |
| `handles` | `KeymapsConsistent`, `AckedRecoverable`, `Durable`, `OwnAddsSearchable`, `OpenSeesAcked`, `NoLostUpdate` | 2 handles, 3 items, 7 keys, chunks of 1, threshold 1, 2 crashes, 1 failed call; symmetry of handles and items; 700,000 states |
| `upgrade` | `MetaUpgradedFirst`, `DocCountIsSearchable`, `CallsReturn` | a format "1" directory with one vector, 2 handles, 2 crashes, no failed calls; 95,000 states |
| `files` | `LeaksAreExplained`, `AgreementKept`, `WakeUpIsNewest`, `RemovedStaysRemoved`, `SchemaMatchesVersion`, `NoConflict`, `MovesForward`, `OpensReturn`, `ImplementsLog`, `ConfigWhole`, `ForeignKept`, `VerbsTakeEffect` | retrieval: 3 items, one change during a call, limits of 2; opening: 2 processes, 4 formats; journal: 2 records, a header of 2 cells, records of 3, 2 interrupted writes; configuration: 2 processes, 2 verbs, one save of the editor, 4 odd starting files; 300,000 states |
| `facts` | `OneOpenHead`, `ChainsNeverFork`, `SupersedeAtomic`, `HistoryKept`, `HistoriesAgree`, `EachFactOnce`, `StatsCoverEntities` | 2 processes, calls on two triples, up to 3 rows, failures at any time; symmetry of the processes; 310,000 states |
| `ingest` | `OkAccounts`, `OkMeansPresent`, `ReplacedOnce`, `KeysStay`, `RunsEnd`; `StoredWhole`, `StoredOnce` | 2 processes, 2 runs, 3 sources of 2 or 3 items, batches of 2, one error or crash; transcripts of 4 lines, 2 workspaces, one file, 2 scans, 3 edits; 190,000 states |
| `sync` | `DocumentsMatchStore`, `MissingIsExplained`, `SessionsProceed`; `SurfacesAgree`, `CallsTakeEffectOnce` | 2 processes, 2 sessions or reindexes, 2 items, one move, 2 attempts at the lock; every operation of every surface with up to 3 arguments given, right or wrong; 9 calls, two of them at a time, each asked up to twice; 227,000 states |

Why these bounds are enough for the interesting cases. In `handles`, two handles
suffice for every conflict (a third only repeats the stale side), three items
give a chunked append that fails after its first chunk while another handle
compacts, and a threshold of 1 makes both kinds of compaction happen. In the
journal, a record of 3 cells can tear in its middle and an append can be
misaligned by 1 or 2. In `facts`, 3 rows leave room for a chain that is opened,
closed and opened again beside another process, and a full database rolls back.
In `ingest`, a batch of 2 with 3 candidates gives a partial last batch and a
conflict that keeps some of a batch; the texts of the sources are one chunk, one
with a blank line, two chunks, and a paragraph that must be cut between
characters of several bytes. In `sync`, two sessions are a writer and whoever it
locks out. Three given arguments reach every pair of optional arguments of an
operation beside a required one; two concurrent calls, asked twice, let the
second undo the first between its two executions.

The type invariants of the modules with proofs are proved for every instance
and not checked again. All runs but `handles`, `upgrade` and
`facts` set `CHECK_DEADLOCK FALSE`: runs, sessions, verbs and calls are bounded,
and the processes may end.

Fairness. `CallsReturn`, `RunsEnd`, `OpensReturn` and `SessionsProceed` assume
weak fairness of each handle's, process's, opener's or session's own steps: the
code runs on a thread that the system schedules, and gives up on a lock after a
bounded number of attempts (`LOCK_ATTEMPTS`, `ATTEMPTS`,
`INDEX_LOCK_ATTEMPTS`; SQLite's busy timeout for the write lock). That a
session or call begins, fails or dies is not fair. The lock of a dead process is
released by the operating system (`Crash`, `End`).

Preconditions. `handles` adds fresh ids only and does not let a thread add while
another commits on the same handle. `Store` guarantees both: an id is minted per
item, and the hook runs under the store's hook mutex. They are needed:

* with `ConcurrentAdd = TRUE`, an add between the graph's save and the keymap's
  serialisation is in only one file of the pair, and `OpenSeesAcked` fails;
* with two versions of a `Shared` id, the replay skips a journalled replacement
  of an id that the pair already names, and `OpenSeesAcked` fails;
* with failed calls, the retry of a batch that had been published and a crash
  in the rename gap break `DocCountIsSearchable` as in run `reindex`, which is
  why `upgrade` has no failed calls.

`Surfaces` excepts what the surfaces take differently (`Disputed`), which are
differences of the code: a limit of 0 (`list` on Node returns one item, on the
command line none, MCP clamps it to 1); limits of `list` outside of 1 to 50, and
20 or 10 results of `search` by default; `retrieve` with a limit beyond 20, since
MCP searches for `HybridSearchOptions::default()`'s 20 hits whatever the limit
(`mcp/src/tools/retrieve.rs:68`), so that 21 to 50 blocks are at most 20, while the
command line searches for `fetch_multiplier` times the limit
(`commands/search.rs:143`) and Node for the limit (`node/src/store.rs:785`). Within
1 to 20 each surface searches at least as deep as the blocks it reads, which is
what the property asks; the depths still differ, and with them, in a hybrid
search, which of two close items is ranked first. Also excepted are
`--scope-exact` without `--scope`, an error on the command line and nothing
elsewhere; `""` for an id, which Node takes for none; and a project directory
that does not exist, which the command line does not check. `CallsTakeEffectOnce` excepts what has no identity: an ingest without
an `external_id`, and a fact that is born closed, are written again by a retry,
and a fact that supersedes itself is closed and opened once more.

Other things the models show, and excuse by name in the property they would
break: a Codex message read after a line that arrived in two pieces is numbered
one too high (`Misnumbered`, `codex.rs:241`); a Cursor bubble stored as a draft
keeps the draft (`grown`, `cursor.rs:273`); a file of several chunks that shrinks
takes other `external_id`s, and the items of its old chunks stay in the store
beside the new ones (`dir.rs:179`; `StoredWhole` asks for the new ones only, and no
property objects to the old); two verbs in the temporary file at
once may leave it cut (`overlap`); a document keeps its old scope until a
`reindex` (`moved`); a second `reindex` removes the directory under an open
writer (`split`); a row that `reindex` cannot read is dropped by
`filter_map(Result::ok)` (`commands/search.rs:272`), so that the reindex succeeds, the
item has lost its document, and no message names it (`dropped`, until a reindex
reads the row). The rebuild of the vectors has no such case: it fails on that row
(`item_r?`). The hazards that such an exception leaves uncovered say so in
`PROJECT.json`.

### Disagreements between the code and its documentation

Each is a run that TLC must find violated; the findings of `PROJECT.json` quote
the texts.

| Run | What happens |
| --- | --- |
| `reindex` | Indexed ids are added again, the compaction dies between its two renames: `doc_count` counts ids whose vectors the new graph has evicted, and `warn_if_graph_exceeds_keymap` stays silent. |
| `reset_other` | `--reset-vectors` restarts the generation; a handle of another process that has stayed open since before it finds, after the first compaction of the rebuilt directory, the number it had loaded, does not reload, and saves its own graph over the rebuilt one: `OthersVectorsKept`. |
| `journal_misaligned` | A commit after a torn append continues inside the torn record; the replay decodes pieces of two records as one. |
| `journal_header` | A crash between creating `journal.bin` and writing its header leaves a file that no open accepts. |
| `believed` | A call reads the clock, waits for the connection, and closes a fact recorded meanwhile: `--recorded-at` in between shows the closing of a fact that was not yet recorded. |
| `ingest_race` | Two runs replace the same changed file: the second returns `ExternalIdConflict` and drops the rest of its items. |

## Proofs

TLAPS checks `VectorIndexProofs` (with the invariants of `VectorDurability`),
`GraphFactsProofs`, `FilesProofs`, `IndexSyncProofs`, `IngestDriverProofs`,
`RetrievalProofs`, `SurfacesProofs` and, for the lists, sorts and loops of several of
them, `ListProofs`. The named
assumptions say what the constants are: of `VectorIndex`, keys are naturals,
`None` is not a value, the bounds are naturals, legacy records have distinct
ids; of `GraphFacts`, what a request is, and that `None` and `Absent` are not
values (`None` is no list of rows either); of `StoreOpen`, versions and attempts are positive, and the values that
stand for no version are not numbers; of `IndexSync`, a call is a list of scopes,
a lock is tried at least once, and `Nobody` is not a session; of `IngestDriver`,
sources are lists of items and unreadable entries, and a batch is not empty; of
`Sources`, that a text is a list of paragraphs that are not blank, of characters
of 1 to 4 bytes, that what the editors write are such lists of lines and chats,
and that `NoFile` and `NoValue` are no text of a file (nothing is assumed of
`max_bytes`, of names or of folders); of
`HooksConfig`, our commands are not foreign ones, the processes are finitely
many (each needs an inode), and the values that stand for bytes that are no
JSON, for JSON that is no object and for an event that is no array are none of
the objects, arrays or bytes they are told from; of `Retrieval`, limits are
naturals, the items begin as a list that is not empty, and a set of scopes is a
list; of `Surfaces`, that an argument left out is no value, no error and no
number, and that the calls made at the same time are calls.

* `TypeCorrect`: `Spec => []TypeOK`, one lemma per group of actions.
* `KeymapBijective`: `Spec => []KeymapsConsistent`. `KeymapsConsistent` is
  inductive together with `TypeOK`: every keymap in the system is a saved one,
  or comes from one by `KeymapInsert`, and an insertion under `next_key` removes
  the id's old entry. This needs no assumption on callers: it holds with
  re-added ids, concurrent adds, failed calls and crashes.
* `UpgradeFirst`: `Spec => []MetaUpgradedFirst`. The strengthening `MetaUpgrade`
  says that a handle opened on a format "1" directory has the upgrade to do for
  as long as the file says "1", and that past `commit_locked`'s first write the
  file says "2".
* `VectorIndexProofs` then proves that the sidecar keeps what it acknowledges,
  under the assumption `FreshIds`: every id is added once, and no thread adds to
  a handle while another commits it, which is how `Store` uses an index outside
  a reindex (run `reindex` shows what fails there). `AckedRecoverable` alone is
  not inductive: that a compaction preserves what is acknowledged depends on
  what its handle has in memory, and that on what it loaded or reloaded. The
  inductive invariant is `Durable`, in named parts: `Locks`; `Generations` (a
  handle's generation is current while it compacts, and everybody's is old once
  the keymap is published); `Stages` (what the locals hold where); `Issued` and
  `Owned` (who has a record, and that ids are unique); `OnDisk` (a settled record
  is named by the pair or is in the journal, and the pair is sound for every
  record that is `Safe`); `InMemory` (a handle in sync agrees with the pair, and
  has its own queue); `Replays` (a replay reaches every journal record the
  keymap lacks); `Publishes` (what a compaction has published is what it has in
  memory). `Safe` leaves out one case: a batch whose failed commit had already
  published it. The retry inserts it again under new keys, so a torn second
  compaction may orphan its old ones; it was never acknowledged.
  There is one lemma per part that a step keeps it (`NextLocks`, `NextStages`,
  ..., `NextPublishes`). Most cases are one of three: the others' memory does
  not change (`Frame`) or is out of sync; a step that holds the lock keeps
  the others off the directory (`Exclusion`); an insertion puts its record in
  place and moves no other (`InsertHolds`). The theorems are `DurableInvariant`
  (`[]Durable`), `AckedSurvives` (`[]AckedRecoverable`), `OpenComplete`
  (`OpenSeesAcked`); with a second invariant `Descends` (what a handle in
  sync has extends the pair on disk), `NothingLost` (`NoLostUpdate`); and with a
  third, `FindsOwn` (until a call fails, what a caller added stays in its handle's memory, or waits
  in the journal for the replay the handle is about to do), `OwnAddsFound`
  (`OwnAddsSearchable`).

  With removals among the steps (`RemoveSpec`), `RemovalsBijective` keeps every
  keymap a bijection for any number of handles, failures and crashes.
  `RemovedForGood` (`RemovedStaysRemoved`) is for one handle whose calls do not
  fail (`Undisturbed`): tombstones are not on disk, so another handle's replay, or this
  one's after a death, may insert a removed record that is still in the journal.
  The property alone is not inductive, since it is a replay that would break
  it. `Replayless` says that none inserts anything: whatever is in the journal,
  or on the way there, the handle names or has a tombstone for (`Forgotten`), what is
  queued it names, and a keymap that is never stale is never reloaded.
* `GraphFactsProofs` proves every property of `GraphFacts` except that of the
  finding: `FactTypes`, `OneHeadEver`, `NoForks`, `SupersedeIsAtomic` and
  `HistoryIsKept`, for every number of threads and processes and every set of
  requests. What a caller reads is a snapshot, so the properties of the file
  alone are not inductive. `Transactions` adds what each transaction relies on:
  a reader's tables are sound ones (perhaps old); a writer holds the lock, its
  snapshot is still the file, and its tables are sound and are the file's plus
  its own rows. The steps are three: appending a row that is closed, or whose
  triple has no open head, keeps tables sound (`OneHeadAppend`,
  `ChainsAppend`); so each call keeps them (`ResultSound`); and a COMMIT leaves
  exactly the tables its transaction saw (`CommitTables`), because `Current`
  and the lock keep every other commit out since the snapshot.

  It also proves what the reads owe to sound chains: the row with the largest id
  of a fact is its head (`LastIsHead`), so whoever takes part in a fact that
  `graph_stats` counts from its first SELECT is listed by the second, whatever is
  committed between them (`StatsAlwaysCover`, for `StatsCoverEntities`).
  `supersedes` pairs the rows that supersede one with the rows that are superseded, so a
  scope has as many heads as facts (`HeadsAreFacts`); with `Dated` (nothing is recorded
  after the clock, `NeverAhead`) and `OrderedSorts` this gives `ReadsAddUp` (`EachFactOnce`).
  For `HistoriesAlwaysAgree` (`HistoriesAgree`) the two loops of `fact_history` keep a
  linked chain, whose ids rise, so a turn always adds a row (`RanksFall`) and the loops
  end, at the first revision (`OlderIs`) and at the head (`NewerIs`); two such
  histories that share a row are one (`HistoriesMeet`).

* `FilesProofs` proves the two refinements. One is the safety of `StoreOpen`, for every number of
  processes and of format versions: `OpenTypes`, `SchemaAlwaysMatches`,
  `NeverConflicts`, and `OpenMovesForward`, the refinement of `StoreFormat`. The
  inductive invariant `OpenInv` adds to the properties what the holder of the
  write lock knows: the version it read under the lock is the file's, and the
  scripts it has run are those of its step, so that a commit makes both
  visible together.
  The other is `JournalIsALog` (`ImplementsLog`): the journal file implements
  `RecordLog` for every length of the header and of a record, every set of records
  and every number and place of interrupted writes. `LogInv` is the small
  invariant of the states (a created file starts empty, an append in progress
  has records); the rest is about sequences of cells. What is read before an
  append is read after it (`ReadGrows`). Appended to whole records, the first
  `c` cells of a batch read as its first `c \div RECORD_LEN` records (`Aligned`);
  appended to a broken one, they never repair it (`Misaligned`): the chunk that
  would complete it holds a record's first cell where a later one belongs, so it
  decodes to no record. A header is neither broken nor mended by what follows it
  (`HeadKept`). The assumption is that a record is neither the model's header
  cell nor its mark of a broken chunk.

* `IndexSyncProofs` proves the safety of `IndexSync` for every number of sessions
  and items and every set of calls: `SyncTypes`, `StaysInStep`,
  `DocumentsAlwaysMatch` and `MissingAlwaysExplained`. A property of what is
  committed says nothing of what is queued, so neither is inductive. `InStep`
  follows an item through a session: `Places` and `WriterLocked` (who has
  members or documents in hand, and that a writer of documents has the lock),
  `KnownItems` (nothing is queued that is not committed), `Scopes` and `Once`
  (a queued document has its item's scope, and its item has no other), and
  `Explained` (at each step of a call or a reindex, what is neither indexed nor
  still to be done has its reason on record). The last three end with the
  second `reindex` that removes a directory under an open writer (`split`), as
  the properties do.

* `IngestDriverProofs` proves every safety property of `IngestDriver`, for every
  number of runs, any sources and any batch size. Every step that touches the
  table is one of three (`TableStep`: nothing changes, rows are added, one row's key
  moves to its replacement), and each property of the table is proved of those alone:
  `KeysNeverLeave` (`[][...]_vars`) and `NeverReplacedTwice`, with `Chains` (a row
  supersedes a row). `OkIsPresent` needs to know where each item the filter has
  reached is at every moment (`LandsAll`): its key is in the store, or it waits
  among the fresh items or in the batch. `OkAddsUp` is an induction over
  numbers: `Counted` says that what the report has and what is left to do
  (`Left`: the entries not yet seen, the fresh items, the batch) make up the
  length of the source, and that the rows with the run's number (`RunNumbers`)
  are as many as `ingested`. `OkMeansPresent` speaks of the first item with
  its `external_id` in the source, as the code does: `seen` drops the later
  ones (`accepted_ids`, `driver.rs:74`), so a source with an invalid and then a valid item of one
  id stores neither and returns `Ok`.

* `IngestDriverProofs` also proves the safety of `Sources`, for any transcripts and
  chats, any texts and chunk sizes and any number of runs: `MessagesStoredOnce`
  (`StoredOnce`) and `MessagesStoredWhole` (`StoredWhole`). The first half is
  `chunk_text` as a function, `ChunksWhole`: its two loops carry a value, what is packed
  fits and is the text so far (`Packed`), and a paragraph or a character more keeps
  that. The recursive `FlattenSeq` of the library is such a loop too (`FlattenRuns`),
  which gives it its two laws, `FlattenAppend` and `FlattenConcat`. The second half is
  `AlwaysFaithful`, since neither property is inductive: both speak of the store, which
  a run fills from what it read many steps earlier. `Faithful` has, beside the kinds of
  values (`Kinds`), three parts. `Reading`: until the reader meets a line in two pieces,
  its count is the number of complete lines before it and its session that of the line.
  `Sounds`: an item, stored or on its way, is a chunk of its message, under its
  message's name and scope, unless the line was numbered wrong or the draft has grown
  since. `Coverage`: a message that was there when the run began is still to be read, or
  all its chunks are on their way, or stored; `Again` is the second look of a hook that
  named another workspace. Two names of one message are then equal because both are its
  own, and a message that is stored under all the names of its chunks is stored whole.

* `Lists` is `Vec::retain`, `drain` and `filter`: `Only(list, keep)`, the members of
  a list that are in a set, as a recursive function; and `slice::sort` and ORDER
  BY: `Ordered(set, before)`, the members of a set in an order. `ListProofs` proves what they
  return: `OnlyKeeps` (those members and no other), `OnlyCounts`
  (how many), `OnlyInOrder`, `OnlyAppends`, `OnlyAll`, `OnlyNone`, and `OrderedSorts`
  (a finite set under a strict total order has such a list, and every member is
  in it once). For loops, `LoopRuns`: a loop with a rank that falls in every turn is a
  function, and `LoopEnds`: it returns in a state where it is done, of which whatever
  every turn keeps is true. The induction theorems of the
  library cannot be instantiated by the provers, so the induction is made from
  what can: `FS_StrictSubsetOrderingWellFounded` gives every set of numbers a
  least one (`Least`), and that gives induction up to a number over a set
  (`Upwards`).

* `FilesProofs` also proves the safety of `HooksConfig`, for every number of
  processes and every configuration a user may have: `HooksTypes`, `FileIsWhole`
  (`ConfigWhole`), `KeepsTheirs` (`ForeignKept`) and `TakesEffect`
  (`VerbsTakeEffect`). One half is about files: `HooksInv` says that the temporary
  file is never the configuration (`Inodes`), that a verb under way holds the
  result of what it read (`Prepared`), and that, until two verbs overlap, the
  temporary file is empty while it is written and whole when it is renamed
  (`Alone`). The other is about `merge` and `remove` as functions: both keep
  `NotOurs` (`MergeKeeps`, `RemoveKeeps`), a removal leaves nothing of ours
  (`RemoveTakesAll`), a merge leaves one group per event (`MergeLeavesOne`) and is
  idempotent (`MergeAgain`), each from what `ListProofs` says of the filter.

* `RetrievalProofs` proves the safety of `Retrieval` for every number of items and
  changes, every limit and every set of scopes: `ReadTypes`, `LeaksExplained`
  (`LeaksAreExplained`), `AgreementIsKept` (`AgreementKept`) and `WakeUpNewest`
  (`WakeUpIsNewest`). Every step is a read or a change, and a change alters only
  rows it adds to `rescoped` (`Changed`, `ChangesKeep`), so what a reader has
  collected stays right for the other items: `SearchInv` says this of the
  rankings, the answer and the blocks, `WakeupInv` of the lists of each scope.
  For the fusion, sums of `1 / (k + rank)` compared by cross-multiplication are a
  strict total order of the candidates (`FractionsChain`, `AboveOrders`), hence
  the sort returns them all (`FusedIsSorted`); two rankings that agree give both
  summands, so the sums agree (`AgreedAbove`). For wake-up, an item left out of
  its scope's capped list has `WakeupLimit` newer ones in it (`NewestOutdo`), and
  these, or newer ones yet, fill the merged list (`Outdone`).

* `SurfacesProofs` proves both properties of `Surfaces`, for all calls, all the
  arguments of `Args` at once and any number of tries (the runs give at most
  three arguments and ask twice). `SurfacesAgreed` (`SurfacesAgree`) compares a
  translation with `Meant`, one operation at a time: its errors are `Sorted` (a
  surface's own error only for what is malformed, and what is malformed has an
  error here or is refused by the store), and without one it `Asks` for what was
  meant (for a retrieval, `DeeperFits`); `CliAgrees`, `McpAgrees` and `NodeAgrees` say so of the surfaces, and for
  MCP that every error, of the handler or of the store, `Blames` the request.
  `Stages` carries this along the phases of a call, and `StoreErrors` adds what
  the store refuses. `EffectsOnce` (`CallsTakeEffectOnce`) needs to know why a
  retry finds nothing to do: what a transaction did still holds, or a later one
  undid it (`Stands`), and a request does not do what holds (`ChangesAre`); the
  numbers of calls and tries tie a transaction to its call (`Numbered`,
  `Unlogged`). One exception came out of the proof: a fact that supersedes
  itself is closed and opened by one transaction (`Renews`), each time it is asked.

Only model-checked: liveness (`CallsReturn`, `OpensReturn`, `RunsEnd`,
`SessionsProceed`: out of the prover's reach), and `DocCountIsSearchable` of
`VectorIndex` (it holds within the bounds of `upgrade` only, see the run
`reindex`).

## Not modelled

* The order in which a power cut preserves unsynced renames: a crash ends a
  process and keeps its writes in order.
* `sweep_temp_files` against a handle that is creating `.meta.json`.
* What usearch, Tantivy, SQLite and the embedder compute; vectors and text are
  identities, and a ranking is a choice.
* Scope selectivity in the vector search, tags, the walk of `revision_history`.
* The LLM adapters and the benchmarks, MCP resources and prompts, the conversion
  of results, and everything that only formats.

`PROJECT.json` gives the reason for each component that is not or only partly
modelled.
