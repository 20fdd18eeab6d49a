---------------------------- MODULE VectorIndex ----------------------------
(***************************************************************************)
(* The vector sidecar `<store>.vectors/`: several handles (EmbedderIndex   *)
(* over VectorIndex, in one process or several) add embeddings to their    *)
(* own in-memory HNSW graph, append them to the shared journal.bin and     *)
(* fold the journal into the shared pair index.usearch + keymap.bin.       *)
(*                                                                         *)
(* A vector is abstracted to the record [id, ver]: the embedding of item   *)
(* id, in its ver-th content.  A usearch graph is a function from keys to  *)
(* such records.  The journal is a sequence of records (its bytes, torn    *)
(* tails and header are the subject of module JournalFile).  A crash kills *)
(* a handle's process between two file-system calls; what it had written   *)
(* stays, in the order it was written.                                     *)
(***************************************************************************)
EXTENDS Integers, Sequences

CONSTANTS
    Handle,             \* open handles on one directory
    Item,               \* ItemIds
    Version,            \* distinguishable embeddings of one item
    Key,                \* u64 keys the graph may use (a bound for TLC)
    None,               \* "no entry", "no handle"
    COMPACT_THRESHOLD,  \* journal records above which a commit compacts
    JOURNAL_CHUNK,      \* JOURNAL_APPEND_CHUNK, records per append
    LOCK_ATTEMPTS,      \* tries before a commit gives up on the lock
    Legacy,             \* records of a format "1" directory found at start
    LegacyKey,          \* the keys and the next_key they may have there
    Shared,             \* items that may be added more than once
    ConcurrentAdd,      \* may a thread add while another one commits?
    MaxCrash,           \* bound: exits, crashes and failed calls together
    MaxFault            \* bound: failed file-system calls

Rec == [id : Item, ver : Version]

ASSUME KeyAssumption == Key \subseteq Nat
ASSUME NoneAssumption == None \notin Handle \cup Item \cup Key \cup Rec
ASSUME BoundAssumption ==
    /\ COMPACT_THRESHOLD \in Nat /\ JOURNAL_CHUNK \in Nat \ {0}
    /\ LOCK_ATTEMPTS \in Nat \ {0} /\ MaxCrash \in Nat /\ MaxFault \in Nat
ASSUME LegacyAssumption ==
    /\ Legacy \subseteq Rec /\ LegacyKey \subseteq Key
    /\ \A r, s \in Legacy : r.id = s.id => r = s
ASSUME CallerAssumption ==
    Shared \subseteq Item /\ ConcurrentAdd \in BOOLEAN

Graph == [Key -> Rec \cup {None}]
Keymap == [generation : Nat, next_key : Nat,
           forward : [Key -> Item \cup {None}],
           reverse : [Item -> Key \cup {None}]]

EmptyGraph == [k \in Key |-> None]
EmptyKeymap == [generation |-> 0, next_key |-> 0,
                forward |-> [k \in Key |-> None],
                reverse |-> [i \in Item |-> None]]

VARIABLES
    \* the directory
    meta_json,       \* format_version in .meta.json, or "none"
    index_usearch,   \* the saved graph; no file is an empty graph
    keymap_bin,      \* the saved keymap; EmptyKeymap when there is no file
    keymap_format,   \* layout of keymap.bin: "1", "2", or "none"
    journal,         \* complete records of journal.bin
    writer, readers, \* holders of <dir>/lock, exclusive and shared
    \* the handles
    pc, inner, keymap, pending, loaded_generation, meta_upgrade_pending,
    tombstones, batch_end,
    \* locals of a call in progress
    end_of_batch,    \* commit's argument
    attempts,        \* tries of acquire_lock_at
    todo, skip,      \* records being replayed, ids the replay leaves out
    drained,         \* records taken from pending, not yet durable
    saved,           \* index.usearch.tmp
    \* history and bounds
    issued,          \* what the store has handed to some index
    added,           \* what a handle's callers have added since it opened
    covers,          \* `added` when the running commit was called
    acked,           \* what commits that returned Ok covered
    crashes, faults

disk == <<meta_json, index_usearch, keymap_bin, keymap_format, journal>>
lock == <<writer, readers>>
memory == <<inner, keymap, pending, loaded_generation, meta_upgrade_pending,
            tombstones, batch_end>>
locals == <<end_of_batch, attempts, todo, skip, drained, saved>>
history == <<issued, added, covers, acked, crashes, faults>>
vars == <<disk, lock, pc, memory, locals, history>>

Stage == {"closed", "loading", "idle", "acquire", "locked", "append",
          "reload", "reinsert", "scan", "absorb", "saved", "graphed",
          "keyed"}
\* A commit holds <dir>/lock exclusively from "locked" to its return.
Committing == Stage \ {"closed", "loading", "idle", "acquire"}

Ids(S) == {r.id : r \in S}
InSeq(q) == {q[n] : n \in DOMAIN q}
Supersede(S, T) == {r \in S : r.id \notin Ids(T)} \cup T

TypeOK ==
    /\ meta_json \in {"none", "1", "2"} /\ keymap_format \in {"none", "1", "2"}
    /\ index_usearch \in Graph /\ keymap_bin \in Keymap /\ journal \in Seq(Rec)
    /\ writer \in Handle \cup {None} /\ readers \in SUBSET Handle
    /\ pc \in [Handle -> Stage]
    /\ inner \in [Handle -> Graph] /\ keymap \in [Handle -> Keymap]
    /\ pending \in [Handle -> Seq(Rec)]
    /\ loaded_generation \in [Handle -> Nat]
    /\ meta_upgrade_pending \in [Handle -> BOOLEAN]
    /\ tombstones \in [Handle -> SUBSET Item]
    /\ batch_end \in [Handle -> BOOLEAN] /\ end_of_batch \in [Handle -> BOOLEAN]
    /\ attempts \in [Handle -> Nat]
    /\ todo \in [Handle -> Seq(Rec)] /\ skip \in [Handle -> SUBSET Item]
    /\ drained \in [Handle -> Seq(Rec)] /\ saved \in [Handle -> Graph]
    /\ issued \in SUBSET Rec
    /\ added \in [Handle -> SUBSET Rec] /\ covers \in [Handle -> SUBSET Rec]
    /\ acked \in SUBSET Rec
    /\ crashes \in Nat /\ faults \in Nat

(***************************************************************************)
(* A directory is fresh, or was written by a format "1" build: its keymap  *)
(* numbers the Legacy records without generation, and has no journal.      *)
(***************************************************************************)
Numbering == {f \in [Legacy -> LegacyKey] : \A r, s \in Legacy : f[r] = f[s] => r = s}

LegacyGraph(f) ==
    [k \in Key |-> IF \E r \in Legacy : f[r] = k
                   THEN CHOOSE r \in Legacy : f[r] = k ELSE None]

LegacyKeymap(f, n) ==
    [generation |-> 0, next_key |-> n,
     forward |-> [k \in Key |-> IF \E r \in Legacy : f[r] = k
                                THEN (CHOOSE r \in Legacy : f[r] = k).id ELSE None],
     reverse |-> [i \in Item |-> IF i \in Ids(Legacy)
                                 THEN f[CHOOSE r \in Legacy : r.id = i] ELSE None]]

InitDirectory ==
    \/ /\ Legacy = {}
       /\ meta_json = "none" /\ keymap_format = "none"
       /\ index_usearch = EmptyGraph /\ keymap_bin = EmptyKeymap
    \/ /\ Legacy # {}
       /\ meta_json = "1" /\ keymap_format = "1"
       /\ \E f \in Numbering, n \in LegacyKey :
             /\ \A r \in Legacy : f[r] < n
             /\ index_usearch = LegacyGraph(f) /\ keymap_bin = LegacyKeymap(f, n)

Init ==
    /\ InitDirectory
    /\ journal = << >> /\ writer = None /\ readers = {}
    /\ pc = [h \in Handle |-> "closed"]
    /\ inner = [h \in Handle |-> EmptyGraph]
    /\ keymap = [h \in Handle |-> EmptyKeymap]
    /\ pending = [h \in Handle |-> << >>]
    /\ loaded_generation = [h \in Handle |-> 0]
    /\ meta_upgrade_pending = [h \in Handle |-> FALSE]
    /\ tombstones = [h \in Handle |-> {}]
    /\ batch_end = [h \in Handle |-> FALSE]
    /\ end_of_batch = [h \in Handle |-> FALSE]
    /\ attempts = [h \in Handle |-> 0]
    /\ todo = [h \in Handle |-> << >>] /\ skip = [h \in Handle |-> {}]
    /\ drained = [h \in Handle |-> << >>]
    /\ saved = [h \in Handle |-> EmptyGraph]
    /\ issued = Legacy
    /\ added = [h \in Handle |-> {}] /\ covers = [h \in Handle |-> {}]
    /\ acked = Legacy /\ crashes = 0 /\ faults = 0

Goto(h, stage) == pc' = [pc EXCEPT ![h] = stage]

(***************************************************************************)
(* insert_entries, for one record: evict the key the id holds, take the    *)
(* next key, evict whatever a torn compaction left under it.               *)
(***************************************************************************)
\* Mutant of GraphInsert: the occupant of the next key is not evicted.
GraphInsertKeepsOrphan(g, km, r) ==
    [k \in Key |-> IF k = km.next_key /\ g[k] = None THEN r
                   ELSE IF k = km.reverse[r.id] THEN None ELSE g[k]]

GraphInsert(g, km, r) ==
    [k \in Key |-> IF k = km.next_key THEN r
                   ELSE IF k = km.reverse[r.id] THEN None ELSE g[k]]

\* Mutant of KeymapInsert: the previous key of a re-added id stays mapped.
KeymapInsertKeepsOldKey(km, r) ==
    [generation |-> km.generation,
     next_key |-> km.next_key + 1,
     forward |-> [km.forward EXCEPT ![km.next_key] = r.id],
     reverse |-> [km.reverse EXCEPT ![r.id] = km.next_key]]

KeymapInsert(km, r) ==
    [generation |-> km.generation,
     next_key |-> km.next_key + 1,
     forward |-> [k \in Key |-> IF k = km.next_key THEN r.id
                                ELSE IF k = km.reverse[r.id] THEN None
                                ELSE km.forward[k]],
     reverse |-> [km.reverse EXCEPT ![r.id] = km.next_key]]

Insert(h, r) ==
    /\ keymap[h].next_key \in Key
    /\ inner' = [inner EXCEPT ![h] = GraphInsert(inner[h], keymap[h], r)]
    /\ keymap' = [keymap EXCEPT ![h] = KeymapInsert(keymap[h], r)]

(***************************************************************************)
(* VectorIndex::open: everything under the shared lock.  An open that does *)
(* not get the lock fails and changes nothing.                             *)
(***************************************************************************)
\* Mutant of LoadedKeymap: the reset keymap restarts one key too early.
LoadedKeymapOffByOne ==
    IF index_usearch = EmptyGraph
    THEN [EmptyKeymap EXCEPT !.generation = keymap_bin.generation,
                             !.next_key = keymap_bin.next_key - 1]
    ELSE keymap_bin

\* A keymap beside no graph file is stale: load keeps only its counters.
LoadedKeymap ==
    IF index_usearch = EmptyGraph
    THEN [EmptyKeymap EXCEPT !.generation = keymap_bin.generation,
                             !.next_key = keymap_bin.next_key]
    ELSE keymap_bin

Named(km) == {i \in Item : km.reverse[i] # None}

Open(h) ==
    /\ pc[h] = "closed" /\ writer = None
    /\ readers' = readers \cup {h}
    /\ meta_json' = IF meta_json = "none" THEN "2" ELSE meta_json
    /\ meta_upgrade_pending' = [meta_upgrade_pending EXCEPT ![h] = meta_json = "1"]
    /\ inner' = [inner EXCEPT ![h] = index_usearch]
    /\ keymap' = [keymap EXCEPT ![h] = LoadedKeymap]
    /\ loaded_generation' = [loaded_generation EXCEPT ![h] = LoadedKeymap.generation]
    /\ todo' = [todo EXCEPT ![h] = journal]
    /\ skip' = [skip EXCEPT ![h] = Named(LoadedKeymap)]
    /\ Goto(h, "loading")
    /\ UNCHANGED <<index_usearch, keymap_bin, keymap_format, journal, writer,
                   pending, tombstones, batch_end,
                   end_of_batch, attempts, drained, saved, history>>

\* One record of absorb_journal (on open, or in a compaction) or of the
\* re-insertion of `pending` into a reloaded graph.
Replay(h) ==
    /\ pc[h] \in {"loading", "reinsert", "absorb"} /\ todo[h] # << >>
    /\ todo' = [todo EXCEPT ![h] = Tail(todo[h])]
    /\ \/ /\ Head(todo[h]).id \in skip[h]
          /\ UNCHANGED <<inner, keymap>>
       \/ /\ Head(todo[h]).id \notin skip[h]
          /\ Insert(h, Head(todo[h]))
    /\ UNCHANGED <<disk, lock, pc, pending, loaded_generation,
                   meta_upgrade_pending, tombstones, batch_end,
                   end_of_batch, attempts, skip, drained, saved, history>>

\* Mutant of OpenDone: load returns without replaying the journal.
OpenDoneUnreplayed(h) ==
    /\ pc[h] = "loading"
    /\ readers' = readers \ {h}
    /\ todo' = [todo EXCEPT ![h] = << >>]
    /\ skip' = [skip EXCEPT ![h] = {}]
    /\ Goto(h, "idle")
    /\ UNCHANGED <<disk, writer, memory, end_of_batch, attempts, drained, saved,
                   history>>

OpenDone(h) ==
    /\ pc[h] = "loading" /\ todo[h] = << >>
    /\ readers' = readers \ {h}
    /\ skip' = [skip EXCEPT ![h] = {}]
    /\ Goto(h, "idle")
    /\ UNCHANGED <<disk, writer, memory, end_of_batch, attempts, todo,
                   drained, saved, history>>

(***************************************************************************)
(* Mutations of the in-memory index.  The thread that commits holds the    *)
(* inner mutex while it replays; another thread's add waits for it.        *)
(***************************************************************************)
MayMutate(h) ==
    \/ pc[h] = "idle"
    \/ ConcurrentAdd /\ pc[h] \in {"acquire", "locked", "append", "reload",
                                   "scan", "saved", "graphed", "keyed"}

\* Ids come from the store, which issues each of them once; only a reindex
\* hands an id to an index that already has it.
MayAdd(i) == i \in Shared \/ i \notin Ids(issued)

\* on_ingest (batch = FALSE); the last record of on_ingest_batch (TRUE).
\* The earlier records of a batch, and the ones before a chunk that fails,
\* are adds with batch = FALSE.
Add(h, r, batch) ==
    /\ MayMutate(h)
    /\ MayAdd(r.id)
    /\ Insert(h, r)
    /\ pending' = [pending EXCEPT ![h] = Append(@, r)]
    /\ batch_end' = [batch_end EXCEPT ![h] = @ \/ batch]
    /\ issued' = issued \cup {r}
    /\ added' = [added EXCEPT ![h] = Supersede(@, {r})]
    /\ UNCHANGED <<disk, lock, pc, loaded_generation, meta_upgrade_pending,
                   tombstones, locals, covers, acked, crashes, faults>>

(***************************************************************************)
(* EmbedderIndex::commit -> VectorIndex::commit.                           *)
(***************************************************************************)
Commit(h) ==
    /\ pc[h] = "idle"
    /\ end_of_batch' = [end_of_batch EXCEPT ![h] = batch_end[h]]
    /\ covers' = [covers EXCEPT ![h] = added[h]]
    /\ Goto(h, "acquire")
    /\ UNCHANGED <<disk, lock, memory, attempts, todo, skip, drained, saved,
                   issued, added, acked, crashes, faults>>

Acquire(h) ==
    /\ pc[h] = "acquire" /\ writer = None /\ readers = {}
    /\ writer' = h
    /\ attempts' = [attempts EXCEPT ![h] = 0]
    /\ Goto(h, "locked")
    /\ UNCHANGED <<disk, readers, memory, end_of_batch, todo, skip, drained,
                   saved, history>>

\* Mutant of Busy: a busy lock is retried without counting.
BusyForever(h) ==
    /\ pc[h] = "acquire" /\ (writer # None \/ readers # {})
    /\ UNCHANGED vars

\* try_lock_exclusive found the lock taken; the last attempt gives up.
Busy(h) ==
    /\ pc[h] = "acquire" /\ (writer # None \/ readers # {})
    /\ \/ /\ attempts[h] + 1 < LOCK_ATTEMPTS
          /\ attempts' = [attempts EXCEPT ![h] = @ + 1]
          /\ UNCHANGED <<pc, covers, end_of_batch>>
       \/ /\ attempts[h] + 1 = LOCK_ATTEMPTS
          /\ attempts' = [attempts EXCEPT ![h] = 0]
          /\ covers' = [covers EXCEPT ![h] = {}]
          /\ end_of_batch' = [end_of_batch EXCEPT ![h] = FALSE]
          /\ Goto(h, "idle")
    /\ UNCHANGED <<disk, lock, memory, todo, skip, drained, saved, issued,
                   added, acked, crashes, faults>>

\* Mutant of UpgradedMeta: an end-of-batch commit skips the upgrade.
UpgradedMetaLate(h) ==
    IF meta_upgrade_pending[h] /\ ~end_of_batch[h] THEN "2" ELSE meta_json

\* write_meta_upgrade.
UpgradedMeta(h) == IF meta_upgrade_pending[h] THEN "2" ELSE meta_json

\* commit_locked: upgrade .meta.json, then either compact at once or drain for the journal.
CommitLocked(h) ==
    /\ pc[h] = "locked"
    /\ meta_json' = UpgradedMeta(h)
    /\ meta_upgrade_pending' = [meta_upgrade_pending EXCEPT ![h] = FALSE]
    /\ \/ /\ end_of_batch[h]
          /\ Goto(h, "reload")
          /\ UNCHANGED <<pending, drained>>
       \/ /\ ~end_of_batch[h]
          /\ drained' = [drained EXCEPT ![h] = pending[h]]
          /\ pending' = [pending EXCEPT ![h] = << >>]
          /\ Goto(h, "append")
    /\ UNCHANGED <<index_usearch, keymap_bin, keymap_format, journal, lock,
                   inner, keymap, loaded_generation, tombstones, batch_end,
                   end_of_batch, attempts, todo, skip, saved, history>>

Chunk(h) == IF Len(drained[h]) < JOURNAL_CHUNK THEN Len(drained[h]) ELSE JOURNAL_CHUNK

AppendChunk(h) ==
    /\ pc[h] = "append" /\ drained[h] # << >>
    /\ journal' = journal \o SubSeq(drained[h], 1, Chunk(h))
    /\ drained' = [drained EXCEPT ![h] = SubSeq(@, Chunk(h) + 1, Len(@))]
    /\ UNCHANGED <<meta_json, index_usearch, keymap_bin, keymap_format, lock,
                   pc, memory, end_of_batch, attempts, todo, skip, saved,
                   history>>

\* The commit returns: its lock is dropped, its locals are gone.
Return(h) ==
    /\ writer' = None
    /\ end_of_batch' = [end_of_batch EXCEPT ![h] = FALSE]
    /\ todo' = [todo EXCEPT ![h] = << >>] /\ skip' = [skip EXCEPT ![h] = {}]
    /\ drained' = [drained EXCEPT ![h] = << >>]
    /\ saved' = [saved EXCEPT ![h] = EmptyGraph]
    /\ covers' = [covers EXCEPT ![h] = {}]
    /\ Goto(h, "idle")
    /\ UNCHANGED <<readers, attempts, issued, added, crashes>>

Ok(h) ==
    /\ Return(h)
    /\ acked' = Supersede(acked, covers[h])
    /\ batch_end' = [batch_end EXCEPT ![h] = @ /\ ~end_of_batch[h]]
    /\ UNCHANGED faults

JournalFull == Len(journal) > COMPACT_THRESHOLD

AppendDone(h) ==
    /\ pc[h] = "append" /\ drained[h] = << >> /\ ~JournalFull
    /\ Ok(h)
    /\ UNCHANGED <<disk, inner, keymap, pending, loaded_generation,
                   meta_upgrade_pending, tombstones>>

AppendThenCompact(h) ==
    /\ pc[h] = "append" /\ drained[h] = << >> /\ JournalFull
    /\ Goto(h, "reload")
    /\ UNCHANGED <<disk, lock, memory, locals, history>>

(***************************************************************************)
(* compact_locked.                                                         *)
(***************************************************************************)
Stale(h) == keymap_format # "none" /\ keymap_bin.generation # loaded_generation[h]

\* Mutant of ReloadedGraph: only the keymap is replaced.
ReloadedGraphKept(h) == inner[h]

\* What a reload puts in place of the graph, and inserts into it again.
ReloadedGraph(h) == index_usearch

\* Mutant of Queued: what is not yet in the journal is not inserted again.
QueuedForgotten(h) == << >>

Queued(h) == pending[h]

ReloadIfStale(h) ==
    /\ pc[h] = "reload"
    /\ \/ /\ ~Stale(h)
          /\ Goto(h, "scan")
          /\ UNCHANGED <<inner, keymap, loaded_generation, todo>>
       \/ /\ Stale(h)
          /\ inner' = [inner EXCEPT ![h] = ReloadedGraph(h)]
          /\ keymap' = [keymap EXCEPT ![h] = keymap_bin]
          /\ loaded_generation' = [loaded_generation EXCEPT ![h] = keymap_bin.generation]
          /\ todo' = [todo EXCEPT ![h] = Queued(h)]
          /\ Goto(h, "reinsert")
    /\ UNCHANGED <<disk, lock, pending, meta_upgrade_pending, tombstones,
                   batch_end, end_of_batch, attempts, skip, drained, saved,
                   history>>

\* Mutant of Suppressed: removals are not remembered.
SuppressedNamedOnly(h) == Named(keymap[h])

\* Ids whose journal records a replay leaves out; module VectorRemove puts
\* ids into `tombstones`.
Suppressed(h) == Named(keymap[h]) \cup tombstones[h]

\* absorb_journal: the filter looks at the keymap as it is before the replay.
AbsorbJournal(h) ==
    /\ pc[h] \in {"reinsert", "scan"} /\ todo[h] = << >>
    /\ todo' = [todo EXCEPT ![h] = journal]
    /\ skip' = [skip EXCEPT ![h] = Suppressed(h)]
    /\ Goto(h, "absorb")
    /\ UNCHANGED <<disk, lock, memory, end_of_batch, attempts, drained, saved,
                   history>>

\* Under the inner mutex: take the queue and save the graph to its tmp file.
SaveGraph(h) ==
    /\ pc[h] = "absorb" /\ todo[h] = << >>
    /\ drained' = [drained EXCEPT ![h] = pending[h]]
    /\ pending' = [pending EXCEPT ![h] = << >>]
    /\ saved' = [saved EXCEPT ![h] = inner[h]]
    /\ Goto(h, "saved")
    /\ UNCHANGED <<disk, lock, inner, keymap, loaded_generation,
                   meta_upgrade_pending, tombstones, batch_end, end_of_batch,
                   attempts, todo, skip, history>>

\* Mutant of PublishGraph: the journal is truncated with the first rename.
PublishGraphClearsJournal(h) ==
    /\ pc[h] = "saved"
    /\ index_usearch' = saved[h] /\ journal' = << >>
    /\ Goto(h, "graphed")
    /\ UNCHANGED <<meta_json, keymap_bin, keymap_format, lock, memory, locals,
                   history>>

\* publish_compaction.  An empty graph is published by removing the file.
PublishGraph(h) ==
    /\ pc[h] = "saved"
    /\ index_usearch' = saved[h]
    /\ Goto(h, "graphed")
    /\ UNCHANGED <<meta_json, keymap_bin, keymap_format, journal, lock,
                   memory, locals, history>>

\* Mutant of NextGeneration: the generation is not bumped.
NextGenerationSame(h) == loaded_generation[h]

NextGeneration(h) == loaded_generation[h] + 1

Stamped(h) ==
    [generation |-> NextGeneration(h), next_key |-> keymap[h].next_key,
     forward |-> keymap[h].forward, reverse |-> keymap[h].reverse]

PublishKeymap(h) ==
    /\ pc[h] = "graphed"
    /\ keymap' = [keymap EXCEPT ![h] = Stamped(h)]
    /\ keymap_bin' = Stamped(h)
    /\ keymap_format' = "2"
    /\ Goto(h, "keyed")
    /\ UNCHANGED <<meta_json, index_usearch, journal, lock, inner, pending,
                   loaded_generation, meta_upgrade_pending, tombstones,
                   batch_end, locals, history>>

ClearJournal(h) ==
    /\ pc[h] = "keyed"
    /\ journal' = << >>
    /\ tombstones' = [tombstones EXCEPT ![h] = {}]
    /\ loaded_generation' = [loaded_generation EXCEPT ![h] = NextGeneration(h)]
    /\ Ok(h)
    /\ UNCHANGED <<meta_json, index_usearch, keymap_bin, keymap_format, inner,
                   keymap, pending, meta_upgrade_pending>>

(***************************************************************************)
(* Failures.                                                               *)
(***************************************************************************)
\* Records of the chunk being appended that may reach journal.bin anyway.
Torn(h) == IF pc[h] = "append" THEN 0 .. Chunk(h) ELSE {0}

\* A file-system call of the commit fails: the commit puts back what it had
\* taken and returns the error.  A failed clear may have truncated already.
IoError(h) ==
    /\ faults < MaxFault /\ crashes + faults < MaxCrash
    /\ \/ pc[h] \in {"locked", "append", "reload", "scan", "saved", "graphed", "keyed"}
       \/ pc[h] = "reinsert" /\ todo[h] = << >>
    /\ \/ \E n \in Torn(h) : journal' = journal \o SubSeq(drained[h], 1, n)
       \/ pc[h] = "keyed" /\ journal' = << >>
    /\ pending' = [pending EXCEPT ![h] = drained[h] \o pending[h]]
    /\ Return(h)
    /\ faults' = faults + 1
    /\ UNCHANGED <<meta_json, index_usearch, keymap_bin, keymap_format, inner,
                   keymap, loaded_generation, meta_upgrade_pending,
                   tombstones, batch_end, acked>>

\* The process of a handle dies, or drops it: memory is gone, the operating
\* system releases its lock.
Crash(h) ==
    /\ crashes + faults < MaxCrash /\ pc[h] # "closed"
    /\ crashes' = crashes + 1
    /\ \E n \in Torn(h) : journal' = journal \o SubSeq(drained[h], 1, n)
    /\ writer' = IF writer = h THEN None ELSE writer
    /\ readers' = readers \ {h}
    /\ inner' = [inner EXCEPT ![h] = EmptyGraph]
    /\ keymap' = [keymap EXCEPT ![h] = EmptyKeymap]
    /\ pending' = [pending EXCEPT ![h] = << >>]
    /\ loaded_generation' = [loaded_generation EXCEPT ![h] = 0]
    /\ meta_upgrade_pending' = [meta_upgrade_pending EXCEPT ![h] = FALSE]
    /\ tombstones' = [tombstones EXCEPT ![h] = {}]
    /\ batch_end' = [batch_end EXCEPT ![h] = FALSE]
    /\ end_of_batch' = [end_of_batch EXCEPT ![h] = FALSE]
    /\ attempts' = [attempts EXCEPT ![h] = 0]
    /\ todo' = [todo EXCEPT ![h] = << >>] /\ skip' = [skip EXCEPT ![h] = {}]
    /\ drained' = [drained EXCEPT ![h] = << >>]
    /\ saved' = [saved EXCEPT ![h] = EmptyGraph]
    /\ added' = [added EXCEPT ![h] = {}]
    /\ covers' = [covers EXCEPT ![h] = {}]
    /\ Goto(h, "closed")
    /\ UNCHANGED <<meta_json, index_usearch, keymap_bin, keymap_format, issued,
                   acked, faults>>

(***************************************************************************)
(* The specification.                                                      *)
(***************************************************************************)
Step(h) ==
    \/ Replay(h) \/ OpenDone(h)
    \/ Acquire(h) \/ Busy(h) \/ CommitLocked(h)
    \/ AppendChunk(h) \/ AppendDone(h) \/ AppendThenCompact(h)
    \/ ReloadIfStale(h) \/ AbsorbJournal(h) \/ SaveGraph(h)
    \/ PublishGraph(h) \/ PublishKeymap(h) \/ ClearJournal(h)

Call(h) ==
    \/ Open(h) \/ Commit(h)
    \/ \E r \in Rec, batch \in BOOLEAN : Add(h, r, batch)

Next == \E h \in Handle : Call(h) \/ Step(h) \/ IoError(h) \/ Crash(h)

Spec == Init /\ [][Next]_vars

\* A call in progress runs on: its thread is scheduled and every lock wait
\* is bounded.  Nobody is obliged to make a call, and nothing has to fail.
FairSpec == Spec /\ \A h \in Handle : WF_vars(Step(h))

(***************************************************************************)
(* Properties.                                                             *)
(***************************************************************************)
\* What a search on handle h can return: the id's key is in the graph, and
\* the keymap translates that key back to the id.
Sees(h, r) ==
    LET k == keymap[h].reverse[r.id]
    IN k \in Key /\ inner[h][k] = r /\ keymap[h].forward[k] = r.id

\* What the next open of the directory would make searchable: the pair holds
\* the record, or the pair does not name its id and the last journal record
\* of the id is this one.
Recoverable(r) ==
    LET k == LoadedKeymap.reverse[r.id]
    IN \/ k \in Key /\ index_usearch[k] = r
       \/ /\ k = None
          /\ \E n \in DOMAIN journal :
                /\ journal[n] = r
                /\ \A m \in DOMAIN journal :
                      m > n /\ journal[m].id = r.id => journal[m] = r

\* Forward and reverse are inverse to each other and use issued keys only.
Consistent(km) ==
    /\ \A i \in Item, k \in Key : km.reverse[i] = k <=> km.forward[k] = i
    /\ \A k \in Key : km.forward[k] # None => k < km.next_key

\* keymap.bin and every handle's keymap stay a bijection below next_key, so
\* a search never returns an id twice and a key is never issued again,
\* through re-adds, replays over a torn pair, reloads and crashes
\* (insert_entries, reload_if_stale, load).
KeymapsConsistent ==
    Consistent(keymap_bin) /\ \A h \in Handle : Consistent(keymap[h])

\* What a commit that returned Ok covered survives every crash, failed call
\* and compaction by any handle: it is always recoverable from the directory
\* (commit_locked, compact_locked, publish_compaction, absorb_journal).
AckedRecoverable == \A r \in acked : Recoverable(r)

\* An open that returns sees everything acknowledged so far (load).
OpenSeesAcked ==
    [][\A h \in Handle : pc[h] = "loading" /\ pc'[h] = "idle"
            => \A r \in acked : Sees(h, r)']_vars

\* A handle between calls finds everything its callers added, although its
\* commits may have replaced its graph by another handle's (reload_if_stale,
\* absorb_journal).  A commit whose journal read fails after the reload has
\* dropped the handle's journalled records: those are then only on disk.
OwnAddsSearchable ==
    \A h \in Handle : pc[h] = "idle" =>
        \A r \in added[h] : Sees(h, r) \/ (faults > 0 /\ Recoverable(r))

\* keymap.bin only moves one generation at a time, by a handle that knew the
\* previous one: no entry of it is dropped, and issued keys stay issued
\* (reload_if_stale, publish_compaction).
NoLostUpdate ==
    [][keymap_bin' # keymap_bin =>
          /\ keymap_bin'.generation = keymap_bin.generation + 1
          /\ keymap_bin'.next_key >= keymap_bin.next_key
          /\ Named(keymap_bin) \subseteq Named(keymap_bin')]_vars

\* doc_count is the number of ids a search can return: a handle between
\* calls has the vector of every id its keymap names (load, doc_count).
DocCountIsSearchable ==
    \A h \in Handle : pc[h] = "idle" =>
        \A i \in Named(keymap[h]) : inner[h][keymap[h].reverse[i]] # None

\* A format "2" keymap or a journal is never found beside a "1" meta, which
\* an older build would read as a directory of its own (write_meta_upgrade
\* comes first in commit_locked).
MetaUpgradedFirst ==
    keymap_format = "2" \/ journal # << >> => meta_json = "2"

\* Every commit returns, whoever holds the lock (acquire_lock_at gives up),
\* and so does every open.
CallsReturn ==
    \A h \in Handle : pc[h] \notin {"idle", "closed"} ~> pc[h] \in {"idle", "closed"}

=============================================================================
