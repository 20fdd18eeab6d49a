---------------------------- MODULE IngestDriver ----------------------------
(***************************************************************************)
(* ingest_source and write_batches of driver.rs, run by several processes  *)
(* on one store, over Store::ingest, ingest_many and ingest_replacing.     *)
(*                                                                         *)
(* The three writers begin their transaction with a write, so each is one  *)
(* step on the table; the index hook they call afterwards is another.  An  *)
(* item is its external_id, its metadata.sha256 and whether validate       *)
(* accepts it; an item id is the position of its row.                      *)
(***************************************************************************)
EXTENDS Lists, FiniteSets

CONSTANTS
    Process, Key, Hash,
    Source,         \* what sources may yield: sequences of items
    Stored,         \* what the store may hold before: keys with their hash
    None,           \* no external_id, no hash
    Unreadable,     \* what a source yields for an input it cannot read
    BATCH_SIZE,
    MaxRun, MaxFault        \* bounds: runs, and errors or crashes

Item == [key : Key \cup {None}, hash : Hash \cup {None}, valid : BOOLEAN]

ASSUME DriverAssumption ==
    /\ Source \subseteq Seq(Item \cup {Unreadable}) /\ Unreadable \notin Item
    /\ Stored \subseteq Seq([key : Key, hash : Hash])
    /\ None \notin Key \cup Hash
    /\ BATCH_SIZE \in Nat \ {0} /\ MaxRun \in Nat /\ MaxFault \in Nat

\* A row of table items, and the run that wrote it.
Row == [key : Key \cup {None}, hash : Hash \cup {None}, supersedes : Nat,
        by : Nat]

Report == [ingested : Nat, skipped_existing : Nat, failed : Nat]

VARIABLES
    items,                  \* table items; supersedes = 0 is NULL
    runs,                   \* number of runs started
    pc, run, dry_run,       \* per process: step, number of the run, --dry-run
    source,                 \* what the source yielded
    pos,                    \* position of the loop over candidates, or a batch
    existing, accepted,     \* existing, accepted_ids
    fresh, batch, old,      \* fresh, batch, and the id of the item to replace
    report, outcome,
    pending,                \* rows committed whose hook has not run: the rows wait
                            \* for nobody, their process for the hook (IndexSync)
    faults

args == <<runs, run, dry_run, source>>
locals == <<pos, existing, accepted, fresh, batch, old>>
vars == <<items, args, locals, pc, report, outcome, pending, faults>>

Steps == {"idle", "probe", "filter", "replace", "write", "reprobe", "retry", "each"}

TypeOK ==
    /\ items \in Seq(Row)
    /\ pc \in [Process -> Steps] /\ runs \in 0 .. MaxRun /\ run \in [Process -> 0 .. runs]
    /\ dry_run \in [Process -> BOOLEAN]
    /\ source \in [Process -> Seq(Item \cup {Unreadable})] /\ pos \in [Process -> Nat \ {0}]
    /\ existing \in [Process -> SUBSET Key] /\ accepted \in [Process -> SUBSET Key]
    /\ fresh \in [Process -> Seq(Item)] /\ batch \in [Process -> Seq(Item)]
    /\ \A p \in Process : Len(batch[p]) <= BATCH_SIZE
    /\ old \in [Process -> Nat] /\ report \in [Process -> Report]
    /\ outcome \in [Process -> {"none", "ok", "conflict", "validation", "sqlite", "crashed"}]
    /\ pending \in [Process -> SUBSET DOMAIN items]
    /\ faults \in 0 .. MaxFault

NoReport == [ingested |-> 0, skipped_existing |-> 0, failed |-> 0]

Init ==
    /\ \E stored \in Stored :
          items = [i \in DOMAIN stored |-> [key |-> stored[i].key, hash |-> stored[i].hash,
                                            supersedes |-> 0, by |-> 0]]
    /\ pc = [p \in Process |-> "idle"] /\ runs = 0 /\ run = [p \in Process |-> 0]
    /\ dry_run = [p \in Process |-> FALSE]
    /\ source = [p \in Process |-> << >>] /\ pos = [p \in Process |-> 1]
    /\ existing = [p \in Process |-> {}] /\ accepted = [p \in Process |-> {}]
    /\ fresh = [p \in Process |-> << >>] /\ batch = [p \in Process |-> << >>]
    /\ old = [p \in Process |-> 0] /\ report = [p \in Process |-> NoReport]
    /\ outcome = [p \in Process |-> "none"] /\ pending = [p \in Process |-> {}]
    /\ faults = 0

(***************************************************************************)
(* The table.                                                              *)
(***************************************************************************)
Holders(key) == {i \in DOMAIN items : key # None /\ items[i].key = key}

\* insert_item_row for each item of list, unless the UNIQUE index refuses one.
Conflict(list) == \E i \in DOMAIN list : Holders(list[i].key) # {}

Rows(p, list, supersedes) ==
    [i \in DOMAIN list |-> [key |-> list[i].key, hash |-> list[i].hash,
                            supersedes |-> supersedes, by |-> run[p]]]

\* The rows a transaction adds; the hook is called with them once it commits.
Committed(p, n) ==
    pending' = [pending EXCEPT ![p] = Len(items) + 1 .. Len(items) + n]

\* ingest_many and ingest.
Insert(p, list) ==
    /\ items' = items \o Rows(p, list, 0)
    /\ Committed(p, Len(list))

Count(p, field, n) == report' = [report EXCEPT ![p][field] = @ + n]

Goto(p, step) == pc' = [pc EXCEPT ![p] = step]

\* The run returns, with Ok or an error; its locals go.
Return(p, result) ==
    /\ Goto(p, "idle")
    /\ outcome' = [outcome EXCEPT ![p] = result]
    /\ pos' = [pos EXCEPT ![p] = 1] /\ old' = [old EXCEPT ![p] = 0]
    /\ existing' = [existing EXCEPT ![p] = {}] /\ accepted' = [accepted EXCEPT ![p] = {}]
    /\ fresh' = [fresh EXCEPT ![p] = << >>] /\ batch' = [batch EXCEPT ![p] = << >>]

\* A process does not go on before the hook has returned.
At(p, step) == pc[p] = step /\ pending[p] = {}

(***************************************************************************)
(* ingest_source.                                                          *)
(***************************************************************************)
\* All items are read from the source before the store is asked about them.
Start(p, yields, dry) ==
    /\ At(p, "idle") /\ runs < MaxRun
    /\ runs' = runs + 1 /\ run' = [run EXCEPT ![p] = runs + 1]
    /\ dry_run' = [dry_run EXCEPT ![p] = dry]
    /\ source' = [source EXCEPT ![p] = yields]
    /\ report' = [report EXCEPT ![p] = [NoReport EXCEPT !.failed =
                    Cardinality({i \in DOMAIN yields : yields[i] = Unreadable})]]
    /\ outcome' = [outcome EXCEPT ![p] = "none"]
    /\ Goto(p, "probe")
    /\ UNCHANGED <<items, locals, pending, faults>>

candidates(p) == Only(source[p], Item)

\* existing_external_ids: one query per id, with no transaction around them.
Probe(p, step, list, next) ==
    /\ At(p, step)
    /\ IF pos[p] <= Len(list)
       THEN /\ existing' = [existing EXCEPT ![p] =
                  IF Holders(list[pos[p]].key) # {} THEN @ \cup {list[pos[p]].key} ELSE @]
            /\ pos' = [pos EXCEPT ![p] = @ + 1]
            /\ UNCHANGED pc
       ELSE Goto(p, next) /\ pos' = [pos EXCEPT ![p] = 1] /\ UNCHANGED existing
    /\ UNCHANGED <<items, args, accepted, fresh, batch, old, report, outcome, pending, faults>>

\* The hash comparison with the item that holds the key now.
Differs(item, holder) ==
    item.hash # None /\ items[holder].hash # None /\ item.hash # items[holder].hash

\* One round of the loop over the candidates.
Filter(p) ==
    LET item == candidates(p)[pos[p]]
    IN /\ At(p, "filter") /\ pos[p] <= Len(candidates(p))
       /\ pos' = [pos EXCEPT ![p] = @ + 1]
       /\ accepted' = [accepted EXCEPT ![p] = @ \cup ({item.key} \ {None})]
       /\ \/ /\ item.key \notin accepted[p] \cup existing[p]
             /\ fresh' = [fresh EXCEPT ![p] = Append(@, item)]
             /\ UNCHANGED <<pc, old, report>>
          \/ /\ item.key \in accepted[p]
             /\ Count(p, "skipped_existing", 1)
             /\ UNCHANGED <<pc, old, fresh>>
          \/ /\ item.key \in existing[p] \ accepted[p]
             /\ \E i \in Holders(item.key) :
                  IF Differs(item, i) /\ ~dry_run[p]
                  THEN /\ old' = [old EXCEPT ![p] = i] /\ Goto(p, "replace")
                       /\ UNCHANGED report
                  ELSE /\ Count(p, IF Differs(item, i) THEN "ingested" ELSE "skipped_existing", 1)
                       /\ UNCHANGED <<old, pc>>
             /\ UNCHANGED fresh
       /\ UNCHANGED <<items, args, existing, batch, outcome, pending, faults>>

\* Mutant of Replace: the key is freed in a transaction of its own.
ReplaceInTwo(p) ==
    LET item == candidates(p)[pos[p] - 1]
    IN /\ At(p, "replace")
       /\ \/ /\ items[old[p]].key # None
             /\ items' = [items EXCEPT ![old[p]].key = None]
             /\ UNCHANGED <<pc, report, pending>>
          \/ /\ items[old[p]].key = None
             /\ items' = items \o Rows(p, <<item>>, old[p])
             /\ Committed(p, 1) /\ Count(p, "ingested", 1) /\ Goto(p, "filter")
       /\ UNCHANGED <<args, locals, outcome, faults>>

\* Mutant of Replace: nothing makes external_id unique.
ReplaceUnchecked(p) ==
    LET item == candidates(p)[pos[p] - 1]
    IN /\ At(p, "replace") /\ item.valid
       /\ items' = [items EXCEPT ![old[p]].key = None] \o Rows(p, <<item>>, old[p])
       /\ Committed(p, 1)
       /\ Count(p, "ingested", 1) /\ Goto(p, "filter")
       /\ UNCHANGED <<args, locals, outcome, faults>>

\* ingest_replacing: the key moves from the old row to the new one.  The row
\* exists, but may have lost the key to another process since it was read.
Replace(p) ==
    LET item == candidates(p)[pos[p] - 1]
    IN /\ At(p, "replace")
       /\ \/ /\ item.valid /\ Holders(item.key) \subseteq {old[p]}
             /\ items' = [items EXCEPT ![old[p]].key = None] \o Rows(p, <<item>>, old[p])
             /\ Committed(p, 1)
             /\ Count(p, "ingested", 1) /\ Goto(p, "filter")
             /\ UNCHANGED <<locals, outcome>>
          \/ /\ ~item.valid \/ ~(Holders(item.key) \subseteq {old[p]})
             /\ Return(p, IF item.valid THEN "conflict" ELSE "validation")
             /\ UNCHANGED <<items, report, pending>>
       /\ UNCHANGED <<args, faults>>

Filtered(p) ==
    /\ At(p, "filter") /\ pos[p] > Len(candidates(p))
    /\ IF dry_run[p]
       THEN Count(p, "ingested", Len(fresh[p])) /\ Return(p, "ok")
       ELSE /\ Goto(p, "write") /\ pos' = [pos EXCEPT ![p] = 1]
            /\ existing' = [existing EXCEPT ![p] = {}] /\ accepted' = [accepted EXCEPT ![p] = {}]
            /\ UNCHANGED <<fresh, batch, old, report, outcome>>
    /\ UNCHANGED <<items, args, pending, faults>>

(***************************************************************************)
(* write_batches.                                                          *)
(***************************************************************************)
\* Mutant of BatchSize: everything in one transaction.
BatchSizeAll(p) == Len(fresh[p])

BatchSize(p) == IF Len(fresh[p]) < BATCH_SIZE THEN Len(fresh[p]) ELSE BATCH_SIZE

Drained(p) == SubSeq(fresh[p], BatchSize(p) + 1, Len(fresh[p]))

\* ingest_many on the next batch: it validates every item before it inserts.
Write(p) ==
    LET next == SubSeq(fresh[p], 1, BatchSize(p))
        invalid == \E i \in DOMAIN next : ~next[i].valid
    IN /\ At(p, "write") /\ fresh[p] # << >>
       /\ fresh' = [fresh EXCEPT ![p] = Drained(p)]
       /\ IF invalid \/ Conflict(next)
          THEN /\ Goto(p, IF invalid THEN "each" ELSE "reprobe")
               /\ batch' = [batch EXCEPT ![p] = next]
               /\ UNCHANGED <<items, report, pending>>
          ELSE /\ Insert(p, next) /\ Count(p, "ingested", Len(next))
               /\ UNCHANGED <<pc, batch>>
       /\ UNCHANGED <<args, existing, accepted, old, pos, outcome, faults>>

Finish(p) ==
    /\ At(p, "write") /\ fresh[p] = << >>
    /\ Return(p, "ok")
    /\ UNCHANGED <<items, args, report, pending, faults>>

\* Mutant of Retained: a conflict drops the whole batch.
RetainedNone(p) == << >>

Retained(p) == Only(batch[p], {i \in Item : i.key \notin existing[p]})

\* The second attempt at a batch that met a concurrent writer.
Retry(p) ==
    LET retry == Retained(p)
    IN /\ At(p, "retry")
       /\ IF Conflict(retry)
          THEN /\ report' = [report EXCEPT ![p].skipped_existing =
                                @ + Len(batch[p]) - Len(retry)]
               /\ Return(p, "conflict")
               /\ UNCHANGED <<items, pending>>
          ELSE /\ Insert(p, retry) /\ Goto(p, "write")
               /\ report' = [report EXCEPT
                    ![p].skipped_existing = @ + Len(batch[p]) - Len(retry),
                    ![p].ingested = @ + Len(retry)]
               /\ existing' = [existing EXCEPT ![p] = {}]
               /\ batch' = [batch EXCEPT ![p] = << >>]
               /\ UNCHANGED <<pos, accepted, fresh, old, outcome>>
       /\ UNCHANGED <<args, faults>>

\* Mutant of Each: the item of a rejected batch is not counted.
EachUncounted(p) ==
    /\ At(p, "each")
    /\ IF batch[p] = << >>
       THEN Goto(p, "write") /\ UNCHANGED <<items, batch, pending>>
       ELSE /\ batch' = [batch EXCEPT ![p] = Tail(@)]
            /\ UNCHANGED pc
            /\ IF Head(batch[p]).valid /\ ~Conflict(<<Head(batch[p])>>)
               THEN Insert(p, <<Head(batch[p])>>) ELSE UNCHANGED <<items, pending>>
    /\ UNCHANGED <<args, existing, accepted, fresh, old, pos, report, outcome, faults>>

\* Mutant of Each: a rejected item is tried again after the others.
EachAgain(p) ==
    /\ At(p, "each")
    /\ IF batch[p] = << >>
       THEN Goto(p, "write") /\ UNCHANGED <<items, batch, report, pending>>
       ELSE /\ IF Head(batch[p]).valid /\ ~Conflict(<<Head(batch[p])>>)
               THEN /\ Insert(p, <<Head(batch[p])>>) /\ Count(p, "ingested", 1)
                    /\ batch' = [batch EXCEPT ![p] = Tail(@)]
               ELSE /\ batch' = [batch EXCEPT ![p] = Append(Tail(@), Head(@))]
                    /\ UNCHANGED <<items, report, pending>>
            /\ UNCHANGED pc
    /\ UNCHANGED <<args, existing, accepted, fresh, old, pos, outcome, faults>>

\* A batch with an invalid item is written item by item.
Each(p) ==
    LET item == Head(batch[p])
    IN /\ At(p, "each")
       /\ \/ /\ batch[p] = << >>
             /\ Goto(p, "write")
             /\ UNCHANGED <<items, locals, report, outcome, pending>>
          \/ /\ batch[p] # << >> /\ item.valid /\ Conflict(<<item>>)
             /\ Return(p, "conflict")
             /\ UNCHANGED <<items, report, pending>>
          \/ /\ batch[p] # << >>
             /\ \/ ~item.valid /\ Count(p, "failed", 1) /\ UNCHANGED <<items, pending>>
                \/ /\ item.valid /\ ~Conflict(<<item>>)
                   /\ Insert(p, <<item>>) /\ Count(p, "ingested", 1)
             /\ batch' = [batch EXCEPT ![p] = Tail(@)]
             /\ UNCHANGED <<pc, pos, existing, accepted, fresh, old, outcome>>
       /\ UNCHANGED <<args, faults>>

(***************************************************************************)
(* The hook, errors and crashes.                                           *)
(***************************************************************************)
\* fire_hook, and its counterpart in ingest_many: a failure is
\* logged, and the rows stay.
Hook(p) ==
    /\ pending[p] # {}
    /\ pending' = [pending EXCEPT ![p] = {}]
    /\ UNCHANGED <<items, args, locals, pc, report, outcome, faults>>

\* A call of the store fails with Error::Sqlite.
Fail(p) ==
    /\ pc[p] # "idle" /\ pending[p] = {} /\ faults < MaxFault
    /\ faults' = faults + 1
    /\ Return(p, "sqlite")
    /\ UNCHANGED <<items, args, report, pending>>

Crash(p) ==
    /\ pc[p] # "idle" /\ faults < MaxFault
    /\ faults' = faults + 1
    /\ pending' = [pending EXCEPT ![p] = {}]
    /\ Return(p, "crashed")
    /\ UNCHANGED <<items, args, report>>

Step(p) ==
    \/ Probe(p, "probe", candidates(p), "filter") \/ Filter(p) \/ Replace(p) \/ Filtered(p)
    \/ Write(p) \/ Probe(p, "reprobe", batch[p], "retry") \/ Retry(p) \/ Each(p) \/ Finish(p)
    \/ Hook(p)

Next ==
    \E p \in Process :
        \/ \E yields \in Source, dry \in BOOLEAN : Start(p, yields, dry)
        \/ Step(p) \/ Fail(p) \/ Crash(p)

Spec == Init /\ [][Next]_vars
FairSpec == Spec /\ \A p \in Process : WF_vars(Step(p))

(***************************************************************************)
(* Properties.                                                             *)
(***************************************************************************)
Wrote(p) == {i \in DOMAIN items : items[i].by = run[p]}

\* A run that returns Ok accounts for every item its source yielded, and
\* has written exactly as many rows as it reports, whatever conflicts,
\* retries and item-by-item writes it went through (Report).
OkAccounts ==
    \A p \in Process : outcome[p] = "ok" =>
        /\ report[p].ingested + report[p].skipped_existing + report[p].failed = Len(source[p])
        /\ Cardinality(Wrote(p)) = IF dry_run[p] THEN 0 ELSE report[p].ingested

\* The first item with an external_id decides about it: a later one is a
\* duplicate, even if the store rejects the first.
First(p, i) == \A j \in 1 .. i - 1 : candidates(p)[j].key # candidates(p)[i].key

\* When a run returns Ok, every valid item that is the first with its
\* external_id is in the store under that id, written by this run or by another.
OkMeansPresent ==
    \A p \in Process : outcome[p] = "ok" /\ ~dry_run[p] =>
        \A i \in DOMAIN candidates(p) :
            First(p, i) /\ candidates(p)[i].valid /\ candidates(p)[i].key # None =>
                Holders(candidates(p)[i].key) # {}

\* No item is replaced twice although two processes may read it, see a new
\* hash and both decide to replace it, and the item that carries a key is
\* the last of its chain (ingest_replacing: "an id never survives on a
\* superseded row").
ReplacedOnce ==
    \A i, j \in DOMAIN items :
        items[j].supersedes = i =>
            /\ items[i].key = None
            /\ \A k \in DOMAIN items : items[k].supersedes = i => k = j

\* A key that is in the store stays there: a replacement that fails, or a
\* process that dies in it, leaves the old item its key (ingest_replacing:
\* "On any error nothing changes").
KeysStay == [][\A key \in Key : Holders(key) # {} => Holders(key)' # {}]_vars

\* Every run ends: each batch leaves fresh, and a conflict is retried once.
RunsEnd == \A p \in Process : pc[p] # "idle" ~> pc[p] = "idle"

\* ingest_source "Returns `Err` only for store-level failures (read-only,
\* `SQLite`)": no other writer makes it return ExternalIdConflict.
ErrOnlyFromStore == \A p \in Process : outcome[p] # "conflict"
=============================================================================
