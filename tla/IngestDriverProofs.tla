-------------------------- MODULE IngestDriverProofs --------------------------
(***************************************************************************)
(* What every run of the ingest driver keeps, for any number of processes,  *)
(* any sources and any batch size; then what every run over a source keeps, *)
(* for any transcripts, chats, texts and chunk sizes.                       *)
(***************************************************************************)
EXTENDS Sources, IngestDriver, ListProofs

Present == {key \in Key : Holders(key) # {}}

Filtering == {"filter", "replace"}

\* Where a process is, and what its locals hold there.
Placed(p) ==
    /\ pc[p] \in {"idle", "probe"} => fresh[p] = << >> /\ accepted[p] = {}
    /\ pc[p] \notin {"reprobe", "retry", "each"} => batch[p] = << >>
    /\ pc[p] \in Filtering =>
          /\ pos[p] <= Len(candidates(p)) + 1
          /\ accepted[p] = {candidates(p)[n].key : n \in 1 .. pos[p] - 1} \ {None}
    /\ pc[p] = "replace" =>
          /\ pos[p] > 1 /\ old[p] \in DOMAIN items
          /\ candidates(p)[pos[p] - 1].key \in Present
    /\ dry_run[p] => pc[p] \in {"idle", "probe", "filter"}
    /\ existing[p] \subseteq Present

Stages == \A p \in Process : Placed(p)

(***************************************************************************)
(* Types, a group of variables at a time.                                  *)
(***************************************************************************)
TableTypes ==
    items \in Seq(Row) /\ pending \in [Process -> SUBSET DOMAIN items]

ArgTypes ==
    /\ runs \in 0 .. MaxRun /\ run \in [Process -> 0 .. runs]
    /\ dry_run \in [Process -> BOOLEAN]
    /\ source \in [Process -> Seq(Item \cup {Unreadable})]

LocalTypes ==
    /\ pos \in [Process -> Nat \ {0}]
    /\ existing \in [Process -> SUBSET Key] /\ accepted \in [Process -> SUBSET Key]
    /\ fresh \in [Process -> Seq(Item)] /\ batch \in [Process -> Seq(Item)]
    /\ \A p \in Process : Len(batch[p]) <= BATCH_SIZE
    /\ old \in [Process -> Nat]

ResultTypes ==
    /\ pc \in [Process -> Steps] /\ report \in [Process -> Report]
    /\ outcome \in [Process -> {"none", "ok", "conflict", "validation", "sqlite", "crashed"}]
    /\ faults \in 0 .. MaxFault

LEMMA Groups == TypeOK <=> TableTypes /\ ArgTypes /\ LocalTypes /\ ResultTypes
  BY DEF TypeOK, TableTypes, ArgTypes, LocalTypes, ResultTypes

LEMMA GroupsNext ==
    TableTypes' /\ ArgTypes' /\ LocalTypes' /\ ResultTypes' => TypeOK'
  BY DEF TypeOK, TableTypes, ArgTypes, LocalTypes, ResultTypes

LEMMA Candidates ==
    ASSUME ArgTypes, NEW p \in Process
    PROVE  /\ source[p] \in Seq(Item \cup {Unreadable}) /\ candidates(p) \in Seq(Item)
           /\ Len(candidates(p)) \in Nat
           /\ \A n \in 1 .. Len(candidates(p)) : candidates(p)[n] \in Item
<1>1. source[p] \in Seq(Item \cup {Unreadable})
  BY DEF ArgTypes
<1>2. candidates(p) \in Seq((Item \cup {Unreadable}) \cap Item)
  BY <1>1, OnlyKeeps DEF candidates
<1>3. (Item \cup {Unreadable}) \cap Item = Item
  OBVIOUS
<1>4. candidates(p) \in Seq(Item)
  BY <1>2, <1>3
<1>5. QED BY <1>1, <1>4

LEMMA RetainedTypes ==
    ASSUME LocalTypes, NEW p \in Process
    PROVE  /\ batch[p] \in Seq(Item) /\ Retained(p) \in Seq(Item)
           /\ Len(Retained(p)) \in Nat /\ Len(batch[p]) \in Nat
           /\ Len(Retained(p)) <= Len(batch[p])
           /\ \A n \in 1 .. Len(batch[p]) : batch[p][n].key \notin existing[p] =>
                 \E k \in 1 .. Len(Retained(p)) : Retained(p)[k] = batch[p][n]
<1> DEFINE keep == {i \in Item : i.key \notin existing[p]}
           dropped == {n \in 1 .. Len(batch[p]) : batch[p][n] \notin keep}
<1>1. batch[p] \in Seq(Item) /\ Len(batch[p]) \in Nat
  BY DEF LocalTypes
<1>2. \A n \in 1 .. Len(batch[p]) : batch[p][n] \in Item
  BY <1>1
<1>3. Item \cap keep \subseteq Item
  OBVIOUS
<1>4. Only(batch[p], keep) \in Seq(Item \cap keep)
  BY <1>1, OnlyKeeps
<1>5. Only(batch[p], keep) \in Seq(Item) /\ Len(Only(batch[p], keep)) \in Nat
  BY <1>3, <1>4
<1>6. Len(Only(batch[p], keep)) <= Len(batch[p])
  <2>1. IsFiniteSet(dropped) /\ Len(Only(batch[p], keep)) + Cardinality(dropped) = Len(batch[p])
    BY <1>1, OnlyCounts
  <2>2. Cardinality(dropped) \in Nat
    BY <2>1, FS_CardinalityType
  <2> HIDE DEF dropped, keep
  <2>3. QED BY <1>1, <1>5, <2>1, <2>2
<1>7. \A n \in 1 .. Len(batch[p]) : batch[p][n].key \notin existing[p] =>
         \E k \in 1 .. Len(Only(batch[p], keep)) : Only(batch[p], keep)[k] = batch[p][n]
  <2> DEFINE list == batch[p]
  <2>1. list \in Seq(Item)
    BY <1>1
  <2>2. \A n \in 1 .. Len(list) : list[n].key \notin existing[p] => list[n] \in keep
    BY <1>2
  <2> HIDE DEF keep, list
  <2>3. /\ Only(list, keep) \in Seq(Item \cap keep)
        /\ \A n \in 1 .. Len(list) : list[n] \in keep =>
              \E k \in 1 .. Len(Only(list, keep)) : Only(list, keep)[k] = list[n]
    BY <2>1, OnlyKeeps
  <2>4. QED BY <2>2, <2>3 DEF list
<1>8. Retained(p) = Only(batch[p], keep)
  BY DEF Retained
<1> HIDE DEF keep
<1>9. QED BY <1>1, <1>5, <1>6, <1>7, <1>8

(***************************************************************************)
(* What a step does to the table.                                          *)
(***************************************************************************)
\* A row without its key.
Keyless(row) == [row EXCEPT !.key = None]

\* Run r adds the items of list: ingest_many and ingest.
Adds(r, list) ==
    /\ Len(items') = Len(items) + Len(list)
    /\ \A i \in 1 .. Len(items) : items'[i] = items[i]
    /\ \A n \in 1 .. Len(list) :
          items'[Len(items) + n] =
             [key |-> list[n].key, hash |-> list[n].hash, supersedes |-> 0, by |-> r]

\* Run r gives the key of row o to a new one: ingest_replacing.
Moves(r, item, o) ==
    /\ item.key \in Key /\ o \in 1 .. Len(items) /\ items[o].key = item.key
    /\ Holders(item.key) \subseteq {o}
    /\ Len(items') = Len(items) + 1
    /\ items'[o] = Keyless(items[o])
    /\ \A i \in 1 .. Len(items) : i # o => items'[i] = items[i]
    /\ items'[Len(items) + 1] =
          [key |-> item.key, hash |-> item.hash, supersedes |-> o, by |-> r]

LEMMA RowsAre ==
    ASSUME ArgTypes, NEW p \in Process, NEW list \in Seq(Item), NEW o \in Nat
    PROVE  /\ Rows(p, list, o) \in Seq(Row) /\ Len(Rows(p, list, o)) = Len(list)
           /\ \A n \in 1 .. Len(list) :
                 Rows(p, list, o)[n] = [key |-> list[n].key, hash |-> list[n].hash,
                                        supersedes |-> o, by |-> run[p]]
<1>1. run[p] \in Nat /\ Len(list) \in Nat /\ DOMAIN list = 1 .. Len(list)
  BY DEF ArgTypes
<1>2. \A n \in 1 .. Len(list) : list[n] \in Item
  OBVIOUS
<1>3. \A n \in 1 .. Len(list) :
         [key |-> list[n].key, hash |-> list[n].hash, supersedes |-> o, by |-> run[p]] \in Row
  BY <1>1, <1>2 DEF Item, Row
<1>4. QED BY <1>1, <1>3 DEF Rows

LEMMA Joined ==
    ASSUME NEW S, NEW s \in Seq(S), NEW t \in Seq(S), NEW u, u = s \o t
    PROVE  /\ u \in Seq(S) /\ Len(u) = Len(s) + Len(t)
           /\ \A i \in 1 .. Len(s) : u[i] = s[i]
           /\ \A n \in 1 .. Len(t) : u[Len(s) + n] = t[n]
  OBVIOUS

LEMMA Unkeyed ==
    ASSUME NEW row \in Row
    PROVE  /\ Keyless(row) \in Row /\ Keyless(row).key = None
           /\ Keyless(row).supersedes = row.supersedes /\ Keyless(row).by = row.by
  BY DEF Row, Keyless

\* The table s once row o has passed its key to rows.
Free(s, o) == [s EXCEPT ![o].key = None]
Renewal(s, o, rows) == Free(s, o) \o rows

LEMMA Freed ==
    ASSUME NEW s \in Seq(Row), NEW o \in 1 .. Len(s)
    PROVE  /\ Free(s, o) \in Seq(Row) /\ Len(Free(s, o)) = Len(s)
           /\ Free(s, o)[o] = Keyless(s[o])
           /\ \A i \in 1 .. Len(s) : i # o => Free(s, o)[i] = s[i]
<1> DEFINE row == Keyless(s[o])
<1>1. s[o] \in Row
  OBVIOUS
<1>2. row \in Row
  BY <1>1, Unkeyed
<1>3. Free(s, o) = [s EXCEPT ![o] = row]
  BY DEF Free, Keyless
<1> HIDE DEF row
<1>4. Free(s, o)[o] = row /\ \A i \in 1 .. Len(s) : i # o => Free(s, o)[i] = s[i]
  BY <1>3
<1>5. Free(s, o) \in Seq(Row) /\ Len(Free(s, o)) = Len(s)
  BY <1>2, <1>3, ExceptSeq
<1>6. QED BY <1>4, <1>5 DEF row

LEMMA Renewed ==
    ASSUME NEW s \in Seq(Row), NEW o \in 1 .. Len(s), NEW rows \in Seq(Row)
    PROVE  /\ Renewal(s, o, rows) \in Seq(Row) /\ Len(Renewal(s, o, rows)) = Len(s) + Len(rows)
           /\ Renewal(s, o, rows)[o] = Keyless(s[o])
           /\ \A i \in 1 .. Len(s) : i # o => Renewal(s, o, rows)[i] = s[i]
           /\ \A n \in 1 .. Len(rows) : Renewal(s, o, rows)[Len(s) + n] = rows[n]
<1> DEFINE v == Free(s, o)
           u == Renewal(s, o, rows)
<1>1. /\ v \in Seq(Row) /\ Len(v) = Len(s) /\ v[o] = Keyless(s[o])
      /\ \A i \in 1 .. Len(s) : i # o => v[i] = s[i]
  BY Freed
<1>2. u = v \o rows /\ v \in Seq(Row)
  BY Freed DEF Renewal
<1> HIDE DEF u, v
<1>3. /\ u \in Seq(Row) /\ Len(u) = Len(v) + Len(rows)
      /\ \A i \in 1 .. Len(v) : u[i] = v[i]
      /\ \A n \in 1 .. Len(rows) : u[Len(v) + n] = rows[n]
  BY <1>2, Joined
<1>4. /\ u \in Seq(Row) /\ Len(u) = Len(s) + Len(rows) /\ u[o] = Keyless(s[o])
      /\ \A i \in 1 .. Len(s) : i # o => u[i] = s[i]
      /\ \A n \in 1 .. Len(rows) : u[Len(s) + n] = rows[n]
  BY <1>1, <1>3
<1>5. QED BY <1>4 DEF u

LEMMA InsertAdds ==
    ASSUME TypeOK, NEW p \in Process, NEW list \in Seq(Item), Insert(p, list)
    PROVE  Adds(run[p], list) /\ TableTypes'
<1>1. TableTypes /\ ArgTypes
  BY Groups
<1>2. items \in Seq(Row) /\ pending \in [Process -> SUBSET DOMAIN items]
  BY <1>1 DEF TableTypes
<1> DEFINE rows == Rows(p, list, 0)
<1>3. /\ rows \in Seq(Row) /\ Len(rows) = Len(list)
      /\ \A n \in 1 .. Len(list) :
            rows[n] = [key |-> list[n].key, hash |-> list[n].hash,
                       supersedes |-> 0, by |-> run[p]]
  BY <1>1, RowsAre
<1>4. items' = items \o rows /\ pending' = [pending EXCEPT ![p] = Len(items) + 1 .. Len(items) + Len(list)]
  BY DEF Insert, Committed
<1> HIDE DEF rows
<1>5. /\ items' \in Seq(Row) /\ Len(items') = Len(items) + Len(rows)
      /\ \A i \in 1 .. Len(items) : items'[i] = items[i]
      /\ \A n \in 1 .. Len(rows) : items'[Len(items) + n] = rows[n]
  <2> DEFINE before == items
             after == items'
  <2>1. before \in Seq(Row) /\ after = before \o rows
    BY <1>2, <1>4
  <2> HIDE DEF before, after
  <2>2. /\ after \in Seq(Row) /\ Len(after) = Len(before) + Len(rows)
        /\ \A i \in 1 .. Len(before) : after[i] = before[i]
        /\ \A n \in 1 .. Len(rows) : after[Len(before) + n] = rows[n]
    BY <1>3, <2>1, Joined
  <2>3. QED BY <2>2 DEF before, after
<1>6. /\ DOMAIN items = 1 .. Len(items) /\ DOMAIN items' = 1 .. Len(items')
      /\ Len(items) \in Nat /\ Len(list) \in Nat
  BY <1>2, <1>5
<1>7. DOMAIN items \subseteq DOMAIN items' /\ Len(items) + 1 .. Len(items) + Len(list) \subseteq DOMAIN items'
  BY <1>3, <1>5, <1>6
<1>8. pending' \in [Process -> SUBSET DOMAIN items']
  BY <1>2, <1>4, <1>7
<1>9. QED BY <1>3, <1>5, <1>8 DEF Adds, TableTypes

Renews(p, item) ==
    /\ items' = [items EXCEPT ![old[p]].key = None] \o Rows(p, <<item>>, old[p])
    /\ Committed(p, 1)

LEMMA ReplaceMoves ==
    ASSUME TypeOK, NEW p \in Process, NEW item \in Item,
           old[p] \in DOMAIN items, item.key \in Present,
           Holders(item.key) \subseteq {old[p]}, Renews(p, item)
    PROVE  Moves(run[p], item, old[p]) /\ TableTypes'
<1>1. TableTypes /\ ArgTypes
  BY Groups
<1>2. items \in Seq(Row) /\ pending \in [Process -> SUBSET DOMAIN items]
  BY <1>1 DEF TableTypes
<1> DEFINE o == old[p]
           list == <<item>>
           rows == Rows(p, list, o)
           before == items
           after == items'
<1>3. o \in 1 .. Len(items) /\ Len(items) \in Nat /\ o \in Nat
  BY <1>2
<1>4. list \in Seq(Item) /\ Len(list) = 1 /\ list[1] = item
  OBVIOUS
<1>5. /\ after = Renewal(before, o, rows)
      /\ pending' = [pending EXCEPT ![p] = Len(items) + 1 .. Len(items) + 1]
  BY DEF Renews, Committed, Renewal, Free
<1>6. items[o].key = item.key /\ item.key \in Key /\ Holders(item.key) \subseteq {o}
  BY DEF Present, Holders
<1>a. rows \in Seq(Row)
  <2> HIDE DEF o, list
  <2>1. QED BY <1>1, <1>3, <1>4, RowsAre
<1>7. /\ rows \in Seq(Row) /\ Len(rows) = 1
      /\ rows[1] = [key |-> item.key, hash |-> item.hash, supersedes |-> o, by |-> run[p]]
  <2> HIDE DEF o, list
  <2>1. /\ rows \in Seq(Row) /\ Len(rows) = Len(list)
        /\ \A n \in 1 .. Len(list) :
              rows[n] = [key |-> list[n].key, hash |-> list[n].hash,
                         supersedes |-> o, by |-> run[p]]
    BY <1>1, <1>3, <1>4, RowsAre
  <2> HIDE DEF rows
  <2>2. QED BY <1>4, <2>1
<1>8. /\ items' \in Seq(Row) /\ Len(items') = Len(items) + Len(rows)
      /\ items'[o] = Keyless(items[o])
      /\ \A i \in 1 .. Len(items) : i # o => items'[i] = items[i]
      /\ \A n \in 1 .. Len(rows) : items'[Len(items) + n] = rows[n]
  <2>1. before \in Seq(Row) /\ o \in 1 .. Len(before)
    BY <1>2, <1>3
  <2> HIDE DEF o, rows, before, after
  <2>2. /\ after \in Seq(Row) /\ Len(after) = Len(before) + Len(rows)
        /\ after[o] = Keyless(before[o])
        /\ \A i \in 1 .. Len(before) : i # o => after[i] = before[i]
        /\ \A n \in 1 .. Len(rows) : after[Len(before) + n] = rows[n]
    <3>1. after = Renewal(before, o, rows)
      BY <1>5
    <3>2. /\ Renewal(before, o, rows) \in Seq(Row)
          /\ Len(Renewal(before, o, rows)) = Len(before) + Len(rows)
          /\ Renewal(before, o, rows)[o] = Keyless(before[o])
          /\ \A i \in 1 .. Len(before) : i # o => Renewal(before, o, rows)[i] = before[i]
          /\ \A n \in 1 .. Len(rows) : Renewal(before, o, rows)[Len(before) + n] = rows[n]
      BY <1>a, <2>1, Renewed, SMTT(30)
    <3>3. QED BY <3>1, <3>2
  <2>3. QED BY <2>2 DEF before, after
<1>9. pending' = [pending EXCEPT ![p] = Len(items) + 1 .. Len(items) + 1]
  BY <1>5
<1> HIDE DEF before, after, rows, o, list
<1>10. Len(items') = Len(items) + 1 /\ items'[Len(items) + 1] = rows[1]
  BY <1>7, <1>8
<1>11. DOMAIN items \subseteq DOMAIN items' /\ Len(items) + 1 .. Len(items) + 1 \subseteq DOMAIN items'
  BY <1>2, <1>8, <1>10
<1>12. pending' \in [Process -> SUBSET DOMAIN items']
  BY <1>2, <1>9, <1>11
<1>13. Moves(run[p], item, o)
  BY <1>3, <1>6, <1>7, <1>8, <1>10 DEF Moves
<1>14. QED BY <1>8, <1>12, <1>13 DEF TableTypes, o

(***************************************************************************)
(* Types.                                                                  *)
(***************************************************************************)
Outcomes == {"none", "ok", "conflict", "validation", "sqlite", "crashed"}

LEMMA ReturnTypes ==
    ASSUME LocalTypes, ResultTypes, NEW p \in Process, NEW r \in Outcomes, Return(p, r)
    PROVE  LocalTypes' /\ pc' \in [Process -> Steps] /\ outcome' \in [Process -> Outcomes]
<1>1. "idle" \in Steps /\ << >> \in Seq(Item) /\ {} \in SUBSET Key /\ Len(<< >>) = 0
  BY DEF Steps
<1>2. pc' \in [Process -> Steps] /\ outcome' \in [Process -> Outcomes]
  BY <1>1 DEF Return, Goto, ResultTypes, Outcomes
<1>3. pos' \in [Process -> Nat \ {0}] /\ old' \in [Process -> Nat]
  BY DEF Return, LocalTypes
<1>4. existing' \in [Process -> SUBSET Key] /\ accepted' \in [Process -> SUBSET Key]
  BY <1>1 DEF Return, LocalTypes
<1>5. fresh' \in [Process -> Seq(Item)] /\ batch' \in [Process -> Seq(Item)]
  BY <1>1 DEF Return, LocalTypes
<1>6. \A q \in Process : Len(batch'[q]) <= BATCH_SIZE
  <2>1. ASSUME NEW q \in Process PROVE batch'[q] = << >> \/ batch'[q] = batch[q]
    BY DEF Return, LocalTypes
  <2>2. 0 <= BATCH_SIZE
    BY DriverAssumption
  <2>3. QED BY <1>1, <2>1, <2>2 DEF LocalTypes
<1>7. QED BY <1>2, <1>3, <1>4, <1>5, <1>6 DEF LocalTypes

LEMMA CountTypes ==
    ASSUME ResultTypes, NEW p \in Process, NEW n \in Nat,
           NEW field \in {"ingested", "skipped_existing", "failed"}, Count(p, field, n)
    PROVE  report' \in [Process -> Report]
<1>1. report \in [Process -> Report] /\ report[p] \in Report
  BY DEF ResultTypes
<1>2. report' = [report EXCEPT ![p] = [report[p] EXCEPT ![field] = report[p][field] + n]]
  BY DEF Count
<1>3. report[p][field] + n \in Nat
  BY <1>1 DEF Report
<1>4. [report[p] EXCEPT ![field] = report[p][field] + n] \in Report
  BY <1>1, <1>3 DEF Report
<1>5. QED BY <1>1, <1>2, <1>4

LEMMA Unread ==
    ASSUME NEW yields \in Source
    PROVE  /\ yields \in Seq(Item \cup {Unreadable})
           /\ IsFiniteSet({i \in DOMAIN yields : yields[i] = Unreadable})
           /\ Cardinality({i \in DOMAIN yields : yields[i] = Unreadable}) \in Nat
<1>1. yields \in Seq(Item \cup {Unreadable})
  BY DriverAssumption
<1>2. IsFiniteSet(1 .. Len(yields)) /\ DOMAIN yields = 1 .. Len(yields)
  BY <1>1, FS_Interval
<1>3. IsFiniteSet({i \in DOMAIN yields : yields[i] = Unreadable})
  BY <1>2, FS_Subset
<1>4. QED BY <1>1, <1>3, FS_CardinalityType

LEMMA StartTypes ==
    ASSUME TypeOK, NEW p \in Process, NEW yields \in Source, NEW dry \in BOOLEAN,
           Start(p, yields, dry)
    PROVE  TypeOK'
<1>1. TableTypes /\ ArgTypes /\ LocalTypes /\ ResultTypes
  BY Groups
<1>2. TableTypes'
  BY <1>1 DEF TableTypes, Start
<1>3. LocalTypes'
  BY <1>1 DEF LocalTypes, Start, locals
<1>4. ArgTypes'
  <2>1. yields \in Seq(Item \cup {Unreadable})
    BY Unread
  <2>2. runs' \in 0 .. MaxRun /\ runs \in 0 .. runs' /\ runs' \in 0 .. runs'
    BY <1>1, DriverAssumption DEF ArgTypes, Start
  <2>3. \A q \in Process : run[q] \in 0 .. runs'
    BY <1>1, <2>2, DriverAssumption DEF ArgTypes, Start
  <2>4. run' \in [Process -> 0 .. runs']
    BY <1>1, <2>2, <2>3 DEF ArgTypes, Start
  <2>5. dry_run' \in [Process -> BOOLEAN]
    BY <1>1 DEF ArgTypes, Start
  <2>6. source' \in [Process -> Seq(Item \cup {Unreadable})]
    BY <1>1, <2>1 DEF ArgTypes, Start
  <2>7. QED BY <2>2, <2>4, <2>5, <2>6 DEF ArgTypes
<1>5. ResultTypes'
  <2>1. pc' \in [Process -> Steps] /\ outcome' \in [Process -> Outcomes] /\ faults' = faults
    BY <1>1 DEF ResultTypes, Start, Goto, Steps, Outcomes
  <2> DEFINE n == Cardinality({i \in DOMAIN yields : yields[i] = Unreadable})
  <2>2. n \in Nat
    BY Unread
  <2>3. report' = [report EXCEPT ![p] = [NoReport EXCEPT !.failed = n]]
    BY DEF Start
  <2> HIDE DEF n
  <2>4. [NoReport EXCEPT !.failed = n] \in Report
    BY <2>2 DEF NoReport, Report
  <2>5. report' \in [Process -> Report]
    BY <1>1, <2>3, <2>4 DEF ResultTypes
  <2>6. QED BY <1>1, <2>1, <2>5 DEF ResultTypes, Outcomes
<1>6. QED BY <1>2, <1>3, <1>4, <1>5, GroupsNext

LEMMA ProbeTypes ==
    ASSUME TypeOK, NEW p \in Process, NEW step \in Steps, NEW next \in Steps,
           NEW list \in Seq(Item), Probe(p, step, list, next)
    PROVE  TypeOK'
<1>1. TableTypes /\ ArgTypes /\ LocalTypes /\ ResultTypes
  BY Groups
<1>2. TableTypes' /\ ArgTypes'
  BY <1>1 DEF TableTypes, ArgTypes, Probe, args
<1>3. ResultTypes'
  BY <1>1 DEF ResultTypes, Probe, Goto
<1>4. pos' \in [Process -> Nat \ {0}]
  <2>1. pos \in [Process -> Nat \ {0}] /\ pos[p] + 1 \in Nat \ {0} /\ 1 \in Nat \ {0}
    BY <1>1 DEF LocalTypes
  <2>2. pos' = [pos EXCEPT ![p] = pos[p] + 1] \/ pos' = [pos EXCEPT ![p] = 1]
    BY DEF Probe
  <2>3. QED BY <2>1, <2>2
<1>5. existing' \in [Process -> SUBSET Key]
  <2>1. CASE pos[p] <= Len(list)
    <3>1. pos[p] \in 1 .. Len(list)
      BY <1>1, <2>1 DEF LocalTypes
    <3>2. list[pos[p]] \in Item
      BY <3>1
    <3>3. Holders(list[pos[p]].key) # {} => list[pos[p]].key \in Key
      BY <3>2 DEF Holders, Item
    <3> DEFINE seen == IF Holders(list[pos[p]].key) # {}
                       THEN existing[p] \cup {list[pos[p]].key} ELSE existing[p]
    <3>4. seen \in SUBSET Key
      BY <1>1, <3>3 DEF LocalTypes
    <3>5. existing' = [existing EXCEPT ![p] = seen]
      BY <2>1 DEF Probe
    <3> HIDE DEF seen
    <3>6. QED BY <1>1, <3>4, <3>5 DEF LocalTypes
  <2>2. CASE ~(pos[p] <= Len(list))
    BY <1>1, <2>2 DEF LocalTypes, Probe
  <2>3. QED BY <2>1, <2>2
<1>6. LocalTypes'
  BY <1>1, <1>4, <1>5 DEF LocalTypes, Probe
<1>7. QED BY <1>2, <1>3, <1>6, GroupsNext

LEMMA FilterTypes ==
    ASSUME TypeOK, NEW p \in Process, Filter(p)
    PROVE  TypeOK'
<1>1. TableTypes /\ ArgTypes /\ LocalTypes /\ ResultTypes
  BY Groups
<1> DEFINE item == candidates(p)[pos[p]]
<1>2. item \in Item /\ item.key \in Key \cup {None} /\ pos[p] + 1 \in Nat \ {0}
  <2>1. pos[p] \in 1 .. Len(candidates(p)) /\ pos[p] + 1 \in Nat \ {0}
    BY <1>1, Candidates DEF Filter, LocalTypes
  <2>2. item \in Item
    BY <1>1, <2>1, Candidates
  <2>3. QED BY <2>1, <2>2 DEF Item
<1>3. TableTypes' /\ ArgTypes'
  BY <1>1 DEF TableTypes, ArgTypes, Filter, args
<1>4. /\ pos' = [pos EXCEPT ![p] = pos[p] + 1]
      /\ accepted' = [accepted EXCEPT ![p] = accepted[p] \cup ({item.key} \ {None})]
      /\ existing' = existing /\ batch' = batch /\ outcome' = outcome /\ faults' = faults
      /\ fresh' = fresh \/ fresh' = [fresh EXCEPT ![p] = Append(fresh[p], item)]
      /\ old' = old \/ \E i \in Holders(item.key) : old' = [old EXCEPT ![p] = i]
      /\ pc' = pc \/ Goto(p, "replace")
      /\ report' = report \/ \E f \in {"ingested", "skipped_existing"} : Count(p, f, 1)
  BY DEF Filter
<1> HIDE DEF item
<1>5. pos' \in [Process -> Nat \ {0}]
  BY <1>1, <1>2, <1>4 DEF LocalTypes
<1>6. accepted' \in [Process -> SUBSET Key]
  BY <1>1, <1>2, <1>4 DEF LocalTypes
<1>7. fresh' \in [Process -> Seq(Item)]
  <2>1. Append(fresh[p], item) \in Seq(Item)
    BY <1>1, <1>2 DEF LocalTypes
  <2>2. QED BY <1>1, <1>4, <2>1 DEF LocalTypes
<1>8. old' \in [Process -> Nat]
  <2>1. \A i \in Holders(item.key) : i \in Nat
    BY <1>1 DEF Holders, TableTypes
  <2>2. QED BY <1>1, <1>4, <2>1 DEF LocalTypes
<1>9. LocalTypes'
  BY <1>1, <1>4, <1>5, <1>6, <1>7, <1>8 DEF LocalTypes
<1>10. pc' \in [Process -> Steps]
  BY <1>1, <1>4 DEF ResultTypes, Goto, Steps
<1>11. report' \in [Process -> Report]
  <2>1. \A f \in {"ingested", "skipped_existing"} : Count(p, f, 1) => report' \in [Process -> Report]
    BY <1>1, CountTypes
  <2>2. QED BY <1>1, <1>4, <2>1 DEF ResultTypes
<1>12. ResultTypes'
  BY <1>1, <1>4, <1>10, <1>11 DEF ResultTypes
<1>13. QED BY <1>3, <1>9, <1>12, GroupsNext

LEMMA Replaced ==
    ASSUME TypeOK, NEW p \in Process, Placed(p), Replace(p),
           candidates(p)[pos[p] - 1].valid,
           Holders(candidates(p)[pos[p] - 1].key) \subseteq {old[p]}
    PROVE  /\ candidates(p)[pos[p] - 1] \in Item
           /\ Moves(run[p], candidates(p)[pos[p] - 1], old[p]) /\ TableTypes'
<1>1. ArgTypes /\ LocalTypes
  BY Groups
<1> DEFINE item == candidates(p)[pos[p] - 1]
<1>2. pc[p] = "replace"
  BY DEF Replace, At
<1>3. /\ old[p] \in DOMAIN items /\ item.key \in Present
      /\ pos[p] > 1 /\ pos[p] <= Len(candidates(p)) + 1
  BY <1>2 DEF Placed, Filtering
<1>4. item \in Item
  <2>1. pos[p] - 1 \in 1 .. Len(candidates(p))
    BY <1>1, <1>3, Candidates DEF LocalTypes
  <2>2. QED BY <1>1, <2>1, Candidates
<1>5. Renews(p, item)
  BY DEF Replace, Renews
<1> HIDE DEF item
<1>6. Holders(item.key) \subseteq {old[p]}
  BY DEF item
<1>7. Moves(run[p], item, old[p]) /\ TableTypes'
  BY <1>3, <1>4, <1>5, <1>6, ReplaceMoves
<1>8. QED BY <1>4, <1>7 DEF item

LEMMA ReplaceTypes ==
    ASSUME TypeOK, NEW p \in Process, Placed(p), Replace(p)
    PROVE  TypeOK'
<1>1. TableTypes /\ ArgTypes /\ LocalTypes /\ ResultTypes
  BY Groups
<1> DEFINE item == candidates(p)[pos[p] - 1]
<1>2. ArgTypes'
  BY <1>1 DEF ArgTypes, Replace, args
<1>3. CASE item.valid /\ Holders(item.key) \subseteq {old[p]}
  <2>1. TableTypes'
    BY <1>3, Replaced
  <2>2. Count(p, "ingested", 1) /\ Goto(p, "filter") /\ UNCHANGED <<locals, outcome, faults>>
    BY <1>3 DEF Replace
  <2>3. LocalTypes'
    BY <1>1, <2>2 DEF LocalTypes, locals
  <2>4. report' \in [Process -> Report]
    BY <1>1, <2>2, CountTypes
  <2>5. ResultTypes'
    BY <1>1, <2>2, <2>4 DEF ResultTypes, Goto, Steps
  <2>6. QED BY <1>2, <2>1, <2>3, <2>5, GroupsNext
<1>4. CASE ~(item.valid /\ Holders(item.key) \subseteq {old[p]})
  <2>1. \E r \in Outcomes : Return(p, r)
    BY <1>4 DEF Replace, Outcomes
  <2>2. items' = items /\ report' = report /\ pending' = pending /\ faults' = faults
    BY <1>4 DEF Replace
  <2>3. LocalTypes' /\ pc' \in [Process -> Steps] /\ outcome' \in [Process -> Outcomes]
    BY <1>1, <2>1, ReturnTypes
  <2>4. TableTypes' /\ ResultTypes'
    BY <1>1, <2>2, <2>3 DEF TableTypes, ResultTypes, Outcomes
  <2>5. QED BY <1>2, <2>3, <2>4, GroupsNext
<1>5. QED BY <1>3, <1>4

LEMMA FilteredTypes ==
    ASSUME TypeOK, NEW p \in Process, Filtered(p)
    PROVE  TypeOK'
<1>1. TableTypes /\ ArgTypes /\ LocalTypes /\ ResultTypes
  BY Groups
<1>2. TableTypes' /\ ArgTypes'
  BY <1>1 DEF TableTypes, ArgTypes, Filtered, args
<1>3. CASE dry_run[p]
  <2>1. Count(p, "ingested", Len(fresh[p])) /\ Return(p, "ok") /\ faults' = faults
    BY <1>3 DEF Filtered
  <2>2. Len(fresh[p]) \in Nat /\ "ok" \in Outcomes
    BY <1>1 DEF LocalTypes, Outcomes
  <2>3. LocalTypes' /\ pc' \in [Process -> Steps] /\ outcome' \in [Process -> Outcomes]
    BY <1>1, <2>1, <2>2, ReturnTypes
  <2>4. report' \in [Process -> Report]
    BY <1>1, <2>1, <2>2, CountTypes
  <2>5. ResultTypes'
    BY <1>1, <2>1, <2>3, <2>4 DEF ResultTypes, Outcomes
  <2>6. QED BY <1>2, <2>3, <2>5, GroupsNext
<1>4. CASE ~dry_run[p]
  <2>1. /\ Goto(p, "write") /\ pos' = [pos EXCEPT ![p] = 1]
        /\ existing' = [existing EXCEPT ![p] = {}] /\ accepted' = [accepted EXCEPT ![p] = {}]
        /\ UNCHANGED <<fresh, batch, old, report, outcome, faults>>
    BY <1>4 DEF Filtered
  <2>2. pos' \in [Process -> Nat \ {0}]
    BY <1>1, <2>1 DEF LocalTypes
  <2>3. existing' \in [Process -> SUBSET Key] /\ accepted' \in [Process -> SUBSET Key]
    BY <1>1, <2>1 DEF LocalTypes
  <2>4. LocalTypes'
    BY <1>1, <2>1, <2>2, <2>3 DEF LocalTypes
  <2>5. ResultTypes'
    BY <1>1, <2>1 DEF ResultTypes, Goto, Steps
  <2>6. QED BY <1>2, <2>4, <2>5, GroupsNext
<1>5. QED BY <1>3, <1>4

\* The next batch and what stays for the ones after it.
Taken(p) == SubSeq(fresh[p], 1, BatchSize(p))

LEMMA Batches ==
    ASSUME LocalTypes, NEW p \in Process
    PROVE  /\ BatchSize(p) \in 0 .. Len(fresh[p]) /\ BatchSize(p) <= BATCH_SIZE
           /\ Len(fresh[p]) \in Nat /\ fresh[p] \in Seq(Item)
           /\ Taken(p) \in Seq(Item) /\ Len(Taken(p)) = BatchSize(p)
           /\ Drained(p) \in Seq(Item) /\ Len(Drained(p)) = Len(fresh[p]) - BatchSize(p)
           /\ \A n \in 1 .. BatchSize(p) : Taken(p)[n] = fresh[p][n]
           /\ \A n \in 1 .. Len(fresh[p]) - BatchSize(p) :
                 Drained(p)[n] = fresh[p][BatchSize(p) + n]
<1> DEFINE list == fresh[p]
           b == BatchSize(p)
<1>1. list \in Seq(Item) /\ Len(list) \in Nat
  BY DEF LocalTypes
<1>2. b \in 0 .. Len(list) /\ b <= BATCH_SIZE
  BY <1>1, DriverAssumption DEF BatchSize
<1>3. Taken(p) = SubSeq(list, 1, b) /\ Drained(p) = SubSeq(list, b + 1, Len(list))
  BY DEF Taken, Drained
<1> HIDE DEF list, b
<1>4. /\ SubSeq(list, 1, b) \in Seq(Item) /\ Len(SubSeq(list, 1, b)) = b
      /\ \A n \in 1 .. b : SubSeq(list, 1, b)[n] = list[n]
  BY <1>1, <1>2
<1>5. /\ SubSeq(list, b + 1, Len(list)) \in Seq(Item)
      /\ Len(SubSeq(list, b + 1, Len(list))) = Len(list) - b
      /\ \A n \in 1 .. Len(list) - b : SubSeq(list, b + 1, Len(list))[n] = list[b + n]
  BY <1>1, <1>2
<1>6. QED BY <1>1, <1>2, <1>3, <1>4, <1>5 DEF list, b

LEMMA WriteTypes ==
    ASSUME TypeOK, NEW p \in Process, Write(p)
    PROVE  TypeOK'
<1>1. TableTypes /\ ArgTypes /\ LocalTypes /\ ResultTypes
  BY Groups
<1> DEFINE next == SubSeq(fresh[p], 1, BatchSize(p))
           refused == (\E i \in DOMAIN next : ~next[i].valid) \/ Conflict(next)
<1>2. /\ next \in Seq(Item) /\ Len(next) \in Nat /\ Len(next) <= BATCH_SIZE
      /\ Drained(p) \in Seq(Item)
  BY <1>1, Batches DEF Taken
<1>3. /\ fresh' = [fresh EXCEPT ![p] = Drained(p)]
      /\ UNCHANGED <<args, existing, accepted, old, pos, outcome, faults>>
  BY DEF Write
<1>4. refused => /\ pc' = [pc EXCEPT ![p] = "each"] \/ pc' = [pc EXCEPT ![p] = "reprobe"]
                 /\ batch' = [batch EXCEPT ![p] = next]
                 /\ UNCHANGED <<items, report, pending>>
  BY DEF Write, Goto
<1>5. ~refused => Insert(p, next) /\ Count(p, "ingested", Len(next)) /\ UNCHANGED <<pc, batch>>
  BY DEF Write
<1> HIDE DEF next, refused
<1>6. ArgTypes'
  BY <1>1, <1>3 DEF ArgTypes, args
<1>7. fresh' \in [Process -> Seq(Item)]
  BY <1>1, <1>2, <1>3 DEF LocalTypes
<1>8. CASE refused
  <2>1. batch' \in [Process -> Seq(Item)] /\ \A q \in Process : Len(batch'[q]) <= BATCH_SIZE
    BY <1>1, <1>2, <1>4, <1>8, ZenonT(40) DEF LocalTypes
  <2>2. LocalTypes'
    BY <1>1, <1>3, <1>7, <2>1 DEF LocalTypes
  <2>3. TableTypes' /\ ResultTypes'
    BY <1>1, <1>3, <1>4, <1>8 DEF TableTypes, ResultTypes, Steps
  <2>4. QED BY <1>6, <2>2, <2>3, GroupsNext
<1>9. CASE ~refused
  <2>1. LocalTypes'
    BY <1>1, <1>3, <1>5, <1>7, <1>9 DEF LocalTypes
  <2>2. TableTypes'
    BY <1>2, <1>5, <1>9, InsertAdds
  <2>3. report' \in [Process -> Report]
    BY <1>1, <1>2, <1>5, <1>9, CountTypes
  <2>4. ResultTypes'
    BY <1>1, <1>3, <1>5, <1>9, <2>3 DEF ResultTypes
  <2>5. QED BY <1>6, <2>1, <2>2, <2>4, GroupsNext
<1>10. QED BY <1>8, <1>9

LEMMA RetryTypes ==
    ASSUME TypeOK, NEW p \in Process, Retry(p)
    PROVE  TypeOK'
<1>1. TableTypes /\ ArgTypes /\ LocalTypes /\ ResultTypes
  BY Groups
<1> DEFINE retry == Retained(p)
           skipped == report[p].skipped_existing + Len(batch[p]) - Len(retry)
<1>2. retry \in Seq(Item) /\ Len(retry) \in Nat
  BY <1>1, RetainedTypes
<1>3. report \in [Process -> Report] /\ report[p] \in Report
  BY <1>1 DEF ResultTypes
<1>4. skipped \in Nat
  <2>1. /\ Len(batch[p]) \in Nat /\ Len(retry) <= Len(batch[p])
        /\ report[p].skipped_existing \in Nat
    BY <1>1, <1>3, RetainedTypes DEF Report
  <2> HIDE DEF retry
  <2>2. QED BY <1>2, <2>1
<1>5. ArgTypes'
  BY <1>1 DEF ArgTypes, Retry, args
<1>6. CASE Conflict(retry)
  <2>1. /\ report' = [report EXCEPT ![p] = [report[p] EXCEPT !.skipped_existing = skipped]]
        /\ Return(p, "conflict") /\ UNCHANGED <<items, pending, faults>>
    BY <1>6 DEF Retry
  <2>2. "conflict" \in Outcomes
    BY DEF Outcomes
  <2>3. LocalTypes' /\ pc' \in [Process -> Steps] /\ outcome' \in [Process -> Outcomes]
    BY <1>1, <2>1, <2>2, ReturnTypes
  <2>4. report' \in [Process -> Report]
    <3> HIDE DEF skipped
    <3>1. [report[p] EXCEPT !.skipped_existing = skipped] \in Report
      BY <1>3, <1>4 DEF Report
    <3>2. QED BY <1>3, <2>1, <3>1
  <2>5. TableTypes' /\ ResultTypes'
    BY <1>1, <2>1, <2>3, <2>4 DEF TableTypes, ResultTypes, Outcomes
  <2>6. QED BY <1>5, <2>3, <2>5, GroupsNext
<1>7. CASE ~Conflict(retry)
  <2> DEFINE wrote == report[p].ingested + Len(retry)
  <2>1. /\ report' = [report EXCEPT ![p] = [report[p] EXCEPT !.skipped_existing = skipped,
                                                            !.ingested = wrote]]
        /\ Insert(p, retry) /\ Goto(p, "write")
        /\ existing' = [existing EXCEPT ![p] = {}]
        /\ batch' = [batch EXCEPT ![p] = << >>]
        /\ UNCHANGED <<pos, accepted, fresh, old, outcome, faults>>
    BY <1>7 DEF Retry
  <2>2. TableTypes'
    BY <1>2, <2>1, InsertAdds
  <2>3. report' \in [Process -> Report]
    <3>1. wrote \in Nat
      BY <1>2, <1>3 DEF Report
    <3> HIDE DEF skipped, wrote
    <3>2. [report[p] EXCEPT !.skipped_existing = skipped, !.ingested = wrote] \in Report
      BY <1>3, <1>4, <3>1 DEF Report
    <3>3. QED BY <1>3, <2>1, <3>2
  <2>4. /\ existing' \in [Process -> SUBSET Key] /\ batch' \in [Process -> Seq(Item)]
        /\ \A q \in Process : batch'[q] \in {<< >>, batch[q]}
    BY <1>1, <2>1 DEF LocalTypes
  <2>5. \A q \in Process : Len(batch'[q]) <= BATCH_SIZE
    BY <1>1, <2>4, DriverAssumption DEF LocalTypes
  <2>6. LocalTypes'
    BY <1>1, <2>1, <2>4, <2>5 DEF LocalTypes
  <2>7. ResultTypes'
    BY <1>1, <2>1, <2>3 DEF ResultTypes, Goto, Steps
  <2>8. QED BY <1>5, <2>2, <2>6, <2>7, GroupsNext
<1>8. QED BY <1>6, <1>7

\* What Each does with the first item of its batch.
LEMMA EachItem ==
    ASSUME LocalTypes, NEW p \in Process, batch[p] # << >>
    PROVE  /\ Head(batch[p]) \in Item /\ Tail(batch[p]) \in Seq(Item)
           /\ Len(batch[p]) \in Nat /\ Len(batch[p]) > 0
           /\ Len(Tail(batch[p])) = Len(batch[p]) - 1
           /\ Head(batch[p]) = batch[p][1]
           /\ \A n \in 1 .. Len(batch[p]) - 1 : Tail(batch[p])[n] = batch[p][n + 1]
           /\ <<Head(batch[p])>> \in Seq(Item) /\ Len(<<Head(batch[p])>>) = 1
           /\ <<Head(batch[p])>>[1] = Head(batch[p])
<1> DEFINE list == batch[p]
<1>1. list \in Seq(Item) /\ list # << >>
  BY DEF LocalTypes
<1> HIDE DEF list
<1>2. Head(list) \in Item /\ Tail(list) \in Seq(Item)
  BY <1>1
<1>3. Len(list) \in Nat /\ Len(list) > 0
  BY <1>1
<1>4. Len(Tail(list)) = Len(list) - 1 /\ Head(list) = list[1]
  BY <1>1
<1>5. \A n \in 1 .. Len(list) - 1 : Tail(list)[n] = list[n + 1]
  BY <1>1
<1>6. <<Head(list)>> \in Seq(Item) /\ Len(<<Head(list)>>) = 1 /\ <<Head(list)>>[1] = Head(list)
  BY <1>2
<1>7. QED BY <1>2, <1>3, <1>4, <1>5, <1>6 DEF list

\* The three ways of Each.
EachEmpty(p) ==
    batch[p] = << >> /\ Goto(p, "write") /\ UNCHANGED <<items, locals, report, outcome, pending>>

EachRefused(p) ==
    /\ batch[p] # << >> /\ Return(p, "conflict")
    /\ UNCHANGED <<items, report, pending>>

EachPopped(p) ==
    /\ batch[p] # << >>
    /\ \/ ~Head(batch[p]).valid /\ Count(p, "failed", 1) /\ UNCHANGED <<items, pending>>
       \/ Head(batch[p]).valid /\ Insert(p, <<Head(batch[p])>>) /\ Count(p, "ingested", 1)
    /\ batch' = [batch EXCEPT ![p] = Tail(batch[p])]
    /\ UNCHANGED <<pc, pos, existing, accepted, fresh, old, outcome>>

LEMMA EachWays ==
    ASSUME NEW p \in Process, Each(p)
    PROVE  /\ At(p, "each") /\ UNCHANGED <<args, faults>>
           /\ EachEmpty(p) \/ EachRefused(p) \/ EachPopped(p)
  BY DEF Each, EachEmpty, EachRefused, EachPopped

LEMMA EachTypes ==
    ASSUME TypeOK, NEW p \in Process, Each(p)
    PROVE  TypeOK'
<1>1. TableTypes /\ ArgTypes /\ LocalTypes /\ ResultTypes
  BY Groups
<1>2. ArgTypes' /\ faults' = faults
  BY <1>1, EachWays DEF ArgTypes, args
<1>3. CASE EachEmpty(p)
  <2>1. TableTypes'
    BY <1>1, <1>3 DEF EachEmpty, TableTypes
  <2>2. LocalTypes'
    BY <1>1, <1>3 DEF EachEmpty, LocalTypes, locals
  <2>3. ResultTypes'
    BY <1>1, <1>2, <1>3 DEF EachEmpty, ResultTypes, Goto, Steps
  <2>4. QED BY <1>2, <2>1, <2>2, <2>3, GroupsNext
<1>4. CASE EachRefused(p)
  <2>1. Return(p, "conflict") /\ "conflict" \in Outcomes
    BY <1>4 DEF EachRefused, Outcomes
  <2>2. LocalTypes' /\ pc' \in [Process -> Steps] /\ outcome' \in [Process -> Outcomes]
    BY <1>1, <2>1, ReturnTypes
  <2>3. TableTypes' /\ ResultTypes'
    BY <1>1, <1>2, <1>4, <2>2 DEF EachRefused, TableTypes, ResultTypes, Outcomes
  <2>4. QED BY <1>2, <2>2, <2>3, GroupsNext
<1>5. CASE EachPopped(p)
  <2>1. /\ batch[p] # << >>
        /\ \/ Count(p, "failed", 1) /\ UNCHANGED <<items, pending>>
           \/ Insert(p, <<Head(batch[p])>>) /\ Count(p, "ingested", 1)
        /\ batch' = [batch EXCEPT ![p] = Tail(batch[p])]
        /\ UNCHANGED <<pc, pos, existing, accepted, fresh, old, outcome>>
    BY <1>5 DEF EachPopped
  <2>2. TableTypes'
    <3>1. <<Head(batch[p])>> \in Seq(Item)
      BY <1>1, <2>1, EachItem
    <3>2. Insert(p, <<Head(batch[p])>>) => TableTypes'
      BY <3>1, InsertAdds
    <3>3. UNCHANGED <<items, pending>> => TableTypes'
      BY <1>1 DEF TableTypes
    <3>4. QED BY <2>1, <3>2, <3>3
  <2>3. report' \in [Process -> Report]
    <3>1. Count(p, "failed", 1) => report' \in [Process -> Report]
      BY <1>1, CountTypes
    <3>2. Count(p, "ingested", 1) => report' \in [Process -> Report]
      BY <1>1, CountTypes
    <3>3. QED BY <2>1, <3>1, <3>2
  <2>4. Tail(batch[p]) \in Seq(Item) /\ Len(Tail(batch[p])) <= BATCH_SIZE
    <3>1. /\ Tail(batch[p]) \in Seq(Item) /\ Len(Tail(batch[p])) = Len(batch[p]) - 1
          /\ Len(batch[p]) \in Nat
      BY <1>1, <2>1, EachItem
    <3>2. Len(batch[p]) <= BATCH_SIZE /\ BATCH_SIZE \in Nat
      BY <1>1, DriverAssumption DEF LocalTypes
    <3>3. QED BY <3>1, <3>2
  <2>5. LocalTypes'
    BY <1>1, <2>1, <2>4 DEF LocalTypes
  <2>6. ResultTypes'
    BY <1>1, <1>2, <2>1, <2>3 DEF ResultTypes
  <2>7. QED BY <1>2, <2>2, <2>5, <2>6, GroupsNext
<1>6. QED BY <1>3, <1>4, <1>5, EachWays

LEMMA ReturnsTypes ==
    ASSUME TypeOK, NEW p \in Process, Finish(p) \/ Fail(p) \/ Crash(p)
    PROVE  TypeOK'
<1>1. TableTypes /\ ArgTypes /\ LocalTypes /\ ResultTypes
  BY Groups
<1>2. items' = items /\ report' = report /\ UNCHANGED args
  BY DEF Finish, Fail, Crash
<1>3. \E r \in Outcomes : Return(p, r)
  BY DEF Finish, Fail, Crash, Outcomes
<1>4. pending' \in [Process -> SUBSET DOMAIN items]
  <2>1. pending' = pending \/ pending' = [pending EXCEPT ![p] = {}]
    BY DEF Finish, Fail, Crash
  <2>2. QED BY <1>1, <2>1 DEF TableTypes
<1>5. faults' \in 0 .. MaxFault
  BY <1>1, DriverAssumption DEF Finish, Fail, Crash, ResultTypes
<1>6. LocalTypes' /\ pc' \in [Process -> Steps] /\ outcome' \in [Process -> Outcomes]
  BY <1>1, <1>3, ReturnTypes
<1>7. ArgTypes'
  BY <1>1, <1>2 DEF ArgTypes, args
<1>8. TableTypes' /\ ResultTypes'
  BY <1>1, <1>2, <1>4, <1>5, <1>6 DEF TableTypes, ResultTypes, Outcomes
<1>9. QED BY <1>6, <1>7, <1>8, GroupsNext

LEMMA HookTypes ==
    ASSUME TypeOK, NEW p \in Process, Hook(p)
    PROVE  TypeOK'
<1>1. TableTypes /\ ArgTypes /\ LocalTypes /\ ResultTypes
  BY Groups
<1>2. ArgTypes' /\ LocalTypes'
  BY <1>1 DEF ArgTypes, LocalTypes, Hook, args, locals
<1>3. TableTypes' /\ ResultTypes'
  BY <1>1 DEF TableTypes, ResultTypes, Hook
<1>4. QED BY <1>2, <1>3, GroupsNext

LEMMA TypesStep ==
    ASSUME TypeOK, Stages, Next
    PROVE  TypeOK'
<1>1. ArgTypes /\ LocalTypes
  BY Groups
<1>2. PICK p \in Process : (\E yields \in Source, dry \in BOOLEAN : Start(p, yields, dry))
                             \/ Step(p) \/ Fail(p) \/ Crash(p)
  BY DEF Next
<1>3. Placed(p) /\ candidates(p) \in Seq(Item) /\ batch[p] \in Seq(Item)
  BY <1>1, Candidates, RetainedTypes DEF Stages
<1>4. {"probe", "filter", "reprobe", "retry"} \subseteq Steps
  BY DEF Steps
<1>5. Probe(p, "probe", candidates(p), "filter") \/ Probe(p, "reprobe", batch[p], "retry") => TypeOK'
  BY <1>3, <1>4, ProbeTypes
<1>6. QED BY <1>2, <1>3, <1>5, StartTypes, FilterTypes, ReplaceTypes, FilteredTypes, WriteTypes,
             RetryTypes, EachTypes, ReturnsTypes, HookTypes DEF Step

(***************************************************************************)
(* What every step does to the table, and what it keeps of it.              *)
(***************************************************************************)
TableStep ==
    \/ items' = items
    \/ \E r \in 0 .. runs, list \in Seq(Item) : Adds(r, list)
    \/ \E r \in 0 .. runs, item \in Item, o \in Nat : Moves(r, item, o)

\* The same for a step of run r.
TableStepBy(r) ==
    \/ items' = items
    \/ \E list \in Seq(Item) : Adds(r, list)
    \/ \E item \in Item, o \in Nat : Moves(r, item, o)

StepOf(p) ==
    \/ \E yields \in Source, dry \in BOOLEAN : Start(p, yields, dry)
    \/ Step(p) \/ Fail(p) \/ Crash(p)

LEMMA ReplaceSteps ==
    ASSUME TypeOK, NEW p \in Process, Placed(p), Replace(p)
    PROVE  TableStepBy(run[p])
<1> DEFINE item == candidates(p)[pos[p] - 1]
<1>1. ArgTypes /\ LocalTypes
  BY Groups
<1>2. CASE item.valid /\ Holders(item.key) \subseteq {old[p]}
  <2>1. item \in Item /\ Moves(run[p], item, old[p])
    BY <1>2, Replaced
  <2>2. old[p] \in Nat
    BY <1>1 DEF LocalTypes
  <2> HIDE DEF item
  <2>3. QED BY <2>1, <2>2 DEF TableStepBy
<1>3. CASE ~(item.valid /\ Holders(item.key) \subseteq {old[p]})
  BY <1>3 DEF Replace, TableStepBy
<1>4. QED BY <1>2, <1>3

LEMMA StepTable ==
    ASSUME TypeOK, NEW p \in Process, Placed(p), StepOf(p)
    PROVE  TableStepBy(run[p])
<1>1. ArgTypes /\ LocalTypes
  BY Groups
<1>2. ASSUME NEW list \in Seq(Item), Insert(p, list) PROVE TableStepBy(run[p])
  BY <1>2, InsertAdds DEF TableStepBy
<1>3. CASE Write(p)
  <2>1. Taken(p) \in Seq(Item)
    BY <1>1, Batches
  <2>2. items' = items \/ Insert(p, Taken(p))
    BY <1>3 DEF Write, Taken
  <2>3. QED BY <1>2, <2>1, <2>2 DEF TableStepBy
<1>4. CASE Retry(p)
  <2>1. Retained(p) \in Seq(Item)
    BY <1>1, RetainedTypes
  <2>2. items' = items \/ Insert(p, Retained(p))
    BY <1>4 DEF Retry
  <2>3. QED BY <1>2, <2>1, <2>2 DEF TableStepBy
<1>5. CASE Each(p)
  <2>1. \/ items' = items
        \/ batch[p] # << >> /\ Insert(p, <<Head(batch[p])>>)
    BY <1>5, EachWays DEF EachEmpty, EachRefused, EachPopped
  <2>2. batch[p] # << >> => <<Head(batch[p])>> \in Seq(Item)
    BY <1>1, EachItem
  <2>3. QED BY <1>2, <2>1, <2>2 DEF TableStepBy
<1>6. CASE Replace(p)
  BY <1>6, ReplaceSteps
<1>7. CASE \/ \E yields \in Source, dry \in BOOLEAN : Start(p, yields, dry)
           \/ Fail(p) \/ Crash(p) \/ Hook(p) \/ Finish(p) \/ Filtered(p) \/ Filter(p)
           \/ Probe(p, "probe", candidates(p), "filter")
           \/ Probe(p, "reprobe", batch[p], "retry")
  BY <1>7 DEF Start, Fail, Crash, Hook, Finish, Filtered, Filter, Probe, TableStepBy
<1>8. QED BY <1>3, <1>4, <1>5, <1>6, <1>7 DEF StepOf, Step

LEMMA EveryStep ==
    ASSUME TypeOK, Stages, Next
    PROVE  TableStep
<1>1. PICK p \in Process : StepOf(p)
  BY DEF Next, StepOf
<1>2. run[p] \in 0 .. runs
  BY Groups DEF ArgTypes
<1>3. TableStepBy(run[p])
  BY <1>1, StepTable DEF Stages
<1>4. QED BY <1>2, <1>3 DEF TableStep, TableStepBy

\* Rows and keys stay.
LEMMA TableKept ==
    ASSUME TypeOK, TypeOK', TableStep
    PROVE  /\ DOMAIN items \subseteq DOMAIN items'
           /\ \A key : Holders(key) # {} => Holders(key)' # {}
           /\ Present \subseteq Present'
<1>1. /\ items \in Seq(Row) /\ items' \in Seq(Row) /\ Len(items) \in Nat /\ Len(items') \in Nat
      /\ DOMAIN items = 1 .. Len(items) /\ DOMAIN items' = 1 .. Len(items')
  BY DEF TypeOK
<1> DEFINE Keeps ==
       /\ DOMAIN items \subseteq DOMAIN items'
       /\ \A key : Holders(key) # {} => Holders(key)' # {}
<1>2. ASSUME items' = items PROVE Keeps
  BY <1>2 DEF Holders
<1>3. ASSUME NEW r \in 0 .. runs, NEW list \in Seq(Item), Adds(r, list) PROVE Keeps
  <2>1. Len(list) \in Nat /\ Len(items') = Len(items) + Len(list)
    BY <1>3 DEF Adds
  <2>2. DOMAIN items \subseteq DOMAIN items'
    BY <1>1, <2>1
  <2>3. \A i \in DOMAIN items : items'[i] = items[i]
    BY <1>1, <1>3 DEF Adds
  <2>4. QED BY <2>2, <2>3 DEF Holders
<1>4. ASSUME NEW r \in 0 .. runs, NEW item \in Item, NEW o \in Nat, Moves(r, item, o) PROVE Keeps
  <2>1. /\ o \in DOMAIN items /\ items[o].key = item.key /\ item.key \in Key
        /\ Len(items') = Len(items) + 1
        /\ \A i \in DOMAIN items : i # o => items'[i] = items[i]
        /\ items'[Len(items) + 1].key = item.key
    BY <1>1, <1>4 DEF Moves
  <2>2. DOMAIN items \subseteq DOMAIN items' /\ Len(items) + 1 \in DOMAIN items'
    BY <1>1, <2>1
  <2>3. ASSUME NEW key, NEW i \in DOMAIN items, key # None, items[i].key = key
        PROVE  \E j \in DOMAIN items' : items'[j].key = key
    <3>1. CASE i = o
      BY <2>1, <2>2, <2>3, <3>1
    <3>2. CASE i # o
      BY <2>1, <2>2, <2>3, <3>2
    <3>3. QED BY <3>1, <3>2
  <2>4. \A key : Holders(key) # {} => Holders(key)' # {}
    BY <2>3 DEF Holders
  <2>5. QED BY <2>2, <2>4
<1>5. Keeps
  BY <1>2, <1>3, <1>4 DEF TableStep
<1>6. QED BY <1>5 DEF Present

(***************************************************************************)
(* A step of one process leaves the locals of the others alone.             *)
(***************************************************************************)
SameArgs(q) == run'[q] = run[q] /\ dry_run'[q] = dry_run[q] /\ source'[q] = source[q]

SameLocals(q) ==
    /\ pos'[q] = pos[q] /\ existing'[q] = existing[q] /\ accepted'[q] = accepted[q]
    /\ fresh'[q] = fresh[q] /\ batch'[q] = batch[q] /\ old'[q] = old[q]

SameResults(q) == pc'[q] = pc[q] /\ report'[q] = report[q] /\ outcome'[q] = outcome[q]

Same(q) == SameArgs(q) /\ SameLocals(q) /\ SameResults(q)

LEMMA ReturnLeaves ==
    ASSUME TypeOK, NEW p \in Process, NEW q \in Process, p # q, NEW r, Return(p, r)
    PROVE  SameLocals(q) /\ pc'[q] = pc[q] /\ outcome'[q] = outcome[q]
<1>1. LocalTypes /\ ResultTypes
  BY Groups, SMTT(30)
<1>2. QED BY <1>1 DEF LocalTypes, ResultTypes, Return, Goto, SameLocals

LEMMA CountLeaves ==
    ASSUME TypeOK, NEW p \in Process, NEW q \in Process, p # q, NEW f, NEW n, Count(p, f, n)
    PROVE  report'[q] = report[q]
<1>1. ResultTypes
  BY Groups, SMTT(30)
<1>2. QED BY <1>1, SMTT(30) DEF ResultTypes, Count

LEMMA ArgsKept ==
    ASSUME TypeOK, NEW p \in Process, Step(p) \/ Fail(p) \/ Crash(p)
    PROVE  UNCHANGED args
<1>1. Each(p) => UNCHANGED args
  BY EachWays
<1>2. QED BY <1>1 DEF Step, Probe, Filter, Replace, Filtered, Write, Retry, Finish, Hook, Fail, Crash

LEMMA OthersKept ==
    ASSUME TypeOK, NEW p \in Process, NEW q \in Process, p # q, StepOf(p)
    PROVE  Same(q)
<1>1. ArgTypes /\ LocalTypes /\ ResultTypes
  BY Groups
<1>2. CASE \E yields \in Source, dry \in BOOLEAN : Start(p, yields, dry)
  <2>1. PICK yields \in Source, dry \in BOOLEAN : Start(p, yields, dry)
    BY <1>2
  <2>2. SameLocals(q)
    BY <2>1 DEF Start, locals, SameLocals
  <2>3. SameArgs(q)
    BY <1>1, <2>1 DEF Start, ArgTypes, SameArgs
  <2>4. SameResults(q)
    BY <1>1, <2>1 DEF Start, Goto, ResultTypes, SameResults
  <2>5. QED BY <2>2, <2>3, <2>4 DEF Same
<1>3. CASE Step(p) \/ Fail(p) \/ Crash(p)
  <2>1. SameArgs(q)
    BY <1>3, ArgsKept DEF args, SameArgs
  <2>2. CASE \/ Probe(p, "probe", candidates(p), "filter")
             \/ Probe(p, "reprobe", batch[p], "retry")
    <3>1. ASSUME NEW s, NEW list, NEW next, Probe(p, s, list, next)
          PROVE  SameLocals(q) /\ SameResults(q)
      <4>1. SameResults(q)
        BY <1>1, <3>1 DEF ResultTypes, Probe, Goto, SameResults
      <4>2. existing'[q] = existing[q] /\ pos'[q] = pos[q]
        BY <1>1, <3>1 DEF LocalTypes, Probe
      <4>3. QED BY <3>1, <4>1, <4>2 DEF Probe, SameLocals
    <3>2. QED BY <2>1, <2>2, <3>1 DEF Same
  <2>3. CASE Filter(p)
    <3>1. SameLocals(q)
      <4>1. pos'[q] = pos[q] /\ accepted'[q] = accepted[q]
        BY <1>1, <2>3 DEF LocalTypes, Filter
      <4>2. fresh'[q] = fresh[q] /\ old'[q] = old[q]
        BY <1>1, <2>3, SMTT(30) DEF LocalTypes, Filter
      <4>3. QED BY <2>3, <4>1, <4>2 DEF Filter, SameLocals
    <3>2. SameResults(q)
      <4>1. report'[q] = report[q]
        <5>1. report' = report \/ \E f : Count(p, f, 1)
          BY <2>3 DEF Filter
        <5>2. QED BY <5>1, CountLeaves
      <4>2. pc'[q] = pc[q] /\ outcome'[q] = outcome[q]
        BY <1>1, <2>3 DEF ResultTypes, Filter, Goto
      <4>3. QED BY <4>1, <4>2 DEF SameResults
    <3>3. QED BY <2>1, <3>1, <3>2 DEF Same
  <2>4. CASE Replace(p)
    <3>1. \/ Count(p, "ingested", 1) /\ Goto(p, "filter") /\ UNCHANGED <<locals, outcome>>
          \/ report' = report /\ \E r : Return(p, r)
      BY <2>4 DEF Replace
    <3>2. SameLocals(q) /\ pc'[q] = pc[q] /\ outcome'[q] = outcome[q]
      BY <1>1, <3>1, ReturnLeaves DEF ResultTypes, Goto, locals, SameLocals
    <3>3. report'[q] = report[q]
      BY <3>1, CountLeaves
    <3>4. QED BY <2>1, <3>2, <3>3 DEF Same, SameResults
  <2>5. CASE Filtered(p)
    <3>1. \/ Count(p, "ingested", Len(fresh[p])) /\ Return(p, "ok")
          \/ /\ Goto(p, "write") /\ pos' = [pos EXCEPT ![p] = 1]
             /\ existing' = [existing EXCEPT ![p] = {}]
             /\ accepted' = [accepted EXCEPT ![p] = {}]
             /\ UNCHANGED <<fresh, batch, old, report, outcome>>
      BY <2>5 DEF Filtered
    <3>2. SameLocals(q) /\ pc'[q] = pc[q] /\ outcome'[q] = outcome[q]
      BY <1>1, <3>1, ReturnLeaves DEF LocalTypes, ResultTypes, Goto, SameLocals
    <3>3. report'[q] = report[q]
      BY <3>1, CountLeaves
    <3>4. QED BY <2>1, <3>2, <3>3 DEF Same, SameResults
  <2>6. CASE Write(p)
    <3>1. fresh'[q] = fresh[q] /\ batch'[q] = batch[q]
      BY <1>1, <2>6 DEF LocalTypes, Write
    <3>2. SameLocals(q)
      BY <2>6, <3>1 DEF Write, SameLocals
    <3>3. report' = report \/ \E n : Count(p, "ingested", n)
      BY <2>6 DEF Write
    <3>4. report'[q] = report[q]
      BY <3>3, CountLeaves
    <3>5. pc'[q] = pc[q] /\ outcome'[q] = outcome[q]
      BY <1>1, <2>6 DEF ResultTypes, Write, Goto
    <3>6. QED BY <2>1, <3>2, <3>4, <3>5 DEF Same, SameResults
  <2>7. CASE Retry(p)
    <3>1. report'[q] = report[q]
      BY <1>1, <2>7 DEF ResultTypes, Retry
    <3>2. CASE Return(p, "conflict")
      BY <2>1, <3>1, <3>2, ReturnLeaves DEF Same, SameResults
    <3>3. CASE ~Return(p, "conflict")
      <4>1. /\ Goto(p, "write") /\ existing' = [existing EXCEPT ![p] = {}]
            /\ batch' = [batch EXCEPT ![p] = << >>]
            /\ UNCHANGED <<pos, accepted, fresh, old, outcome>>
        BY <2>7, <3>3 DEF Retry
      <4>2. SameLocals(q)
        BY <1>1, <4>1 DEF LocalTypes, SameLocals
      <4>3. pc'[q] = pc[q] /\ outcome'[q] = outcome[q]
        BY <1>1, <4>1 DEF ResultTypes, Goto
      <4>4. QED BY <2>1, <3>1, <4>2, <4>3 DEF Same, SameResults
    <3>4. QED BY <3>2, <3>3
  <2>8. CASE Each(p)
    <3>1. CASE EachEmpty(p)
      BY <1>1, <2>1, <3>1 DEF EachEmpty, ResultTypes, Goto, locals, Same, SameLocals, SameResults
    <3>2. CASE EachRefused(p)
      BY <2>1, <3>2, ReturnLeaves DEF EachRefused, Same, SameResults
    <3>3. CASE EachPopped(p)
      <4>1. report'[q] = report[q]
        BY <3>3, CountLeaves DEF EachPopped
      <4>2. batch'[q] = batch[q]
        BY <1>1, <3>3 DEF EachPopped, LocalTypes
      <4>3. QED BY <2>1, <3>3, <4>1, <4>2 DEF EachPopped, Same, SameLocals, SameResults
    <3>4. QED BY <2>8, <3>1, <3>2, <3>3, EachWays
  <2>9. CASE Finish(p) \/ Fail(p) \/ Crash(p)
    <3>1. report' = report /\ \E r : Return(p, r)
      BY <2>9 DEF Finish, Fail, Crash
    <3>2. QED BY <2>1, <3>1, ReturnLeaves DEF Same, SameResults
  <2>10. CASE Hook(p)
    BY <2>1, <2>10 DEF Hook, locals, Same, SameLocals, SameResults
  <2>11. QED BY <1>3, <2>2, <2>3, <2>4, <2>5, <2>6, <2>7, <2>8, <2>9, <2>10 DEF Step
<1>4. QED BY <1>2, <1>3 DEF StepOf

(***************************************************************************)
(* Stages is kept.                                                         *)
(***************************************************************************)
LEMMA Unmoved ==
    ASSUME TypeOK, TypeOK', TableStep, NEW q \in Process, Placed(q), SameArgs(q), SameLocals(q),
           pc'[q] = pc[q]
    PROVE  Placed(q)'
<1>1. DOMAIN items \subseteq DOMAIN items' /\ Present \subseteq Present'
  BY TableKept
<1>2. candidates(q)' = candidates(q)
  BY DEF candidates, SameArgs
<1>3. QED BY <1>1, <1>2 DEF Placed, SameArgs, SameLocals

\* What Return leaves is what a process needs to be idle.
LEMMA Returned ==
    ASSUME TypeOK, NEW p \in Process, NEW r, Return(p, r)
    PROVE  Placed(p)'
<1>1. LocalTypes /\ ResultTypes
  BY Groups
<1>2. /\ pc'[p] = "idle" /\ fresh'[p] = << >> /\ accepted'[p] = {} /\ existing'[p] = {}
      /\ batch'[p] = << >>
  BY <1>1 DEF Return, Goto, LocalTypes, ResultTypes
<1>3. QED BY <1>2 DEF Placed, Filtering

LEMMA ProbePlaced ==
    ASSUME TypeOK, NEW p \in Process, Placed(p),
           Probe(p, "probe", candidates(p), "filter") \/ Probe(p, "reprobe", batch[p], "retry")
    PROVE  Placed(p)'
<1>1. ArgTypes /\ LocalTypes /\ ResultTypes
  BY Groups
<1>2. candidates(p) \in Seq(Item) /\ Len(candidates(p)) \in Nat
  BY <1>1, Candidates
<1>3. /\ candidates(p)' = candidates(p) /\ Present' = Present
      /\ fresh'[p] = fresh[p] /\ accepted'[p] = accepted[p] /\ batch'[p] = batch[p]
      /\ dry_run'[p] = dry_run[p]
  BY DEF Probe, args, candidates, Present, Holders
<1>4. existing'[p] \subseteq Present
  <2>1. \A item \in Item : Holders(item.key) # {} => item.key \in Present
    BY DEF Present, Holders, Item
  <2>2. ASSUME NEW s, NEW list \in Seq(Item), NEW next, Probe(p, s, list, next)
        PROVE  existing'[p] \subseteq Present
    <3>1. pos[p] <= Len(list) => list[pos[p]] \in Item
      BY <1>1 DEF LocalTypes
    <3>2. existing'[p] = existing[p] \/
             /\ pos[p] <= Len(list) /\ Holders(list[pos[p]].key) # {}
             /\ existing'[p] = existing[p] \cup {list[pos[p]].key}
      BY <1>1, <2>2 DEF Probe, LocalTypes
    <3>3. QED BY <2>1, <3>1, <3>2 DEF Placed
  <2>3. batch[p] \in Seq(Item)
    BY <1>1 DEF LocalTypes
  <2>4. QED BY <1>2, <2>2, <2>3
<1>5. CASE Probe(p, "probe", candidates(p), "filter")
  <2>1. pc[p] = "probe"
    BY <1>5 DEF Probe, At
  <2>2. fresh[p] = << >> /\ accepted[p] = {} /\ batch[p] = << >>
    BY <2>1 DEF Placed
  <2>3. pc'[p] = "probe" \/ (pc'[p] = "filter" /\ pos'[p] = 1)
    BY <1>1, <1>5, <2>1 DEF Probe, Goto, ResultTypes, LocalTypes
  <2>4. {candidates(p)[n].key : n \in 1 .. 1 - 1} \ {None} = {}
    OBVIOUS
  <2>5. 1 <= Len(candidates(p)) + 1
    BY <1>2
  <2>6. QED BY <1>3, <1>4, <2>2, <2>3, <2>4, <2>5 DEF Placed, Filtering
<1>6. CASE Probe(p, "reprobe", batch[p], "retry")
  <2>1. pc[p] = "reprobe"
    BY <1>6 DEF Probe, At
  <2>2. pc'[p] = "reprobe" \/ pc'[p] = "retry"
    BY <1>1, <1>6, <2>1 DEF Probe, Goto, ResultTypes
  <2>3. ~dry_run[p]
    BY <2>1 DEF Placed
  <2>4. QED BY <1>3, <1>4, <2>2, <2>3 DEF Placed, Filtering
<1>7. QED BY <1>5, <1>6

LEMMA FilterPlaced ==
    ASSUME TypeOK, NEW p \in Process, Placed(p), Filter(p)
    PROVE  Placed(p)'
<1>1. ArgTypes /\ LocalTypes /\ ResultTypes
  BY Groups
<1> DEFINE item == candidates(p)[pos[p]]
<1>2. /\ candidates(p)' = candidates(p) /\ Present' = Present /\ items' = items
      /\ batch'[p] = batch[p] /\ existing'[p] = existing[p] /\ dry_run'[p] = dry_run[p]
  BY DEF Filter, args, candidates, Present, Holders
<1>3. pc[p] = "filter" /\ pos[p] <= Len(candidates(p)) /\ pos[p] \in Nat /\ pos[p] >= 1
  BY <1>1 DEF Filter, At, LocalTypes
<1>4. pos'[p] = pos[p] + 1 /\ accepted'[p] = accepted[p] \cup ({item.key} \ {None})
  BY <1>1 DEF Filter, LocalTypes
<1>5. accepted'[p] = {candidates(p)[n].key : n \in 1 .. pos'[p] - 1} \ {None}
  <2>1. 1 .. pos'[p] - 1 = 1 .. pos[p] - 1 \cup {pos[p]}
    BY <1>3, <1>4
  <2>2. accepted[p] = {candidates(p)[n].key : n \in 1 .. pos[p] - 1} \ {None}
    BY <1>3 DEF Placed, Filtering
  <2>3. QED BY <1>4, <2>1, <2>2
<1>6. pos'[p] <= Len(candidates(p)) + 1 /\ pos'[p] > 1 /\ pos'[p] - 1 = pos[p]
  BY <1>1, <1>3, <1>4, Candidates
<1>7. \/ pc'[p] = "filter"
      \/ /\ pc'[p] = "replace" /\ ~dry_run[p] /\ old'[p] \in DOMAIN items
         /\ item.key \in existing[p]
  <2>1. \/ pc' = pc
        \/ /\ Goto(p, "replace") /\ ~dry_run[p] /\ item.key \in existing[p]
           /\ \E i \in Holders(item.key) : old' = [old EXCEPT ![p] = i]
    BY DEF Filter
  <2>2. Holders(item.key) \subseteq DOMAIN items
    BY DEF Holders
  <2> HIDE DEF item
  <2>3. QED BY <1>1, <1>3, <2>1, <2>2 DEF Goto, LocalTypes, ResultTypes
<1>8. QED BY <1>2, <1>3, <1>5, <1>6, <1>7 DEF Placed, Filtering

LEMMA ReplacePlaced ==
    ASSUME TypeOK, TypeOK', TableStep, NEW p \in Process, Placed(p), Replace(p)
    PROVE  Placed(p)'
<1>1. ArgTypes /\ LocalTypes /\ ResultTypes
  BY Groups
<1>2. CASE \E r : Return(p, r)
  BY <1>2, Returned, SMTT(30)
<1>3. CASE Goto(p, "filter") /\ UNCHANGED locals
  <2>1. pc'[p] = "filter" /\ pc[p] = "replace"
    BY <1>1, <1>3 DEF Goto, ResultTypes, Replace, At
  <2>2. candidates(p)' = candidates(p) /\ dry_run'[p] = dry_run[p]
    BY DEF Replace, args, candidates
  <2>3. Present \subseteq Present'
    BY TableKept
  <2>4. QED BY <1>3, <2>1, <2>2, <2>3 DEF Placed, Filtering, locals
<1>4. QED BY <1>2, <1>3 DEF Replace

LEMMA FilteredPlaced ==
    ASSUME TypeOK, NEW p \in Process, Placed(p), Filtered(p)
    PROVE  Placed(p)'
<1>1. ArgTypes /\ LocalTypes /\ ResultTypes
  BY Groups
<1>2. CASE dry_run[p]
  BY <1>2, Returned DEF Filtered
<1>3. CASE ~dry_run[p]
  <2>1. pc[p] = "filter" /\ pc'[p] = "write" /\ existing'[p] = {} /\ batch'[p] = batch[p]
    BY <1>1, <1>3 DEF Filtered, At, Goto, LocalTypes, ResultTypes
  <2>2. dry_run'[p] = dry_run[p] /\ batch[p] = << >>
    BY <2>1 DEF Filtered, args, Placed
  <2>3. QED BY <1>3, <2>1, <2>2 DEF Placed, Filtering
<1>4. QED BY <1>2, <1>3

LEMMA WritePlaced ==
    ASSUME TypeOK, TypeOK', TableStep, NEW p \in Process, Placed(p), Write(p)
    PROVE  Placed(p)'
<1>1. LocalTypes /\ ResultTypes /\ Present \subseteq Present'
  BY Groups, TableKept
<1>2. pc[p] = "write" /\ existing'[p] = existing[p] /\ dry_run'[p] = dry_run[p]
  BY DEF Write, At, args
<1>3. ~dry_run[p] /\ batch[p] = << >> /\ existing[p] \subseteq Present
  BY <1>2 DEF Placed
<1>4. pc'[p] \in {"each", "reprobe"} \/ (pc'[p] = "write" /\ batch'[p] = batch[p])
  BY <1>1, <1>2 DEF Write, Goto, ResultTypes
<1>5. QED BY <1>1, <1>2, <1>3, <1>4 DEF Placed, Filtering

LEMMA RetryPlaced ==
    ASSUME TypeOK, NEW p \in Process, Placed(p), Retry(p)
    PROVE  Placed(p)'
<1>1. LocalTypes /\ ResultTypes
  BY Groups
<1>2. pc[p] = "retry" /\ dry_run'[p] = dry_run[p]
  BY DEF Retry, At, args
<1>3. ~dry_run[p]
  BY <1>2 DEF Placed
<1>4. CASE Return(p, "conflict")
  BY <1>4, Returned
<1>5. CASE ~Return(p, "conflict")
  <2>1. pc'[p] = "write" /\ existing'[p] = {} /\ batch'[p] = << >>
    BY <1>1, <1>5 DEF Retry, Goto, LocalTypes, ResultTypes
  <2>2. QED BY <1>2, <1>3, <2>1 DEF Placed, Filtering
<1>6. QED BY <1>4, <1>5

LEMMA EachPlaced ==
    ASSUME TypeOK, TypeOK', TableStep, NEW p \in Process, Placed(p), Each(p)
    PROVE  Placed(p)'
<1>1. LocalTypes /\ ResultTypes /\ Present \subseteq Present'
  BY Groups, TableKept
<1>2. pc[p] = "each" /\ dry_run'[p] = dry_run[p]
  BY EachWays DEF At, args
<1>3. ~dry_run[p] /\ existing[p] \subseteq Present
  BY <1>2 DEF Placed
<1>4. CASE EachRefused(p)
  BY <1>4, Returned DEF EachRefused
<1>5. CASE EachEmpty(p)
  <2>1. pc'[p] = "write" /\ batch'[p] = << >> /\ existing'[p] = existing[p]
    BY <1>1, <1>5 DEF EachEmpty, Goto, ResultTypes, locals
  <2>2. QED BY <1>1, <1>2, <1>3, <2>1 DEF Placed, Filtering
<1>6. CASE EachPopped(p)
  <2>1. pc'[p] = "each" /\ existing'[p] = existing[p]
    BY <1>2, <1>6 DEF EachPopped
  <2>2. QED BY <1>1, <1>2, <1>3, <2>1 DEF Placed, Filtering
<1>7. QED BY <1>4, <1>5, <1>6, EachWays

LEMMA StartPlaced ==
    ASSUME TypeOK, NEW p \in Process, Placed(p),
           NEW yields \in Source, NEW dry \in BOOLEAN, Start(p, yields, dry)
    PROVE  Placed(p)'
<1>1. ResultTypes
  BY Groups
<1>2. pc[p] = "idle" /\ pc'[p] = "probe" /\ UNCHANGED <<items, locals>>
  BY <1>1 DEF Start, At, Goto, ResultTypes
<1>3. Present' = Present
  BY <1>2 DEF Present, Holders
<1>4. QED BY <1>2, <1>3 DEF Placed, Filtering, locals

LEMMA StagesStep ==
    ASSUME TypeOK, Stages, Next, TypeOK', TableStep
    PROVE  Stages'
<1>1. PICK p \in Process : StepOf(p)
  BY DEF Next, StepOf
<1>2. ASSUME NEW q \in Process, q # p PROVE Placed(q)'
  <2>1. Same(q) /\ Placed(q)
    BY <1>1, <1>2, OthersKept DEF Stages
  <2>2. QED BY <2>1, Unmoved DEF Same, SameResults
<1>3. Placed(p)
  BY DEF Stages
<1>4. Placed(p)'
  <2>1. CASE \E yields \in Source, dry \in BOOLEAN : Start(p, yields, dry)
    BY <1>3, <2>1, StartPlaced
  <2>2. CASE Step(p)
    <3>1. CASE Hook(p)
      BY <1>3, <3>1, Unmoved DEF Hook, args, locals, SameArgs, SameLocals
    <3>2. CASE Finish(p)
      BY <3>2, Returned DEF Finish
    <3>3. QED BY <1>3, <2>2, <3>1, <3>2, ProbePlaced, FilterPlaced, ReplacePlaced, FilteredPlaced,
                 WritePlaced, RetryPlaced, EachPlaced DEF Step
  <2>3. CASE Fail(p) \/ Crash(p)
    BY <2>3, Returned DEF Fail, Crash
  <2>4. QED BY <1>1, <2>1, <2>2, <2>3 DEF StepOf
<1>5. QED BY <1>2, <1>4 DEF Stages

(***************************************************************************)
(* Types and stages hold, and a key that is in the store stays there.       *)
(***************************************************************************)
LEMMA InitTypes ==
    ASSUME Init
    PROVE  TypeOK /\ Stages
<1>1. PICK stored \in Stored :
         items = [i \in DOMAIN stored |-> [key |-> stored[i].key, hash |-> stored[i].hash,
                                           supersedes |-> 0, by |-> 0]]
  BY DEF Init
<1> DEFINE before == [key : Key, hash : Hash]
<1>2. stored \in Seq(before)
  BY DriverAssumption
<1>3. \A i \in 1 .. Len(stored) : stored[i].key \in Key /\ stored[i].hash \in Hash
  <2>1. \A i \in 1 .. Len(stored) : stored[i] \in before
    <3> HIDE DEF before
    <3>1. QED BY <1>2
  <2>2. QED BY <2>1
<1> HIDE DEF before
<1>4. \A i \in 1 .. Len(stored) :
         [key |-> stored[i].key, hash |-> stored[i].hash, supersedes |-> 0, by |-> 0] \in Row
  BY <1>3 DEF Row
<1>5. items \in Seq(Row)
  <2>1. DOMAIN stored = 1 .. Len(stored) /\ Len(stored) \in Nat
    BY <1>2
  <2>2. QED BY <1>1, <1>4, <2>1
<1>6. TableTypes
  BY <1>5 DEF TableTypes, Init
<1>7. ArgTypes
  BY DriverAssumption DEF ArgTypes, Init
<1>8. LocalTypes
  <2>1. << >> \in Seq(Item) /\ Len(<< >>) <= BATCH_SIZE /\ 1 \in Nat \ {0} /\ 0 \in Nat
    BY DriverAssumption
  <2>2. fresh \in [Process -> Seq(Item)] /\ batch \in [Process -> Seq(Item)]
    BY <2>1 DEF Init
  <2>3. \A p \in Process : Len(batch[p]) <= BATCH_SIZE
    BY <2>1 DEF Init
  <2>4. existing \in [Process -> SUBSET Key] /\ accepted \in [Process -> SUBSET Key]
    BY DEF Init
  <2>5. pos \in [Process -> Nat \ {0}] /\ old \in [Process -> Nat]
    BY <2>1 DEF Init
  <2>6. QED BY <2>2, <2>3, <2>4, <2>5 DEF LocalTypes
<1>9. ResultTypes
  <2>1. NoReport \in Report /\ 0 \in 0 .. MaxFault
    BY DriverAssumption DEF NoReport, Report
  <2>2. report \in [Process -> Report]
    BY <2>1 DEF Init
  <2>3. QED BY <2>1, <2>2 DEF ResultTypes, Init, Steps
<1>10. TypeOK
  BY <1>6, <1>7, <1>8, <1>9, Groups
<1>11. \A p \in Process :
          /\ pc[p] = "idle" /\ fresh[p] = << >> /\ accepted[p] = {} /\ batch[p] = << >>
          /\ existing[p] = {}
  BY DEF Init
<1>12. Stages
  BY <1>11 DEF Stages, Placed, Filtering
<1>13. QED BY <1>10, <1>12

LEMMA Unchanged ==
    ASSUME TypeOK, Stages, UNCHANGED vars
    PROVE  TypeOK' /\ Stages' /\ TableStep
<1>1. TypeOK'
  BY DEF TypeOK, vars, args, locals
<1>2. Stages'
  BY DEF Stages, Placed, Present, Holders, candidates, vars, args, locals
<1>3. QED BY <1>1, <1>2 DEF TableStep, vars

\* The variables of the driver keep their types, and a process holds what
\* its step needs: the ids it has accepted are those of the candidates it
\* has been through, and what it takes for existing is in the store.
THEOREM IngestTypes == Spec => [](TypeOK /\ Stages)
<1>1. Init => TypeOK /\ Stages
  BY InitTypes
<1>2. TypeOK /\ Stages /\ [Next]_vars => (TypeOK /\ Stages)'
  <2> SUFFICES ASSUME TypeOK, Stages, [Next]_vars PROVE TypeOK' /\ Stages'
    OBVIOUS
  <2>1. CASE Next
    BY <2>1, TypesStep, EveryStep, StagesStep
  <2>2. CASE UNCHANGED vars
    BY <2>2, Unchanged
  <2>3. QED BY <2>1, <2>2
<1>3. QED BY <1>1, <1>2, PTL DEF Spec

LEMMA StepsOfSpec == Spec => [](TypeOK /\ Stages) /\ [][TableStep /\ TypeOK']_vars
<1>1. TypeOK /\ Stages /\ [Next]_vars /\ (TypeOK /\ Stages)' => [TableStep /\ TypeOK']_vars
  BY EveryStep
<1>2. QED BY <1>1, IngestTypes, PTL DEF Spec

\* A key that is in the store never leaves it: a replacement moves it in one
\* transaction, whatever fails or dies around it (ingest_replacing).
THEOREM KeysNeverLeave == Spec => KeysStay
<1>1. TypeOK /\ [TableStep /\ TypeOK']_vars
         => [\A key \in Key : Holders(key) # {} => Holders(key)' # {}]_vars
  BY TableKept
<1>2. QED BY <1>1, StepsOfSpec, PTL DEF KeysStay

(***************************************************************************)
(* Chains of versions.                                                     *)
(***************************************************************************)
\* A row supersedes a row.
Chains == \A i \in DOMAIN items : items[i].supersedes \in 0 .. Len(items)

LEMMA ChainsStep ==
    ASSUME TypeOK, TypeOK', Chains, ReplacedOnce, TableStep
    PROVE  (Chains /\ ReplacedOnce)'
<1>1. /\ items \in Seq(Row) /\ items' \in Seq(Row) /\ Len(items) \in Nat /\ Len(items') \in Nat
      /\ DOMAIN items = 1 .. Len(items) /\ DOMAIN items' = 1 .. Len(items')
  BY DEF TypeOK
<1>2. \A i \in 1 .. Len(items) : items[i] \in Row
  BY <1>1
<1>3. CASE items' = items
  BY <1>3 DEF Chains, ReplacedOnce
<1>4. ASSUME NEW r \in 0 .. runs, NEW list \in Seq(Item), Adds(r, list)
      PROVE  (Chains /\ ReplacedOnce)'
  <2>1. /\ Len(list) \in Nat /\ Len(items') = Len(items) + Len(list)
        /\ \A i \in 1 .. Len(items) : items'[i] = items[i]
        /\ \A n \in 1 .. Len(list) : items'[Len(items) + n].supersedes = 0
    <3>1. Len(list) \in Nat
      OBVIOUS
    <3>2. ASSUME NEW n \in 1 .. Len(list) PROVE items'[Len(items) + n].supersedes = 0
      <4>1. items'[Len(items) + n] = [key |-> list[n].key, hash |-> list[n].hash,
                                      supersedes |-> 0, by |-> r]
        BY <1>4 DEF Adds
      <4>2. QED BY <4>1
    <3>3. QED BY <1>4, <3>1, <3>2 DEF Adds
  <2>2. \A i \in 1 .. Len(items') : i \in 1 .. Len(items) \/ items'[i].supersedes = 0
    <3>1. ASSUME NEW i \in 1 .. Len(items'), i \notin 1 .. Len(items)
          PROVE  i - Len(items) \in 1 .. Len(list) /\ i = Len(items) + (i - Len(items))
      BY <1>1, <2>1, <3>1
    <3>2. QED BY <2>1, <3>1
  <2>3. \A i \in 1 .. Len(items) : items[i].supersedes \in 0 .. Len(items)
    BY <1>1 DEF Chains
  <2>4. Chains'
    BY <1>1, <2>1, <2>2, <2>3 DEF Chains
  <2>5. ASSUME NEW i \in DOMAIN items', NEW j \in DOMAIN items', items'[j].supersedes = i
        PROVE  items'[i].key = None /\ \A k \in DOMAIN items' : items'[k].supersedes = i => k = j
    <3>1. j \in 1 .. Len(items) /\ items[j].supersedes = i /\ i \in 1 .. Len(items)
      BY <1>1, <2>1, <2>2, <2>3, <2>5
    <3>2. /\ items[i].key = None
          /\ \A k \in 1 .. Len(items) : items[k].supersedes = i => k = j
      BY <1>1, <3>1 DEF ReplacedOnce
    <3>3. QED BY <1>1, <2>1, <2>2, <3>1, <3>2, SMTT(30)
  <2>6. QED BY <2>4, <2>5 DEF ReplacedOnce
<1>5. ASSUME NEW r \in 0 .. runs, NEW item \in Item, NEW o \in Nat, Moves(r, item, o)
      PROVE  (Chains /\ ReplacedOnce)'
  <2> DEFINE N == Len(items)
  <2>1. /\ item.key \in Key /\ o \in 1 .. N /\ items[o].key = item.key /\ Len(items') = N + 1
        /\ items'[o] = Keyless(items[o])
        /\ \A i \in 1 .. N : i # o => items'[i] = items[i]
        /\ items'[N + 1].supersedes = o
    BY <1>5 DEF Moves
  <2>2. item.key # None
    BY <2>1, DriverAssumption
  <2>3. items'[o].key = None /\ items'[o].supersedes = items[o].supersedes
    BY <1>2, <2>1, Unkeyed
  <2>4. \A i \in 1 .. N : items'[i].supersedes = items[i].supersedes
    BY <2>1, <2>3
  <2>5. \A i \in 1 .. N : items[i].supersedes \in 0 .. N
    BY <1>1 DEF Chains
  <2>6. \A j \in 1 .. N : items[j].supersedes # o
    BY <1>1, <2>1, <2>2 DEF ReplacedOnce
  <2>7. \A i \in 1 .. N + 1 : i \in 1 .. N \/ i = N + 1
    BY <1>1
  <2>8. Chains'
    <3>1. \A i \in 1 .. N + 1 : items'[i].supersedes \in 0 .. N + 1
      BY <1>1, <2>1, <2>4, <2>5, <2>7
    <3>2. QED BY <1>1, <2>1, <3>1 DEF Chains
  <2>9. ASSUME NEW i \in 1 .. N + 1, NEW j \in 1 .. N + 1, items'[j].supersedes = i
        PROVE  items'[i].key = None /\ \A k \in 1 .. N + 1 : items'[k].supersedes = i => k = j
    <3>1. CASE j = N + 1
      BY <2>1, <2>3, <2>4, <2>6, <2>7, <2>9, <3>1, SMTT(30)
    <3>2. CASE j \in 1 .. N
      <4>1. items[j].supersedes = i /\ i \in 1 .. N /\ i # o
        BY <1>1, <2>4, <2>5, <2>6, <2>9, <3>2
      <4>2. items[i].key = None /\ \A k \in 1 .. N : items[k].supersedes = i => k = j
        BY <1>1, <3>2, <4>1 DEF ReplacedOnce
      <4>3. QED BY <2>1, <2>4, <2>7, <4>1, <4>2
    <3>3. QED BY <2>7, <3>1, <3>2
  <2>10. ReplacedOnce'
    BY <1>1, <2>1, <2>9 DEF ReplacedOnce
  <2>11. QED BY <2>8, <2>10
<1>6. QED BY <1>3, <1>4, <1>5 DEF TableStep

\* An item is replaced at most once, and one that has been replaced has lost
\* its key, although processes decide to replace it from what they have read.
THEOREM NeverReplacedTwice == Spec => []ReplacedOnce
<1>1. Init => Chains /\ ReplacedOnce
  <2> SUFFICES ASSUME Init PROVE Chains /\ ReplacedOnce
    OBVIOUS
  <2>1. items \in Seq(Row) /\ Len(items) \in Nat
    BY InitTypes DEF TypeOK
  <2>2. \A i \in DOMAIN items : items[i].supersedes = 0 /\ i # 0
    BY <2>1 DEF Init
  <2>3. QED BY <2>1, <2>2 DEF Chains, ReplacedOnce
<1>2. TypeOK /\ Chains /\ ReplacedOnce /\ [TableStep /\ TypeOK']_vars => (Chains /\ ReplacedOnce)'
  <2>1. Chains /\ ReplacedOnce /\ UNCHANGED vars => (Chains /\ ReplacedOnce)'
    BY DEF Chains, ReplacedOnce, vars
  <2>2. QED BY <2>1, ChainsStep
<1>3. QED BY <1>1, <1>2, StepsOfSpec, PTL DEF Spec

(***************************************************************************)
(* Where the items of a run are.                                           *)
(***************************************************************************)
Running(p) == pc[p] # "idle"

\* How many candidates the loop of ingest_source has been through.
Reached(p) ==
    CASE pc[p] \in {"idle", "probe"} -> 0
      [] pc[p] \in Filtering -> pos[p] - 1
      [] OTHER -> Len(candidates(p))

Awaits(list, item) == \E n \in 1 .. Len(list) : list[n].key = item.key /\ list[n].valid

\* A valid item that decides about its external_id is stored or still to be written.
Landed(p, i) ==
    First(p, i) /\ candidates(p)[i].valid /\ candidates(p)[i].key # None =>
        \/ candidates(p)[i].key \in Present
        \/ Awaits(fresh[p], candidates(p)[i]) \/ Awaits(batch[p], candidates(p)[i])

Lands(p) == Running(p) /\ ~dry_run[p] => \A i \in 1 .. Reached(p) : Landed(p, i)

PresentOf(p) ==
    outcome[p] = "ok" /\ ~dry_run[p] =>
        \A i \in 1 .. Len(candidates(p)) :
            First(p, i) /\ candidates(p)[i].valid /\ candidates(p)[i].key # None =>
                candidates(p)[i].key \in Present

LEMMA Inserted ==
    ASSUME TypeOK, TypeOK', NEW r, NEW list \in Seq(Item), Adds(r, list)
    PROVE  \A n \in 1 .. Len(list) : list[n].key # None => list[n].key \in Present'
<1> SUFFICES ASSUME NEW n \in 1 .. Len(list), list[n].key # None PROVE list[n].key \in Present'
  OBVIOUS
<1>1. items \in Seq(Row) /\ items' \in Seq(Row)
  BY DEF TypeOK
<1>2. list[n] \in Item /\ Len(list) \in Nat
  OBVIOUS
<1>3. list[n].key \in Key
  BY <1>2 DEF Item
<1>4. items'[Len(items) + n] = [key |-> list[n].key, hash |-> list[n].hash,
                                supersedes |-> 0, by |-> r]
  BY DEF Adds
<1>5. items'[Len(items) + n].key = list[n].key
  BY <1>4
<1>6. Len(items) + n \in DOMAIN items'
  BY <1>1, <1>2 DEF Adds
<1>7. QED BY <1>3, <1>5, <1>6 DEF Present, Holders

\* What a process needs of a step for its landed items to stay so.
LEMMA StillLanded ==
    ASSUME NEW p \in Process, NEW i, Landed(p, i), source'[p] = source[p],
           Present \subseteq Present', fresh'[p] = fresh[p], batch'[p] = batch[p]
    PROVE  Landed(p, i)'
<1>1. candidates(p)' = candidates(p)
  BY DEF candidates
<1>2. First(p, i)' <=> First(p, i)
  BY <1>1 DEF First
<1>3. QED BY <1>1, <1>2 DEF Landed, Awaits

LEMMA FilterLands ==
    ASSUME TypeOK, NEW p \in Process, Placed(p), Filter(p), Lands(p), ~dry_run[p]
    PROVE  \A i \in 1 .. pos[p] : Landed(p, i)'
<1>1. ArgTypes /\ LocalTypes /\ ResultTypes
  BY Groups
<1> DEFINE item == candidates(p)[pos[p]]
<1>2. /\ candidates(p)' = candidates(p) /\ Present' = Present /\ batch'[p] = batch[p]
      /\ source'[p] = source[p] /\ \A i : First(p, i)' <=> First(p, i)
  BY DEF Filter, args, candidates, Present, Holders, First
<1>3. pc[p] = "filter" /\ pos[p] \in 1 .. Len(candidates(p)) /\ pos[p] \in Nat
  BY <1>1, Candidates DEF Filter, At, LocalTypes
<1>4. \A i \in 1 .. pos[p] - 1 : Landed(p, i)
  BY <1>3 DEF Lands, Running, Reached, Filtering
<1>5. \/ fresh'[p] = fresh[p]
      \/ fresh'[p] = Append(fresh[p], item)
  BY <1>1 DEF Filter, LocalTypes
<1>6. ASSUME NEW x, Awaits(fresh[p], x) PROVE Awaits(fresh'[p], x)
  <2>1. fresh[p] \in Seq(Item) /\ item \in Item
    BY <1>1, <1>3, Candidates DEF LocalTypes
  <2>2. \A n \in 1 .. Len(fresh[p]) : n \in 1 .. Len(fresh'[p]) /\ fresh'[p][n] = fresh[p][n]
    <3> DEFINE list == fresh[p]
    <3> HIDE DEF list, item
    <3>1. \A n \in 1 .. Len(list) : n \in 1 .. Len(Append(list, item)) /\ Append(list, item)[n] = list[n]
      BY <2>1 DEF list
    <3>2. QED BY <1>5, <3>1 DEF list
  <2>3. QED BY <1>6, <2>2 DEF Awaits
<1>7. ASSUME NEW i \in 1 .. pos[p] - 1 PROVE Landed(p, i)'
  BY <1>2, <1>4, <1>6 DEF Landed
<1>8. ASSUME NEW i, i = pos[p] PROVE Landed(p, i)'
  <2> SUFFICES ASSUME First(p, i), item.valid, item.key # None
               PROVE  item.key \in Present \/ Awaits(fresh'[p], item)
    <3>1. candidates(p)[i] = item
      BY <1>8
    <3> HIDE DEF item
    <3>2. QED BY <1>2, <3>1 DEF Landed, Awaits
  <2>1. item.key \notin accepted[p]
    <3>1. accepted[p] = {candidates(p)[n].key : n \in 1 .. pos[p] - 1} \ {None}
      BY <1>3 DEF Placed, Filtering
    <3>2. QED BY <1>8, <3>1 DEF First
  <2>2. CASE item.key \in existing[p]
    BY <2>2 DEF Placed
  <2>3. CASE item.key \notin existing[p]
    <3>1. fresh'[p] = Append(fresh[p], item)
      BY <1>1, <2>1, <2>3 DEF Filter, LocalTypes
    <3>2. fresh[p] \in Seq(Item) /\ item \in Item
      BY <1>1, <1>3, Candidates DEF LocalTypes
    <3>3. Len(fresh[p]) + 1 \in 1 .. Len(fresh'[p]) /\ fresh'[p][Len(fresh[p]) + 1] = item
      <4> DEFINE list == fresh[p]
      <4> HIDE DEF list, item
      <4>1. /\ Len(list) + 1 \in 1 .. Len(Append(list, item))
            /\ Append(list, item)[Len(list) + 1] = item
        BY <3>2 DEF list
      <4>2. QED BY <3>1, <4>1 DEF list
    <3>4. QED BY <3>3 DEF Awaits
  <2>4. QED BY <2>2, <2>3
<1>9. \A i \in 1 .. pos[p] : i \in 1 .. pos[p] - 1 \/ i = pos[p]
  BY <1>3
<1>10. QED BY <1>7, <1>8, <1>9

LEMMA WriteLands ==
    ASSUME TypeOK, TypeOK', TableStep, NEW p \in Process, Placed(p), Write(p), NEW i, Landed(p, i)
    PROVE  Landed(p, i)'
<1>1. ArgTypes /\ LocalTypes
  BY Groups
<1> DEFINE next == Taken(p)
           b == BatchSize(p)
<1>2. /\ b \in 0 .. Len(fresh[p]) /\ Len(fresh[p]) \in Nat
      /\ next \in Seq(Item) /\ Len(next) = b
      /\ Drained(p) \in Seq(Item) /\ Len(Drained(p)) = Len(fresh[p]) - b
      /\ \A n \in 1 .. b : next[n] = fresh[p][n]
      /\ \A n \in 1 .. Len(fresh[p]) - b : Drained(p)[n] = fresh[p][b + n]
  BY <1>1, Batches
<1>3. /\ pc[p] = "write" /\ candidates(p)' = candidates(p) /\ batch[p] = << >>
      /\ fresh'[p] = Drained(p) /\ (First(p, i)' <=> First(p, i))
  BY <1>1 DEF Write, At, args, candidates, First, Placed, LocalTypes
<1>4. Present \subseteq Present'
  BY TableKept
<1>5. batch'[p] = next \/ Insert(p, next)
  BY <1>1 DEF Write, LocalTypes, Taken
<1> HIDE DEF next, b
<1>6. Insert(p, next) => \A n \in 1 .. Len(next) : next[n].key # None => next[n].key \in Present'
  BY <1>2, InsertAdds, Inserted
<1>7. ASSUME NEW x, x.key # None, Awaits(fresh[p], x)
      PROVE  x.key \in Present' \/ Awaits(fresh'[p], x) \/ Awaits(batch'[p], x)
  <2>1. PICK n \in 1 .. Len(fresh[p]) : fresh[p][n].key = x.key /\ fresh[p][n].valid
    BY <1>7 DEF Awaits
  <2>2. CASE n \in 1 .. b
    <3>1. n \in 1 .. Len(next) /\ next[n].key = x.key /\ next[n].valid
      BY <1>2, <2>1, <2>2
    <3>2. QED BY <1>5, <1>6, <1>7, <3>1 DEF Awaits
  <2>3. CASE n \notin 1 .. b
    <3>1. n - b \in 1 .. Len(fresh[p]) - b /\ n = b + (n - b)
      BY <1>2, <2>3
    <3>2. Drained(p)[n - b] = fresh[p][n]
      BY <1>2, <3>1
    <3>3. QED BY <1>2, <1>3, <2>1, <3>1, <3>2, SMTT(30) DEF Awaits
  <2>4. QED BY <2>2, <2>3
<1>8. ~Awaits(batch[p], candidates(p)[i])
  BY <1>3 DEF Awaits
<1>9. QED BY <1>3, <1>4, <1>7, <1>8 DEF Landed, Awaits

LEMMA RetryLands ==
    ASSUME TypeOK, TypeOK', TableStep, NEW p \in Process, Placed(p), Retry(p),
           ~Return(p, "conflict"), NEW i, Landed(p, i)
    PROVE  Landed(p, i)'
<1>1. ArgTypes /\ LocalTypes
  BY Groups
<1> DEFINE retry == Retained(p)
<1>2. /\ retry \in Seq(Item) /\ Insert(p, retry) /\ fresh'[p] = fresh[p]
      /\ candidates(p)' = candidates(p) /\ (First(p, i)' <=> First(p, i))
  BY <1>1, RetainedTypes DEF Retry, args, candidates, First
<1>3. \A n \in 1 .. Len(batch[p]) : batch[p][n].key \notin existing[p] =>
         \E k \in 1 .. Len(retry) : retry[k] = batch[p][n]
  BY <1>1, RetainedTypes
<1> HIDE DEF retry
<1>4. Present \subseteq Present' /\ existing[p] \subseteq Present
  BY TableKept DEF Placed
<1>5. \A n \in 1 .. Len(retry) : retry[n].key # None => retry[n].key \in Present'
  BY <1>2, InsertAdds, Inserted
<1>6. ASSUME NEW x, x.key # None, Awaits(batch[p], x) PROVE x.key \in Present'
  <2>1. PICK n \in 1 .. Len(batch[p]) : batch[p][n].key = x.key
    BY <1>6 DEF Awaits
  <2>2. QED BY <1>3, <1>4, <1>5, <1>6, <2>1
<1>7. QED BY <1>2, <1>4, <1>6 DEF Landed, Awaits

LEMMA EachLands ==
    ASSUME TypeOK, TypeOK', TableStep, NEW p \in Process, EachPopped(p), UNCHANGED args,
           NEW i, Landed(p, i)
    PROVE  Landed(p, i)'
<1>1. ArgTypes /\ LocalTypes
  BY Groups
<1> DEFINE item == Head(batch[p])
           rest == Tail(batch[p])
           one == <<item>>
<1>2. /\ batch'[p] = rest /\ fresh'[p] = fresh[p] /\ candidates(p)' = candidates(p)
      /\ (First(p, i)' <=> First(p, i))
  BY <1>1 DEF EachPopped, LocalTypes, args, candidates, First
<1>3. Present \subseteq Present'
  BY TableKept
<1>4. /\ Len(batch[p]) \in Nat /\ Len(rest) = Len(batch[p]) - 1 /\ item = batch[p][1]
      /\ \A n \in 1 .. Len(batch[p]) - 1 : rest[n] = batch[p][n + 1]
      /\ one \in Seq(Item) /\ Len(one) = 1 /\ one[1] = item
  BY <1>1, EachItem DEF EachPopped
<1>5. ~item.valid \/ Insert(p, one)
  BY DEF EachPopped
<1> HIDE DEF item, rest, one
<1>6. Insert(p, one) /\ item.key # None => item.key \in Present'
  <2>1. ASSUME Insert(p, one) PROVE \A n \in 1 .. Len(one) : one[n].key # None => one[n].key \in Present'
    BY <1>4, <2>1, InsertAdds, Inserted
  <2>2. QED BY <1>4, <2>1
<1>7. ASSUME NEW x, x.key # None, Awaits(batch[p], x)
      PROVE  x.key \in Present' \/ Awaits(batch'[p], x)
  <2>1. PICK n \in 1 .. Len(batch[p]) : batch[p][n].key = x.key /\ batch[p][n].valid
    BY <1>7 DEF Awaits
  <2>2. CASE n = 1
    BY <1>4, <1>5, <1>6, <1>7, <2>1, <2>2
  <2>3. CASE n # 1
    <3>1. n - 1 \in 1 .. Len(batch[p]) - 1 /\ n = (n - 1) + 1
      BY <1>4, <2>3
    <3>2. rest[n - 1] = batch[p][n]
      BY <1>4, <3>1
    <3>3. QED BY <1>2, <1>4, <2>1, <3>1, <3>2 DEF Awaits
  <2>4. QED BY <2>2, <2>3
<1>8. QED BY <1>2, <1>3, <1>7 DEF Landed, Awaits

\* A step that keeps what process p has reached keeps its items landed.
LEMMA LandsOn ==
    ASSUME NEW p \in Process, Lands(p), dry_run'[p] = dry_run[p],
           Running(p)' => Running(p) /\ Reached(p)' = Reached(p),
           \A i : Landed(p, i) => Landed(p, i)'
    PROVE  Lands(p)'
  BY DEF Lands

LEMMA LandsStep ==
    ASSUME TypeOK, TypeOK', TableStep, NEW p \in Process, Placed(p), StepOf(p), Lands(p)
    PROVE  Lands(p)'
<1>1. ArgTypes /\ LocalTypes /\ ResultTypes /\ Present \subseteq Present'
  BY Groups, TableKept
<1>2. ASSUME NEW r, Return(p, r) PROVE Lands(p)'
  BY <1>1, <1>2 DEF Return, Goto, ResultTypes, Lands, Running
<1>3. CASE \E yields \in Source, dry \in BOOLEAN : Start(p, yields, dry)
  <2>1. pc'[p] = "probe"
    BY <1>1, <1>3 DEF Start, Goto, ResultTypes
  <2>2. Reached(p)' = 0
    BY <2>1 DEF Reached, Filtering
  <2>3. QED BY <2>2 DEF Lands
<1>4. CASE Step(p) \/ Fail(p) \/ Crash(p)
  <2>1. dry_run'[p] = dry_run[p] /\ source'[p] = source[p] /\ candidates(p)' = candidates(p)
    BY <1>4, ArgsKept DEF args, candidates
  <2>2. CASE Probe(p, "probe", candidates(p), "filter")
    <3>1. pc'[p] = "probe" \/ (pc'[p] = "filter" /\ pos'[p] = 1)
      BY <1>1, <2>2 DEF Probe, At, Goto, ResultTypes, LocalTypes
    <3>2. Reached(p)' = 0
      BY <3>1 DEF Reached, Filtering
    <3>3. QED BY <3>2 DEF Lands
  <2>3. CASE Probe(p, "reprobe", batch[p], "retry")
    <3>1. pc[p] = "reprobe" /\ pc'[p] \in {"reprobe", "retry"}
      BY <1>1, <2>3 DEF Probe, At, Goto, ResultTypes
    <3>2. Running(p) /\ Reached(p)' = Reached(p)
      BY <2>1, <3>1 DEF Reached, Running, Filtering
    <3>3. \A i : Landed(p, i) => Landed(p, i)'
      BY <1>1, <2>1, <2>3, StillLanded DEF Probe
    <3>4. QED BY <2>1, <3>2, <3>3, LandsOn
  <2>4. CASE Filter(p)
    <3>1. pos'[p] - 1 = pos[p] /\ pc'[p] \in Filtering
      BY <1>1, <2>4 DEF Filter, At, Goto, ResultTypes, LocalTypes, Filtering
    <3>2. Reached(p)' = pos[p]
      BY <3>1 DEF Reached, Filtering
    <3>3. ~dry_run[p] => \A i \in 1 .. pos[p] : Landed(p, i)'
      BY <2>4, FilterLands
    <3>4. QED BY <2>1, <3>2, <3>3 DEF Lands
  <2>5. CASE Replace(p) /\ ~\E r : Return(p, r)
    <3>1. Goto(p, "filter") /\ UNCHANGED locals /\ pc[p] = "replace"
      BY <2>5 DEF Replace, At
    <3>2. pc'[p] = "filter"
      BY <1>1, <3>1 DEF Goto, ResultTypes
    <3>3. Running(p) /\ Reached(p)' = Reached(p)
      BY <3>1, <3>2 DEF Reached, Running, Filtering, locals
    <3>4. \A i : Landed(p, i) => Landed(p, i)'
      BY <1>1, <2>1, <3>1, StillLanded DEF locals
    <3>5. QED BY <2>1, <3>3, <3>4, LandsOn
  <2>6. CASE Filtered(p) /\ ~Return(p, "ok")
    <3>1. /\ Goto(p, "write") /\ UNCHANGED <<fresh, batch>>
          /\ pc[p] = "filter" /\ pos[p] > Len(candidates(p))
      BY <2>6 DEF Filtered, At
    <3>2. pc'[p] = "write"
      BY <1>1, <3>1 DEF Goto, ResultTypes
    <3>3. pos[p] - 1 = Len(candidates(p))
      <4>1. pos[p] <= Len(candidates(p)) + 1 /\ pos[p] \in Nat /\ Len(candidates(p)) \in Nat
        BY <1>1, <3>1, Candidates DEF Placed, Filtering, LocalTypes
      <4>2. QED BY <3>1, <4>1
    <3>4. Running(p) /\ Reached(p)' = Reached(p)
      BY <2>1, <3>1, <3>2, <3>3 DEF Reached, Running, Filtering
    <3>5. \A i : Landed(p, i) => Landed(p, i)'
      BY <1>1, <2>1, <3>1, StillLanded
    <3>6. QED BY <2>1, <3>4, <3>5, LandsOn
  <2>7. CASE Write(p)
    <3>1. pc[p] = "write" /\ pc'[p] \in {"write", "each", "reprobe"}
      BY <1>1, <2>7 DEF Write, At, Goto, ResultTypes
    <3>2. Running(p) /\ Reached(p)' = Reached(p)
      BY <2>1, <3>1 DEF Reached, Running, Filtering
    <3>3. QED BY <2>1, <2>7, <3>2, WriteLands, LandsOn
  <2>8. CASE Retry(p) /\ ~Return(p, "conflict")
    <3>1. pc[p] = "retry" /\ pc'[p] = "write"
      BY <1>1, <2>8 DEF Retry, At, Goto, ResultTypes
    <3>2. Running(p) /\ Reached(p)' = Reached(p)
      BY <2>1, <3>1 DEF Reached, Running, Filtering
    <3>3. QED BY <2>1, <2>8, <3>2, RetryLands, LandsOn
  <2>9. CASE Each(p) /\ ~EachRefused(p)
    <3>1. pc[p] = "each" /\ UNCHANGED args
      BY <2>9, EachWays DEF At
    <3>2. CASE EachEmpty(p)
      <4>1. pc'[p] = "write" /\ UNCHANGED locals
        BY <1>1, <3>2 DEF EachEmpty, Goto, ResultTypes
      <4>2. Running(p) /\ Reached(p)' = Reached(p)
        BY <2>1, <3>1, <4>1 DEF Reached, Running, Filtering
      <4>3. \A i : Landed(p, i) => Landed(p, i)'
        BY <1>1, <2>1, <4>1, StillLanded DEF locals
      <4>4. QED BY <2>1, <4>2, <4>3, LandsOn
    <3>3. CASE EachPopped(p)
      <4>1. pc'[p] = "each"
        BY <3>1, <3>3 DEF EachPopped
      <4>2. Running(p) /\ Reached(p)' = Reached(p)
        BY <2>1, <3>1, <4>1 DEF Reached, Running, Filtering
      <4>3. QED BY <2>1, <3>1, <3>3, <4>2, EachLands, LandsOn
    <3>4. QED BY <2>9, <3>2, <3>3, EachWays
  <2>10. CASE Hook(p)
    <3>1. UNCHANGED <<locals, pc, items>>
      BY <2>10 DEF Hook
    <3>2. Running(p)' = Running(p) /\ Reached(p)' = Reached(p)
      BY <2>1, <3>1 DEF Reached, Running, locals
    <3>3. \A i : Landed(p, i) => Landed(p, i)'
      BY <1>1, <2>1, <3>1, StillLanded DEF locals
    <3>4. QED BY <2>1, <3>2, <3>3, LandsOn
  <2>11. CASE \/ Replace(p) /\ (\E r : Return(p, r))
              \/ Filtered(p) /\ Return(p, "ok")
              \/ Retry(p) /\ Return(p, "conflict")
              \/ Each(p) /\ EachRefused(p)
              \/ Finish(p) \/ Fail(p) \/ Crash(p)
    BY <1>2, <2>11 DEF EachRefused, Finish, Fail, Crash
  <2>12. QED BY <1>4, <2>2, <2>3, <2>4, <2>5, <2>6, <2>7, <2>8, <2>9, <2>10, <2>11 DEF Step
<1>5. QED BY <1>3, <1>4 DEF StepOf

LEMMA PresentOn ==
    ASSUME TypeOK, TypeOK', TableStep, NEW p \in Process, PresentOf(p),
           source'[p] = source[p], dry_run'[p] = dry_run[p], outcome'[p] = outcome[p]
    PROVE  PresentOf(p)'
<1>1. Present \subseteq Present'
  BY TableKept
<1>2. candidates(p)' = candidates(p) /\ \A i : First(p, i)' <=> First(p, i)
  BY DEF candidates, First
<1>3. QED BY <1>1, <1>2 DEF PresentOf

LEMMA PresentStep ==
    ASSUME TypeOK, TypeOK', TableStep, NEW p \in Process, Placed(p), StepOf(p),
           Lands(p), PresentOf(p)
    PROVE  PresentOf(p)'
<1>1. ArgTypes /\ LocalTypes /\ ResultTypes
  BY Groups
<1>2. ASSUME NEW r, r # "ok", Return(p, r) PROVE PresentOf(p)'
  <2>1. outcome'[p] = r
    BY <1>1, <1>2 DEF Return, ResultTypes
  <2>2. QED BY <1>2, <2>1 DEF PresentOf
<1>3. CASE \E yields \in Source, dry \in BOOLEAN : Start(p, yields, dry)
  <2>1. outcome'[p] = "none"
    BY <1>1, <1>3 DEF Start, ResultTypes
  <2>2. QED BY <2>1 DEF PresentOf
<1>4. CASE Step(p) \/ Fail(p) \/ Crash(p)
  <2>1. dry_run'[p] = dry_run[p] /\ source'[p] = source[p] /\ candidates(p)' = candidates(p)
    BY <1>4, ArgsKept DEF args, candidates
  <2>2. CASE Finish(p)
    <3>1. pc[p] = "write" /\ fresh[p] = << >> /\ items' = items
      BY <2>2 DEF Finish, At
    <3>2. batch[p] = << >> /\ Running(p) /\ Reached(p) = Len(candidates(p))
      BY <3>1 DEF Placed, Running, Reached, Filtering
    <3>3. \A x : ~Awaits(fresh[p], x) /\ ~Awaits(batch[p], x)
      BY <3>1, <3>2 DEF Awaits
    <3>4. ~dry_run[p] => \A i \in 1 .. Len(candidates(p)) :
             First(p, i) /\ candidates(p)[i].valid /\ candidates(p)[i].key # None =>
                candidates(p)[i].key \in Present
      BY <3>2, <3>3 DEF Lands, Landed
    <3>5. Present' = Present /\ \A i : First(p, i)' <=> First(p, i)
      BY <2>1, <3>1 DEF Present, Holders, First
    <3>6. QED BY <2>1, <3>4, <3>5 DEF PresentOf
  <2>3. CASE Filtered(p) /\ Return(p, "ok")
    <3>1. pc[p] = "filter" /\ pc'[p] = "idle"
      BY <1>1, <2>3 DEF Filtered, At, Return, Goto, ResultTypes
    <3>2. dry_run[p]
      <4>1. ~dry_run[p] => pc'[p] = "write"
        BY <1>1, <2>3 DEF Filtered, Goto, ResultTypes
      <4>2. QED BY <3>1, <4>1
    <3>3. QED BY <2>1, <3>2 DEF PresentOf
  <2>4. CASE outcome' = outcome
    BY <2>1, <2>4, PresentOn
  <2>5. CASE \E r : r # "ok" /\ Return(p, r)
    BY <1>2, <2>5
  <2>6. outcome' = outcome \/ (\E r : r # "ok" /\ Return(p, r))
           \/ Finish(p) \/ (Filtered(p) /\ Return(p, "ok"))
    <3>1. Each(p) => outcome' = outcome \/ Return(p, "conflict")
      BY EachWays DEF EachEmpty, EachRefused, EachPopped
    <3>2. Replace(p) => outcome' = outcome \/ (\E r : r # "ok" /\ Return(p, r))
      BY DEF Replace
    <3>3. Fail(p) \/ Crash(p) => \E r : r # "ok" /\ Return(p, r)
      BY DEF Fail, Crash
    <3>4. Write(p) \/ Hook(p) \/ Filter(p) \/ Probe(p, "probe", candidates(p), "filter")
             \/ Probe(p, "reprobe", batch[p], "retry") => outcome' = outcome
      BY DEF Write, Hook, Filter, Probe
    <3>5. Retry(p) => outcome' = outcome \/ Return(p, "conflict")
      BY DEF Retry
    <3>6. Filtered(p) => outcome' = outcome \/ Return(p, "ok")
      BY DEF Filtered
    <3>7. QED BY <1>4, <3>1, <3>2, <3>3, <3>4, <3>5, <3>6 DEF Step
  <2>7. QED BY <2>2, <2>3, <2>4, <2>5, <2>6
<1>5. QED BY <1>3, <1>4 DEF StepOf

LandsAll == \A p \in Process : Lands(p) /\ PresentOf(p)

LEMMA LandsAllStep ==
    ASSUME TypeOK, TypeOK', TableStep, Stages, LandsAll, Next
    PROVE  LandsAll'
<1>1. PICK p \in Process : StepOf(p)
  BY DEF Next, StepOf
<1>2. ASSUME NEW q \in Process, q # p PROVE Lands(q)' /\ PresentOf(q)'
  <2>1. SameArgs(q) /\ SameLocals(q) /\ SameResults(q)
    BY <1>1, <1>2, OthersKept DEF Same
  <2>2. candidates(q)' = candidates(q)
    BY <2>1 DEF candidates, SameArgs
  <2>3. Running(q)' = Running(q) /\ Reached(q)' = Reached(q)
    BY <2>1, <2>2 DEF Running, Reached, SameLocals, SameResults
  <2>4. \A i : Landed(q, i) => Landed(q, i)'
    BY <2>1, TableKept, StillLanded DEF SameArgs, SameLocals
  <2>5. Lands(q)'
    BY <2>1, <2>3, <2>4 DEF LandsAll, Lands, SameArgs
  <2>6. PresentOf(q)'
    BY <2>1, PresentOn DEF LandsAll, SameArgs, SameResults
  <2>7. QED BY <2>5, <2>6
<1>3. Lands(p)' /\ PresentOf(p)'
  BY <1>1, LandsStep, PresentStep DEF Stages, LandsAll
<1>4. QED BY <1>2, <1>3 DEF LandsAll

LEMMA SpecSteps == Spec => [](TypeOK /\ Stages) /\ [][TableStep /\ TypeOK' /\ Next]_vars
<1>1. TypeOK /\ Stages /\ [Next]_vars /\ (TypeOK /\ Stages)' => [TableStep /\ TypeOK' /\ Next]_vars
  BY EveryStep
<1>2. QED BY <1>1, IngestTypes, PTL DEF Spec

LEMMA AllLand == Spec => []LandsAll
<1>1. Init => LandsAll
  BY DEF Init, LandsAll, Lands, Running, PresentOf
<1>2. TypeOK /\ Stages /\ LandsAll /\ [TableStep /\ TypeOK' /\ Next]_vars => LandsAll'
  <2>1. LandsAll /\ UNCHANGED vars => LandsAll'
    <3> SUFFICES ASSUME LandsAll, UNCHANGED vars PROVE LandsAll'
      OBVIOUS
    <3>1. UNCHANGED <<items, args, locals, pc, outcome>>
      BY DEF vars
    <3>2. ASSUME NEW p \in Process PROVE PresentOf(p)'
      <4>1. Present' = Present
        BY <3>1 DEF Present, Holders
      <4>2. candidates(p)' = candidates(p) /\ \A i : First(p, i)' <=> First(p, i)
        BY <3>1 DEF candidates, First, args
      <4>3. outcome'[p] = outcome[p] /\ dry_run'[p] = dry_run[p]
        BY <3>1 DEF args
      <4>4. QED BY <4>1, <4>2, <4>3 DEF LandsAll, PresentOf
    <3>3. \A p \in Process : Lands(p)'
      BY <3>1 DEF LandsAll, Lands, Landed, Awaits, Running, Reached, Present, Holders, candidates,
                  First, args, locals
    <3>4. QED BY <3>2, <3>3 DEF LandsAll
  <2>2. QED BY <2>1, LandsAllStep
<1>3. QED BY <1>1, <1>2, SpecSteps, PTL DEF Spec

\* A run that returns Ok has every valid item that decides about its
\* external_id in the store: through conflicts, retries and item-by-item
\* writes an item is in fresh or in batch until it is, or until another
\* process has stored its id (ingest_source, write_batches).
THEOREM OkIsPresent == Spec => []OkMeansPresent
<1>1. TypeOK /\ LandsAll => OkMeansPresent
  <2> SUFFICES ASSUME TypeOK, LandsAll PROVE OkMeansPresent
    OBVIOUS
  <2>1. \A p \in Process : DOMAIN candidates(p) = 1 .. Len(candidates(p))
    BY Groups, Candidates
  <2>2. \A key \in Present : Holders(key) # {}
    BY DEF Present
  <2>3. QED BY <2>1, <2>2 DEF LandsAll, PresentOf, OkMeansPresent
<1>2. QED BY <1>1, AllLand, IngestTypes, PTL

(***************************************************************************)
(* The numbers of the runs, and the rows each has written.                  *)
(***************************************************************************)
RunNumbers ==
    /\ \A p, q \in Process : run[p] = run[q] => run[p] = 0 \/ p = q
    /\ \A i \in DOMAIN items : items[i].by \in 0 .. runs

\* How many rows run k has written.
Tally(k) == Cardinality({i \in DOMAIN items : items[i].by = k})

ByRun(s, k) == {i \in 1 .. Len(s) : s[i].by = k}

LEMMA ByRunFinite ==
    ASSUME NEW S, NEW s \in Seq(S), NEW k
    PROVE  IsFiniteSet(ByRun(s, k)) /\ Cardinality(ByRun(s, k)) \in Nat
<1>1. IsFiniteSet(1 .. Len(s))
  BY FS_Interval
<1>2. IsFiniteSet(ByRun(s, k))
  BY <1>1, FS_Subset DEF ByRun
<1>3. QED BY <1>2, FS_CardinalityType

\* t is s with n more rows, all of them of run r.
Extends(s, t, n, r) ==
    /\ Len(t) = Len(s) + n
    /\ \A i \in 1 .. Len(s) : t[i].by = s[i].by
    /\ \A i \in Len(s) + 1 .. Len(s) + n : t[i].by = r

LEMMA Grew ==
    ASSUME NEW S, NEW s \in Seq(S), NEW t \in Seq(S), NEW n \in Nat, NEW r, NEW k,
           Extends(s, t, n, r)
    PROVE  Cardinality(ByRun(t, k)) = Cardinality(ByRun(s, k)) + (IF k = r THEN n ELSE 0)
<1> DEFINE L == Len(s)
           A == ByRun(s, k)
           B == L + 1 .. L + n
<1>0. /\ Len(t) = L + n /\ \A i \in 1 .. L : t[i].by = s[i].by
      /\ \A i \in B : t[i].by = r
  BY DEF Extends
<1>1. L \in Nat /\ IsFiniteSet(A) /\ Cardinality(A) \in Nat
  BY ByRunFinite
<1>2. \A i \in 1 .. Len(t) : i \in 1 .. L \/ i \in B
  BY <1>0, <1>1
<1>3. \A i : i \in 1 .. L \/ i \in B => i \in 1 .. Len(t)
  BY <1>0, <1>1
<1>4. A \cap B = {}
  BY <1>1 DEF ByRun
<1>5. CASE k = r
  <2>1. ByRun(t, k) = A \cup B
    BY <1>0, <1>2, <1>3, <1>5 DEF ByRun
  <2>2. IsFiniteSet(B) /\ Cardinality(B) = n
    <3> DEFINE a == L + 1
               b == L + n
    <3>1. a \in Int /\ b \in Int /\ (IF a > b THEN 0 ELSE b - a + 1) = n
      BY <1>1
    <3>2. B = a .. b
      OBVIOUS
    <3> HIDE DEF a, b, B
    <3>3. IsFiniteSet(a .. b) /\ Cardinality(a .. b) = IF a > b THEN 0 ELSE b - a + 1
      BY <3>1, FS_Interval
    <3>4. QED BY <3>1, <3>2, <3>3
  <2> HIDE DEF A, B
  <2>3. Cardinality(A \cup B) = Cardinality(A) + Cardinality(B) - Cardinality({})
    BY <1>1, <1>4, <2>2, FS_Union
  <2>4. Cardinality(A \cup B) = Cardinality(A) + n
    BY <1>1, <2>2, <2>3, FS_EmptySet
  <2>5. QED BY <1>5, <2>1, <2>4 DEF A
<1>6. CASE k # r
  <2>1. ByRun(t, k) = A
    BY <1>0, <1>2, <1>3, <1>6 DEF ByRun
  <2> HIDE DEF A
  <2>2. QED BY <1>1, <1>6, <2>1 DEF A
<1>7. QED BY <1>5, <1>6

LEMMA Tallied ==
    ASSUME TypeOK, NEW k
    PROVE  Tally(k) = Cardinality(ByRun(items, k)) /\ Tally(k) \in Nat
<1>1. items \in Seq(Row)
  BY DEF TypeOK
<1>2. {i \in DOMAIN items : items[i].by = k} = ByRun(items, k)
  BY <1>1 DEF ByRun
<1>3. Cardinality(ByRun(items, k)) \in Nat
  BY <1>1, ByRunFinite
<1>4. QED BY <1>2, <1>3 DEF Tally

LEMMA TallyGrows ==
    ASSUME TypeOK, TypeOK', NEW n \in Nat, NEW r, NEW k, Extends(items, items', n, r)
    PROVE  Tally(k)' = Tally(k) + (IF k = r THEN n ELSE 0)
<1> DEFINE s == items
           t == items'
<1>1. s \in Seq(Row) /\ t \in Seq(Row)
  BY DEF TypeOK
<1>2. Tally(k)' = Cardinality(ByRun(t, k))
  <2>1. {i \in DOMAIN t : t[i].by = k} = ByRun(t, k)
    BY <1>1 DEF ByRun
  <2>2. QED BY <2>1 DEF Tally
<1>3. Tally(k) = Cardinality(ByRun(s, k))
  BY Tallied
<1>4. Extends(s, t, n, r)
  OBVIOUS
<1> HIDE DEF s, t
<1>5. Cardinality(ByRun(t, k)) = Cardinality(ByRun(s, k)) + (IF k = r THEN n ELSE 0)
  BY <1>1, <1>4, Grew
<1>6. QED BY <1>2, <1>3, <1>5

LEMMA AddedBy ==
    ASSUME TypeOK, NEW r, NEW list \in Seq(Item), Adds(r, list)
    PROVE  Len(list) \in Nat /\ Extends(items, items', Len(list), r)
<1>1. Len(list) \in Nat /\ Len(items) \in Nat
  BY DEF TypeOK
<1>2. ASSUME NEW i \in Len(items) + 1 .. Len(items) + Len(list) PROVE items'[i].by = r
  <2> DEFINE n == i - Len(items)
  <2>1. n \in 1 .. Len(list) /\ i = Len(items) + n
    BY <1>1
  <2> HIDE DEF n
  <2>2. items'[i] = [key |-> list[n].key, hash |-> list[n].hash, supersedes |-> 0, by |-> r]
    BY <2>1 DEF Adds
  <2>3. QED BY <2>2
<1>3. QED BY <1>1, <1>2 DEF Adds, Extends

LEMMA MovedBy ==
    ASSUME TypeOK, NEW r, NEW item, NEW o, Moves(r, item, o)
    PROVE  Extends(items, items', 1, r)
<1>1. items \in Seq(Row) /\ Len(items) \in Nat
  BY DEF TypeOK
<1>2. o \in 1 .. Len(items) /\ items'[o] = Keyless(items[o])
  BY DEF Moves
<1>3. items[o] \in Row
  BY <1>1, <1>2
<1>4. items'[o].by = items[o].by
  BY <1>2, <1>3, Unkeyed
<1>5. items'[Len(items) + 1] = [key |-> item.key, hash |-> item.hash, supersedes |-> o, by |-> r]
  BY DEF Moves
<1>6. items'[Len(items) + 1].by = r
  BY <1>5
<1>7. \A i \in Len(items) + 1 .. Len(items) + 1 : i = Len(items) + 1
  BY <1>1
<1>8. QED BY <1>1, <1>4, <1>6, <1>7 DEF Moves, Extends

LEMMA TallyAdds ==
    ASSUME TypeOK, TypeOK', NEW r, NEW list \in Seq(Item), Adds(r, list), NEW k
    PROVE  Tally(k)' = Tally(k) + (IF k = r THEN Len(list) ELSE 0)
<1> DEFINE n == Len(list)
<1>1. n \in Nat /\ Extends(items, items', n, r)
  BY AddedBy
<1> HIDE DEF n
<1>2. Tally(k)' = Tally(k) + (IF k = r THEN n ELSE 0)
  BY <1>1, TallyGrows
<1>3. QED BY <1>2 DEF n

LEMMA TallyMoves ==
    ASSUME TypeOK, TypeOK', NEW r, NEW item, NEW o, Moves(r, item, o), NEW k
    PROVE  Tally(k)' = Tally(k) + (IF k = r THEN 1 ELSE 0)
<1> DEFINE n == 1
<1>1. n \in Nat /\ Extends(items, items', n, r)
  BY MovedBy
<1> HIDE DEF n
<1>2. Tally(k)' = Tally(k) + (IF k = r THEN n ELSE 0)
  BY <1>1, TallyGrows
<1>3. QED BY <1>2 DEF n

LEMMA NewBy ==
    ASSUME TypeOK, TypeOK', TableStep, \A i \in DOMAIN items : items[i].by \in 0 .. runs,
           runs' \in Nat, runs <= runs'
    PROVE  \A i \in DOMAIN items' : items'[i].by \in 0 .. runs'
<1>1. /\ DOMAIN items = 1 .. Len(items) /\ DOMAIN items' = 1 .. Len(items')
      /\ Len(items) \in Nat /\ Len(items') \in Nat /\ runs \in Nat
  BY DriverAssumption DEF TypeOK
<1>2. 0 .. runs \subseteq 0 .. runs'
  BY <1>1
<1>3. ASSUME NEW n \in Nat, NEW r \in 0 .. runs, Extends(items, items', n, r)
      PROVE  \A i \in DOMAIN items' : items'[i].by \in 0 .. runs'
  <2>1. \A i \in 1 .. Len(items') : i \in 1 .. Len(items) \/ i \in Len(items) + 1 .. Len(items) + n
    BY <1>1, <1>3 DEF Extends
  <2>2. QED BY <1>1, <1>2, <1>3, <2>1 DEF Extends
<1>4. CASE items' = items
  BY <1>2, <1>4
<1>5. ASSUME NEW r \in 0 .. runs, NEW list \in Seq(Item), Adds(r, list)
      PROVE  \A i \in DOMAIN items' : items'[i].by \in 0 .. runs'
  <2> DEFINE n == Len(list)
  <2>1. n \in Nat /\ Extends(items, items', n, r)
    BY <1>5, AddedBy
  <2> HIDE DEF n
  <2>2. QED BY <1>3, <2>1
<1>6. ASSUME NEW r \in 0 .. runs, NEW item \in Item, NEW o \in Nat, Moves(r, item, o)
      PROVE  \A i \in DOMAIN items' : items'[i].by \in 0 .. runs'
  <2> DEFINE n == 1
  <2>1. n \in Nat /\ Extends(items, items', n, r)
    BY <1>6, MovedBy
  <2> HIDE DEF n
  <2>2. QED BY <1>3, <2>1
<1>7. QED BY <1>4, <1>5, <1>6 DEF TableStep

LEMMA RunNumbersStep ==
    ASSUME TypeOK, TypeOK', TableStep, RunNumbers, Next
    PROVE  RunNumbers'
<1>1. ArgTypes /\ runs \in Nat
  BY Groups, DriverAssumption DEF ArgTypes
<1>2. PICK p \in Process : StepOf(p)
  BY DEF Next, StepOf
<1>3. CASE \E yields \in Source, dry \in BOOLEAN : Start(p, yields, dry)
  <2>1. runs' = runs + 1 /\ run' = [run EXCEPT ![p] = runs + 1]
    BY <1>3 DEF Start
  <2>2. \A q \in Process : run[q] \in 0 .. runs
    BY <1>1 DEF ArgTypes
  <2>3. \A q, w \in Process : run'[q] = run'[w] => run'[q] = 0 \/ q = w
    <3>1. \A q \in Process : run'[q] = IF q = p THEN runs + 1 ELSE run[q]
      BY <1>1, <2>1 DEF ArgTypes
    <3>2. QED BY <1>1, <2>2, <3>1 DEF RunNumbers
  <2>4. \A i \in DOMAIN items' : items'[i].by \in 0 .. runs'
    BY <1>1, <2>1, NewBy DEF RunNumbers
  <2>5. QED BY <2>3, <2>4 DEF RunNumbers
<1>4. CASE Step(p) \/ Fail(p) \/ Crash(p)
  <2>1. runs' = runs /\ run' = run
    BY <1>4, ArgsKept DEF args
  <2>2. \A i \in DOMAIN items' : items'[i].by \in 0 .. runs'
    BY <1>1, <2>1, NewBy DEF RunNumbers
  <2>3. QED BY <2>1, <2>2 DEF RunNumbers
<1>5. QED BY <1>2, <1>3, <1>4 DEF StepOf

(***************************************************************************)
(* The accounts of a run.                                                   *)
(***************************************************************************)
Total(p) == report[p].ingested + report[p].skipped_existing + report[p].failed

\* The items whose place in the report is not settled yet.
Unseen(p) ==
    IF pc[p] = "probe" THEN Len(candidates(p))
    ELSE IF pc[p] = "filter" THEN Len(candidates(p)) + 1 - pos[p]
    ELSE IF pc[p] = "replace" THEN Len(candidates(p)) + 2 - pos[p]
    ELSE 0

Left(p) == Len(fresh[p]) + Len(batch[p]) + Unseen(p)

Balanced(p) ==
    /\ run[p] # 0 /\ Total(p) + Left(p) = Len(source[p])
    /\ Tally(run[p]) = IF dry_run[p] THEN 0 ELSE report[p].ingested

CountedOf(p) == Running(p) \/ outcome[p] = "ok" => Balanced(p)

\* A step moves a, b and c items into the three counters of the report.
Reports(p, a, b, c) ==
    /\ report'[p].ingested = report[p].ingested + a
    /\ report'[p].skipped_existing = report[p].skipped_existing + b
    /\ report'[p].failed = report[p].failed + c

LEMMA Sums ==
    /\ \A a, b, c \in Nat : a + b + c \in Nat
    /\ \A a, b \in Nat, c \in Int : a + b + c \in Int
  OBVIOUS

LEMMA LeftTypes ==
    ASSUME TypeOK, NEW p \in Process
    PROVE  /\ Len(fresh[p]) \in Nat /\ Len(batch[p]) \in Nat /\ Len(candidates(p)) \in Nat
           /\ pos[p] \in Nat /\ Unseen(p) \in Int /\ Left(p) \in Int /\ Total(p) \in Nat
           /\ report[p].ingested \in Nat /\ report[p].skipped_existing \in Nat
           /\ report[p].failed \in Nat /\ Len(source[p]) \in Nat
<1>1. ArgTypes /\ LocalTypes /\ ResultTypes
  BY Groups
<1>2. /\ fresh[p] \in Seq(Item) /\ batch[p] \in Seq(Item) /\ pos[p] \in Nat
      /\ report[p] \in Report
  BY <1>1 DEF LocalTypes, ResultTypes
<1>3. Len(candidates(p)) \in Nat /\ source[p] \in Seq(Item \cup {Unreadable})
  BY <1>1, Candidates
<1>4. Unseen(p) \in Int
  BY <1>2, <1>3 DEF Unseen
<1>5. Len(fresh[p]) \in Nat /\ Len(batch[p]) \in Nat /\ Len(source[p]) \in Nat
  BY <1>2, <1>3
<1>6. /\ report[p].ingested \in Nat /\ report[p].skipped_existing \in Nat
      /\ report[p].failed \in Nat
  BY <1>2 DEF Report
<1>7. Left(p) \in Int
  BY <1>4, <1>5, Sums DEF Left
<1>8. Total(p) \in Nat
  BY <1>6, Sums DEF Total
<1>9. QED BY <1>2, <1>3, <1>4, <1>5, <1>6, <1>7, <1>8

LEMMA Counts ==
    ASSUME TypeOK, NEW p \in Process, NEW n \in Nat
    PROVE  /\ Count(p, "ingested", n) => Reports(p, n, 0, 0)
           /\ Count(p, "skipped_existing", n) => Reports(p, 0, n, 0)
           /\ Count(p, "failed", n) => Reports(p, 0, 0, n)
           /\ report' = report => Reports(p, 0, 0, 0)
<1>1. report[p] \in Report
  BY DEF TypeOK
<1>2. /\ report[p].ingested \in Nat /\ report[p].skipped_existing \in Nat
      /\ report[p].failed \in Nat
  BY LeftTypes
<1>3. ASSUME NEW f, Count(p, f, n) PROVE report'[p] = [report[p] EXCEPT ![f] = report[p][f] + n]
  BY <1>3 DEF Count, TypeOK
<1> DEFINE r == report[p]
           s == report'[p]
<1>4. r \in Report /\ r.ingested \in Nat /\ r.skipped_existing \in Nat /\ r.failed \in Nat
  BY <1>1, <1>2
<1>5. /\ Count(p, "ingested", n) => s = [r EXCEPT !.ingested = r.ingested + n]
      /\ Count(p, "skipped_existing", n) => s = [r EXCEPT !.skipped_existing = r.skipped_existing + n]
      /\ Count(p, "failed", n) => s = [r EXCEPT !.failed = r.failed + n]
      /\ report' = report => s = r
  BY <1>3
<1>6. \A a, b, c : Reports(p, a, b, c) <=>
         /\ s.ingested = r.ingested + a /\ s.skipped_existing = r.skipped_existing + b
         /\ s.failed = r.failed + c
  BY DEF Reports
<1> HIDE DEF r, s
<1>7. Count(p, "ingested", n) => Reports(p, n, 0, 0)
  BY <1>4, <1>5, <1>6 DEF Report
<1>8. Count(p, "skipped_existing", n) => Reports(p, 0, n, 0)
  BY <1>4, <1>5, <1>6 DEF Report
<1>9. Count(p, "failed", n) => Reports(p, 0, 0, n)
  BY <1>4, <1>5, <1>6 DEF Report
<1>10. report' = report => Reports(p, 0, 0, 0)
  BY <1>4, <1>5, <1>6
<1>11. QED BY <1>7, <1>8, <1>9, <1>10

LEMMA Balances ==
    ASSUME TypeOK, TypeOK', NEW p \in Process, SameArgs(p), Balanced(p),
           NEW a \in Nat, NEW b \in Nat, NEW c \in Nat, Reports(p, a, b, c),
           Left(p)' + a + b + c = Left(p),
           Tally(run[p])' = Tally(run[p]) + (IF dry_run[p] THEN 0 ELSE a)
    PROVE  Balanced(p)'
<1>1. /\ Total(p) \in Nat /\ Left(p) \in Int
      /\ report[p].ingested \in Nat /\ report[p].skipped_existing \in Nat
      /\ report[p].failed \in Nat /\ Tally(run[p]) \in Nat
  BY LeftTypes, Tallied
<1>2. Left(p)' \in Int
  <2>1. /\ Len(fresh'[p]) \in Nat /\ Len(batch'[p]) \in Nat /\ Len(candidates(p)') \in Nat
        /\ pos'[p] \in Nat
    <3>1. ArgTypes' /\ LocalTypes'
      BY DEF TypeOK, ArgTypes, LocalTypes
    <3>2. candidates(p)' = candidates(p)
      BY DEF SameArgs, candidates
    <3>3. QED BY <3>1, <3>2, LeftTypes DEF LocalTypes
  <2>2. Unseen(p)' \in Int
    BY <2>1 DEF Unseen
  <2>3. Left(p)' = Len(fresh'[p]) + Len(batch'[p]) + Unseen(p)'
    BY DEF Left
  <2>4. QED BY <2>1, <2>2, <2>3, Sums
<1>3. Total(p)' = Total(p) + a + b + c
  BY <1>1 DEF Total, Reports
<1>4. Total(p)' + Left(p)' = Total(p) + Left(p)
  BY <1>1, <1>2, <1>3
<1>5. Tally(run[p])' = IF dry_run[p] THEN 0 ELSE report'[p].ingested
  BY <1>1 DEF Balanced, Reports
<1>6. QED BY <1>4, <1>5 DEF Balanced, SameArgs

\* The ways a step can leave the table, for the run of its process.
LEMMA TallyStays ==
    ASSUME NEW p \in Process, items' = items, run'[p] = run[p]
    PROVE  Tally(run[p])' = Tally(run[p])
  BY DEF Tally

LEMMA TallyInserts ==
    ASSUME TypeOK, TypeOK', NEW p \in Process, NEW list \in Seq(Item), Insert(p, list),
           run'[p] = run[p]
    PROVE  Tally(run[p])' = Tally(run[p]) + Len(list)
<1>1. Adds(run[p], list)
  BY InsertAdds
<1>2. Tally(run[p])' = Tally(run[p]) + (IF run[p] = run[p] THEN Len(list) ELSE 0)
  BY <1>1, TallyAdds
<1>3. QED BY <1>2

\* A run that is over has no accounts to keep unless it returned Ok.
LEMMA NotOk ==
    ASSUME TypeOK, NEW p \in Process, NEW r, r # "ok", Return(p, r)
    PROVE  CountedOf(p)'
<1>1. ResultTypes
  BY Groups
<1>2. pc'[p] = "idle" /\ outcome'[p] = r
  BY <1>1 DEF Return, Goto, ResultTypes
<1>3. QED BY <1>2 DEF CountedOf, Running

LEMMA StartCounts ==
    ASSUME TypeOK, TypeOK', RunNumbers, NEW p \in Process, Placed(p),
           NEW yields \in Source, NEW dry \in BOOLEAN, Start(p, yields, dry)
    PROVE  CountedOf(p)'
<1>1. ArgTypes /\ LocalTypes /\ ResultTypes /\ runs \in Nat
  BY Groups, DriverAssumption DEF ArgTypes
<1> DEFINE unread == {i \in DOMAIN yields : yields[i] = Unreadable}
<1>2. /\ pc[p] = "idle" /\ pc'[p] = "probe" /\ run'[p] = runs + 1 /\ source'[p] = yields
      /\ UNCHANGED <<items, locals>>
  BY <1>1 DEF Start, At, Goto, ResultTypes, ArgTypes
<1>3. report'[p] = [NoReport EXCEPT !.failed = Cardinality(unread)]
  BY <1>1, SMTT(30) DEF Start, ResultTypes
<1>4. yields \in Seq(Item \cup {Unreadable}) /\ Cardinality(unread) \in Nat
  BY Unread, ZenonT(40)
<1>5. Len(Only(yields, Item)) + Cardinality(unread) = Len(yields)
  <2>1. Len(Only(yields, Item)) + Cardinality({n \in 1 .. Len(yields) : yields[n] \notin Item}) = Len(yields)
    BY <1>4, OnlyCounts
  <2>2. {n \in 1 .. Len(yields) : yields[n] \notin Item} = unread
    BY <1>4, DriverAssumption
  <2>3. QED BY <2>1, <2>2, ZenonT(40)
<1>6. candidates(p)' = Only(yields, Item)
  BY <1>2 DEF candidates
<1>7. Left(p)' = Len(Only(yields, Item))
  <2>1. Len(fresh'[p]) = 0 /\ Len(batch'[p]) = 0
    BY <1>2 DEF Placed, locals
  <2>2. Unseen(p)' = Len(Only(yields, Item))
    BY <1>2, <1>6 DEF Unseen
  <2>3. Len(Only(yields, Item)) \in Nat
    <3>1. Only(yields, Item) \in Seq((Item \cup {Unreadable}) \cap Item)
      BY <1>4, OnlyKeeps
    <3>2. QED BY <3>1
  <2>4. QED BY <2>1, <2>2, <2>3 DEF Left
<1>8. Total(p)' = Cardinality(unread) /\ report'[p].ingested = 0
  <2> HIDE DEF unread
  <2>1. /\ report'[p].ingested = 0 /\ report'[p].skipped_existing = 0
        /\ report'[p].failed = Cardinality(unread)
    BY <1>3 DEF NoReport
  <2>2. QED BY <1>4, <2>1 DEF Total
<1>9. Tally(run[p])' = 0
  <2>1. {i \in DOMAIN items : items[i].by = runs + 1} = {}
    BY <1>1 DEF RunNumbers
  <2>2. Tally(run[p])' = Cardinality({i \in DOMAIN items : items[i].by = runs + 1})
    BY <1>2 DEF Tally
  <2>3. QED BY <2>1, <2>2, FS_EmptySet
<1>10. Total(p)' + Left(p)' = Len(source'[p])
  <2>1. Len(Only(yields, Item)) \in Nat
    <3>1. Only(yields, Item) \in Seq((Item \cup {Unreadable}) \cap Item)
      BY <1>4, OnlyKeeps
    <3>2. QED BY <3>1
  <2> HIDE DEF unread
  <2>2. QED BY <1>2, <1>4, <1>5, <1>7, <1>8, <2>1
<1>11. run'[p] # 0
  BY <1>1, <1>2
<1>12. Balanced(p)'
  BY <1>8, <1>9, <1>10, <1>11 DEF Balanced
<1>13. QED BY <1>12 DEF CountedOf

\* Left, for a step that moves pc and pos as given.
LEMMA LeftNext ==
    ASSUME NEW p \in Process, candidates(p)' = candidates(p)
    PROVE  Left(p)' = Len(fresh'[p]) + Len(batch'[p]) +
              (IF pc'[p] = "probe" THEN Len(candidates(p))
               ELSE IF pc'[p] = "filter" THEN Len(candidates(p)) + 1 - pos'[p]
               ELSE IF pc'[p] = "replace" THEN Len(candidates(p)) + 2 - pos'[p]
               ELSE 0)
  BY DEF Left, Unseen

LEMMA ProbeCounts ==
    ASSUME TypeOK, TypeOK', NEW p \in Process, Placed(p), Balanced(p), SameArgs(p),
           Probe(p, "probe", candidates(p), "filter") \/ Probe(p, "reprobe", batch[p], "retry")
    PROVE  Balanced(p)'
<1>1. LocalTypes /\ ResultTypes
  BY Groups
<1>2. /\ items' = items /\ report' = report /\ fresh'[p] = fresh[p] /\ batch'[p] = batch[p]
      /\ candidates(p)' = candidates(p)
  BY DEF Probe, SameArgs, candidates
<1>3. \/ pc[p] = "probe" /\ pc'[p] = "probe"
      \/ pc[p] = "probe" /\ pc'[p] = "filter" /\ pos'[p] = 1
      \/ pc[p] = "reprobe" /\ pc'[p] \in {"reprobe", "retry"}
  BY <1>1 DEF Probe, At, Goto, ResultTypes, LocalTypes
<1>4. /\ Len(fresh[p]) \in Nat /\ Len(batch[p]) \in Nat /\ Len(candidates(p)) \in Nat
      /\ Left(p) \in Int
  BY LeftTypes
<1>5. Left(p)' = Left(p)
  <2> DEFINE f == Len(fresh[p])
             b == Len(batch[p])
             c == Len(candidates(p))
  <2>1. f \in Nat /\ b \in Nat /\ c \in Nat /\ c + 1 - 1 = c
    BY <1>4
  <2>2. \/ Left(p) = f + b + c /\ Left(p)' = f + b + c
        \/ Left(p) = f + b + c /\ Left(p)' = f + b + (c + 1 - 1)
        \/ Left(p) = f + b + 0 /\ Left(p)' = f + b + 0
    <3>1. CASE pc[p] = "probe" /\ pc'[p] = "probe"
      BY <1>2, <3>1 DEF Left, Unseen
    <3>2. CASE pc[p] = "probe" /\ pc'[p] = "filter" /\ pos'[p] = 1
      BY <1>2, <3>2 DEF Left, Unseen
    <3>3. CASE pc[p] = "reprobe" /\ pc'[p] \in {"reprobe", "retry"}
      BY <1>2, <3>3 DEF Left, Unseen
    <3>4. QED BY <1>3, <3>1, <3>2, <3>3
  <2> HIDE DEF f, b, c
  <2>3. QED BY <2>1, <2>2
<1>6. Reports(p, 0, 0, 0) /\ Tally(run[p])' = Tally(run[p])
  BY <1>2, Counts, TallyStays DEF SameArgs
<1>7. /\ Left(p)' + 0 + 0 + 0 = Left(p)
      /\ Tally(run[p])' = Tally(run[p]) + (IF dry_run[p] THEN 0 ELSE 0)
  BY <1>4, <1>5, <1>6, Tallied
<1>8. QED BY <1>6, <1>7, Balances

LEMMA FilterCounts ==
    ASSUME TypeOK, TypeOK', NEW p \in Process, Placed(p), Balanced(p), SameArgs(p), Filter(p)
    PROVE  Balanced(p)'
<1>1. ArgTypes /\ LocalTypes /\ ResultTypes
  BY Groups
<1>2. /\ items' = items /\ batch'[p] = batch[p] /\ candidates(p)' = candidates(p)
      /\ pc[p] = "filter" /\ pos'[p] = pos[p] + 1
  BY <1>1 DEF Filter, At, SameArgs, candidates, LocalTypes
<1>3. /\ Len(fresh[p]) \in Nat /\ Len(batch[p]) \in Nat /\ Len(candidates(p)) \in Nat
      /\ Left(p) \in Int /\ pos[p] \in Nat /\ Tally(run[p]) \in Nat
  BY LeftTypes, Tallied
<1>4. Tally(run[p])' = Tally(run[p])
  BY <1>2, TallyStays DEF SameArgs
<1>5. Left(p) = Len(fresh[p]) + Len(batch[p]) + (Len(candidates(p)) + 1 - pos[p])
  BY <1>2 DEF Left, Unseen
<1>6. /\ pc'[p] = "filter" =>
            Left(p)' = Len(fresh'[p]) + Len(batch[p]) + (Len(candidates(p)) + 1 - (pos[p] + 1))
      /\ pc'[p] = "replace" =>
            Left(p)' = Len(fresh'[p]) + Len(batch[p]) + (Len(candidates(p)) + 2 - (pos[p] + 1))
  BY <1>2, LeftNext
<1> DEFINE f == Len(fresh[p])
           g == Len(fresh'[p])
           b == Len(batch[p])
           c == Len(candidates(p))
           x == pos[p]
           m == Left(p)'
<1>7. f \in Nat /\ b \in Nat /\ c \in Nat /\ x \in Nat
  BY <1>3
\* What the round does with its item.
<1>8. \/ Len(fresh'[p]) = Len(fresh[p]) + 1 /\ pc'[p] = "filter" /\ report' = report
      \/ fresh'[p] = fresh[p] /\ pc'[p] = "filter" /\ Count(p, "skipped_existing", 1)
      \/ fresh'[p] = fresh[p] /\ pc'[p] = "replace" /\ report' = report
      \/ /\ fresh'[p] = fresh[p] /\ pc'[p] = "filter"
         /\ dry_run[p] /\ Count(p, "ingested", 1)
  <2> DEFINE item == candidates(p)[pos[p]]
  <2>1. \/ fresh' = [fresh EXCEPT ![p] = Append(fresh[p], item)] /\ pc' = pc /\ report' = report
        \/ Count(p, "skipped_existing", 1) /\ pc' = pc /\ fresh' = fresh
        \/ fresh' = fresh /\ Goto(p, "replace") /\ report' = report
        \/ fresh' = fresh /\ pc' = pc /\ dry_run[p] /\ Count(p, "ingested", 1)
    BY DEF Filter
  <2>2. item \in Item
    <3>1. pos[p] \in 1 .. Len(candidates(p))
      BY <1>1, <1>3 DEF Filter, LocalTypes
    <3>2. QED BY <1>1, <3>1, Candidates
  <2> HIDE DEF item
  <2>3. fresh' = [fresh EXCEPT ![p] = Append(fresh[p], item)] => Len(fresh'[p]) = Len(fresh[p]) + 1
    BY <1>1, <2>2 DEF LocalTypes
  <2>4. Goto(p, "replace") => pc'[p] = "replace"
    BY <1>1 DEF Goto, ResultTypes
  <2>5. QED BY <1>2, <2>1, <2>3, <2>4
<1>9. ASSUME NEW a \in Nat, NEW e \in Nat, Reports(p, a, e, 0), Left(p)' + a + e + 0 = Left(p),
             a # 0 => dry_run[p]
      PROVE  Balanced(p)'
  BY <1>3, <1>4, <1>9, Balances
<1>10. CASE Len(fresh'[p]) = Len(fresh[p]) + 1 /\ pc'[p] = "filter" /\ report' = report
  <2>1. Reports(p, 0, 0, 0)
    BY <1>10, Counts
  <2>2. Left(p)' + 0 + 0 + 0 = Left(p)
    <3>1. g = f + 1 /\ m = g + b + (c + 1 - (x + 1))
      BY <1>6, <1>10
    <3> HIDE DEF f, g, b, c, x, m
    <3>2. m + 0 + 0 + 0 = f + b + (c + 1 - x)
      BY <1>7, <3>1
    <3>3. QED BY <1>5, <3>2 DEF f, b, c, x, m
  <2>3. QED BY <1>9, <2>2, <2>1
<1>11. CASE fresh'[p] = fresh[p] /\ pc'[p] = "filter" /\ Count(p, "skipped_existing", 1)
  <2>1. Reports(p, 0, 1, 0)
    BY <1>11, Counts
  <2>2. Left(p)' + 0 + 1 + 0 = Left(p)
    <3>1. g = f /\ m = g + b + (c + 1 - (x + 1))
      BY <1>6, <1>11
    <3> HIDE DEF f, g, b, c, x, m
    <3>2. m + 0 + 1 + 0 = f + b + (c + 1 - x)
      BY <1>7, <3>1
    <3>3. QED BY <1>5, <3>2 DEF f, b, c, x, m
  <2>3. QED BY <1>9, <2>2, <2>1
<1>12. CASE fresh'[p] = fresh[p] /\ pc'[p] = "replace" /\ report' = report
  <2>1. Reports(p, 0, 0, 0)
    BY <1>12, Counts
  <2>2. Left(p)' + 0 + 0 + 0 = Left(p)
    <3>1. g = f /\ m = g + b + (c + 2 - (x + 1))
      BY <1>6, <1>12
    <3> HIDE DEF f, g, b, c, x, m
    <3>2. m + 0 + 0 + 0 = f + b + (c + 1 - x)
      BY <1>7, <3>1
    <3>3. QED BY <1>5, <3>2 DEF f, b, c, x, m
  <2>3. QED BY <1>9, <2>2, <2>1
<1>13. CASE /\ fresh'[p] = fresh[p] /\ pc'[p] = "filter"
            /\ dry_run[p] /\ Count(p, "ingested", 1)
  <2>1. Reports(p, 1, 0, 0)
    BY <1>13, Counts
  <2>2. Left(p)' + 1 + 0 + 0 = Left(p)
    <3>1. g = f /\ m = g + b + (c + 1 - (x + 1))
      BY <1>6, <1>13
    <3> HIDE DEF f, g, b, c, x, m
    <3>2. m + 1 + 0 + 0 = f + b + (c + 1 - x)
      BY <1>7, <3>1
    <3>3. QED BY <1>5, <3>2 DEF f, b, c, x, m
  <2>3. QED BY <1>9, <2>2, <1>13, <2>1
<1>14. QED BY <1>8, <1>10, <1>11, <1>12, <1>13

LEMMA LeftWriting ==
    ASSUME TypeOK, TypeOK', NEW p \in Process
    PROVE  /\ pc[p] \notin {"probe", "filter", "replace"} =>
                 Left(p) = Len(fresh[p]) + Len(batch[p])
           /\ pc'[p] \notin {"probe", "filter", "replace"} =>
                 Left(p)' = Len(fresh'[p]) + Len(batch'[p])
<1>1. \A f, b \in Nat : f + b + 0 = f + b
  OBVIOUS
<1>2. /\ Len(fresh[p]) \in Nat /\ Len(batch[p]) \in Nat
      /\ Len(fresh'[p]) \in Nat /\ Len(batch'[p]) \in Nat
  BY SMTT(30) DEF TypeOK
<1>3. ASSUME pc[p] \notin {"probe", "filter", "replace"}
      PROVE  Left(p) = Len(fresh[p]) + Len(batch[p]) + 0
  BY <1>3 DEF Left, Unseen
<1>4. ASSUME pc'[p] \notin {"probe", "filter", "replace"}
      PROVE  Left(p)' = Len(fresh'[p]) + Len(batch'[p]) + 0
  BY <1>4 DEF Left, Unseen
<1>5. QED BY <1>1, <1>2, <1>3, <1>4

LEMMA ReplaceCounts ==
    ASSUME TypeOK, TypeOK', NEW p \in Process, Placed(p), Balanced(p), SameArgs(p), Replace(p)
    PROVE  CountedOf(p)'
<1>1. ResultTypes
  BY Groups
<1> DEFINE item == candidates(p)[pos[p] - 1]
           done == item.valid /\ Holders(item.key) \subseteq {old[p]}
<1>2. CASE ~done
  BY <1>2, NotOk DEF Replace
<1>3. CASE done
  <2>1. /\ pc[p] = "replace" /\ Goto(p, "filter") /\ Count(p, "ingested", 1) /\ UNCHANGED locals
    BY <1>3 DEF Replace, At
  <2>2. /\ pc'[p] = "filter" /\ pos'[p] = pos[p] /\ fresh'[p] = fresh[p] /\ batch'[p] = batch[p]
        /\ candidates(p)' = candidates(p)
    BY <1>1, <2>1 DEF Goto, ResultTypes, locals, SameArgs, candidates
  <2>3. Tally(run[p])' = Tally(run[p]) + 1
    <3>1. Moves(run[p], item, old[p])
      BY <1>3, Replaced
    <3> HIDE DEF item, done
    <3>2. Tally(run[p])' = Tally(run[p]) + (IF run[p] = run[p] THEN 1 ELSE 0)
      BY <3>1, TallyMoves DEF SameArgs
    <3>3. QED BY <3>2
  <2>4. ~dry_run[p]
    BY <2>1 DEF Placed
  <2>5. Reports(p, 1, 0, 0)
    BY <2>1, Counts
  <2>6. Left(p)' + 1 + 0 + 0 = Left(p)
    <3> DEFINE f == Len(fresh[p])
               b == Len(batch[p])
               c == Len(candidates(p))
               x == pos[p]
    <3>1. f \in Nat /\ b \in Nat /\ c \in Nat /\ x \in Nat
      BY LeftTypes
    <3>2. Left(p)' = f + b + (c + 1 - x) /\ Left(p) = f + b + (c + 2 - x)
      BY <2>1, <2>2 DEF Left, Unseen
    <3> HIDE DEF f, b, c, x
    <3>3. QED BY <3>1, <3>2
  <2> HIDE DEF item, done
  <2>7. Balanced(p)'
    BY <2>3, <2>4, <2>5, <2>6, Balances
  <2>8. QED BY <2>7 DEF CountedOf
<1>4. QED BY <1>2, <1>3

LEMMA FilteredCounts ==
    ASSUME TypeOK, TypeOK', NEW p \in Process, Placed(p), Balanced(p), SameArgs(p), Filtered(p)
    PROVE  Balanced(p)'
<1>1. LocalTypes /\ ResultTypes
  BY Groups
<1>2. /\ pc[p] = "filter" /\ pos[p] > Len(candidates(p)) /\ items' = items
  BY DEF Filtered, At
<1>3. /\ Len(fresh[p]) \in Nat /\ Len(candidates(p)) \in Nat /\ pos[p] \in Nat
      /\ Tally(run[p]) \in Nat
  BY LeftTypes, Tallied
<1>4. Left(p) = Len(fresh[p])
  <2> DEFINE f == Len(fresh[p])
             c == Len(candidates(p))
             x == pos[p]
  <2>1. Left(p) = f + 0 + (c + 1 - x) /\ x <= c + 1 /\ x > c
    <3>1. batch[p] = << >> /\ pos[p] <= Len(candidates(p)) + 1
      BY <1>2 DEF Placed, Filtering
    <3>2. QED BY <1>2, <3>1 DEF Left, Unseen
  <2>2. f \in Nat /\ c \in Nat /\ x \in Nat
    BY <1>3
  <2> HIDE DEF f, c, x
  <2>3. Left(p) = f
    BY <2>1, <2>2
  <2>4. QED BY <2>3 DEF f
<1>5. Tally(run[p])' = Tally(run[p])
  BY <1>2, TallyStays DEF SameArgs
<1>6. CASE dry_run[p]
  <2>1. Count(p, "ingested", Len(fresh[p])) /\ Return(p, "ok")
    BY <1>6 DEF Filtered
  <2>2. pc'[p] = "idle" /\ fresh'[p] = << >> /\ batch'[p] = << >>
    BY <1>1, <2>1 DEF Return, Goto, LocalTypes, ResultTypes
  <2>3. Left(p)' = 0
    <3>1. Left(p)' = Len(fresh'[p]) + Len(batch'[p])
      BY <2>2, LeftWriting
    <3>2. Len(fresh'[p]) = 0 /\ Len(batch'[p]) = 0
      BY <2>2
    <3>3. QED BY <3>1, <3>2
  <2>4. Reports(p, Len(fresh[p]), 0, 0)
    BY <1>3, <2>1, Counts
  <2>5. Left(p)' + Len(fresh[p]) + 0 + 0 = Left(p)
    BY <1>3, <1>4, <2>3
  <2>6. Tally(run[p])' = Tally(run[p]) + (IF dry_run[p] THEN 0 ELSE Len(fresh[p]))
    BY <1>3, <1>5, <1>6
  <2>7. QED BY <1>3, <2>4, <2>5, <2>6, Balances
<1>7. CASE ~dry_run[p]
  <2>1. Goto(p, "write") /\ UNCHANGED <<fresh, batch, report>>
    BY <1>7 DEF Filtered
  <2>2. pc'[p] = "write" /\ fresh'[p] = fresh[p] /\ batch'[p] = << >>
    BY <1>1, <1>2, <2>1 DEF Goto, ResultTypes, Placed
  <2>3. Left(p)' = Len(fresh[p])
    <3>1. Left(p)' = Len(fresh'[p]) + Len(batch'[p])
      BY <2>2, LeftWriting
    <3>2. fresh'[p] = fresh[p] /\ Len(batch'[p]) = 0
      BY <2>2
    <3>3. QED BY <1>3, <3>1, <3>2
  <2>4. Reports(p, 0, 0, 0)
    BY <2>1, Counts
  <2>5. Left(p)' + 0 + 0 + 0 = Left(p)
    BY <1>3, <1>4, <2>3
  <2>6. Tally(run[p])' = Tally(run[p]) + (IF dry_run[p] THEN 0 ELSE 0)
    BY <1>3, <1>5
  <2>7. QED BY <2>4, <2>5, <2>6, Balances
<1>8. QED BY <1>6, <1>7

LEMMA WriteCounts ==
    ASSUME TypeOK, TypeOK', NEW p \in Process, Placed(p), Balanced(p), SameArgs(p), Write(p)
    PROVE  Balanced(p)'
<1>1. LocalTypes /\ ResultTypes
  BY Groups
<1> DEFINE next == Taken(p)
           n == Len(next)
           rest == Drained(p)
<1>2. /\ next \in Seq(Item) /\ n \in Nat /\ Len(rest) \in Nat
      /\ Len(rest) + n = Len(fresh[p]) /\ Len(fresh[p]) \in Nat
  <2> DEFINE b == BatchSize(p)
             l == Len(fresh[p])
  <2>1. b \in 0 .. l /\ l \in Nat /\ n = b /\ Len(rest) = l - b /\ next \in Seq(Item)
    BY <1>1, Batches
  <2> HIDE DEF b, l, next, rest
  <2>2. Len(rest) + n = l /\ n \in Nat /\ Len(rest) \in Nat
    BY <2>1
  <2>3. QED BY <2>1, <2>2 DEF l
<1>3. pc[p] = "write" /\ fresh'[p] = rest /\ batch[p] = << >> /\ ~dry_run[p]
  <2>1. pc[p] = "write"
    BY DEF Write, At
  <2>2. fresh'[p] = rest
    BY <1>1 DEF Write, LocalTypes
  <2>3. QED BY <2>1, <2>2 DEF Placed
<1>4. \/ pc'[p] \in {"each", "reprobe"} /\ batch'[p] = next /\ UNCHANGED <<items, report>>
      \/ pc' = pc /\ batch' = batch /\ Insert(p, next) /\ Count(p, "ingested", Len(next))
  BY <1>1 DEF Write, Goto, Taken, LocalTypes, ResultTypes
<1> HIDE DEF next, rest
<1>5. Left(p) = Len(fresh[p])
  <2>1. Left(p) = Len(fresh[p]) + Len(batch[p])
    BY <1>3, LeftWriting
  <2>2. Len(batch[p]) = 0
    BY <1>3
  <2>3. QED BY <1>2, <2>1, <2>2
<1>6. Left(p)' = Len(rest) + Len(batch'[p])
  <2>1. Left(p)' = Len(fresh'[p]) + Len(batch'[p])
    BY <1>3, <1>4, LeftWriting
  <2>2. QED BY <1>3, <2>1
<1>7. CASE pc'[p] \in {"each", "reprobe"} /\ batch'[p] = next /\ UNCHANGED <<items, report>>
  <2>1. Reports(p, 0, 0, 0) /\ Tally(run[p])' = Tally(run[p]) /\ Tally(run[p]) \in Nat
    BY <1>7, Counts, Tallied, TallyStays DEF SameArgs
  <2>2. Left(p)' = Len(rest) + n
    BY <1>6, <1>7
  <2>3. Left(p)' + 0 + 0 + 0 = Left(p)
    <3> HIDE DEF n
    <3>1. QED BY <1>2, <1>5, <2>2
  <2>4. Tally(run[p])' = Tally(run[p]) + (IF dry_run[p] THEN 0 ELSE 0)
    BY <2>1
  <2>5. QED BY <2>1, <2>3, <2>4, Balances
<1>8. CASE pc' = pc /\ batch' = batch /\ Insert(p, next) /\ Count(p, "ingested", Len(next))
  <2>1. Tally(run[p])' = Tally(run[p]) + Len(next)
    BY <1>2, <1>8, TallyInserts DEF SameArgs
  <2>2. Reports(p, n, 0, 0)
    BY <1>2, <1>8, Counts
  <2>3. Left(p)' = Len(rest)
    <3>1. Len(batch'[p]) = 0
      BY <1>3, <1>8
    <3>2. QED BY <1>2, <1>6, <3>1
  <2>4. Left(p)' + n + 0 + 0 = Left(p)
    <3> HIDE DEF n
    <3>1. QED BY <1>2, <1>5, <2>3
  <2>5. Tally(run[p])' = Tally(run[p]) + (IF dry_run[p] THEN 0 ELSE n)
    BY <1>3, <2>1
  <2> HIDE DEF n
  <2>6. QED BY <1>2, <2>2, <2>4, <2>5, Balances
<1>9. QED BY <1>4, <1>7, <1>8

LEMMA RetryCounts ==
    ASSUME TypeOK, TypeOK', NEW p \in Process, Placed(p), Balanced(p), SameArgs(p), Retry(p)
    PROVE  CountedOf(p)'
<1>1. LocalTypes /\ ResultTypes
  BY Groups
<1> DEFINE retry == Retained(p)
           n == Len(retry)
           k == Len(batch[p])
<1>2. CASE Conflict(retry)
  BY <1>2, NotOk DEF Retry
<1>3. CASE ~Conflict(retry)
  <2>1. /\ pc[p] = "retry" /\ Insert(p, retry) /\ Goto(p, "write")
        /\ batch' = [batch EXCEPT ![p] = << >>] /\ fresh' = fresh
        /\ report' = [report EXCEPT
              ![p].skipped_existing = @ + k - n, ![p].ingested = @ + n]
    BY <1>3 DEF Retry, At
  <2>2. retry \in Seq(Item) /\ n \in Nat /\ k \in Nat /\ n <= k
    BY <1>1, RetainedTypes
  <2>3. pc'[p] = "write" /\ batch'[p] = << >> /\ fresh'[p] = fresh[p] /\ ~dry_run[p]
    BY <1>1, <2>1 DEF Goto, Placed, LocalTypes, ResultTypes
  <2>4. Tally(run[p])' = Tally(run[p]) + n
    BY <2>1, <2>2, TallyInserts DEF SameArgs
  <2>5. /\ report[p].ingested \in Nat /\ report[p].skipped_existing \in Nat
        /\ report[p].failed \in Nat /\ Len(fresh[p]) \in Nat
    BY LeftTypes
  <2> HIDE DEF retry, n, k
  <2>6. k - n \in Nat
    BY <2>2
  <2>7. Reports(p, n, k - n, 0)
    <3> DEFINE r == report[p]
               s == report'[p]
    <3>1. r \in Report /\ s = [r EXCEPT !.skipped_existing = r.skipped_existing + k - n,
                                        !.ingested = r.ingested + n]
      BY <1>1, <2>1 DEF ResultTypes
    <3>2. /\ r.ingested \in Nat /\ r.skipped_existing \in Nat /\ r.failed \in Nat
      BY <2>5
    <3>3. r.skipped_existing + k - n = r.skipped_existing + (k - n)
      <4> DEFINE x == r.skipped_existing
      <4>1. x \in Nat
        BY <3>2
      <4> HIDE DEF x, r
      <4>2. x + k - n = x + (k - n)
        BY <2>2, <4>1
      <4>3. QED BY <4>2 DEF x
    <3> HIDE DEF r, s
    <3>4. /\ s.ingested = r.ingested + n /\ s.skipped_existing = r.skipped_existing + k - n
          /\ s.failed = r.failed
      BY <3>1 DEF Report
    <3>5. r.failed = r.failed + 0
      BY <3>2
    <3>6. QED BY <3>3, <3>4, <3>5 DEF Reports, r, s
  <2>8. Left(p)' + n + (k - n) + 0 = Left(p)
    <3> DEFINE f == Len(fresh[p])
    <3>1. Left(p) = f + k
      BY <2>1, LeftWriting DEF k
    <3>2. Left(p)' = f + Len(batch'[p])
      BY <2>3, LeftWriting
    <3>3. Len(batch'[p]) = 0 /\ f \in Nat
      BY <2>3, <2>5
    <3> HIDE DEF f
    <3>4. QED BY <2>2, <3>1, <3>2, <3>3
  <2>9. Tally(run[p])' = Tally(run[p]) + (IF dry_run[p] THEN 0 ELSE n)
    BY <2>3, <2>4
  <2>10. Balanced(p)'
    <3> DEFINE d == k - n
    <3>1. d \in Nat /\ Reports(p, n, d, 0) /\ Left(p)' + n + d + 0 = Left(p)
      BY <2>6, <2>7, <2>8
    <3> HIDE DEF d
    <3>2. QED BY <2>2, <2>9, <3>1, Balances
  <2>11. QED BY <2>10 DEF CountedOf
<1>4. QED BY <1>2, <1>3

LEMMA EachCounts ==
    ASSUME TypeOK, TypeOK', NEW p \in Process, Placed(p), Balanced(p), SameArgs(p), Each(p)
    PROVE  CountedOf(p)'
<1>1. LocalTypes /\ ResultTypes
  BY Groups
<1>2. pc[p] = "each" /\ ~dry_run[p]
  BY EachWays DEF At, Placed
<1>3. /\ Len(fresh[p]) \in Nat /\ Len(batch[p]) \in Nat /\ Tally(run[p]) \in Nat
      /\ Left(p) = Len(fresh[p]) + Len(batch[p])
  BY <1>2, LeftTypes, LeftWriting, Tallied
<1>4. CASE EachRefused(p)
  BY <1>4, NotOk DEF EachRefused
<1>5. CASE EachEmpty(p)
  <2>1. /\ pc'[p] = "write" /\ fresh'[p] = fresh[p] /\ batch'[p] = batch[p]
        /\ items' = items /\ report' = report
    BY <1>1, <1>5 DEF EachEmpty, Goto, ResultTypes, locals
  <2>2. Reports(p, 0, 0, 0) /\ Tally(run[p])' = Tally(run[p])
    BY <2>1, Counts, TallyStays DEF SameArgs
  <2>3. Left(p)' = Len(fresh[p]) + Len(batch[p])
    BY <2>1, LeftWriting
  <2>4. Left(p)' + 0 + 0 + 0 = Left(p)
    BY <1>3, <2>3
  <2>5. Tally(run[p])' = Tally(run[p]) + (IF dry_run[p] THEN 0 ELSE 0)
    BY <1>3, <2>2
  <2>6. QED BY <2>2, <2>4, <2>5, Balances DEF CountedOf
<1>6. CASE EachPopped(p)
  <2> DEFINE one == <<Head(batch[p])>>
             f == Len(fresh[p])
             b == Len(batch[p])
  <2>1. /\ pc'[p] = "each" /\ fresh'[p] = fresh[p] /\ batch'[p] = Tail(batch[p])
        /\ batch[p] # << >>
    BY <1>1, <1>2, <1>6 DEF EachPopped, LocalTypes
  <2>2. /\ b \in Nat /\ b > 0 /\ f \in Nat /\ Len(Tail(batch[p])) = b - 1
        /\ one \in Seq(Item) /\ Len(one) = 1
    BY <1>1, <1>3, <2>1, EachItem
  <2>3. Left(p) = f + b
    BY <1>3
  <2>4. Left(p)' = f + (b - 1)
    <3>1. Left(p)' = Len(fresh'[p]) + Len(batch'[p])
      BY <2>1, LeftWriting
    <3>2. QED BY <2>1, <2>2, <3>1
  <2> HIDE DEF f, b, one
  <2>5. Left(p)' + 1 = Left(p) /\ Left(p)' \in Nat /\ 1 \in Nat
    BY <2>2, <2>3, <2>4
  <2>6. CASE Count(p, "failed", 1) /\ items' = items
    <3>1. Reports(p, 0, 0, 1) /\ Tally(run[p])' = Tally(run[p])
      BY <2>6, Counts, TallyStays DEF SameArgs
    <3>2. Left(p)' + 0 + 0 + 1 = Left(p)
      BY <2>5
    <3>3. Tally(run[p])' = Tally(run[p]) + (IF dry_run[p] THEN 0 ELSE 0)
      BY <1>3, <3>1
    <3>4. QED BY <3>1, <3>2, <3>3, Balances DEF CountedOf
  <2>7. CASE Count(p, "ingested", 1) /\ Insert(p, one)
    <3>1. Reports(p, 1, 0, 0)
      BY <2>7, Counts
    <3>2. Tally(run[p])' = Tally(run[p]) + 1
      BY <2>2, <2>7, TallyInserts DEF SameArgs
    <3>3. Left(p)' + 1 + 0 + 0 = Left(p)
      BY <2>5
    <3>4. Tally(run[p])' = Tally(run[p]) + (IF dry_run[p] THEN 0 ELSE 1)
      BY <1>2, <3>2
    <3>5. QED BY <3>1, <3>3, <3>4, Balances DEF CountedOf
  <2>8. QED BY <1>6, <2>6, <2>7 DEF EachPopped, one
<1>7. QED BY <1>4, <1>5, <1>6, EachWays

LEMMA FinishCounts ==
    ASSUME TypeOK, TypeOK', NEW p \in Process, Placed(p), Balanced(p), SameArgs(p),
           Finish(p) \/ Hook(p)
    PROVE  Balanced(p)'
<1>1. LocalTypes /\ ResultTypes
  BY Groups
<1>2. items' = items /\ report' = report
  BY DEF Finish, Hook
<1>3. Reports(p, 0, 0, 0) /\ Tally(run[p])' = Tally(run[p])
  BY <1>2, Counts, TallyStays DEF SameArgs
<1>4. Left(p) \in Int /\ Tally(run[p]) \in Nat
  BY LeftTypes, Tallied
<1>5. Left(p)' = Left(p)
  <2>1. CASE Hook(p)
    BY <2>1 DEF Hook, locals, Left, Unseen, SameArgs, candidates
  <2>2. CASE Finish(p)
    <3>1. pc[p] = "write" /\ fresh[p] = << >> /\ batch[p] = << >>
      BY <2>2 DEF Finish, At, Placed
    <3>2. pc'[p] = "idle" /\ fresh'[p] = << >> /\ batch'[p] = << >>
      BY <1>1, <2>2 DEF Finish, Return, Goto, LocalTypes, ResultTypes
    <3>3. /\ Left(p) = Len(fresh[p]) + Len(batch[p])
          /\ Left(p)' = Len(fresh'[p]) + Len(batch'[p])
      BY <3>1, <3>2, LeftWriting
    <3>4. fresh'[p] = fresh[p] /\ batch'[p] = batch[p]
      BY <3>1, <3>2
    <3>5. QED BY <3>3, <3>4
  <2>3. QED BY <2>1, <2>2
<1>6. Left(p)' + 0 + 0 + 0 = Left(p)
  BY <1>4, <1>5
<1>7. Tally(run[p])' = Tally(run[p]) + (IF dry_run[p] THEN 0 ELSE 0)
  BY <1>3, <1>4
<1>8. QED BY <1>3, <1>6, <1>7, Balances

Counted == \A p \in Process : CountedOf(p)

LEMMA StepCounts ==
    ASSUME TypeOK, TypeOK', RunNumbers, NEW p \in Process, Placed(p), StepOf(p), CountedOf(p)
    PROVE  CountedOf(p)'
<1>1. CASE \E yields \in Source, dry \in BOOLEAN : Start(p, yields, dry)
  BY <1>1, StartCounts
<1>2. CASE Fail(p) \/ Crash(p)
  BY <1>2, NotOk DEF Fail, Crash
<1>3. CASE Step(p)
  <2>1. SameArgs(p)
    BY <1>3, ArgsKept DEF args, SameArgs
  <2>2. CASE Hook(p)
    <3>1. Running(p)' = Running(p) /\ outcome'[p] = outcome[p]
      BY <2>2, SMTT(30) DEF Hook, Running
    <3>2. QED BY <2>1, <2>2, <3>1, FinishCounts, SMTT(30) DEF CountedOf
  <2>3. CASE ~Hook(p)
    <3>1. Running(p)
      <4>1. Each(p) => pc[p] = "each"
        BY EachWays DEF At
      <4>2. QED BY <1>3, <2>3, <4>1 DEF Step, Probe, Filter, Replace, Filtered, Write, Retry,
                     Finish, At, Running
    <3>2. Balanced(p)
      BY <3>1 DEF CountedOf
    <3>3. \/ Probe(p, "probe", candidates(p), "filter") \/ Filter(p) \/ Replace(p) \/ Filtered(p)
          \/ Write(p) \/ Probe(p, "reprobe", batch[p], "retry") \/ Retry(p) \/ Each(p)
          \/ Finish(p)
      BY <1>3, <2>3 DEF Step
    <3>4. Balanced(p)' \/ CountedOf(p)'
      BY <2>1, <3>2, <3>3, ProbeCounts, FilterCounts, ReplaceCounts, FilteredCounts, WriteCounts,
         RetryCounts, EachCounts, FinishCounts
    <3>5. QED BY <3>4, SMTT(30) DEF CountedOf
  <2>4. QED BY <2>2, <2>3
<1>4. QED BY <1>1, <1>2, <1>3 DEF StepOf

LEMMA OtherCounts ==
    ASSUME TypeOK, TypeOK', Stages, RunNumbers, NEW p \in Process, StepOf(p),
           NEW q \in Process, q # p, CountedOf(q)
    PROVE  CountedOf(q)'
<1>1. SameArgs(q) /\ SameLocals(q) /\ SameResults(q)
  BY OthersKept DEF Same
<1>2. candidates(q)' = candidates(q)
  BY <1>1 DEF candidates, SameArgs
<1>3. /\ Running(q)' = Running(q) /\ outcome'[q] = outcome[q]
      /\ Left(q)' = Left(q) /\ Total(q)' = Total(q)
  BY <1>1, <1>2 DEF Running, Left, Unseen, Total, SameLocals, SameResults
<1>4. TableStepBy(run[p])
  BY StepTable DEF Stages
<1>5. ASSUME run[q] # 0 PROVE Tally(run[q])' = Tally(run[q])
  <2>1. run[q] # run[p] /\ run'[q] = run[q] /\ Tally(run[q]) \in Nat
    BY <1>1, <1>5, Tallied DEF RunNumbers, SameArgs
  <2>2. CASE items' = items
    BY <2>1, <2>2, TallyStays
  <2>3. ASSUME NEW list \in Seq(Item), Adds(run[p], list) PROVE Tally(run[q])' = Tally(run[q])
    <3>1. Tally(run[q])' = Tally(run[q]) + (IF run[q] = run[p] THEN Len(list) ELSE 0)
      BY <2>1, <2>3, TallyAdds
    <3>2. QED BY <2>1, <3>1
  <2>4. ASSUME NEW item \in Item, NEW o \in Nat, Moves(run[p], item, o)
        PROVE  Tally(run[q])' = Tally(run[q])
    <3>1. Tally(run[q])' = Tally(run[q]) + (IF run[q] = run[p] THEN 1 ELSE 0)
      BY <2>1, <2>4, TallyMoves
    <3>2. QED BY <2>1, <3>1
  <2>5. QED BY <1>4, <2>2, <2>3, <2>4 DEF TableStepBy
<1>6. QED BY <1>1, <1>3, <1>5 DEF CountedOf, Balanced, SameArgs, SameResults

LEMMA AllCounted == Spec => [](RunNumbers /\ Counted)
<1>1. Init => RunNumbers /\ Counted
  <2> SUFFICES ASSUME Init PROVE RunNumbers /\ Counted
    OBVIOUS
  <2>1. RunNumbers
    <3>1. PICK stored \in Stored :
             items = [i \in DOMAIN stored |-> [key |-> stored[i].key, hash |-> stored[i].hash,
                                               supersedes |-> 0, by |-> 0]]
      BY DEF Init
    <3>2. \A i \in DOMAIN items : items[i].by = 0
      BY <3>1
    <3>3. QED BY <3>2 DEF Init, RunNumbers
  <2>2. Counted
    BY DEF Init, Counted, CountedOf, Running
  <2>3. QED BY <2>1, <2>2
<1>2. TypeOK /\ Stages /\ RunNumbers /\ Counted /\ [TableStep /\ TypeOK' /\ Next]_vars
         => (RunNumbers /\ Counted)'
  <2>1. RunNumbers /\ Counted /\ UNCHANGED vars => (RunNumbers /\ Counted)'
    BY ZenonT(40)
    DEF vars, args, locals, RunNumbers, Counted, CountedOf, Balanced, Running, Total, Left, Unseen,
           Tally, candidates
  <2>2. ASSUME TypeOK, Stages, RunNumbers, Counted, TableStep, TypeOK', Next
        PROVE  RunNumbers' /\ Counted'
    <3>1. RunNumbers'
      BY <2>2, RunNumbersStep
    <3>2. PICK p \in Process : StepOf(p)
      BY <2>2 DEF Next, StepOf
    <3>3. Placed(p) /\ CountedOf(p) /\ \A q \in Process : CountedOf(q)
      BY <2>2 DEF Stages, Counted
    <3>4. CountedOf(p)'
      BY <2>2, <3>2, <3>3, StepCounts
    <3>5. \A q \in Process : q # p => CountedOf(q)'
      BY <2>2, <3>2, <3>3, OtherCounts
    <3>6. Counted'
      BY <3>4, <3>5 DEF Counted
    <3>7. QED BY <3>1, <3>6
  <2>3. QED BY <2>1, <2>2
<1>3. QED BY <1>1, <1>2, SpecSteps, PTL DEF Spec

\* A process has a result only when its run is over.
Ended == \A p \in Process : Running(p) => outcome[p] = "none"

LEMMA EndedStep ==
    ASSUME TypeOK, Ended, Next
    PROVE  Ended'
<1>1. PICK p \in Process : StepOf(p)
  BY DEF Next, StepOf
<1>2. ASSUME NEW q \in Process, q # p PROVE Running(q)' => outcome'[q] = "none"
  BY <1>1, <1>2, OthersKept DEF Same, SameResults, Running, Ended
<1>3. ResultTypes
  BY Groups
<1>4. Running(p)' => outcome'[p] = "none"
  <2>1. CASE \E yields \in Source, dry \in BOOLEAN : Start(p, yields, dry)
    BY <1>3, <2>1 DEF Start, ResultTypes
  <2>2. CASE \E r : Return(p, r)
    BY <1>3, <2>2 DEF Return, Goto, ResultTypes, Running
  <2>3. CASE outcome' = outcome /\ (Running(p)' => Running(p))
    BY <2>3 DEF Ended
  <2>4. CASE Step(p)
    <3>1. Each(p) => pc[p] = "each" /\ (outcome' = outcome \/ Return(p, "conflict"))
      BY EachWays DEF At, EachEmpty, EachRefused, EachPopped
    <3>2. Hook(p) => pc' = pc /\ outcome' = outcome
      BY DEF Hook
    <3>3. Filter(p) \/ Write(p) \/ Probe(p, "probe", candidates(p), "filter")
             \/ Probe(p, "reprobe", batch[p], "retry") => pc[p] # "idle" /\ outcome' = outcome
      BY DEF Filter, Write, Probe, At
    <3>4. Replace(p) \/ Filtered(p) \/ Retry(p) \/ Finish(p) =>
             pc[p] # "idle" /\ (outcome' = outcome \/ \E r : Return(p, r))
      BY DEF Replace, Filtered, Retry, Finish, At
    <3>5. (outcome' = outcome /\ (Running(p)' => Running(p))) \/ \E r : Return(p, r)
      BY <2>4, <3>1, <3>2, <3>3, <3>4 DEF Step, Running
    <3>6. QED BY <2>2, <2>3, <3>5, SMTT(30)
  <2>5. CASE Fail(p) \/ Crash(p)
    BY <2>2, <2>5 DEF Fail, Crash
  <2>6. QED BY <1>1, <2>1, <2>4, <2>5 DEF StepOf
<1>5. QED BY <1>2, <1>4 DEF Ended

LEMMA AllEnded == Spec => []Ended
<1>1. Init => Ended
  BY DEF Init, Ended, Running
<1>2. TypeOK /\ Ended /\ [Next]_vars => Ended'
  <2>1. Ended /\ UNCHANGED vars => Ended'
    BY DEF vars, Ended, Running
  <2>2. QED BY <2>1, EndedStep
<1>3. QED BY <1>1, <1>2, IngestTypes, PTL DEF Spec

\* A run that returns Ok has counted every item of its source exactly once,
\* and has written as many rows as its report says: what is in fresh, in
\* batch or not seen yet, with what the report counts, is always what the
\* source yielded (Report, ingest_source, write_batches).
THEOREM OkAddsUp == Spec => []OkAccounts
<1>1. TypeOK /\ Stages /\ Counted /\ Ended => OkAccounts
  <2> SUFFICES ASSUME TypeOK, Stages, Counted, Ended, NEW p \in Process, outcome[p] = "ok"
               PROVE  /\ Total(p) = Len(source[p])
                      /\ Tally(run[p]) = IF dry_run[p] THEN 0 ELSE report[p].ingested
    BY DEF OkAccounts, Total, Tally, Wrote
  <2>1. pc[p] = "idle"
    BY DEF Ended, Running
  <2>2. Len(fresh[p]) = 0 /\ Len(batch[p]) = 0 /\ Unseen(p) = 0
    BY <2>1 DEF Stages, Placed, Unseen
  <2>3. Left(p) = 0
    BY <2>2 DEF Left
  <2>4. Balanced(p) /\ Total(p) \in Nat
    BY LeftTypes DEF Counted, CountedOf
  <2>5. QED BY <2>3, <2>4 DEF Balanced
<1>2. QED BY <1>1, AllCounted, AllEnded, IngestTypes, PTL

(***************************************************************************)
(* The sources.  What their loops compute, step by step.                    *)
(***************************************************************************)
LOCAL INSTANCE SequencesExt
LOCAL INSTANCE FiniteSetsExt

\* Steps made one after another are a function (a loop that carries a value).
Stepwise(f, first, N, step) == f[0] = first /\ \A n \in 1 .. N : f[n] = step[n][f[n - 1]]

\* Such a function exists.
LEMMA StepsRun ==
    ASSUME NEW V, NEW first \in V, NEW N \in Nat, NEW step \in [1 .. N -> [V -> V]]
    PROVE  \E f \in [0 .. N -> V] : Stepwise(f, first, N, step)
<1> DEFINE Runs(f, n) == f[0] = first /\ \A k \in 1 .. n : f[k] = step[k][f[k - 1]]
           T == {n \in 0 .. N : \E f \in [0 .. n -> V] : Runs(f, n)}
<1>1. 0 \in T
  <2> DEFINE f == [k \in 0 .. 0 |-> first]
  <2>1. f \in [0 .. 0 -> V] /\ Runs(f, 0) /\ 0 \in 0 .. N
    OBVIOUS
  <2> HIDE DEF f, Runs
  <2>2. QED BY <2>1
<1>2. ASSUME NEW n \in 1 .. N, n - 1 \in T PROVE n \in T
  <2>1. PICK f \in [0 .. n - 1 -> V] : Runs(f, n - 1)
    BY <1>2, SMTT(30)
  <2>2. n - 1 \in 0 .. n - 1 /\ f[n - 1] \in V /\ step[n][f[n - 1]] \in V
    BY SMTT(30)
  <2> DEFINE g == [k \in 0 .. n |-> IF k = n THEN step[n][f[n - 1]] ELSE f[k]]
  <2>3. g \in [0 .. n -> V]
    BY <2>2
  <2>4. ASSUME NEW k \in 1 .. n PROVE g[k] = step[k][g[k - 1]]
    <3>1. k - 1 \in 0 .. n /\ k - 1 # n
      OBVIOUS
    <3>2. g[k - 1] = f[k - 1]
      BY <3>1
    <3>3. CASE k = n
      BY <3>2, <3>3, SMTT(30)
    <3>4. CASE k # n
      BY <2>1, <3>2, <3>4
    <3>5. QED BY <3>3, <3>4
  <2>5. Runs(g, n)
    BY <2>1, <2>4
  <2> HIDE DEF g, Runs
  <2>6. QED BY <2>3, <2>5
<1>3. 0 .. N \subseteq T
  <2> HIDE DEF T
  <2>1. QED BY <1>1, <1>2, Upwards
<1>4. QED BY <1>3 DEF Stepwise

\* What FlattenSeq has after n sequences.
Flattening(seqs, f) ==
    /\ FlattenSeq(seqs) = f[Len(seqs)] /\ f[0] = << >>
    /\ \A n \in 1 .. Len(seqs) : f[n] = f[n - 1] \o seqs[n]

\* FlattenSeq is such a loop.
LEMMA FlattenRuns ==
    ASSUME NEW S, NEW seqs \in Seq(Seq(S))
    PROVE  \E f \in [0 .. Len(seqs) -> Seq(S)] : Flattening(seqs, f)
<1> DEFINE N == Len(seqs)
           step == [n \in 1 .. N |-> [v \in Seq(S) |-> v \o seqs[n]]]
           Next1(g, n) == IF n = 1 THEN seqs[n] ELSE g[n - 1] \o seqs[n]
           flatten == CHOOSE g : g = [n \in 1 .. N |-> Next1(g, n)]
<1>0. N \in Nat /\ << >> \in Seq(S) /\ \A n \in 1 .. N : seqs[n] \in Seq(S)
  OBVIOUS
<1>1. step \in [1 .. N -> [Seq(S) -> Seq(S)]]
  BY <1>0
<1>2. PICK f \in [0 .. N -> Seq(S)] : Stepwise(f, << >>, N, step)
  <2> HIDE DEF step, N
  <2>1. QED BY <1>0, <1>1, StepsRun, ZenonT(40)
<1>s. \A n \in 1 .. N : step[n] = [v \in Seq(S) |-> v \o seqs[n]]
  OBVIOUS
<1> HIDE DEF step
<1>3. /\ f[0] = << >> /\ \A n \in 1 .. N : f[n] = f[n - 1] \o seqs[n]
      /\ 1 \in 1 .. N => f[1] = seqs[1]
  <2>1. ASSUME NEW n \in 1 .. N PROVE f[n] = f[n - 1] \o seqs[n]
    <3>1. n - 1 \in 0 .. N
      BY <1>0
    <3>2. f[n] = step[n][f[n - 1]]
      BY <1>2 DEF Stepwise
    <3>3. f[n - 1] \in Seq(S)
      BY <3>1
    <3>4. QED BY <1>s, <3>2, <3>3, ZenonT(40)
  <2>2. f[0] = << >>
    BY <1>2 DEF Stepwise
  <2>3. ASSUME 1 \in 1 .. N PROVE f[1] = seqs[1]
    <3>1. f[1] = f[1 - 1] \o seqs[1]
      BY <2>1, <2>3, Zenon
    <3>2. 1 - 1 = 0
      OBVIOUS
    <3>3. seqs[1] \in Seq(S)
      BY <1>0, <2>3
    <3>4. << >> \o seqs[1] = seqs[1]
      BY <3>3, ConcatEmptySeq, Zenon
    <3>5. QED BY <2>2, <3>1, <3>2, <3>4, Zenon
  <2>4. QED BY <2>1, <2>2, <2>3
<1>4. CASE N = 0
  <2>1. seqs = << >>
    BY <1>4
  <2>2. FlattenSeq(seqs) = << >>
    BY <1>4, <2>1 DEF FlattenSeq
  <2>3. QED BY <1>3, <1>4, <2>2 DEF Flattening
<1>5. CASE N # 0
  <2> DEFINE h == [n \in 1 .. N |-> f[n]]
  <2>1. \A n \in 1 .. N : h[n] = Next1(h, n)
    <3> SUFFICES ASSUME NEW n \in 1 .. N PROVE h[n] = Next1(h, n)
      OBVIOUS
    <3>1. CASE n = 1
      BY <1>3, <3>1
    <3>2. CASE n # 1
      <4>1. n - 1 \in 1 .. N
        BY <1>0, <3>2
      <4>2. QED BY <1>3, <3>2, <4>1, ZenonT(40)
    <3>3. QED BY <3>1, <3>2
  <2>2. h = [n \in 1 .. N |-> Next1(h, n)]
    BY <2>1, SMTT(30)
  <2>3. flatten = [n \in 1 .. N |-> Next1(flatten, n)]
    BY <2>2, ZenonT(40)
  <2>4. \A n \in 1 .. N : flatten[n] = Next1(flatten, n)
    BY <2>3, ZenonT(40)
  <2>5. FlattenSeq(seqs) = flatten[N]
    BY <1>0, <1>5, SMTT(30) DEF FlattenSeq
  <2> HIDE DEF flatten
  <2> DEFINE T == {n \in 0 .. N : n # 0 => flatten[n] = f[n]}
  <2>6. ASSUME NEW n \in 1 .. N, n - 1 \in T PROVE n \in T
    <3>1. CASE n = 1
      BY <1>3, <2>4, <3>1
    <3>2. CASE n # 1
      <4>1. n - 1 # 0 /\ n \in 0 .. N
        BY <1>0, <3>2
      <4>2. f[n] = f[n - 1] \o seqs[n] /\ flatten[n] = flatten[n - 1] \o seqs[n]
        BY <1>3, <2>4, <3>2
      <4>3. QED BY <2>6, <4>1, <4>2
    <3>3. QED BY <3>1, <3>2
  <2>7. 0 .. N \subseteq T
    <3>1. 0 \in T
      BY <1>0
    <3> HIDE DEF T, N
    <3>2. QED BY <1>0, <2>6, <3>1, Upwards
  <2>8. flatten[N] = f[N]
    BY <1>0, <1>5, <2>7, SMTT(30)
  <2>9. QED BY <1>3, <2>5, <2>8 DEF Flattening
<1>6. QED BY <1>4, <1>5

\* Two runs over lists with a common beginning agree on it.
LEMMA FlattenAppend ==
    ASSUME NEW S, NEW seqs \in Seq(Seq(S)), NEW last \in Seq(S)
    PROVE  FlattenSeq(Append(seqs, last)) = FlattenSeq(seqs) \o last
<1> DEFINE N == Len(seqs)
           more == Append(seqs, last)
<1>1. /\ N \in Nat /\ more \in Seq(Seq(S)) /\ Len(more) = N + 1 /\ more[N + 1] = last
      /\ \A n \in 1 .. N : more[n] = seqs[n]
  OBVIOUS
<1> HIDE DEF more
<1>2. PICK f \in [0 .. N -> Seq(S)] : Flattening(seqs, f)
  BY FlattenRuns
<1>3. PICK g \in [0 .. Len(more) -> Seq(S)] : Flattening(more, g)
  BY <1>1, FlattenRuns
<1> DEFINE T == {n \in 0 .. N : g[n] = f[n]}
<1>4. 0 \in T
  BY <1>1, <1>2, <1>3 DEF Flattening
<1>5. ASSUME NEW n \in 1 .. N, n - 1 \in T PROVE n \in T
  <2>1. n \in 1 .. N + 1 /\ n \in 0 .. N
    BY <1>1
  <2>2. f[n] = f[n - 1] \o seqs[n]
    BY <1>2 DEF Flattening
  <2>3. g[n] = g[n - 1] \o more[n]
    BY <1>1, <1>3, <2>1 DEF Flattening
  <2>4. g[n - 1] = f[n - 1]
    BY <1>5
  <2>5. QED BY <1>1, <2>1, <2>2, <2>3, <2>4
<1>6. 0 .. N \subseteq T
  <2> HIDE DEF T, N
  <2>1. QED BY <1>1, <1>4, <1>5, Upwards
<1>7. g[N] = f[N] /\ N + 1 \in 1 .. N + 1 /\ (N + 1) - 1 = N
  <2> HIDE DEF N
  <2>1. N \in 0 .. N /\ N + 1 \in 1 .. N + 1 /\ (N + 1) - 1 = N
    BY <1>1
  <2>2. QED BY <1>6, <2>1
<1>8. g[N + 1] = g[N] \o last
  BY <1>1, <1>3, <1>7 DEF Flattening
<1>9. QED BY <1>1, <1>2, <1>3, <1>7, <1>8 DEF Flattening, more

\* What FlattenSeq makes is a sequence of the members.
LEMMA FlattenType ==
    ASSUME NEW S, NEW seqs \in Seq(Seq(S))
    PROVE  FlattenSeq(seqs) \in Seq(S)
<1>1. PICK f \in [0 .. Len(seqs) -> Seq(S)] : Flattening(seqs, f)
  BY FlattenRuns
<1>2. Len(seqs) \in 0 .. Len(seqs)
  OBVIOUS
<1>3. QED BY <1>1, <1>2 DEF Flattening

\* FlattenSeq of two sequences is that of the one and then of the other.
LEMMA FlattenConcat ==
    ASSUME NEW S, NEW s \in Seq(Seq(S)), NEW t \in Seq(Seq(S))
    PROVE  FlattenSeq(s \o t) = FlattenSeq(s) \o FlattenSeq(t)
<1> DEFINE N == Len(t)
           upto(n) == SubSeq(t, 1, n)
           T == {n \in 0 .. N : FlattenSeq(s \o upto(n)) = FlattenSeq(s) \o FlattenSeq(upto(n))}
<1>0. N \in Nat /\ upto(0) = << >> /\ upto(N) = t
  OBVIOUS
<1>1. 0 \in T
  <2>1. s \o << >> = s
    OBVIOUS
  <2>2. FlattenSeq(<< >>) = << >>
    BY DEF FlattenSeq
  <2>3. FlattenSeq(s) \o << >> = FlattenSeq(s)
    BY FlattenType
  <2>4. 0 \in 0 .. N
    BY <1>0
  <2> HIDE DEF upto
  <2>5. QED BY <1>0, <2>1, <2>2, <2>3, <2>4, Zenon
<1>2. ASSUME NEW n \in 1 .. N, n - 1 \in T PROVE n \in T
  <2>1. /\ n \in 0 .. N /\ t[n] \in Seq(S)
        /\ upto(n - 1) \in Seq(Seq(S)) /\ upto(n) \in Seq(Seq(S))
    BY <1>0
  <2>2. upto(n) = Append(upto(n - 1), t[n])
    BY <1>0
  <2>3. s \o upto(n) = Append(s \o upto(n - 1), t[n])
    BY <2>1, <2>2, SMTT(30)
  <2>4. s \o upto(n - 1) \in Seq(Seq(S))
    BY <2>1
  <2>5. FlattenSeq(s \o upto(n - 1)) = FlattenSeq(s) \o FlattenSeq(upto(n - 1))
    BY <1>2
  <2> HIDE DEF upto
  <2>6. FlattenSeq(upto(n)) = FlattenSeq(upto(n - 1)) \o t[n]
    BY <2>1, <2>2, FlattenAppend
  <2>7. FlattenSeq(s \o upto(n)) = FlattenSeq(s \o upto(n - 1)) \o t[n]
    BY <2>1, <2>3, <2>4, FlattenAppend
  <2>8. FlattenSeq(s) \in Seq(S) /\ FlattenSeq(upto(n - 1)) \in Seq(S)
    BY <2>1, FlattenType
  <2>9. (FlattenSeq(s) \o FlattenSeq(upto(n - 1))) \o t[n]
           = FlattenSeq(s) \o (FlattenSeq(upto(n - 1)) \o t[n])
    <3>1. ASSUME NEW a \in Seq(S), NEW b \in Seq(S), NEW c \in Seq(S)
          PROVE  (a \o b) \o c = a \o (b \o c)
      BY ConcatAssociative, SMTT(30)
    <3>2. t[n] \in Seq(S)
      BY <2>1
    <3>3. QED BY <2>8, <3>1, <3>2, Zenon
  <2>10. QED BY <2>1, <2>5, <2>6, <2>7, <2>9, Zenon
<1>3. 0 .. N \subseteq T
  <2> HIDE DEF T, N
  <2>1. QED BY <1>0, <1>1, <1>2, Upwards
<1>4. N \in T
  <2> HIDE DEF T
  <2>1. QED BY <1>0, <1>3
<1> HIDE DEF upto
<1>5. QED BY <1>0, <1>4, Zenon

\* The members of two sequences, one after the other.
LEMMA MembersOfConcat ==
    ASSUME NEW S, NEW a \in Seq(S), NEW b \in Seq(S), NEW x
    PROVE  x \in ToSet(a \o b) <=> x \in ToSet(a) \/ x \in ToSet(b)
<1> DEFINE both == a \o b
<1>1. /\ Len(a) \in Nat /\ Len(b) \in Nat /\ both \in Seq(S) /\ Len(both) = Len(a) + Len(b)
      /\ \A n \in 1 .. Len(a) : both[n] = a[n]
      /\ \A n \in 1 .. Len(b) : both[Len(a) + n] = b[n]
      /\ DOMAIN a = 1 .. Len(a) /\ DOMAIN b = 1 .. Len(b) /\ DOMAIN both = 1 .. Len(both)
  OBVIOUS
<1> HIDE DEF both
<1>2. ASSUME NEW n \in DOMAIN both, x = both[n] PROVE x \in ToSet(a) \/ x \in ToSet(b)
  <2>1. CASE n \in 1 .. Len(a)
    BY <1>1, <1>2, <2>1 DEF ToSet
  <2>2. CASE n \notin 1 .. Len(a)
    <3>1. n - Len(a) \in 1 .. Len(b) /\ Len(a) + (n - Len(a)) = n
      BY <1>1, <2>2
    <3>2. QED BY <1>1, <1>2, <3>1 DEF ToSet
  <2>3. QED BY <2>1, <2>2
<1>3. ASSUME NEW n \in DOMAIN a PROVE a[n] \in ToSet(both)
  BY <1>1 DEF ToSet
<1>4. ASSUME NEW n \in DOMAIN b PROVE b[n] \in ToSet(both)
  <2>1. Len(a) + n \in DOMAIN both
    BY <1>1
  <2>2. QED BY <1>1, <2>1 DEF ToSet
<1>5. QED BY <1>2, <1>3, <1>4 DEF ToSet, both

\* The members of the flattened list.
LEMMA FlattenMembers ==
    ASSUME NEW S, NEW seqs \in Seq(Seq(S)), NEW x
    PROVE  x \in ToSet(FlattenSeq(seqs)) <=> \E n \in 1 .. Len(seqs) : x \in ToSet(seqs[n])
<1>1. PICK f \in [0 .. Len(seqs) -> Seq(S)] : Flattening(seqs, f)
  BY FlattenRuns
<1> DEFINE N == Len(seqs)
           T == {n \in 0 .. N : x \in ToSet(f[n]) <=> \E k \in 1 .. n : x \in ToSet(seqs[k])}
<1>2. N \in Nat
  OBVIOUS
<1>3. 0 \in T
  BY <1>1, <1>2 DEF Flattening, ToSet
<1>4. ASSUME NEW n \in 1 .. N, n - 1 \in T PROVE n \in T
  <2>1. n \in 0 .. N /\ n - 1 \in 0 .. N /\ seqs[n] \in Seq(S)
    BY <1>2
  <2>f. f[n - 1] \in Seq(S)
    BY <2>1
  <2>2. f[n] = f[n - 1] \o seqs[n]
    BY <1>1 DEF Flattening
  <2>3. x \in ToSet(f[n]) <=> x \in ToSet(f[n - 1]) \/ x \in ToSet(seqs[n])
    BY <2>1, <2>f, <2>2, MembersOfConcat, Zenon
  <2>4. x \in ToSet(f[n - 1]) <=> \E k \in 1 .. n - 1 : x \in ToSet(seqs[k])
    BY <1>4
  <2>5. \A k \in Int : k \in 1 .. n <=> k \in 1 .. n - 1 \/ k = n
    BY <1>2
  <2>6. QED BY <2>1, <2>3, <2>4, <2>5
<1>5. 0 .. N \subseteq T
  <2> HIDE DEF T, N
  <2>1. QED BY <1>2, <1>3, <1>4, Upwards
<1>6. N \in T
  BY <1>2, <1>5, SMTT(30)
<1>7. QED BY <1>1, <1>6 DEF Flattening

(***************************************************************************)
(* chunk_text.                                                             *)
(***************************************************************************)
\* The characters of a text: paragraph, and number in it.
Place(text) == {c \in Nat \X Nat : c[1] \in DOMAIN text /\ c[2] \in DOMAIN text[c[1]]}

\* The width of a character.
LEMMA WidthType ==
    ASSUME NEW text \in Text, NEW c \in Place(text)
    PROVE  text[c[1]][c[2]] \in 1 .. 4 /\ c[1] \in Nat /\ c[2] \in Nat
<1>1. text[c[1]] \in Seq(1 .. 4) /\ c[2] \in DOMAIN text[c[1]]
  BY DEF Text, Place
<1>2. QED BY <1>1 DEF Place

\* A chunk has a size, and one character has at most 4 bytes.
LEMMA BytesRun ==
    ASSUME NEW text \in Text, NEW chunk \in Seq(Place(text))
    PROVE  /\ Bytes(text, chunk) \in Int
           /\ Len(chunk) = 1 => Bytes(text, chunk) \in 1 .. 4
<1> DEFINE N == Len(chunk)
           width(k) == text[chunk[k][1]][chunk[k][2]]
           step == [k \in 1 .. N |-> [v \in Int |-> v + width(k)]]
           sum == CHOOSE f : f = [k \in 0 .. N |-> IF k = 0 THEN 0 ELSE f[k - 1] + width(k)]
           between == IF chunk = << >> THEN 0 ELSE 2 * (Last(chunk)[1] - Head(chunk)[1])
<1>0. N \in Nat /\ \A k \in 1 .. N : chunk[k] \in Place(text)
  OBVIOUS
<1>1. \A k \in 1 .. N : width(k) \in 1 .. 4 /\ chunk[k][1] \in Nat
  BY <1>0, WidthType
<1> HIDE DEF width
<1>2. step \in [1 .. N -> [Int -> Int]]
  BY <1>1
<1>3. PICK f \in [0 .. N -> Int] : Stepwise(f, 0, N, step)
  <2> HIDE DEF step, N
  <2>1. 0 \in Int
    OBVIOUS
  <2>2. QED BY <1>0, <1>2, <2>1, StepsRun, ZenonT(40)
<1>4. f = [k \in 0 .. N |-> IF k = 0 THEN 0 ELSE f[k - 1] + width(k)]
  <2>1. ASSUME NEW k \in 1 .. N PROVE f[k] = f[k - 1] + width(k)
    <3>1. f[k] = step[k][f[k - 1]] /\ k - 1 \in 0 .. N
      <4> HIDE DEF step
      <4>1. QED BY <1>0, <1>3 DEF Stepwise
    <3>2. f[k - 1] \in Int
      BY <3>1
    <3>3. QED BY <3>1, <3>2
  <2>2. f[0] = 0
    BY <1>3 DEF Stepwise
  <2>3. QED BY <1>0, <2>1, <2>2
<1>5. sum = [k \in 0 .. N |-> IF k = 0 THEN 0 ELSE sum[k - 1] + width(k)]
  BY <1>4, ZenonT(40)
<1>6. Bytes(text, chunk) = sum[N] + between
  BY SMTT(30) DEF Bytes, width
<1> HIDE DEF sum, step
<1> DEFINE T == {k \in 0 .. N : sum[k] \in Int}
<1>7. sum[0] = 0 /\ \A k \in 1 .. N : sum[k] = sum[k - 1] + width(k)
  BY <1>0, <1>5
<1>8. \A k \in 1 .. N : k - 1 \in T => k \in T
  BY <1>0, <1>1, <1>7, SMTT(30)
<1>9. 0 .. N \subseteq T
  <2>1. 0 \in T
    BY <1>0, <1>7
  <2> HIDE DEF T, N
  <2>2. QED BY <1>0, <1>8, <2>1, Upwards
<1>10. sum[N] \in Int
  BY <1>0, <1>9
<1>11. between \in Int /\ (N = 1 => between = 0)
  <2>1. CASE chunk = << >>
    BY <2>1
  <2>2. CASE chunk # << >>
    <3>1. 1 \in 1 .. N /\ N \in 1 .. N /\ Head(chunk) = chunk[1] /\ Last(chunk) = chunk[N]
      BY <1>0, <2>2 DEF Last
    <3>2. Head(chunk)[1] \in Nat /\ Last(chunk)[1] \in Nat
      BY <1>1, <3>1
    <3>3. QED BY <2>2, <3>1, <3>2
  <2>3. QED BY <2>1, <2>2
<1> HIDE DEF between
<1>12. ASSUME N = 1 PROVE sum[N] \in 1 .. 4
  <2>1. sum[1] = sum[1 - 1] + width(1) /\ width(1) \in 1 .. 4
    BY <1>1, <1>7, <1>12
  <2>2. QED BY <1>7, <1>12, <2>1
<1>13. QED BY <1>6, <1>10, <1>11, <1>12

\* Every piece fits.
Fit(text, pieces) ==
    \A n \in 1 .. Len(pieces) : pieces[n] # << >> /\ Bytes(text, pieces[n]) <= Cap

\* The limit of a chunk holds any character (hard_split).
LEMMA CapIsWide == Cap \in Nat /\ Cap >= 4
BY SourcesAssumption DEF Cap

\* Replacing the last piece is dropping it and appending.
LEMMA ReplaceLast ==
    ASSUME NEW S, NEW s \in Seq(S), NEW d \in S, NEW e \in S
    PROVE  [Append(s, d) EXCEPT ![Len(s) + 1] = e] = Append(s, e)
<1> DEFINE m == Append(s, d)
           b == Append(s, e)
           a == [m EXCEPT ![Len(s) + 1] = e]
<1>1. /\ Len(s) \in Nat /\ b \in Seq(S) /\ Len(b) = Len(s) + 1 /\ b[Len(s) + 1] = e
      /\ \A n \in 1 .. Len(s) : b[n] = s[n]
  OBVIOUS
<1>2. m \in Seq(S) /\ Len(m) = Len(s) + 1 /\ \A n \in 1 .. Len(s) : m[n] = s[n]
  OBVIOUS
<1>3. Len(s) + 1 \in 1 .. Len(m)
  BY <1>1, <1>2
<1> HIDE DEF m, b
<1>4. /\ a \in Seq(S) /\ Len(a) = Len(m)
      /\ \A n \in 1 .. Len(m) : a[n] = IF n = Len(s) + 1 THEN e ELSE m[n]
  BY <1>2, <1>3, ExceptSeq
<1> HIDE DEF a
<1>5. \A n \in 1 .. Len(a) : a[n] = b[n]
  BY <1>1, <1>2, <1>4
<1>6. a = b
  BY <1>1, <1>2, <1>4, <1>5, SeqEqual
<1>7. QED BY <1>6 DEF a, b, m

\* A character more (hard_split).
LEMMA TakesOne ==
    ASSUME NEW text \in Text, NEW pieces \in Seq(Seq(Place(text))), NEW c \in Place(text),
           Fit(text, pieces)
    PROVE  /\ Taking(text, pieces, c) \in Seq(Seq(Place(text)))
           /\ Fit(text, Taking(text, pieces, c))
           /\ FlattenSeq(Taking(text, pieces, c)) = Append(FlattenSeq(pieces), c)
<1> DEFINE S == Place(text)
           N == Len(pieces)
           new == Taking(text, pieces, c)
<1> HIDE DEF S, new
<1>0. pieces \in Seq(Seq(S)) /\ c \in S /\ N \in Nat /\ FlattenSeq(pieces) \in Seq(S)
  BY FlattenType DEF S
<1>1. CASE pieces # << >> /\ Bytes(text, Append(Last(pieces), c)) <= Cap
  <2>1. PICK front \in Seq(Seq(S)), last \in Seq(S) : pieces = Append(front, last)
    BY <1>0, <1>1, SequenceEmptyOrAppend
  <2>f. /\ N = Len(front) + 1 /\ pieces[N] = last /\ Last(pieces) = last
        /\ Append(last, c) \in Seq(S) /\ Len(front) \in Nat
        /\ \A n \in 1 .. N : n # N => pieces[n] = front[n]
    BY <1>0, <2>1 DEF Last
  <2>2. new = Append(front, Append(last, c))
    <3>1. new = [pieces EXCEPT ![N] = Append(last, c)]
      BY <1>1, <2>f DEF new, Taking
    <3> DEFINE e == Append(last, c)
    <3>2. e \in Seq(S)
      BY <2>f
    <3> HIDE DEF e
    <3>3. [Append(front, last) EXCEPT ![Len(front) + 1] = e] = Append(front, e)
      BY <3>2, ReplaceLast
    <3>4. [pieces EXCEPT ![N] = e] = [Append(front, last) EXCEPT ![Len(front) + 1] = e]
      BY <2>1, <2>f
    <3>5. QED BY <3>1, <3>3, <3>4 DEF e
  <2>3. /\ new \in Seq(Seq(S)) /\ Len(new) = N /\ new[N] = Append(last, c)
        /\ \A n \in 1 .. N : n # N => new[n] = pieces[n]
    <3> DEFINE U == Seq(S)
               d == Append(last, c)
    <3>1. front \in Seq(U) /\ d \in U
      BY <2>f
    <3>2. new = Append(front, d)
      BY <2>2
    <3> HIDE DEF U, d
    <3>3. /\ new \in Seq(U) /\ Len(new) = Len(front) + 1 /\ new[Len(front) + 1] = d
          /\ \A n \in 1 .. Len(front) : new[n] = front[n]
      BY <3>1, <3>2
    <3>4. \A n \in 1 .. N : n # N => n \in 1 .. Len(front)
      BY <2>f
    <3>5. /\ new \in Seq(U) /\ Len(new) = N /\ new[N] = d
          /\ \A n \in 1 .. N : n # N => new[n] = pieces[n]
      BY <2>f, <3>3, <3>4
    <3>6. QED BY <3>5, SMTT(30) DEF U, d
  <2>4. /\ FlattenSeq(pieces) = FlattenSeq(front) \o last
        /\ FlattenSeq(new) = FlattenSeq(front) \o Append(last, c)
    BY <2>1, <2>2, <2>f, FlattenAppend
  <2>5. FlattenSeq(front) \in Seq(S)
    BY FlattenType
  <2>6. FlattenSeq(front) \o Append(last, c) = Append(FlattenSeq(front) \o last, c)
    BY <1>0, <2>1, <2>5, SMTT(30)
  <2>7. Append(last, c) # << >>
    BY <1>0, <2>1, AppendProperties
  <2>8. Fit(text, new)
    BY <1>1, <2>3, <2>7, <2>f DEF Fit
  <2>9. QED BY <2>3, <2>4, <2>6, <2>8 DEF new, S
<1>2. CASE ~(pieces # << >> /\ Bytes(text, Append(Last(pieces), c)) <= Cap)
  <2>1. new = Append(pieces, <<c>>)
    BY <1>2 DEF new, Taking
  <2>2. <<c>> \in Seq(S) /\ Len(<<c>>) = 1 /\ <<c>> # << >>
    BY <1>0
  <2>3. Bytes(text, <<c>>) <= Cap
    <3>1. Bytes(text, <<c>>) \in 1 .. 4
      BY <2>2, BytesRun DEF S
    <3>2. QED BY <3>1, CapIsWide
  <2>4. /\ new \in Seq(Seq(S)) /\ Len(new) = N + 1 /\ new[N + 1] = <<c>>
        /\ \A n \in 1 .. N : new[n] = pieces[n]
    BY <1>0, <2>1, <2>2
  <2>5. Fit(text, new)
    <3>1. \A n \in 1 .. N : new[n] # << >> /\ Bytes(text, new[n]) <= Cap
      BY <2>4 DEF Fit
    <3>2. \A n \in 1 .. Len(new) : n \in 1 .. N \/ n = N + 1
      BY <1>0, <2>4
    <3>3. new[N + 1] # << >> /\ Bytes(text, new[N + 1]) <= Cap
      BY <2>2, <2>3, <2>4
    <3>4. QED BY <3>1, <3>2, <3>3 DEF Fit
  <2>6. FlattenSeq(new) = FlattenSeq(pieces) \o <<c>>
    BY <1>0, <2>1, <2>2, FlattenAppend
  <2>7. FlattenSeq(pieces) \o <<c>> = Append(FlattenSeq(pieces), c)
    BY <1>0
  <2>8. QED BY <2>4, <2>5, <2>6, <2>7 DEF new, S
<1>3. QED BY <1>1, <1>2

\* The characters of a paragraph are places of the text.
LEMMA CharactersType ==
    ASSUME NEW text \in Text, NEW p \in DOMAIN text
    PROVE  /\ Characters(text, p) \in Seq(Place(text)) /\ Characters(text, p) # << >>
           /\ Len(Characters(text, p)) = Len(text[p]) /\ Len(text[p]) \in Nat
           /\ DOMAIN text[p] = 1 .. Len(text[p]) /\ p \in Nat
           /\ \A k \in 1 .. Len(text[p]) : Characters(text, p)[k] = <<p, k>>
                                           /\ <<p, k>> \in Place(text)
<1>1. /\ text[p] \in Seq(1 .. 4) /\ text[p] # << >> /\ Len(text[p]) \in Nat \ {0} /\ p \in Nat
      /\ DOMAIN text[p] = 1 .. Len(text[p])
  BY DEF Text
<1>2. \A k \in 1 .. Len(text[p]) : <<p, k>> \in Place(text)
  BY <1>1 DEF Place
<1> DEFINE s == Characters(text, p)
<1>3. s = [k \in 1 .. Len(text[p]) |-> <<p, k>>]
  BY <1>1 DEF Characters
<1> HIDE DEF s
<1>4. s \in Seq(Place(text)) /\ Len(s) = Len(text[p])
  BY <1>1, <1>2, <1>3
<1>5. s # << >>
  BY <1>1, <1>4
<1>6. QED BY <1>1, <1>2, <1>3, <1>4, <1>5 DEF s

\* A long paragraph is split into pieces that fit and lose nothing (hard_split).
LEMMA HardSplitWhole ==
    ASSUME NEW text \in Text, NEW p \in DOMAIN text
    PROVE  /\ HardSplit(text, p) \in Seq(Seq(Place(text)))
           /\ Fit(text, HardSplit(text, p))
           /\ FlattenSeq(HardSplit(text, p)) = Characters(text, p)
<1> DEFINE V == Seq(Seq(Place(text)))
           N == Len(text[p])
           all == Characters(text, p)
           step == [k \in 1 .. N |-> [v \in V |-> IF Fit(text, v) THEN Taking(text, v, <<p, k>>)
                                                ELSE v]]
           Pieces(f) == f = [k \in 0 .. N |-> IF k = 0 THEN << >>
                                              ELSE Taking(text, f[k - 1], <<p, k>>)]
           pieces == CHOOSE f : Pieces(f)
<1>0. /\ all \in Seq(Place(text)) /\ N \in Nat /\ << >> \in V
      /\ \A k \in 1 .. N : <<p, k>> \in Place(text) /\ all[k] = <<p, k>>
      /\ Len(all) = N
  BY CharactersType
<1> HIDE DEF all, V
<1>1. \A k \in 1 .. N : \A v \in V : Fit(text, v) =>
         /\ Taking(text, v, <<p, k>>) \in V
         /\ Fit(text, Taking(text, v, <<p, k>>))
         /\ FlattenSeq(Taking(text, v, <<p, k>>)) = Append(FlattenSeq(v), <<p, k>>)
  BY <1>0, TakesOne DEF V
<1>2. step \in [1 .. N -> [V -> V]]
  BY <1>1
<1>3. PICK f \in [0 .. N -> V] : Stepwise(f, << >>, N, step)
  <2> HIDE DEF step, N
  <2>1. QED BY <1>0, <1>2, StepsRun, ZenonT(40)
<1>4. \A k \in 1 .. N : k - 1 \in 0 .. N /\ f[k - 1] \in V /\ f[k] = step[k][f[k - 1]]
  <2> HIDE DEF step
  <2>1. ASSUME NEW k \in 1 .. N PROVE k - 1 \in 0 .. N /\ f[k] = step[k][f[k - 1]]
    BY <1>0, <1>3 DEF Stepwise
  <2>2. \A k \in 0 .. N : f[k] \in V
    OBVIOUS
  <2>3. QED BY <2>1, <2>2
<1>5. f[0] = << >>
  BY <1>3 DEF Stepwise
<1> DEFINE Good(v, k) == v \in V /\ Fit(text, v) /\ FlattenSeq(v) = SubSeq(all, 1, k)
           T == {k \in 0 .. N : Good(f[k], k)}
<1>6. 0 \in T
  <2>1. FlattenSeq(<< >>) = << >> /\ SubSeq(all, 1, 0) = << >> /\ Fit(text, << >>)
    BY <1>0 DEF FlattenSeq, Fit
  <2>2. Good(f[0], 0) /\ 0 \in 0 .. N
    BY <1>0, <1>5, <2>1
  <2> HIDE DEF Good
  <2>3. QED BY <2>2
<1>7. ASSUME NEW k \in 1 .. N, k - 1 \in T
      PROVE  k \in T /\ f[k] = Taking(text, f[k - 1], <<p, k>>)
  <2>0. k \in 0 .. N
    BY <1>0
  <2>1. Good(f[k - 1], k - 1)
    BY <1>7
  <2>2. f[k] = Taking(text, f[k - 1], <<p, k>>)
    BY <1>4, <2>1
  <2>3. Good(f[k], k)
    <3>1. SubSeq(all, 1, k) = Append(SubSeq(all, 1, k - 1), all[k])
      BY <1>0
    <3>2. QED BY <1>0, <1>1, <2>1, <2>2, <3>1
  <2> HIDE DEF Good
  <2>4. QED BY <2>0, <2>2, <2>3
<1> HIDE DEF step
<1>8. 0 .. N \subseteq T
  <2>1. \A k \in 1 .. N : k - 1 \in T => k \in T
    BY <1>7
  <2> HIDE DEF T, N
  <2>2. QED BY <1>0, <1>6, <2>1, Upwards
<1>9. Pieces(f)
  <2>1. ASSUME NEW k \in 1 .. N PROVE f[k] = Taking(text, f[k - 1], <<p, k>>)
    <3>1. k - 1 \in T
      <4>1. k - 1 \in 0 .. N
        BY <1>0
      <4> HIDE DEF T
      <4>2. QED BY <1>8, <4>1
    <3> HIDE DEF T
    <3>2. QED BY <1>7, <3>1
  <2>2. QED BY <1>0, <1>5, <2>1, SMTT(30)
<1> HIDE DEF T, Good
<1>10. Pieces(pieces)
  <2> HIDE DEF Pieces
  <2>1. QED BY <1>9, Zenon
<1>11. HardSplit(text, p) = pieces[N]
  BY SMTT(30) DEF HardSplit
<1> HIDE DEF pieces
<1> DEFINE U == {k \in 0 .. N : pieces[k] = f[k]}
<1>12. 0 .. N \subseteq U
  <2>1. 0 \in U
    BY <1>0, <1>5, <1>10
  <2>2. ASSUME NEW k \in 1 .. N, k - 1 \in U PROVE k \in U
    <3>1. k - 1 \in T
      BY <1>0, <1>8
    <3>2. f[k] = Taking(text, f[k - 1], <<p, k>>)
      BY <1>7, <3>1
    <3>3. pieces[k] = Taking(text, pieces[k - 1], <<p, k>>)
      BY <1>0, <1>10
    <3>4. QED BY <2>2, <3>2, <3>3
  <2> HIDE DEF U, N
  <2>3. QED BY <1>0, <2>1, <2>2, Upwards
<1>13. N \in U /\ N \in T
  <2> HIDE DEF U
  <2>1. QED BY <1>0, <1>8, <1>12
<1>14. Good(pieces[N], N)
  BY <1>13 DEF T
<1>15. SubSeq(all, 1, N) = all
  BY <1>0
<1>16. QED BY <1>11, <1>14, <1>15 DEF Good, V, all

\* What the packing has: its chunks, and the current one.
Packed(text, s) ==
    /\ s \in [chunks : Seq(Seq(Place(text))), current : Seq(Place(text))]
    /\ Fit(text, s.chunks) /\ (s.current # << >> => Bytes(text, s.current) <= Cap)

\* Chunks that fit, one after the other.
LEMMA FitConcat ==
    ASSUME NEW text, NEW S, NEW a \in Seq(S), NEW b \in Seq(S), Fit(text, a), Fit(text, b)
    PROVE  Fit(text, a \o b)
<1> DEFINE both == a \o b
<1>1. /\ Len(a) \in Nat /\ Len(b) \in Nat /\ Len(both) = Len(a) + Len(b)
      /\ \A n \in 1 .. Len(a) : both[n] = a[n]
      /\ \A n \in 1 .. Len(b) : both[Len(a) + n] = b[n]
  OBVIOUS
<1> HIDE DEF both
<1>2. ASSUME NEW n \in 1 .. Len(both) PROVE both[n] # << >> /\ Bytes(text, both[n]) <= Cap
  <2>1. CASE n \in 1 .. Len(a)
    BY <1>1, <2>1 DEF Fit
  <2>2. CASE n \notin 1 .. Len(a)
    <3>1. n - Len(a) \in 1 .. Len(b) /\ Len(a) + (n - Len(a)) = n
      BY <1>1, <2>2
    <3>2. QED BY <1>1, <3>1 DEF Fit
  <2>3. QED BY <2>1, <2>2
<1>3. QED BY <1>2 DEF Fit, both

\* flush pushes the current chunk and loses nothing.
LEMMA FlushKeeps ==
    ASSUME NEW text \in Text, NEW s, Packed(text, s)
    PROVE  /\ Flush(s) \in Seq(Seq(Place(text))) /\ Fit(text, Flush(s))
           /\ FlattenSeq(Flush(s)) = FlattenSeq(s.chunks) \o s.current
           /\ Flush(s) = << >> => s.current = << >>
<1> DEFINE S == Place(text)
           chunks == s.chunks
           current == s.current
<1>1. chunks \in Seq(Seq(S)) /\ current \in Seq(S) /\ FlattenSeq(chunks) \in Seq(S)
  BY FlattenType DEF Packed
<1>2. Flush(s) = IF current = << >> THEN chunks ELSE Append(chunks, current)
  BY DEF Flush
<1>3. Fit(text, chunks) /\ (current # << >> => Bytes(text, current) <= Cap)
  BY DEF Packed
<1> HIDE DEF S, chunks, current
<1>4. CASE current = << >>
  <2>1. FlattenSeq(chunks) \o << >> = FlattenSeq(chunks)
    BY <1>1
  <2>2. QED BY <1>1, <1>2, <1>3, <1>4, <2>1, Zenon DEF S, chunks, current
<1>5. CASE current # << >>
  <2> DEFINE new == Append(chunks, current)
  <2>1. /\ new \in Seq(Seq(S)) /\ Len(new) = Len(chunks) + 1 /\ new[Len(chunks) + 1] = current
        /\ \A n \in 1 .. Len(chunks) : new[n] = chunks[n]
        /\ Len(chunks) \in Nat /\ new # << >>
    BY <1>1, AppendProperties
  <2> HIDE DEF new
  <2>2. \A n \in 1 .. Len(new) : n \in 1 .. Len(chunks) \/ n = Len(chunks) + 1
    BY <2>1
  <2>3. Fit(text, new)
    BY <1>3, <1>5, <2>1, <2>2 DEF Fit
  <2>4. FlattenSeq(new) = FlattenSeq(chunks) \o current
    BY <1>1, FlattenAppend DEF new
  <2>5. Flush(s) = new
    BY <1>2, <1>5 DEF new
  <2>6. QED BY <1>5, <2>1, <2>3, <2>4, <2>5, Zenon DEF S, chunks, current
<1>6. QED BY <1>4, <1>5

\* A paragraph more (chunk_text).
LEMMA PacksOne ==
    ASSUME NEW text \in Text, NEW s, Packed(text, s), NEW p \in DOMAIN text
    PROVE  /\ Packed(text, Packing(text, s, p))
           /\ FlattenSeq(Flush(Packing(text, s, p)))
              = FlattenSeq(Flush(s)) \o Characters(text, p)
           /\ Flush(Packing(text, s, p)) # << >>
<1> DEFINE S == Place(text)
           paragraph == Characters(text, p)
           split == HardSplit(text, p)
           new == Packing(text, s, p)
<1>1. paragraph \in Seq(S) /\ paragraph # << >>
  BY CharactersType
<1>2. split \in Seq(Seq(S)) /\ Fit(text, split) /\ FlattenSeq(split) = paragraph
  BY HardSplitWhole
<1>3. /\ Flush(s) \in Seq(Seq(S)) /\ Fit(text, Flush(s))
      /\ FlattenSeq(Flush(s)) = FlattenSeq(s.chunks) \o s.current
      /\ FlattenSeq(Flush(s)) \in Seq(S)
  BY FlushKeeps, FlattenType
<1>4. /\ s.chunks \in Seq(Seq(S)) /\ s.current \in Seq(S) /\ Fit(text, s.chunks)
      /\ s.current # << >> => Bytes(text, s.current) <= Cap
      /\ FlattenSeq(s.chunks) \in Seq(S)
      /\ s = [chunks |-> s.chunks, current |-> s.current]
  BY FlattenType DEF Packed
<1>5. new = IF Bytes(text, paragraph) > Cap
            THEN [chunks |-> Flush(s) \o split, current |-> << >>]
            ELSE IF Bytes(text, s.current \o paragraph) > Cap
            THEN [chunks |-> Flush(s), current |-> paragraph]
            ELSE [chunks |-> s.chunks, current |-> s.current \o paragraph]
  <2>1. [s EXCEPT !.current = @ \o paragraph]
        = [chunks |-> s.chunks, current |-> s.current \o paragraph]
    <3> DEFINE A == Seq(Seq(S))
               B == Seq(S)
               longer == s.current \o paragraph
    <3>1. s \in [chunks : A, current : B]
      BY DEF Packed
    <3> HIDE DEF paragraph, A, B, longer
    <3>2. [s EXCEPT !.current = longer] = [chunks |-> s.chunks, current |-> longer]
      BY <3>1
    <3>3. QED BY <3>2 DEF longer
  <2> DEFINE third == [s EXCEPT !.current = @ \o paragraph]
             own == [chunks |-> s.chunks, current |-> s.current \o paragraph]
  <2>2. new = IF Bytes(text, paragraph) > Cap
              THEN [chunks |-> Flush(s) \o split, current |-> << >>]
              ELSE IF Bytes(text, s.current \o paragraph) > Cap
              THEN [chunks |-> Flush(s), current |-> paragraph] ELSE third
    BY Zenon DEF Packing
  <2>3. third = own
    BY <2>1
  <2> HIDE DEF third, new, split, paragraph
  <2>4. QED BY <2>2, <2>3, Zenon
<1>6. Bytes(text, paragraph) \in Int /\ Bytes(text, s.current \o paragraph) \in Int /\ Cap \in Int
  <2>1. s.current \o paragraph \in Seq(S)
    BY <1>1, <1>4
  <2>2. \A chunk \in Seq(S) : Bytes(text, chunk) \in Int
    BY BytesRun
  <2>3. Cap \in Int
    BY CapIsWide
  <2> HIDE DEF S, paragraph
  <2>4. QED BY <1>1, <2>1, <2>2, <2>3, Zenon
<1> HIDE DEF S, paragraph, split, new
<1>7. CASE Bytes(text, paragraph) > Cap
  <2> DEFINE more == Flush(s) \o split
  <2>1. more \in Seq(Seq(S)) /\ Fit(text, more)
    BY <1>2, <1>3, FitConcat
  <2>2. FlattenSeq(more) = FlattenSeq(Flush(s)) \o paragraph
    BY <1>2, <1>3, FlattenConcat, Zenon
  <2> HIDE DEF more
  <2>3. new = [chunks |-> more, current |-> << >>]
    BY <1>5, <1>7 DEF more
  <2>4. Flush(new) = more
    BY <2>3 DEF Flush
  <2>5. more # << >>
    <3>1. SUFFICES ASSUME more = << >> PROVE FALSE
      OBVIOUS
    <3>2. FlattenSeq(more) = << >>
      BY <3>1 DEF FlattenSeq
    <3> DEFINE before == FlattenSeq(Flush(s))
    <3>3. before \in Seq(S) /\ << >> = before \o paragraph
      BY <1>3, <2>2, <3>2
    <3> HIDE DEF before
    <3>4. Len(before \o paragraph) = Len(before) + Len(paragraph) /\ Len(paragraph) > 0
      BY <1>1, <3>3
    <3>5. QED BY <1>1, <3>3, <3>4, SMTT(30)
  <2>6. Packed(text, new)
    BY <2>1, <2>3 DEF Packed, S
  <2>7. QED BY <2>2, <2>4, <2>5, <2>6 DEF new, paragraph
<1>8. CASE ~(Bytes(text, paragraph) > Cap) /\ Bytes(text, s.current \o paragraph) > Cap
  <2>1. new = [chunks |-> Flush(s), current |-> paragraph]
    BY <1>5, <1>8
  <2>2. Packed(text, new)
    BY <1>1, <1>3, <1>6, <1>8, <2>1 DEF Packed, S
  <2>3. /\ FlattenSeq(Flush(new)) = FlattenSeq(Flush(s)) \o paragraph
        /\ Flush(new) # << >>
    <3>1. /\ FlattenSeq(Flush(new)) = FlattenSeq(new.chunks) \o new.current
          /\ Flush(new) = << >> => new.current = << >>
      BY <2>2, FlushKeeps
    <3>2. new.chunks = Flush(s) /\ new.current = paragraph
      BY <2>1
    <3>3. QED BY <1>1, <3>1, <3>2, Zenon
  <2>4. QED BY <2>2, <2>3 DEF new, paragraph
<1>9. CASE ~(Bytes(text, paragraph) > Cap) /\ ~(Bytes(text, s.current \o paragraph) > Cap)
  <2> DEFINE both == s.current \o paragraph
  <2>1. new = [chunks |-> s.chunks, current |-> both]
    BY <1>5, <1>9
  <2>2. both \in Seq(S) /\ both # << >>
    <3>1. both \in Seq(S) /\ Len(both) = Len(s.current) + Len(paragraph)
      BY <1>1, <1>4
    <3>2. Len(paragraph) > 0 /\ Len(s.current) >= 0 /\ Len(<< >>) = 0
          /\ Len(paragraph) \in Nat /\ Len(s.current) \in Nat
      BY <1>1, <1>4
    <3> HIDE DEF both
    <3>3. QED BY <3>1, <3>2
  <2>3. Packed(text, new)
    BY <1>4, <1>6, <1>9, <2>1, <2>2 DEF Packed, S
  <2>4. FlattenSeq(Flush(new)) = FlattenSeq(s.chunks) \o both /\ Flush(new) # << >>
    <3>1. /\ FlattenSeq(Flush(new)) = FlattenSeq(new.chunks) \o new.current
          /\ Flush(new) = << >> => new.current = << >>
      BY <2>3, FlushKeeps
    <3>2. new.chunks = s.chunks /\ new.current = both
      BY <2>1
    <3> HIDE DEF both
    <3>3. QED BY <2>2, <3>1, <3>2, Zenon
  <2>5. FlattenSeq(s.chunks) \o both = (FlattenSeq(s.chunks) \o s.current) \o paragraph
    <3> DEFINE a == FlattenSeq(s.chunks)
               b == s.current
    <3>1. a \in Seq(S) /\ b \in Seq(S)
      BY <1>4
    <3> HIDE DEF a, b
    <3>2. (a \o b) \o paragraph = a \o (b \o paragraph)
      BY <1>1, <3>1, ConcatAssociative, SMTT(30)
    <3>3. QED BY <3>2 DEF a, b
  <2>6. QED BY <1>3, <2>3, <2>4, <2>5 DEF new, paragraph
<1>10. QED BY <1>7, <1>8, <1>9

\* A text is cut into chunks that fit, lose nothing and keep the order; a text
\* that is not blank has a chunk (chunk_text, hard_split).
THEOREM ChunksWhole ==
    ASSUME NEW text \in Text
    PROVE  /\ ChunkText(text) \in Seq(Seq(Place(text)))
           /\ \A k \in DOMAIN ChunkText(text) :
                 ChunkText(text)[k] # << >> /\ Bytes(text, ChunkText(text)[k]) <= Cap
           /\ FlattenSeq(ChunkText(text))
              = FlattenSeq([p \in DOMAIN text |-> Characters(text, p)])
           /\ ChunkText(text) = << >> <=> text = << >>
<1> DEFINE S == Place(text)
           V == [chunks : Seq(Seq(S)), current : Seq(S)]
           N == Len(text)
           all == [p \in DOMAIN text |-> Characters(text, p)]
           none == [chunks |-> << >>, current |-> << >>]
           step == [p \in 1 .. N |-> [s \in V |-> IF Packed(text, s) THEN Packing(text, s, p)
                                                ELSE s]]
           Packs(f) == f = [p \in 0 .. N |-> IF p = 0 THEN none ELSE Packing(text, f[p - 1], p)]
           pack == CHOOSE f : Packs(f)
           upto(n) == FlattenSeq(SubSeq(all, 1, n))
           Good(s, n) == /\ Packed(text, s) /\ FlattenSeq(Flush(s)) = upto(n)
                         /\ n > 0 => Flush(s) # << >>
<1>0. /\ N \in Nat /\ DOMAIN text = 1 .. N /\ none \in V /\ Packed(text, none)
      /\ Flush(none) = << >>
  BY DEF Text, Packed, Fit, Flush
<1>1. /\ all \in Seq(Seq(S)) /\ Len(all) = N
      /\ \A p \in 1 .. N : all[p] = Characters(text, p) /\ all[p] \in Seq(S)
  <2>1. \A p \in 1 .. N : Characters(text, p) \in Seq(S)
    BY <1>0, CharactersType
  <2>2. all = [p \in 1 .. N |-> Characters(text, p)]
    BY <1>0
  <2> HIDE DEF S, all
  <2>3. QED BY <1>0, <2>1, <2>2
<1> HIDE DEF all
<1>2. ASSUME NEW p \in 1 .. N, NEW s, Good(s, p - 1) PROVE Good(Packing(text, s, p), p)
  <2>1. /\ Packed(text, Packing(text, s, p)) /\ Flush(Packing(text, s, p)) # << >>
        /\ FlattenSeq(Flush(Packing(text, s, p)))
           = FlattenSeq(Flush(s)) \o Characters(text, p)
    BY <1>0, <1>2, PacksOne
  <2>2. upto(p) = upto(p - 1) \o all[p]
    <3> DEFINE before == SubSeq(all, 1, p - 1)
    <3>1. SubSeq(all, 1, p) = Append(before, all[p]) /\ before \in Seq(Seq(S))
      BY <1>0, <1>1
    <3> HIDE DEF before
    <3>2. FlattenSeq(Append(before, all[p])) = FlattenSeq(before) \o all[p]
      BY <1>1, <3>1, FlattenAppend
    <3>3. QED BY <3>1, <3>2 DEF before
  <2> HIDE DEF upto
  <2>3. QED BY <1>1, <1>2, <2>1, <2>2
<1>3. Good(none, 0)
  <2>1. upto(0) = << >> /\ FlattenSeq(Flush(none)) = << >>
    <3>1. SubSeq(all, 1, 0) = << >>
      BY <1>1
    <3>2. QED BY <1>0, <3>1 DEF FlattenSeq
  <2> HIDE DEF upto, none
  <2>2. QED BY <1>0, <2>1
<1>4. \A p \in 1 .. N : \A s \in V : Packed(text, s) => Packing(text, s, p) \in V
  <2>1. ASSUME NEW p \in 1 .. N, NEW s \in V, Packed(text, s) PROVE Packed(text, Packing(text, s, p))
    BY <1>0, <2>1, PacksOne
  <2>2. QED BY <2>1 DEF Packed
<1> HIDE DEF S, V, upto, none
<1>5. step \in [1 .. N -> [V -> V]]
  BY <1>4
<1>6. PICK f \in [0 .. N -> V] : Stepwise(f, none, N, step)
  <2> HIDE DEF step, N
  <2>1. QED BY <1>0, <1>5, StepsRun, ZenonT(40)
<1>7. \A p \in 1 .. N : p - 1 \in 0 .. N /\ f[p - 1] \in V /\ f[p] = step[p][f[p - 1]]
  <2> HIDE DEF step
  <2>1. ASSUME NEW p \in 1 .. N PROVE p - 1 \in 0 .. N /\ f[p] = step[p][f[p - 1]]
    BY <1>0, <1>6 DEF Stepwise
  <2>2. \A p \in 0 .. N : f[p] \in V
    OBVIOUS
  <2>3. QED BY <2>1, <2>2
<1>8. f[0] = none
  BY <1>6 DEF Stepwise
<1> DEFINE T == {n \in 0 .. N : Good(f[n], n)}
<1>9. 0 \in T
  BY <1>0, <1>3, <1>8
<1>10. ASSUME NEW p \in 1 .. N, p - 1 \in T PROVE p \in T /\ f[p] = Packing(text, f[p - 1], p)
  <2>1. Good(f[p - 1], p - 1)
    BY <1>10
  <2>2. Packed(text, f[p - 1])
    BY <2>1
  <2>3. f[p] = Packing(text, f[p - 1], p)
    BY <1>7, <2>2
  <2> HIDE DEF Good
  <2>4. QED BY <1>0, <1>2, <2>1, <2>3
<1> HIDE DEF step, Good
<1>11. 0 .. N \subseteq T
  <2>1. \A p \in 1 .. N : p - 1 \in T => p \in T
    BY <1>10
  <2> HIDE DEF T, N
  <2>2. QED BY <1>0, <1>9, <2>1, Upwards
<1>12. \A p \in 1 .. N : p - 1 \in 0 .. N /\ f[p] = Packing(text, f[p - 1], p)
  <2>1. ASSUME NEW p \in 1 .. N PROVE p - 1 \in T
    <3> HIDE DEF T
    <3>1. QED BY <1>7, <1>11
  <2> HIDE DEF T
  <2>2. QED BY <1>7, <1>10, <2>1
<1>13. Packs(f)
  <2> DEFINE val(p) == IF p = 0 THEN none ELSE Packing(text, f[p - 1], p)
  <2>1. ASSUME NEW p \in 0 .. N PROVE f[p] = val(p)
    <3>1. p = 0 \/ (p # 0 /\ p \in 1 .. N)
      BY <1>0
    <3>2. QED BY <1>8, <1>12, <3>1
  <2> HIDE DEF val
  <2>2. f = [p \in 0 .. N |-> val(p)]
    BY <2>1
  <2>3. QED BY <2>2 DEF val
<1>14. Packs(pack)
  <2> HIDE DEF Packs
  <2>1. QED BY <1>13, Zenon
<1>15. Pack(text) = pack[N]
  BY SMTT(30) DEF Pack, none
<1> HIDE DEF pack
<1> DEFINE U == {n \in 0 .. N : pack[n] = f[n]}
<1>16. 0 .. N \subseteq U
  <2>1. 0 \in U
    BY <1>0, <1>8, <1>14
  <2>2. ASSUME NEW p \in 1 .. N, p - 1 \in U PROVE p \in U
    <3>1. f[p] = Packing(text, f[p - 1], p)
      BY <1>12
    <3>2. pack[p] = Packing(text, pack[p - 1], p)
      BY <1>0, <1>14
    <3>3. QED BY <2>2, <3>1, <3>2
  <2> HIDE DEF U, N
  <2>3. QED BY <1>0, <2>1, <2>2, Upwards
<1>17. N \in U /\ N \in T
  <2> HIDE DEF U, T
  <2>1. QED BY <1>0, <1>11, <1>16
<1>18. Good(Pack(text), N)
  BY <1>15, <1>17
<1>19. Packed(text, Pack(text)) /\ FlattenSeq(ChunkText(text)) = FlattenSeq(all)
  <2>1. SubSeq(all, 1, N) = all
    BY <1>1
  <2>2. QED BY <1>18, <2>1 DEF Good, upto, ChunkText
<1>20. ChunkText(text) \in Seq(Seq(S)) /\ Fit(text, ChunkText(text))
  BY <1>19, FlushKeeps DEF ChunkText, S
<1>21. ChunkText(text) = << >> <=> text = << >>
  <2>1. N > 0 => ChunkText(text) # << >>
    BY <1>18 DEF Good, ChunkText
  <2>2. ASSUME N = 0 PROVE ChunkText(text) = << >>
    BY <1>0, <1>8, <1>15, <1>17, <2>2 DEF ChunkText
  <2>3. text = << >> <=> N = 0
    BY <1>0 DEF Text
  <2>4. QED BY <1>0, <2>1, <2>2, <2>3
<1>22. QED BY <1>19, <1>20, <1>21 DEF all, S, Fit

(***************************************************************************)
(* What every step of a run, and of the editor, keeps.                      *)
(***************************************************************************)
ScanFields == {"at", "filter", "conversation", "hook", "override", "line", "count", "cut", "split",
               "session", "todo", "yielded", "blind", "due"}

Folders == {FolderOf[w] : w \in DOMAIN ComposersOf}

\* The items in the store, and those on the way.
Items == {memory[id] : id \in DOMAIN memory} \cup ToSet(scan.yielded)

\* The kinds of values.
Kinds ==
    /\ editor \in {"claude", "codex", "cursor", "dir"}
    /\ written \in Nat /\ piece \in {"none", "head", "all"}
    /\ Transcript => /\ written <= Len(Script) /\ (piece # "none" => written < Len(Script))
                     /\ grown = {}
    /\ draft \in [Bubble -> Nat] /\ \A b \in Bubble : draft[b] <= Len(Drafts[b])
    /\ file \in FileTexts \cup {NoFile}
    /\ DOMAIN scan = ScanFields
    /\ scan.override \in {NoValue, Override} /\ scan.line \in Nat /\ scan.count \in Nat
    /\ scan.cut \in {"no", "head", "all"} /\ scan.split \in BOOLEAN /\ scan.blind \in BOOLEAN
    /\ scan.hook \in BOOLEAN
    /\ scan.yielded \in Seq(ToSet(scan.yielded))
    /\ scan.todo \in Seq([bubble : Bubble, folder : Folders])
    /\ \A id \in DOMAIN memory : memory[id].id = id

\* Where the reader of a transcript is: until it meets a line in two pieces its
\* count is the number of lines and its session that of the line.
Reading ==
    /\ \A k \in DOMAIN scan.todo : draft[scan.todo[k].bubble] > 0
    /\ Transcript /\ scan.at = "read" =>
          /\ scan.line <= written
          /\ scan.cut = "no" /\ ~scan.split =>
                scan.count = scan.line /\ (editor = "codex" => scan.session = SessionOf(scan.line))
    /\ editor = "cursor" /\ scan.at = "read" => scan.yielded = << >>

\* One of the chunks of its text, with the suffix that says which.
Cut(item) ==
    /\ item.text \in Text
    /\ \E k \in DOMAIN ChunkText(item.text) :
          /\ item.chunk = ChunkText(item.text)[k]
          /\ item.id[2] = IF Len(ChunkText(item.text)) = 1 THEN Whole ELSE k

\* An item of a message that has not changed since has its text; it has its
\* name and its scope, unless the line was numbered wrong.
Sound(item) ==
    /\ Cut(item)
    /\ item.message \notin grown => item.text = TextOf(item.message)
    /\ editor = "cursor" => item.message \in Bubble
    /\ editor = "dir" =>
          item.message = "file" /\ item.hash = item.text /\ item.text \in FileTexts
    /\ ~(editor = "codex" /\ item.split) =>
          /\ item.id[1] = NameOf(item.message)
          /\ Transcript => item.scope \in {Override, CwdOf(item.message)}

Sounds == \A item \in Items : Sound(item)

\* The names of the chunks of a text.
IdsOf(name, text) ==
    {<<name, IF Len(ChunkText(text)) = 1 THEN Whole ELSE k>> : k \in DOMAIN ChunkText(text)}

Ids(m) == IdsOf(NameOf(m), TextOf(m))

Seen(m) == Ids(m) \subseteq {item.id : item \in ToSet(scan.yielded)}

Kept(m) ==
    /\ Ids(m) \subseteq DOMAIN memory
    /\ editor = "dir" => \A id \in Ids(m) : memory[id].text = TextOf(m)

\* The run will look once more, in every workspace.
Again ==
    /\ editor = "cursor" /\ scan.hook /\ scan.conversation # NoValue
    /\ scan.yielded = << >> /\ scan.todo = << >>

\* How far a run has come with a message that was there when it began.
Covered(m) ==
    /\ Transcript /\ scan.at = "read" =>
          /\ m <= scan.line => Seen(m)
          /\ scan.cut # "no" \/ scan.split => m <= scan.line
    /\ scan.at = "bubbles" => Seen(m) \/ Again \/ \E k \in DOMAIN scan.todo : scan.todo[k].bubble = m
    /\ scan.at = "ingest" => Seen(m) \/ Again
    /\ scan.at = "ingest" /\ editor = "dir" =>
          \A item \in ToSet(scan.yielded) : item.text = TextOf(m)
    /\ scan.at = "done" => Kept(m)

Coverage ==
    /\ scan.due \subseteq Due(scan.filter, scan.conversation, scan.hook)
    /\ ~scan.blind => \A m \in scan.due : Covered(m)

Faithful == Kinds /\ Reading /\ Sounds /\ Coverage

\* A sequence is one of its own members.
LEMMA OwnMembers ==
    ASSUME NEW S, NEW s \in Seq(S)
    PROVE  s \in Seq(ToSet(s)) /\ ToSet(s) \subseteq S /\ DOMAIN s = 1 .. Len(s)
BY DEF ToSet

\* The same of two sequences of their own members.
LEMMA Concats ==
    ASSUME NEW a, NEW b, a \in Seq(ToSet(a)), b \in Seq(ToSet(b))
    PROVE  /\ a \o b \in Seq(ToSet(a \o b))
           /\ \A x : x \in ToSet(a \o b) <=> x \in ToSet(a) \/ x \in ToSet(b)
           /\ b # << >> => a \o b # << >>
<1> DEFINE S == ToSet(a) \cup ToSet(b)
<1>1. a \in Seq(S) /\ b \in Seq(S)
  OBVIOUS
<1>2. \A x : x \in ToSet(a \o b) <=> x \in ToSet(a) \/ x \in ToSet(b)
  <2> HIDE DEF S
  <2>1. QED BY <1>1, MembersOfConcat
<1>3. a \o b \in Seq(S) /\ Len(a \o b) = Len(a) + Len(b)
  <2> HIDE DEF S
  <2>1. QED BY <1>1
<1>4. a \o b \in Seq(ToSet(a \o b))
  <2> HIDE DEF S
  <2>1. QED BY <1>3, OwnMembers
<1>5. b # << >> => Len(b) > 0 /\ Len(b) \in Nat /\ Len(a) \in Nat
  <2> HIDE DEF S
  <2>1. QED BY <1>1
<1>6. b # << >> => a \o b # << >>
  <2> HIDE DEF S
  <2>1. Len(<< >>) = 0
    OBVIOUS
  <2>2. QED BY <1>3, <1>5, <2>1
<1>7. QED BY <1>2, <1>4, <1>6

\* What the items of a message are (Yield).
LEMMA YieldMakes ==
    ASSUME NEW name, NEW m, NEW text \in Text, NEW cwd
    PROVE  /\ Yield(name, m, text, cwd) \in Seq(ToSet(Yield(name, m, text, cwd)))
           /\ {item.id : item \in ToSet(Yield(name, m, text, cwd))} = IdsOf(name, text)
           /\ \A item \in ToSet(Yield(name, m, text, cwd)) :
                 /\ Cut(item) /\ item.id[1] = name /\ item.message = m /\ item.text = text
                 /\ item.split = scan.split
                 /\ item.hash = IF editor = "dir" THEN text ELSE NoValue
                 /\ item.scope = IF scan.override # NoValue THEN scan.override ELSE cwd
<1> DEFINE chunks == ChunkText(text)
           got == Yield(name, m, text, cwd)
           suffix(k) == IF Len(chunks) = 1 THEN Whole ELSE k
           made(k) == [id |-> <<name, suffix(k)>>, message |-> m, text |-> text,
                       chunk |-> chunks[k], split |-> scan.split,
                       hash |-> IF editor = "dir" THEN text ELSE NoValue,
                       scope |-> IF scan.override # NoValue THEN scan.override ELSE cwd]
<1>1. chunks \in Seq(Seq(Place(text))) /\ Len(chunks) \in Nat /\ DOMAIN chunks = 1 .. Len(chunks)
  <2> DEFINE S == Seq(Place(text))
  <2>1. chunks \in Seq(S)
    BY ChunksWhole
  <2> HIDE DEF chunks, S
  <2>2. Len(chunks) \in Nat /\ DOMAIN chunks = 1 .. Len(chunks)
    BY <2>1
  <2>3. QED BY <2>1, <2>2 DEF S
<1>2. got = [k \in DOMAIN chunks |-> made(k)]
  BY DEF Yield
<1>3. ASSUME NEW k \in DOMAIN chunks
      PROVE  /\ Cut(made(k)) /\ made(k).id[1] = name /\ made(k).message = m
             /\ made(k).text = text /\ made(k).split = scan.split
             /\ made(k).hash = (IF editor = "dir" THEN text ELSE NoValue)
             /\ made(k).scope = IF scan.override # NoValue THEN scan.override ELSE cwd
  <2>1. made(k).text = text /\ made(k).chunk = chunks[k] /\ made(k).id[2] = suffix(k)
    OBVIOUS
  <2>2. \E j \in DOMAIN ChunkText(made(k).text) :
           /\ made(k).chunk = ChunkText(made(k).text)[j]
           /\ made(k).id[2] = IF Len(ChunkText(made(k).text)) = 1 THEN Whole ELSE j
    BY <1>3, <2>1
  <2>3. Cut(made(k))
    BY <2>1, <2>2 DEF Cut
  <2>4. QED BY <2>3
<1> HIDE DEF chunks, made
<1>4. /\ got \in Seq(ToSet(got))
      /\ ToSet(got) = {made(k) : k \in DOMAIN chunks}
  <2>1. got \in Seq({made(k) : k \in DOMAIN chunks})
    BY <1>1, <1>2
  <2>2. DOMAIN got = DOMAIN chunks /\ \A k \in DOMAIN chunks : got[k] = made(k)
    BY <1>2
  <2> HIDE DEF got
  <2>3. ToSet(got) = {made(k) : k \in DOMAIN chunks}
    BY <2>2 DEF ToSet
  <2>4. QED BY <2>1, <2>3
<1>5. {item.id : item \in ToSet(got)} = IdsOf(name, text)
  <2>1. {item.id : item \in ToSet(got)} = {made(k).id : k \in DOMAIN chunks}
    <3> HIDE DEF got
    <3>1. QED BY <1>4
  <2>2. \A k \in DOMAIN chunks : made(k).id = <<name, suffix(k)>>
    BY DEF made
  <2>3. {made(k).id : k \in DOMAIN chunks} = {<<name, suffix(k)>> : k \in DOMAIN chunks}
    <3> HIDE DEF suffix
    <3>1. QED BY <2>2
  <2>4. QED BY <2>1, <2>3 DEF IdsOf, chunks
<1> HIDE DEF got
<1>6. \A item \in ToSet(got) : \E k \in DOMAIN chunks : item = made(k)
  BY <1>4
<1>7. QED
  <2>1. ASSUME NEW item \in ToSet(got)
        PROVE  /\ Cut(item) /\ item.id[1] = name /\ item.message = m /\ item.text = text
               /\ item.split = scan.split
               /\ item.hash = (IF editor = "dir" THEN text ELSE NoValue)
               /\ item.scope = IF scan.override # NoValue THEN scan.override ELSE cwd
    BY <1>3, <1>6
  <2>2. QED BY <1>4, <1>5, <2>1 DEF got

\* An item stays sound while the texts stay.
LEMMA SoundKept ==
    ASSUME NEW item, Sound(item), editor' = editor, draft' = draft, file' = file,
           grown' = grown
    PROVE  Sound(item)'
BY DEF Sound, TextOf, NameOf, CwdOf, Transcript, Script

NamesOf(got) == {item.id : item \in ToSet(got)}

\* What ingest_source stores is what was there or what was yielded.
LEMMA IngestedFrom ==
    ASSUME NEW got, got \in Seq(ToSet(got))
    PROVE  /\ DOMAIN Ingested(got) = DOMAIN memory \cup NamesOf(got)
           /\ \A id \in DOMAIN Ingested(got) :
                 \/ id \in DOMAIN memory /\ Ingested(got)[id] = memory[id]
                    /\ (id \in NamesOf(got) =>
                          \E item \in ToSet(got) :
                             /\ item.id = id
                             /\ NoValue \in {item.hash, memory[id].hash}
                                \/ item.hash = memory[id].hash)
                 \/ \E item \in ToSet(got) : item.id = id /\ Ingested(got)[id] = item
<1> DEFINE names == {got[k].id : k \in DOMAIN got}
           K(id) == {k \in DOMAIN got : got[k].id = id}
           first(id) == got[Min(K(id))]
           new == Ingested(got)
           value(id) ==
              IF id \notin names THEN memory[id]
              ELSE IF id \notin DOMAIN memory THEN first(id)
              ELSE IF NoValue \notin {first(id).hash, memory[id].hash}
                      /\ first(id).hash # memory[id].hash
              THEN first(id)
              ELSE memory[id]
<1>1. new = [id \in DOMAIN memory \cup names |-> value(id)]
  BY DEF Ingested
<1>2. names = NamesOf(got)
  BY DEF ToSet, NamesOf
<1>3. ASSUME NEW id \in names PROVE first(id) \in ToSet(got) /\ first(id).id = id
  <2>1. K(id) # {} /\ K(id) \subseteq Nat
    BY <1>3
  <2>2. PICK k \in K(id) : \A j \in K(id) : k <= j
    BY <2>1, Least
  <2>3. Min(K(id)) \in K(id)
    BY <2>1, <2>2 DEF Min
  <2>4. QED BY <2>3 DEF ToSet
<1> HIDE DEF names, first
<1>4. DOMAIN new = DOMAIN memory \cup names /\ \A id \in DOMAIN new : new[id] = value(id)
  BY <1>1
<1> HIDE DEF new
<1>5. ASSUME NEW id \in DOMAIN new
      PROVE  \/ id \in DOMAIN memory /\ new[id] = memory[id]
                /\ (id \in names =>
                      \E item \in ToSet(got) :
                         /\ item.id = id
                         /\ NoValue \in {item.hash, memory[id].hash}
                            \/ item.hash = memory[id].hash)
             \/ \E item \in ToSet(got) : item.id = id /\ new[id] = item
  <2>1. CASE id \notin names
    BY <1>4, <2>1
  <2>2. CASE id \in names
    BY <1>3, <1>4, <2>2
  <2>3. QED BY <2>1, <2>2
<1>6. QED BY <1>2, <1>4, <1>5 DEF new

(***************************************************************************)
(* Steps that leave the texts alone.                                        *)
(***************************************************************************)
LEMMA SameText ==
    ASSUME editor' = editor, draft' = draft, file' = file, NEW m
    PROVE  TextOf(m)' = TextOf(m) /\ NameOf(m)' = NameOf(m) /\ Ids(m)' = Ids(m)
<1>1. TextOf(m)' = TextOf(m) /\ NameOf(m)' = NameOf(m)
  BY DEF TextOf, NameOf, Transcript, Script
<1>2. QED BY <1>1 DEF Ids

\* What a run owes, for each kind of source (items, hook_ingest_cursor).
LEMMA DueOf ==
    ASSUME NEW filter, NEW conversation, NEW hook
    PROVE  /\ Transcript => Due(filter, conversation, hook)
                            = {l \in 1 .. written : Spoken(l) /\ Passes(filter, CwdOf(l))}
           /\ editor = "dir" => Due(filter, conversation, hook)
                                = IF file = NoFile \/ file = << >> THEN {} ELSE {"file"}
           /\ editor = "cursor" =>
                Due(filter, conversation, hook) =
                  {b \in Bubble :
                    /\ draft[b] > 0 /\ Drafts[b][draft[b]] # << >>
                    /\ \E c \in DOMAIN BubblesOf :
                          /\ b \in ToSet(BubblesOf[c]) /\ conversation \in {NoValue, c}
                          /\ \E w \in ListedBy(c) :
                                Passes(filter, FolderOf[w]) \/ (hook /\ conversation # NoValue)}
BY DEF Due, Transcript

\* Items that were there, or are sound, are sound.
LEMMA SoundsFrom ==
    ASSUME Sounds, editor' = editor, draft' = draft, file' = file, grown' = grown,
           \A item \in Items' : item \in Items \/ Sound(item)
    PROVE  Sounds'
<1>1. ASSUME NEW item \in Items' PROVE Sound(item)'
  <2>1. Sound(item)
    BY DEF Sounds
  <2>2. QED BY <2>1, SoundKept
<1>2. QED BY <1>1 DEF Sounds

\* What a run owes stays while the texts stay.
LEMMA DueKept ==
    ASSUME editor' = editor, written' = written, draft' = draft, file' = file,
           scan'.filter = scan.filter, scan'.conversation = scan.conversation,
           scan'.hook = scan.hook
    PROVE  Due(scan.filter, scan.conversation, scan.hook)'
           = Due(scan.filter, scan.conversation, scan.hook)
BY DEF Due, Transcript, Script, Spoken, CwdOf

\* What was yielded stays yielded.
LEMMA SeenGrows ==
    ASSUME editor' = editor, draft' = draft, file' = file, NEW m, Seen(m),
           \A item \in ToSet(scan.yielded) : item \in ToSet(scan.yielded')
    PROVE  Seen(m)'
<1>1. Ids(m)' = Ids(m)
  BY SameText
<1>2. QED BY <1>1 DEF Seen

\* The first state keeps the invariant.
LEMMA FirstFaithful == ASSUME SourcesInit PROVE Faithful
<1>1. /\ DOMAIN scan = ScanFields /\ scan.override = NoValue /\ scan.line = 0 /\ scan.count = 0
      /\ scan.cut = "no" /\ ~scan.split /\ ~scan.blind /\ scan.hook = FALSE
      /\ scan.split \in BOOLEAN /\ scan.blind \in BOOLEAN
      /\ scan.yielded = << >> /\ scan.todo = << >> /\ scan.due = {} /\ scan.at = "idle"
  BY DEF SourcesInit, NoScan, ScanFields
<1>2. ToSet(<< >>) = {} /\ << >> \in Seq(ToSet(<< >>)) /\ DOMAIN << >> = {}
  BY DEF ToSet
<1>3. Kinds
  <2>1. Transcript => written <= Len(Script) /\ piece = "none" /\ grown = {}
    BY LinesAssumption DEF SourcesInit, Script
  <2>2. draft \in [Bubble -> Nat] /\ \A b \in Bubble : draft[b] <= Len(Drafts[b])
    BY ChatsAssumption DEF SourcesInit, Bubble
  <2>3. << >> \in Seq([bubble : Bubble, folder : Folders])
    OBVIOUS
  <2>4. \A id \in DOMAIN memory : memory[id].id = id
    BY <1>2 DEF SourcesInit
  <2>5. /\ editor \in {"claude", "codex", "cursor", "dir"} /\ written = 0 /\ piece = "none"
        /\ file = NoFile
    BY DEF SourcesInit
  <2>6. scan.yielded \in Seq(ToSet(scan.yielded))
    BY <1>1, <1>2, Zenon
  <2>7. scan.todo \in Seq([bubble : Bubble, folder : Folders])
    BY <1>1, <2>3, Zenon
  <2>8. scan.hook \in BOOLEAN
    BY <1>1, Zenon
  <2>9. /\ DOMAIN scan = ScanFields
        /\ scan.override \in {NoValue, Override} /\ scan.line \in Nat /\ scan.count \in Nat
        /\ scan.cut \in {"no", "head", "all"} /\ scan.split \in BOOLEAN
        /\ scan.blind \in BOOLEAN
    BY <1>1
  <2>10. QED BY <2>1, <2>2, <2>4, <2>5, <2>6, <2>7, <2>8, <2>9 DEF Kinds
<1>4. Items = {}
  BY <1>1, <1>2 DEF Items, SourcesInit
<1>5. Reading /\ Sounds /\ Coverage
  BY <1>1, <1>2, <1>4 DEF Reading, Sounds, Coverage
<1>6. QED BY <1>3, <1>5 DEF Faithful

\* A run begins.
LEMMA BeginFaithful ==
    ASSUME Faithful, NEW filter, NEW conversation, NEW hook \in BOOLEAN,
           NEW override \in {NoValue, Override}, Begin(filter, conversation, hook, override)
    PROVE  Faithful'
<1>1. /\ DOMAIN scan' = ScanFields /\ scan'.override = override
      /\ scan'.line = 0 /\ scan'.count = 0
      /\ scan'.cut = "no" /\ ~scan'.split /\ ~scan'.blind /\ scan'.hook = hook
      /\ scan'.split \in BOOLEAN /\ scan'.blind \in BOOLEAN
      /\ scan'.yielded = << >> /\ scan'.todo = << >> /\ scan'.at = "read"
      /\ scan'.filter = filter /\ scan'.conversation = conversation
      /\ scan'.session = [id |-> Stem, cwd |-> NoValue]
      /\ scan'.due = Due(filter, conversation, hook)
  BY DEF Begin, NoScan, ScanFields
<1>2. UNCHANGED <<editor, written, piece, draft, file, memory, grown>>
  BY DEF Begin
<1>3. ToSet(<< >>) = {} /\ << >> \in Seq(ToSet(<< >>)) /\ DOMAIN << >> = {}
  BY DEF ToSet
<1>4. Kinds'
  <2>1. Transcript' <=> Transcript
    BY <1>2 DEF Transcript
  <2>2. Script' = Script
    BY <1>2 DEF Script
  <2>3. << >> \in Seq([bubble : Bubble, folder : Folders])
    OBVIOUS
  <2>4. QED BY <1>1, <1>2, <1>3, <2>1, <2>2, <2>3 DEF Faithful, Kinds
<1>5. Reading'
  <2>1. SessionOf(0) = [id |-> Stem, cwd |-> NoValue]
    BY DEF SessionOf
  <2>2. 0 <= written
    BY DEF Faithful, Kinds
  <2>3. QED BY <1>1, <1>2, <1>3, <2>1, <2>2 DEF Reading
<1>6. Sounds'
  <2>1. \A item \in Items' : item \in Items
    BY <1>1, <1>2, <1>3 DEF Items
  <2>2. QED BY <1>2, <2>1, SoundsFrom DEF Faithful
<1>7. Coverage'
  <2>1. scan'.due = Due(scan.filter, scan.conversation, scan.hook)'
    <3> DEFINE due == scan'.due
    <3>1. /\ Transcript' <=> Transcript
          /\ Script' = Script
          /\ \A l : Spoken(l)' <=> Spoken(l)
          /\ \A l : CwdOf(l)' = CwdOf(l)
      BY <1>2 DEF Transcript, Script, Spoken, CwdOf
    <3>2. CASE Transcript
      BY <1>1, <1>2, <3>1, <3>2 DEF Due
    <3>3. CASE ~Transcript /\ editor = "dir"
      BY <1>1, <1>2, <3>1, <3>3 DEF Due
    <3>4. CASE ~Transcript /\ editor # "dir"
      BY <1>1, <1>2, <3>1, <3>4 DEF Due
    <3>5. QED BY <3>2, <3>3, <3>4
  <2>2. ASSUME NEW m \in scan'.due, Transcript PROVE m \in Nat /\ m > 0
    <3>1. Due(filter, conversation, hook)
          = {l \in 1 .. written : Spoken(l) /\ Passes(filter, CwdOf(l))}
      BY <2>2 DEF Due, Transcript
    <3>2. m \in 1 .. written
      BY <1>1, <3>1
    <3>3. QED BY <3>2 DEF Faithful, Kinds
  <2>3. Transcript' <=> Transcript
    BY <1>2 DEF Transcript
  <2>4. ASSUME NEW m \in scan'.due PROVE Covered(m)'
    <3>1. Transcript' => ~(m <= scan'.line)
      BY <1>1, <2>2, <2>3, <2>4
    <3>2. QED BY <1>1, <3>1 DEF Covered
  <2>5. QED BY <2>1, <2>4 DEF Coverage
<1>8. QED BY <1>4, <1>5, <1>6, <1>7 DEF Faithful

Steady == UNCHANGED <<editor, written, piece, draft, file, memory, grown>>

\* A step of a run keeps the kinds of values.
LEMMA KindsOf ==
    ASSUME Kinds, Steady, DOMAIN scan' = ScanFields, scan'.override = scan.override,
           scan'.hook \in BOOLEAN, scan'.line \in Nat, scan'.count \in Nat,
           scan'.cut \in {"no", "head", "all"}, scan'.split \in BOOLEAN, scan'.blind \in BOOLEAN,
           scan'.yielded \in Seq(ToSet(scan'.yielded)),
           scan'.todo \in Seq([bubble : Bubble, folder : Folders])
    PROVE  Kinds'
<1>1. (Transcript' <=> Transcript) /\ Script' = Script
  BY DEF Steady, Transcript, Script
<1>2. QED BY <1>1 DEF Kinds, Steady

\* A step that covers what was covered keeps Coverage.
LEMMA CoverageOf ==
    ASSUME Coverage, Steady, scan'.due = scan.due, scan'.filter = scan.filter,
           scan'.conversation = scan.conversation, scan'.hook = scan.hook,
           scan.blind => scan'.blind,
           \A m \in scan.due : ~scan'.blind /\ Covered(m) => Covered(m)'
    PROVE  Coverage'
<1>1. Due(scan.filter, scan.conversation, scan.hook)'
      = Due(scan.filter, scan.conversation, scan.hook)
  BY DueKept DEF Steady
<1>2. (scan.due \subseteq Due(scan.filter, scan.conversation, scan.hook))'
  BY <1>1 DEF Coverage
<1>3. QED BY <1>2 DEF Coverage

\* The end of a transcript.
LEMMA EndOfFileFaithful == ASSUME Faithful, EndOfFile PROVE Faithful'
<1>1. /\ Steady /\ scan' = [scan EXCEPT !.at = "ingest"] /\ DOMAIN scan = ScanFields
      /\ Transcript /\ scan.at = "read" /\ scan.line = written
  BY DEF EndOfFile, Steady, Faithful, Kinds
<1>2. /\ DOMAIN scan' = ScanFields /\ scan'.at = "ingest"
      /\ \A field \in ScanFields \ {"at"} : scan'[field] = scan[field]
  BY <1>1 DEF ScanFields
<1>3. Kinds'
  BY <1>1, <1>2, KindsOf DEF Faithful, Kinds, ScanFields
<1>4. editor' = editor /\ draft' = draft /\ file' = file /\ grown' = grown /\ memory' = memory
      /\ scan'.yielded = scan.yielded /\ scan'.todo = scan.todo /\ editor # "cursor"
      /\ editor # "dir"
  BY <1>1, <1>2 DEF Steady, ScanFields, Transcript
<1>5. Reading'
  BY <1>2, <1>4 DEF Faithful, Reading
<1>6. Sounds'
  BY <1>4, SoundsFrom DEF Faithful, Items
<1>7. ASSUME NEW m \in scan.due, Covered(m) PROVE Covered(m)'
  <2>1. m \in 1 .. written
    BY <1>1, <1>7, DueOf DEF Faithful, Coverage
  <2>2. Seen(m)
    BY <1>1, <1>7, <2>1 DEF Covered, Faithful, Kinds
  <2>3. Seen(m)'
    BY <1>4, <2>2, SeenGrows
  <2>4. QED BY <1>2, <1>4, <2>3 DEF Covered
<1>8. Coverage'
  BY <1>1, <1>2, <1>7, CoverageOf DEF Faithful, ScanFields
<1>9. QED BY <1>3, <1>5, <1>6, <1>8 DEF Faithful

\* The last bubble of the headers.
LEMMA LastBubbleFaithful == ASSUME Faithful, LastBubble PROVE Faithful'
<1>1. /\ Steady /\ scan' = [scan EXCEPT !.at = "ingest"] /\ DOMAIN scan = ScanFields
      /\ editor = "cursor" /\ scan.at = "bubbles" /\ scan.todo = << >>
  BY DEF LastBubble, Steady, Faithful, Kinds
<1>2. /\ DOMAIN scan' = ScanFields /\ scan'.at = "ingest"
      /\ \A field \in ScanFields \ {"at"} : scan'[field] = scan[field]
  BY <1>1 DEF ScanFields
<1>3. Kinds'
  BY <1>1, <1>2, KindsOf DEF Faithful, Kinds, ScanFields
<1>4. editor' = editor /\ draft' = draft /\ file' = file /\ grown' = grown /\ memory' = memory
      /\ scan'.yielded = scan.yielded /\ scan'.todo = scan.todo /\ scan'.hook = scan.hook
      /\ scan'.conversation = scan.conversation
  BY <1>1, <1>2 DEF Steady, ScanFields
<1>5. Reading'
  BY <1>1, <1>2, <1>4 DEF Faithful, Reading
<1>6. Sounds'
  BY <1>4, SoundsFrom DEF Faithful, Items
<1>7. ASSUME NEW m \in scan.due, Covered(m) PROVE Covered(m)'
  <2>1. Seen(m) \/ Again
    <3>1. DOMAIN scan.todo = {}
      BY <1>1
    <3>2. QED BY <1>1, <1>7, <3>1 DEF Covered
  <2>2. Seen(m)' \/ Again'
    <3>1. Again => Again'
      BY <1>4 DEF Again
    <3>2. QED BY <1>4, <2>1, <3>1, SeenGrows
  <2>3. editor' # "dir" /\ ~Transcript'
    BY <1>1, <1>4 DEF Transcript
  <2>4. QED BY <1>2, <2>2, <2>3 DEF Covered
<1>8. Coverage'
  BY <1>1, <1>2, <1>7, CoverageOf DEF Faithful, ScanFields
<1>9. QED BY <1>3, <1>5, <1>6, <1>8 DEF Faithful

\* What was covered stays covered while the run only looks elsewhere.
LEMMA CoveredSame ==
    ASSUME NEW m, Covered(m), memory' = memory, editor' = editor, TextOf(m)' = TextOf(m),
           scan'.at = scan.at, scan'.line = scan.line, scan'.cut = scan.cut,
           scan'.split = scan.split, scan'.todo = scan.todo, scan'.yielded = scan.yielded,
           scan'.hook = scan.hook, scan'.conversation = scan.conversation
    PROVE  Covered(m)'
<1>1. (Transcript' <=> Transcript) /\ NameOf(m)' = NameOf(m)
  BY DEF Transcript, NameOf
<1>2. Ids(m)' = Ids(m)
  BY <1>1 DEF Ids
<1>3. (Seen(m)' <=> Seen(m)) /\ (Kept(m)' <=> Kept(m)) /\ (Again' <=> Again)
  BY <1>2 DEF Seen, Kept, Again
<1>4. QED BY <1>1, <1>3 DEF Covered

\* The editor writes a line.
LEMMA WriteLineFaithful == ASSUME Faithful, WriteLine PROVE Faithful'
<1>1. /\ Transcript /\ written < Len(Script) /\ UNCHANGED <<editor, draft, file, memory, grown, scan>>
      /\ \/ piece' \in {"head", "all"} /\ written' = written
         \/ piece' = "none" /\ written' = written + 1
  BY DEF WriteLine
<1>2. /\ Transcript' /\ Script' = Script /\ \A l : Spoken(l)' <=> Spoken(l)
      /\ \A l : CwdOf(l)' = CwdOf(l)
  BY <1>1 DEF Transcript, Script, Spoken, CwdOf
<1>3. Len(Script) \in Nat /\ written \in Nat
  BY <1>1, LinesAssumption DEF Faithful, Kinds, Script
<1>4. written' \in Nat /\ written <= written' /\ written' <= Len(Script)
      /\ (piece' # "none" => written' < Len(Script)) /\ piece' \in {"none", "head", "all"}
  BY <1>1, <1>3
<1>5. Kinds'
  BY <1>1, <1>2, <1>4 DEF Faithful, Kinds
<1>6. Reading'
  <2>1. scan.at = "read" => scan.line <= written'
    BY <1>1, <1>3, <1>4 DEF Faithful, Kinds, Reading
  <2>2. QED BY <1>1, <1>2, <2>1 DEF Faithful, Reading
<1>7. Sounds'
  BY <1>1, SoundsFrom DEF Faithful, Items
<1>8. (scan.due \subseteq Due(scan.filter, scan.conversation, scan.hook))'
  <2>1. Due(scan.filter, scan.conversation, scan.hook)
        = {l \in 1 .. written : Spoken(l) /\ Passes(scan.filter, CwdOf(l))}
    BY <1>1, DueOf
  <2>2. Due(scan.filter, scan.conversation, scan.hook)'
        = {l \in 1 .. written' : Spoken(l)' /\ Passes(scan.filter', CwdOf(l)')}
    BY <1>2 DEF Due, Transcript
  <2>3. 1 .. written \subseteq 1 .. written'
    BY <1>3, <1>4
  <2>4. QED BY <1>1, <1>2, <2>1, <2>2, <2>3 DEF Faithful, Coverage
<1>9. Coverage'
  <2>1. ASSUME NEW m, Covered(m) PROVE Covered(m)'
    BY <1>1, <2>1, SameText, CoveredSame
  <2>2. QED BY <1>1, <1>8, <2>1 DEF Faithful, Coverage
<1>10. QED BY <1>5, <1>6, <1>7, <1>9 DEF Faithful

\* The file of a directory is read.
LEMMA FileFaithful == ASSUME Faithful, FileToItems PROVE Faithful'
<1> DEFINE got == IF file = NoFile THEN << >> ELSE Yield("file", "file", file, Directory)
<1>1. /\ Steady /\ scan' = [scan EXCEPT !.at = "ingest", !.yielded = got]
      /\ DOMAIN scan = ScanFields /\ editor = "dir" /\ scan.at = "read" /\ ~Transcript
  BY DEF FileToItems, Steady, Faithful, Kinds, Transcript
<1>2. /\ got \in Seq(ToSet(got))
      /\ \A item \in ToSet(got) :
            /\ Cut(item) /\ item.id[1] = "file" /\ item.message = "file" /\ item.text = file
            /\ item.hash = file /\ file \in FileTexts
      /\ file # NoFile => {item.id : item \in ToSet(got)} = IdsOf("file", file)
  <2>1. CASE file = NoFile
    <3>1. got = << >> /\ ToSet(<< >>) = {} /\ << >> \in Seq(ToSet(<< >>))
      BY <2>1 DEF ToSet
    <3> HIDE DEF got
    <3>2. QED BY <2>1, <3>1
  <2>2. CASE file # NoFile
    <3>1. file \in FileTexts /\ file \in Text
      BY <2>2, FilesAssumption DEF Faithful, Kinds
    <3>2. got = Yield("file", "file", file, Directory)
      BY <2>2
    <3> HIDE DEF got
    <3>3. /\ got \in Seq(ToSet(got)) /\ {item.id : item \in ToSet(got)} = IdsOf("file", file)
          /\ \A item \in ToSet(got) :
                Cut(item) /\ item.id[1] = "file" /\ item.message = "file" /\ item.text = file
      BY <1>1, <3>1, <3>2, YieldMakes
    <3>4. \A item \in ToSet(got) : item.hash = file
      BY <1>1, <3>1, <3>2, YieldMakes
    <3>5. QED BY <3>1, <3>3, <3>4
  <2>3. QED BY <2>1, <2>2
<1> HIDE DEF got
<1>3. /\ DOMAIN scan' = ScanFields /\ scan'.at = "ingest" /\ scan'.yielded = got
      /\ \A field \in ScanFields \ {"at", "yielded"} : scan'[field] = scan[field]
  BY <1>1 DEF ScanFields
<1>4. Kinds'
  BY <1>1, <1>2, <1>3, KindsOf DEF Faithful, Kinds, ScanFields
<1>5. editor' = editor /\ draft' = draft /\ file' = file /\ grown' = grown /\ memory' = memory
      /\ scan'.todo = scan.todo
  BY <1>1, <1>3 DEF Steady, ScanFields
<1>6. Reading'
  BY <1>3, <1>5 DEF Faithful, Reading
<1>7. Sounds'
  <2>1. \A item \in ToSet(got) : Sound(item)
    BY <1>1, <1>2 DEF Sound, TextOf, NameOf, Transcript
  <2>2. QED BY <1>3, <1>5, <2>1, SoundsFrom DEF Faithful, Items
<1>8. ASSUME NEW m \in scan.due PROVE Covered(m)'
  <2>1. m = "file" /\ file # NoFile
    BY <1>1, <1>8, DueOf DEF Faithful, Coverage
  <2>2. TextOf(m) = file /\ NameOf(m) = m
    BY <1>1, <2>1 DEF TextOf, NameOf
  <2>3. Ids(m) = {item.id : item \in ToSet(got)}
    BY <1>2, <2>1, <2>2 DEF Ids
  <2>4. Ids(m)' = Ids(m) /\ TextOf(m)' = TextOf(m)
    BY <1>5, SameText
  <2>5. Seen(m)'
    BY <1>3, <2>3, <2>4 DEF Seen
  <2>6. ~Transcript'
    BY <1>1, <1>5 DEF Transcript
  <2>7. QED BY <1>2, <1>3, <2>2, <2>4, <2>5, <2>6 DEF Covered
<1>9. Coverage'
  BY <1>1, <1>3, <1>8, CoverageOf DEF Faithful, ScanFields
<1>10. QED BY <1>4, <1>6, <1>7, <1>9 DEF Faithful

\* What a reader of the chats has left to read are bubbles.
LEMMA TodoBubbles ==
    ASSUME Kinds, NEW k \in DOMAIN scan.todo
    PROVE  scan.todo[k] \in [bubble : Bubble, folder : Folders] /\ scan.todo[k].bubble \in Bubble
<1> DEFINE H == [bubble : Bubble, folder : Folders]
<1>1. scan.todo \in Seq(H)
  BY DEF Kinds
<1> HIDE DEF H
<1>2. scan.todo[k] \in H
  BY <1>1
<1>3. QED BY <1>2 DEF H

\* A message is rewritten.
LEMMA RewriteFaithful ==
    ASSUME Faithful, NEW m, Rewrite(m), ~Transcript, editor' = editor, memory' = memory,
           written' = written,
           \A x : (editor = "cursor" => x \in Bubble) /\ (editor = "dir" => x = "file") /\ x # m
                     => TextOf(x)' = TextOf(x),
           \A x \in scan.due \ {m} :
              x \in Due(scan.filter, scan.conversation, scan.hook)
                 => x \in Due(scan.filter, scan.conversation, scan.hook)'
    PROVE  /\ Sounds' /\ Coverage'
           /\ \A field \in ScanFields \ {"due"} : scan'[field] = scan[field]
           /\ DOMAIN scan' = ScanFields
<1>1. /\ scan' = [scan EXCEPT !.due = @ \ {m}] /\ DOMAIN scan = ScanFields
      /\ editor \in {"cursor", "dir"}
  BY DEF Rewrite, Faithful, Kinds, Transcript
<1>2. /\ DOMAIN scan' = ScanFields /\ scan'.due = scan.due \ {m}
      /\ \A field \in ScanFields \ {"due"} : scan'[field] = scan[field]
  BY <1>1 DEF ScanFields
<1>3. Items' = Items
  BY <1>2 DEF Items, ScanFields
<1>4. grown \subseteq grown' /\ \A item \in Items : item.message = m => m \in grown'
  <2>1. ASSUME NEW item \in Items, item.message = m
        PROVE  \/ \E id \in DOMAIN memory : memory[id].message = m
               \/ \E k \in DOMAIN scan.yielded : scan.yielded[k].message = m
    BY <2>1 DEF Items, ToSet
  <2>2. QED BY <2>1 DEF Rewrite
<1>5. ~Transcript'
  BY DEF Transcript
<1>6. Sounds'
  <2>1. ASSUME NEW item \in Items PROVE Sound(item)'
    <3>1. Sound(item)
      BY DEF Faithful, Sounds
    <3>2. NameOf(item.message)' = NameOf(item.message)
      BY DEF NameOf
    <3>3. item.message \notin grown' => item.text = TextOf(item.message)'
      <4>1. SUFFICES ASSUME item.message \notin grown' PROVE item.text = TextOf(item.message)'
        OBVIOUS
      <4>2. item.message # m /\ item.message \notin grown
        BY <1>4, <4>1
      <4>3. /\ item.text = TextOf(item.message) /\ (editor = "cursor" => item.message \in Bubble)
            /\ (editor = "dir" => item.message = "file")
        BY <3>1, <4>2 DEF Sound
      <4>4. QED BY <4>2, <4>3
    <3>4. QED BY <1>5, <3>1, <3>2, <3>3 DEF Sound
  <2>2. QED BY <1>3, <2>1 DEF Sounds
<1>7. Coverage'
  <2>1. (scan.due \subseteq Due(scan.filter, scan.conversation, scan.hook))'
    BY <1>2 DEF Faithful, Coverage
  <2>2. ASSUME NEW x \in scan'.due, Covered(x) PROVE Covered(x)'
    <3>1. x \in scan.due /\ x # m
      BY <1>2
    <3>2. (editor = "cursor" => x \in Bubble) /\ (editor = "dir" => x = "file")
      BY <3>1, DueOf DEF Faithful, Coverage
    <3>3. TextOf(x)' = TextOf(x)
      BY <3>1, <3>2
    <3>4. QED BY <1>2, <2>2, <3>3, CoveredSame DEF ScanFields
  <2>3. QED BY <1>2, <2>1, <2>2 DEF Faithful, Coverage, ScanFields
<1>8. QED BY <1>2, <1>6, <1>7

\* The editor rewrites a bubble.
LEMMA WriteBubbleFaithful ==
    ASSUME Faithful, NEW b \in Bubble, WriteBubble(b)
    PROVE  Faithful'
<1>1. /\ editor = "cursor" /\ ~Transcript /\ draft[b] < Len(Drafts[b]) /\ file' = file
      /\ draft' = [draft EXCEPT ![b] = @ + 1] /\ Rewrite(b)
      /\ UNCHANGED <<editor, written, piece, memory>>
  BY DEF WriteBubble, Rewrite, Transcript
<1>2. /\ draft' \in [Bubble -> Nat] /\ draft'[b] = draft[b] + 1
      /\ \A x \in Bubble \ {b} : draft'[x] = draft[x]
  BY <1>1 DEF Faithful, Kinds
<1>3. \A x \in Bubble : draft[x] \in Nat /\ Len(Drafts[x]) \in Nat
  BY ChatsAssumption DEF Faithful, Kinds, Bubble
<1>4. \A x \in Bubble : draft'[x] <= Len(Drafts[x]) /\ (draft[x] > 0 => draft'[x] > 0)
  BY <1>1, <1>2, <1>3 DEF Faithful, Kinds
<1>5. ~Transcript'
  BY <1>1 DEF Transcript
<1>6. \A x \in Bubble \ {b} : TextOf(x)' = TextOf(x)
  BY <1>1, <1>2, <1>5 DEF TextOf
<1>7. \A x \in scan.due \ {b} :
         x \in Due(scan.filter, scan.conversation, scan.hook)
            => x \in Due(scan.filter, scan.conversation, scan.hook)'
  <2>1. /\ scan'.filter = scan.filter /\ scan'.conversation = scan.conversation
        /\ scan'.hook = scan.hook
    BY <1>1 DEF Rewrite, Faithful, Kinds, ScanFields
  <2>2. Due(scan.filter, scan.conversation, scan.hook)'
        = {x \in Bubble :
            /\ draft'[x] > 0 /\ Drafts[x][draft'[x]] # << >>
            /\ \E c \in DOMAIN BubblesOf :
                  /\ x \in ToSet(BubblesOf[c]) /\ scan'.conversation \in {NoValue, c}
                  /\ \E w \in ListedBy(c) :
                        Passes(scan'.filter, FolderOf[w])
                        \/ (scan'.hook /\ scan'.conversation # NoValue)}
    BY <1>1, <1>5 DEF Due
  <2>3. Due(scan.filter, scan.conversation, scan.hook)
        = {x \in Bubble :
            /\ draft[x] > 0 /\ Drafts[x][draft[x]] # << >>
            /\ \E c \in DOMAIN BubblesOf :
                  /\ x \in ToSet(BubblesOf[c]) /\ scan.conversation \in {NoValue, c}
                  /\ \E w \in ListedBy(c) :
                        Passes(scan.filter, FolderOf[w])
                        \/ (scan.hook /\ scan.conversation # NoValue)}
    BY <1>1, DueOf
  <2>4. QED BY <1>2, <2>1, <2>2, <2>3
<1>8. /\ Sounds' /\ Coverage' /\ DOMAIN scan' = ScanFields
      /\ \A field \in ScanFields \ {"due"} : scan'[field] = scan[field]
  BY <1>1, <1>6, <1>7, RewriteFaithful
<1>9. Kinds'
  BY <1>1, <1>2, <1>4, <1>5, <1>8 DEF Faithful, Kinds, ScanFields
<1>10. Reading'
  <2>1. \A k \in DOMAIN scan.todo : scan.todo[k].bubble \in Bubble
    BY TodoBubbles DEF Faithful
  <2>2. \A k \in DOMAIN scan.todo : draft'[scan.todo[k].bubble] > 0
    BY <1>4, <2>1 DEF Faithful, Reading
  <2>3. editor' = "cursor" /\ scan'.at = scan.at /\ scan'.yielded = scan.yielded
        /\ scan'.todo = scan.todo
    BY <1>1, <1>8 DEF ScanFields
  <2>4. scan.at = "read" => scan.yielded = << >>
    BY <1>1 DEF Faithful, Reading
  <2>5. QED BY <1>5, <2>2, <2>3, <2>4 DEF Reading
<1>11. QED BY <1>8, <1>9, <1>10 DEF Faithful

\* A file is rewritten.
LEMMA WriteFileFaithful ==
    ASSUME Faithful, NEW text \in FileTexts \cup {NoFile}, WriteFile(text)
    PROVE  Faithful'
<1>1. /\ editor = "dir" /\ ~Transcript /\ file' = text /\ draft' = draft /\ Rewrite("file")
      /\ UNCHANGED <<editor, written, piece, memory>>
  BY DEF WriteFile, Rewrite, Transcript
<1>2. ~Transcript'
  BY <1>1 DEF Transcript
<1>3. scan.due \subseteq {"file"}
  BY <1>1, DueOf DEF Faithful, Coverage
<1>4. /\ Sounds' /\ Coverage' /\ DOMAIN scan' = ScanFields
      /\ \A field \in ScanFields \ {"due"} : scan'[field] = scan[field]
  BY <1>1, <1>3, RewriteFaithful
<1>5. Kinds'
  BY <1>1, <1>2, <1>4 DEF Faithful, Kinds, ScanFields
<1>6. Reading'
  BY <1>1, <1>2, <1>4 DEF Faithful, Reading, ScanFields
<1>7. QED BY <1>4, <1>5, <1>6 DEF Faithful

(***************************************************************************)
(* ingest_source.                                                          *)
(***************************************************************************)
LEMMA StoredItems ==
    ASSUME Faithful, NEW got, got \in Seq(ToSet(got)),
           \A item \in ToSet(got) : item \in ToSet(scan.yielded)
    PROVE  \A id \in DOMAIN Ingested(got) :
              Ingested(got)[id].id = id /\ Ingested(got)[id] \in Items
<1>1. ASSUME NEW id \in DOMAIN Ingested(got)
      PROVE  Ingested(got)[id].id = id /\ Ingested(got)[id] \in Items
  <2>1. CASE id \in DOMAIN memory /\ Ingested(got)[id] = memory[id]
    BY <2>1 DEF Faithful, Kinds, Items
  <2>2. CASE \E item \in ToSet(got) : item.id = id /\ Ingested(got)[id] = item
    BY <2>2 DEF Items
  <2>3. QED BY <1>1, <2>1, <2>2, IngestedFrom
<1>2. QED BY <1>1

\* The process dies after the first items.
LEMMA InterruptedFaithful ==
    ASSUME Faithful, NEW n \in DOMAIN scan.yielded, IngestInterrupted(n)
    PROVE  Faithful'
<1> DEFINE got == SubSeq(scan.yielded, 1, n)
<1>1. /\ memory' = Ingested(got) /\ scan' = NoScan
      /\ UNCHANGED <<editor, written, piece, draft, file, grown>>
  BY DEF IngestInterrupted
<1>2. got \in Seq(ToSet(got)) /\ \A item \in ToSet(got) : item \in ToSet(scan.yielded)
  <2> DEFINE S == ToSet(scan.yielded)
             all == scan.yielded
  <2>1. all \in Seq(S) /\ n \in 1 .. Len(all) /\ Len(all) \in Nat
    BY OwnMembers DEF Faithful, Kinds
  <2> HIDE DEF S, all
  <2>2. SubSeq(all, 1, n) \in Seq(S)
    BY <2>1
  <2>3. QED BY <2>2, OwnMembers DEF S, all
<1> HIDE DEF got
<1>3. \A id \in DOMAIN memory' : memory'[id].id = id /\ memory'[id] \in Items
  BY <1>1, <1>2, StoredItems
<1>4. /\ DOMAIN scan' = ScanFields /\ scan'.override = NoValue
      /\ scan'.line = 0 /\ scan'.count = 0
      /\ scan'.cut = "no" /\ ~scan'.split /\ ~scan'.blind /\ scan'.hook \in BOOLEAN
      /\ scan'.split \in BOOLEAN /\ scan'.blind \in BOOLEAN
      /\ scan'.yielded = << >> /\ scan'.todo = << >> /\ scan'.at = "idle" /\ scan'.due = {}
  BY <1>1 DEF NoScan, ScanFields
<1>5. /\ ToSet(<< >>) = {} /\ << >> \in Seq(ToSet(<< >>)) /\ DOMAIN << >> = {}
      /\ << >> \in Seq([bubble : Bubble, folder : Folders])
  BY DEF ToSet
<1>6. (Transcript' <=> Transcript) /\ Script' = Script
  BY <1>1 DEF Transcript, Script
<1>7. Kinds'
  BY <1>1, <1>3, <1>4, <1>5, <1>6 DEF Faithful, Kinds
<1>8. Reading'
  BY <1>4, <1>5 DEF Reading
<1>9. Sounds'
  <2>1. \A item \in Items' : item \in Items
    BY <1>3, <1>4, <1>5 DEF Items
  <2>2. QED BY <1>1, <2>1, SoundsFrom DEF Faithful
<1>10. Coverage'
  BY <1>4 DEF Coverage
<1>11. QED BY <1>7, <1>8, <1>9, <1>10 DEF Faithful

\* What is yielded is stored; a file that changed replaces its items.
LEMMA SeenIsKept ==
    ASSUME Faithful, memory' = Ingested(scan.yielded), editor' = editor, draft' = draft,
           file' = file, NEW m, Seen(m),
           editor = "dir" => \A item \in ToSet(scan.yielded) : item.text = TextOf(m)
    PROVE  Kept(m)'
<1>1. Ids(m)' = Ids(m) /\ TextOf(m)' = TextOf(m)
  BY SameText
<1>2. scan.yielded \in Seq(ToSet(scan.yielded))
  BY DEF Faithful, Kinds
<1>3. /\ DOMAIN memory' = DOMAIN memory \cup NamesOf(scan.yielded)
      /\ \A id \in DOMAIN memory' :
            \/ id \in DOMAIN memory /\ memory'[id] = memory[id]
               /\ (id \in NamesOf(scan.yielded) =>
                     \E item \in ToSet(scan.yielded) :
                        /\ item.id = id
                        /\ NoValue \in {item.hash, memory[id].hash}
                           \/ item.hash = memory[id].hash)
            \/ \E item \in ToSet(scan.yielded) : item.id = id /\ memory'[id] = item
  <2> DEFINE got == scan.yielded
  <2> HIDE DEF got
  <2>1. got \in Seq(ToSet(got))
    BY <1>2 DEF got
  <2>2. /\ DOMAIN Ingested(got) = DOMAIN memory \cup NamesOf(got)
        /\ \A id \in DOMAIN Ingested(got) :
              \/ id \in DOMAIN memory /\ Ingested(got)[id] = memory[id]
                 /\ (id \in NamesOf(got) =>
                       \E item \in ToSet(got) :
                          /\ item.id = id
                          /\ NoValue \in {item.hash, memory[id].hash}
                             \/ item.hash = memory[id].hash)
              \/ \E item \in ToSet(got) : item.id = id /\ Ingested(got)[id] = item
    BY <2>1, IngestedFrom
  <2>3. memory' = Ingested(got)
    BY DEF got
  <2>4. QED BY <2>2, <2>3 DEF got
<1>4. Ids(m) \subseteq NamesOf(scan.yielded)
  BY DEF Seen, NamesOf
<1>5. ASSUME editor = "dir", NEW id \in Ids(m) PROVE memory'[id].text = TextOf(m)
  <2>1. CASE /\ id \in DOMAIN memory /\ memory'[id] = memory[id]
             /\ \E item \in ToSet(scan.yielded) :
                   /\ item.id = id
                   /\ NoValue \in {item.hash, memory[id].hash} \/ item.hash = memory[id].hash
    <3>1. PICK item \in ToSet(scan.yielded) :
             NoValue \in {item.hash, memory[id].hash} \/ item.hash = memory[id].hash
      BY <2>1
    <3>2. Sound(item) /\ Sound(memory[id])
      BY <2>1 DEF Faithful, Sounds, Items
    <3>3. /\ item.hash = item.text /\ item.hash \in FileTexts /\ item.text = TextOf(m)
          /\ memory[id].hash = memory[id].text /\ memory[id].hash \in FileTexts
      BY <1>5, <3>2 DEF Sound
    <3>4. NoValue \notin FileTexts
      BY FilesAssumption
    <3>5. QED BY <2>1, <3>1, <3>3, <3>4
  <2>2. CASE \E item \in ToSet(scan.yielded) : item.id = id /\ memory'[id] = item
    BY <1>5, <2>2
  <2>3. QED BY <1>3, <1>4, <2>1, <2>2
<1>6. QED BY <1>1, <1>3, <1>4, <1>5 DEF Kept

\* ingest_source stores what was yielded, all of it or a part if the process dies.
LEMMA IngestFaithful == ASSUME Faithful, IngestYielded PROVE Faithful'
<1> DEFINE again == /\ editor = "cursor" /\ scan.hook /\ scan.conversation # NoValue
                    /\ scan.yielded = << >>
<1>1. /\ scan.at = "ingest" /\ memory' = Ingested(scan.yielded)
      /\ UNCHANGED <<editor, written, piece, draft, file, grown>>
      /\ scan' = IF again THEN [scan EXCEPT !.at = "read", !.filter = NoValue, !.hook = FALSE]
                 ELSE [scan EXCEPT !.at = "done", !.yielded = << >>]
      /\ DOMAIN scan = ScanFields
  BY DEF IngestYielded, Faithful, Kinds
<1>2. /\ DOMAIN scan' = ScanFields
      /\ \A field \in ScanFields \ {"at", "filter", "hook", "yielded"} : scan'[field] = scan[field]
      /\ scan'.hook \in BOOLEAN
      /\ again => /\ scan'.at = "read" /\ scan'.filter = NoValue /\ scan'.yielded = << >>
      /\ ~again => /\ scan'.at = "done" /\ scan'.filter = scan.filter /\ scan'.hook = scan.hook
                   /\ scan'.yielded = << >>
  BY <1>1 DEF ScanFields, Faithful, Kinds
<1>3. scan'.yielded = << >> /\ ToSet(<< >>) = {} /\ << >> \in Seq(ToSet(<< >>))
  BY <1>2 DEF ToSet
<1>4. \A id \in DOMAIN memory' : memory'[id].id = id /\ memory'[id] \in Items
  <2>1. scan.yielded \in Seq(ToSet(scan.yielded))
    BY DEF Faithful, Kinds
  <2>2. QED BY <1>1, <2>1, StoredItems
<1>5. (Transcript' <=> Transcript) /\ Script' = Script /\ (again => ~Transcript)
  BY <1>1 DEF Transcript, Script
<1>6. Kinds'
  BY <1>1, <1>2, <1>3, <1>4, <1>5, ZenonT(40) DEF Faithful, Kinds, ScanFields
<1>7. Reading'
  <2>1. scan'.todo = scan.todo /\ draft' = draft /\ (Transcript' => scan'.at # "read")
    BY <1>1, <1>2, <1>5 DEF ScanFields
  <2>2. QED BY <1>3, <2>1 DEF Faithful, Reading
<1>8. Sounds'
  <2>1. \A item \in Items' : item \in Items
    BY <1>3, <1>4 DEF Items
  <2>2. QED BY <1>1, <2>1, SoundsFrom DEF Faithful
<1>9. (scan.due \subseteq Due(scan.filter, scan.conversation, scan.hook))'
  <2>1. scan'.due = scan.due /\ scan'.conversation = scan.conversation
    BY <1>2 DEF ScanFields
  <2>2. CASE ~again
    BY <1>1, <1>2, <2>1, <2>2, DueKept DEF Faithful, Coverage
  <2>3. CASE again
    <3>1. Due(scan.filter, scan.conversation, scan.hook)'
          = {x \in Bubble :
              /\ draft[x] > 0 /\ Drafts[x][draft[x]] # << >>
              /\ \E c \in DOMAIN BubblesOf :
                    /\ x \in ToSet(BubblesOf[c]) /\ scan.conversation \in {NoValue, c}
                    /\ \E w \in ListedBy(c) :
                          Passes(scan'.filter, FolderOf[w])
                          \/ (scan'.hook /\ scan.conversation # NoValue)}
      BY <1>1, <1>5, <2>1, <2>3 DEF Due
    <3>2. Due(scan.filter, scan.conversation, scan.hook)
          = {x \in Bubble :
              /\ draft[x] > 0 /\ Drafts[x][draft[x]] # << >>
              /\ \E c \in DOMAIN BubblesOf :
                    /\ x \in ToSet(BubblesOf[c]) /\ scan.conversation \in {NoValue, c}
                    /\ \E w \in ListedBy(c) :
                          Passes(scan.filter, FolderOf[w])
                          \/ (scan.hook /\ scan.conversation # NoValue)}
      BY <2>3 DEF Due, Transcript
    <3>3. \A w : Passes(scan'.filter, FolderOf[w])
      BY <1>2, <2>3 DEF Passes
    <3>4. QED BY <2>1, <3>1, <3>2, <3>3 DEF Faithful, Coverage
  <2>4. QED BY <2>2, <2>3
<1>10. ASSUME NEW m \in scan.due, Covered(m) PROVE Covered(m)'
  <2>1. CASE again
    BY <1>2, <1>5, <2>1 DEF Covered
  <2>2. CASE ~again
    <3>1. Seen(m)
      BY <1>1, <1>10, <2>2 DEF Covered, Again
    <3>2. editor = "dir" => \A item \in ToSet(scan.yielded) : item.text = TextOf(m)
      BY <1>1, <1>10 DEF Covered
    <3>3. Kept(m)'
      BY <1>1, <3>1, <3>2, SeenIsKept
    <3>4. QED BY <1>2, <2>2, <3>3 DEF Covered
  <2>3. QED BY <2>1, <2>2
<1>11. Coverage'
  <2>1. scan'.due = scan.due /\ scan'.blind = scan.blind
    BY <1>2 DEF ScanFields
  <2>2. QED BY <1>9, <1>10, <2>1 DEF Faithful, Coverage
<1>12. QED BY <1>6, <1>7, <1>8, <1>11 DEF Faithful

(***************************************************************************)
(* Transcripts.                                                            *)
(***************************************************************************)
LEMMA SessionStep ==
    ASSUME NEW l \in Nat \ {0}
    PROVE  SessionOf(l) = IF CodexScript[l].kind = "session_meta"
                          THEN [id |-> CodexScript[l].id, cwd |-> CodexScript[l].cwd]
                          ELSE SessionOf(l - 1)
<1> DEFINE metas(n) == {k \in 1 .. n : CodexScript[k].kind = "session_meta"}
<1>1. CASE CodexScript[l].kind = "session_meta"
  <2>1. l \in metas(l) /\ \A k \in metas(l) : l >= k
    BY <1>1
  <2>2. \A x \in metas(l) : (\A k \in metas(l) : x >= k) => x = l
    BY <2>1
  <2>3. Max(metas(l)) = l
    <3> HIDE DEF metas
    <3>1. QED BY <2>1, <2>2 DEF Max
  <2>4. metas(l) # {}
    BY <2>1
  <2>5. QED BY <1>1, <2>3, <2>4 DEF SessionOf
<1>2. CASE CodexScript[l].kind # "session_meta"
  <2>1. metas(l) = metas(l - 1)
    BY <1>2
  <2>2. QED BY <1>2, <2>1 DEF SessionOf
<1>3. QED BY <1>1, <1>2

\* The items of a line (line_to_items).
LEMMA LineItems ==
    ASSUME Faithful, Transcript, scan.at = "read", scan.cut = "no", scan.line + 1 <= Len(Script)
    PROVE  LET l == scan.line + 1
               got == LineToItems(l, LineNo)
           IN /\ got \in Seq(ToSet(got)) /\ \A item \in ToSet(got) : Sound(item)
              /\ ~scan.split /\ Spoken(l) /\ Passes(scan.filter, CwdOf(l)) =>
                    Ids(l) = NamesOf(got)
<1> DEFINE l == scan.line + 1
           got == LineToItems(l, LineNo)
           cwd == IF editor = "codex" THEN scan.session.cwd ELSE Script[l].cwd
           name == IF editor = "codex" THEN <<scan.session.id, LineNo>> ELSE l
           text == Script[l].text
<1>1. got = IF ~Spoken(l) \/ ~Passes(scan.filter, cwd) THEN << >> ELSE Yield(name, l, text, cwd)
  BY DEF LineToItems
<1>2. /\ l \in Nat \ {0} /\ l \in DOMAIN Script /\ l - 1 = scan.line
      /\ editor \in {"claude", "codex"} /\ editor # "dir" /\ editor # "cursor"
  <2>1. scan.line \in Nat
    BY DEF Faithful, Kinds
  <2>2. Len(Script) \in Nat /\ DOMAIN Script = 1 .. Len(Script)
    BY LinesAssumption DEF Script
  <2>3. QED BY <2>1, <2>2 DEF Transcript
<1>3. Spoken(l) => text \in Text
  BY <1>2, LinesAssumption DEF Spoken, Script
<1>4. Spoken(l) /\ ~(editor = "codex" /\ scan.split) => name = NameOf(l) /\ cwd = CwdOf(l)
  <2>1. CASE editor = "claude"
    BY <2>1 DEF NameOf, CwdOf
  <2>2. CASE editor = "codex" /\ Spoken(l) /\ ~scan.split
    <3>1. scan.count = scan.line /\ scan.session = SessionOf(scan.line)
      BY <2>2 DEF Faithful, Reading
    <3>2. CodexScript[l].kind # "session_meta"
      BY <2>2 DEF Spoken, Script
    <3>3. SessionOf(l) = scan.session
      BY <1>2, <3>1, <3>2, SessionStep
    <3>4. LineNo = l
      BY <3>1 DEF LineNo
    <3>5. QED BY <2>2, <3>3, <3>4 DEF NameOf, CwdOf
  <2>3. QED BY <1>2, <2>1, <2>2
<1>5. TextOf(l) = text
  BY <1>2 DEF TextOf
<1>6. scan.override \in {NoValue, Override}
  BY DEF Faithful, Kinds
<1> HIDE DEF got, cwd, name, text, l
<1>7. CASE ~Spoken(l) \/ ~Passes(scan.filter, cwd)
  <2>1. got = << >> /\ ToSet(<< >>) = {} /\ << >> \in Seq(ToSet(<< >>))
    BY <1>1, <1>7 DEF ToSet
  <2>2. ~(~scan.split /\ Spoken(l) /\ Passes(scan.filter, CwdOf(l)))
    BY <1>4, <1>7
  <2>3. QED BY <2>1, <2>2 DEF got, l
<1>8. CASE Spoken(l) /\ Passes(scan.filter, cwd)
  <2>1. got = Yield(name, l, text, cwd) /\ text \in Text
    BY <1>1, <1>3, <1>8
  <2>2. /\ got \in Seq(ToSet(got))
        /\ \A item \in ToSet(got) :
              /\ Cut(item) /\ item.id[1] = name /\ item.message = l /\ item.text = text
              /\ item.split = scan.split
              /\ item.scope = IF scan.override # NoValue THEN scan.override ELSE cwd
    BY <2>1, YieldMakes, SMTT(30)
  <2>3. NamesOf(got) = IdsOf(name, text)
    BY <2>1, YieldMakes DEF NamesOf
  <2>4. ASSUME NEW item \in ToSet(got) PROVE Sound(item)
    <3>1. ~(editor = "codex" /\ item.split) =>
             item.id[1] = NameOf(l) /\ item.scope \in {Override, CwdOf(l)}
      BY <1>4, <1>6, <1>8, <2>2
    <3>2. QED BY <1>2, <1>5, <2>2, <3>1 DEF Sound
  <2>5. ~scan.split => Ids(l) = NamesOf(got)
    BY <1>4, <1>5, <1>8, <2>3 DEF Ids
  <2>6. QED BY <2>2, <2>4, <2>5 DEF got, l
<1>9. QED BY <1>7, <1>8

\* A line is parsed, the last one perhaps without its end.
LEMMA ParsedFaithful ==
    ASSUME Faithful, Steady, Transcript, scan.at = "read", scan.cut = "no",
           scan.line + 1 <= Len(Script), NEW cut, Parsed(scan.line + 1, cut),
           \/ cut = "no" /\ scan.line + 1 <= written
           \/ cut = "all" /\ scan.line = written
    PROVE  Faithful'
<1> DEFINE l == scan.line + 1
           got == LineToItems(l, LineNo)
           session == IF editor = "codex" /\ Script[l].kind = "session_meta"
                      THEN [id |-> Script[l].id, cwd |-> Script[l].cwd] ELSE scan.session
           line == IF cut = "no" THEN l ELSE scan.line
<1>1. /\ DOMAIN scan = ScanFields /\ scan.line \in Nat /\ scan.count \in Nat /\ written \in Nat
      /\ scan.yielded \in Seq(ToSet(scan.yielded)) /\ scan.split \in BOOLEAN
      /\ l \in Nat \ {0} /\ l - 1 = scan.line /\ cut \in {"no", "all"}
  BY SMTT(30) DEF Faithful, Kinds
<1>2. /\ got \in Seq(ToSet(got)) /\ \A item \in ToSet(got) : Sound(item)
      /\ ~scan.split /\ Spoken(l) /\ Passes(scan.filter, CwdOf(l)) => Ids(l) = NamesOf(got)
  BY LineItems
<1>3. scan' = [scan EXCEPT !.line = line, !.cut = cut, !.count = scan.count + 1,
                           !.session = session, !.yielded = scan.yielded \o got]
  BY DEF Parsed
<1>s. editor = "codex" => session = IF CodexScript[l].kind = "session_meta"
                                    THEN [id |-> CodexScript[l].id, cwd |-> CodexScript[l].cwd]
                                    ELSE scan.session
  BY DEF Script
<1> HIDE DEF got, session
<1>4. /\ DOMAIN scan' = ScanFields /\ scan'.line = line /\ scan'.cut = cut
      /\ scan'.count = scan.count + 1 /\ scan'.session = session
      /\ scan'.yielded = scan.yielded \o got
      /\ \A field \in ScanFields \ {"line", "cut", "count", "session", "yielded"} :
            scan'[field] = scan[field]
  BY <1>1, <1>3 DEF ScanFields
<1>5. /\ scan'.yielded \in Seq(ToSet(scan'.yielded))
      /\ \A x : x \in ToSet(scan'.yielded) <=> x \in ToSet(scan.yielded) \/ x \in ToSet(got)
  BY <1>1, <1>2, <1>4, Concats, SMTT(30)
<1>6. editor' = editor /\ draft' = draft /\ file' = file /\ grown' = grown /\ memory' = memory
      /\ written' = written /\ scan'.todo = scan.todo /\ scan'.at = "read"
      /\ scan'.split = scan.split /\ scan'.due = scan.due /\ editor # "cursor" /\ editor # "dir"
      /\ (Transcript' <=> Transcript) /\ line \in Nat
  BY <1>1, <1>4 DEF Steady, ScanFields, Transcript
<1>7. Kinds'
  BY <1>1, <1>4, <1>5, <1>6, KindsOf, SMTT(30) DEF Faithful, Kinds, ScanFields
<1>8. Reading'
  <2>1. line <= written
    BY <1>1
  <2>2. ASSUME cut = "no", ~scan.split, editor = "codex" PROVE session = SessionOf(line)
    <3>1. scan.session = SessionOf(scan.line) /\ line = l
      BY <1>1, <2>2 DEF Faithful, Reading
    <3>2. QED BY <1>1, <1>s, <2>2, <3>1, SessionStep
  <2>3. ASSUME cut = "no", ~scan.split PROVE scan'.count = line
    BY <1>1, <1>4, <2>3 DEF Faithful, Reading
  <2>4. QED BY <1>4, <1>6, <2>1, <2>2, <2>3 DEF Faithful, Reading
<1>9. Sounds'
  <2>1. \A item \in Items' : item \in Items \/ Sound(item)
    BY <1>2, <1>5, <1>6 DEF Items
  <2>2. QED BY <1>6, <2>1, SoundsFrom DEF Faithful
<1>10. ASSUME NEW m \in scan.due, Covered(m) PROVE Covered(m)'
  <2>1. m \in 1 .. written /\ Spoken(m) /\ Passes(scan.filter, CwdOf(m))
    BY <1>10, DueOf DEF Faithful, Coverage
  <2>2. /\ m <= scan.line => Seen(m)
        /\ scan.split => m <= scan.line
    BY <1>10 DEF Covered
  <2>3. Seen(m) => Seen(m)'
    BY <1>5, <1>6, SeenGrows
  <2>4. ASSUME m = l, ~scan.split PROVE Seen(m)'
    <3>1. Ids(m) = NamesOf(got)
      BY <1>2, <2>1, <2>4
    <3>2. Ids(m)' = Ids(m)
      BY <1>6, SameText
    <3>3. QED BY <1>5, <3>1, <3>2 DEF Seen, NamesOf
  <2>5. m <= line => Seen(m)'
    <3>1. m <= line => m <= scan.line \/ m = l
      BY <1>1, <2>1
    <3>2. m = l => ~(m <= scan.line)
      BY <1>1, <2>1
    <3>3. QED BY <2>2, <2>3, <2>4, <3>1, <3>2, <1>1
  <2>6. cut # "no" \/ scan.split => m <= line
    BY <1>1, <2>1, <2>2
  <2>7. QED BY <1>4, <1>6, <2>5, <2>6 DEF Covered
<1>11. Coverage'
  BY <1>4, <1>10, CoverageOf DEF Faithful, ScanFields
<1>12. QED BY <1>7, <1>8, <1>9, <1>11 DEF Faithful

\* A line, or what there is of it.
LEMMA ReadLineFaithful == ASSUME Faithful, ReadLine PROVE Faithful'
<1> DEFINE l == scan.line + 1
<1>1. /\ Steady /\ Transcript /\ scan.at = "read" /\ DOMAIN scan = ScanFields
      /\ scan.line \in Nat /\ scan.count \in Nat /\ written \in Nat /\ written <= Len(Script)
      /\ (piece # "none" => written < Len(Script)) /\ Len(Script) \in Nat
      /\ scan.line <= written /\ scan.split \in BOOLEAN
  BY LinesAssumption DEF ReadLine, Steady, Faithful, Kinds, Reading, Script
<1>2. CASE scan.cut = "no" /\ l <= written /\ Parsed(l, "no")
  BY <1>1, <1>2, ParsedFaithful
<1>3. CASE scan.cut = "no" /\ l = written + 1 /\ piece = "all" /\ Parsed(l, "all")
  <2>1. scan.line = written /\ l <= Len(Script)
    BY <1>1, <1>3
  <2>2. QED BY <1>1, <1>3, <2>1, ParsedFaithful
<1>4. ASSUME NEW cut \in {"no", "head"}, NEW line \in Nat, NEW split \in BOOLEAN,
             line <= written, scan.line <= line, cut # "no" \/ split,
             scan' = [scan EXCEPT !.cut = cut, !.line = line, !.count = scan.count + 1,
                                  !.split = split],
             \A m \in scan.due : Covered(m) /\ m \in 1 .. written => m <= scan.line
      PROVE  Faithful'
  <2>1. /\ DOMAIN scan' = ScanFields /\ scan'.line = line /\ scan'.cut = cut
        /\ scan'.count = scan.count + 1 /\ scan'.split = split
        /\ \A field \in ScanFields \ {"line", "cut", "count", "split"} : scan'[field] = scan[field]
    BY <1>1, <1>4 DEF ScanFields
  <2>2. editor' = editor /\ draft' = draft /\ file' = file /\ grown' = grown /\ memory' = memory
        /\ written' = written /\ scan'.todo = scan.todo /\ scan'.at = "read"
        /\ scan'.yielded = scan.yielded /\ editor # "cursor" /\ editor # "dir"
        /\ (Transcript' <=> Transcript)
    BY <1>1, <2>1 DEF Steady, ScanFields, Transcript
  <2>3. Kinds'
    BY <1>1, <1>4, <2>1, KindsOf, SMTT(30) DEF Faithful, Kinds, ScanFields
  <2>4. Reading'
    BY <1>4, <2>1, <2>2 DEF Faithful, Reading
  <2>5. Sounds'
    BY <2>2, SoundsFrom DEF Faithful, Items
  <2>6. ASSUME NEW m \in scan.due, Covered(m) PROVE Covered(m)'
    <3>1. m \in 1 .. written
      BY <1>1, <2>6, DueOf DEF Faithful, Coverage
    <3>2. m <= scan.line /\ m <= line
      BY <1>1, <1>4, <2>6, <3>1
    <3>3. Seen(m)'
      BY <1>1, <2>2, <2>6, <3>2, SeenGrows DEF Covered
    <3>4. QED BY <2>1, <2>2, <3>2, <3>3 DEF Covered
  <2>7. Coverage'
    BY <1>1, <2>1, <2>6, CoverageOf DEF Faithful, ScanFields
  <2>8. QED BY <2>3, <2>4, <2>5, <2>7 DEF Faithful
<1>5. CASE /\ scan.cut = "no" /\ l = written + 1 /\ piece = "head"
           /\ scan' = [scan EXCEPT !.cut = "head", !.count = @ + 1]
  <2>1. scan.line = written
    BY <1>1, <1>5
  <2>2. scan' = [scan EXCEPT !.cut = "head", !.line = scan.line, !.count = scan.count + 1,
                             !.split = scan.split]
    BY <1>1, <1>5 DEF ScanFields
  <2>3. /\ scan.line <= scan.line /\ "head" # "no" /\ "head" \in {"no", "head"}
        /\ \A m \in 1 .. written : m <= scan.line
    BY <1>1, <2>1
  <2> DEFINE line == scan.line
             split == scan.split
  <2>4. /\ line \in Nat /\ split \in BOOLEAN /\ line <= written /\ scan.line <= line
        /\ scan' = [scan EXCEPT !.cut = "head", !.line = line, !.count = scan.count + 1,
                                !.split = split]
    BY <1>1, <2>2, <2>3
  <2> HIDE DEF line, split
  <2>5. QED BY <1>4, <2>3, <2>4
<1>6. CASE /\ scan.cut # "no" /\ l <= written
           /\ scan' = [scan EXCEPT !.cut = "no", !.line = l, !.count = @ + 1, !.split = TRUE]
  <2>1. \A m \in scan.due : Covered(m) => m <= scan.line
    BY <1>1, <1>6 DEF Covered
  <2>2. l \in Nat /\ scan.line <= l
    BY <1>1
  <2>3. scan' = [scan EXCEPT !.cut = "no", !.line = l, !.count = scan.count + 1, !.split = TRUE]
    BY <1>6
  <2>4. QED BY <1>4, <1>6, <2>1, <2>2, <2>3
<1>7. QED BY <1>2, <1>3, <1>5, <1>6 DEF ReadLine

(***************************************************************************)
(* The chats of Cursor.                                                    *)
(***************************************************************************)
LEMMA OnlyMembers ==
    ASSUME NEW S, NEW list \in Seq(S), NEW keep
    PROVE  /\ Only(list, keep) \in Seq(S \cap keep)
           /\ \A x : x \in ToSet(Only(list, keep)) <=> x \in ToSet(list) /\ x \in keep
<1> DEFINE kept == Only(list, keep)
           K == S \cap keep
<1>1. /\ kept \in Seq(K)
      /\ \A n \in 1 .. Len(list) : list[n] \in keep =>
            \E k \in 1 .. Len(kept) : kept[k] = list[n]
      /\ \A k \in 1 .. Len(kept) : \E n \in 1 .. Len(list) : list[n] = kept[k]
  BY OnlyKeeps
<1> HIDE DEF kept
<1>2. /\ DOMAIN kept = 1 .. Len(kept) /\ DOMAIN list = 1 .. Len(list)
      /\ \A k \in 1 .. Len(kept) : kept[k] \in K
  BY <1>1
<1>3. ASSUME NEW x \in ToSet(kept) PROVE x \in ToSet(list) /\ x \in keep
  BY <1>1, <1>2 DEF ToSet
<1>4. ASSUME NEW x \in ToSet(list), x \in keep PROVE x \in ToSet(kept)
  <2>1. PICK n \in 1 .. Len(list) : x = list[n]
    BY <1>2 DEF ToSet
  <2>2. PICK k \in 1 .. Len(kept) : kept[k] = list[n]
    BY <1>1, <1>4, <2>1
  <2>3. QED BY <1>2, <2>1, <2>2 DEF ToSet
<1>5. QED BY <1>1, <1>3, <1>4 DEF kept

Composer == [composer : DOMAIN BubblesOf, folder : Folders]

\* The composers of a workspace (composers).
LEMMA ComposersMakes ==
    ASSUME NEW w \in DOMAIN ComposersOf
    PROVE  /\ Composers(w) \in Seq(Composer)
           /\ \A x \in ToSet(Composers(w)) : scan.conversation \in {NoValue, x.composer}
           /\ \A c \in ToSet(ComposersOf[w]) :
                 /\ scan.conversation \in {NoValue, c}
                 /\ FolderOf[w] # NoValue /\ Passes(scan.filter, FolderOf[w])
                 => [composer |-> c, folder |-> FolderOf[w]] \in ToSet(Composers(w))
<1> DEFINE wanted == {c \in ToSet(ComposersOf[w]) : scan.conversation \in {NoValue, c}}
           kept == Only(ComposersOf[w], wanted)
           made == [k \in DOMAIN kept |-> [composer |-> kept[k], folder |-> FolderOf[w]]]
           S == DOMAIN BubblesOf
<1>1. ComposersOf[w] \in Seq(S)
  BY ChatsAssumption
<1>2. /\ kept \in Seq(S \cap wanted)
      /\ \A x : x \in ToSet(kept) <=> x \in ToSet(ComposersOf[w]) /\ x \in wanted
  <2> HIDE DEF wanted, S
  <2>1. QED BY <1>1, OnlyMembers
<1>3. Composers(w) = IF FolderOf[w] = NoValue \/ ~Passes(scan.filter, FolderOf[w]) THEN << >>
                     ELSE made
  BY DEF Composers
<1>4. FolderOf[w] \in Folders
  BY DEF Folders
<1>5. \A c \in wanted : scan.conversation \in {NoValue, c}
  OBVIOUS
<1>6. \A c \in ToSet(ComposersOf[w]) : scan.conversation \in {NoValue, c} => c \in ToSet(kept)
  BY <1>2
<1> HIDE DEF wanted, kept
<1>7. /\ DOMAIN kept = 1 .. Len(kept) /\ Len(kept) \in Nat
      /\ \A k \in DOMAIN kept : kept[k] \in S /\ kept[k] \in wanted
  BY <1>2
<1>8. /\ made \in Seq(Composer) /\ DOMAIN made = DOMAIN kept
      /\ \A k \in DOMAIN kept : made[k] = [composer |-> kept[k], folder |-> FolderOf[w]]
  <2>1. \A k \in DOMAIN kept : [composer |-> kept[k], folder |-> FolderOf[w]] \in Composer
    BY <1>4, <1>7 DEF Composer
  <2> DEFINE val(k) == [composer |-> kept[k], folder |-> FolderOf[w]]
  <2>2. made = [k \in 1 .. Len(kept) |-> val(k)]
    BY <1>7
  <2>3. \A k \in 1 .. Len(kept) : val(k) \in Composer
    BY <1>7, <2>1
  <2> HIDE DEF made, val
  <2>4. made \in Seq(Composer) /\ DOMAIN made = DOMAIN kept /\ \A k \in DOMAIN kept : made[k] = val(k)
    BY <1>7, <2>2, <2>3
  <2>5. QED BY <2>4 DEF val
<1> HIDE DEF made
<1>9. \A x \in ToSet(made) : scan.conversation \in {NoValue, x.composer}
  <2>1. ASSUME NEW k \in DOMAIN kept PROVE scan.conversation \in {NoValue, made[k].composer}
    BY <1>5, <1>7, <1>8
  <2>2. QED BY <1>8, <2>1 DEF ToSet
<1>10. \A c \in ToSet(kept) : [composer |-> c, folder |-> FolderOf[w]] \in ToSet(made)
  BY <1>8 DEF ToSet
<1>11. << >> \in Seq(Composer) /\ ToSet(<< >>) = {}
  BY DEF ToSet
<1>12. QED BY <1>3, <1>6, <1>8, <1>9, <1>10, <1>11

\* What a run finds, if it can read every workspace: each composer that its
\* filters let pass; and of one conversation nothing but that conversation.
LEMMA FoundMakes ==
    ASSUME NEW readable \in SUBSET DOMAIN ComposersOf
    PROVE  /\ Found(readable) \in Seq(Composer)
           /\ \A x \in ToSet(Found(readable)) : scan.conversation \in {NoValue, x.composer}
           /\ readable = DOMAIN ComposersOf =>
                \A c \in DOMAIN BubblesOf : \A w \in ListedBy(c) :
                   scan.conversation \in {NoValue, c} /\ Passes(scan.filter, FolderOf[w]) =>
                      \E x \in ToSet(Found(readable)) : x.composer = c
<1> DEFINE seqs == [w \in DOMAIN ComposersOf |-> IF w \in readable THEN Composers(w) ELSE << >>]
           all == FlattenSeq(seqs)
           N == Len(ComposersOf)
<1>1. N \in Nat /\ DOMAIN ComposersOf = 1 .. N
  BY ChatsAssumption
<1>2. \A w \in 1 .. N : /\ Composers(w) \in Seq(Composer)
                        /\ \A x \in ToSet(Composers(w)) : scan.conversation \in {NoValue, x.composer}
  BY <1>1, ComposersMakes
<1>3. /\ seqs \in Seq(Seq(Composer)) /\ Len(seqs) = N
      /\ \A w \in 1 .. N : seqs[w] = IF w \in readable THEN Composers(w) ELSE << >>
  <2> DEFINE val(w) == IF w \in readable THEN Composers(w) ELSE << >>
             S == Seq(Composer)
  <2>1. \A w \in 1 .. N : val(w) \in S
    BY <1>2
  <2>2. seqs = [w \in 1 .. N |-> val(w)]
    BY <1>1
  <2> HIDE DEF seqs, S, val
  <2>3. seqs \in Seq(S) /\ Len(seqs) = N /\ \A w \in 1 .. N : seqs[w] = val(w)
    BY <1>1, <2>1, <2>2
  <2>4. QED BY <2>3 DEF S, val
<1> HIDE DEF seqs
<1>4. all \in Seq(Composer)
  BY <1>3, FlattenType
<1>5. \A x : x \in ToSet(all) <=> \E w \in 1 .. N : x \in ToSet(seqs[w])
  BY <1>3, FlattenMembers
<1> HIDE DEF all
<1>6. \A x \in ToSet(all) : scan.conversation \in {NoValue, x.composer}
  <2>1. ToSet(<< >>) = {}
    BY DEF ToSet
  <2>2. QED BY <1>2, <1>3, <1>5, <2>1
<1>7. ASSUME readable = DOMAIN ComposersOf, NEW c \in DOMAIN BubblesOf, NEW w \in ListedBy(c),
             scan.conversation \in {NoValue, c}, Passes(scan.filter, FolderOf[w])
      PROVE  \E x \in ToSet(all) : x.composer = c
  <2>1. /\ w \in 1 .. N /\ c \in ToSet(ComposersOf[w]) /\ FolderOf[w] # NoValue
        /\ seqs[w] = Composers(w)
    BY <1>1, <1>3, <1>7 DEF ListedBy
  <2> DEFINE x == [composer |-> c, folder |-> FolderOf[w]]
  <2>2. x \in ToSet(Composers(w))
    BY <1>1, <1>7, <2>1, ComposersMakes
  <2>3. x \in ToSet(all) /\ x.composer = c
    BY <1>5, <2>1, <2>2
  <2>4. QED BY <2>3
<1>8. Found(readable) = IF scan.conversation = NoValue \/ all = << >> THEN all ELSE <<Head(all)>>
  BY DEF Found, all, seqs
<1>9. CASE scan.conversation = NoValue \/ all = << >>
  <2>1. Found(readable) = all
    BY <1>8, <1>9
  <2>2. QED BY <1>4, <1>6, <1>7, <2>1
<1>10. CASE scan.conversation # NoValue /\ all # << >>
  <2>1. Found(readable) = <<Head(all)>> /\ Head(all) \in Composer /\ Head(all) \in ToSet(all)
    <3>1. 1 \in DOMAIN all /\ Head(all) = all[1] /\ all[1] \in Composer
      BY <1>4, <1>10
    <3>2. QED BY <1>8, <1>10, <3>1 DEF ToSet
  <2>2. <<Head(all)>> \in Seq(Composer) /\ ToSet(<<Head(all)>>) = {Head(all)}
    BY <2>1 DEF ToSet
  <2>3. scan.conversation = Head(all).composer
    BY <1>6, <1>10, <2>1
  <2>4. QED BY <1>6, <1>10, <2>1, <2>2, <2>3
<1>11. QED BY <1>9, <1>10

Header == [bubble : Bubble, folder : Folders]

\* The headers of the composers that were found (headers).
LEMMA HeadersMake ==
    ASSUME NEW found \in Seq(Composer)
    PROVE  /\ Headers(found) \in Seq(Header)
           /\ \A h \in ToSet(Headers(found)) : draft[h.bubble] > 0
           /\ \A x \in ToSet(found) : \A b \in ToSet(BubblesOf[x.composer]) :
                 b \in Bubble /\ draft[b] > 0 => \E h \in ToSet(Headers(found)) : h.bubble = b
<1> DEFINE written1 == {b \in Bubble : draft[b] > 0}
           there(k) == Only(BubblesOf[found[k].composer], written1)
           heads(k) == [i \in DOMAIN there(k) |->
                          [bubble |-> there(k)[i], folder |-> found[k].folder]]
           N == Len(found)
           seqs == [k \in DOMAIN found |-> heads(k)]
           all == FlattenSeq(seqs)
<1>1. N \in Nat /\ DOMAIN found = 1 .. N /\ \A k \in 1 .. N : found[k] \in Composer
  OBVIOUS
<1>2. ASSUME NEW k \in 1 .. N
      PROVE  /\ heads(k) \in Seq(Header)
             /\ \A h \in ToSet(heads(k)) : draft[h.bubble] > 0
             /\ \A b \in ToSet(BubblesOf[found[k].composer]) : b \in written1 =>
                   \E h \in ToSet(heads(k)) : h.bubble = b
  <2> DEFINE kept == there(k)
  <2>1. BubblesOf[found[k].composer] \in Seq(Bubble) /\ found[k].folder \in Folders
    BY <1>1, ChatsAssumption DEF Composer, Bubble
  <2>2. /\ kept \in Seq(Bubble \cap written1)
        /\ \A x : x \in ToSet(kept) <=> x \in ToSet(BubblesOf[found[k].composer]) /\ x \in written1
    <3> DEFINE list == BubblesOf[found[k].composer]
    <3> HIDE DEF written1, list
    <3>1. list \in Seq(Bubble)
      BY <2>1 DEF list
    <3>2. /\ Only(list, written1) \in Seq(Bubble \cap written1)
          /\ \A x : x \in ToSet(Only(list, written1)) <=> x \in ToSet(list) /\ x \in written1
      BY <3>1, OnlyMembers
    <3>3. QED BY <3>2 DEF list
  <2> DEFINE val(i) == [bubble |-> kept[i], folder |-> found[k].folder]
  <2>3. heads(k) = [i \in DOMAIN kept |-> val(i)]
    OBVIOUS
  <2> HIDE DEF there, heads
  <2>4. /\ DOMAIN kept = 1 .. Len(kept) /\ Len(kept) \in Nat
        /\ \A i \in 1 .. Len(kept) : kept[i] \in Bubble /\ draft[kept[i]] > 0
    <3> HIDE DEF kept
    <3>1. QED BY <2>2
  <2>5. \A i \in 1 .. Len(kept) : val(i) \in Header /\ val(i).bubble = kept[i]
    BY <2>1, <2>4 DEF Header
  <2> HIDE DEF val, kept
  <2>6. /\ heads(k) \in Seq(Header) /\ DOMAIN heads(k) = 1 .. Len(kept)
        /\ \A i \in 1 .. Len(kept) : heads(k)[i] = val(i)
    BY <2>3, <2>4, <2>5
  <2>7. ASSUME NEW h \in ToSet(heads(k)) PROVE draft[h.bubble] > 0
    <3>1. PICK i \in 1 .. Len(kept) : h = heads(k)[i]
      BY <2>6 DEF ToSet
    <3>2. h.bubble = kept[i]
      BY <2>5, <2>6, <3>1
    <3>3. QED BY <2>4, <3>2
  <2>8. ASSUME NEW b \in ToSet(BubblesOf[found[k].composer]), b \in written1
        PROVE  \E h \in ToSet(heads(k)) : h.bubble = b
    <3>1. b \in ToSet(kept)
      BY <2>2, <2>8
    <3>2. PICK i \in 1 .. Len(kept) : b = kept[i]
      BY <2>4, <3>1 DEF ToSet
    <3>3. heads(k)[i] \in ToSet(heads(k)) /\ heads(k)[i].bubble = b
      BY <2>5, <2>6, <3>2 DEF ToSet
    <3>4. QED BY <3>3
  <2>9. QED BY <2>6, <2>7, <2>8
<1> HIDE DEF heads
<1>3. seqs \in Seq(Seq(Header)) /\ Len(seqs) = N /\ \A k \in 1 .. N : seqs[k] = heads(k)
  <2> DEFINE S == Seq(Header)
  <2>1. \A k \in 1 .. N : heads(k) \in S
    BY <1>2
  <2>2. seqs = [k \in 1 .. N |-> heads(k)]
    BY <1>1
  <2> HIDE DEF seqs, S
  <2>3. seqs \in Seq(S) /\ Len(seqs) = N /\ \A k \in 1 .. N : seqs[k] = heads(k)
    BY <1>1, <2>1, <2>2
  <2>4. QED BY <2>3 DEF S
<1>4. Headers(found) = all
  BY DEF Headers, heads
<1> HIDE DEF seqs
<1>5. all \in Seq(Header)
  BY <1>3, FlattenType
<1>6. \A x : x \in ToSet(all) <=> \E k \in 1 .. N : x \in ToSet(seqs[k])
  BY <1>3, FlattenMembers
<1> HIDE DEF all
<1>7. \A h \in ToSet(all) : draft[h.bubble] > 0
  BY <1>2, <1>3, <1>6
<1>8. ASSUME NEW x \in ToSet(found), NEW b \in ToSet(BubblesOf[x.composer]), b \in written1
      PROVE  \E h \in ToSet(all) : h.bubble = b
  <2>1. PICK k \in 1 .. N : x = found[k]
    BY <1>1 DEF ToSet
  <2>2. PICK h \in ToSet(heads(k)) : h.bubble = b
    BY <1>2, <1>8, <2>1
  <2>3. h \in ToSet(all)
    BY <1>3, <1>6, <2>2
  <2>4. QED BY <2>2, <2>3
<1>9. QED BY <1>4, <1>5, <1>7, <1>8

\* The databases are read for their composers.
LEMMA ListFaithful ==
    ASSUME Faithful, NEW readable \in SUBSET DOMAIN ComposersOf, ListComposers(readable)
    PROVE  Faithful'
<1> DEFINE found == Found(readable)
           todo == Headers(found)
           blind == scan.blind \/ readable # DOMAIN ComposersOf
<1>1. /\ Steady /\ editor = "cursor" /\ scan.at = "read" /\ DOMAIN scan = ScanFields
      /\ scan' = [scan EXCEPT !.at = "bubbles", !.todo = todo, !.blind = blind]
      /\ scan.yielded = << >> /\ blind \in BOOLEAN
  BY DEF ListComposers, Steady, Faithful, Kinds, Reading
<1>2. /\ found \in Seq(Composer)
      /\ \A x \in ToSet(found) : scan.conversation \in {NoValue, x.composer}
      /\ ~blind => \A c \in DOMAIN BubblesOf : \A w \in ListedBy(c) :
                      scan.conversation \in {NoValue, c} /\ Passes(scan.filter, FolderOf[w]) =>
                         \E x \in ToSet(found) : x.composer = c
  BY FoundMakes
<1>3. /\ todo \in Seq(Header) /\ \A h \in ToSet(todo) : draft[h.bubble] > 0
      /\ \A x \in ToSet(found) : \A b \in ToSet(BubblesOf[x.composer]) :
            b \in Bubble /\ draft[b] > 0 => \E h \in ToSet(todo) : h.bubble = b
  <2> HIDE DEF found
  <2>1. QED BY <1>2, HeadersMake
<1>n. found = << >> => todo = << >>
  <2>1. ASSUME found = << >> PROVE Headers(found) = FlattenSeq(<< >>)
    BY <2>1 DEF Headers
  <2>2. FlattenSeq(<< >>) = << >>
    BY DEF FlattenSeq
  <2> HIDE DEF found
  <2>3. QED BY <2>1, <2>2
<1> HIDE DEF found, todo, blind
<1>4. /\ DOMAIN scan' = ScanFields /\ scan'.at = "bubbles" /\ scan'.todo = todo
      /\ scan'.blind = blind
      /\ \A field \in ScanFields \ {"at", "todo", "blind"} : scan'[field] = scan[field]
  BY <1>1 DEF ScanFields
<1>5. Kinds'
  BY <1>1, <1>3, <1>4, KindsOf DEF Faithful, Kinds, ScanFields, Header
<1>6. editor' = editor /\ draft' = draft /\ file' = file /\ grown' = grown /\ memory' = memory
      /\ scan'.yielded = << >> /\ scan'.hook = scan.hook /\ editor # "dir"
      /\ scan'.conversation = scan.conversation /\ ~Transcript' /\ scan.hook \in BOOLEAN
  BY <1>1, <1>4 DEF Steady, ScanFields, Transcript, Faithful, Kinds
<1>7. Reading'
  <2>1. \A k \in DOMAIN todo : draft[todo[k].bubble] > 0
    BY <1>3 DEF ToSet
  <2>2. QED BY <1>4, <1>6, <2>1 DEF Reading
<1>8. Sounds'
  BY <1>1, <1>6, SoundsFrom DEF Faithful, Items
<1>9. ASSUME NEW m \in scan.due, ~blind PROVE Covered(m)'
  <2>1. m \in {b \in Bubble :
          /\ draft[b] > 0 /\ Drafts[b][draft[b]] # << >>
          /\ \E c \in DOMAIN BubblesOf :
                /\ b \in ToSet(BubblesOf[c]) /\ scan.conversation \in {NoValue, c}
                /\ \E w \in ListedBy(c) :
                      Passes(scan.filter, FolderOf[w])
                      \/ (scan.hook /\ scan.conversation # NoValue)}
    BY <1>1, <1>9 DEF Faithful, Coverage, Due, Transcript
  <2>2. m \in Bubble /\ draft[m] > 0
    BY <2>1
  <2>c. PICK c \in DOMAIN BubblesOf :
           /\ m \in ToSet(BubblesOf[c]) /\ scan.conversation \in {NoValue, c}
           /\ \E w \in ListedBy(c) :
                 Passes(scan.filter, FolderOf[w]) \/ (scan.hook /\ scan.conversation # NoValue)
    BY <2>1
  <2>3. PICK w \in ListedBy(c) :
           Passes(scan.filter, FolderOf[w]) \/ (scan.hook /\ scan.conversation # NoValue)
    BY <2>c
  <2>4. CASE \E x \in ToSet(found) : x.composer = c
    <3>1. \E h \in ToSet(todo) : h.bubble = m
      BY <1>3, <2>2, <2>c, <2>4
    <3>2. \E k \in DOMAIN scan'.todo : scan'.todo[k].bubble = m
      BY <1>4, <3>1 DEF ToSet
    <3>3. QED BY <1>4, <1>6, <3>2 DEF Covered
  <2>5. CASE ~\E x \in ToSet(found) : x.composer = c
    <3>1. ~Passes(scan.filter, FolderOf[w])
      BY <1>2, <1>9, <2>c, <2>3, <2>5
    <3>2. scan.hook /\ scan.conversation # NoValue /\ scan.conversation = c
      BY <2>c, <2>3, <3>1
    <3>3. ToSet(found) = {}
      BY <1>2, <2>5, <3>2
    <3>4. found = << >>
      <4>1. SUFFICES ASSUME found # << >> PROVE FALSE
        OBVIOUS
      <4>2. 1 \in DOMAIN found
        BY <1>2, <4>1
      <4>3. QED BY <3>3, <4>2 DEF ToSet
    <3>5. Again'
      BY <1>1, <1>4, <1>6, <1>n, <3>2, <3>4 DEF Again
    <3>6. QED BY <1>4, <1>6, <3>5 DEF Covered
  <2>6. QED BY <2>4, <2>5
<1>10. Coverage'
  <2>1. scan.blind => blind
    BY DEF blind
  <2>2. QED BY <1>1, <1>4, <1>9, <2>1, CoverageOf DEF Faithful, ScanFields
<1>11. QED BY <1>5, <1>7, <1>8, <1>10 DEF Faithful

\* A bubble is read, or a row that cannot be.
LEMMA BubbleFaithful ==
    ASSUME Faithful, NEW readable \in BOOLEAN, ReadBubble(readable)
    PROVE  Faithful'
<1> DEFINE b == Head(scan.todo).bubble
           text == IF readable THEN Drafts[b][draft[b]] ELSE << >>
           got == Yield(b, b, text, Head(scan.todo).folder)
           rest == Tail(scan.todo)
           blind == scan.blind \/ ~readable
           yielded == scan.yielded \o got
<1>1. /\ Steady /\ editor = "cursor" /\ scan.at = "bubbles" /\ scan.todo # << >>
      /\ DOMAIN scan = ScanFields /\ ~Transcript /\ blind \in BOOLEAN
      /\ scan' = [scan EXCEPT !.todo = rest, !.blind = blind, !.yielded = yielded]
  BY SMTT(30) DEF ReadBubble, Steady, Faithful, Kinds, Transcript
<1>2. /\ b \in Bubble /\ draft[b] > 0 /\ rest \in Seq(Header)
      /\ \A k \in DOMAIN rest : draft[rest[k].bubble] > 0
      /\ \A k \in DOMAIN scan.todo :
            scan.todo[k].bubble = b \/ (k - 1 \in DOMAIN rest /\ rest[k - 1] = scan.todo[k])
  <2> DEFINE todo == scan.todo
  <2>1. todo \in Seq(Header) /\ todo # << >> /\ \A k \in DOMAIN todo : draft[todo[k].bubble] > 0
    BY <1>1 DEF Faithful, Kinds, Reading, Header
  <2> HIDE DEF todo
  <2>2. /\ 1 \in DOMAIN todo /\ Head(todo) = todo[1] /\ todo[1] \in Header
        /\ Tail(todo) \in Seq(Header) /\ DOMAIN todo = 1 .. Len(todo) /\ Len(todo) \in Nat
        /\ DOMAIN Tail(todo) = 1 .. Len(todo) - 1
        /\ \A k \in 1 .. Len(todo) - 1 : Tail(todo)[k] = todo[k + 1]
    BY <2>1
  <2>3. \A k \in DOMAIN Tail(todo) : k + 1 \in DOMAIN todo
    BY <2>2
  <2>4. Head(todo).bubble \in Bubble
    BY <2>2 DEF Header
  <2>5. \A k \in DOMAIN todo : k = 1 \/ (k - 1 \in 1 .. Len(todo) - 1 /\ (k - 1) + 1 = k)
    BY <2>2
  <2>6. \A k \in DOMAIN todo : todo[k].bubble = Head(todo).bubble
                                  \/ (k - 1 \in DOMAIN Tail(todo) /\ Tail(todo)[k - 1] = todo[k])
    BY <2>2, <2>5
  <2>7. \A k \in DOMAIN Tail(todo) : draft[Tail(todo)[k].bubble] > 0
    BY <2>1, <2>2, <2>3
  <2>8. draft[Head(todo).bubble] > 0
    BY <2>1, <2>2
  <2>9. QED BY <2>2, <2>4, <2>6, <2>7, <2>8, SMTT(30) DEF todo
<1>3. Drafts[b][draft[b]] \in Text /\ TextOf(b) = Drafts[b][draft[b]] /\ NameOf(b) = b
  <2>1. Drafts[b] \in Seq(Text) /\ draft[b] \in Nat /\ draft[b] <= Len(Drafts[b])
    BY <1>2, ChatsAssumption, SMTT(30) DEF Bubble, Faithful, Kinds
  <2> HIDE DEF b
  <2>2. Drafts[b][draft[b]] \in Text
    BY <1>2, <2>1
  <2>3. QED BY <1>1, <2>2 DEF TextOf, NameOf
<1>4. text \in Text
  BY <1>3 DEF Text
<1>5. /\ got \in Seq(ToSet(got)) /\ NamesOf(got) = IdsOf(b, text)
      /\ \A item \in ToSet(got) :
            Cut(item) /\ item.id[1] = b /\ item.message = b /\ item.text = text
  <2> HIDE DEF text, b
  <2>1. QED BY <1>4, YieldMakes, SMTT(30) DEF NamesOf
<1>6. readable => text = TextOf(b)
  BY <1>3
<1>7. ~readable => ToSet(got) = {}
  <2>1. ASSUME ~readable PROVE ChunkText(text) = << >> /\ DOMAIN << >> = {}
    <3>1. text = << >> /\ DOMAIN << >> = {}
      BY <2>1
    <3> HIDE DEF text
    <3>2. ChunkText(text) = << >>
      BY <1>4, <3>1, ChunksWhole
    <3>3. QED BY <3>1, <3>2
  <2> HIDE DEF got, text, b
  <2>2. ~readable => IdsOf(b, text) = {}
    BY <2>1 DEF IdsOf
  <2>3. QED BY <1>5, <2>2 DEF NamesOf
<1> HIDE DEF b, text, got, rest, blind
<1>8. /\ yielded \in Seq(ToSet(yielded))
      /\ \A x : x \in ToSet(yielded) <=> x \in ToSet(scan.yielded) \/ x \in ToSet(got)
  <2>1. scan.yielded \in Seq(ToSet(scan.yielded))
    BY DEF Faithful, Kinds
  <2>2. QED BY <1>5, <2>1, Concats
<1> HIDE DEF yielded
<1>9. /\ DOMAIN scan' = ScanFields /\ scan'.todo = rest /\ scan'.blind = blind
      /\ scan'.yielded = yielded
      /\ \A field \in ScanFields \ {"todo", "blind", "yielded"} : scan'[field] = scan[field]
  BY <1>1 DEF ScanFields
<1>10. Kinds'
  BY <1>1, <1>2, <1>8, <1>9, KindsOf DEF Faithful, Kinds, ScanFields, Header
<1>11. editor' = editor /\ draft' = draft /\ file' = file /\ grown' = grown /\ memory' = memory
       /\ scan'.at = "bubbles" /\ editor # "dir" /\ editor # "codex" /\ ~Transcript'
  BY <1>1, <1>9 DEF Steady, ScanFields, Transcript
<1>12. Reading'
  BY <1>2, <1>9, <1>11 DEF Reading
<1>13. Sounds'
  <2>1. ASSUME NEW item \in ToSet(got) PROVE Sound(item)
    <3>1. item.text = TextOf(b) /\ item.message = b /\ item.id[1] = b /\ Cut(item)
      BY <1>5, <1>6, <1>7, <2>1
    <3>2. QED BY <1>1, <1>2, <1>3, <1>11, <3>1 DEF Sound
  <2>2. \A item \in Items' : item \in Items \/ Sound(item)
    BY <1>8, <1>9, <1>11, <2>1 DEF Items
  <2>3. QED BY <1>11, <2>2, SoundsFrom DEF Faithful
<1>14. ASSUME NEW m \in scan.due, Covered(m), ~blind PROVE Covered(m)'
  <2>1. readable
    BY <1>14 DEF blind
  <2>2. CASE Seen(m)
    BY <1>8, <1>9, <1>11, <2>2, SeenGrows DEF Covered
  <2>3. CASE m = b
    <3>1. Ids(m) = NamesOf(got)
      BY <1>3, <1>5, <1>6, <2>1, <2>3 DEF Ids
    <3>2. Ids(m)' = Ids(m)
      BY <1>11, SameText
    <3>3. Seen(m)'
      BY <1>8, <1>9, <3>1, <3>2 DEF Seen, NamesOf
    <3>4. QED BY <1>11, <3>3 DEF Covered
  <2>4. CASE \E k \in DOMAIN rest : rest[k].bubble = m
    BY <1>9, <1>11, <2>4 DEF Covered
  <2>5. ~Again
    BY <1>1 DEF Again
  <2>6. Seen(m) \/ \E k \in DOMAIN scan.todo : scan.todo[k].bubble = m
    BY <1>1, <1>14, <2>5 DEF Covered
  <2>7. QED BY <1>2, <2>2, <2>3, <2>4, <2>6
<1>15. Coverage'
  <2>1. scan.blind => blind
    BY DEF blind
  <2>2. QED BY <1>1, <1>9, <1>14, <2>1, CoverageOf DEF Faithful, ScanFields
<1>16. QED BY <1>10, <1>12, <1>13, <1>15 DEF Faithful

(***************************************************************************)
(* Every step.                                                             *)
(***************************************************************************)
LEMMA StutterFaithful == ASSUME Faithful, UNCHANGED source_vars PROVE Faithful'
<1>1. /\ Steady /\ scan' = scan /\ editor' = editor /\ draft' = draft /\ file' = file
      /\ grown' = grown /\ memory' = memory
  BY DEF source_vars, Steady
<1>2. Kinds'
  BY <1>1, KindsOf DEF Faithful, Kinds
<1>3. Reading'
  BY <1>1 DEF Steady, Faithful, Reading, Transcript
<1>4. Sounds'
  BY <1>1, SoundsFrom DEF Faithful, Items
<1>5. ASSUME NEW m, Covered(m) PROVE Covered(m)'
  BY <1>1, <1>5, SameText, CoveredSame
<1>6. Coverage'
  BY <1>1, <1>5, CoverageOf DEF Faithful
<1>7. QED BY <1>2, <1>3, <1>4, <1>6 DEF Faithful

\* Every step keeps the invariant.
LEMMA StepFaithful == ASSUME Faithful, [SourcesNext]_source_vars PROVE Faithful'
<1>1. ASSUME NEW filter, NEW conversation, NEW hook \in BOOLEAN,
             NEW override \in {NoValue, Override}, Begin(filter, conversation, hook, override)
      PROVE  Faithful'
  BY <1>1, BeginFaithful
<1>2. ASSUME NEW dir, NEW scope \in {NoValue, Override}, NEW conversation,
             \/ CmdIngestTranscript(dir, scope) \/ CmdIngestCodex(dir, scope)
             \/ CmdIngestDir(scope) \/ CmdIngestCursor(dir, conversation, scope)
             \/ HookIngestCursor(dir, conversation)
      PROVE  Faithful'
  <2>1. \E f, c : \E h \in BOOLEAN, o \in {NoValue, Override} : Begin(f, c, h, o)
    <3>1. CASE CmdIngestTranscript(dir, scope)
      BY <3>1, Zenon DEF CmdIngestTranscript
    <3>2. CASE CmdIngestCodex(dir, scope)
      BY <3>2, Zenon DEF CmdIngestCodex
    <3>3. CASE CmdIngestDir(scope)
      BY <3>3, Zenon DEF CmdIngestDir
    <3>4. CASE CmdIngestCursor(dir, conversation, scope)
      BY <3>4, Zenon DEF CmdIngestCursor
    <3>5. CASE HookIngestCursor(dir, conversation)
      BY <3>5, Zenon DEF HookIngestCursor
    <3>6. QED BY <1>2, <3>1, <3>2, <3>3, <3>4, <3>5
  <2>2. QED BY <1>1, <2>1
<1>3. CASE HookIngestClaude \/ HookIngestCodex
  <2>1. Begin(NoValue, NoValue, TRUE, NoValue)
    BY <1>3 DEF HookIngestClaude, HookIngestCodex
  <2>2. QED BY <1>1, <2>1
<1>4. CASE ReadLine
  BY <1>4, ReadLineFaithful
<1>5. CASE EndOfFile
  BY <1>5, EndOfFileFaithful
<1>6. CASE FileToItems
  BY <1>6, FileFaithful
<1>7. CASE LastBubble
  BY <1>7, LastBubbleFaithful
<1>8. CASE IngestYielded
  BY <1>8, IngestFaithful
<1>9. ASSUME NEW readable \in SUBSET DOMAIN ComposersOf, ListComposers(readable) PROVE Faithful'
  BY <1>9, ListFaithful
<1>10. ASSUME NEW readable \in BOOLEAN, ReadBubble(readable) PROVE Faithful'
  BY <1>10, BubbleFaithful
<1>11. ASSUME NEW n \in DOMAIN scan.yielded, IngestInterrupted(n) PROVE Faithful'
  BY <1>11, InterruptedFaithful
<1>12. CASE WriteLine
  BY <1>12, WriteLineFaithful
<1>13. ASSUME NEW b \in Bubble, WriteBubble(b) PROVE Faithful'
  BY <1>13, WriteBubbleFaithful
<1>14. ASSUME NEW text \in FileTexts \cup {NoFile}, WriteFile(text) PROVE Faithful'
  BY <1>14, WriteFileFaithful
<1>15. CASE UNCHANGED source_vars
  BY <1>15, StutterFaithful
<1>16. ASSUME \E dir \in {NoValue, Directory}, scope \in {NoValue, Override} :
                 \/ CmdIngestTranscript(dir, scope) \/ CmdIngestCodex(dir, scope)
                 \/ CmdIngestDir(scope)
                 \/ \E conversation \in DOMAIN BubblesOf \cup {NoValue} :
                       \/ CmdIngestCursor(dir, conversation, scope)
                       \/ HookIngestCursor(dir, conversation)
       PROVE Faithful'
  BY <1>2, <1>16
<1>17. CASE SourcesNext
  BY <1>3, <1>4, <1>5, <1>6, <1>7, <1>8, <1>9, <1>10, <1>11, <1>12, <1>13, <1>14, <1>16, <1>17
     DEF SourcesNext
<1>18. QED BY <1>15, <1>17

\* What a run reads is what was there, under its own name, and what was there
\* when the run began is on its way into the store (items, ingest_source).
THEOREM AlwaysFaithful == SourcesSpec => []Faithful
<1>1. SourcesInit => Faithful
  BY FirstFaithful
<1>2. Faithful /\ [SourcesNext]_source_vars => Faithful'
  BY StepFaithful
<1>3. QED BY <1>1, <1>2, PTL DEF SourcesSpec

\* A message is stored once, under one name and one chunking and the scope of
\* its own directory, whichever runs read it (StoredOnce: LineToItems, Yield).
THEOREM MessagesStoredOnce == SourcesSpec => []StoredOnce
<1>1. ASSUME Faithful, NEW a \in DOMAIN memory, NEW b \in DOMAIN memory,
             memory[a].message = memory[b].message, memory[a].message \notin grown,
             ~(editor = "codex" /\ (memory[a].split \/ memory[b].split))
      PROVE  /\ a[1] = b[1] /\ (a[2] = Whole <=> b[2] = Whole)
             /\ Transcript => memory[a].scope \in {Override, CwdOf(memory[a].message)}
  <2>1. /\ Sound(memory[a]) /\ Sound(memory[b]) /\ memory[a].id = a /\ memory[b].id = b
    BY <1>1 DEF Faithful, Sounds, Items, Kinds
  <2>2. /\ a[1] = NameOf(memory[a].message) /\ b[1] = NameOf(memory[a].message)
        /\ Transcript => memory[a].scope \in {Override, CwdOf(memory[a].message)}
    BY <1>1, <2>1 DEF Sound
  <2> DEFINE text == TextOf(memory[a].message)
             chunks == ChunkText(text)
  <2>3. memory[a].text = text /\ memory[b].text = text /\ text \in Text
    BY <1>1, <2>1 DEF Sound, Cut
  <2>4. DOMAIN chunks \subseteq Nat \ {0}
    <3>1. chunks \in Seq(Seq(Place(text)))
      BY <2>3, ChunksWhole
    <3> HIDE DEF chunks
    <3>2. QED BY <3>1
  <2>5. /\ \E k \in DOMAIN chunks : a[2] = IF Len(chunks) = 1 THEN Whole ELSE k
        /\ \E k \in DOMAIN chunks : b[2] = IF Len(chunks) = 1 THEN Whole ELSE k
    BY <2>1, <2>3 DEF Sound, Cut
  <2> HIDE DEF chunks
  <2>6. a[2] = Whole <=> b[2] = Whole
    BY <2>4, <2>5 DEF Whole
  <2>7. QED BY <2>2, <2>6
<1>2. Faithful => StoredOnce
  BY <1>1 DEF StoredOnce
<1>3. QED BY <1>2, AlwaysFaithful, PTL

\* A message that a run waited for has a text.
LEMMA DueTexts ==
    ASSUME Faithful, NEW m \in scan.due
    PROVE  TextOf(m) \in Text /\ TextOf(m) # << >>
<1>1. CASE Transcript
  <2>1. m \in 1 .. written /\ Spoken(m) /\ editor # "dir" /\ editor \in {"claude", "codex"}
    BY <1>1, DueOf DEF Faithful, Coverage, Transcript
  <2>2. m \in DOMAIN Script
    <3>1. Len(Script) \in Nat /\ DOMAIN Script = 1 .. Len(Script)
      BY LinesAssumption DEF Script
    <3>2. QED BY <1>1, <2>1, <3>1 DEF Faithful, Kinds
  <2>3. Script[m].text \in Text /\ Script[m].text # << >>
    BY <2>1, <2>2, LinesAssumption DEF Spoken, Script
  <2>4. QED BY <1>1, <2>1, <2>3 DEF TextOf
<1>2. CASE editor = "dir"
  <2>1. file # NoFile /\ file # << >>
    BY <1>2, DueOf DEF Faithful, Coverage
  <2>2. QED BY <1>2, <2>1, FilesAssumption DEF Faithful, Kinds, TextOf, Transcript
<1>3. CASE editor = "cursor"
  <2>1. m \in Bubble /\ draft[m] > 0 /\ Drafts[m][draft[m]] # << >>
    BY <1>3 DEF Faithful, Coverage, Due, Transcript
  <2>2. Drafts[m] \in Seq(Text) /\ draft[m] \in Nat /\ draft[m] <= Len(Drafts[m])
    BY <2>1, ChatsAssumption DEF Bubble, Faithful, Kinds
  <2>3. Drafts[m][draft[m]] \in Text
    BY <2>1, <2>2
  <2>4. QED BY <1>3, <2>1, <2>3 DEF TextOf, Transcript
<1>4. QED BY <1>1, <1>2, <1>3 DEF Faithful, Kinds, Transcript

\* The items of a message that is kept are its chunks, in order.
LEMMA KeptIsComplete ==
    ASSUME Faithful, NEW m \in scan.due, Kept(m), editor = "cursor" => m \notin grown,
           ~(editor = "codex" /\ Misnumbered(NameOf(m)))
    PROVE  Complete(m, NameOf(m))
<1> DEFINE text == TextOf(m)
           name == NameOf(m)
           chunks == ChunkText(text)
           L == Len(chunks)
           id(i) == <<name, IF L = 1 THEN Whole ELSE i>>
           n == IF L = 1 THEN Whole ELSE L
           ids == IF n = 0 THEN << <<name, Whole>> >> ELSE [i \in 1 .. n |-> <<name, i>>]
           got == Held(name, n)
<1>1. text \in Text /\ text # << >>
  BY DueTexts
<1>2. /\ chunks \in Seq(Seq(Place(text))) /\ chunks # << >>
      /\ FlattenSeq(chunks) = FlattenSeq([p \in DOMAIN text |-> Characters(text, p)])
      /\ \A k \in DOMAIN chunks : Bytes(text, chunks[k]) <= Cap
  <2> HIDE DEF text
  <2>1. QED BY <1>1, ChunksWhole
<1>3. L \in Nat \ {0} /\ DOMAIN chunks = 1 .. L
  <2> DEFINE S == Seq(Place(text))
  <2>1. chunks \in Seq(S)
    BY <1>2
  <2> HIDE DEF chunks, S
  <2>2. QED BY <1>2, <2>1
<1>4. ASSUME NEW i \in 1 .. L
      PROVE  /\ id(i) \in DOMAIN memory /\ memory[id(i)].message = m
             /\ memory[id(i)].text = text /\ memory[id(i)].chunk = chunks[i]
  <2> DEFINE item == memory[id(i)]
  <2>1. id(i) \in Ids(m)
    BY <1>3, <1>4 DEF Ids, IdsOf
  <2>2. id(i) \in DOMAIN memory
    BY <2>1 DEF Kept
  <2>3. Sound(item) /\ item.id = id(i)
    BY <2>2 DEF Faithful, Sounds, Items, Kinds
  <2>4. ~(editor = "codex" /\ item.split)
    BY <2>2 DEF Misnumbered
  <2>5. NameOf(item.message) = NameOf(m)
    BY <2>3, <2>4 DEF Sound
  <2>6. item.message = m
    BY <2>5 DEF NameOf
  <2>7. item.text = text
    <3>1. CASE editor = "dir"
      BY <2>1, <3>1 DEF Kept
    <3>2. CASE editor # "dir"
      <4>1. m \notin grown
        BY <3>2 DEF Faithful, Kinds, Transcript
      <4>2. QED BY <2>3, <2>6, <4>1 DEF Sound
    <3>3. QED BY <3>1, <3>2
  <2>8. PICK k \in DOMAIN chunks : item.chunk = chunks[k] /\ id(i)[2] = IF L = 1 THEN Whole ELSE k
    BY <2>3, <2>7 DEF Sound, Cut
  <2>9. k = i
    BY <1>3, <2>8
  <2>10. QED BY <2>2, <2>6, <2>7, <2>8, <2>9
<1> HIDE DEF chunks, text, name
<1>5. /\ DOMAIN ids = 1 .. L /\ \A i \in 1 .. L : ids[i] = id(i)
  <2>1. CASE L = 1
    <3>1. ids = << <<name, Whole>> >> /\ \A i \in 1 .. 1 : i = 1
      BY <2>1 DEF Whole
    <3> HIDE DEF ids
    <3>2. DOMAIN ids = 1 .. 1 /\ ids[1] = <<name, Whole>>
      BY <3>1
    <3>3. QED BY <2>1, <3>1, <3>2
  <2>2. CASE L # 1
    <3>1. ids = [i \in 1 .. L |-> <<name, i>>]
      BY <1>3, <2>2 DEF Whole
    <3> HIDE DEF ids
    <3>2. QED BY <2>2, <3>1
  <2>3. QED BY <2>1, <2>2
<1>6. ToSet(ids) \subseteq DOMAIN memory
  BY <1>4, <1>5, ZenonT(40) DEF ToSet
<1>7. got = [k \in DOMAIN ids |-> memory[ids[k]]]
  <2> HIDE DEF n
  <2>1. QED BY <1>6 DEF Held
<1> HIDE DEF ids
<1>8. DOMAIN got = 1 .. L /\ \A k \in 1 .. L : got[k] = memory[id(k)]
  BY <1>5, <1>7, ZenonT(40)
<1> HIDE DEF got
<1>9. \A k \in DOMAIN got : /\ got[k].message = m /\ got[k].text = text
                              /\ got[k].chunk = chunks[k]
  BY <1>4, <1>8
<1>10. [k \in DOMAIN got |-> got[k].chunk] = chunks
  <2>1. chunks = [k \in 1 .. L |-> chunks[k]]
    <3> DEFINE S == Seq(Place(text))
    <3> HIDE DEF S
    <3>1. chunks \in Seq(S)
      BY <1>2 DEF S
    <3>2. QED BY <1>3, <3>1
  <2>2. QED BY <1>8, <1>9, <2>1
<1>11. n \in {x[2] : x \in DOMAIN memory}
  <2>1. L \in 1 .. L /\ id(L)[2] = n
    BY <1>3
  <2>2. id(L) \in DOMAIN memory
    BY <1>4, <2>1
  <2> HIDE DEF n, id
  <2>3. QED BY <2>1, <2>2
<1>12. /\ \A k \in DOMAIN got : got[k].message = m /\ got[k].text = text
       /\ FlattenSeq([k \in DOMAIN got |-> got[k].chunk])
          = FlattenSeq([p \in DOMAIN text |-> Characters(text, p)])
       /\ \A k \in DOMAIN got : Bytes(text, got[k].chunk) <= Cap
  <2>1. \A k \in DOMAIN got : Bytes(text, got[k].chunk) <= Cap
    BY <1>2, <1>3, <1>8, <1>9
  <2>2. QED BY <1>2, <1>9, <1>10, <2>1
<1> HIDE DEF n
<1>13. QED BY <1>11, <1>12 DEF Complete, got, text, name

\* When a run ends, every message that was there when it began is in the store,
\* whole and in order, but for the two kinds that are lost (StoredWhole:
\* ingest_source, items, hook_ingest_cursor).
THEOREM MessagesStoredWhole == SourcesSpec => []StoredWhole
<1>1. ASSUME Faithful, scan.at = "done", ~scan.blind, NEW m \in scan.due
      PROVE  \/ Complete(m, NameOf(m))
             \/ editor = "cursor" /\ m \in grown
             \/ editor = "codex" /\ Misnumbered(NameOf(m))
  <2>1. Kept(m)
    BY <1>1 DEF Faithful, Coverage, Covered
  <2>2. QED BY <1>1, <2>1, KeptIsComplete
<1>2. Faithful => StoredWhole
  BY <1>1 DEF StoredWhole
<1>3. QED BY <1>2, AlwaysFaithful, PTL
==============================================================================
