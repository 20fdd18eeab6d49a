----------------------------- MODULE GraphFacts -----------------------------
(***************************************************************************)
(* The knowledge graph of a store: add_fact, invalidate_fact and           *)
(* supersede_fact of graph/write.rs, called by threads of several          *)
(* processes.  The threads of a process share one Store and the mutex of   *)
(* its connection; processes meet in the SQLite file.                      *)
(*                                                                         *)
(* Every call is one deferred SQLite transaction in WAL mode: its first    *)
(* SELECT fixes the snapshot it reads, and its first write fails when      *)
(* another connection has committed since.  Names are normalised names;    *)
(* predicate and scope, always compared together, are one label; an id is  *)
(* the position of its row.                                                *)
(***************************************************************************)
EXTENDS Integers, Sequences

CONSTANTS
    Thread, Store, StoreOf, \* callers, open stores, and which store each uses
    Name, Value,            \* entities, and literal objects
    Label,                  \* (predicate, scope) pairs
    Kind, Confidence, FullConfidence,
    Request,                \* the calls the threads make
    None,                   \* NULL, and "no thread"
    Absent,                 \* "no such entity"
    MaxTime, MaxFact        \* bounds: clock, and rows that fill the database

Time == 0 .. MaxTime
Object == Name \cup Value

AddRequest ==
    [op : {"add"}, subject : Name, label : Label, object : Object,
     kind : Kind \cup {None}, object_kind : Kind \cup {None},
     valid_from : Time \cup {None}, valid_to : Time \cup {None},
     confidence : Confidence]
InvalidateRequest ==
    [op : {"invalidate"}, subject : Name, label : Label, object : Object,
     at : Time \cup {None}]
SupersedeRequest ==
    [op : {"supersede"}, subject : Name, label : Label, object : Object,
     new : Object, new_kind : Kind \cup {None}, at : Time \cup {None}]

ASSUME GraphAssumption ==
    /\ StoreOf \in [Thread -> Store]
    /\ Request \subseteq AddRequest \cup InvalidateRequest \cup SupersedeRequest
    /\ FullConfidence \in Confidence /\ MaxTime \in Nat /\ MaxFact \in Nat
    /\ None \notin Kind \cup Thread \cup Object /\ None \notin Time /\ None \notin Nat
    /\ None \notin Request
    /\ Absent \notin Kind \cup {None}

Fact ==
    [subject : Name, label : Label, object : Object,
     valid_from : Time \cup {None}, valid_to : Time \cup {None},
     confidence : Confidence, supersedes : Nat \cup {None}, recorded_at : Time]

VARIABLES
    facts,          \* the rows of table facts, in commit order
    entities,       \* table entities: each name's kind, None or Absent
    db_lock,        \* the thread whose connection may write, or None
    conn,           \* holder of each store's connection mutex
    clock,
    pc, request, now,
    snapshot,       \* number of rows a running transaction can read
    tx              \* the tables as a running transaction sees them

vars == <<facts, entities, db_lock, conn, clock, pc, request, now, snapshot, tx>>

Tables == [facts : Seq(Fact), entities : [Name -> Kind \cup {None, Absent}]]

TypeOK ==
    /\ facts \in Seq(Fact) /\ entities \in [Name -> Kind \cup {None, Absent}]
    /\ \A i \in DOMAIN facts : \A n \in {facts[i].subject, facts[i].object} \cap Name :
          entities[n] # Absent
    /\ db_lock \in Thread \cup {None} /\ conn \in [Store -> Thread \cup {None}]
    /\ clock \in Time
    /\ pc \in [Thread -> {"idle", "called", "reading", "writing"}]
    /\ request \in [Thread -> Request \cup {None}] /\ now \in [Thread -> Time]
    /\ snapshot \in [Thread -> Nat] /\ tx \in [Thread -> Tables]

NoTables == [facts |-> << >>, entities |-> [n \in Name |-> Absent]]

Init ==
    /\ facts = << >> /\ entities = [n \in Name |-> Absent]
    /\ db_lock = None /\ conn = [s \in Store |-> None] /\ clock = 0
    /\ pc = [t \in Thread |-> "idle"] /\ request = [t \in Thread |-> None]
    /\ now = [t \in Thread |-> 0] /\ snapshot = [t \in Thread |-> 0]
    /\ tx = [t \in Thread |-> NoTables]

(***************************************************************************)
(* The statements of a transaction, on the tables it sees.                 *)
(***************************************************************************)
\* Mutant of OpenHeads: superseded rows count as open.
OpenHeadsSuperseded(fs, s, l, o) ==
    {i \in DOMAIN fs :
        /\ fs[i].subject = s /\ fs[i].label = l /\ fs[i].object = o
        /\ fs[i].valid_to = None}

\* find_open_head: at most one, if OneOpenHead holds.
OpenHeads(fs, s, l, o) ==
    {i \in DOMAIN fs :
        /\ fs[i].subject = s /\ fs[i].label = l /\ fs[i].object = o
        /\ fs[i].valid_to = None
        /\ \A j \in DOMAIN fs : fs[j].supersedes # i}

Head1(fs, s, l, o) == CHOOSE i \in OpenHeads(fs, s, l, o) : TRUE

KindConflict(es, n, kind) == kind # None /\ es[n] \in Kind /\ es[n] # kind

\* Mutant of GetOrCreate: the row is replaced.
GetOrCreateReplaces(es, n, kind) == [es EXCEPT ![n] = kind]

\* get_or_create_entity.
GetOrCreate(es, n, kind) ==
    [es EXCEPT ![n] = IF @ \in Kind THEN @ ELSE kind]

\* The entities once a fact's subject, then its object, are resolved.
Resolved(es, r) ==
    LET subjects == GetOrCreate(es, r.subject, r.kind)
    IN IF r.object \in Name THEN GetOrCreate(subjects, r.object, r.object_kind) ELSE subjects

\* head_matches_request.
Matches(f, r) ==
    f.valid_from = r.valid_from /\ f.valid_to = r.valid_to /\ f.confidence = r.confidence

\* add_fact_in_tx: what makes it return an error.
AddFails(db, r) ==
    LET heads == OpenHeads(db.facts, r.subject, r.label, r.object)
    IN \/ r.valid_from # None /\ r.valid_to # None /\ r.valid_to < r.valid_from
       \/ KindConflict(db.entities, r.subject, r.kind)
       \/ /\ r.object \in Name
          /\ KindConflict(GetOrCreate(db.entities, r.subject, r.kind), r.object, r.object_kind)
       \/ \E i \in heads : ~Matches(db.facts[i], r)

\* add_fact_in_tx: an open fact that already stands is returned as it is.
AddFact(db, r, time) ==
    LET row == [subject |-> r.subject, label |-> r.label, object |-> r.object,
                valid_from |-> r.valid_from, valid_to |-> r.valid_to,
                confidence |-> r.confidence, supersedes |-> None, recorded_at |-> time]
    IN [facts |-> IF OpenHeads(db.facts, r.subject, r.label, r.object) # {}
                  THEN db.facts ELSE Append(db.facts, row),
        entities |-> Resolved(db.entities, r)]

\* invalidate_in_tx: FactNotFound, and the window check.
NotFound(db, r) == OpenHeads(db.facts, r.subject, r.label, r.object) = {}

EndsBeforeStart(db, r, at) ==
    LET head == db.facts[Head1(db.facts, r.subject, r.label, r.object)]
    IN ~NotFound(db, r) /\ head.valid_from # None /\ at < head.valid_from

Close(db, r, at, time) ==
    LET i == Head1(db.facts, r.subject, r.label, r.object)
    IN [db EXCEPT !.facts = Append(@, [db.facts[i] EXCEPT !.valid_to = at,
                                                         !.supersedes = i,
                                                         !.recorded_at = time])]

At(r, time) == IF r.at = None THEN time ELSE r.at

\* The fact a supersede records in place of the old one.
Replacement(r, time) ==
    [op |-> "add", subject |-> r.subject, label |-> r.label, object |-> r.new,
     kind |-> None, object_kind |-> r.new_kind, valid_from |-> At(r, time), valid_to |-> None,
     confidence |-> FullConfidence]

\* supersede_fact tolerates that there is nothing to close.
Closed(db, r, time) ==
    IF NotFound(db, r) THEN db ELSE Close(db, r, At(r, time), time)

Fails(db, r, time) ==
    \/ r.op = "add" /\ AddFails(db, r)
    \/ r.op # "add" /\ EndsBeforeStart(db, r, At(r, time))
    \/ r.op = "invalidate" /\ NotFound(db, r)
    \/ r.op = "supersede" /\ AddFails(Closed(db, r, time), Replacement(r, time))

Result(db, r, time) ==
    CASE r.op = "add" -> AddFact(db, r, time)
      [] r.op = "invalidate" -> Close(db, r, At(r, time), time)
      [] OTHER -> AddFact(Closed(db, r, time), Replacement(r, time), time)

(***************************************************************************)
(* The calls.                                                              *)
(***************************************************************************)
Tick ==
    /\ clock < MaxTime /\ clock' = clock + 1
    /\ UNCHANGED <<facts, entities, db_lock, conn, pc, request, now, snapshot, tx>>

\* The time of a call is read before it waits for the connection.
Call(t, r) ==
    /\ pc[t] = "idle"
    /\ request' = [request EXCEPT ![t] = r]
    /\ now' = [now EXCEPT ![t] = clock]
    /\ pc' = [pc EXCEPT ![t] = "called"]
    /\ UNCHANGED <<facts, entities, db_lock, conn, clock, snapshot, tx>>

\* conn.lock(), BEGIN, and the first SELECT.
Begin(t) ==
    /\ pc[t] = "called" /\ conn[StoreOf[t]] = None
    /\ conn' = [conn EXCEPT ![StoreOf[t]] = t]
    /\ snapshot' = [snapshot EXCEPT ![t] = Len(facts)]
    /\ tx' = [tx EXCEPT ![t] = [facts |-> facts, entities |-> entities]]
    /\ pc' = [pc EXCEPT ![t] = "reading"]
    /\ UNCHANGED <<facts, entities, db_lock, clock, request, now>>

\* The call returns and unlocks its connection.
Release(t) ==
    /\ conn' = [conn EXCEPT ![StoreOf[t]] = None]
    /\ request' = [request EXCEPT ![t] = None] /\ now' = [now EXCEPT ![t] = 0]
    /\ snapshot' = [snapshot EXCEPT ![t] = 0]
    /\ tx' = [tx EXCEPT ![t] = NoTables]
    /\ pc' = [pc EXCEPT ![t] = "idle"]
    /\ UNCHANGED clock

\* Mutant of Current: a stale snapshot may write (read committed).
CurrentIgnored(t) == TRUE

\* Has no other connection committed since the snapshot?
Current(t) == tx[t] = [facts |-> facts, entities |-> entities]

\* The open fact already stands: nothing is written.
Standing(t) ==
    /\ pc[t] = "reading" /\ ~Fails(tx[t], request[t], now[t])
    /\ Result(tx[t], request[t], now[t]) = tx[t]
    /\ Release(t)
    /\ UNCHANGED <<facts, entities, db_lock>>

\* The rest of the transaction up to COMMIT, with its writes.
Execute(t) ==
    /\ pc[t] = "reading" /\ ~Fails(tx[t], request[t], now[t])
    /\ Result(tx[t], request[t], now[t]) # tx[t]
    /\ db_lock = None /\ Current(t) /\ Len(facts) < MaxFact
    /\ tx' = [tx EXCEPT ![t] = Result(tx[t], request[t], now[t])]
    /\ db_lock' = t
    /\ pc' = [pc EXCEPT ![t] = "writing"]
    /\ UNCHANGED <<facts, entities, conn, clock, request, now, snapshot>>

NewRows(t) == SubSeq(tx[t].facts, snapshot[t] + 1, Len(tx[t].facts))

\* Mutant of Commit: the entities of the fact are created outside.
CommitFactsOnly(t) ==
    /\ pc[t] = "writing"
    /\ facts' = facts \o NewRows(t)
    /\ entities' = entities /\ db_lock' = None
    /\ Release(t)

\* Mutant of Commit: supersede_fact commits its closing row by itself.
CommitFirstRow(t) ==
    /\ pc[t] = "writing"
    /\ facts' = facts \o SubSeq(NewRows(t), 1, 1)
    /\ entities' = tx[t].entities /\ db_lock' = None
    /\ Release(t)

Commit(t) ==
    /\ pc[t] = "writing"
    /\ facts' = facts \o NewRows(t)
    /\ entities' = tx[t].entities /\ db_lock' = None
    /\ Release(t)

\* The transaction rolls back: a validation error, SQLITE_BUSY after the
\* timeout or for a stale snapshot, a full disk or another SQLite error.
Rollback(t) ==
    /\ pc[t] \in {"reading", "writing"}
    /\ db_lock' = IF db_lock = t THEN None ELSE db_lock
    /\ Release(t)
    /\ UNCHANGED <<facts, entities>>

\* A process dies with all its threads; SQLite discards what they had open.
Crash(s) ==
    LET dead == {t \in Thread : StoreOf[t] = s}
        Reset(f, v) == [t \in Thread |-> IF t \in dead THEN v ELSE f[t]]
    IN /\ \E t \in dead : pc[t] # "idle"
       /\ db_lock' = IF db_lock \in dead THEN None ELSE db_lock
       /\ conn' = [conn EXCEPT ![s] = None]
       /\ pc' = Reset(pc, "idle") /\ request' = Reset(request, None)
       /\ now' = Reset(now, 0) /\ snapshot' = Reset(snapshot, 0)
       /\ tx' = Reset(tx, NoTables)
       /\ UNCHANGED <<facts, entities, clock>>

Next ==
    \/ Tick
    \/ \E s \in Store : Crash(s)
    \/ \E t \in Thread :
          \/ Begin(t) \/ Standing(t) \/ Execute(t) \/ Commit(t) \/ Rollback(t)
          \/ \E r \in Request : Call(t, r)

Spec == Init /\ [][Next]_vars

(***************************************************************************)
(* Properties.                                                             *)
(***************************************************************************)
\* A triple has at most one open fact, whatever threads and processes add,
\* close and replace it at the same time: a second one would fork the fact
\* and let an invalidation leave it standing (add_fact_in_tx,
\* find_open_head and the transaction around them).
OneOpenHead ==
    \A i, j \in DOMAIN facts :
        /\ i \in OpenHeads(facts, facts[i].subject, facts[i].label, facts[i].object)
        /\ j \in OpenHeads(facts, facts[i].subject, facts[i].label, facts[i].object)
        => i = j

\* No two rows supersede the same one, so fact_history never finds a fork,
\* and what a row supersedes is the earlier, open revision of its own fact
\* (invalidate_in_tx; docs/formats/store-v4.md, "never fork a chain").
ChainsNeverFork ==
    \A i \in DOMAIN facts : facts[i].supersedes # None =>
        LET j == facts[i].supersedes
        IN /\ j \in 1 .. (i - 1) /\ facts[j].valid_to = None
           /\ facts[i] = [facts[j] EXCEPT !.valid_to = facts[i].valid_to, !.supersedes = j,
                                          !.recorded_at = facts[i].recorded_at]
           /\ \A k \in DOMAIN facts : facts[k].supersedes = j => k = i

\* A supersede that commits leaves the replacement open, and the old fact
\* closed: never one without the other (supersede_fact).
SupersedeAtomic ==
    [][\A t \in Thread :
          pc[t] = "writing" /\ request[t].op = "supersede" /\ facts' # facts =>
            LET r == request[t]
            IN /\ OpenHeads(facts', r.subject, r.label, r.new) # {}
               /\ r.new = r.object \/ OpenHeads(facts', r.subject, r.label, r.object) = {}]_vars

\* Rows are never changed or removed, and neither is an entity or a kind
\* once it has one, although several writers create and complete the same
\* entity (get_or_create_entity, insert_fact_row).
HistoryKept ==
    [][/\ SubSeq(facts', 1, Len(facts)) = facts
       /\ \A n \in Name : /\ entities[n] # Absent => entities'[n] # Absent
                          /\ entities[n] \in Kind => entities'[n] = entities[n]]_vars

\* The rows a query with --recorded-at sees.
Believed(time) ==
    {i \in DOMAIN facts :
        /\ facts[i].recorded_at <= time
        /\ \A j \in DOMAIN facts : facts[j].supersedes = i => facts[j].recorded_at > time}

\* A chain whose first revision was recorded after R is invisible in what was
\* believed at R (fact_where; docs/formats/store-v4.md).
InvisibleBeforeRecorded ==
    \A time \in Time : \A i \in Believed(time) :
        facts[i].supersedes # None => facts[facts[i].supersedes].recorded_at <= time
=============================================================================
