----------------------------- MODULE GraphReads -----------------------------
(***************************************************************************)
(* The reads of graph/read.rs, as what each returns for the committed      *)
(* tables: queries with the two time axes, the timeline, the counts, the   *)
(* entities and the revisions of a fact.  A read is one or more SELECTs    *)
(* outside a transaction; graph_stats, which has two, takes the rows its   *)
(* first one saw as a parameter.                                           *)
(*                                                                         *)
(* A result is a sequence of rows, ids of one recorded_at in row order.  A *)
(* scope filter is the set of labels it lets pass, or None.                *)
(***************************************************************************)
EXTENDS GraphFacts, Lists
LOCAL INSTANCE SequencesExt

CONSTANTS
    PredicateOf,      \* the predicate of a label
    ScopeFilter,      \* the filters that are asked for
    TIMELINE_LIMIT

ASSUME ReadsAssumption ==
    /\ DOMAIN PredicateOf = Label /\ TIMELINE_LIMIT \in Nat \ {0}
    /\ ScopeFilter \subseteq (SUBSET Label) \cup {None}
    /\ None \notin Seq(Nat)

Directions == {"outgoing", "incoming", "both"}

GraphQuery ==
    [scope : ScopeFilter, as_of : Time \cup {None}, recorded_at : Time \cup {None},
     direction : Directions]

(***************************************************************************)
(* fact_where, on a table fs.                                              *)
(***************************************************************************)
RecordedBy(fs, i, r) == r = None \/ fs[i].recorded_at <= r

\* Mutant of NewestSeen: every revision is a head.
EveryRevision(fs, r) == {i \in DOMAIN fs : RecordedBy(fs, i, r)}

\* The heads, or at r the newest revisions recorded by then.
NewestSeen(fs, r) ==
    {i \in DOMAIN fs :
        /\ RecordedBy(fs, i, r)
        /\ ~\E j \in DOMAIN fs : fs[j].supersedes = i /\ RecordedBy(fs, j, r)}

InWindow(f, as_of) ==
    IF as_of = None THEN f.valid_to = None
    ELSE /\ f.valid_from = None \/ f.valid_from <= as_of
         /\ f.valid_to = None \/ as_of < f.valid_to

InScope(f, scope) == scope = None \/ f.label \in scope

\* Validity::AnyHead, with nothing but a scope.
AnyHead(fs, scope) == {i \in NewestSeen(fs, None) : InScope(fs[i], scope)}

\* Validity::Window.
FactWhere(q) ==
    {i \in NewestSeen(facts, q.recorded_at) :
        InWindow(facts[i], q.as_of) /\ InScope(facts[i], q.scope)}

(***************************************************************************)
(* The reads.                                                              *)
(***************************************************************************)
Touches(f, n) == f.subject = n \/ f.object = n

OnSide(f, n, direction) ==
    \/ direction # "incoming" /\ f.subject = n
    \/ direction # "outgoing" /\ f.object = n

RecordedBefore(i, j) ==
    \/ facts[i].recorded_at < facts[j].recorded_at
    \/ facts[i].recorded_at = facts[j].recorded_at /\ i < j

\* ORDER BY recorded_at, id.
ByRecorded(set) == Ordered(set, {p \in set \X set : RecordedBefore(p[1], p[2])})

QueryEntity(n, q) ==
    IF entities[n] = Absent THEN << >>
    ELSE ByRecorded({i \in FactWhere(q) : OnSide(facts[i], n, q.direction)})

QueryPredicate(p, q) ==
    ByRecorded({i \in FactWhere(q) : PredicateOf[facts[i].label] = p})

\* Facts valid since an unknown time come first.
StartsBefore(i, j) ==
    LET from == facts[i].valid_from
        to == facts[j].valid_from
    IN IF from = to THEN RecordedBefore(i, j)
       ELSE from = None \/ (to # None /\ from < to)

\* ORDER BY valid_from, recorded_at, id.
ByStart(set) == Ordered(set, {p \in set \X set : StartsBefore(p[1], p[2])})

\* The timeline of an entity, or of the whole graph for None.
Timeline(n, scope) ==
    LET rows == ByStart({i \in AnyHead(facts, scope) : n = None \/ Touches(facts[i], n)})
    IN IF n # None /\ entities[n] = Absent THEN << >>
       ELSE SubSeq(rows, 1, IF Len(rows) < TIMELINE_LIMIT THEN Len(rows) ELSE TIMELINE_LIMIT)

CurrentEntry(i) == facts[i].valid_to = None

Known(es) == {n \in Name : es[n] # Absent}

\* The counts, when the first SELECT saw the rows fs.
GraphStats(fs, scope) ==
    LET heads == AnyHead(fs, scope)
    IN [open_facts |-> Cardinality({i \in heads : fs[i].valid_to = None}),
        closed_facts |-> Cardinality({i \in heads : fs[i].valid_to # None}),
        predicates |-> Cardinality({PredicateOf[fs[i].label] : i \in heads}),
        entities |-> Cardinality({n \in Known(entities) :
                        scope = None \/ \E i \in AnyHead(facts, scope) : Touches(facts[i], n)})]

FactCount(n, scope) == Cardinality({i \in AnyHead(facts, scope) : Touches(facts[i], n)})

\* The names that are listed, each with its FactCount.
Entities(scope, kind) ==
    {n \in Known(entities) :
        /\ kind = None \/ entities[n] = kind
        /\ scope = None \/ FactCount(n, scope) > 0}

GetEntity(n) == IF entities[n] = Absent THEN None ELSE n

\* get_fact, for a row that exists, and every row for export.
GetFact(i) == facts[i]
AllFactsChronological == ByRecorded(DOMAIN facts)

Successors(i) == {j \in DOMAIN facts : facts[j].supersedes = i}

Chain == Seq(DOMAIN facts) \ {<< >>}

\* The loop backwards, from a chain to the longest one that ends with it; seen,
\* which guards against a cycle, is what the chain has.
Older[chain \in Chain] ==
    LET prev == facts[Head(chain)].supersedes
    IN IF prev \in ToSet(chain) \cup {None} THEN chain ELSE Older[<< prev >> \o chain]

\* The loop forwards, None where two rows supersede the same one.
Newer[chain \in Chain] ==
    LET next == Successors(Last(chain))
    IN IF Cardinality(next) > 1 THEN None
       ELSE IF next \subseteq ToSet(chain) THEN chain
       ELSE Newer[Append(chain, CHOOSE j \in next : TRUE)]

\* The revisions of a fact, oldest first, or None for AmbiguousFactRevision.
FactHistory(i) == Newer[Older[<< i >>]]

(***************************************************************************)
(* Properties.                                                             *)
(***************************************************************************)
\* The reads are functions of the tables, so each property is asked of every
\* table a commit leaves.
AfterCommit == facts' # facts \/ entities' # entities

OneHistory(i) ==
    LET chain == FactHistory(i)
    IN /\ chain # None
       /\ facts[Head(chain)].supersedes = None
       /\ Last(chain) \in NewestSeen(facts, None)
       /\ \A k \in ToSet(chain) : FactHistory(k) = chain

\* fact_history gives the same list from every revision in it: it is never
\* ambiguous, begins with a first revision, ends with a head, and no other
\* fact's history shares a row with it (fact_history, invalidate_in_tx).  The
\* walk is one read of the tables: a commit between two of its SELECTs is left
\* out.
HistoriesAgree == [][AfterCommit => (\A i \in DOMAIN facts : OneHistory(i))']_vars

Plain(scope) == [scope |-> scope, as_of |-> None, recorded_at |-> None, direction |-> "both"]

Capped(n) == IF n < TIMELINE_LIMIT THEN n ELSE TIMELINE_LIMIT

Accounted(scope) ==
    LET firsts == {i \in DOMAIN facts : facts[i].supersedes = None /\ InScope(facts[i], scope)}
        stats == GraphStats(facts, scope)
        rows == Timeline(None, scope)
        open == UNION {ToSet(QueryPredicate(p, Plain(scope))) : p \in ToSet(PredicateOf)}
    IN /\ stats.open_facts + stats.closed_facts = Cardinality(firsts)
       /\ Len(rows) = Capped(Cardinality(firsts))
       /\ {i \in ToSet(rows) : CurrentEntry(i)} \subseteq open
       /\ Cardinality(open) = stats.open_facts
       /\ FactWhere([Plain(scope) EXCEPT !.recorded_at = clock]) = open

\* The reads account for every fact exactly once: each chain is one open or
\* closed fact of graph_stats and one row of the timeline, the open ones are
\* what plain queries find, and "believed now" is "believed at the present
\* time" (fact_where, timeline, graph_stats, query_predicate).
EachFactOnce == [][AfterCommit => (\A scope \in ScopeFilter : Accounted(scope))']_vars

Covered(k, scope) ==
    LET before == SubSeq(facts, 1, k)
        touched == {n \in Name : \E i \in AnyHead(before, scope) : Touches(before[i], n)}
    IN /\ touched \subseteq Entities(scope, None)
       /\ GraphStats(before, scope).entities = Cardinality(Entities(scope, None))

\* The counts of graph_stats come from two statements, and another process may
\* commit between them: the entities counted are the ones that entities lists,
\* and include every one that takes part in a fact counted before
\* (graph_stats, entities).
StatsCoverEntities ==
    [][AfterCommit => (\A k \in 0 .. Len(facts), scope \in ScopeFilter : Covered(k, scope))']_vars
=============================================================================
