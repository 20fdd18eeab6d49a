------------------------------ MODULE Surfaces ------------------------------
(***************************************************************************)
(* Clients of the three surfaces call one store.  A call is asked, is       *)
(* translated (SurfaceCalls), is executed by the Store in one transaction,  *)
(* and is answered; the answer may be lost, with the process or with the    *)
(* pipe it is written to, after the transaction as well as before, and the  *)
(* client, who cannot tell, asks again.                                     *)
(*                                                                         *)
(* The store is what such a client can see of it: the open facts, the scope *)
(* of the known item, and the history of what its transactions changed      *)
(* (GraphFacts models the transactions).                                    *)
(***************************************************************************)
EXTENDS SurfaceCalls, FiniteSets

CONSTANTS
    Shared,         \* the calls that clients make at the same time: <<op, args>>
    MaxGiven,       \* bound: the arguments of a call made alone
    MaxCalls, MaxTries      \* bounds

Surface == {"cli", "mcp", "node"}

ASSUME SurfacesAssumption ==
    /\ None \notin Int \cup BOOLEAN \cup Wrong \cup ErrorName \cup {""}
    /\ \A c \in Shared : c[1] \in DOMAIN Args /\ c[2] \in Args[c[1]]

VARIABLES
    read_only,      \* how a surface opens the store
    alone,          \* bound: one call of any kind, or several of Shared
    open,           \* the open heads: <<triple, <<valid_from, confidence>>>>
    item_scope,     \* the scope of the known item
    log,            \* history: the changes of each transaction that made some
    asked,          \* bound: the calls so far
    call            \* the call in progress on a surface, or None

surface_vars == <<read_only, alone, open, item_scope, log, asked, call>>

(***************************************************************************)
(* What a client can ask for.                                              *)
(***************************************************************************)
GivenOnly(names, a) == \A name \in DOMAIN a : name \in names \/ a[name] = None

\* Two verbs, `query` and `predicate`; the second has no direction.
CliMayAsk(op, a) ==
    op = "query" => \/ a.entity # None /\ a.predicate = None
                    \/ a.entity = None /\ a.predicate # None /\ a.direction = None

McpToolArgs(op) ==
    CASE op \in DOMAIN McpGraphWriters -> McpGraphWriters[op]
      [] op \in DOMAIN McpGraphReaders -> McpGraphReaders[op]
      [] op \in {"get", "revisions"} -> {"id"}
      [] op = "list" -> McpListTool
      [] op = "scopes" -> {}
      [] op = "ingest" -> McpIngestTool
      [] op = "retrieve" -> McpRetrieveTool
      [] op = "wakeup" -> McpWakeupTool

\* A client may also call a tool it was not offered.
McpMayAsk(op, a) ==
    /\ op \in McpTools /\ GivenOnly(McpToolArgs(op), a)
    /\ op = "ingest" => a.contents = 1 /\ a.metadata # "{"

NodeMayAsk(op, a) ==
    /\ op = "query" => (a.entity = None) # (a.predicate = None)
    /\ op = "ingest" => a.contents = 1 /\ a.metadata # "{"
    /\ op = "retrieve" => a.adapter = None
    /\ op = "wakeup" => a.only = None

MayAsk(s, op, a) ==
    CASE s = "cli" -> CliMayAsk(op, a)
      [] s = "mcp" -> McpMayAsk(op, a)
      [] s = "node" -> NodeMayAsk(op, a)

(***************************************************************************)
(* A call, step by step.                                                   *)
(***************************************************************************)
SurfacesInit ==
    /\ \E ro \in BOOLEAN : read_only = [s \in Surface |-> ro]
    /\ alone \in BOOLEAN /\ (read_only["cli"] => alone)
    /\ open = {} /\ item_scope = None /\ log = << >> /\ asked = 0
    /\ call = [s \in Surface |-> None]

Ask(s, op, a) ==
    /\ call[s] = None /\ asked < (IF alone THEN 1 ELSE MaxCalls) /\ asked' = asked + 1
    /\ MayAsk(s, op, a)
    /\ call' = [call EXCEPT ![s] =
                  [number |-> asked + 1, try |-> 1, op |-> op, args |-> a,
                   phase |-> "asked", task |-> None, error |-> None, request |-> None]]
    /\ UNCHANGED <<read_only, alone, open, item_scope, log>>

CliTranslate(op, a) ==
    CASE op = "add" -> CliAdd(a)
      [] op = "query" -> IF a.entity # None THEN CliQuery(a) ELSE CliPredicate(a)
      [] op = "invalidate" -> CliInvalidate(a)
      [] op = "supersede" -> CliSupersede(a)
      [] op = "timeline" -> CliTimeline(a)
      [] op = "stats" -> CliStats(a)
      [] op = "entities" -> CliEntities(a)
      [] op = "history" -> CliHistory(a)
      [] op = "get" -> CliGet(a)
      [] op = "list" -> CliList(a)
      [] op = "revisions" -> CliRevisions(a)
      [] op = "scopes" -> CliScopes(a)
      [] op = "export" -> CliExport(a)
      [] op = "ingest" -> CliIngest(a)
      [] op = "set_scope" -> CliSetScope(a)
      [] op = "search" -> CliSearch(a)
      [] op = "retrieve" -> CliRetrieve(a)
      [] op = "wakeup" -> CliWakeup(a)

McpTranslate(op, a) ==
    CASE op = "add" -> McpAdd(a)
      [] op = "query" -> McpQuery(a)
      [] op = "invalidate" -> McpInvalidate(a)
      [] op = "supersede" -> McpSupersede(a)
      [] op = "timeline" -> McpTimeline(a)
      [] op = "stats" -> McpStats(a)
      [] op = "entities" -> McpEntities(a)
      [] op = "history" -> McpHistory(a)
      [] op = "get" -> McpGet(a)
      [] op = "list" -> McpList(a)
      [] op = "revisions" -> McpRevisions(a)
      [] op = "scopes" -> McpScopes(a)
      [] op = "ingest" -> McpIngest(a)
      [] op = "retrieve" -> McpRetrieve(a)
      [] op = "wakeup" -> McpWakeup(a)

NodeMethod(op, a) ==
    CASE op = "add" -> NodeAdd(a)
      [] op = "query" -> IF a.entity # None THEN NodeQueryEntity(a) ELSE NodeQueryPredicate(a)
      [] op = "invalidate" -> NodeInvalidate(a)
      [] op = "supersede" -> NodeSupersede(a)
      [] op = "timeline" -> NodeTimeline(a)
      [] op = "stats" -> NodeGraphStats(a)
      [] op = "entities" -> NodeEntities(a)
      [] op = "history" -> NodeFactHistory(a)
      [] op = "get" -> NodeGet(a)
      [] op = "list" -> NodeList(a)
      [] op = "revisions" -> NodeRevisions(a)
      [] op \in {"scopes", "export"} -> Task(<< >>, << >>)
      [] op = "ingest" -> NodeIngest(a)
      [] op = "set_scope" -> NodeSetScope(a)
      [] op = "search" -> NodeSearch(a)
      [] op = "retrieve" -> NodeRetrieve(a)
      [] op = "wakeup" -> NodeWakeup(a)

NodeCompute(op, t) ==
    CASE op = "add" -> AddFactTask(t)
      [] op = "query" ->
           IF "name" \in DOMAIN t.fields THEN QueryEntityTask(t) ELSE QueryPredicateTask(t)
      [] op = "invalidate" -> InvalidateFactTask(t)
      [] op = "supersede" -> SupersedeFactTask(t)
      [] op = "timeline" -> TimelineTask(t)
      [] op = "stats" -> GraphStatsTask(t)
      [] op = "entities" -> EntitiesTask(t)
      [] op = "history" -> FactHistoryTask(t)
      [] op = "get" -> GetTask(t)
      [] op = "list" -> ListTask(t)
      [] op = "revisions" -> RevisionsTask(t)
      [] op = "scopes" -> ScopesTask(t)
      [] op = "export" -> ExportTask(t)
      [] op = "ingest" -> IngestTask(t)
      [] op = "set_scope" -> SetScopeTask(t)
      [] op = "search" -> SearchTask(t)
      [] op = "retrieve" -> RetrieveTask(t)
      [] op = "wakeup" -> WakeupTask(t)

\* Refused, or ready for the store.
Settle(s, translated) ==
    call' = [call EXCEPT ![s].phase = IF translated.error = None THEN "ready" ELSE "done",
                         ![s].error = translated.error,
                         ![s].request = translated.request, ![s].task = None]

RefusedWith(error) == [error |-> error, request |-> None]

TranslateCli ==
    /\ call["cli"] # None /\ call["cli"].phase = "asked"
    /\ LET c == call["cli"] IN
       Settle("cli", IF read_only["cli"] /\ c.op \in CliGate THEN RefusedWith("StoreReadOnly")
                     ELSE CliTranslate(c.op, c.args))
    /\ UNCHANGED <<read_only, alone, open, item_scope, log, asked>>

TranslateMcp ==
    /\ call["mcp"] # None /\ call["mcp"].phase = "asked"
    /\ LET c == call["mcp"] IN
       Settle("mcp", IF read_only["mcp"] /\ c.op \in Writers THEN RefusedWith("ReadOnly")
                     ELSE McpTranslate(c.op, McpParse(c.op, c.args)))
    /\ UNCHANGED <<read_only, alone, open, item_scope, log, asked>>

\* The method, on the JS thread.
QueueTask ==
    /\ call["node"] # None /\ call["node"].phase = "asked"
    /\ call' = [call EXCEPT !["node"].phase = "queued",
                            !["node"].task = NodeMethod(call["node"].op, call["node"].args)]
    /\ UNCHANGED <<read_only, alone, open, item_scope, log, asked>>

\* compute, on a worker thread.
TranslateNode ==
    /\ call["node"] # None /\ call["node"].phase = "queued"
    /\ Settle("node", NodeCompute(call["node"].op, call["node"].task))
    /\ UNCHANGED <<read_only, alone, open, item_scope, log, asked>>

Key(object, scope) == <<object[1], object[2], scope>>
OnFacts == {"add_fact", "invalidate_fact", "supersede_fact"}

\* A point in time: one the client gives, which has passed, or now.
Now(s) == <<call[s].number, call[s].try>>
Moment(raw, default) == IF raw = None THEN default ELSE <<raw>>

\* The valid_from and the confidence of the fact a request opens.
Window(s, r) ==
    IF r.method = "add_fact" THEN <<Moment(r.from, None), r.confidence>>
    ELSE <<Moment(r.at, Now(s)), "full">>

\* find_open_head
Heads(facts, key) == {fact \in facts : fact[1] = key}
EndsBeforeStart(fact, at) == at # None /\ fact[2][1] # None /\ fact[2][1] # <<at>>
\* head_matches_request
Diverges(facts, key, window, to) ==
    \E fact \in Heads(facts, key) : to # None \/ fact[2] # window

FactError(s, r) ==
    LET key == Key(IF r.method = "supersede_fact" THEN r.old ELSE r.object, r.scope)
        heads == Heads(open, key)
        late == \E fact \in heads : EndsBeforeStart(fact, r.at)
    IN IF r.scope = "a//b" THEN "Validation"
       ELSE CASE r.method = "add_fact" ->
                   IF r.source = "unknown" \/ Diverges(open, key, Window(s, r), r.to)
                   THEN "Validation" ELSE None
              [] r.method = "invalidate_fact" ->
                   IF heads = {} THEN "FactNotFound" ELSE IF late THEN "Validation" ELSE None
              [] r.method = "supersede_fact" ->
                   IF late \/ Diverges(open \ heads, Key(r.new, r.scope), Window(s, r), None)
                   THEN "Validation" ELSE None

\* What the store has against a request.
StoreError(s, r) ==
    IF read_only[s] /\ r.method \in OnFacts \cup {"ingest", "set_scope"} THEN "ReadOnly"
    ELSE IF r.method \in {"ingest", "set_scope"} /\ r.scope = "a//b" THEN "Validation"
    ELSE CASE r.method \in OnFacts -> FactError(s, r)
           [] r.method = "ingest" /\ r.supersedes = "unknown" -> "SupersedesNotFound"
           [] r.method \in {"get", "revision_history", "set_scope"} /\ r.id = "unknown" ->
                "NotFound"
           [] r.method = "fact_history" /\ r.id = "unknown" -> "FactIdNotFound"
           [] r.method = "retrieve" /\ r.text = "" -> "EmptyQuery"
           [] OTHER -> None

\* Mutant of Opens: an identical open fact is not looked for.
OpensAnother(facts, key, to) == {<<IF to = None THEN "open" ELSE "row", key>>}
\* A fact that stands is returned; one that is born closed is never open.
Opens(facts, key, to) ==
    IF Heads(facts, key) # {} THEN {} ELSE {<<IF to = None THEN "open" ELSE "row", key>>}

Closes(key) == {<<"close", fact[1]>> : fact \in Heads(open, key)}

\* The changes a request makes.
Changes(r) ==
    CASE r.method = "add_fact" -> Opens(open, Key(r.object, r.scope), r.to)
      [] r.method = "invalidate_fact" -> Closes(Key(r.object, r.scope))
      [] r.method = "supersede_fact" ->
           LET old == Key(r.old, r.scope)
           IN Closes(old) \cup Opens(open \ Heads(open, old), Key(r.new, r.scope), None)
      [] r.method = "ingest" -> {<<"item", None>>}
      [] r.method = "set_scope" -> {<<"move", r.scope>>} \ {<<"move", item_scope>>}
      [] OTHER -> {}

Execute(s) ==
    /\ call[s] # None /\ call[s].phase = "ready"
    /\ LET r == call[s].request
           error == StoreError(s, r)
           did == IF error = None THEN Changes(r) ELSE {}
       IN /\ call' = [call EXCEPT ![s].phase = "done", ![s].error = error,
                                  ![s].request = None]
          /\ open' = {fact \in open : <<"close", fact[1]>> \notin did}
                     \cup {<<c[2], Window(s, r)>> : c \in {d \in did : d[1] = "open"}}
          /\ item_scope' = IF \E c \in did : c[1] = "move" THEN r.scope ELSE item_scope
          /\ log' = IF did = {} THEN log
                    ELSE Append(log, [by |-> s, number |-> call[s].number,
                                      try |-> call[s].try, did |-> did])
    /\ UNCHANGED <<read_only, alone, asked>>

Answer(s) ==
    /\ call[s] # None /\ call[s].phase = "done"
    /\ call' = [call EXCEPT ![s] = None]
    /\ UNCHANGED <<read_only, alone, open, item_scope, log, asked>>

\* The process dies, or cannot write its answer; the client asks again or not.
LoseAnswer(s) ==
    /\ call[s] # None /\ ~alone
    /\ \/ /\ call[s].try < MaxTries
          /\ call' = [call EXCEPT ![s].try = @ + 1, ![s].phase = "asked",
                                  ![s].task = None, ![s].error = None, ![s].request = None]
       \/ call' = [call EXCEPT ![s] = None]
    /\ UNCHANGED <<read_only, alone, open, item_scope, log, asked>>

FewGiven(a) == Cardinality({name \in DOMAIN a : a[name] # None}) <= MaxGiven

SurfacesNext ==
    \/ \E s \in Surface : Execute(s) \/ Answer(s) \/ LoseAnswer(s)
    \/ TranslateCli \/ TranslateMcp \/ QueueTask \/ TranslateNode
    \/ \E s \in Surface : ~alone /\ \E c \in Shared : Ask(s, c[1], c[2])
    \/ alone /\ asked = 0 /\ \E s \in Surface, op \in DOMAIN Args :
          /\ s = "mcp" => op \in McpTools
          /\ \E a \in {given \in Args[op] : FewGiven(given)} : Ask(s, op, a)

SurfacesSpec == SurfacesInit /\ [][SurfacesNext]_surface_vars

(***************************************************************************)
(* Properties.                                                             *)
(***************************************************************************)
\* A call asks the store for the same thing on every surface: what its
\* arguments mean, all of them, defaults included; but a retrieval searches on
\* each surface to a depth of its own, at least as deep as the blocks it reads
\* (three times as deep on the command line, 20 hits on the MCP server, where
\* more than 20 blocks are Disputed, just as deep on Node).  A malformed one is refused
\* by the surface or by the store, before it changes anything, and no other is
\* refused by a surface for anything but --read-only; and the MCP server tells
\* its client that the fault is in the request, and runs no tool that it does
\* not offer (the handlers of the three surfaces, map_graph_write_error,
\* map_graph_read_error, list_tools, call_tool).
SurfacesAgree ==
    \A s \in {t \in Surface : call[t] # None} :
        LET c == call[s]
            malformed == Malformed(c.op, c.args)
        IN /\ c.phase = "ready" /\ ~malformed /\ ~Disputed(c.op, c.args) =>
                Fits(c.request, Meant(c.op, c.args))
           /\ c.phase = "done" /\ ~Disputed(c.op, c.args) =>
                /\ malformed => c.error # None
                /\ c.error \in {"Usage", "Json", "InvalidId", "InvalidFactId",
                                "UnknownAdapter", "InvalidProject"} => malformed
           /\ c.phase = "done" /\ s = "mcp" /\ c.error # None =>
                McpFault(c.op, c.error) = "invalid_params"
           /\ c.phase = "ready" /\ s = "mcp" => c.op \in McpOffered(read_only[s])

\* A fact is closed and opened again by one transaction (supersede_fact, of a
\* fact by itself).
Renews(entry, key) == {<<"close", key>>, <<"open", key>>} \subseteq entry.did

\* A call that is refused has changed nothing and one on a read-only surface
\* never does; and a call that is asked again because its answer was lost
\* changes a fact or an item's scope a second time only if another call
\* undid the first change in between.  An ingest without an external_id, a
\* fact that is born closed and a fact that supersedes itself are the
\* exceptions (add_fact, supersede_fact, invalidate_fact, set_scope).
CallsTakeEffectOnce ==
    /\ \A s \in Surface :
          call[s] # None /\ call[s].phase = "done" /\ call[s].error # None =>
              \A n \in DOMAIN log :
                  ~(log[n].number = call[s].number /\ log[n].try = call[s].try)
    /\ \A n \in DOMAIN log : ~read_only[log[n].by]
    /\ \A n \in DOMAIN log : \A m \in n + 1 .. Len(log) :
          log[n].number = log[m].number =>
              \A change \in log[n].did \cap log[m].did :
                  \/ change[1] \in {"row", "item"}
                  \/ Renews(log[n], change[2]) \/ Renews(log[m], change[2])
                  \/ \E k \in n + 1 .. m - 1 : \E other \in log[k].did :
                        /\ other # change
                        /\ IF change[1] = "move" THEN other[1] = "move"
                           ELSE other[2] = change[2]
=============================================================================
