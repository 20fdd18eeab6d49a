---------------------------- MODULE SurfaceCalls ----------------------------
(***************************************************************************)
(* How the three surfaces of the store turn a client's call into a call of  *)
(* a Store method: the command line (one cmd_ function per verb), the MCP   *)
(* server (one handler per tool) and the Node bindings (a method on the JS  *)
(* thread, which fills a task, and its compute on a worker thread).  The    *)
(* code is written three times; what it means is written once, in Meant.    *)
(*                                                                         *)
(* A call has an operation and its arguments; None stands for an argument   *)
(* the client leaves out.  Every argument has a value that is right, and    *)
(* the ones that are parsed have one that is not.                           *)
(***************************************************************************)
EXTENDS Integers, Sequences

CONSTANT None

Names == {"db", "orm"}
Times == {None, "a day", "no time"}
Ids == {"known", "unknown", "no id"}
Scopes == {None, "team", "a//b"}
Flags == {None, TRUE}
Directions == {None, "incoming", "sideways"}
Limits == {None, 0, 5, 30, 1000}
Modes == {None, "lexical", "no mode"}
Adapters == {None, "claude", "no adapter"}

Args ==
    [add |->
        [object : {"db"}, value : Flags, subject_kind : {None, "person"},
         object_kind : {None, "tool"}, from : Times, to : Times,
         confidence : {None, "low"}, source : Ids \cup {None, ""}, scope : Scopes],
     query |->
        [entity : {None, "ada"}, predicate : {None, "uses"}, direction : Directions,
         as_of : Times, recorded_at : Times, scope : Scopes, exact : Flags],
     invalidate |-> [object : {"db"}, value : Flags, at : Times, scope : Scopes],
     supersede |->
        [object : Names, new : Names, value : Flags, at : Times, scope : Scopes],
     timeline |-> [entity : {None, "ada"}, scope : Scopes, exact : Flags],
     stats |-> [scope : Scopes, exact : Flags],
     entities |-> [kind : {None, "tool"}, scope : Scopes, exact : Flags],
     history |-> [id : Ids],
     get |-> [id : Ids],
     list |-> [tags : {None, "tag"}, limit : Limits, scope : Scopes, exact : Flags],
     revisions |-> [id : Ids],
     scopes |-> [nothing : {None}],
     export |-> [nothing : {None}],
     ingest |->
        [contents : 0 .. 2, tags : {None, "tag"}, source : {None, "mail"},
         supersedes : Ids \cup {None, ""}, metadata : {None, "json", "{"},
         scope : Scopes],
     set_scope |-> [id : Ids, scope : Scopes],
     search |->
        [text : {"words"}, mode : Modes, limit : Limits, scope : Scopes, exact : Flags],
     retrieve |->
        [text : {"words", ""}, mode : Modes, adapter : Adapters, limit : Limits,
         fetch : {None, 0}, scope : Scopes, exact : Flags],
     wakeup |->
        [project : {None, "dir", "no dir"}, only : Scopes, files : Flags,
         limit : {None, 5}, max_bytes : {None, 256}, adapter : Adapters]]

Writers == {"add", "invalidate", "supersede", "ingest", "set_scope"}

(***************************************************************************)
(* Calls of the Store.                                                     *)
(***************************************************************************)
Given(value, default) == IF value = None THEN default ELSE value
Entity(name, kind) == <<"entity", name, kind>>
Value(name) == <<"value", name, None>>
ScopeFilter(path, exact) == IF path = None THEN None ELSE <<path, exact>>

AddFact(subject_kind, object, from, to, confidence, source, scope) ==
    [method |-> "add_fact", subject_kind |-> subject_kind, object |-> object,
     from |-> from, to |-> to, confidence |-> confidence, source |-> source,
     scope |-> scope]
InvalidateFact(object, scope, at) ==
    [method |-> "invalidate_fact", object |-> object, scope |-> scope, at |-> at]
SupersedeFact(old, new, scope, at) ==
    [method |-> "supersede_fact", old |-> old, new |-> new, scope |-> scope, at |-> at]
GraphQuery(scope, as_of, recorded_at, direction) ==
    <<scope, as_of, recorded_at, direction>>
QueryEntity(name, query) == [method |-> "query_entity", name |-> name, query |-> query]
\* query_predicate does not read the direction.
QueryPredicate(name, query) ==
    [method |-> "query_predicate", name |-> name, query |-> SubSeq(query, 1, 3)]
Read(method, scope, of) == [method |-> method, scope |-> scope, of |-> of]
ById(method, id) == [method |-> method, id |-> id]
ListByTags(tags, scope, limit) ==
    [method |-> "list_by_tags_scoped", tags |-> tags, scope |-> scope, limit |-> limit]
IngestItem(tags, source, supersedes, metadata, scope) ==
    [method |-> "ingest", tags |-> tags, source |-> source, supersedes |-> supersedes,
     metadata |-> metadata, scope |-> scope]
SetItemScope(id, scope) == [method |-> "set_scope", id |-> id, scope |-> scope]
Search(text, mode, limit, scope) ==
    [method |-> "search", text |-> text, mode |-> mode, limit |-> limit, scope |-> scope]
\* A search for `hits`, of which `blocks` are read.
Retrieve(text, mode, hits, fetch, blocks, scope) ==
    [method |-> "retrieve", text |-> text, mode |-> mode, hits |-> hits, fetch |-> fetch,
     blocks |-> blocks, scope |-> scope]
ProjectScopes(dir, files) == <<dir, files>>
BuildWakeup(set, limit, max_bytes) ==
    [method |-> "wakeup", set |-> set, limit |-> limit, max_bytes |-> max_bytes]

(***************************************************************************)
(* Errors: a translation stops at its first one.                            *)
(***************************************************************************)
ErrorName ==
    {"Usage", "Json", "InvalidId", "InvalidFactId", "UnknownAdapter", "InvalidProject",
     "StoreReadOnly", "ReadOnly", "Validation", "FactNotFound", "FactIdNotFound",
     "NotFound", "SupersedesNotFound", "EmptyQuery"}
FirstError(errors) ==
    LET bad == {n \in DOMAIN errors : errors[n] # None}
    IN IF bad = {} THEN None ELSE errors[CHOOSE n \in bad : \A k \in bad : n <= k]

Translated(errors, request) ==
    [error |-> FirstError(errors),
     request |-> IF FirstError(errors) = None THEN request ELSE None]

\* parse_point; what a Node method has in its place after an error.
BadTime(raw, error) == IF raw = "no time" THEN error ELSE None
Parsed(raw) == IF raw = "no time" THEN None ELSE raw
\* ItemId and FactId::from_str.
BadId(raw, error) == IF raw \in {"no id", ""} THEN error ELSE None
\* ScopeFilter::exact and descendants.
BadPath(path) == IF path = "a//b" THEN "Validation" ELSE None

(***************************************************************************)
(* The command line.                                                       *)
(***************************************************************************)
CliObject(value, name, kind) == IF value THEN Value(name) ELSE Entity(name, kind)
CliScope(a) == ScopeFilter(a.scope, a.exact = TRUE)
CliBadScope(a) ==
    IF a.scope = None /\ a.exact = TRUE THEN "Usage" ELSE BadPath(a.scope)
CliBadWindow(a) ==
    <<CliBadScope(a), BadTime(a.as_of, "Usage"), BadTime(a.recorded_at, "Usage")>>
\* clap's value_enum arguments.
CliBadChoice(value, wrong) == IF value = wrong THEN "Usage" ELSE None
CliBadAdapter(a) == IF a.adapter = "no adapter" THEN "Usage" ELSE None

CliAdd(a) ==
    Translated(<<BadTime(a.from, "Usage"), BadTime(a.to, "Usage"),
                 BadId(a.source, "InvalidId")>>,
               AddFact(a.subject_kind, CliObject(a.value = TRUE, a.object, a.object_kind),
                       a.from, a.to, Given(a.confidence, "full"), a.source, a.scope))
CliQuery(a) ==
    Translated(<<CliBadChoice(a.direction, "sideways")>> \o CliBadWindow(a),
               QueryEntity(a.entity, GraphQuery(CliScope(a), a.as_of, a.recorded_at,
                                                Given(a.direction, "both"))))
CliPredicate(a) ==
    Translated(CliBadWindow(a),
               QueryPredicate(a.predicate,
                              GraphQuery(CliScope(a), a.as_of, a.recorded_at, "both")))
CliInvalidate(a) ==
    Translated(<<BadTime(a.at, "Usage")>>,
               InvalidateFact(CliObject(a.value = TRUE, a.object, None), a.scope, a.at))
CliSupersede(a) ==
    Translated(<<BadTime(a.at, "Usage")>>,
               SupersedeFact(CliObject(a.value = TRUE, a.object, None),
                             CliObject(a.value = TRUE, a.new, None), a.scope, a.at))
CliTimeline(a) ==
    Translated(<<CliBadScope(a)>>, Read("timeline", CliScope(a), a.entity))
CliStats(a) == Translated(<<CliBadScope(a)>>, Read("graph_stats", CliScope(a), None))
CliEntities(a) ==
    Translated(<<CliBadScope(a)>>, Read("entities", CliScope(a), a.kind))
CliHistory(a) == Translated(<<BadId(a.id, "InvalidId")>>, ById("fact_history", a.id))
CliGet(a) == Translated(<<BadId(a.id, "InvalidId")>>, ById("get", a.id))
CliList(a) ==
    Translated(<<CliBadScope(a)>>, ListByTags(a.tags, CliScope(a), a.limit))
CliRevisions(a) ==
    Translated(<<BadId(a.id, "InvalidId")>>, ById("revision_history", a.id))
CliScopes(a) == Translated(<< >>, Read("scopes", None, None))
CliExport(a) == Translated(<< >>, Read("export", None, None))
\* exactly one of --content, --file and --stdin
CliIngest(a) ==
    Translated(<<IF a.contents # 1 THEN "Usage" ELSE None, BadId(a.supersedes, "InvalidId"),
                 IF a.metadata = "{" THEN "Json" ELSE None>>,
               IngestItem(a.tags, a.source, a.supersedes, Given(a.metadata, "{}"), a.scope))
CliSetScope(a) == Translated(<<BadId(a.id, "InvalidId")>>, SetItemScope(a.id, a.scope))
CliSearch(a) ==
    Translated(<<CliBadChoice(a.mode, "no mode"), CliBadScope(a)>>,
               Search(a.text, Given(a.mode, "auto"), Given(a.limit, 20), CliScope(a)))
CliHits(limit, fetch) == IF limit * fetch < limit THEN limit ELSE limit * fetch
CliRetrieve(a) ==
    Translated(<<CliBadChoice(a.mode, "no mode"), CliBadAdapter(a), CliBadScope(a)>>,
               Retrieve(a.text, Given(a.mode, "auto"),
                        CliHits(Given(a.limit, 10), Given(a.fetch, 3)), Given(a.fetch, 3),
                        Given(a.limit, 10), CliScope(a)))
\* --scope replaces the scopes of the project, whose directory nobody checks.
CliWakeup(a) ==
    Translated(<<BadPath(a.only), CliBadAdapter(a)>>,
               BuildWakeup(IF a.only # None THEN <<a.only>>
                           ELSE ProjectScopes(Given(a.project, "here"), a.files = TRUE),
                           Given(a.limit, 20), Given(a.max_bytes, 8192)))

\* The verbs that run() refuses with --read-only, before they are translated.
CliGate == {"add", "invalidate", "supersede", "set_scope"}

(***************************************************************************)
(* The MCP server.  A client sends what the descriptor of the tool names;   *)
(* an argument the tool's struct does not have is ignored.                  *)
(***************************************************************************)
McpGraphWriters ==
    [add |-> {"object", "value", "subject_kind", "object_kind", "from", "to",
              "confidence", "source", "scope"},
     query |-> {"entity", "predicate", "direction", "as_of", "recorded_at", "scope",
                "exact"},
     invalidate |-> {"object", "value", "at", "scope"},
     supersede |-> {"object", "new", "value", "at", "scope"}]
McpGraphReaders ==
    [timeline |-> {"entity", "scope", "exact"}, stats |-> {"scope"},
     entities |-> {"kind", "scope", "exact"}, history |-> {"id"}]
McpIngestTool == {"contents", "tags", "source", "supersedes", "metadata", "scope"}
McpListTool == {"tags", "limit", "scope", "exact"}
McpRetrieveTool == {"text", "limit", "adapter", "scope", "exact"}
McpWakeupTool == {"project", "files", "limit", "max_bytes", "adapter"}

McpGraphFields ==
    [add |-> {"object", "value", "subject_kind", "object_kind", "from", "to",
              "confidence", "source", "scope"},
     query |-> {"entity", "predicate", "direction", "as_of", "recorded_at", "scope",
                "exact"},
     invalidate |-> {"object", "value", "at", "scope"},
     supersede |-> {"object", "new", "value", "at", "scope"},
     timeline |-> {"entity", "scope", "exact"}, stats |-> {"scope"},
     entities |-> {"kind", "scope", "exact"}, history |-> {"id"}]

\* parse_call_args
McpParse(op, a) ==
    IF op \notin DOMAIN McpGraphFields THEN a
    ELSE [name \in DOMAIN a |-> IF name \in McpGraphFields[op] THEN a[name] ELSE None]

McpObject(raw, is_value, kind) ==
    IF is_value = TRUE THEN Value(raw) ELSE Entity(raw, kind)
McpScope(a) == ScopeFilter(a.scope, a.exact = TRUE)
McpBadTime(raw) == BadTime(raw, "Validation")
McpBadDirection(raw) == IF raw = "sideways" THEN "Validation" ELSE None
McpBadAdapter(a) == IF a.adapter = "no adapter" THEN "UnknownAdapter" ELSE None
Clamp(n, low, high) == IF n < low THEN low ELSE IF n > high THEN high ELSE n

McpAdd(a) ==
    Translated(<<McpBadTime(a.from), McpBadTime(a.to), BadId(a.source, "InvalidId")>>,
               AddFact(a.subject_kind, McpObject(a.object, a.value, a.object_kind),
                       a.from, a.to, Given(a.confidence, "full"), a.source, a.scope))
McpQuery(a) ==
    LET query == GraphQuery(McpScope(a), a.as_of, a.recorded_at, Given(a.direction, "both"))
    IN Translated(<<IF (a.entity = None) = (a.predicate = None) THEN "Validation" ELSE None,
                    BadPath(a.scope), McpBadTime(a.as_of), McpBadTime(a.recorded_at),
                    McpBadDirection(a.direction)>>,
                  IF a.entity # None THEN QueryEntity(a.entity, query)
                  ELSE QueryPredicate(a.predicate, query))
McpInvalidate(a) ==
    Translated(<<McpBadTime(a.at)>>,
               InvalidateFact(McpObject(a.object, a.value, None), a.scope, a.at))
McpSupersede(a) ==
    Translated(<<McpBadTime(a.at)>>,
               SupersedeFact(McpObject(a.object, a.value, None),
                             McpObject(a.new, a.value, None), a.scope, a.at))
McpTimeline(a) == Translated(<<BadPath(a.scope)>>, Read("timeline", McpScope(a), a.entity))
McpStats(a) ==
    Translated(<<BadPath(a.scope)>>, Read("graph_stats", ScopeFilter(a.scope, FALSE), None))
McpEntities(a) == Translated(<<BadPath(a.scope)>>, Read("entities", McpScope(a), a.kind))
McpHistory(a) == Translated(<<BadId(a.id, "InvalidFactId")>>, ById("fact_history", a.id))
McpGet(a) == Translated(<<BadId(a.id, "InvalidId")>>, ById("get", a.id))
McpList(a) ==
    Translated(<<BadPath(a.scope)>>,
               ListByTags(a.tags, McpScope(a), Clamp(Given(a.limit, 50), 1, 100)))
McpRevisions(a) ==
    Translated(<<BadId(a.id, "InvalidId")>>, ById("revision_history", a.id))
McpScopes(a) == Translated(<< >>, Read("scopes", None, None))
McpIngest(a) ==
    Translated(<<BadId(a.supersedes, "InvalidId")>>,
               IngestItem(a.tags, a.source, a.supersedes, Given(a.metadata, "{}"), a.scope))
\* HybridSearchOptions::default()
DefaultHits == 20
McpRetrieve(a) ==
    Translated(<<McpBadAdapter(a), BadPath(a.scope)>>,
               Retrieve(a.text, "auto", DefaultHits, 3, Clamp(Given(a.limit, 10), 1, 50),
                        McpScope(a)))
\* resolve_project: the argument, else the server's --project or directory.
McpProject(raw) == Given(raw, "here")
McpWakeup(a) ==
    Translated(<<IF McpProject(a.project) = "no dir" THEN "InvalidProject" ELSE None,
                 McpBadAdapter(a)>>,
               BuildWakeup(ProjectScopes(McpProject(a.project), a.files = TRUE),
                           Given(a.limit, 20), Given(a.max_bytes, 8192)))

McpTools ==
    {"add", "query", "invalidate", "supersede", "timeline", "stats", "entities",
     "history", "get", "list", "revisions", "scopes", "ingest", "retrieve", "wakeup"}
\* list_tools
McpOffered(read_only) ==
    McpTools \ (IF read_only THEN {"ingest", "add", "invalidate", "supersede"} ELSE {})

\* The JSON-RPC error of a call, from the error of its handler.
McpWriteFault(error) ==
    IF error \in {"ReadOnly", "InvalidId", "Validation", "FactNotFound", "FactIdNotFound"}
    THEN "invalid_params" ELSE "internal_error"
McpReadFault(error) ==
    IF error \in {"Validation", "FactIdNotFound", "InvalidFactId"}
    THEN "invalid_params" ELSE "internal_error"
McpWakeupFault(error) ==
    IF error \in {"InvalidProject", "UnknownAdapter"}
    THEN "invalid_params" ELSE "internal_error"
McpItemFault(error) ==
    IF error \in {"EmptyQuery", "UnknownAdapter", "Validation", "ReadOnly", "InvalidId",
                  "SupersedesNotFound", "NotFound"}
    THEN "invalid_params" ELSE "internal_error"
McpFault(op, error) ==
    CASE op \in {"add", "invalidate", "supersede"} -> McpWriteFault(error)
      [] op \in {"query", "timeline", "stats", "entities", "history"} -> McpReadFault(error)
      [] op = "wakeup" -> McpWakeupFault(error)
      [] OTHER -> McpItemFault(error)

(***************************************************************************)
(* The Node bindings: the method on the JS thread, then the task.           *)
(***************************************************************************)
Task(errors, fields) == [pre_error |-> FirstError(errors), fields |-> fields]
\* Mutant of ShortCircuit: the task does not look at its pre-validation error.
ShortCircuitNot(task, request) == [error |-> None, request |-> request]
\* short_circuit
ShortCircuit(task, request) ==
    [error |-> task.pre_error,
     request |-> IF task.pre_error = None THEN request ELSE None]

NodeObject(raw, is_value, kind) ==
    IF is_value = TRUE THEN Value(raw) ELSE Entity(raw, kind)
NodeScope(a) ==
    IF BadPath(a.scope) # None THEN None ELSE ScopeFilter(a.scope, a.exact = TRUE)
NodeBadTime(raw) == BadTime(raw, "Validation")
NodeBadDirection(raw) == IF raw = "sideways" THEN "Validation" ELSE None
NodeBadMode(a) == IF a.mode = "no mode" THEN "Validation" ELSE None
NodeBadAdapter(raw) == IF raw = "no adapter" THEN "Validation" ELSE None
NodeProject(raw) == Given(raw, "here")
NodeBadProject(raw) == IF NodeProject(raw) = "no dir" THEN "Validation" ELSE None
NodeMode(a) == IF a.mode = "no mode" THEN "auto" ELSE Given(a.mode, "auto")

\* An empty sourceItemId or supersedes is none.
NodeIdOrNone(raw) == IF raw = "" THEN None ELSE raw
NewFactToCore(a) ==
    AddFact(a.subject_kind, NodeObject(a.object, a.value, a.object_kind), a.from, a.to,
            Given(a.confidence, "full"), NodeIdOrNone(a.source), a.scope)
NodeAdd(a) ==
    Task(<<BadId(NodeIdOrNone(a.source), "InvalidId"), NodeBadTime(a.from),
           NodeBadTime(a.to)>>, [input |-> NewFactToCore(a)])
AddFactTask(t) == ShortCircuit(t, t.fields.input)

\* graph_query_from, or its default after an error.
GraphQueryFrom(a) ==
    GraphQuery(NodeScope(a), Parsed(a.as_of), Parsed(a.recorded_at),
               IF a.direction = "sideways" THEN "both" ELSE Given(a.direction, "both"))
NodeBadQuery(a) ==
    <<BadPath(a.scope), NodeBadTime(a.as_of), NodeBadTime(a.recorded_at),
      NodeBadDirection(a.direction)>>
NodeQueryEntity(a) ==
    Task(NodeBadQuery(a), [name |-> a.entity, query |-> GraphQueryFrom(a)])
QueryEntityTask(t) == ShortCircuit(t, QueryEntity(t.fields.name, t.fields.query))
NodeQueryPredicate(a) ==
    Task(NodeBadQuery(a), [predicate |-> a.predicate, query |-> GraphQueryFrom(a)])
QueryPredicateTask(t) ==
    ShortCircuit(t, QueryPredicate(t.fields.predicate, t.fields.query))

NodeInvalidate(a) ==
    Task(<<NodeBadTime(a.at)>>,
         [object |-> NodeObject(a.object, a.value, None), scope |-> a.scope,
          at |-> Parsed(a.at)])
InvalidateFactTask(t) ==
    ShortCircuit(t, InvalidateFact(t.fields.object, t.fields.scope, t.fields.at))
NodeSupersede(a) ==
    Task(<<NodeBadTime(a.at)>>,
         [old |-> NodeObject(a.object, a.value, None),
          new |-> NodeObject(a.new, a.value, None), scope |-> a.scope, at |-> Parsed(a.at)])
SupersedeFactTask(t) ==
    ShortCircuit(t, SupersedeFact(t.fields.old, t.fields.new, t.fields.scope, t.fields.at))
NodeTimeline(a) ==
    Task(<<BadPath(a.scope)>>, [entity |-> a.entity, scope |-> NodeScope(a)])
TimelineTask(t) == ShortCircuit(t, Read("timeline", t.fields.scope, t.fields.entity))
NodeGraphStats(a) == Task(<<BadPath(a.scope)>>, [scope |-> NodeScope(a)])
GraphStatsTask(t) == ShortCircuit(t, Read("graph_stats", t.fields.scope, None))
NodeEntities(a) == Task(<<BadPath(a.scope)>>, [scope |-> NodeScope(a), kind |-> a.kind])
EntitiesTask(t) == ShortCircuit(t, Read("entities", t.fields.scope, t.fields.kind))
NodeFactHistory(a) == Task(<<BadId(a.id, "InvalidId")>>, [id |-> a.id])
FactHistoryTask(t) == ShortCircuit(t, ById("fact_history", t.fields.id))

NodeGet(a) == Task(<<BadId(a.id, "InvalidId")>>, [id |-> a.id])
GetTask(t) == ShortCircuit(t, ById("get", t.fields.id))
NodeList(a) ==
    Task(<<BadPath(a.scope)>>, [tags |-> a.tags, limit |-> a.limit, filter |-> NodeScope(a)])
\* compute collects an item before it looks at the limit.
ListTask(t) ==
    ShortCircuit(t, ListByTags(t.fields.tags, t.fields.filter,
                               IF t.fields.limit = 0 THEN 1 ELSE t.fields.limit))
NodeRevisions(a) == Task(<<BadId(a.id, "InvalidId")>>, [id |-> a.id])
RevisionsTask(t) == ShortCircuit(t, ById("revision_history", t.fields.id))
ScopesTask(t) == ShortCircuit(t, Read("scopes", None, None))
ExportTask(t) == ShortCircuit(t, Read("export", None, None))
NodeIngest(a) ==
    Task(<<BadId(NodeIdOrNone(a.supersedes), "InvalidId")>>,
         [new_item |-> IngestItem(a.tags, a.source, NodeIdOrNone(a.supersedes),
                                  Given(a.metadata, "{}"), a.scope)])
IngestTask(t) == ShortCircuit(t, t.fields.new_item)
NodeSetScope(a) == Task(<<BadId(a.id, "InvalidId")>>, [id |-> a.id, scope |-> a.scope])
SetScopeTask(t) == ShortCircuit(t, SetItemScope(t.fields.id, t.fields.scope))
NodeSearch(a) ==
    Task(<<NodeBadMode(a), BadPath(a.scope)>>,
         [query |-> a.text, mode |-> NodeMode(a), limit |-> Given(a.limit, 10),
          scope |-> NodeScope(a)])
SearchTask(t) ==
    ShortCircuit(t, Search(t.fields.query, t.fields.mode, t.fields.limit,
                           t.fields.scope))
NodeRetrieve(a) ==
    Task(<<NodeBadMode(a), BadPath(a.scope)>>,
         [query |-> a.text, mode |-> NodeMode(a), limit |-> Given(a.limit, 10),
          fetch |-> Given(a.fetch, 3), scope |-> NodeScope(a)])
\* run_retrieve
RetrieveTask(t) ==
    ShortCircuit(t, Retrieve(t.fields.query, t.fields.mode, t.fields.limit, t.fields.fetch,
                             t.fields.limit, t.fields.scope))
NodeWakeup(a) ==
    Task(<<NodeBadProject(a.project), NodeBadAdapter(a.adapter)>>,
         [project |-> NodeProject(a.project), files |-> a.files = TRUE,
          limit |-> Given(a.limit, 20), max_bytes |-> Given(a.max_bytes, 8192)])
WakeupTask(t) ==
    ShortCircuit(t, BuildWakeup(ProjectScopes(t.fields.project, t.fields.files),
                                t.fields.limit, t.fields.max_bytes))

(***************************************************************************)
(* What a call means, on any surface.                                      *)
(***************************************************************************)
Meant(op, a) ==
    LET Object(name, kind) == IF a.value = TRUE THEN Value(name) ELSE Entity(name, kind)
        In(filter) == ScopeFilter(a.scope, a.exact = TRUE)
        window == GraphQuery(ScopeFilter(a.scope, a.exact = TRUE), a.as_of, a.recorded_at,
                             Given(a.direction, "both"))
    IN CASE op = "add" ->
              AddFact(a.subject_kind, Object(a.object, a.object_kind), a.from, a.to,
                      Given(a.confidence, "full"), a.source, a.scope)
         [] op = "query" /\ a.entity # None -> QueryEntity(a.entity, window)
         [] op = "query" /\ a.entity = None -> QueryPredicate(a.predicate, window)
         [] op = "invalidate" -> InvalidateFact(Object(a.object, None), a.scope, a.at)
         [] op = "supersede" ->
              SupersedeFact(Object(a.object, None), Object(a.new, None), a.scope, a.at)
         [] op = "timeline" -> Read("timeline", In(a), a.entity)
         [] op = "stats" -> Read("graph_stats", In(a), None)
         [] op = "entities" -> Read("entities", In(a), a.kind)
         [] op = "history" -> ById("fact_history", a.id)
         [] op = "get" -> ById("get", a.id)
         [] op = "list" -> ListByTags(a.tags, In(a), a.limit)
         [] op = "revisions" -> ById("revision_history", a.id)
         [] op \in {"scopes", "export"} -> Read(op, None, None)
         [] op = "ingest" ->
              IngestItem(a.tags, a.source, a.supersedes, Given(a.metadata, "{}"), a.scope)
         [] op = "set_scope" -> SetItemScope(a.id, a.scope)
         [] op = "search" ->
              Search(a.text, Given(a.mode, "auto"), Given(a.limit, 10), In(a))
         [] op = "retrieve" ->
              Retrieve(a.text, Given(a.mode, "auto"), Given(a.limit, 10),
                       Given(a.fetch, 3), Given(a.limit, 10), In(a))
         [] op = "wakeup" ->
              BuildWakeup(IF a.only # None THEN <<a.only>>
                          ELSE ProjectScopes(Given(a.project, "here"), a.files = TRUE),
                          Given(a.limit, 20), Given(a.max_bytes, 8192))

\* The request is the one that is meant; of a retrieval, the search may go
\* deeper than the blocks that are read, and each surface has its own depth.
Fits(request, meant) ==
    \/ request = meant
    \/ /\ request.method = "retrieve" /\ meant.method = "retrieve"
       /\ request.hits >= meant.blocks
       /\ request = Retrieve(meant.text, meant.mode, request.hits, meant.fetch,
                             meant.blocks, meant.scope)

NotWords == {"value", "exact", "files", "limit", "fetch", "max_bytes", "contents"}
Wrong == {"no time", "no id", "a//b", "sideways", "no mode", "no adapter", "no dir", "{"}

\* An argument is malformed, or arguments contradict each other.
Malformed(op, a) ==
    \/ \E name \in DOMAIN a \ NotWords : a[name] \in Wrong
    \/ op = "query" /\ (a.entity = None) = (a.predicate = None)
    \/ op = "ingest" /\ a.contents # 1
    \/ op = "retrieve" /\ a.text = ""

\* What the surfaces take differently: an empty id, --scope-exact without
\* --scope, a limit outside of a tool's range or left to its default, more
\* blocks than the hits that the MCP server's retrieve searches for whatever
\* the limit, and a directory that is not there.
Disputed(op, a) ==
    \/ op = "add" /\ a.source = ""
    \/ op = "ingest" /\ a.supersedes = ""
    \/ "exact" \in DOMAIN a /\ a.exact = TRUE /\ a.scope = None
    \/ op = "list" /\ a.limit \notin 1 .. 50
    \/ op = "search" /\ a.limit = None
    \/ op = "retrieve" /\ a.limit \notin {None} \cup 1 .. DefaultHits
    \/ op = "wakeup" /\ a.project = "no dir"
=============================================================================
