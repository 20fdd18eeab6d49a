----------------------------- MODULE IndexSync -----------------------------
(***************************************************************************)
(* The store and its search sidecars, kept in step by IndexHook: sessions   *)
(* that open the sidecars and ingest (wire_index_hooks, Store::ingest,      *)
(* ingest_many, fire_hook, MultiHook), `reindex` beside them, and moves of  *)
(* items between scopes.  The item is durable first; each sidecar learns of *)
(* it afterwards, or does not, and somebody is told.                        *)
(*                                                                         *)
(* An item is its number; a document of the Tantivy sidecar is a pair of an *)
(* item and the scope it had when it was indexed.  The vector sidecar is    *)
(* the set of the items a commit of it has published (VectorIndex and       *)
(* VectorReset model its files).                                            *)
(***************************************************************************)
EXTENDS Integers, Sequences, FiniteSets

CONSTANTS
    Session,                \* processes: CLI verbs, editor hooks, the MCP server
    Nobody,
    Scope,                  \* the values of the scope column, NULL included
    INDEX_LOCK_ATTEMPTS,
    Calls,                  \* ingest calls: the scopes of the items, and whether
                            \* the call is ingest_many
    MaxItems, MaxMoves, MaxSessions     \* bounds

ASSUME SyncAssumption ==
    /\ Nobody \notin Session /\ INDEX_LOCK_ATTEMPTS \in Nat \ {0}
    /\ Calls \subseteq Seq(Scope) \X BOOLEAN
    /\ MaxItems \in Nat /\ MaxMoves \in Nat /\ MaxSessions \in Nat

VARIABLES
    items,          \* the items table: the scope of each committed item
    moves, begun,   \* bounds: set_scope calls, sessions and reindexes
    lexical,        \* the committed documents of the Tantivy sidecar
    tantivy_lock,   \* .tantivy-writer.lock: one writer per directory
    old_schema,     \* the sidecar predates the scope fields
    tantivy, vectors,   \* .tantivy/ and .vectors/ exist
    semantic,       \* the items whose vectors a commit has published
    at,             \* where a session is
    lock_tries,     \* failed opens of the sidecar
    hooks,          \* the members of the session's MultiHook
    queued,         \* documents added to the session's Tantivy writer
    embedded,       \* items added to the session's vector index
    fresh,          \* the documents of the ingest call in progress
    batch,          \* is that call ingest_many?
    listed,         \* reindex: the items it still has to read
    with_embeddings,
    excused,        \* history: <<sidecar, item>> that a warning names, that the
                    \* session never meant to index, or whose session died
    moved,          \* history: items moved since their document was made
    stirred,        \* history: items moved since the running reindex read them
    unread,         \* history: items the running reindex could not read
    dropped,        \* history: items the last reindex to commit left out for
                    \* that, without a message
    split           \* history: a directory was removed under an open writer

store_vars == <<items, moves>>
sidecar_vars == <<lexical, tantivy_lock, old_schema, tantivy, vectors, semantic>>
session_vars ==
    <<at, lock_tries, hooks, queued, embedded, fresh, batch, listed, with_embeddings>>
sync_history == <<excused, moved, stirred, unread, dropped, split>>
sync_vars == <<begun, store_vars, sidecar_vars, session_vars, sync_history>>

Items == 1 .. Len(items)
Numbers(docs) == {doc[1] : doc \in docs}
LexicalItems == Numbers(lexical)
Both(set) == {"lexical", "semantic"} \X set

SyncInit ==
    /\ items = << >> /\ moves = 0 /\ begun = 0
    /\ lexical = {} /\ tantivy_lock = Nobody /\ old_schema \in BOOLEAN
    /\ tantivy \in BOOLEAN /\ (old_schema => tantivy)
    /\ vectors \in BOOLEAN /\ semantic = {}
    /\ at = [s \in Session |-> "ended"] /\ lock_tries = [s \in Session |-> 0]
    /\ hooks = [s \in Session |-> {}]
    /\ queued = [s \in Session |-> {}] /\ embedded = [s \in Session |-> {}]
    /\ fresh = [s \in Session |-> {}] /\ batch = [s \in Session |-> FALSE]
    /\ listed = [s \in Session |-> {}]
    /\ with_embeddings = [s \in Session |-> FALSE]
    /\ excused = {} /\ moved = {} /\ stirred = [s \in Session |-> {}]
    /\ unread = [s \in Session |-> {}] /\ dropped = {} /\ split = FALSE

GoTo(s, place) == at' = [at EXCEPT ![s] = place]
Excuse(pairs) == excused' = excused \cup pairs

(***************************************************************************)
(* wire_index_hooks.                                                       *)
(***************************************************************************)
\* A CLI verb or an editor hook wires what it can, and nothing with --no-index.
\* The MCP server and the Node bindings open once per call, without a retry,
\* and only what exists.
Begin(s, kind) ==
    /\ at[s] = "ended" /\ begun < MaxSessions /\ begun' = begun + 1
    /\ \/ kind = "cli" /\ GoTo(s, "open") /\ UNCHANGED lock_tries
       \/ kind = "no_index" /\ GoTo(s, "ready") /\ UNCHANGED lock_tries
       \/ /\ kind = "server" /\ GoTo(s, IF tantivy THEN "open" ELSE "wire")
          /\ lock_tries' = [lock_tries EXCEPT ![s] = INDEX_LOCK_ATTEMPTS - 1]
    /\ UNCHANGED <<store_vars, sidecar_vars, hooks, queued, embedded, fresh, batch,
                   listed, with_embeddings, sync_history>>

OpenTantivy(s) ==
    /\ at[s] = "open" /\ ~old_schema /\ tantivy_lock = Nobody
    /\ tantivy' = TRUE /\ tantivy_lock' = s
    /\ hooks' = [hooks EXCEPT ![s] = @ \cup {"lexical"}]
    /\ lock_tries' = [lock_tries EXCEPT ![s] = 0]
    /\ GoTo(s, "wire")
    /\ UNCHANGED <<begun, store_vars, lexical, old_schema, vectors, semantic,
                   queued, embedded, fresh, batch, listed, with_embeddings,
                   sync_history>>

\* Mutant of TantivyBusy: the attempts are not counted.
TantivyBusyForever(s) ==
    /\ at[s] = "open" /\ ~old_schema /\ tantivy_lock # Nobody
    /\ UNCHANGED sync_vars

\* Mutant of TantivyBusy: one attempt too many.
TantivyBusyLate(s) ==
    /\ at[s] = "open" /\ ~old_schema /\ tantivy_lock # Nobody
    /\ IF lock_tries[s] < INDEX_LOCK_ATTEMPTS
       THEN lock_tries' = [lock_tries EXCEPT ![s] = @ + 1] /\ UNCHANGED at
       ELSE lock_tries' = [lock_tries EXCEPT ![s] = 0] /\ GoTo(s, "wire")
    /\ UNCHANGED <<begun, store_vars, sidecar_vars, hooks, queued, embedded, fresh,
                   batch, listed, with_embeddings, sync_history>>

\* After the last attempt the session goes on without the member.
TantivyBusy(s) ==
    /\ at[s] = "open" /\ ~old_schema /\ tantivy_lock # Nobody
    /\ IF lock_tries[s] + 1 < INDEX_LOCK_ATTEMPTS
       THEN lock_tries' = [lock_tries EXCEPT ![s] = @ + 1] /\ UNCHANGED at
       ELSE lock_tries' = [lock_tries EXCEPT ![s] = 0] /\ GoTo(s, "wire")
    /\ UNCHANGED <<begun, store_vars, sidecar_vars, hooks, queued, embedded, fresh,
                   batch, listed, with_embeddings, sync_history>>

\* A schema mismatch, or any other error that is not the lock's, is not tried
\* again.
TantivyFails(s) ==
    /\ at[s] = "open"
    /\ lock_tries' = [lock_tries EXCEPT ![s] = 0] /\ GoTo(s, "wire")
    /\ UNCHANGED <<begun, store_vars, sidecar_vars, hooks, queued, embedded, fresh,
                   batch, listed, with_embeddings, sync_history>>

\* The vector member only when .vectors/ exists, and if it opens.
WireVectors(s) ==
    /\ at[s] = "wire" /\ GoTo(s, "ready")
    /\ \/ vectors /\ hooks' = [hooks EXCEPT ![s] = @ \cup {"semantic"}]
       \/ UNCHANGED hooks
    /\ UNCHANGED <<begun, store_vars, sidecar_vars, lock_tries, queued, embedded,
                   fresh, batch, listed, with_embeddings, sync_history>>

(***************************************************************************)
(* Store::ingest, ingest_replacing and ingest_many: the transaction, then   *)
(* the hook.                                                               *)
(***************************************************************************)
\* The rows become visible together; a member that was not wired was warned
\* about then, or not wanted.
Ingest(s, scopes, many) ==
    /\ at[s] = "ready" /\ Len(items) + Len(scopes) <= MaxItems
    /\ many \/ Len(scopes) = 1
    /\ items' = items \o scopes
    /\ LET docs == {<<Len(items) + n, scopes[n]>> : n \in 1 .. Len(scopes)} IN
       /\ Excuse(({"lexical", "semantic"} \ hooks[s]) \X Numbers(docs))
       /\ IF hooks[s] = {}
          THEN UNCHANGED <<fresh, batch, at>>
          ELSE /\ fresh' = [fresh EXCEPT ![s] = docs]
               /\ batch' = [batch EXCEPT ![s] = many] /\ GoTo(s, "add")
    /\ UNCHANGED <<begun, moves, sidecar_vars, lock_tries, hooks, queued, embedded,
                   listed, with_embeddings, moved, stirred, unread, dropped, split>>

\* What a member takes of a call: all, or what comes before its first error.
Takes(s, member) ==
    IF member \in hooks[s]
    THEN {set \in SUBSET fresh[s] : \A doc \in fresh[s], d \in set :
                                        doc[1] < d[1] => doc \in set}
    ELSE {{}}

Refused(s, docs, embeds) ==
    {pair \in hooks[s] \X Numbers(fresh[s]) :
        pair[2] \notin Numbers(IF pair[1] = "lexical" THEN docs ELSE embeds)}

\* MultiHook: every member runs; a single item is committed only if none
\* failed, a batch always.
AddToHooks(s, docs, embeds) ==
    /\ at[s] = "add" /\ docs \in Takes(s, "lexical")
    /\ embeds \in Takes(s, "semantic")
    /\ queued' = [queued EXCEPT ![s] = @ \cup docs]
    /\ embedded' = [embedded EXCEPT ![s] = @ \cup Numbers(embeds)]
    /\ IF Refused(s, docs, embeds) = {} \/ batch[s]
       THEN GoTo(s, "commit") /\ UNCHANGED fresh /\ Excuse(Refused(s, docs, embeds))
       ELSE /\ GoTo(s, "ready") /\ fresh' = [fresh EXCEPT ![s] = {}]
            /\ Excuse(Both(Numbers(fresh[s])))
    /\ UNCHANGED <<begun, store_vars, sidecar_vars, lock_tries, hooks, batch,
                   listed, with_embeddings, moved, stirred, unread, dropped, split>>

\* Tantivy publishes what its writer holds beside what the sidecar has (AddsOnce:
\* these are documents of other items); a failure may come after that, from the
\* reload of the reader.
CommitLexical(s, ok) ==
    /\ at[s] = "commit" /\ GoTo(s, "commit_vectors")
    /\ "lexical" \notin hooks[s] => ok
    /\ \/ lexical' = lexical \cup queued[s] /\ queued' = [queued EXCEPT ![s] = {}]
       \/ ~ok /\ UNCHANGED <<lexical, queued>>
    /\ Excuse(IF ok THEN {} ELSE {"lexical"} \X Numbers(fresh[s]))
    /\ UNCHANGED <<begun, store_vars, tantivy_lock, old_schema, tantivy, vectors,
                   semantic, lock_tries, hooks, embedded, fresh, batch, listed,
                   with_embeddings, moved, stirred, unread, dropped, split>>

CommitVectors(s, ok) ==
    /\ at[s] = "commit_vectors" /\ GoTo(s, "ready")
    /\ "semantic" \notin hooks[s] => ok
    /\ \/ /\ semantic' = semantic \cup embedded[s]
          /\ embedded' = [embedded EXCEPT ![s] = {}]
       \/ ~ok /\ UNCHANGED <<semantic, embedded>>
    /\ Excuse(IF ok THEN {} ELSE {"semantic"} \X Numbers(fresh[s]))
    /\ fresh' = [fresh EXCEPT ![s] = {}]
    /\ UNCHANGED <<begun, store_vars, lexical, tantivy_lock, old_schema, tantivy,
                   vectors, lock_tries, hooks, queued, batch, listed,
                   with_embeddings, moved, stirred, unread, dropped, split>>

\* Store::set_scope: the documents keep the scope they have.
SetScope(i, scope) ==
    /\ i \in Items /\ items[i] # scope /\ moves < MaxMoves
    /\ items' = [items EXCEPT ![i] = scope] /\ moves' = moves + 1
    /\ moved' = moved \cup ({i} \cap (LexicalItems
                          \cup UNION {Numbers(queued[s] \cup fresh[s]) : s \in Session}))
    /\ stirred' = [s \in Session |->
                     IF at[s] = "read" THEN stirred[s] \cup ({i} \cap Numbers(queued[s]))
                     ELSE stirred[s]]
    /\ UNCHANGED <<begun, sidecar_vars, session_vars, excused, unread, dropped, split>>

\* The process ends: what its writers held is gone, the lock is free.
Leave(s) ==
    /\ GoTo(s, "ended")
    /\ tantivy_lock' = IF tantivy_lock = s THEN Nobody ELSE tantivy_lock
    /\ hooks' = [hooks EXCEPT ![s] = {}] /\ lock_tries' = [lock_tries EXCEPT ![s] = 0]
    /\ queued' = [queued EXCEPT ![s] = {}] /\ embedded' = [embedded EXCEPT ![s] = {}]
    /\ fresh' = [fresh EXCEPT ![s] = {}] /\ listed' = [listed EXCEPT ![s] = {}]
    /\ batch' = [batch EXCEPT ![s] = FALSE]
    /\ stirred' = [stirred EXCEPT ![s] = {}] /\ unread' = [unread EXCEPT ![s] = {}]
    /\ with_embeddings' = [with_embeddings EXCEPT ![s] = FALSE]

(***************************************************************************)
(* Searches: Index::open makes a writer, so that a search holds the lock    *)
(* that keeps others from indexing, and fails when it cannot have it.       *)
(***************************************************************************)
BeginSearch(s) ==
    /\ at[s] = "ended" /\ begun < MaxSessions /\ begun' = begun + 1
    /\ tantivy /\ GoTo(s, "search")
    /\ UNCHANGED <<store_vars, sidecar_vars, lock_tries, hooks, queued, embedded,
                   fresh, batch, listed, with_embeddings, sync_history>>

OpenToSearch(s) ==
    /\ at[s] = "search" /\ ~old_schema /\ tantivy_lock = Nobody
    /\ tantivy' = TRUE /\ tantivy_lock' = s /\ GoTo(s, "searching")
    /\ UNCHANGED <<begun, store_vars, lexical, old_schema, vectors, semantic,
                   lock_tries, hooks, queued, embedded, fresh, batch, listed,
                   with_embeddings, sync_history>>

EndSearch(s) ==
    /\ at[s] = "searching" \/ (at[s] = "search" /\ (old_schema \/ tantivy_lock # Nobody))
    /\ Leave(s)
    /\ UNCHANGED <<begun, store_vars, lexical, old_schema, tantivy, vectors,
                   semantic, excused, moved, dropped, split>>

(***************************************************************************)
(* cmd_reindex: Index::open, without a retry, before store.list().          *)
(***************************************************************************)
BeginReindex(s, embed) ==
    /\ at[s] = "ended" /\ begun < MaxSessions /\ begun' = begun + 1
    /\ GoTo(s, "reindex")
    /\ with_embeddings' = [with_embeddings EXCEPT ![s] = embed]
    /\ UNCHANGED <<store_vars, sidecar_vars, lock_tries, hooks, queued, embedded,
                   fresh, batch, listed, sync_history>>

\* Mutant of OpenToReindex: the items are listed before the index is open.
OpenToReindexListsFirst(s) ==
    /\ \/ /\ at[s] = "reindex" /\ ~old_schema /\ GoTo(s, "reopen")
          /\ listed' = [listed EXCEPT ![s] = Items] /\ UNCHANGED tantivy_lock
       \/ /\ at[s] = "reopen" /\ tantivy_lock = Nobody /\ GoTo(s, "read")
          /\ tantivy_lock' = s /\ UNCHANGED listed
    /\ UNCHANGED <<begun, store_vars, lexical, old_schema, tantivy, vectors,
                   semantic, lock_tries, hooks, queued, embedded, fresh, batch,
                   with_embeddings, sync_history>>

OpenToReindex(s) ==
    /\ at[s] \in {"reindex", "reopen"} /\ ~old_schema /\ tantivy_lock = Nobody
    /\ tantivy_lock' = s /\ tantivy' = TRUE /\ GoTo(s, "list")
    /\ UNCHANGED <<begun, store_vars, lexical, old_schema, vectors, semantic,
                   lock_tries, hooks, queued, embedded, fresh, batch, listed,
                   with_embeddings, sync_history>>

\* open_or_rebuild_index saw a schema mismatch: the directory goes, whoever
\* has it open by now, and is opened again.
SeeOldSchema(s) ==
    /\ at[s] = "reindex" /\ old_schema /\ GoTo(s, "rebuild")
    /\ UNCHANGED <<begun, store_vars, sidecar_vars, lock_tries, hooks, queued,
                   embedded, fresh, batch, listed, with_embeddings, sync_history>>

RemoveSidecar(s) ==
    /\ at[s] = "rebuild" /\ GoTo(s, "reopen")
    /\ old_schema' = FALSE /\ tantivy' = FALSE /\ lexical' = {} /\ tantivy_lock' = Nobody
    /\ Excuse({"lexical"} \X Items)
    /\ split' = (split \/ tantivy_lock # Nobody)
    /\ UNCHANGED <<begun, store_vars, vectors, semantic, lock_tries, hooks, queued,
                   embedded, fresh, batch, listed, with_embeddings, moved, stirred, unread,
                   dropped>>

\* Mutant of ListItems: the documents of the old index are kept.
ListItemsKeepOld(s) ==
    /\ at[s] = "list" /\ GoTo(s, "read")
    /\ listed' = [listed EXCEPT ![s] = Items]
    /\ queued' = [queued EXCEPT ![s] = lexical]
    /\ UNCHANGED <<begun, store_vars, sidecar_vars, lock_tries, hooks, embedded,
                   fresh, batch, with_embeddings, excused, moved, stirred, unread, dropped,
                   split>>

\* store.list() takes the ids; delete_all_documents is not visible yet.
ListItems(s) ==
    /\ at[s] = "list" /\ GoTo(s, "read")
    /\ listed' = [listed EXCEPT ![s] = Items]
    /\ UNCHANGED <<begun, store_vars, sidecar_vars, lock_tries, hooks, queued,
                   embedded, fresh, batch, with_embeddings, excused, moved, stirred,
                   unread, dropped, split>>

\* Each item is read as it is by then; filter_map(Result::ok) passes over one
\* that cannot be read, and says nothing.
ReadItem(s, i, ok) ==
    /\ at[s] = "read" /\ i \in listed[s] /\ \A j \in listed[s] : i <= j
    /\ listed' = [listed EXCEPT ![s] = @ \ {i}]
    /\ IF ok
       THEN /\ queued' = [queued EXCEPT ![s] = @ \cup {<<i, items[i]>>}]
            /\ UNCHANGED unread
       ELSE unread' = [unread EXCEPT ![s] = @ \cup {i}] /\ UNCHANGED queued
    /\ UNCHANGED <<begun, at, store_vars, sidecar_vars, lock_tries, hooks, embedded,
                   fresh, batch, with_embeddings, excused, moved, stirred, dropped, split>>

\* One commit: the new documents in place of the old ones, those of items it
\* could not read included.  From here on none of its list has another excuse.
CommitReindex(s) ==
    /\ at[s] = "read" /\ listed[s] = {} /\ GoTo(s, "reindexed")
    /\ lexical' = queued[s] /\ queued' = [queued EXCEPT ![s] = {}]
    /\ excused' = excused \ ({"lexical"} \X (Numbers(queued[s]) \cup unread[s]))
    /\ dropped' = unread[s] /\ unread' = [unread EXCEPT ![s] = {}]
    /\ moved' = moved \ (Numbers(queued[s]) \ stirred[s])
    /\ stirred' = [stirred EXCEPT ![s] = {}]
    /\ UNCHANGED <<begun, store_vars, tantivy_lock, old_schema, tantivy, vectors,
                   semantic, lock_tries, hooks, embedded, fresh, batch, listed,
                   with_embeddings, split>>

\* --reset-vectors removes the directory, with a warning.
ResetVectors(s) ==
    /\ at[s] = "reindexed" /\ with_embeddings[s] /\ vectors /\ GoTo(s, "reset")
    /\ vectors' = FALSE /\ semantic' = {} /\ Excuse({"semantic"} \X Items)
    /\ split' = (split \/ \E other \in Session : "semantic" \in hooks[other])
    /\ UNCHANGED <<begun, store_vars, lexical, tantivy_lock, old_schema, tantivy, lock_tries,
                   hooks, queued, embedded, fresh, batch, listed, with_embeddings,
                   moved, stirred, unread, dropped>>

\* EmbedderIndex::open, a second store.list(), and the batches.
EmbedItems(s) ==
    /\ at[s] \in {"reindexed", "reset"} /\ with_embeddings[s] /\ GoTo(s, "embedded")
    /\ vectors' = TRUE /\ embedded' = [embedded EXCEPT ![s] = Items]
    /\ UNCHANGED <<begun, store_vars, lexical, tantivy_lock, old_schema, tantivy, semantic,
                   lock_tries, hooks, queued, fresh, batch, listed, with_embeddings,
                   sync_history>>

CommitEmbeddings(s) ==
    /\ at[s] = "embedded" /\ Leave(s)
    /\ semantic' = semantic \cup embedded[s]
    /\ excused' = excused \ ({"semantic"} \X embedded[s])
    /\ UNCHANGED <<begun, store_vars, lexical, old_schema, tantivy, vectors, moved,
                   dropped, split>>

Reindexing == {"reindex", "rebuild", "reopen", "list", "read", "reindexed", "reset",
               "embedded"}

\* cmd_reindex returns: done, refused the writer lock, or with the error of
\* any of its steps.
EndReindex(s) ==
    /\ \/ at[s] = "reindexed" /\ ~with_embeddings[s]
       \/ at[s] \in {"reindex", "reopen"} /\ ~old_schema /\ tantivy_lock # Nobody
    /\ Leave(s)
    /\ UNCHANGED <<begun, store_vars, lexical, old_schema, tantivy, vectors,
                   semantic, excused, moved, dropped, split>>

FailReindex(s) ==
    /\ at[s] \in Reindexing
    /\ Leave(s)
    /\ UNCHANGED <<begun, store_vars, lexical, old_schema, tantivy, vectors,
                   semantic, excused, moved, dropped, split>>

\* A session ends between calls, or its process dies in one.
End(s) ==
    /\ at[s] \in {"open", "wire", "ready", "add", "commit", "commit_vectors", "search",
                 "searching"}
    /\ Leave(s) /\ Excuse(Both(Numbers(fresh[s])))
    /\ UNCHANGED <<begun, store_vars, lexical, old_schema, tantivy, vectors,
                   semantic, moved, dropped, split>>

SessionStep(s) ==
    \/ OpenTantivy(s) \/ TantivyBusy(s) \/ (old_schema /\ TantivyFails(s))
    \/ WireVectors(s)
    \/ \E docs, embeds \in SUBSET fresh[s] : AddToHooks(s, docs, embeds)
    \/ \E ok \in BOOLEAN : CommitLexical(s, ok) \/ CommitVectors(s, ok)
    \/ OpenToSearch(s) \/ EndSearch(s)

ReindexStep(s) ==
    \/ OpenToReindex(s) \/ SeeOldSchema(s) \/ RemoveSidecar(s) \/ ListItems(s)
    \/ \E i \in Items, ok \in BOOLEAN : ReadItem(s, i, ok)
    \/ CommitReindex(s) \/ ResetVectors(s) \/ EmbedItems(s) \/ CommitEmbeddings(s)
    \/ EndReindex(s)

SyncNext ==
    /\ ~split
    /\ \/ \E i \in Items, scope \in Scope : SetScope(i, scope)
       \/ \E s \in Session :
          \/ SessionStep(s) \/ ReindexStep(s)
          \/ TantivyFails(s) \/ FailReindex(s) \/ End(s)
          \/ \E kind \in {"cli", "server", "no_index"} : Begin(s, kind)
          \/ BeginSearch(s) \/ (\E embed \in BOOLEAN : BeginReindex(s, embed))
          \/ \E call \in Calls : Ingest(s, call[1], call[2])

SyncSpec == SyncInit /\ [][SyncNext]_sync_vars

\* A call that runs goes on; nothing makes a session call, fail, or end.
FairSyncSpec ==
    /\ SyncSpec
    /\ \A s \in Session : WF_sync_vars(SessionStep(s)) /\ WF_sync_vars(ReindexStep(s))

(***************************************************************************)
(* Properties.                                                             *)
(***************************************************************************)
SyncTypeOK ==
    /\ items \in Seq(Scope) /\ Len(items) <= MaxItems /\ moves \in 0 .. MaxMoves
    /\ begun \in 0 .. MaxSessions
    /\ lexical \subseteq (1 .. MaxItems) \X Scope
    /\ tantivy_lock \in Session \cup {Nobody}
    /\ {old_schema, tantivy, vectors} \subseteq BOOLEAN
    /\ semantic \subseteq 1 .. MaxItems
    /\ at \in [Session -> {"ended", "open", "wire", "ready", "add", "commit",
                           "commit_vectors", "search", "searching"} \cup Reindexing]
    /\ lock_tries \in [Session -> 0 .. INDEX_LOCK_ATTEMPTS - 1]
    /\ hooks \in [Session -> SUBSET {"lexical", "semantic"}]
    /\ queued \in [Session -> SUBSET ((1 .. MaxItems) \X Scope)]
    /\ fresh \in [Session -> SUBSET ((1 .. MaxItems) \X Scope)]
    /\ embedded \in [Session -> SUBSET (1 .. MaxItems)]
    /\ listed \in [Session -> SUBSET (1 .. MaxItems)]
    /\ batch \in [Session -> BOOLEAN] /\ with_embeddings \in [Session -> BOOLEAN]
    /\ excused \subseteq Both(1 .. MaxItems) /\ moved \subseteq 1 .. MaxItems
    /\ stirred \in [Session -> SUBSET (1 .. MaxItems)]
    /\ unread \in [Session -> SUBSET (1 .. MaxItems)] /\ dropped \subseteq 1 .. MaxItems
    /\ split \in BOOLEAN

\* index_item adds and never deletes: what a writer holds, or is about to be
\* handed, is of items that have no document yet, in the index or in the writer.
\* A reindex starts from an empty index and reads each item once.
AddsOnce(s) ==
    /\ at[s] # "read" => Numbers(queued[s]) \cap LexicalItems = {}
    /\ at[s] = "read" => listed[s] \cap Numbers(queued[s]) = {}
    /\ at[s] = "add" /\ "lexical" \in hooks[s] =>
          Numbers(fresh[s]) \cap (LexicalItems \cup Numbers(queued[s])) = {}

\* Every document of the Tantivy sidecar is the only one of a committed item,
\* with the scope the item has, unless the item was moved since, and nobody is
\* about to add a second one; and semantic search names committed items
\* (index_item, set_scope, reindex_from).
DocumentsMatchStore ==
    /\ semantic \subseteq Items
    /\ split \/ \A s \in Session : AddsOnce(s)
    /\ \A doc \in lexical :
          /\ doc[1] \in Items
          /\ split \/ doc[1] \in moved \/ doc[2] = items[doc[1]]
          /\ split \/ \A other \in lexical : other[1] = doc[1] => other = doc

\* An item no full-text search finds is one a warning named, one whose session
\* was not to index it, one whose call is still running, one whose process died
\* in the call, or, and of this one nobody is told, one the last reindex to
\* commit could not read: a reindex that commits leaves the items of its list
\* behind for this reason only.  One no semantic search finds has one of the
\* first four (fire_hook, ingest_many, wire_index_hooks, cmd_reindex).
MissingIsExplained ==
    split \/ \A i \in Items :
        \/ \E s \in Session : i \in Numbers(fresh[s])
        \/ /\ i \in LexicalItems \/ i \in dropped \/ <<"lexical", i>> \in excused
           /\ i \in semantic \/ <<"semantic", i>> \in excused

\* No session and no reindex waits for ever for the writer lock: a session is
\* ready for its call, and a call and a reindex end
\* (open_index_with_retry, cmd_reindex).
SessionsProceed ==
    \A s \in Session :
        at[s] \notin {"ready", "ended"} ~> (at[s] \in {"ready", "ended"} \/ split)
=============================================================================
