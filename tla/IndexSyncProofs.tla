-------------------------- MODULE IndexSyncProofs --------------------------
(***************************************************************************)
(* The safety of IndexSync for every number of sessions and items and every *)
(* set of calls: documents match the store, and an item no search finds is   *)
(* one somebody was told about.                                             *)
(***************************************************************************)
EXTENDS IndexSync, SequenceTheorems, TLAPS

(***************************************************************************)
(* The inductive invariant.                                                *)
(***************************************************************************)
Calling == {"add", "commit", "commit_vectors"}
Hooked == {"wire", "ready"} \cup Calling

Indexes(s) == "lexical" \in hooks[s]

\* Where a session has members, a call's documents, and documents in its writer.
Places ==
    \A s \in Session :
        /\ hooks[s] # {} => at[s] \in Hooked
        /\ fresh[s] # {} => at[s] \in Calling
        /\ queued[s] # {} => Indexes(s) \/ at[s] = "read"

\* As long as no directory was removed under an open writer, who may write
\* documents has the lock.
WriterLocked ==
    ~split => \A s \in Session : Indexes(s) \/ at[s] \in {"list", "read"} => tantivy_lock = s

\* Only committed items are indexed, waiting to be, or listed.
KnownItems ==
    /\ LexicalItems \cup semantic \subseteq Items
    /\ \A s \in Session :
          Numbers(queued[s]) \cup Numbers(fresh[s]) \cup embedded[s] \cup listed[s]
              \subseteq Items

UpToDate(doc) == doc[2] = items[doc[1]]
Single(docs) == \A d, e \in docs : d[1] = e[1] => d = e

\* A document has the scope of its item unless the item was moved since.
Scopes ==
    /\ \A doc \in lexical : doc[1] \in moved \/ UpToDate(doc)
    /\ \A s \in Session :
          /\ \A doc \in queued[s] : doc[1] \in moved \/ UpToDate(doc)
          /\ Indexes(s) => \A doc \in fresh[s] : doc[1] \in moved \/ UpToDate(doc)
          /\ at[s] = "read" =>
                \A doc \in queued[s] : doc[1] \in stirred[s] \/ UpToDate(doc)

\* An item is on its way into the sidecar once.
Once ==
    /\ Single(lexical)
    /\ \A s \in Session :
          /\ Single(queued[s]) /\ Single(fresh[s])
          /\ Indexes(s) => Numbers(queued[s]) \cap LexicalItems = {}
          /\ Indexes(s) /\ at[s] = "add" =>
                Numbers(fresh[s]) \cap (LexicalItems \cup Numbers(queued[s])) = {}
          /\ at[s] = "read" => listed[s] \cap Numbers(queued[s]) = {}

LexicalKnows(i) == i \in LexicalItems \/ i \in dropped \/ <<"lexical", i>> \in excused
SemanticKnows(i) == i \in semantic \/ <<"semantic", i>> \in excused

\* What is left to do for the items of the call a session is in.
CallGoesOn(s) ==
    \A i \in Numbers(fresh[s]) :
        /\ at[s] = "add" => /\ Indexes(s) \/ LexicalKnows(i)
                            /\ "semantic" \in hooks[s] \/ SemanticKnows(i)
        /\ at[s] = "commit" => i \in Numbers(queued[s]) \/ LexicalKnows(i)
        /\ at[s] = "commit_vectors" => LexicalKnows(i)
        /\ at[s] \in {"commit", "commit_vectors"} => i \in embedded[s] \/ SemanticKnows(i)

\* What a running reindex leaves out has been excused, or it could not read it.
ReindexCovers(s) ==
    at[s] = "read" =>
        \A i \in Items :
            i \in listed[s] \cup Numbers(queued[s]) \cup unread[s] \/ <<"lexical", i>> \in excused

Explained ==
    /\ \A i \in Items : (\E s \in Session : i \in Numbers(fresh[s]))
                        \/ (LexicalKnows(i) /\ SemanticKnows(i))
    /\ \A s \in Session : CallGoesOn(s) /\ ReindexCovers(s)

InStep ==
    /\ Places /\ WriterLocked /\ KnownItems
    /\ ~split => Scopes /\ Once /\ Explained

(***************************************************************************)
(* Types.                                                                  *)
(***************************************************************************)
Docs == (1 .. MaxItems) \X Scope

LEMMA NumbersOfDocs == \A set \in SUBSET Docs : Numbers(set) \subseteq 1 .. MaxItems
<1> SUFFICES ASSUME NEW set \in SUBSET Docs, NEW i \in Numbers(set)
             PROVE  i \in 1 .. MaxItems
  OBVIOUS
<1>1. PICK doc \in set : i = doc[1]
  BY DEF Numbers
<1>2. QED BY <1>1 DEF Docs

LEMMA ItemsBounded == SyncTypeOK => Items \subseteq 1 .. MaxItems
BY SyncAssumption DEF SyncTypeOK, Items

\* The rows of a call come after those there are.
LEMMA NewItems ==
    ASSUME SyncTypeOK, NEW s \in Session, NEW call \in Calls, Ingest(s, call[1], call[2])
    PROVE  LET docs == {<<Len(items) + n, call[1][n]>> : n \in 1 .. Len(call[1])}
           IN /\ docs \in SUBSET Docs
              /\ Numbers(docs) = (Len(items) + 1) .. Len(items')
              /\ Single(docs)
              /\ \A doc \in docs : doc[2] = items'[doc[1]]
              /\ items' \in Seq(Scope) /\ Len(items') = Len(items) + Len(call[1])
              /\ Len(items') <= MaxItems
              /\ \A i \in Items : items'[i] = items[i]
              /\ Items \subseteq Items'
<1> DEFINE scopes == call[1]
           docs == {<<Len(items) + n, scopes[n]>> : n \in 1 .. Len(scopes)}
<1>1. scopes \in Seq(Scope) /\ items \in Seq(Scope)
  BY SyncAssumption DEF SyncTypeOK
<1>2. items' = items \o scopes /\ Len(items) + Len(scopes) <= MaxItems
  BY DEF Ingest
<1>3. /\ items' \in Seq(Scope) /\ Len(items') = Len(items) + Len(scopes)
      /\ \A i \in Items : items'[i] = items[i]
      /\ \A n \in 1 .. Len(scopes) : items'[Len(items) + n] = scopes[n]
  BY <1>1, <1>2 DEF Items
<1>4. docs \in SUBSET Docs
  BY <1>1, <1>2, SyncAssumption DEF Docs
<1>5. Numbers(docs) = (Len(items) + 1) .. Len(items')
  <2>1. ASSUME NEW i \in (Len(items) + 1) .. Len(items') PROVE i \in Numbers(docs)
    <3>1. (i - Len(items)) \in 1 .. Len(scopes) /\ Len(items) + (i - Len(items)) = i
      BY <1>1, <1>3
    <3>2. <<i, scopes[i - Len(items)]>> \in docs
      BY <3>1
    <3>3. <<i, scopes[i - Len(items)]>>[1] = i
      OBVIOUS
    <3>4. QED BY <3>2, <3>3, Zenon DEF Numbers
  <2>2. Numbers(docs) \subseteq (Len(items) + 1) .. Len(items')
    BY <1>1, <1>3 DEF Numbers
  <2>3. QED BY <2>1, <2>2
<1>6. Single(docs)
  BY <1>1 DEF Single
<1>7. \A doc \in docs : doc[2] = items'[doc[1]]
  BY <1>1, <1>3
<1>8. Items \subseteq Items'
  BY <1>1, <1>3 DEF Items
<1>9. QED BY <1>2, <1>3, <1>4, <1>5, <1>6, <1>7, <1>8

LEMMA InitTypes == SyncInit => SyncTypeOK
<1> SUFFICES ASSUME SyncInit PROVE SyncTypeOK
  OBVIOUS
<1>1. items \in Seq(Scope) /\ Len(items) <= MaxItems /\ moves \in 0 .. MaxMoves
      /\ begun \in 0 .. MaxSessions /\ lock_tries \in [Session -> 0 .. INDEX_LOCK_ATTEMPTS - 1]
  BY SyncAssumption DEF SyncInit
<1>2. {old_schema, tantivy, vectors} \subseteq BOOLEAN /\ split \in BOOLEAN
  BY DEF SyncInit
<1>3. QED BY <1>1, <1>2 DEF SyncInit, SyncTypeOK, Both

LEMMA NextTypes == SyncTypeOK /\ [SyncNext]_sync_vars => SyncTypeOK'
<1> SUFFICES ASSUME SyncTypeOK, [SyncNext]_sync_vars PROVE SyncTypeOK'
  OBVIOUS
<1> USE SyncAssumption
<1>0. ASSUME NEW s \in Session PROVE
      /\ Numbers(fresh[s]) \subseteq 1 .. MaxItems /\ Numbers(queued[s]) \subseteq 1 .. MaxItems
      /\ Items \subseteq 1 .. MaxItems
  BY NumbersOfDocs, ItemsBounded DEF SyncTypeOK, Docs
<1>1. ASSUME NEW i \in Items, NEW scope \in Scope, SetScope(i, scope) PROVE SyncTypeOK'
  <2>1. items' \in Seq(Scope) /\ Len(items') = Len(items)
    BY <1>1, ExceptSeq DEF SetScope, SyncTypeOK, Items
  <2>2. moves' \in 0 .. MaxMoves
    BY <1>1 DEF SetScope, SyncTypeOK
  <2>3. i \in 1 .. MaxItems
    BY ItemsBounded
  <2>4. moved' \subseteq 1 .. MaxItems /\ stirred' \in [Session -> SUBSET (1 .. MaxItems)]
    BY <1>1, <2>3, ZenonT(40) DEF SetScope, SyncTypeOK
  <2>5. QED BY <1>1, <2>1, <2>2, <2>4 DEF SetScope, sidecar_vars, session_vars, SyncTypeOK
<1>2. ASSUME NEW s \in Session, NEW kind \in {"cli", "server", "no_index"}, Begin(s, kind)
      PROVE  SyncTypeOK'
  <2>1. begun' \in 0 .. MaxSessions
    BY <1>2 DEF Begin, SyncTypeOK
  <2>2. lock_tries' \in [Session -> 0 .. INDEX_LOCK_ATTEMPTS - 1]
    <3>1. lock_tries' = lock_tries
          \/ lock_tries' = [lock_tries EXCEPT ![s] = INDEX_LOCK_ATTEMPTS - 1]
      BY <1>2 DEF Begin
    <3>2. INDEX_LOCK_ATTEMPTS - 1 \in 0 .. INDEX_LOCK_ATTEMPTS - 1
      OBVIOUS
    <3>3. QED BY <3>1, <3>2 DEF SyncTypeOK
  <2>3. QED BY <1>2, <2>1, <2>2 DEF Begin, GoTo, store_vars, sidecar_vars, sync_history, SyncTypeOK
<1>3. ASSUME NEW s \in Session, BeginSearch(s) \/ \E embed \in BOOLEAN : BeginReindex(s, embed)
      PROVE  SyncTypeOK'
  <2>1. begun' \in 0 .. MaxSessions
    BY <1>3 DEF BeginSearch, BeginReindex, SyncTypeOK
  <2>2. CASE BeginSearch(s)
    BY <2>1, <2>2 DEF BeginSearch, GoTo, store_vars, sidecar_vars, sync_history, SyncTypeOK
  <2>3. CASE \E embed \in BOOLEAN : BeginReindex(s, embed)
    BY <2>1, <2>3 DEF BeginReindex, GoTo, store_vars, sidecar_vars, sync_history, SyncTypeOK,
                      Reindexing
  <2>4. QED BY <1>3, <2>2, <2>3
<1>4. ASSUME NEW s \in Session, OpenTantivy(s) \/ TantivyFails(s) \/ WireVectors(s) PROVE SyncTypeOK'
  <2>1. CASE OpenTantivy(s)
    BY <2>1, SMTT(30) DEF OpenTantivy, GoTo, store_vars, sync_history, SyncTypeOK
  <2>2. CASE TantivyFails(s)
    <3>1. 0 \in 0 .. INDEX_LOCK_ATTEMPTS - 1
      OBVIOUS
    <3>2. QED BY <2>2, <3>1 DEF TantivyFails, GoTo, store_vars, sidecar_vars, sync_history, SyncTypeOK
  <2>3. CASE WireVectors(s)
    <3>1. hooks \in [Session -> SUBSET {"lexical", "semantic"}]
      BY DEF SyncTypeOK
    <3>2. hooks' = hooks \/ hooks' = [hooks EXCEPT ![s] = @ \cup {"semantic"}]
      BY <2>3 DEF WireVectors
    <3>3. hooks' \in [Session -> SUBSET {"lexical", "semantic"}]
      BY <3>1, <3>2
    <3>4. QED BY <2>3, <3>3 DEF WireVectors, GoTo, store_vars, sidecar_vars, sync_history,
                                SyncTypeOK
  <2>4. QED BY <1>4, <2>1, <2>2, <2>3
<1>5. ASSUME NEW s \in Session, TantivyBusy(s) PROVE SyncTypeOK'
  <2>1. lock_tries' \in [Session -> 0 .. INDEX_LOCK_ATTEMPTS - 1]
    <3>1. lock_tries \in [Session -> 0 .. INDEX_LOCK_ATTEMPTS - 1]
      BY DEF SyncTypeOK
    <3>2. 0 \in 0 .. INDEX_LOCK_ATTEMPTS - 1
      OBVIOUS
    <3>3. CASE lock_tries[s] + 1 < INDEX_LOCK_ATTEMPTS
      BY <1>5, <3>1, <3>3 DEF TantivyBusy
    <3>4. CASE ~(lock_tries[s] + 1 < INDEX_LOCK_ATTEMPTS)
      BY <1>5, <3>1, <3>2, <3>4 DEF TantivyBusy
    <3>5. QED BY <3>3, <3>4
  <2>2. QED BY <1>5, <2>1 DEF TantivyBusy, GoTo, store_vars, sidecar_vars, sync_history, SyncTypeOK
<1>6. ASSUME NEW s \in Session, NEW call \in Calls, Ingest(s, call[1], call[2]) PROVE SyncTypeOK'
  <2> DEFINE docs == {<<Len(items) + n, call[1][n]>> : n \in 1 .. Len(call[1])}
  <2>1. docs \in SUBSET Docs /\ items' \in Seq(Scope) /\ Len(items') <= MaxItems
    BY <1>6, NewItems
  <2>2. Numbers(docs) \subseteq 1 .. MaxItems
    BY <2>1, NumbersOfDocs
  <2>3. excused' \subseteq Both(1 .. MaxItems)
    BY <1>6, <2>2 DEF Ingest, Excuse, Both, SyncTypeOK
  <2>4. call[2] \in BOOLEAN
    OBVIOUS
  <2>5. fresh' \in [Session -> SUBSET ((1 .. MaxItems) \X Scope)] /\ batch' \in [Session -> BOOLEAN]
    <3>1. \/ fresh' = fresh /\ batch' = batch
          \/ fresh' = [fresh EXCEPT ![s] = docs] /\ batch' = [batch EXCEPT ![s] = call[2]]
      BY <1>6 DEF Ingest
    <3>2. fresh \in [Session -> SUBSET Docs] /\ batch \in [Session -> BOOLEAN]
      BY DEF SyncTypeOK, Docs
    <3> HIDE DEF docs
    <3>3. \/ fresh' = fresh
          \/ fresh' = [fresh EXCEPT ![s] = docs]
      BY <3>1
    <3>4. fresh' \in [Session -> SUBSET Docs]
      BY <2>1, <3>2, <3>3
    <3>5. batch' \in [Session -> BOOLEAN]
      BY <2>4, <3>1, <3>2
    <3>6. QED BY <3>4, <3>5 DEF Docs
  <2>6. QED BY <1>6, <2>1, <2>3, <2>5 DEF Ingest, GoTo, sidecar_vars, SyncTypeOK
<1>7. ASSUME NEW s \in Session, NEW docs \in SUBSET fresh[s], NEW embeds \in SUBSET fresh[s],
             AddToHooks(s, docs, embeds)
      PROVE  SyncTypeOK'
  <2>1. Numbers(embeds) \subseteq 1 .. MaxItems
    BY NumbersOfDocs DEF SyncTypeOK, Docs
  <2>2. excused' \subseteq Both(1 .. MaxItems)
    BY <1>7, <1>0 DEF AddToHooks, Excuse, Refused, Both, SyncTypeOK
  <2>3. QED BY <1>7, <2>1, <2>2, ZenonT(40)
    DEF AddToHooks, GoTo, store_vars, sidecar_vars, SyncTypeOK
<1>8. ASSUME NEW s \in Session, NEW ok \in BOOLEAN, CommitLexical(s, ok) \/ CommitVectors(s, ok)
      PROVE  SyncTypeOK'
  <2>1. excused' \subseteq Both(1 .. MaxItems)
    BY <1>8, <1>0 DEF CommitLexical, CommitVectors, Excuse, Both, SyncTypeOK
  <2>2. QED BY <1>8, <2>1, ZenonT(40) DEF CommitLexical, CommitVectors, GoTo, store_vars, SyncTypeOK
<1>9. ASSUME NEW s \in Session, OpenToSearch(s) \/ OpenToReindex(s) \/ SeeOldSchema(s)
      PROVE  SyncTypeOK'
  BY <1>9, ZenonT(40)
  DEF OpenToSearch, OpenToReindex, SeeOldSchema, GoTo, store_vars, sidecar_vars,
              sync_history, SyncTypeOK, Reindexing
<1>10. ASSUME NEW s \in Session, RemoveSidecar(s) PROVE SyncTypeOK'
  <2>1. excused' \subseteq Both(1 .. MaxItems)
    BY <1>10, <1>0 DEF RemoveSidecar, Excuse, Both, SyncTypeOK
  <2>2. QED BY <1>10, <2>1 DEF RemoveSidecar, GoTo, store_vars, SyncTypeOK, Reindexing
<1>11. ASSUME NEW s \in Session, ListItems(s) PROVE SyncTypeOK'
  BY <1>11, <1>0 DEF ListItems, GoTo, store_vars, sidecar_vars, SyncTypeOK, Reindexing
<1>12. ASSUME NEW s \in Session, NEW i \in Items, NEW ok \in BOOLEAN, ReadItem(s, i, ok)
       PROVE  SyncTypeOK'
  <2>1. i \in 1 .. MaxItems /\ items[i] \in Scope
    BY ItemsBounded DEF SyncTypeOK, Items
  <2>2. excused' \subseteq Both(1 .. MaxItems)
    BY <1>12 DEF ReadItem, SyncTypeOK
  <2>3. queued' \in [Session -> SUBSET ((1 .. MaxItems) \X Scope)]
    <3>1. queued \in [Session -> SUBSET ((1 .. MaxItems) \X Scope)]
      BY DEF SyncTypeOK
    <3>2. <<i, items[i]>> \in (1 .. MaxItems) \X Scope
      BY <2>1
    <3>3. queued' = queued \/ queued' = [queued EXCEPT ![s] = @ \cup {<<i, items[i]>>}]
      BY <1>12 DEF ReadItem
    <3>4. QED BY <3>1, <3>2, <3>3
  <2>4. listed' \in [Session -> SUBSET (1 .. MaxItems)]
    BY <1>12 DEF ReadItem, SyncTypeOK
  <2>5. unread' \in [Session -> SUBSET (1 .. MaxItems)]
    <3>1. unread \in [Session -> SUBSET (1 .. MaxItems)]
      BY DEF SyncTypeOK
    <3>2. unread' = unread \/ unread' = [unread EXCEPT ![s] = @ \cup {i}]
      BY <1>12 DEF ReadItem
    <3>3. QED BY <2>1, <3>1, <3>2
  <2>6. QED BY <1>12, <2>2, <2>3, <2>4, <2>5 DEF ReadItem, store_vars, sidecar_vars, SyncTypeOK
<1>13. ASSUME NEW s \in Session, CommitReindex(s) PROVE SyncTypeOK'
  <2>1. dropped' \subseteq 1 .. MaxItems /\ unread' \in [Session -> SUBSET (1 .. MaxItems)]
    BY <1>13 DEF CommitReindex, SyncTypeOK
  <2>2. QED BY <1>13, <2>1 DEF CommitReindex, GoTo, store_vars, SyncTypeOK, Reindexing
<1>14. ASSUME NEW s \in Session, ResetVectors(s) PROVE SyncTypeOK'
  <2>1. excused' \subseteq Both(1 .. MaxItems)
    BY <1>14, <1>0 DEF ResetVectors, Excuse, Both, SyncTypeOK
  <2>2. QED BY <1>14, <2>1 DEF ResetVectors, GoTo, store_vars, SyncTypeOK, Reindexing
<1>15. ASSUME NEW s \in Session, EmbedItems(s) PROVE SyncTypeOK'
  BY <1>15, <1>0 DEF EmbedItems, GoTo, store_vars, sync_history, SyncTypeOK, Reindexing
<1>16. ASSUME NEW s \in Session,
              EndSearch(s) \/ CommitEmbeddings(s) \/ EndReindex(s) \/ FailReindex(s) \/ End(s)
       PROVE  SyncTypeOK'
  <2>1. excused' \subseteq Both(1 .. MaxItems) /\ semantic' \subseteq 1 .. MaxItems
    BY <1>16, <1>0 DEF EndSearch, CommitEmbeddings, EndReindex, FailReindex, End, Excuse, Both,
                       SyncTypeOK
  <2>2. /\ Leave(s) /\ UNCHANGED <<items, moves, begun, old_schema, tantivy, vectors, moved, dropped, split>>
        /\ UNCHANGED lexical
    BY <1>16 DEF EndSearch, CommitEmbeddings, EndReindex, FailReindex, End, store_vars
  <2>3. 0 \in 0 .. INDEX_LOCK_ATTEMPTS - 1
    OBVIOUS
  <2>4. QED BY <2>1, <2>2, <2>3 DEF Leave, GoTo, SyncTypeOK
<1>17. CASE UNCHANGED sync_vars
  BY <1>17 DEF sync_vars, store_vars, sidecar_vars, session_vars, sync_history, SyncTypeOK
<1>18. QED BY <1>1, <1>2, <1>3, <1>4, <1>5, <1>6, <1>7, <1>8, <1>9, <1>10, <1>11, <1>12, <1>13,
             <1>14, <1>15, <1>16, <1>17 DEF SyncNext, SessionStep, ReindexStep

\* Every variable of the store, the sidecars and the sessions keeps its type.
THEOREM SyncTypes == SyncSpec => []SyncTypeOK
BY InitTypes, NextTypes, PTL DEF SyncSpec

(***************************************************************************)
(* Where sessions are, and who holds the lock.                             *)
(***************************************************************************)
\* A step between calls, which touches no item and no document.
Walks(s) ==
    \/ \E kind \in {"cli", "server", "no_index"} : Begin(s, kind)
    \/ BeginSearch(s) \/ \E embed \in BOOLEAN : BeginReindex(s, embed)
    \/ OpenTantivy(s) \/ TantivyBusy(s) \/ TantivyFails(s) \/ WireVectors(s)
    \/ OpenToSearch(s) \/ OpenToReindex(s) \/ SeeOldSchema(s)

\* A step after which the session is over.
Departs(s) ==
    EndSearch(s) \/ CommitEmbeddings(s) \/ EndReindex(s) \/ FailReindex(s) \/ End(s)

\* The steps of a call, and those of a reindex.
CallRuns(s) ==
    \/ \E call \in Calls : Ingest(s, call[1], call[2])
    \/ \E docs, embeds \in SUBSET fresh[s] : AddToHooks(s, docs, embeds)
    \/ \E ok \in BOOLEAN : CommitLexical(s, ok) \/ CommitVectors(s, ok)

Reindexes(s) ==
    \/ RemoveSidecar(s) \/ ListItems(s) \/ CommitReindex(s) \/ ResetVectors(s) \/ EmbedItems(s)
    \/ \E i \in Items, ok \in BOOLEAN : ReadItem(s, i, ok)

LEMMA StepKinds ==
    SyncNext => \/ \E i \in Items, scope \in Scope : SetScope(i, scope)
                \/ \E s \in Session : Walks(s) \/ Departs(s) \/ CallRuns(s) \/ Reindexes(s)
BY DEF SyncNext, SessionStep, ReindexStep, Walks, Departs, CallRuns, Reindexes

LEMMA WalkSteps ==
    ASSUME SyncTypeOK, Places, NEW s \in Session, Walks(s)
    PROVE  /\ UNCHANGED <<items, lexical, semantic, queued, embedded, fresh, listed, excused,
                          moved, stirred, unread, dropped, split>>
           /\ \A r \in Session : r # s => at'[r] = at[r] /\ hooks'[r] = hooks[r]
           /\ at[s] \notin Calling \cup {"read"} /\ at'[s] \notin Calling \cup {"read"}
           /\ fresh[s] = {}
           /\ Indexes(s) => Indexes(s)'
           /\ Indexes(s)' => Indexes(s) \/ queued[s] = {}
           /\ hooks'[s] # {} => at'[s] \in Hooked
           /\ \/ tantivy_lock' = tantivy_lock /\ at'[s] # "list" /\ (Indexes(s)' => Indexes(s))
              \/ tantivy_lock' = s /\ tantivy_lock = Nobody
<1>0. /\ at \in [Session -> {"ended", "open", "wire", "ready", "add", "commit",
                             "commit_vectors", "search", "searching"} \cup Reindexing]
      /\ hooks \in [Session -> SUBSET {"lexical", "semantic"}]
  BY DEF SyncTypeOK
<1>1. CASE (\E kind \in {"cli", "server", "no_index"} : Begin(s, kind)) \/ BeginSearch(s)
           \/ \E embed \in BOOLEAN : BeginReindex(s, embed)
  BY <1>0, <1>1 DEF Begin, BeginSearch, BeginReindex, GoTo, store_vars, sidecar_vars, sync_history,
                    Places, Calling, Hooked, Indexes
<1>2. CASE OpenTantivy(s)
  BY <1>0, <1>2 DEF OpenTantivy, GoTo, store_vars, sync_history, Places, Calling, Hooked, Indexes
<1>3. CASE TantivyBusy(s) \/ TantivyFails(s)
  BY <1>0, <1>3 DEF TantivyBusy, TantivyFails, GoTo, store_vars, sidecar_vars, sync_history, Places,
                    Calling, Hooked, Indexes
<1>4. CASE WireVectors(s)
  BY <1>0, <1>4 DEF WireVectors, GoTo, store_vars, sidecar_vars, sync_history, Places, Calling,
                    Hooked, Indexes
<1>5. CASE OpenToSearch(s) \/ OpenToReindex(s)
  BY <1>0, <1>5 DEF OpenToSearch, OpenToReindex, GoTo, store_vars, sync_history, Places, Calling,
                    Hooked, Indexes
<1>6. CASE SeeOldSchema(s)
  BY <1>0, <1>6 DEF SeeOldSchema, GoTo, store_vars, sidecar_vars, sync_history, Places, Calling,
                    Hooked, Indexes
<1>7. QED BY <1>1, <1>2, <1>3, <1>4, <1>5, <1>6 DEF Walks

LEMMA DepartSteps ==
    ASSUME SyncTypeOK, Places, NEW s \in Session, Departs(s)
    PROVE  /\ UNCHANGED <<items, lexical, moved, dropped, split>>
           /\ at' = [at EXCEPT ![s] = "ended"] /\ hooks' = [hooks EXCEPT ![s] = {}]
           /\ queued' = [queued EXCEPT ![s] = {}] /\ fresh' = [fresh EXCEPT ![s] = {}]
           /\ embedded' = [embedded EXCEPT ![s] = {}] /\ listed' = [listed EXCEPT ![s] = {}]
           /\ stirred' = [stirred EXCEPT ![s] = {}] /\ unread' = [unread EXCEPT ![s] = {}]
           /\ tantivy_lock' = IF tantivy_lock = s THEN Nobody ELSE tantivy_lock
           /\ \/ semantic' = semantic /\ excused' = excused \cup Both(Numbers(fresh[s]))
              \/ /\ fresh[s] = {} /\ semantic' = semantic \cup embedded[s]
                 /\ excused' = excused \ ({"semantic"} \X embedded[s])
<1>1. Leave(s) /\ UNCHANGED <<items, lexical, moved, dropped, split>>
  BY DEF Departs, EndSearch, CommitEmbeddings, EndReindex, FailReindex, End, store_vars
<1>2. Both(Numbers({})) = {}
  BY DEF Both, Numbers
<1>3. \/ semantic' = semantic /\ excused' = excused \cup Both(Numbers(fresh[s]))
      \/ /\ fresh[s] = {} /\ semantic' = semantic \cup embedded[s]
         /\ excused' = excused \ ({"semantic"} \X embedded[s])
  <2>1. CASE End(s)
    BY <2>1 DEF End, Excuse
  <2>2. CASE CommitEmbeddings(s)
    BY <2>2 DEF CommitEmbeddings, Places, Calling
  <2>3. CASE EndSearch(s) \/ EndReindex(s) \/ FailReindex(s)
    <3>1. fresh[s] = {}
      BY <2>3 DEF EndSearch, EndReindex, FailReindex, Reindexing, Places, Calling
    <3>2. QED BY <2>3, <3>1, <1>2 DEF EndSearch, EndReindex, FailReindex
  <2>4. QED BY <2>1, <2>2, <2>3 DEF Departs
<1>4. QED BY <1>1, <1>3 DEF Leave, GoTo

LEMMA NextPlaces == SyncTypeOK /\ Places /\ [SyncNext]_sync_vars => Places'
<1> SUFFICES ASSUME SyncTypeOK, Places, [SyncNext]_sync_vars PROVE Places'
  OBVIOUS
<1>0. /\ DOMAIN at = Session /\ DOMAIN hooks = Session /\ DOMAIN fresh = Session
      /\ DOMAIN queued = Session
      /\ \A s \in Session : at[s] = "read" => hooks[s] = {}
  BY DEF SyncTypeOK, Places, Hooked, Calling
<1>1. ASSUME NEW s \in Session, Walks(s) PROVE Places'
  <2>1. /\ UNCHANGED <<queued, fresh>> /\ fresh[s] = {} /\ (Indexes(s) => Indexes(s)')
        /\ at[s] # "read" /\ (hooks'[s] # {} => at'[s] \in Hooked)
        /\ \A r \in Session : r # s => at'[r] = at[r] /\ hooks'[r] = hooks[r]
    BY <1>1, WalkSteps
  <2>2. QED BY <2>1 DEF Places, Indexes
<1>2. ASSUME NEW s \in Session, Departs(s) PROVE Places'
  BY <1>0, <1>2, DepartSteps DEF Places, Indexes
<1>3. ASSUME NEW s \in Session, CallRuns(s) PROVE Places'
  <2>1. CASE \E call \in Calls : Ingest(s, call[1], call[2])
    BY <1>0, <2>1 DEF Ingest, GoTo, Places, Indexes, Hooked, Calling
  <2>2. ASSUME NEW docs \in SUBSET fresh[s], NEW embeds \in SUBSET fresh[s],
               AddToHooks(s, docs, embeds)
        PROVE  Places'
    <3>1. docs # {} => Indexes(s)
      BY <2>2 DEF AddToHooks, Takes, Indexes
    <3>2. QED BY <1>0, <2>2, <3>1 DEF AddToHooks, GoTo, Places, Indexes, Hooked, Calling
  <2>3. CASE \E ok \in BOOLEAN : CommitLexical(s, ok) \/ CommitVectors(s, ok)
    BY <1>0, <2>3 DEF CommitLexical, CommitVectors, GoTo, Places, Indexes, Hooked, Calling
  <2>4. QED BY <1>3, <2>1, <2>2, <2>3 DEF CallRuns
<1>4. ASSUME NEW s \in Session, Reindexes(s) PROVE Places'
  <2>1. CASE RemoveSidecar(s) \/ ListItems(s) \/ CommitReindex(s)
    BY <1>0, <2>1 DEF RemoveSidecar, ListItems, CommitReindex, GoTo, Places, Indexes, Hooked, Calling
  <2>2. CASE ResetVectors(s) \/ EmbedItems(s)
    BY <1>0, <2>2 DEF ResetVectors, EmbedItems, GoTo, Places, Indexes, Hooked, Calling
  <2>3. CASE \E i \in Items, ok \in BOOLEAN : ReadItem(s, i, ok)
    BY <1>0, <2>3 DEF ReadItem, Places, Indexes, Hooked, Calling
  <2>4. QED BY <1>4, <2>1, <2>2, <2>3 DEF Reindexes
<1>5. ASSUME NEW i \in Items, NEW scope \in Scope, SetScope(i, scope) PROVE Places'
  BY <1>5 DEF SetScope, session_vars, Places, Indexes
<1>6. CASE UNCHANGED sync_vars
  BY <1>6 DEF sync_vars, session_vars, Places, Indexes
<1>7. QED BY <1>1, <1>2, <1>3, <1>4, <1>5, <1>6, StepKinds

\* Only the holder of the lock gives it back, unless a directory is removed
\* under it.
LEMMA NextLocked ==
    SyncTypeOK /\ Places /\ WriterLocked /\ [SyncNext]_sync_vars => WriterLocked'
<1> SUFFICES ASSUME SyncTypeOK, Places, WriterLocked, [SyncNext]_sync_vars, ~split'
             PROVE  \A r \in Session : Indexes(r)' \/ at'[r] \in {"list", "read"}
                                            => tantivy_lock' = r
  BY DEF WriterLocked
<1>0. /\ DOMAIN at = Session /\ DOMAIN hooks = Session /\ Nobody \notin Session
      /\ \A s \in Session : at[s] \in {"list", "read"} => hooks[s] = {}
  BY SyncAssumption DEF SyncTypeOK, Places, Hooked, Calling
<1>1. ASSUME NEW s \in Session, Walks(s) PROVE ~split /\ \A r \in Session :
             Indexes(r)' \/ at'[r] \in {"list", "read"} => tantivy_lock' = r
  BY <1>0, <1>1, WalkSteps DEF WriterLocked, Indexes
<1>2. ASSUME NEW s \in Session, Departs(s) PROVE ~split /\ \A r \in Session :
             Indexes(r)' \/ at'[r] \in {"list", "read"} => tantivy_lock' = r
  BY <1>0, <1>2, DepartSteps DEF WriterLocked, Indexes
<1>3. ASSUME NEW s \in Session, CallRuns(s) PROVE ~split /\ \A r \in Session :
             Indexes(r)' \/ at'[r] \in {"list", "read"} => tantivy_lock' = r
  <2>1. /\ UNCHANGED <<hooks, tantivy_lock, split>>
        /\ at' = at \/ \E place \in {"add", "ready", "commit", "commit_vectors"} :
                          at' = [at EXCEPT ![s] = place]
    BY <1>3 DEF CallRuns, Ingest, AddToHooks, CommitLexical, CommitVectors, GoTo, sidecar_vars
  <2>2. QED BY <1>0, <2>1 DEF WriterLocked, Indexes
<1>4. ASSUME NEW s \in Session, Reindexes(s) PROVE ~split /\ \A r \in Session :
             Indexes(r)' \/ at'[r] \in {"list", "read"} => tantivy_lock' = r
  <2>1. CASE RemoveSidecar(s)
    BY <1>0, <2>1 DEF RemoveSidecar, GoTo, WriterLocked, Indexes
  <2>2. CASE ListItems(s) \/ CommitReindex(s)
    BY <1>0, <2>2 DEF ListItems, CommitReindex, sidecar_vars, GoTo, WriterLocked, Indexes
  <2>3. CASE ResetVectors(s) \/ EmbedItems(s)
    <3>1. ~split /\ UNCHANGED <<hooks, tantivy_lock>>
      <4>1. CASE ResetVectors(s)
        BY <4>1 DEF ResetVectors
      <4>2. CASE EmbedItems(s)
        BY <4>2 DEF EmbedItems, sync_history
      <4>3. QED BY <2>3, <4>1, <4>2
    <3>2. at' = [at EXCEPT ![s] = "reset"] \/ at' = [at EXCEPT ![s] = "embedded"]
      BY <2>3 DEF ResetVectors, EmbedItems, GoTo
    <3>3. QED BY <1>0, <3>1, <3>2 DEF WriterLocked, Indexes
  <2>4. CASE \E i \in Items, ok \in BOOLEAN : ReadItem(s, i, ok)
    <3>1. UNCHANGED <<at, hooks, tantivy_lock, split>>
      BY <2>4 DEF ReadItem, sidecar_vars
    <3>2. QED BY <3>1 DEF WriterLocked, Indexes
  <2>5. QED BY <1>4, <2>1, <2>2, <2>3, <2>4 DEF Reindexes
<1>5. ASSUME NEW i \in Items, NEW scope \in Scope, SetScope(i, scope) PROVE \A r \in Session :
             Indexes(r)' \/ at'[r] \in {"list", "read"} => tantivy_lock' = r
  BY <1>5 DEF SetScope, session_vars, sidecar_vars, WriterLocked, Indexes
<1>6. CASE UNCHANGED sync_vars
  BY <1>6 DEF sync_vars, session_vars, sidecar_vars, sync_history, WriterLocked, Indexes
<1>7. QED BY <1>1, <1>2, <1>3, <1>4, <1>5, <1>6, StepKinds

(***************************************************************************)
(* Only committed items are anywhere.                                      *)
(***************************************************************************)
LEMMA NumbersFacts ==
    /\ Numbers({}) = {}
    /\ \A a, b : Numbers(a \cup b) = Numbers(a) \cup Numbers(b)
    /\ \A a : \A b \in SUBSET a : Numbers(b) \subseteq Numbers(a)
    /\ \A a, i, scope : Numbers(a \cup {<<i, scope>>}) = Numbers(a) \cup {i}
<1>1. /\ Numbers({}) = {}
      /\ \A a, b : Numbers(a \cup b) = Numbers(a) \cup Numbers(b)
      /\ \A a : \A b \in SUBSET a : Numbers(b) \subseteq Numbers(a)
  BY DEF Numbers
<1>2. ASSUME NEW a, NEW i, NEW scope
      PROVE  Numbers(a \cup {<<i, scope>>}) = Numbers(a) \cup {i}
  <2>1. <<i, scope>>[1] = i
    OBVIOUS
  <2>2. Numbers({<<i, scope>>}) = {<<i, scope>>[1]}
    BY Zenon DEF Numbers
  <2>3. Numbers(a \cup {<<i, scope>>}) = Numbers(a) \cup Numbers({<<i, scope>>})
    BY <1>1
  <2>4. QED BY <2>1, <2>2, <2>3
<1>3. QED BY <1>1, <1>2

LEMMA NextKnown == SyncTypeOK /\ Places /\ KnownItems /\ [SyncNext]_sync_vars => KnownItems'
<1> SUFFICES ASSUME SyncTypeOK, Places, KnownItems, [SyncNext]_sync_vars PROVE KnownItems'
  OBVIOUS
<1>0. /\ DOMAIN queued = Session /\ DOMAIN fresh = Session /\ DOMAIN embedded = Session
      /\ DOMAIN listed = Session
  BY DEF SyncTypeOK
<1>a. /\ LexicalItems \subseteq Items /\ semantic \subseteq Items
      /\ \A r \in Session : /\ Numbers(queued[r]) \subseteq Items /\ Numbers(fresh[r]) \subseteq Items
                            /\ embedded[r] \subseteq Items /\ listed[r] \subseteq Items
  BY DEF KnownItems
\* It is enough to look at the items a step adds to what one session has.
<1>b. ASSUME Items \subseteq Items', LexicalItems' \subseteq Items', semantic' \subseteq Items',
             NEW s \in Session,
             Numbers(queued[s])' \subseteq Items', Numbers(fresh[s])' \subseteq Items',
             embedded'[s] \subseteq Items', listed'[s] \subseteq Items',
             \A r \in Session : r # s =>
                /\ queued'[r] = queued[r] /\ fresh'[r] = fresh[r] /\ embedded'[r] = embedded[r]
                /\ listed'[r] = listed[r]
      PROVE  KnownItems'
  BY <1>a, <1>b DEF KnownItems, Numbers
<1>1. ASSUME NEW s \in Session, Walks(s) PROVE KnownItems'
  BY <1>1, WalkSteps DEF KnownItems, LexicalItems, Numbers, Items
<1>2. ASSUME NEW s \in Session, Departs(s) PROVE KnownItems'
  <2>1. /\ UNCHANGED <<items, lexical>> /\ semantic' \subseteq semantic \cup embedded[s]
        /\ queued' = [queued EXCEPT ![s] = {}] /\ fresh' = [fresh EXCEPT ![s] = {}]
        /\ embedded' = [embedded EXCEPT ![s] = {}] /\ listed' = [listed EXCEPT ![s] = {}]
    BY <1>2, DepartSteps
  <2>2. Items' = Items /\ LexicalItems' = LexicalItems
    BY <2>1 DEF Items, LexicalItems, Numbers
  <2>3. QED BY <1>0, <1>a, <1>b, <2>1, <2>2, NumbersFacts
<1>3. ASSUME NEW s \in Session, NEW call \in Calls, Ingest(s, call[1], call[2]) PROVE KnownItems'
  <2> DEFINE docs == {<<Len(items) + n, call[1][n]>> : n \in 1 .. Len(call[1])}
  <2>1. Items \subseteq Items' /\ Numbers(docs) \subseteq Items'
    <3>1. Numbers(docs) = (Len(items) + 1) .. Len(items') /\ Items \subseteq Items'
      BY <1>3, NewItems
    <3>2. Len(items) \in Nat /\ Len(items') \in Nat /\ Items' = 1 .. Len(items')
      BY <1>3, NewItems, SMTT(30) DEF SyncTypeOK, Items
    <3>3. (Len(items) + 1) .. Len(items') \subseteq Items'
      BY <3>2
    <3>4. QED BY <3>1, <3>3, Zenon
  <2>2. fresh' = fresh \/ fresh' = [fresh EXCEPT ![s] = docs]
    BY <1>3 DEF Ingest
  <2>3. UNCHANGED <<lexical, semantic, queued, embedded, listed>> /\ LexicalItems' = LexicalItems
    BY <1>3 DEF Ingest, sidecar_vars, LexicalItems
  <2>4. Numbers(fresh[s])' \subseteq Items'
    BY <1>0, <1>a, <2>1, <2>2
  <2>5. QED BY <1>0, <1>a, <1>b, <2>1, <2>2, <2>3, <2>4
<1>4. ASSUME NEW s \in Session, NEW docs \in SUBSET fresh[s], NEW embeds \in SUBSET fresh[s],
             AddToHooks(s, docs, embeds)
      PROVE  KnownItems'
  <2>1. Numbers(docs) \subseteq Items /\ Numbers(embeds) \subseteq Items
    BY <1>a, NumbersFacts
  <2>2. /\ queued' = [queued EXCEPT ![s] = @ \cup docs]
        /\ embedded' = [embedded EXCEPT ![s] = @ \cup Numbers(embeds)]
        /\ fresh' = fresh \/ fresh' = [fresh EXCEPT ![s] = {}]
        /\ UNCHANGED <<items, lexical, semantic, listed>>
    BY <1>4 DEF AddToHooks, store_vars, sidecar_vars
  <2>3. Items' = Items /\ LexicalItems' = LexicalItems
    BY <2>2 DEF Items, LexicalItems, Numbers
  <2>4. Numbers(queued[s])' \subseteq Items /\ Numbers(fresh[s])' \subseteq Items
    BY <1>0, <1>a, <2>1, <2>2, NumbersFacts
  <2>5. QED BY <1>0, <1>a, <1>b, <2>1, <2>2, <2>3, <2>4
<1>5. ASSUME NEW s \in Session, NEW ok \in BOOLEAN, CommitLexical(s, ok) PROVE KnownItems'
  <2>1. /\ \/ lexical' = lexical \cup queued[s] /\ queued' = [queued EXCEPT ![s] = {}]
           \/ UNCHANGED <<lexical, queued>>
        /\ UNCHANGED <<items, semantic, fresh, embedded, listed>>
    BY <1>5 DEF CommitLexical, store_vars
  <2>2. Items' = Items /\ LexicalItems' \subseteq Items /\ Numbers(queued[s])' \subseteq Items
    BY <1>0, <1>a, <2>1, NumbersFacts DEF Items, LexicalItems
  <2>3. QED BY <1>0, <1>a, <1>b, <2>1, <2>2
<1>6. ASSUME NEW s \in Session, NEW ok \in BOOLEAN, CommitVectors(s, ok) PROVE KnownItems'
  <2>1. /\ \/ semantic' = semantic \cup embedded[s] /\ embedded' = [embedded EXCEPT ![s] = {}]
           \/ UNCHANGED <<semantic, embedded>>
        /\ UNCHANGED <<items, lexical, queued, listed>> /\ fresh' = [fresh EXCEPT ![s] = {}]
    BY <1>6 DEF CommitVectors, store_vars
  <2>2. Items' = Items /\ LexicalItems' = LexicalItems /\ Numbers(fresh[s])' \subseteq Items
    BY <1>0, <2>1, NumbersFacts DEF Items, LexicalItems
  <2>3. QED BY <1>0, <1>a, <1>b, <2>1, <2>2
<1>7. ASSUME NEW s \in Session, RemoveSidecar(s) \/ ResetVectors(s) PROVE KnownItems'
  <2>1. /\ lexical' = {} \/ lexical' = lexical
        /\ semantic' = {} \/ semantic' = semantic
        /\ UNCHANGED <<items, queued, fresh, embedded, listed>>
    BY <1>7 DEF RemoveSidecar, ResetVectors, store_vars
  <2>2. Items' = Items /\ LexicalItems' \subseteq Items
    BY <1>a, <2>1, NumbersFacts DEF Items, LexicalItems
  <2>3. QED BY <1>a, <1>b, <2>1, <2>2
<1>8. ASSUME NEW s \in Session, ListItems(s) \/ EmbedItems(s) PROVE KnownItems'
  <2>1. /\ listed' = [listed EXCEPT ![s] = Items] \/ UNCHANGED listed
        /\ embedded' = [embedded EXCEPT ![s] = Items] \/ UNCHANGED embedded
        /\ UNCHANGED <<items, lexical, semantic, queued, fresh>>
    BY <1>8 DEF ListItems, EmbedItems, store_vars, sidecar_vars
  <2>2. Items' = Items /\ LexicalItems' = LexicalItems
    BY <2>1 DEF Items, LexicalItems
  <2>3. QED BY <1>0, <1>a, <1>b, <2>1, <2>2
<1>9. ASSUME NEW s \in Session, CommitReindex(s) PROVE KnownItems'
  <2>1. /\ lexical' = queued[s] /\ queued' = [queued EXCEPT ![s] = {}]
        /\ UNCHANGED <<items, semantic, fresh, embedded, listed>>
    BY <1>9 DEF CommitReindex, store_vars
  <2>2. Items' = Items /\ LexicalItems' \subseteq Items /\ Numbers(queued[s])' \subseteq Items
    BY <1>0, <1>a, <2>1, NumbersFacts DEF Items, LexicalItems
  <2>3. QED BY <1>0, <1>a, <1>b, <2>1, <2>2
<1>10. ASSUME NEW s \in Session, NEW i \in Items, NEW ok \in BOOLEAN, ReadItem(s, i, ok)
       PROVE  KnownItems'
  <2>1. /\ queued' = [queued EXCEPT ![s] = @ \cup {<<i, items[i]>>}] \/ UNCHANGED queued
        /\ listed' = [listed EXCEPT ![s] = @ \ {i}]
        /\ UNCHANGED <<items, lexical, semantic, fresh, embedded>>
    BY <1>10 DEF ReadItem, store_vars, sidecar_vars
  <2>2. Items' = Items /\ LexicalItems' = LexicalItems
    BY <2>1 DEF Items, LexicalItems
  <2>3. Numbers(queued[s])' \subseteq Items
    <3>1. Numbers(queued[s] \cup {<<i, items[i]>>}) = Numbers(queued[s]) \cup {i}
      BY NumbersFacts
    <3>2. QED BY <1>0, <1>a, <2>1, <3>1
  <2>4. QED BY <1>0, <1>a, <1>b, <2>1, <2>2, <2>3
<1>11. ASSUME NEW i \in Items, NEW scope \in Scope, SetScope(i, scope) PROVE KnownItems'
  <2>1. Items' = Items
    BY <1>11, ExceptSeq DEF SetScope, SyncTypeOK, Items
  <2>2. UNCHANGED <<lexical, semantic, queued, fresh, embedded, listed>>
    BY <1>11 DEF SetScope, sidecar_vars, session_vars
  <2>3. QED BY <2>1, <2>2 DEF KnownItems, LexicalItems
<1>12. CASE UNCHANGED sync_vars
  BY <1>12 DEF sync_vars, store_vars, sidecar_vars, session_vars, KnownItems, LexicalItems, Items
<1>13. QED BY <1>1, <1>2, <1>3, <1>4, <1>5, <1>6, <1>7, <1>8, <1>9, <1>10, <1>11, <1>12,
              StepKinds DEF CallRuns, Reindexes

(***************************************************************************)
(* Scopes.                                                                 *)
(***************************************************************************)
\* Only the session that has the lock has documents to write.
LEMMA OneWriter ==
    ASSUME SyncTypeOK, Places, WriterLocked, ~split, NEW s \in Session, NEW r \in Session, r # s,
           Indexes(s) \/ at[s] \in {"list", "read"}
    PROVE  ~Indexes(r) /\ at[r] \notin {"list", "read"} /\ queued[r] = {}
BY DEF WriterLocked, Places

LEMMA NextScopes ==
    SyncTypeOK /\ Places /\ WriterLocked /\ KnownItems /\ ~split /\ Scopes /\ [SyncNext]_sync_vars
        => Scopes'
<1> SUFFICES ASSUME SyncTypeOK, Places, WriterLocked, KnownItems, ~split, Scopes,
                    [SyncNext]_sync_vars
             PROVE  Scopes'
  OBVIOUS
<1>0. /\ DOMAIN queued = Session /\ DOMAIN fresh = Session /\ DOMAIN at = Session
      /\ DOMAIN hooks = Session /\ DOMAIN stirred = Session
  BY DEF SyncTypeOK
<1> DEFINE Fits(doc) == doc[1] \in moved \/ UpToDate(doc)
<1>a. /\ \A doc \in lexical : Fits(doc)
      /\ \A r \in Session : /\ \A doc \in queued[r] : Fits(doc)
                            /\ Indexes(r) => \A doc \in fresh[r] : Fits(doc)
                            /\ at[r] = "read" => \A doc \in queued[r] : doc[1] \in stirred[r] \/ UpToDate(doc)
  BY DEF Scopes
\* It is enough to look at what a step that moves no item adds to one session.
<1>b. ASSUME UNCHANGED <<items, moved>>, NEW s \in Session,
             \A doc \in lexical' : Fits(doc), \A doc \in queued'[s] : Fits(doc),
             Indexes(s)' => \A doc \in fresh'[s] : Fits(doc),
             at'[s] = "read" => \A doc \in queued'[s] : doc[1] \in stirred'[s] \/ UpToDate(doc),
             \A r \in Session : r # s =>
                /\ queued'[r] = queued[r] /\ fresh'[r] = fresh[r] /\ stirred'[r] = stirred[r]
                /\ at'[r] = at[r] /\ hooks'[r] = hooks[r]
      PROVE  Scopes'
  BY <1>a, <1>b DEF Scopes, UpToDate, Indexes
<1>1. ASSUME NEW s \in Session, Walks(s) PROVE Scopes'
  <2>1. /\ UNCHANGED <<items, moved, lexical, queued, fresh, stirred>>
        /\ \A r \in Session : r # s => at'[r] = at[r] /\ hooks'[r] = hooks[r]
        /\ at'[s] # "read" /\ fresh[s] = {}
    BY <1>1, WalkSteps
  <2>2. QED BY <1>a, <1>b, <2>1
<1>2. ASSUME NEW s \in Session, Departs(s) PROVE Scopes'
  <2>1. /\ UNCHANGED <<items, moved, lexical>>
        /\ queued' = [queued EXCEPT ![s] = {}] /\ fresh' = [fresh EXCEPT ![s] = {}]
        /\ stirred' = [stirred EXCEPT ![s] = {}] /\ at' = [at EXCEPT ![s] = "ended"]
        /\ hooks' = [hooks EXCEPT ![s] = {}]
    BY <1>2, DepartSteps
  <2>2. QED BY <1>0, <1>a, <1>b, <2>1
<1>3. ASSUME NEW s \in Session, NEW call \in Calls, Ingest(s, call[1], call[2]) PROVE Scopes'
  <2> DEFINE docs == {<<Len(items) + n, call[1][n]>> : n \in 1 .. Len(call[1])}
  <2>1. /\ \A doc \in docs : doc[2] = items'[doc[1]]
        /\ \A i \in Items : items'[i] = items[i]
    BY <1>3, NewItems
  <2>2. /\ fresh' = fresh \/ fresh' = [fresh EXCEPT ![s] = docs]
        /\ at' = at \/ at' = [at EXCEPT ![s] = "add"]
        /\ UNCHANGED <<moved, lexical, queued, stirred, hooks>>
    BY <1>3 DEF Ingest, GoTo, sidecar_vars
  <2>3. \A doc : doc[1] \in Items /\ UpToDate(doc) => UpToDate(doc)'
    BY <2>1 DEF UpToDate
  <2>4. /\ \A doc \in lexical : doc[1] \in Items
        /\ \A r \in Session : \A doc \in queued[r] \cup fresh[r] : doc[1] \in Items
    BY DEF KnownItems, LexicalItems, Numbers
  <2>5. \A r \in Session : /\ at'[r] = "read" => at[r] = "read"
                           /\ fresh'[r] = fresh[r] \/ fresh'[r] = docs
    BY <1>0, <2>2
  <2>6. \A doc \in docs : UpToDate(doc)'
    BY <2>1 DEF UpToDate
  <2>7. ASSUME NEW r \in Session PROVE
           /\ \A doc \in queued[r] : doc[1] \in moved' \/ UpToDate(doc)'
           /\ Indexes(r) => \A doc \in fresh'[r] : doc[1] \in moved' \/ UpToDate(doc)'
           /\ at'[r] = "read" => \A doc \in queued[r] : doc[1] \in stirred[r] \/ UpToDate(doc)'
    BY <1>a, <2>2, <2>3, <2>4, <2>5, <2>6
  <2>8. \A doc \in lexical : doc[1] \in moved' \/ UpToDate(doc)'
    BY <1>a, <2>2, <2>3, <2>4
  <2>9. QED BY <2>2, <2>7, <2>8 DEF Scopes, Indexes
<1>4. ASSUME NEW s \in Session, NEW docs \in SUBSET fresh[s], NEW embeds \in SUBSET fresh[s],
             AddToHooks(s, docs, embeds)
      PROVE  Scopes'
  <2>1. docs # {} => Indexes(s)
    BY <1>4 DEF AddToHooks, Takes, Indexes
  <2>2. /\ queued' = [queued EXCEPT ![s] = @ \cup docs]
        /\ fresh' = fresh \/ fresh' = [fresh EXCEPT ![s] = {}]
        /\ UNCHANGED <<items, lexical, moved, stirred, hooks>>
    BY <1>4 DEF AddToHooks, store_vars, sidecar_vars
  <2>3. at' = [at EXCEPT ![s] = "commit"] \/ at' = [at EXCEPT ![s] = "ready"]
    BY <1>4 DEF AddToHooks, GoTo
  <2>4. /\ \A doc \in queued'[s] : Fits(doc)
        /\ Indexes(s)' => \A doc \in fresh'[s] : Fits(doc)
    BY <1>0, <1>a, <2>1, <2>2 DEF Indexes
  <2>5. QED BY <1>0, <1>a, <1>b, <2>2, <2>3, <2>4
<1>5. ASSUME NEW s \in Session, NEW ok \in BOOLEAN, CommitLexical(s, ok) PROVE Scopes'
  <2>1. /\ \/ lexical' = lexical \cup queued[s] /\ queued' = [queued EXCEPT ![s] = {}]
           \/ UNCHANGED <<lexical, queued>>
        /\ UNCHANGED <<items, fresh, moved, stirred, hooks>>
        /\ at' = [at EXCEPT ![s] = "commit_vectors"]
    BY <1>5 DEF CommitLexical, GoTo, store_vars
  <2>2. /\ \A doc \in lexical' : Fits(doc)
        /\ \A doc \in queued'[s] : Fits(doc)
        /\ Indexes(s)' => \A doc \in fresh'[s] : Fits(doc)
    BY <1>0, <1>a, <2>1 DEF Indexes
  <2>3. QED BY <1>0, <1>b, <2>1, <2>2
<1>6. ASSUME NEW s \in Session, NEW ok \in BOOLEAN, CommitVectors(s, ok) PROVE Scopes'
  <2>1. /\ UNCHANGED <<items, lexical, queued, moved, stirred, hooks>>
        /\ fresh' = [fresh EXCEPT ![s] = {}] /\ at' = [at EXCEPT ![s] = "ready"]
    BY <1>6 DEF CommitVectors, GoTo, store_vars
  <2>2. QED BY <1>0, <1>a, <1>b, <2>1
<1>7. ASSUME NEW s \in Session, RemoveSidecar(s) \/ ResetVectors(s) \/ EmbedItems(s) PROVE Scopes'
  <2>1. /\ lexical' = {} \/ lexical' = lexical
        /\ UNCHANGED <<items, queued, fresh, moved, stirred, hooks>>
    BY <1>7 DEF RemoveSidecar, ResetVectors, EmbedItems, store_vars, sync_history
  <2>2. \E place \in {"reopen", "reset", "embedded"} : at' = [at EXCEPT ![s] = place]
    BY <1>7 DEF RemoveSidecar, ResetVectors, EmbedItems, GoTo
  <2>3. Indexes(s)' => \A doc \in fresh'[s] : Fits(doc)
    BY <1>a, <2>1 DEF Indexes
  <2>4. QED BY <1>0, <1>a, <1>b, <2>1, <2>2, <2>3
<1>8. ASSUME NEW s \in Session, ListItems(s) PROVE Scopes'
  <2>1. /\ UNCHANGED <<items, lexical, queued, fresh, moved, stirred, hooks>>
        /\ at' = [at EXCEPT ![s] = "read"] /\ at[s] = "list"
    BY <1>8 DEF ListItems, GoTo, store_vars, sidecar_vars
  <2>2. queued[s] = {} /\ fresh[s] = {}
    BY <2>1 DEF Places, Indexes, Hooked, Calling
  <2>3. QED BY <1>0, <1>a, <1>b, <2>1, <2>2
<1>9. ASSUME NEW s \in Session, CommitReindex(s) PROVE Scopes'
  <2>1. /\ lexical' = queued[s] /\ queued' = [queued EXCEPT ![s] = {}]
        /\ moved' = moved \ (Numbers(queued[s]) \ stirred[s])
        /\ stirred' = [stirred EXCEPT ![s] = {}] /\ UNCHANGED <<items, fresh, hooks>>
        /\ at' = [at EXCEPT ![s] = "reindexed"] /\ at[s] = "read"
    BY <1>9 DEF CommitReindex, GoTo, store_vars
  <2>2. \A doc : UpToDate(doc)' <=> UpToDate(doc)
    BY <2>1 DEF UpToDate
  <2>3. \A doc \in lexical' : doc[1] \in moved' \/ UpToDate(doc)'
    BY <1>a, <2>1, <2>2
  <2>4. \A r \in Session : queued'[r] = {} /\ at'[r] # "read" /\ ~Indexes(r)'
    <3>1. \A r \in Session : r # s => queued[r] = {} /\ at[r] # "read" /\ ~Indexes(r)
      BY <2>1, OneWriter
    <3>2. ~Indexes(s)
      BY <2>1 DEF Places, Indexes, Hooked, Calling
    <3>3. QED BY <1>0, <2>1, <3>1, <3>2 DEF Indexes
  <2>5. QED BY <2>3, <2>4 DEF Scopes
<1>10. ASSUME NEW s \in Session, NEW i \in Items, NEW ok \in BOOLEAN, ReadItem(s, i, ok)
       PROVE  Scopes'
  <2>1. /\ queued' = [queued EXCEPT ![s] = @ \cup {<<i, items[i]>>}] \/ UNCHANGED queued
        /\ UNCHANGED <<items, lexical, fresh, moved, stirred, hooks, at>> /\ at[s] = "read"
    BY <1>10 DEF ReadItem, store_vars, sidecar_vars
  <2>2. UpToDate(<<i, items[i]>>)
    BY DEF UpToDate
  <2>3. /\ \A doc \in queued'[s] : Fits(doc)
        /\ \A doc \in queued'[s] : doc[1] \in stirred'[s] \/ UpToDate(doc)
    BY <1>0, <1>a, <2>1, <2>2
  <2>4. Indexes(s)' => \A doc \in fresh'[s] : Fits(doc)
    BY <1>a, <2>1 DEF Indexes
  <2>5. QED BY <1>0, <1>a, <1>b, <2>1, <2>3, <2>4
<1>11. ASSUME NEW i \in Items, NEW scope \in Scope, SetScope(i, scope) PROVE Scopes'
  <2>1. /\ items' = [items EXCEPT ![i] = scope]
        /\ moved' = moved \cup ({i} \cap (LexicalItems
                          \cup UNION {Numbers(queued[r] \cup fresh[r]) : r \in Session}))
        /\ stirred' = [r \in Session |->
                     IF at[r] = "read" THEN stirred[r] \cup ({i} \cap Numbers(queued[r]))
                     ELSE stirred[r]]
        /\ UNCHANGED <<lexical, queued, fresh, at, hooks>>
    BY <1>11 DEF SetScope, sidecar_vars, session_vars
  <2>2. DOMAIN items = Items
    BY DEF SyncTypeOK, Items
  <2>3. \A doc : doc[1] # i /\ doc[1] \in Items /\ UpToDate(doc) => UpToDate(doc)'
    BY <2>1, <2>2 DEF UpToDate
  <2>4. \A doc \in lexical : doc[1] \in Items /\ doc[1] \in LexicalItems
    BY DEF KnownItems, LexicalItems, Numbers
  <2>5. ASSUME NEW r \in Session, NEW doc \in queued[r] \cup fresh[r]
        PROVE  doc[1] \in Items /\ doc[1] \in Numbers(queued[r] \cup fresh[r])
    BY DEF KnownItems, Numbers
  <2>6. ASSUME NEW r \in Session, NEW doc \in queued[r] \cup fresh[r]
        PROVE  doc[1] = i => doc[1] \in moved'
    BY <2>1, <2>5
  <2>7. ASSUME NEW r \in Session, at[r] = "read", NEW doc \in queued[r]
        PROVE  doc[1] \in stirred'[r] \/ UpToDate(doc)'
    <3>1. doc[1] \in Numbers(queued[r]) /\ doc[1] \in Items
      BY <2>5 DEF Numbers
    <3>2. QED BY <1>a, <2>1, <2>3, <2>7, <3>1
  <2>8. moved \subseteq moved' /\ \A doc \in lexical : doc[1] = i => doc[1] \in moved'
    BY <2>1, <2>4
  <2>9. QED BY <1>a, <2>1, <2>3, <2>4, <2>5, <2>6, <2>7, <2>8 DEF Scopes, Indexes
<1>12. CASE UNCHANGED sync_vars
  BY <1>12 DEF sync_vars, store_vars, sidecar_vars, session_vars, sync_history, Scopes, UpToDate,
               Indexes
<1>13. QED BY <1>1, <1>2, <1>3, <1>4, <1>5, <1>6, <1>7, <1>8, <1>9, <1>10, <1>11, <1>12,
              StepKinds DEF CallRuns, Reindexes

(***************************************************************************)
(* One document for an item.                                               *)
(***************************************************************************)
LEMMA SingleFacts ==
    /\ Single({})
    /\ \A a, b : Single(a) /\ Single(b) /\ Numbers(a) \cap Numbers(b) = {} => Single(a \cup b)
    /\ \A a : \A b \in SUBSET a : Single(a) => Single(b)
    /\ \A a, i, scope : Single(a) /\ i \notin Numbers(a) => Single(a \cup {<<i, scope>>})
<1>1. \A a, b : Single(a) /\ Single(b) /\ Numbers(a) \cap Numbers(b) = {} => Single(a \cup b)
  BY DEF Single, Numbers
<1>2. ASSUME NEW a, NEW i, NEW scope, Single(a), i \notin Numbers(a)
      PROVE  Single(a \cup {<<i, scope>>})
  <2>1. <<i, scope>>[1] = i
    OBVIOUS
  <2>2. Numbers(a) \cap Numbers({<<i, scope>>}) = {}
    BY <1>2, <2>1 DEF Numbers
  <2>3. Single({<<i, scope>>})
    BY DEF Single
  <2>4. QED BY <1>1, <1>2, <2>2, <2>3
<1>3. QED BY <1>1, <1>2 DEF Single

LEMMA NextOnce ==
    SyncTypeOK /\ Places /\ WriterLocked /\ KnownItems /\ ~split /\ Once /\ [SyncNext]_sync_vars
        => Once'
<1> SUFFICES ASSUME SyncTypeOK, Places, WriterLocked, KnownItems, ~split, Once,
                    [SyncNext]_sync_vars
             PROVE  Once'
  OBVIOUS
<1>0. /\ DOMAIN queued = Session /\ DOMAIN fresh = Session /\ DOMAIN at = Session
      /\ DOMAIN hooks = Session /\ DOMAIN listed = Session
  BY DEF SyncTypeOK
<1> DEFINE OnceIn(r) ==
       /\ Single(queued[r]) /\ Single(fresh[r])
       /\ Indexes(r) => Numbers(queued[r]) \cap LexicalItems = {}
       /\ Indexes(r) /\ at[r] = "add" =>
             Numbers(fresh[r]) \cap (LexicalItems \cup Numbers(queued[r])) = {}
       /\ at[r] = "read" => listed[r] \cap Numbers(queued[r]) = {}
<1>a. Single(lexical) /\ \A r \in Session : OnceIn(r)
  BY DEF Once
\* It is enough to look at the session that moves, and at what it does to the
\* sidecar under those that have its member.
<1>b. ASSUME NEW s \in Session, Single(lexical'), OnceIn(s)',
             \A r \in Session : r # s =>
                /\ queued'[r] = queued[r] /\ fresh'[r] = fresh[r] /\ listed'[r] = listed[r]
                /\ at'[r] = at[r] /\ hooks'[r] = hooks[r],
             lexical' \in {lexical, {}} \/ \A r \in Session : r # s => ~Indexes(r)
      PROVE  Once'
  <2>1. ASSUME NEW r \in Session, r # s PROVE OnceIn(r)'
    <3>1. /\ queued'[r] = queued[r] /\ fresh'[r] = fresh[r] /\ listed'[r] = listed[r]
          /\ at'[r] = at[r] /\ hooks'[r] = hooks[r] /\ OnceIn(r)
      BY <1>a, <1>b, <2>1
    <3>2. Indexes(r) => LexicalItems' \subseteq LexicalItems
      BY <1>b, <2>1, NumbersFacts DEF LexicalItems
    <3>3. QED BY <3>1, <3>2 DEF Indexes, Numbers
  <2>2. QED BY <1>b, <2>1 DEF Once
<1>1. ASSUME NEW s \in Session, Walks(s) PROVE Once'
  <2>1. /\ UNCHANGED <<lexical, queued, fresh, listed>> /\ fresh[s] = {}
        /\ \A r \in Session : r # s => at'[r] = at[r] /\ hooks'[r] = hooks[r]
        /\ at'[s] \notin {"add", "read"} /\ (Indexes(s)' => Indexes(s) \/ queued[s] = {})
    BY <1>1, WalkSteps DEF Calling
  <2>2. OnceIn(s)'
    BY <1>a, <2>1, NumbersFacts DEF LexicalItems, Numbers
  <2>3. QED BY <1>a, <1>b, <2>1, <2>2
<1>2. ASSUME NEW s \in Session, Departs(s) PROVE Once'
  <2>1. /\ lexical' = lexical /\ queued' = [queued EXCEPT ![s] = {}]
        /\ fresh' = [fresh EXCEPT ![s] = {}] /\ listed' = [listed EXCEPT ![s] = {}]
        /\ at' = [at EXCEPT ![s] = "ended"] /\ hooks' = [hooks EXCEPT ![s] = {}]
    BY <1>2, DepartSteps
  <2>2. OnceIn(s)'
    BY <1>0, <2>1, SingleFacts DEF Indexes
  <2>3. QED BY <1>0, <1>a, <1>b, <2>1, <2>2
<1>3. ASSUME NEW s \in Session, NEW call \in Calls, Ingest(s, call[1], call[2]) PROVE Once'
  <2> DEFINE docs == {<<Len(items) + n, call[1][n]>> : n \in 1 .. Len(call[1])}
  <2>1. Single(docs) /\ Numbers(docs) \cap Items = {}
    <3>1. Single(docs) /\ Numbers(docs) = (Len(items) + 1) .. Len(items')
      BY <1>3, NewItems
    <3>2. ((Len(items) + 1) .. Len(items')) \cap Items = {}
      BY DEF SyncTypeOK, Items
    <3>3. QED BY <3>1, <3>2, Zenon
  <2>2. /\ \/ fresh' = fresh /\ at' = at
           \/ fresh' = [fresh EXCEPT ![s] = docs] /\ at' = [at EXCEPT ![s] = "add"]
        /\ UNCHANGED <<lexical, queued, listed, hooks>>
    BY <1>3 DEF Ingest, GoTo, sidecar_vars
  <2>3. LexicalItems \cup Numbers(queued[s]) \subseteq Items
    BY DEF KnownItems
  <2>4. /\ Single(fresh'[s]) /\ LexicalItems' = LexicalItems
        /\ \/ at'[s] = at[s] /\ fresh'[s] = fresh[s]
           \/ at'[s] = "add" /\ Numbers(fresh'[s]) \cap Items = {}
    BY <1>0, <1>a, <2>1, <2>2 DEF LexicalItems
  <2>5. OnceIn(s)'
    BY <1>a, <2>2, <2>3, <2>4 DEF Indexes, Numbers
  <2>6. QED BY <1>0, <1>a, <1>b, <2>2, <2>5
<1>4. ASSUME NEW s \in Session, NEW docs \in SUBSET fresh[s], NEW embeds \in SUBSET fresh[s],
             AddToHooks(s, docs, embeds)
      PROVE  Once'
  <2>1. docs # {} => Indexes(s)
    BY <1>4 DEF AddToHooks, Takes, Indexes
  <2>2. /\ queued' = [queued EXCEPT ![s] = @ \cup docs] /\ at[s] = "add"
        /\ fresh' = fresh \/ fresh' = [fresh EXCEPT ![s] = {}]
        /\ UNCHANGED <<lexical, listed, hooks>>
    BY <1>4 DEF AddToHooks, sidecar_vars
  <2>3. at' = [at EXCEPT ![s] = "commit"] \/ at' = [at EXCEPT ![s] = "ready"]
    BY <1>4 DEF AddToHooks, GoTo
  <2>4. /\ LexicalItems' = LexicalItems /\ queued'[s] = queued[s] \cup docs
        /\ fresh'[s] \in {fresh[s], {}} /\ at'[s] \in {"commit", "ready"}
    BY <1>0, <2>2, <2>3 DEF LexicalItems
  <2>5. /\ Numbers(queued[s] \cup docs) = Numbers(queued[s]) \cup Numbers(docs)
        /\ Numbers(docs) \subseteq Numbers(fresh[s]) /\ Single(docs) /\ Numbers({}) = {}
    BY <1>a, NumbersFacts, SingleFacts
  <2>6. docs # {} => Numbers(fresh[s]) \cap (LexicalItems \cup Numbers(queued[s])) = {}
    BY <1>a, <2>1, <2>2
  <2>7. Single(queued'[s]) /\ Single(fresh'[s])
    BY <1>a, <2>4, <2>5, <2>6, SingleFacts
  <2>8. Indexes(s) => Numbers(queued'[s]) \cap LexicalItems = {}
    BY <1>a, <2>4, <2>5, <2>6
  <2>9. OnceIn(s)'
    BY <2>2, <2>4, <2>7, <2>8 DEF Indexes, Numbers
  <2>10. QED BY <1>0, <1>a, <1>b, <2>2, <2>3, <2>9
<1>5. ASSUME NEW s \in Session, NEW ok \in BOOLEAN, CommitLexical(s, ok) PROVE Once'
  <2>1. /\ \/ lexical' = lexical \cup queued[s] /\ queued' = [queued EXCEPT ![s] = {}]
           \/ UNCHANGED <<lexical, queued>>
        /\ UNCHANGED <<fresh, listed, hooks>> /\ at[s] = "commit"
        /\ at' = [at EXCEPT ![s] = "commit_vectors"]
    BY <1>5 DEF CommitLexical, GoTo
  <2>2. at'[s] = "commit_vectors" /\ Single(fresh'[s])
    BY <1>0, <1>a, <2>1
  <2>3. CASE lexical' = lexical
    <3>1. LexicalItems' = LexicalItems /\ queued'[s] \in {queued[s], {}} /\ Numbers({}) = {}
      BY <1>0, <2>1, <2>3, NumbersFacts DEF LexicalItems
    <3>2. Single(queued'[s]) /\ (Indexes(s) => Numbers(queued'[s]) \cap LexicalItems = {})
      BY <1>a, <3>1, SingleFacts
    <3>3. OnceIn(s)'
      BY <2>1, <2>2, <3>1, <3>2 DEF Indexes, Numbers
    <3>4. QED BY <1>0, <1>a, <1>b, <2>1, <2>3, <3>3
  <2>4. CASE lexical' # lexical
    <3>1. queued[s] # {} /\ lexical' = lexical \cup queued[s]
          /\ queued' = [queued EXCEPT ![s] = {}]
      BY <2>1, <2>4
    <3>2. Indexes(s)
      BY <2>1, <3>1 DEF Places
    <3>3. \A r \in Session : r # s => ~Indexes(r)
      BY <3>2, OneWriter
    <3>4. Single(lexical')
      <4>1. Single(lexical) /\ Single(queued[s]) /\ Numbers(lexical) \cap Numbers(queued[s]) = {}
        BY <1>a, <3>2 DEF LexicalItems
      <4>2. QED BY <3>1, <4>1, SingleFacts
    <3>5. OnceIn(s)'
      BY <1>0, <2>2, <3>1, SingleFacts, NumbersFacts
    <3>6. QED BY <1>0, <1>b, <2>1, <3>1, <3>3, <3>4, <3>5
  <2>5. QED BY <2>3, <2>4
<1>6. ASSUME NEW s \in Session, NEW ok \in BOOLEAN, CommitVectors(s, ok) PROVE Once'
  <2>1. /\ UNCHANGED <<lexical, queued, listed, hooks>>
        /\ fresh' = [fresh EXCEPT ![s] = {}] /\ at' = [at EXCEPT ![s] = "ready"]
    BY <1>6 DEF CommitVectors, GoTo
  <2>2. OnceIn(s)'
    BY <1>0, <1>a, <2>1, SingleFacts DEF Indexes, LexicalItems
  <2>3. QED BY <1>0, <1>a, <1>b, <2>1, <2>2
<1>7. ASSUME NEW s \in Session, RemoveSidecar(s) \/ ResetVectors(s) \/ EmbedItems(s) PROVE Once'
  <2>1. lexical' \in {{}, lexical} /\ UNCHANGED <<queued, fresh, listed, hooks>>
    BY <1>7 DEF RemoveSidecar, ResetVectors, EmbedItems
  <2>2. \E place \in {"reopen", "reset", "embedded"} : at' = [at EXCEPT ![s] = place]
    BY <1>7 DEF RemoveSidecar, ResetVectors, EmbedItems, GoTo
  <2>3. Single(lexical') /\ LexicalItems' \subseteq LexicalItems
    BY <1>a, <2>1, SingleFacts, NumbersFacts DEF LexicalItems
  <2>4. OnceIn(s)'
    BY <1>0, <1>a, <2>1, <2>2, <2>3 DEF Indexes
  <2>5. QED BY <1>0, <1>b, <2>1, <2>2, <2>3, <2>4
<1>8. ASSUME NEW s \in Session, ListItems(s) PROVE Once'
  <2>1. /\ UNCHANGED <<lexical, queued, fresh, hooks>> /\ listed' = [listed EXCEPT ![s] = Items]
        /\ at' = [at EXCEPT ![s] = "read"] /\ at[s] = "list"
    BY <1>8 DEF ListItems, GoTo, sidecar_vars
  <2>2. queued[s] = {} /\ fresh[s] = {} /\ ~Indexes(s)
    BY <2>1 DEF Places, Indexes, Hooked, Calling
  <2>3. OnceIn(s)'
    BY <1>0, <2>1, <2>2, SingleFacts, NumbersFacts DEF Indexes
  <2>4. QED BY <1>0, <1>a, <1>b, <2>1, <2>3
<1>9. ASSUME NEW s \in Session, CommitReindex(s) PROVE Once'
  <2>1. /\ lexical' = queued[s] /\ queued' = [queued EXCEPT ![s] = {}]
        /\ UNCHANGED <<fresh, listed, hooks>>
        /\ at' = [at EXCEPT ![s] = "reindexed"] /\ at[s] = "read"
    BY <1>9 DEF CommitReindex, GoTo
  <2>2. \A r \in Session : r # s => ~Indexes(r)
    BY <2>1, OneWriter
  <2>3. ~Indexes(s)
    BY <2>1 DEF Places, Indexes, Hooked, Calling
  <2>4. OnceIn(s)' /\ Single(lexical')
    BY <1>0, <1>a, <2>1, <2>3, SingleFacts DEF Indexes
  <2>5. QED BY <1>0, <1>b, <2>1, <2>2, <2>4
<1>10. ASSUME NEW s \in Session, NEW i \in Items, NEW ok \in BOOLEAN, ReadItem(s, i, ok)
       PROVE  Once'
  <2>1. /\ queued' = [queued EXCEPT ![s] = @ \cup {<<i, items[i]>>}] \/ UNCHANGED queued
        /\ listed' = [listed EXCEPT ![s] = @ \ {i}] /\ i \in listed[s]
        /\ UNCHANGED <<lexical, fresh, hooks, at>> /\ at[s] = "read"
    BY <1>10 DEF ReadItem, sidecar_vars
  <2>2. i \notin Numbers(queued[s]) /\ Single(queued[s])
    BY <1>a, <2>1
  <2>3. /\ Single(queued[s] \cup {<<i, items[i]>>})
        /\ Numbers(queued[s] \cup {<<i, items[i]>>}) = Numbers(queued[s]) \cup {i}
    BY <2>2, SingleFacts, NumbersFacts
  <2>4. Single(queued'[s]) /\ Numbers(queued'[s]) \cap listed'[s] = {}
    BY <1>0, <1>a, <2>1, <2>2, <2>3
  <2>5. ~Indexes(s)
    BY <2>1 DEF Places, Indexes, Hooked, Calling
  <2>6. OnceIn(s)'
    BY <1>a, <2>1, <2>4, <2>5 DEF Indexes, Numbers
  <2>7. QED BY <1>0, <1>a, <1>b, <2>1, <2>6
<1>11. ASSUME NEW i \in Items, NEW scope \in Scope, SetScope(i, scope) PROVE Once'
  BY <1>11 DEF SetScope, sidecar_vars, session_vars, Once, Indexes, LexicalItems
<1>12. CASE UNCHANGED sync_vars
  BY <1>12 DEF sync_vars, sidecar_vars, session_vars, Once, Indexes, LexicalItems
<1>13. QED BY <1>1, <1>2, <1>3, <1>4, <1>5, <1>6, <1>7, <1>8, <1>9, <1>10, <1>11, <1>12,
              StepKinds DEF CallRuns, Reindexes

(***************************************************************************)
(* What is missing is explained.                                           *)
(***************************************************************************)
LEMMA NextExplained ==
    SyncTypeOK /\ Places /\ WriterLocked /\ KnownItems /\ ~split /\ Explained
        /\ [SyncNext]_sync_vars => Explained'
<1> SUFFICES ASSUME SyncTypeOK, Places, WriterLocked, KnownItems, ~split, Explained,
                    [SyncNext]_sync_vars
             PROVE  Explained'
  OBVIOUS
<1>0. /\ DOMAIN queued = Session /\ DOMAIN fresh = Session /\ DOMAIN at = Session
      /\ DOMAIN hooks = Session /\ DOMAIN listed = Session /\ DOMAIN embedded = Session
      /\ DOMAIN unread = Session
  BY DEF SyncTypeOK
<1> DEFINE Accounted(i) == LexicalKnows(i) /\ SemanticKnows(i)
           InCall(s, i) == i \in Numbers(fresh[s])
           Frame(s) == \A r \in Session : r # s =>
                /\ queued'[r] = queued[r] /\ fresh'[r] = fresh[r] /\ listed'[r] = listed[r]
                /\ embedded'[r] = embedded[r] /\ at'[r] = at[r] /\ hooks'[r] = hooks[r]
                /\ unread'[r] = unread[r]
           Keeps == /\ UNCHANGED items
                    /\ \A i \in Items : /\ LexicalKnows(i) => LexicalKnows(i)'
                                        /\ SemanticKnows(i) => SemanticKnows(i)'
           KeepsExcuses == \A i : <<"lexical", i>> \in excused => <<"lexical", i>> \in excused'
<1>a. /\ \A i \in Items : (\E s \in Session : InCall(s, i)) \/ Accounted(i)
      /\ \A s \in Session : CallGoesOn(s) /\ ReindexCovers(s)
  BY DEF Explained
<1>k. \A r \in Session : Numbers(fresh[r]) \subseteq Items
  BY DEF KnownItems
\* It is enough to look at the session that moves, and at whether the sidecars
\* and the excuses still account for what they did.
<1>b. ASSUME NEW s \in Session, Frame(s), Keeps,
             KeepsExcuses \/ \A r \in Session : r # s => at[r] # "read",
             CallGoesOn(s)', ReindexCovers(s)',
             \A i \in Items : InCall(s, i) => InCall(s, i)' \/ Accounted(i)'
      PROVE  Explained'
  <2>1. Items' = Items
    BY <1>b DEF Items
  <2>2. ASSUME NEW r \in Session, r # s PROVE CallGoesOn(r)' /\ ReindexCovers(r)'
    <3>1. /\ queued'[r] = queued[r] /\ fresh'[r] = fresh[r] /\ listed'[r] = listed[r]
          /\ embedded'[r] = embedded[r] /\ at'[r] = at[r] /\ hooks'[r] = hooks[r]
          /\ unread'[r] = unread[r]
      BY <1>b, <2>2
    <3>2. CallGoesOn(r)'
      BY <1>a, <1>b, <1>k, <3>1 DEF CallGoesOn, Indexes, Numbers
    <3>3. ReindexCovers(r)'
      BY <1>a, <1>b, <2>1, <2>2, <3>1 DEF ReindexCovers, Numbers
    <3>4. QED BY <3>2, <3>3
  <2>3. ASSUME NEW i \in Items
        PROVE  (\E r \in Session : InCall(r, i)') \/ Accounted(i)'
    <3>1. CASE Accounted(i)
      BY <1>b, <3>1
    <3>2. ASSUME NEW r \in Session, InCall(r, i) PROVE InCall(r, i)' \/ Accounted(i)'
      BY <1>b, <3>2 DEF Numbers
    <3>3. QED BY <1>a, <3>1, <3>2
  <2>4. QED BY <1>b, <2>1, <2>2, <2>3 DEF Explained
<1>1. ASSUME NEW s \in Session, Walks(s) PROVE Explained'
  <2>1. /\ UNCHANGED <<items, lexical, semantic, queued, embedded, fresh, listed, excused>>
        /\ UNCHANGED <<unread, dropped>>
        /\ \A r \in Session : r # s => at'[r] = at[r] /\ hooks'[r] = hooks[r]
        /\ at'[s] # "read" /\ fresh[s] = {}
    BY <1>1, WalkSteps
  <2>2. Keeps /\ KeepsExcuses /\ Frame(s)
    BY <2>1 DEF LexicalKnows, SemanticKnows, LexicalItems
  <2>3. CallGoesOn(s)' /\ ReindexCovers(s)'
    BY <2>1, NumbersFacts DEF CallGoesOn, ReindexCovers
  <2>4. QED BY <1>b, <2>1, <2>2, <2>3, NumbersFacts
<1>2. ASSUME NEW s \in Session, Departs(s) PROVE Explained'
  <2>1. /\ UNCHANGED <<items, lexical, dropped>> /\ unread' = [unread EXCEPT ![s] = {}]
        /\ at' = [at EXCEPT ![s] = "ended"] /\ hooks' = [hooks EXCEPT ![s] = {}]
        /\ queued' = [queued EXCEPT ![s] = {}] /\ fresh' = [fresh EXCEPT ![s] = {}]
        /\ embedded' = [embedded EXCEPT ![s] = {}] /\ listed' = [listed EXCEPT ![s] = {}]
        /\ \/ semantic' = semantic /\ excused' = excused \cup Both(Numbers(fresh[s]))
           \/ /\ fresh[s] = {} /\ semantic' = semantic \cup embedded[s]
              /\ excused' = excused \ ({"semantic"} \X embedded[s])
    BY <1>2, DepartSteps
  <2>2. Frame(s) /\ at'[s] = "ended" /\ fresh'[s] = {}
    BY <1>0, <2>1
  <2>3. KeepsExcuses
    BY <2>1
  <2>4. \A i \in Items : SemanticKnows(i) => SemanticKnows(i)'
    BY <2>1 DEF SemanticKnows
  <2>5. Keeps
    BY <2>1, <2>3, <2>4 DEF LexicalKnows, LexicalItems
  <2>6. CallGoesOn(s)' /\ ReindexCovers(s)'
    BY <2>2, NumbersFacts DEF CallGoesOn, ReindexCovers
  <2>7. \A i \in Items : InCall(s, i) => Accounted(i)'
    BY <2>1, NumbersFacts, SMTT(30) DEF LexicalKnows, SemanticKnows, Both
  <2>8. QED BY <1>b, <2>2, <2>3, <2>5, <2>6, <2>7
<1>3. ASSUME NEW s \in Session, NEW call \in Calls, Ingest(s, call[1], call[2]) PROVE Explained'
  <2> DEFINE docs == {<<Len(items) + n, call[1][n]>> : n \in 1 .. Len(call[1])}
  <2>1. /\ Numbers(docs) = (Len(items) + 1) .. Len(items') /\ Items \subseteq Items'
        /\ Len(items) \in Nat
    <3>1. Len(items) \in Nat
      BY DEF SyncTypeOK
    <3>2. QED BY <1>3, <3>1, NewItems
  <2>2. Items' = Items \cup Numbers(docs)
    <3>1. Items' = 1 .. Len(items') /\ Items = 1 .. Len(items)
      BY DEF Items
    <3>2. Len(items') \in Nat /\ Len(items') >= Len(items)
      <4>1. Len(items') = Len(items) + Len(call[1]) /\ call[1] \in Seq(Scope)
        BY <1>3, NewItems, SyncAssumption
      <4>2. QED BY <2>1, <4>1
    <3>3. Items' = Items \cup ((Len(items) + 1) .. Len(items'))
      BY <2>1, <3>1, <3>2
    <3>4. QED BY <2>1, <3>3, Zenon
  <2>3. /\ excused' = excused \cup (({"lexical", "semantic"} \ hooks[s]) \X Numbers(docs))
        /\ \/ hooks[s] = {} /\ UNCHANGED <<fresh, at>>
           \/ /\ hooks[s] # {} /\ fresh' = [fresh EXCEPT ![s] = docs]
              /\ at' = [at EXCEPT ![s] = "add"]
        /\ UNCHANGED <<lexical, semantic, queued, embedded, listed, hooks, unread, dropped>>
        /\ at[s] = "ready"
    BY <1>3 DEF Ingest, Excuse, GoTo, sidecar_vars
  <2>4. \A i : /\ LexicalKnows(i) => LexicalKnows(i)'
               /\ SemanticKnows(i) => SemanticKnows(i)'
    BY <2>3 DEF LexicalKnows, SemanticKnows, LexicalItems
  <2>5. fresh[s] = {}
    BY <2>3 DEF Places, Calling
  <2>6. ASSUME NEW i \in Numbers(docs)
        PROVE  /\ ~Indexes(s) => <<"lexical", i>> \in excused'
               /\ "semantic" \notin hooks[s] => <<"semantic", i>> \in excused'
    BY <2>3 DEF Indexes
  <2>7. ASSUME NEW r \in Session PROVE CallGoesOn(r)'
    <3>1. CASE r = s /\ hooks[s] # {}
      <4>1. fresh'[r] = docs /\ at'[r] = "add" /\ hooks'[r] = hooks[s]
        BY <1>0, <2>3, <3>1
      <4>2. QED BY <2>6, <4>1, <3>1 DEF CallGoesOn, Indexes, LexicalKnows, SemanticKnows
    <3>2. CASE r # s \/ hooks[s] = {}
      <4>1. /\ fresh'[r] = fresh[r] /\ at'[r] = at[r] /\ hooks'[r] = hooks[r]
            /\ queued'[r] = queued[r] /\ embedded'[r] = embedded[r]
        BY <1>0, <2>3, <2>5, <3>2
      <4>2. QED BY <1>a, <2>4, <4>1 DEF CallGoesOn, Indexes, Numbers
    <3>3. QED BY <3>1, <3>2
  <2>8. ASSUME NEW r \in Session, at'[r] = "read" PROVE ReindexCovers(r)'
    <3>1. at[r] = "read" /\ r # s
      BY <1>0, <2>3, <2>8
    <3>2. ~Indexes(s)
      BY <3>1, OneWriter
    <3>3. \A i \in Numbers(docs) : <<"lexical", i>> \in excused'
      BY <2>6, <3>2
    <3>4. \A i \in Items : i \in listed'[r] \cup Numbers(queued'[r]) \cup unread'[r]
                            \/ <<"lexical", i>> \in excused'
      BY <1>a, <2>3, <3>1 DEF ReindexCovers
    <3>5. QED BY <2>2, <3>3, <3>4 DEF ReindexCovers, Numbers
  <2>9. ASSUME NEW i \in Items' PROVE (\E r \in Session : InCall(r, i)') \/ Accounted(i)'
    <3>1. CASE i \in Numbers(docs) /\ hooks[s] = {}
      BY <2>6, <3>1 DEF Indexes, LexicalKnows, SemanticKnows
    <3>2. CASE i \in Numbers(docs) /\ hooks[s] # {}
      BY <1>0, <2>3, <3>2
    <3>3. CASE i \in Items
      <4>1. ASSUME NEW r \in Session, InCall(r, i) PROVE InCall(r, i)'
        <5>1. r # s
          BY <2>5, <4>1, NumbersFacts
        <5>2. fresh'[r] = fresh[r]
          BY <1>0, <2>3, <5>1
        <5>3. QED BY <4>1, <5>2 DEF Numbers
      <4>2. Accounted(i) => Accounted(i)'
        BY <2>4
      <4>3. QED BY <1>a, <3>3, <4>1, <4>2
    <3>4. QED BY <2>2, <3>1, <3>2, <3>3
  <2>10. \A r \in Session : ReindexCovers(r)'
    BY <2>8 DEF ReindexCovers
  <2>11. QED BY <2>7, <2>9, <2>10 DEF Explained
<1>4. ASSUME NEW s \in Session, NEW docs \in SUBSET fresh[s], NEW embeds \in SUBSET fresh[s],
             AddToHooks(s, docs, embeds)
      PROVE  Explained'
  <2>1. /\ queued' = [queued EXCEPT ![s] = @ \cup docs] /\ at[s] = "add"
        /\ embedded' = [embedded EXCEPT ![s] = @ \cup Numbers(embeds)]
        /\ UNCHANGED <<items, lexical, semantic, listed, hooks, unread, dropped>>
    BY <1>4 DEF AddToHooks, store_vars, sidecar_vars
  <2>2. \/ /\ at' = [at EXCEPT ![s] = "commit"] /\ fresh' = fresh
           /\ excused' = excused \cup Refused(s, docs, embeds)
        \/ /\ at' = [at EXCEPT ![s] = "ready"] /\ fresh' = [fresh EXCEPT ![s] = {}]
           /\ excused' = excused \cup Both(Numbers(fresh[s]))
    BY <1>4 DEF AddToHooks, GoTo, Excuse
  <2>3. Frame(s) /\ Keeps /\ KeepsExcuses
    <3>1. excused \subseteq excused'
      BY <2>2
    <3>2. QED BY <1>0, <2>1, <2>2, <3>1 DEF LexicalKnows, SemanticKnows, LexicalItems
  <2>4. CASE fresh' = [fresh EXCEPT ![s] = {}] /\ at' = [at EXCEPT ![s] = "ready"]
             /\ excused' = excused \cup Both(Numbers(fresh[s]))
    <3>1. fresh'[s] = {} /\ at'[s] = "ready"
      BY <1>0, <2>4
    <3>2. CallGoesOn(s)' /\ ReindexCovers(s)'
      BY <3>1, NumbersFacts DEF CallGoesOn, ReindexCovers
    <3>3. \A i \in Items : InCall(s, i) => Accounted(i)'
      BY <2>4 DEF LexicalKnows, SemanticKnows, Both
    <3>4. QED BY <1>b, <2>3, <3>2, <3>3
  <2>5. CASE at' = [at EXCEPT ![s] = "commit"] /\ fresh' = fresh
             /\ excused' = excused \cup Refused(s, docs, embeds)
    <3>1. /\ fresh'[s] = fresh[s] /\ at'[s] = "commit" /\ hooks'[s] = hooks[s]
          /\ queued'[s] = queued[s] \cup docs /\ embedded'[s] = embedded[s] \cup Numbers(embeds)
      BY <1>0, <2>1, <2>5
    <3>2. ASSUME NEW i \in Numbers(fresh[s])
          PROVE  i \in Numbers(queued'[s]) \/ LexicalKnows(i)'
      <4>1. CASE ~Indexes(s)
        BY <1>a, <1>k, <2>1, <2>3, <4>1 DEF CallGoesOn
      <4>2. CASE i \in Numbers(docs)
        BY <3>1, <4>2, NumbersFacts
      <4>3. CASE Indexes(s) /\ i \notin Numbers(docs)
        BY <2>5, <4>3 DEF Refused, Indexes, LexicalKnows
      <4>4. QED BY <4>1, <4>2, <4>3
    <3>3. ASSUME NEW i \in Numbers(fresh[s]) PROVE i \in embedded'[s] \/ SemanticKnows(i)'
      <4>1. CASE "semantic" \notin hooks[s]
        BY <1>a, <1>k, <2>1, <2>3, <4>1 DEF CallGoesOn
      <4>2. CASE i \in Numbers(embeds)
        BY <3>1, <4>2
      <4>3. CASE "semantic" \in hooks[s] /\ i \notin Numbers(embeds)
        BY <2>5, <4>3 DEF Refused, SemanticKnows
      <4>4. QED BY <4>1, <4>2, <4>3
    <3>4. CallGoesOn(s)' /\ ReindexCovers(s)'
      BY <3>1, <3>2, <3>3 DEF CallGoesOn, ReindexCovers, Numbers
    <3>5. \A i \in Items : InCall(s, i) => InCall(s, i)'
      BY <3>1 DEF Numbers
    <3>6. QED BY <1>b, <2>3, <3>4, <3>5
  <2>6. QED BY <2>2, <2>4, <2>5
<1>5. ASSUME NEW s \in Session, NEW ok \in BOOLEAN, CommitLexical(s, ok) PROVE Explained'
  <2>1. /\ \/ lexical' = lexical \cup queued[s] /\ queued' = [queued EXCEPT ![s] = {}]
           \/ ~ok /\ UNCHANGED <<lexical, queued>>
        /\ excused' = excused \cup (IF ok THEN {} ELSE {"lexical"} \X Numbers(fresh[s]))
        /\ UNCHANGED <<items, semantic, fresh, embedded, listed, hooks, unread, dropped>>
        /\ at[s] = "commit"
        /\ at' = [at EXCEPT ![s] = "commit_vectors"]
    BY <1>5 DEF CommitLexical, GoTo, Excuse, store_vars
  <2>2. at'[s] = "commit_vectors" /\ fresh'[s] = fresh[s] /\ embedded'[s] = embedded[s]
    BY <1>0, <2>1
  <2>3. LexicalItems \subseteq LexicalItems' /\ excused \subseteq excused'
    BY <2>1, NumbersFacts DEF LexicalItems
  <2>4. Frame(s) /\ Keeps /\ KeepsExcuses
    BY <1>0, <2>1, <2>3 DEF LexicalKnows, SemanticKnows
  <2>5. ASSUME NEW i \in Numbers(fresh[s])
        PROVE  LexicalKnows(i)' /\ (i \in embedded'[s] \/ SemanticKnows(i)')
    <3>1. (i \in Numbers(queued[s]) \/ LexicalKnows(i)) /\ (i \in embedded[s] \/ SemanticKnows(i))
      BY <1>a, <2>1 DEF CallGoesOn
    <3>2. CASE ok
      <4>1. LexicalItems' = LexicalItems \cup Numbers(queued[s])
        BY <2>1, <3>2, NumbersFacts DEF LexicalItems
      <4>2. QED BY <1>k, <2>2, <2>4, <3>1, <4>1 DEF LexicalKnows
    <3>3. CASE ~ok
      BY <1>k, <2>1, <2>2, <2>4, <3>1, <3>3 DEF LexicalKnows
    <3>4. QED BY <3>2, <3>3
  <2>6. CallGoesOn(s)' /\ ReindexCovers(s)'
    BY <2>2, <2>5 DEF CallGoesOn, ReindexCovers, Numbers
  <2>7. \A i \in Items : InCall(s, i) => InCall(s, i)'
    BY <2>2 DEF Numbers
  <2>8. QED BY <1>b, <2>4, <2>6, <2>7
<1>6. ASSUME NEW s \in Session, NEW ok \in BOOLEAN, CommitVectors(s, ok) PROVE Explained'
  <2>1. /\ \/ semantic' = semantic \cup embedded[s] /\ embedded' = [embedded EXCEPT ![s] = {}]
           \/ ~ok /\ UNCHANGED <<semantic, embedded>>
        /\ excused' = excused \cup (IF ok THEN {} ELSE {"semantic"} \X Numbers(fresh[s]))
        /\ UNCHANGED <<items, lexical, queued, listed, hooks, unread, dropped>>
        /\ at[s] = "commit_vectors"
        /\ fresh' = [fresh EXCEPT ![s] = {}] /\ at' = [at EXCEPT ![s] = "ready"]
    BY <1>6 DEF CommitVectors, GoTo, Excuse, store_vars
  <2>2. at'[s] = "ready" /\ fresh'[s] = {}
    BY <1>0, <2>1
  <2>3. semantic \subseteq semantic' /\ excused \subseteq excused'
    BY <2>1
  <2>4. Frame(s) /\ Keeps /\ KeepsExcuses
    BY <1>0, <2>1, <2>3 DEF LexicalKnows, SemanticKnows, LexicalItems
  <2>5. ASSUME NEW i \in Numbers(fresh[s]) PROVE Accounted(i)'
    <3>1. LexicalKnows(i) /\ (i \in embedded[s] \/ SemanticKnows(i))
      BY <1>a, <2>1 DEF CallGoesOn
    <3>2. QED BY <1>k, <2>1, <2>4, <3>1 DEF SemanticKnows
  <2>6. CallGoesOn(s)' /\ ReindexCovers(s)'
    BY <2>2, NumbersFacts DEF CallGoesOn, ReindexCovers
  <2>7. QED BY <1>b, <2>4, <2>5, <2>6
<1>7. ASSUME NEW s \in Session, RemoveSidecar(s) \/ ResetVectors(s) \/ EmbedItems(s)
      PROVE  Explained'
  <2>1. /\ UNCHANGED <<items, queued, fresh, listed, hooks, unread, dropped>>
        /\ excused \subseteq excused'
        /\ lexical' = lexical \/ {"lexical"} \X Items \subseteq excused'
        /\ semantic' = semantic \/ {"semantic"} \X Items \subseteq excused'
    BY <1>7 DEF RemoveSidecar, ResetVectors, EmbedItems, Excuse, store_vars, sync_history
  <2>2. embedded' = embedded \/ embedded' = [embedded EXCEPT ![s] = Items]
    BY <1>7 DEF RemoveSidecar, ResetVectors, EmbedItems
  <2>3. \E place \in {"reopen", "reset", "embedded"} : at' = [at EXCEPT ![s] = place]
    BY <1>7 DEF RemoveSidecar, ResetVectors, EmbedItems, GoTo
  <2>4. at[s] \in {"rebuild", "reindexed", "reset"}
    BY <1>7 DEF RemoveSidecar, ResetVectors, EmbedItems
  <2>5. fresh'[s] = {} /\ at'[s] \notin Calling \cup {"read"}
    BY <1>0, <2>1, <2>3, <2>4 DEF Places, Calling
  <2>6. Frame(s) /\ KeepsExcuses
    BY <1>0, <2>1, <2>2, <2>3
  <2>7. Keeps
    BY <2>1 DEF LexicalKnows, SemanticKnows, LexicalItems
  <2>8. CallGoesOn(s)' /\ ReindexCovers(s)' /\ fresh[s] = {}
    BY <2>1, <2>5, NumbersFacts DEF CallGoesOn, ReindexCovers
  <2>9. QED BY <1>b, <2>6, <2>7, <2>8, NumbersFacts
<1>8. ASSUME NEW s \in Session, ListItems(s) PROVE Explained'
  <2>1. /\ UNCHANGED <<items, lexical, semantic, queued, fresh, embedded, hooks, excused>>
        /\ UNCHANGED <<unread, dropped>>
        /\ listed' = [listed EXCEPT ![s] = Items]
        /\ at' = [at EXCEPT ![s] = "read"] /\ at[s] = "list"
    BY <1>8 DEF ListItems, GoTo, store_vars, sidecar_vars
  <2>2. fresh[s] = {} /\ listed'[s] = Items /\ Items' = Items
    BY <1>0, <2>1 DEF Places, Calling, Items
  <2>3. Frame(s) /\ Keeps /\ KeepsExcuses
    BY <1>0, <2>1 DEF LexicalKnows, SemanticKnows, LexicalItems
  <2>4. CallGoesOn(s)' /\ ReindexCovers(s)'
    BY <2>1, <2>2, NumbersFacts DEF CallGoesOn, ReindexCovers
  <2>5. QED BY <1>b, <2>2, <2>3, <2>4, NumbersFacts
<1>9. ASSUME NEW s \in Session, CommitReindex(s) PROVE Explained'
  <2>1. /\ lexical' = queued[s] /\ listed[s] = {} /\ at[s] = "read"
        /\ excused' = excused \ ({"lexical"} \X (Numbers(queued[s]) \cup unread[s]))
        /\ dropped' = unread[s] /\ unread' = [unread EXCEPT ![s] = {}]
        /\ queued' = [queued EXCEPT ![s] = {}] /\ at' = [at EXCEPT ![s] = "reindexed"]
        /\ UNCHANGED <<items, semantic, fresh, embedded, hooks, listed>>
    BY <1>9 DEF CommitReindex, GoTo, store_vars
  <2>2. \A i \in Items : LexicalKnows(i)'
    <3>1. LexicalItems' = Numbers(queued[s])
      BY <2>1 DEF LexicalItems
    <3>2. QED BY <1>a, <2>1, <3>1 DEF ReindexCovers, LexicalKnows
  <2>3. \A i \in Items : SemanticKnows(i) => SemanticKnows(i)'
    BY <2>1 DEF SemanticKnows
  <2>4. fresh[s] = {} /\ at'[s] = "reindexed"
    BY <1>0, <2>1 DEF Places, Calling
  <2>5. Frame(s) /\ Keeps /\ \A r \in Session : r # s => at[r] # "read"
    BY <1>0, <2>1, <2>2, <2>3, OneWriter
  <2>6. CallGoesOn(s)' /\ ReindexCovers(s)'
    BY <2>1, <2>4, NumbersFacts DEF CallGoesOn, ReindexCovers
  <2>7. QED BY <1>b, <2>4, <2>5, <2>6, NumbersFacts
<1>10. ASSUME NEW s \in Session, NEW i \in Items, NEW ok \in BOOLEAN, ReadItem(s, i, ok)
       PROVE  Explained'
  <2>1. /\ \/ /\ queued' = [queued EXCEPT ![s] = @ \cup {<<i, items[i]>>}] /\ unread' = unread
           \/ queued' = queued /\ unread' = [unread EXCEPT ![s] = @ \cup {i}]
        /\ listed' = [listed EXCEPT ![s] = @ \ {i}] /\ at[s] = "read"
        /\ UNCHANGED <<items, lexical, semantic, fresh, embedded, hooks, at, excused, dropped>>
    BY <1>10 DEF ReadItem, store_vars, sidecar_vars
  <2>2. fresh[s] = {} /\ Items' = Items
    BY <2>1 DEF Places, Calling, Items
  <2>3. Frame(s) /\ Keeps /\ KeepsExcuses
    BY <1>0, <2>1 DEF LexicalKnows, SemanticKnows, LexicalItems
  <2>4. Numbers(queued[s] \cup {<<i, items[i]>>}) = Numbers(queued[s]) \cup {i}
    BY NumbersFacts
  <2>5. \A j \in Items : j \in listed'[s] \cup Numbers(queued'[s]) \cup unread'[s]
                          \/ <<"lexical", j>> \in excused'
    BY <1>0, <1>a, <2>1, <2>4 DEF ReindexCovers
  <2>6. CallGoesOn(s)' /\ ReindexCovers(s)'
    BY <2>1, <2>2, <2>5, NumbersFacts DEF CallGoesOn, ReindexCovers, Numbers
  <2>7. QED BY <1>b, <2>2, <2>3, <2>6, NumbersFacts
<1>11. ASSUME NEW i \in Items, NEW scope \in Scope, SetScope(i, scope) PROVE Explained'
  <2>1. Items' = Items
    BY <1>11, ExceptSeq DEF SetScope, SyncTypeOK, Items
  <2>2. /\ UNCHANGED <<lexical, semantic, queued, fresh, embedded, listed, at, hooks, excused>>
        /\ UNCHANGED <<unread, dropped>>
    BY <1>11 DEF SetScope, sidecar_vars, session_vars
  <2>3. QED BY <2>1, <2>2 DEF Explained, CallGoesOn, ReindexCovers, Indexes, LexicalKnows,
                              SemanticKnows, LexicalItems
<1>12. CASE UNCHANGED sync_vars
  BY <1>12 DEF sync_vars, store_vars, sidecar_vars, session_vars, sync_history, Explained, Items,
               CallGoesOn, ReindexCovers, Indexes, LexicalKnows, SemanticKnows, LexicalItems
<1>13. QED BY <1>1, <1>2, <1>3, <1>4, <1>5, <1>6, <1>7, <1>8, <1>9, <1>10, <1>11, <1>12,
              StepKinds DEF CallRuns, Reindexes

(***************************************************************************)
(* The theorems.                                                           *)
(***************************************************************************)
LEMMA InitInStep == SyncInit => InStep
<1> SUFFICES ASSUME SyncInit PROVE InStep
  OBVIOUS
<1>1. /\ Items = {} /\ lexical = {} /\ semantic = {} /\ LexicalItems = {}
      /\ \A s \in Session : /\ at[s] = "ended" /\ hooks[s] = {} /\ queued[s] = {} /\ fresh[s] = {}
                            /\ embedded[s] = {} /\ listed[s] = {}
  BY NumbersFacts DEF SyncInit, Items, LexicalItems
<1>2. Places /\ WriterLocked /\ KnownItems
  BY <1>1, NumbersFacts DEF Places, WriterLocked, KnownItems, Indexes
<1>3. Scopes /\ Once /\ Explained
  BY <1>1, NumbersFacts, SingleFacts DEF Scopes, Once, Explained, CallGoesOn, ReindexCovers, Indexes
<1>4. QED BY <1>2, <1>3 DEF InStep

LEMMA NextInStep == SyncTypeOK /\ InStep /\ [SyncNext]_sync_vars => InStep'
<1> SUFFICES ASSUME SyncTypeOK, InStep, [SyncNext]_sync_vars PROVE InStep'
  OBVIOUS
<1>1. Places' /\ WriterLocked' /\ KnownItems'
  BY NextPlaces, NextLocked, NextKnown DEF InStep
<1>2. CASE split
  <2>1. split'
    BY <1>2 DEF SyncNext, sync_vars, sync_history
  <2>2. QED BY <1>1, <2>1 DEF InStep
<1>3. CASE ~split
  BY <1>1, <1>3, NextScopes, NextOnce, NextExplained DEF InStep
<1>4. QED BY <1>2, <1>3

\* Sessions, reindexes and moves keep the sidecars in step with the store, as
\* long as no directory is removed under an open writer.
THEOREM StaysInStep == SyncSpec => []InStep
<1>1. InStep /\ SyncTypeOK /\ [SyncNext]_sync_vars => InStep'
  BY NextInStep
<1>2. QED BY <1>1, SyncTypes, InitInStep, PTL DEF SyncSpec

\* Every document of the Tantivy sidecar is the only one of a committed item
\* and has its scope, unless the item was moved since; no writer is about to add
\* a second one; semantic search names committed items.
THEOREM DocumentsAlwaysMatch == SyncSpec => []DocumentsMatchStore
<1>1. InStep => DocumentsMatchStore
  <2> SUFFICES ASSUME InStep PROVE DocumentsMatchStore
    OBVIOUS
  <2>1. semantic \subseteq Items /\ \A doc \in lexical : doc[1] \in Items
    BY DEF InStep, KnownItems, LexicalItems, Numbers
  <2>2. ~split => \A doc \in lexical :
           /\ doc[1] \in moved \/ doc[2] = items[doc[1]]
           /\ \A other \in lexical : other[1] = doc[1] => other = doc
    BY DEF InStep, Scopes, UpToDate, Once, Single
  <2>3. ~split => \A s \in Session : AddsOnce(s)
    <3>1. \A s \in Session : queued[s] = {} \/ Indexes(s) \/ at[s] = "read"
      BY DEF InStep, Places
    <3>2. QED BY <3>1, NumbersFacts DEF InStep, Once, AddsOnce, Indexes
  <2>4. QED BY <2>1, <2>2, <2>3 DEF DocumentsMatchStore
<1>2. QED BY <1>1, StaysInStep, PTL

\* An item no full-text search finds is one a warning named, one that was not to
\* be indexed, one of a running call, one whose process died in its call, or one
\* the last reindex to commit could not read, of which nobody is told; for
\* semantic search there is no such fifth reason.
THEOREM MissingAlwaysExplained == SyncSpec => []MissingIsExplained
<1>1. InStep => MissingIsExplained
  BY DEF InStep, Explained, MissingIsExplained, LexicalKnows, SemanticKnows
<1>2. QED BY <1>1, StaysInStep, PTL
=============================================================================
