------------------------------ MODULE Retrieval ------------------------------
(***************************************************************************)
(* The two ways a prompt gets its memories: Retriever::retrieve over        *)
(* HybridSearcher::search, and the wake-up of wakeup.rs, while other         *)
(* processes ingest, move items between scopes and reindex.                 *)
(*                                                                         *)
(* Both are many statements: the full-text index has its own copy of the    *)
(* scopes, vector hits are looked up in the store afterwards, every block   *)
(* is a SELECT of its own, and a wake-up counts before it lists.  Items are *)
(* numbered by created_at; a scope is its sequence of segments, empty for   *)
(* an item without one.  Which items match a query, and in which order, is  *)
(* the choice of Tantivy and of usearch.                                    *)
(***************************************************************************)
EXTENDS Lists, Functions
LOCAL INSTANCE SequencesExt
LOCAL INSTANCE FiniteSetsExt

CONSTANTS
    FirstRows,      \* scopes of the items there are when a call begins
    ScopePath,      \* scopes an item may get
    NoFilter, ScopeFilters,     \* filters [path, exact] of searches
    ScopeSets,      \* lists of filters of wake-ups
    SearchLimit, FetchMultiplier, RrfK, MaxBlocks, WakeupLimit,
    Bytes, Budget,  \* rendered size of a block, and max_bytes
    MaxRows, MaxChanges         \* bounds

ASSUME RetrievalAssumption ==
    /\ SearchLimit \in Nat /\ FetchMultiplier \in Nat /\ RrfK \in Nat
    /\ MaxBlocks \in Nat /\ WakeupLimit \in Nat /\ Budget \in Nat
    /\ MaxRows \in Nat /\ MaxChanges \in Nat
    /\ FirstRows \subseteq Seq(ScopePath) \ {<< >>}
    /\ \A set \in ScopeSets : set \in Seq({set[k] : k \in DOMAIN set})

VARIABLES
    rows,           \* the scope column of the items
    documents,      \* <<item, scope>> pairs of the full-text index
    embeddings,     \* the items with a vector
    changes,        \* changes so far, for the bound
    rescoped,       \* history: items stored or moved since the call began
    reader          \* the call: its arguments and what it has read

retrieval_vars == <<rows, documents, embeddings, changes, rescoped, reader>>

Stored == 1 .. Len(rows)

\* ScopeFilter::matches; the SQL and Tantivy clauses mean the same.
Matches(f, scope) ==
    \/ f = NoFilter
    \/ scope = f.path /\ scope # << >>
    \/ ~f.exact /\ IsStrictPrefix(f.path, scope)

Smaller(m, n) == IF m < n THEN m ELSE n
First(s, n) == SubSeq(s, 1, Smaller(n, Len(s)))

\* What a ranker may return: the items of S it finds, best first, at most n.
Rankings(S, n) ==
    UNION {{s \in [1 .. k -> S] : IsInjective(s)} : k \in 0 .. Smaller(n, Cardinality(S))}

FetchN == IF SearchLimit * FetchMultiplier < 1 THEN 1 ELSE SearchLimit * FetchMultiplier

Rank(s, i) == CHOOSE k \in DOMAIN s : s[k] = i

(***************************************************************************)
(* rrf_fuse: an item scores 1 / (k + rank) in each list that has it.        *)
(***************************************************************************)
\* Mutant of RrfScore: the semantic score replaces the lexical one.
RrfScoreReplaced(lex, sem, i) ==
    IF i \in ToSet(sem) THEN <<1, RrfK + Rank(sem, i)>> ELSE <<1, RrfK + Rank(lex, i)>>

\* A score as a fraction.
RrfScore(lex, sem, i) ==
    LET l == RrfK + Rank(lex, i)
        s == RrfK + Rank(sem, i)
    IN IF i \notin ToSet(sem) THEN <<1, l>>
       ELSE IF i \notin ToSet(lex) THEN <<1, s>>
       ELSE <<l + s, l * s>>

Above(lex, sem, i, j) ==
    LET a == RrfScore(lex, sem, i)
        b == RrfScore(lex, sem, j)
    IN a[1] * b[2] > b[1] * a[2] \/ (a[1] * b[2] = b[1] * a[2] /\ i < j)

RrfFuse(lex, sem) ==
    LET found == ToSet(lex) \cup ToSet(sem)
    IN Ordered(found, {p \in found \X found : Above(lex, sem, p[1], p[2])})

(***************************************************************************)
(* A call begins.                                                          *)
(***************************************************************************)
NoCall ==
    [at |-> "idle", mode |-> "none", filter |-> NoFilter, lexical |-> << >>, stale |-> {},
     semantic |-> << >>, hits |-> << >>, blocks |-> << >>, scopes |-> << >>, listed |-> 0,
     known |-> 0, total |-> 0]

\* resolve_search_mode, for the sidecars that exist.
ResolveSearchMode(mode, sidecars) ==
    CASE sidecars = {} -> "refused"
      [] mode = "auto" -> IF sidecars = {"lexical", "semantic"} THEN "hybrid"
                          ELSE CHOOSE m \in sidecars : TRUE
      [] mode = "hybrid" -> IF sidecars = {"lexical", "semantic"} THEN mode ELSE "refused"
      [] OTHER -> IF mode \in sidecars THEN mode ELSE "refused"

\* The first item may have moved since it was indexed.
RetrievalInit ==
    /\ rows \in FirstRows
    /\ \E s \in ScopePath :
          documents = {<<1, s>>} \cup {<<i, rows[i]>> : i \in Stored \ {1}}
    /\ embeddings = Stored
    /\ changes = 0 /\ rescoped = {} /\ reader = NoCall

AskRetrieve(mode, f, sidecars) ==
    /\ reader.at = "idle" /\ ResolveSearchMode(mode, sidecars) # "refused"
    /\ reader' = [reader EXCEPT !.at = "lexical", !.mode = ResolveSearchMode(mode, sidecars),
                                !.filter = f]
    /\ rescoped' = {}
    /\ UNCHANGED <<rows, documents, embeddings, changes>>

(***************************************************************************)
(* HybridSearcher::search.                                                 *)
(***************************************************************************)
Limit == IF reader.mode = "hybrid" THEN FetchN ELSE SearchLimit

InIndex == {d[1] : d \in {e \in documents : Matches(reader.filter, e[2])}}

LexicalHits(ranking) ==
    /\ reader.at = "lexical" /\ reader.mode \in {"lexical", "hybrid"}
    /\ reader' = [reader EXCEPT
          !.lexical = ranking,
          !.stale = {d[1] : d \in {e \in documents : rows[e[1]] # e[2]}},
          !.at = IF reader.mode = "hybrid" THEN "semantic" ELSE "fuse"]
    /\ UNCHANGED <<rows, documents, embeddings, changes, rescoped>>

NoLexical ==
    /\ reader.at = "lexical" /\ reader.mode = "semantic"
    /\ reader' = [reader EXCEPT !.at = "semantic"]
    /\ UNCHANGED <<rows, documents, embeddings, changes, rescoped>>

\* A scoped search asks for twice as many candidates, since the filter comes
\* after the search.
Candidates ==
    IF reader.filter = NoFilter THEN Limit ELSE 2 * FetchN

\* Mutant of ScopeFilterHits: nothing is looked up.
ScopeFilterHitsOff(ranking) == ranking

\* scope_filter_hits, with the scopes of the store.
ScopeFilterHits(ranking) == Only(ranking, {i \in Stored : Matches(reader.filter, rows[i])})

SemanticHits(ranking) ==
    /\ reader.at = "semantic"
    /\ reader' = [reader EXCEPT !.semantic = First(ScopeFilterHits(ranking), Limit),
                                !.at = "fuse"]
    /\ UNCHANGED <<rows, documents, embeddings, changes, rescoped>>

\* One ranker's hits stay as they are.  The rankers take min_score 0.
Fuse ==
    /\ reader.at = "fuse"
    /\ reader' = [reader EXCEPT
          !.hits = First(First(IF reader.mode = "hybrid"
                               THEN RrfFuse(reader.lexical, reader.semantic)
                               ELSE reader.lexical \o reader.semantic, SearchLimit), MaxBlocks),
          !.at = "get"]
    /\ UNCHANGED <<rows, documents, embeddings, changes, rescoped>>

\* Store::get for the next hit.
GetBlock ==
    /\ reader.at = "get" /\ Len(reader.blocks) < Len(reader.hits)
    /\ LET i == reader.hits[Len(reader.blocks) + 1]
       IN reader' = [reader EXCEPT !.blocks = Append(@, [id |-> i, scope |-> rows[i]])]
    /\ UNCHANGED <<rows, documents, embeddings, changes, rescoped>>

(***************************************************************************)
(* wakeup::build and render.                                               *)
(***************************************************************************)
InAny(set, scope) == \E f \in ToSet(set) : Matches(f, scope)

AskWakeup(set) ==
    /\ reader.at = "idle"
    /\ reader' = [reader EXCEPT
          !.at = "list", !.mode = "wakeup", !.scopes = set, !.known = Len(rows),
          !.total = Cardinality({i \in Stored : InAny(set, rows[i])})]
    /\ rescoped' = {}
    /\ UNCHANGED <<rows, documents, embeddings, changes>>

NewestFirst(set) == Ordered(set, {p \in set \X set : p[1] > p[2]})

\* Mutant of Recent: the oldest items.
RecentOldest(f) == First(Reverse(NewestFirst({i \in Stored : Matches(f, rows[i])})), WakeupLimit)

\* Store::recent.
Recent(f) == First(NewestFirst({i \in Stored : Matches(f, rows[i])}), WakeupLimit)

\* The newest items of the next filter.
ListScope ==
    /\ reader.at = "list" /\ reader.listed < Len(reader.scopes)
    /\ reader' = [reader EXCEPT !.listed = @ + 1,
                                !.hits = @ \o Recent(reader.scopes[reader.listed + 1])]
    /\ UNCHANGED <<rows, documents, embeddings, changes, rescoped>>

\* Newest first without duplicates, cut, and put in order of time.
Merged(found) == Reverse(First(NewestFirst(ToSet(found)), WakeupLimit))

MergeScopes ==
    /\ reader.at = "list" /\ reader.listed = Len(reader.scopes)
    /\ reader' = [reader EXCEPT !.at = "render", !.hits = Merged(@), !.blocks = Merged(reader.hits)]
    /\ UNCHANGED <<rows, documents, embeddings, changes, rescoped>>

Size(blocks) == MapThenSumSet(LAMBDA k : Bytes[blocks[k]], DOMAIN blocks)

Fits(blocks) == blocks = << >> \/ Size(blocks) <= Budget

DropOldest ==
    /\ reader.at = "render" /\ ~Fits(reader.blocks)
    /\ reader' = [reader EXCEPT !.blocks = Tail(@)]
    /\ UNCHANGED <<rows, documents, embeddings, changes, rescoped>>

(***************************************************************************)
(* Other processes meanwhile.                                              *)
(***************************************************************************)
Change ==
    /\ changes < MaxChanges /\ changes' = changes + 1
    /\ UNCHANGED reader

\* An ingest; each sidecar may miss it.
StoreItem(s, in_lexical, in_semantic) ==
    /\ Change /\ Len(rows) < MaxRows
    /\ rows' = Append(rows, s)
    /\ documents' = documents \cup (IF in_lexical THEN {<<Len(rows) + 1, s>>} ELSE {})
    /\ embeddings' = embeddings \cup (IF in_semantic THEN {Len(rows) + 1} ELSE {})
    /\ rescoped' = rescoped \cup {Len(rows) + 1}

\* Store::set_scope tells no index.
MoveItem(i, s) ==
    /\ Change /\ i \in Stored /\ s # rows[i]
    /\ rows' = [rows EXCEPT ![i] = s]
    /\ rescoped' = rescoped \cup {i}
    /\ UNCHANGED <<documents, embeddings>>

ReindexAll ==
    /\ Change
    /\ documents' = {<<i, rows[i]>> : i \in Stored} /\ embeddings' = Stored
    /\ documents' # documents \/ embeddings' # embeddings
    /\ UNCHANGED <<rows, rescoped>>

RetrievalNext ==
    \/ \E mode \in {"auto", "lexical", "semantic", "hybrid"}, f \in ScopeFilters \cup {NoFilter},
          sidecars \in SUBSET {"lexical", "semantic"} : AskRetrieve(mode, f, sidecars)
    \/ \E r \in Rankings(InIndex, Limit) : LexicalHits(r)
    \/ NoLexical
    \/ \E r \in Rankings(embeddings, Candidates) : SemanticHits(r)
    \/ Fuse \/ GetBlock
    \/ \E set \in ScopeSets : AskWakeup(set)
    \/ ListScope \/ MergeScopes \/ DropOldest
    \/ \E s \in ScopePath :
          \/ \E l, v \in BOOLEAN : StoreItem(s, l, v)
          \/ \E i \in Stored : MoveItem(i, s)
    \/ ReindexAll

RetrievalSpec == RetrievalInit /\ [][RetrievalNext]_retrieval_vars

(***************************************************************************)
(* Properties.                                                             *)
(***************************************************************************)
Retrieved == reader.at = "get"

\* A block outside the requested scope was moved there while the call ran, or
\* comes from a document the full-text index still has under an older scope;
\* a vector hit never leaks one (scope_filter_hits, Store::set_scope).
LeaksAreExplained ==
    Retrieved =>
        \A k \in DOMAIN reader.blocks :
            LET b == reader.blocks[k]
            IN Matches(reader.filter, b.scope) \/ b.id \in rescoped
               \/ (b.id \in reader.stale /\ b.id \in ToSet(reader.lexical))

Ranked(s, i, j) == j \in ToSet(s) => i \in ToSet(s) /\ Rank(s, i) < Rank(s, j)

\* Whatever both rankers that ran agree on, the answer keeps: an item that
\* stands above another in every list with either comes before it and is not
\* cut off while the other is shown; no item is shown twice (rrf_fuse,
\* search_hybrid, Retriever::retrieve).
AgreementKept ==
    Retrieved =>
        /\ IsInjective(reader.hits) /\ Len(reader.hits) <= Smaller(SearchLimit, MaxBlocks)
        /\ \A i \in ToSet(reader.lexical \o reader.semantic), j \in ToSet(reader.hits) :
              i # j /\ Ranked(reader.lexical, i, j) /\ Ranked(reader.semantic, i, j) =>
                Ranked(reader.hits, i, j)

\* Stored in a scope of the wake-up when it began, and left there.
Steady(i) == i <= reader.known /\ i \notin rescoped /\ InAny(reader.scopes, rows[i])

\* The wake-up shows the newest items of its scopes in order of time, whatever
\* happens between its statements and although its scopes may overlap: an
\* item that was there all along is left out only for newer ones, or for the
\* budget, which drops the oldest (build, Store::recent, render).
WakeUpIsNewest ==
    reader.at = "render" =>
        /\ \A k \in 2 .. Len(reader.hits) : reader.hits[k - 1] < reader.hits[k]
        /\ \A i \in Stored : Steady(i) /\ i \notin ToSet(reader.hits) =>
              Len(reader.hits) = WakeupLimit /\ \A k \in DOMAIN reader.hits : reader.hits[k] > i
        /\ \A i \in ToSet(reader.hits) : InAny(reader.scopes, rows[i]) \/ i \in rescoped
        /\ rescoped = {} => Len(reader.hits) = Smaller(WakeupLimit, reader.total)
        /\ IsSuffix(reader.blocks, reader.hits)
        /\ reader.blocks # reader.hits =>
              ~Fits(SubSeq(reader.hits, Len(reader.hits) - Len(reader.blocks), Len(reader.hits)))
=============================================================================
