--------------------------- MODULE RetrievalProofs ---------------------------
(***************************************************************************)
(* Proofs about Retrieval, for every set of rows, scopes and filters and     *)
(* every limit.  What other processes do between two statements of a call    *)
(* changes the row of an item only together with rescoped (Meanwhile), so    *)
(* what a statement has seen stays true of the items that stayed where they  *)
(* were.                                                                    *)
(***************************************************************************)
EXTENDS Retrieval, ListProofs
LOCAL INSTANCE SequencesExt

-----------------------------------------------------------------------------
(* Lists of items. *)

LEMMA FirstKeeps ==
    ASSUME NEW S, NEW s \in Seq(S), NEW n \in Nat
    PROVE  /\ First(s, n) \in Seq(S) /\ Len(First(s, n)) = Smaller(n, Len(s))
           /\ Smaller(n, Len(s)) \in Nat /\ Smaller(n, Len(s)) <= n /\ Smaller(n, Len(s)) <= Len(s)
           /\ \A k \in 1 .. Len(First(s, n)) : First(s, n)[k] = s[k]
           /\ IsInjective(s) => IsInjective(First(s, n))
<1> DEFINE m == Smaller(n, Len(s))
           t == First(s, n)
<1>1. Len(s) \in Nat /\ m \in Nat /\ m <= n /\ m <= Len(s)
  BY DEF Smaller
<1>2. t = SubSeq(s, 1, m)
  BY DEF First
<1> HIDE DEF m, t
<1>3. t \in Seq(S) /\ Len(t) = m /\ \A k \in 1 .. m : t[k] = s[k]
  <2>1. t = [k \in 1 .. m |-> s[k]]
    BY <1>1, <1>2
  <2>2. \A k \in 1 .. m : s[k] \in S
    BY <1>1
  <2>3. QED BY <1>1, <2>1, <2>2
<1>4. DOMAIN t = 1 .. m /\ DOMAIN s = 1 .. Len(s)
  BY <1>3
<1>5. 1 .. m \subseteq 1 .. Len(s)
  BY <1>1
<1>6. IsInjective(s) => IsInjective(t)
  <2> SUFFICES ASSUME IsInjective(s), NEW j \in 1 .. m, NEW k \in 1 .. m, t[j] = t[k] PROVE j = k
    BY <1>4 DEF IsInjective
  <2>1. s[j] = s[k] /\ j \in DOMAIN s /\ k \in DOMAIN s
    BY <1>3, <1>4, <1>5
  <2>2. QED BY <2>1 DEF IsInjective
<1>7. QED BY <1>1, <1>3, <1>6 DEF m, t

LEMMA FirstMembers ==
    ASSUME NEW S, NEW s \in Seq(S), NEW n \in Nat
    PROVE  ToSet(First(s, n)) \subseteq ToSet(s)
<1> DEFINE t == First(s, n)
<1>a. /\ t \in Seq(S) /\ Len(t) = Smaller(n, Len(s)) /\ Smaller(n, Len(s)) <= Len(s)
      /\ \A k \in 1 .. Len(t) : t[k] = s[k]
  BY FirstKeeps
<1>1. Len(t) \in Nat /\ Len(s) \in Nat /\ Len(t) <= Len(s)
  <2> HIDE DEF t
  <2>1. QED BY <1>a
<1> HIDE DEF t
<1>2. \A k \in 1 .. Len(t) : k \in 1 .. Len(s)
  BY <1>1
<1>3. DOMAIN t = 1 .. Len(t) /\ DOMAIN s = 1 .. Len(s)
  BY <1>a
<1>4. QED BY <1>a, <1>2, <1>3 DEF ToSet, t

LEMMA RankingsAreLists ==
    ASSUME NEW S, IsFiniteSet(S), NEW n \in Nat, NEW r \in Rankings(S, n)
    PROVE  r \in Seq(S) /\ IsInjective(r)
<1>1. Cardinality(S) \in Nat
  BY FS_CardinalityType
<1>2. PICK k \in 0 .. Smaller(n, Cardinality(S)) : r \in [1 .. k -> S] /\ IsInjective(r)
  BY DEF Rankings
<1>3. k \in Nat
  BY <1>1 DEF Smaller
<1>4. QED BY <1>2, <1>3

LEMMA Members ==
    ASSUME NEW S, NEW s \in Seq(S)
    PROVE  ToSet(s) \subseteq S /\ \A i : i \in ToSet(s) <=> \E k \in 1 .. Len(s) : s[k] = i
BY DEF ToSet

LEMMA Limits == FetchN \in Nat /\ Limit \in Nat /\ Candidates \in Nat
<1>1. SearchLimit * FetchMultiplier \in Nat /\ SearchLimit \in Nat
  BY RetrievalAssumption
<1>2. FetchN \in Nat
  BY <1>1 DEF FetchN
<1>3. QED BY <1>1, <1>2 DEF Limit, Candidates

-----------------------------------------------------------------------------
(* Types. *)

Block == [id : Nat, scope : ScopePath]

Reader ==
    [at : {"idle", "lexical", "semantic", "fuse", "get", "list", "render"},
     mode : {"none", "lexical", "semantic", "hybrid", "wakeup"},
     filter : ScopeFilters \cup {NoFilter}, lexical : Seq(Nat), stale : SUBSET Nat,
     semantic : Seq(Nat), hits : Seq(Nat), blocks : Seq(Block) \cup Seq(Nat),
     scopes : ScopeSets \cup {<< >>}, listed : Nat, known : Nat, total : Nat]

RetrievalTypes ==
    /\ rows \in Seq(ScopePath) /\ rows # << >>
    /\ documents \subseteq Stored \X ScopePath /\ embeddings \subseteq Stored
    /\ changes \in Nat /\ rescoped \subseteq Stored
    /\ reader \in Reader
    /\ reader.at = "get" => reader.blocks \in Seq(Block)
    /\ reader.at = "render" => reader.blocks \in Seq(Nat)

LEMMA StoredFinite ==
    ASSUME RetrievalTypes
    PROVE  /\ Len(rows) \in Nat /\ Stored \subseteq Nat /\ IsFiniteSet(Stored)
           /\ InIndex \subseteq Stored /\ IsFiniteSet(InIndex) /\ IsFiniteSet(embeddings)
<1>1. Len(rows) \in Nat
  BY DEF RetrievalTypes
<1>2. Stored \subseteq Nat /\ IsFiniteSet(Stored)
  BY <1>1, FS_Interval DEF Stored
<1>3. InIndex \subseteq Stored /\ embeddings \subseteq Stored
  BY DEF InIndex, RetrievalTypes
<1>4. QED BY <1>1, <1>2, <1>3, FS_Subset

-----------------------------------------------------------------------------
(* Other processes. *)

\* What a change of another process leaves of what was there.
Meanwhile ==
    /\ Stored \subseteq Stored' /\ rescoped \subseteq rescoped' /\ rescoped' \subseteq Stored'
    /\ \A i \in Stored : i \in rescoped' \/ rows'[i] = rows[i]
    /\ rescoped' = {} => rows' = rows

Changed ==
    \/ \E s \in ScopePath : (\E l, v \in BOOLEAN : StoreItem(s, l, v)) \/ (\E i \in Stored : MoveItem(i, s))
    \/ ReindexAll

LEMMA StoreItemChanges ==
    ASSUME RetrievalTypes, NEW s \in ScopePath, NEW l \in BOOLEAN, NEW v \in BOOLEAN,
           StoreItem(s, l, v)
    PROVE  RetrievalTypes' /\ Meanwhile /\ reader' = reader
<1> DEFINE n == Len(rows)
<1>1. n \in Nat /\ rows \in Seq(ScopePath)
  BY DEF RetrievalTypes
<1>2. /\ rows' = Append(rows, s) /\ rescoped' = rescoped \cup {n + 1} /\ reader' = reader
      /\ documents' \subseteq documents \cup {<<n + 1, s>>}
      /\ embeddings' \subseteq embeddings \cup {n + 1} /\ changes' = changes + 1
  BY DEF StoreItem, Change
<1>3. /\ rows' \in Seq(ScopePath) /\ Len(rows') = n + 1 /\ \A k \in 1 .. n : rows'[k] = rows[k]
      /\ rows' # << >>
  BY <1>1, <1>2
<1>4. Stored \subseteq Stored' /\ n + 1 \in Stored'
  BY <1>1, <1>3 DEF Stored
<1>5. /\ documents' \subseteq Stored' \X ScopePath /\ embeddings' \subseteq Stored'
      /\ rescoped' \subseteq Stored'
  <2>1. documents \subseteq Stored \X ScopePath /\ embeddings \subseteq Stored /\ rescoped \subseteq Stored
    BY DEF RetrievalTypes
  <2>2. QED BY <1>2, <1>4, <2>1
<1>6. RetrievalTypes'
  BY <1>2, <1>3, <1>5 DEF RetrievalTypes
<1>7. \A i \in Stored : rows'[i] = rows[i]
  BY <1>3 DEF Stored
<1>8. QED BY <1>2, <1>4, <1>5, <1>6, <1>7 DEF Meanwhile

LEMMA MoveItemChanges ==
    ASSUME RetrievalTypes, NEW s \in ScopePath, NEW i \in Stored, MoveItem(i, s)
    PROVE  RetrievalTypes' /\ Meanwhile /\ reader' = reader
<1>1. /\ rows' = [rows EXCEPT ![i] = s] /\ rescoped' = rescoped \cup {i} /\ reader' = reader
      /\ UNCHANGED <<documents, embeddings>> /\ changes' = changes + 1
  BY DEF MoveItem, Change
<1>2. rows \in Seq(ScopePath) /\ rows # << >> /\ Len(rows) \in Nat
  BY DEF RetrievalTypes
<1>3. rows' \in Seq(ScopePath) /\ Len(rows') = Len(rows) /\ \A k \in Stored : k # i => rows'[k] = rows[k]
  BY <1>1, <1>2 DEF Stored
<1>4. rows' # << >>
  BY <1>2, <1>3, EmptySeq
<1>5. Stored' = Stored
  BY <1>3 DEF Stored
<1>6. RetrievalTypes'
  BY <1>1, <1>3, <1>4, <1>5 DEF RetrievalTypes
<1>7. QED BY <1>1, <1>3, <1>5, <1>6 DEF Meanwhile, RetrievalTypes

LEMMA ChangesKeep ==
    ASSUME RetrievalTypes, Changed
    PROVE  RetrievalTypes' /\ Meanwhile /\ reader' = reader
<1>1. CASE ReindexAll
  <2>1. rows' = rows /\ rescoped' = rescoped /\ reader' = reader /\ Stored' = Stored
    BY <1>1 DEF ReindexAll, Change, Stored
  <2>2. documents' \subseteq Stored \X ScopePath /\ embeddings' \subseteq Stored
    <3>1. \A i \in Stored : rows[i] \in ScopePath
      BY DEF RetrievalTypes, Stored
    <3>2. QED BY <1>1, <3>1 DEF ReindexAll
  <2>3. changes' \in Nat
    BY <1>1 DEF ReindexAll, Change, RetrievalTypes
  <2>4. QED BY <2>1, <2>2, <2>3 DEF RetrievalTypes, Meanwhile
<1>2. QED BY <1>1, StoreItemChanges, MoveItemChanges DEF Changed

-----------------------------------------------------------------------------
(* The steps of a call keep the types. *)

Reads == \/ \E mode \in {"auto", "lexical", "semantic", "hybrid"}, f \in ScopeFilters \cup {NoFilter},
               sidecars \in SUBSET {"lexical", "semantic"} : AskRetrieve(mode, f, sidecars)
         \/ \E r \in Rankings(InIndex, Limit) : LexicalHits(r)
         \/ NoLexical
         \/ \E r \in Rankings(embeddings, Candidates) : SemanticHits(r)
         \/ Fuse \/ GetBlock
         \/ \E set \in ScopeSets : AskWakeup(set)
         \/ ListScope \/ MergeScopes \/ DropOldest

LEMMA NextIsReadOrChange == RetrievalNext => Reads \/ Changed
BY DEF RetrievalNext, Reads, Changed

LEMMA ResolvedMode ==
    ASSUME NEW mode \in {"auto", "lexical", "semantic", "hybrid"},
           NEW sidecars \in SUBSET {"lexical", "semantic"},
           ResolveSearchMode(mode, sidecars) # "refused"
    PROVE  ResolveSearchMode(mode, sidecars) \in {"lexical", "semantic", "hybrid"}
<1>1. CASE sidecars = {}
  BY <1>1 DEF ResolveSearchMode
<1>2. CASE sidecars # {} /\ mode = "auto"
  <2>1. (CHOOSE m \in sidecars : TRUE) \in sidecars
    BY <1>2
  <2>2. QED BY <1>2, <2>1 DEF ResolveSearchMode
<1>3. CASE sidecars # {} /\ mode # "auto"
  BY <1>3 DEF ResolveSearchMode
<1>4. QED BY <1>1, <1>2, <1>3

\* The newest come first.
LEMMA SortedNewest ==
    ASSUME NEW S \in SUBSET Nat, IsFiniteSet(S)
    PROVE  /\ Cardinality(S) \in Nat
           /\ NewestFirst(S) \in Seq(S) /\ Len(NewestFirst(S)) = Cardinality(S)
           /\ \A i \in S : \E k \in 1 .. Cardinality(S) : NewestFirst(S)[k] = i
           /\ \A j, k \in 1 .. Cardinality(S) : j < k => NewestFirst(S)[j] > NewestFirst(S)[k]
           /\ IsInjective(NewestFirst(S))
<1> DEFINE before == {p \in S \X S : p[1] > p[2]}
           s == Ordered(S, before)
<1>1. \A x, y \in S : <<x, y>> \in before <=> x > y
  OBVIOUS
<1> HIDE DEF before
<1>2. Orders(before, S)
  <2>1. S \subseteq Nat
    OBVIOUS
  <2>2. QED BY <1>1, <2>1 DEF Orders
<1>3. /\ Cardinality(S) \in Nat /\ s \in Seq(S) /\ Len(s) = Cardinality(S)
      /\ s \in [1 .. Cardinality(S) -> S]
      /\ \A x \in S : \E k \in 1 .. Cardinality(S) : s[k] = x
      /\ \A j, k \in 1 .. Cardinality(S) : j < k => <<s[j], s[k]>> \in before
      /\ \A j, k \in 1 .. Cardinality(S) : s[j] = s[k] => j = k
  BY <1>2, OrderedSorts
<1> HIDE DEF s
<1>4. \A j, k \in 1 .. Cardinality(S) : j < k => s[j] > s[k]
  BY <1>1, <1>3
<1>5. IsInjective(s)
  BY <1>3 DEF IsInjective
<1>6. NewestFirst(S) = s
  BY DEF NewestFirst, s, before
<1>7. QED BY <1>3, <1>4, <1>5, <1>6

-----------------------------------------------------------------------------
(* Fractions, compared by their cross products. *)

Positive == Nat \ {0}

LEMMA TimesPositive ==
    ASSUME NEW a \in Positive, NEW b \in Positive
    PROVE  a * b \in Positive
BY DEF Positive

LEMMA TimesMore ==
    ASSUME NEW x \in Nat, NEW y \in Nat, NEW k \in Positive
    PROVE  (x > y <=> x * k > y * k) /\ (x >= y <=> x * k >= y * k)
<1>1. k \in Nat /\ k > 0
  BY DEF Positive
<1>2. ASSUME NEW u \in Nat, NEW w \in Nat, u > w PROVE u * k > w * k
  <2>1. PICK d \in Nat : u = w + d /\ d > 0
    <3>1. u - w \in Nat /\ u = w + (u - w) /\ u - w > 0
      BY <1>2
    <3>2. QED BY <3>1
  <2>2. u * k = w * k + d * k
    BY <1>1, <2>1
  <2>3. d * k > 0 /\ w * k \in Nat /\ d * k \in Nat
    BY <1>1, <2>1
  <2> DEFINE uk == u * k
             wk == w * k
             dk == d * k
  <2>4. uk = wk + dk /\ dk > 0 /\ wk \in Nat /\ dk \in Nat
    BY <2>2, <2>3
  <2> HIDE DEF uk, wk, dk
  <2>5. uk > wk
    BY <2>4
  <2>6. QED BY <2>5 DEF uk, wk
<1>3. x * k \in Nat /\ y * k \in Nat
  BY <1>1
<1> DEFINE xk == x * k
           yk == y * k
<1>4. (x > y => xk > yk) /\ (y > x => yk > xk) /\ (x = y => xk = yk)
  BY <1>2
<1>5. xk \in Nat /\ yk \in Nat
  BY <1>3
<1> HIDE DEF xk, yk
<1>6. (x > y <=> xk > yk) /\ (x >= y <=> xk >= yk)
  BY <1>4, <1>5
<1>7. QED BY <1>6 DEF xk, yk

LEMMA Exchange ==
    ASSUME NEW a \in Nat, NEW b \in Nat, NEW c \in Nat
    PROVE  (a * b) * c = (a * c) * b
OBVIOUS

LEMMA FractionsChain ==
    ASSUME NEW a1 \in Positive, NEW a2 \in Positive, NEW b1 \in Positive, NEW b2 \in Positive,
           NEW c1 \in Positive, NEW c2 \in Positive,
           a1 * b2 >= b1 * a2, b1 * c2 >= c1 * b2
    PROVE  /\ a1 * c2 >= c1 * a2
           /\ a1 * b2 > b1 * a2 \/ b1 * c2 > c1 * b2 => a1 * c2 > c1 * a2
           /\ a1 * b2 = b1 * a2 /\ b1 * c2 = c1 * b2 => a1 * c2 = c1 * a2
<1> DEFINE ab == a1 * b2
           ba == b1 * a2
           bc == b1 * c2
           cb == c1 * b2
           ac == a1 * c2
           ca == c1 * a2
<1>1. Positive \subseteq Nat
  BY DEF Positive
<1>2. ab \in Nat /\ ba \in Nat /\ bc \in Nat /\ cb \in Nat /\ ac \in Nat /\ ca \in Nat
  BY <1>1
<1>3. ab >= ba /\ bc >= cb
  OBVIOUS
<1>4. ab * c2 = ac * b2 /\ ba * c2 = bc * a2 /\ cb * a2 = ca * b2
  BY <1>1, Exchange
<1> HIDE DEF ab, ba, bc, cb, ac, ca
<1>5. ab * c2 >= ba * c2 /\ (ab > ba => ab * c2 > ba * c2)
  BY <1>2, <1>3, TimesMore
<1>6. bc * a2 >= cb * a2 /\ (bc > cb => bc * a2 > cb * a2)
  BY <1>2, <1>3, TimesMore
<1> DEFINE p == ac * b2
           q == ba * c2
           r == ca * b2
<1>7. p \in Nat /\ q \in Nat /\ r \in Nat
  BY <1>1, <1>2
<1>8. /\ p >= q /\ (ab > ba => p > q) /\ q >= r /\ (bc > cb => q > r)
      /\ (ab = ba => p = q) /\ (bc = cb => q = r)
  BY <1>4, <1>5, <1>6
<1>9. (ac > ca <=> p > r) /\ (ac >= ca <=> p >= r)
  BY <1>2, TimesMore
<1>10. (ca > ac <=> r > p) /\ (ca >= ac <=> r >= p)
  BY <1>2, TimesMore
<1> HIDE DEF p, q, r
<1>11. p >= r /\ (ab > ba \/ bc > cb => p > r) /\ (ab = ba /\ bc = cb => p = r)
  BY <1>7, <1>8
<1>12. /\ ac >= ca /\ (ab > ba \/ bc > cb => ac > ca)
       /\ (ab = ba /\ bc = cb => ac = ca)
  BY <1>2, <1>7, <1>9, <1>10, <1>11
<1>13. QED BY <1>12 DEF ab, ba, bc, cb, ac, ca

-----------------------------------------------------------------------------
(* The fusion of two rankings. *)

LEMMA RankIs ==
    ASSUME NEW S, NEW s \in Seq(S), NEW i \in ToSet(s)
    PROVE  /\ Rank(s, i) \in 1 .. Len(s) /\ Rank(s, i) \in Positive /\ s[Rank(s, i)] = i
           /\ IsInjective(s) => \A k \in 1 .. Len(s) : s[k] = i => Rank(s, i) = k
<1>1. DOMAIN s = 1 .. Len(s) /\ Len(s) \in Nat
  OBVIOUS
<1>2. \E k \in DOMAIN s : s[k] = i
  BY DEF ToSet
<1>3. Rank(s, i) \in DOMAIN s /\ s[Rank(s, i)] = i
  BY <1>2 DEF Rank
<1>4. IsInjective(s) => \A k \in DOMAIN s : s[k] = i => Rank(s, i) = k
  BY <1>3 DEF IsInjective
<1>5. Rank(s, i) \in Positive
  BY <1>1, <1>3 DEF Positive
<1>6. QED BY <1>1, <1>3, <1>4, <1>5

\* What a ranking adds to the score of an item is one over this.
LEMMA SharePositive ==
    ASSUME NEW S, NEW s \in Seq(S), NEW i \in ToSet(s)
    PROVE  RrfK + Rank(s, i) \in Positive
<1>1. Rank(s, i) \in Positive
  BY RankIs
<1>2. RrfK \in Nat
  BY RetrievalAssumption
<1>3. QED BY <1>1, <1>2 DEF Positive

LEMMA ScorePositive ==
    ASSUME NEW lex \in Seq(Nat), NEW sem \in Seq(Nat), NEW i \in ToSet(lex) \cup ToSet(sem)
    PROVE  RrfScore(lex, sem, i)[1] \in Positive /\ RrfScore(lex, sem, i)[2] \in Positive
<1> DEFINE l == RrfK + Rank(lex, i)
           s == RrfK + Rank(sem, i)
<1>0. 1 \in Positive
  BY DEF Positive
<1>1. CASE i \notin ToSet(sem)
  <2>1. l \in Positive
    BY <1>1, SharePositive
  <2>2. RrfScore(lex, sem, i) = <<1, l>>
    BY <1>1 DEF RrfScore
  <2>3. QED BY <1>0, <2>1, <2>2
<1>2. CASE i \in ToSet(sem) /\ i \notin ToSet(lex)
  <2>1. s \in Positive
    BY <1>2, SharePositive
  <2>2. RrfScore(lex, sem, i) = <<1, s>>
    BY <1>2 DEF RrfScore
  <2>3. QED BY <1>0, <2>1, <2>2
<1>3. CASE i \in ToSet(sem) /\ i \in ToSet(lex)
  <2>1. s \in Positive /\ l \in Positive
    BY <1>3, SharePositive
  <2>2. RrfScore(lex, sem, i) = <<l + s, l * s>>
    BY <1>3 DEF RrfScore
  <2> HIDE DEF l, s
  <2>3. l + s \in Positive
    BY <2>1 DEF Positive
  <2>4. QED BY <2>1, <2>2, <2>3, TimesPositive
<1>4. QED BY <1>1, <1>2, <1>3

LEMMA AboveOrders ==
    ASSUME NEW lex \in Seq(Nat), NEW sem \in Seq(Nat)
    PROVE  LET found == ToSet(lex) \cup ToSet(sem)
           IN Orders({p \in found \X found : Above(lex, sem, p[1], p[2])}, found)
<1> DEFINE found == ToSet(lex) \cup ToSet(sem)
           before == {p \in found \X found : Above(lex, sem, p[1], p[2])}
           S(i) == RrfScore(lex, sem, i)
           Cross(i, j) == S(i)[1] * S(j)[2]
           Over(i, j) == Cross(i, j) > Cross(j, i) \/ (Cross(i, j) = Cross(j, i) /\ i < j)
<1>1. found \subseteq Nat
  BY Members
<1>2. \A i \in found : S(i)[1] \in Positive /\ S(i)[2] \in Positive
  BY ScorePositive
<1>3. \A i, j \in found : Cross(i, j) \in Nat
  BY <1>2, TimesPositive DEF Positive
<1>4. \A i, j \in found : <<i, j>> \in before <=> Over(i, j)
  BY DEF Above
<1>5. ASSUME NEW i \in found, NEW j \in found, NEW k \in found, Over(i, j), Over(j, k)
      PROVE  Over(i, k)
  <2>1. Cross(i, j) >= Cross(j, i) /\ Cross(j, k) >= Cross(k, j)
    <3>1. Cross(i, j) \in Nat /\ Cross(j, i) \in Nat /\ Cross(j, k) \in Nat /\ Cross(k, j) \in Nat
      BY <1>3
    <3> HIDE DEF Cross, S
    <3>2. QED BY <1>5, <3>1
  <2>2. /\ Cross(i, k) >= Cross(k, i)
        /\ Cross(i, j) > Cross(j, i) \/ Cross(j, k) > Cross(k, j) => Cross(i, k) > Cross(k, i)
        /\ Cross(i, j) = Cross(j, i) /\ Cross(j, k) = Cross(k, j) => Cross(i, k) = Cross(k, i)
    <3> HIDE DEF S
    <3>1. QED BY <1>2, <2>1, FractionsChain, SMTT(30)
  <2>3. i \in Nat /\ j \in Nat /\ k \in Nat
    BY <1>1
  <2> HIDE DEF Cross
  <2>4. QED BY <1>5, <2>2, <2>3
<1>6. ASSUME NEW i \in found, NEW j \in found, i # j PROVE Over(i, j) \/ Over(j, i)
  <2>1. Cross(i, j) \in Nat /\ Cross(j, i) \in Nat /\ i \in Nat /\ j \in Nat
    BY <1>1, <1>3
  <2> HIDE DEF Cross
  <2>2. QED BY <1>6, <2>1
<1>7. ASSUME NEW i \in found PROVE ~Over(i, i)
  <2>1. Cross(i, i) \in Nat /\ i \in Nat
    BY <1>1, <1>3
  <2> HIDE DEF Cross
  <2>2. QED BY <2>1
<1> HIDE DEF found, before, Over
<1>8. Orders(before, found)
  BY <1>4, <1>5, <1>6, <1>7 DEF Orders
<1>9. QED BY <1>8 DEF found, before

LEMMA SumAbove ==
    ASSUME NEW p \in Positive, NEW q \in Positive, NEW x \in Positive, NEW y \in Positive,
           p < x, q < y
    PROVE  (p + q) * (x * y) > (x + y) * (p * q)
<1>1. p \in Nat /\ q \in Nat /\ x \in Nat /\ y \in Nat
  BY DEF Positive
<1>2. p * x \in Positive /\ q * y \in Positive
  BY TimesPositive
<1>3. y * (p * x) > q * (p * x) /\ x * (q * y) > p * (q * y)
  BY <1>1, <1>2, TimesMore
<1> DEFINE a == y * (p * x)
           b == q * (p * x)
           c == x * (q * y)
           d == p * (q * y)
<1>4. (p + q) * (x * y) = a + c /\ (x + y) * (p * q) = b + d
  BY <1>1
<1>5. a \in Nat /\ b \in Nat /\ c \in Nat /\ d \in Nat
  BY <1>1
<1>6. a > b /\ c > d
  BY <1>3
<1> HIDE DEF a, b, c, d
<1>7. a + c > b + d
  BY <1>5, <1>6
<1>8. QED BY <1>4, <1>7

LEMMA PartAbove ==
    ASSUME NEW p \in Positive, NEW q \in Positive, NEW x \in Positive, p < x
    PROVE  (p + q) * x > 1 * (p * q) /\ (q + p) * x > 1 * (q * p)
<1>1. p \in Nat /\ q \in Nat /\ x \in Nat
  BY DEF Positive
<1>2. x * q > p * q
  BY <1>1, TimesMore
<1> DEFINE a == x * q
           b == p * q
           c == p * x
<1>3. (p + q) * x = c + a /\ 1 * (p * q) = b /\ (q + p) * x = c + a /\ 1 * (q * p) = b
  BY <1>1
<1>4. a \in Nat /\ b \in Nat /\ c \in Nat /\ a > b
  BY <1>1, <1>2
<1> HIDE DEF a, b, c
<1>5. c + a > b
  BY <1>4
<1>6. QED BY <1>3, <1>5


LEMMA AgreedAbove ==
    ASSUME NEW lex \in Seq(Nat), NEW sem \in Seq(Nat), NEW i, NEW j \in ToSet(lex) \cup ToSet(sem),
           Ranked(lex, i, j), Ranked(sem, i, j)
    PROVE  i \in ToSet(lex) \cup ToSet(sem) /\ Above(lex, sem, i, j)
<1> DEFINE p == RrfK + Rank(lex, i)
           q == RrfK + Rank(sem, i)
           x == RrfK + Rank(lex, j)
           y == RrfK + Rank(sem, j)
           a == RrfScore(lex, sem, i)
           b == RrfScore(lex, sem, j)
<1>1. j \in ToSet(lex) => i \in ToSet(lex) /\ p \in Positive /\ x \in Positive /\ p < x
  <2> SUFFICES ASSUME j \in ToSet(lex) PROVE i \in ToSet(lex) /\ p \in Positive /\ x \in Positive /\ p < x
    OBVIOUS
  <2>1. i \in ToSet(lex) /\ Rank(lex, i) < Rank(lex, j)
    BY DEF Ranked
  <2>2. Rank(lex, i) \in Positive /\ Rank(lex, j) \in Positive /\ p \in Positive /\ x \in Positive
    BY <2>1, RankIs, SharePositive
  <2>3. RrfK \in Nat
    BY RetrievalAssumption
  <2>4. QED BY <2>1, <2>2, <2>3 DEF Positive
<1>2. j \in ToSet(sem) => i \in ToSet(sem) /\ q \in Positive /\ y \in Positive /\ q < y
  <2> SUFFICES ASSUME j \in ToSet(sem) PROVE i \in ToSet(sem) /\ q \in Positive /\ y \in Positive /\ q < y
    OBVIOUS
  <2>1. i \in ToSet(sem) /\ Rank(sem, i) < Rank(sem, j)
    BY DEF Ranked
  <2>2. Rank(sem, i) \in Positive /\ Rank(sem, j) \in Positive /\ q \in Positive /\ y \in Positive
    BY <2>1, RankIs, SharePositive
  <2>3. RrfK \in Nat
    BY RetrievalAssumption
  <2>4. QED BY <2>1, <2>2, <2>3 DEF Positive
<1>3. i \in ToSet(lex) \cup ToSet(sem)
  BY <1>1, <1>2
<1>4. i \in ToSet(lex) => p \in Positive
  BY SharePositive
<1>5. i \in ToSet(sem) => q \in Positive
  BY SharePositive
<1>6. /\ i \notin ToSet(sem) => a = <<1, p>>
      /\ i \in ToSet(sem) /\ i \notin ToSet(lex) => a = <<1, q>>
      /\ i \in ToSet(sem) /\ i \in ToSet(lex) => a = <<p + q, p * q>>
      /\ j \notin ToSet(sem) => b = <<1, x>>
      /\ j \in ToSet(sem) /\ j \notin ToSet(lex) => b = <<1, y>>
      /\ j \in ToSet(sem) /\ j \in ToSet(lex) => b = <<x + y, x * y>>
  BY DEF RrfScore
<1> HIDE DEF p, q, x, y, a, b
<1>7. a[1] * b[2] > b[1] * a[2]
  <2>1. CASE j \in ToSet(lex) /\ j \in ToSet(sem)
    <3>1. a = <<p + q, p * q>> /\ b = <<x + y, x * y>>
      BY <1>1, <1>2, <1>6, <2>1
    <3>2. (p + q) * (x * y) > (x + y) * (p * q)
      BY <1>1, <1>2, <2>1, SumAbove
    <3>3. QED BY <3>1, <3>2
  <2>2. CASE j \in ToSet(lex) /\ j \notin ToSet(sem)
    <3>1. b = <<1, x>> /\ p \in Positive /\ x \in Positive /\ p < x
      BY <1>1, <1>6, <2>2
    <3>2. CASE i \in ToSet(sem)
      <4>1. a = <<p + q, p * q>>
        BY <1>1, <1>6, <2>2, <3>2
      <4>2. (p + q) * x > 1 * (p * q)
        BY <1>5, <3>1, <3>2, PartAbove
      <4>3. QED BY <3>1, <4>1, <4>2
    <3>3. CASE i \notin ToSet(sem)
      <4>1. a = <<1, p>>
        BY <1>6, <3>3
      <4>2. QED BY <3>1, <4>1 DEF Positive
    <3>4. QED BY <3>2, <3>3
  <2>3. CASE j \notin ToSet(lex) /\ j \in ToSet(sem)
    <3>1. b = <<1, y>> /\ q \in Positive /\ y \in Positive /\ q < y /\ i \in ToSet(sem)
      BY <1>2, <1>6, <2>3
    <3>2. CASE i \in ToSet(lex)
      <4>1. a = <<p + q, p * q>>
        BY <1>6, <3>1, <3>2
      <4>2. (p + q) * y > 1 * (p * q)
        BY <1>4, <3>1, <3>2, PartAbove
      <4>3. QED BY <3>1, <4>1, <4>2
    <3>3. CASE i \notin ToSet(lex)
      <4>1. a = <<1, q>>
        BY <1>6, <3>1, <3>3
      <4>2. QED BY <3>1, <4>1 DEF Positive
    <3>4. QED BY <3>2, <3>3
  <2>4. QED BY <2>1, <2>2, <2>3
<1>8. QED BY <1>3, <1>7 DEF Above, a, b

LEMMA SetOfList ==
    ASSUME NEW S, NEW s \in Seq(S)
    PROVE  /\ IsFiniteSet(ToSet(s)) /\ Cardinality(ToSet(s)) \in Nat /\ Cardinality(ToSet(s)) <= Len(s)
           /\ IsInjective(s) => Cardinality(ToSet(s)) = Len(s)
<1> DEFINE n == Len(s)
<1>1. n \in Nat /\ DOMAIN s = 1 .. n /\ s \in [1 .. n -> S]
  OBVIOUS
<1>2. IsFiniteSet(1 .. n) /\ Cardinality(1 .. n) = n
  BY <1>1, FS_Interval, SMTT(30)
<1>3. s \in [1 .. n -> ToSet(s)] /\ \A x \in ToSet(s) : \E k \in 1 .. n : s[k] = x
  BY <1>1 DEF ToSet
<1> HIDE DEF n
<1>4. s \in Surjection(1 .. n, ToSet(s))
  BY <1>3 DEF Surjection
<1>5. /\ IsFiniteSet(ToSet(s)) /\ Cardinality(ToSet(s)) <= n
      /\ Cardinality(ToSet(s)) = n <=> s \in Injection(1 .. n, ToSet(s))
  BY <1>2, <1>4, FS_Surjection
<1>6. IsInjective(s) => s \in Injection(1 .. n, ToSet(s))
  BY <1>1, <1>3 DEF Injection
<1>7. Cardinality(ToSet(s)) \in Nat
  BY <1>5, FS_CardinalityType
<1>8. QED BY <1>5, <1>6, <1>7 DEF n

\* The order of the fused list is that of the scores.
LEMMA FusedIsSorted ==
    ASSUME NEW lex \in Seq(Nat), NEW sem \in Seq(Nat)
    PROVE  /\ RrfFuse(lex, sem) \in Seq(Nat) /\ IsInjective(RrfFuse(lex, sem))
           /\ ToSet(RrfFuse(lex, sem)) = ToSet(lex) \cup ToSet(sem)
           /\ \A j, k \in 1 .. Len(RrfFuse(lex, sem)) :
                 Above(lex, sem, RrfFuse(lex, sem)[j], RrfFuse(lex, sem)[k]) => j < k
<1> DEFINE found == ToSet(lex) \cup ToSet(sem)
           before == {p \in found \X found : Above(lex, sem, p[1], p[2])}
           s == Ordered(found, before)
           n == Cardinality(found)
<1>1. IsFiniteSet(found) /\ found \subseteq Nat
  BY SetOfList, Members, FS_Union
<1>2. Orders(before, found)
  BY AboveOrders
<1>3. RrfFuse(lex, sem) = s
  BY DEF RrfFuse
<1>4. \A i, j \in found : <<i, j>> \in before <=> Above(lex, sem, i, j)
  OBVIOUS
<1> HIDE DEF found, before
<1>5. /\ n \in Nat /\ s \in Seq(found) /\ Len(s) = n /\ s \in [1 .. n -> found]
      /\ \A x \in found : \E k \in 1 .. n : s[k] = x
      /\ \A j, k \in 1 .. n : j < k => <<s[j], s[k]>> \in before
      /\ \A j, k \in 1 .. n : s[j] = s[k] => j = k
  BY <1>1, <1>2, OrderedSorts, ZenonT(40)
<1> HIDE DEF s, n
<1>6. s \in Seq(Nat) /\ DOMAIN s = 1 .. n
  <2>1. s \in [1 .. n -> Nat] /\ n \in Nat
    BY <1>1, <1>5
  <2>2. QED BY <2>1
<1>7. IsInjective(s)
  BY <1>5, <1>6 DEF IsInjective
<1>8. ToSet(s) = found
  BY <1>5, <1>6 DEF ToSet
<1>9. ASSUME NEW j \in 1 .. n, NEW k \in 1 .. n, Above(lex, sem, s[j], s[k]), ~(j < k) PROVE FALSE
  <2>1. s[j] \in found /\ s[k] \in found
    BY <1>5
  <2>2. <<s[j], s[k]>> \in before
    BY <1>4, <1>9, <2>1
  <2>3. j = k \/ k < j
    BY <1>5, <1>9
  <2>4. <<s[j], s[j]>> \in before
    <3>1. CASE j = k
      BY <2>2, <3>1
    <3>2. CASE k < j
      BY <1>2, <1>5, <2>1, <2>2, <3>2 DEF Orders
    <3>3. QED BY <2>3, <3>1, <3>2
  <2>5. QED BY <1>2, <2>1, <2>4 DEF Orders
<1>10. QED BY <1>3, <1>5, <1>6, <1>7, <1>8, <1>9 DEF found

\* What a call shows of two rankings.
Shown(mode, lex, sem) ==
    First(First(IF mode = "hybrid" THEN RrfFuse(lex, sem) ELSE lex \o sem, SearchLimit), MaxBlocks)

OneOrBoth(mode, lex, sem) == mode = "hybrid" \/ lex = << >> \/ sem = << >>

\* The list that is cut: what both rankings agree on stands in it.
LEMMA ListAgrees ==
    ASSUME NEW mode, NEW lex \in Seq(Nat), NEW sem \in Seq(Nat), OneOrBoth(mode, lex, sem),
           IsInjective(lex), IsInjective(sem)
    PROVE  LET all == IF mode = "hybrid" THEN RrfFuse(lex, sem) ELSE lex \o sem
           IN /\ all \in Seq(Nat) /\ IsInjective(all) /\ ToSet(all) = ToSet(lex) \cup ToSet(sem)
              /\ \A i, j : Ranked(lex, i, j) /\ Ranked(sem, i, j) => Ranked(all, i, j)
<1> DEFINE all == IF mode = "hybrid" THEN RrfFuse(lex, sem) ELSE lex \o sem
<1>1. CASE mode = "hybrid"
  <2>1. all = RrfFuse(lex, sem)
    BY <1>1
  <2> HIDE DEF all
  <2>2. /\ all \in Seq(Nat) /\ IsInjective(all) /\ ToSet(all) = ToSet(lex) \cup ToSet(sem)
        /\ \A j, k \in 1 .. Len(all) : Above(lex, sem, all[j], all[k]) => j < k
    BY <2>1, FusedIsSorted
  <2>3. ASSUME NEW i, NEW j, Ranked(lex, i, j), Ranked(sem, i, j), j \in ToSet(all)
        PROVE  i \in ToSet(all) /\ Rank(all, i) < Rank(all, j)
    <3>1. i \in ToSet(all) /\ Above(lex, sem, i, j)
      BY <2>2, <2>3, AgreedAbove
    <3>2. /\ Rank(all, i) \in 1 .. Len(all) /\ all[Rank(all, i)] = i
          /\ Rank(all, j) \in 1 .. Len(all) /\ all[Rank(all, j)] = j
      BY <2>2, <2>3, <3>1, RankIs
    <3>3. QED BY <2>2, <3>1, <3>2
  <2>4. QED BY <2>2, <2>3 DEF Ranked, all
<1>2. CASE mode # "hybrid" /\ lex = << >>
  <2>1. all = sem /\ ToSet(lex) = {}
    BY <1>2 DEF ToSet
  <2>2. QED BY <2>1 DEF all
<1>3. CASE mode # "hybrid" /\ sem = << >>
  <2>1. all = lex /\ ToSet(sem) = {}
    BY <1>3 DEF ToSet
  <2>2. QED BY <2>1 DEF all
<1>4. QED BY <1>1, <1>2, <1>3 DEF OneOrBoth

\* A first part shows an item only after all that stand above it.
LEMMA FirstAgrees ==
    ASSUME NEW s \in Seq(Nat), IsInjective(s), NEW n \in Nat, NEW i, NEW j, Ranked(s, i, j)
    PROVE  Ranked(First(s, n), i, j)
<1> DEFINE t == First(s, n)
<1>a. /\ t \in Seq(Nat) /\ Len(t) = Smaller(n, Len(s)) /\ Smaller(n, Len(s)) <= Len(s)
      /\ \A k \in 1 .. Len(t) : t[k] = s[k]
      /\ IsInjective(t)
  BY FirstKeeps
<1>1. Len(t) \in Nat /\ Len(s) \in Nat /\ Len(t) <= Len(s)
  <2> HIDE DEF t
  <2>1. QED BY <1>a
<1> SUFFICES ASSUME j \in ToSet(t) PROVE i \in ToSet(t) /\ Rank(t, i) < Rank(t, j)
  BY DEF Ranked
<1> HIDE DEF t
<1>2. Rank(t, j) \in 1 .. Len(t) /\ t[Rank(t, j)] = j
  BY <1>a, RankIs
<1>3. Rank(t, j) \in 1 .. Len(s) /\ s[Rank(t, j)] = j
  BY <1>a, <1>1, <1>2
<1>4. j \in ToSet(s) /\ Rank(s, j) = Rank(t, j)
  BY <1>3, Members, RankIs
<1>5. i \in ToSet(s) /\ Rank(s, i) < Rank(s, j)
  BY <1>4 DEF Ranked
<1>6. Rank(s, i) \in 1 .. Len(s) /\ s[Rank(s, i)] = i
  BY <1>5, RankIs
<1>7. Rank(s, i) \in 1 .. Len(t) /\ t[Rank(s, i)] = i
  BY <1>a, <1>1, <1>2, <1>4, <1>5, <1>6, SMTT(30)
<1>8. i \in ToSet(t) /\ Rank(t, i) = Rank(s, i)
  BY <1>a, <1>7, Members, RankIs
<1>9. QED BY <1>4, <1>5, <1>8


LEMMA ShownIs ==
    ASSUME NEW mode, NEW lex \in Seq(Nat), NEW sem \in Seq(Nat), OneOrBoth(mode, lex, sem),
           IsInjective(lex), IsInjective(sem)
    PROVE  /\ Shown(mode, lex, sem) \in Seq(Nat) /\ IsInjective(Shown(mode, lex, sem))
           /\ ToSet(Shown(mode, lex, sem)) \subseteq ToSet(lex) \cup ToSet(sem)
           /\ Len(Shown(mode, lex, sem)) <= Smaller(SearchLimit, MaxBlocks)
           /\ \A i, j : Ranked(lex, i, j) /\ Ranked(sem, i, j) => Ranked(Shown(mode, lex, sem), i, j)
<1> DEFINE all == IF mode = "hybrid" THEN RrfFuse(lex, sem) ELSE lex \o sem
           some == First(all, SearchLimit)
           few == First(some, MaxBlocks)
<1>1. SearchLimit \in Nat /\ MaxBlocks \in Nat
  BY RetrievalAssumption
<1>2. /\ all \in Seq(Nat) /\ IsInjective(all) /\ ToSet(all) = ToSet(lex) \cup ToSet(sem)
      /\ \A i, j : Ranked(lex, i, j) /\ Ranked(sem, i, j) => Ranked(all, i, j)
  BY ListAgrees
<1>3. few = Shown(mode, lex, sem)
  BY DEF Shown
<1> HIDE DEF all
<1>4. /\ some \in Seq(Nat) /\ IsInjective(some) /\ Len(some) <= SearchLimit
      /\ ToSet(some) \subseteq ToSet(all)
  BY <1>1, <1>2, FirstKeeps, FirstMembers
<1>5. \A i, j : Ranked(all, i, j) => Ranked(some, i, j)
  BY <1>1, <1>2, FirstAgrees
<1> HIDE DEF some
<1>6. /\ few \in Seq(Nat) /\ IsInjective(few) /\ Len(few) = Smaller(MaxBlocks, Len(some))
      /\ ToSet(few) \subseteq ToSet(some)
  BY <1>1, <1>4, FirstKeeps, FirstMembers
<1>7. \A i, j : Ranked(some, i, j) => Ranked(few, i, j)
  BY <1>1, <1>4, FirstAgrees
<1>8. Len(some) \in Nat
  BY <1>4
<1>9. Len(few) <= Smaller(SearchLimit, MaxBlocks)
  BY <1>1, <1>4, <1>6, <1>8 DEF Smaller
<1> HIDE DEF few
<1>10. QED BY <1>2, <1>3, <1>4, <1>5, <1>6, <1>7, <1>9

LEMMA ReverseIs ==
    ASSUME NEW S, NEW s \in Seq(S)
    PROVE  /\ Reverse(s) \in Seq(S) /\ Len(Reverse(s)) = Len(s)
           /\ \A k \in 1 .. Len(s) : Reverse(s)[k] = s[Len(s) - k + 1]
<1>1. Len(s) \in Nat /\ \A k \in 1 .. Len(s) : s[k] \in S /\ Len(s) - k + 1 \in 1 .. Len(s)
  OBVIOUS
<1>2. Reverse(s) = [k \in 1 .. Len(s) |-> s[(Len(s) - k) + 1]]
  BY DEF Reverse
<1> DEFINE t == Reverse(s)
<1>3. t \in [1 .. Len(s) -> S] /\ \A k \in 1 .. Len(s) : t[k] = s[Len(s) - k + 1]
  BY <1>1, <1>2
<1> HIDE DEF t
<1>4. t \in Seq(S) /\ Len(t) = Len(s)
  BY <1>1, <1>3, SMTT(30)
<1>5. QED BY <1>3, <1>4 DEF t

LEMMA NewestFew ==
    ASSUME NEW S \in SUBSET Nat, IsFiniteSet(S)
    PROVE  /\ First(NewestFirst(S), WakeupLimit) \in Seq(Nat)
           /\ Reverse(First(NewestFirst(S), WakeupLimit)) \in Seq(Nat)
<1>1. WakeupLimit \in Nat
  BY RetrievalAssumption
<1>2. NewestFirst(S) \in Seq(S)
  BY SortedNewest
<1>3. NewestFirst(S) \in Seq(Nat)
  BY <1>2, SeqMonotonic
<1>4. QED BY <1>1, <1>3, FirstKeeps, ReverseIs


-----------------------------------------------------------------------------
(* What holds between the statements of a call. *)

\* An item of the store that matched, or about which something changed.
Justified(i, odd) == i \in Stored /\ (Matches(reader.filter, rows[i]) \/ i \in rescoped \/ i \in odd)

\* A block of the answer that is in the scope, or that something explains.
Accounted(b) ==
    Matches(reader.filter, b.scope) \/ b.id \in rescoped
    \/ (b.id \in reader.stale /\ b.id \in ToSet(reader.lexical))

SearchInv ==
    /\ IsInjective(reader.lexical) /\ IsInjective(reader.semantic)
    /\ \A i \in ToSet(reader.lexical) : Justified(i, reader.stale)
    /\ \A i \in ToSet(reader.semantic) : Justified(i, {})
    /\ reader.at \in {"lexical", "semantic", "fuse", "get"} =>
          reader.mode \in {"lexical", "semantic", "hybrid"}
    /\ reader.at \in {"idle", "lexical"} => reader.lexical = << >>
    /\ reader.at \in {"idle", "lexical", "semantic"} => reader.semantic = << >>
    /\ reader.at = "semantic" => reader.mode = "hybrid" \/ reader.lexical = << >>
    /\ reader.at \in {"fuse", "get"} => OneOrBoth(reader.mode, reader.lexical, reader.semantic)
    /\ reader.at \in {"idle", "lexical", "semantic", "fuse"} => reader.blocks = << >>
    /\ reader.at = "get" =>
          /\ reader.hits = Shown(reader.mode, reader.lexical, reader.semantic)
          /\ \A k \in DOMAIN reader.blocks : Accounted(reader.blocks[k])

\* An item of a scope of the wake-up, or one that has changed.
Due(i) == i \in Stored /\ (InAny(reader.scopes, rows[i]) \/ i \in rescoped)

Newer(set, i) == {j \in set : j > i}

\* An item that was there all along and is not in the list has enough newer ones in it.
Outdone(i) == WakeupLimit <= Cardinality(Newer(ToSet(reader.hits), i))

WakeupInv ==
    /\ reader.at = "list" => reader.listed \in 0 .. Len(reader.scopes)
    /\ reader.at = "idle" => reader.hits = << >> /\ reader.listed = 0
    /\ reader.at \in {"list", "render"} =>
          /\ reader.known <= Len(rows)
          /\ \A i \in ToSet(reader.hits) : Due(i)
          /\ rescoped = {} =>
                /\ reader.known = Len(rows)
                /\ reader.total = Cardinality({i \in Stored : InAny(reader.scopes, rows[i])})
    /\ reader.at = "list" =>
          \A k \in 1 .. reader.listed, i \in 1 .. reader.known :
             /\ i \notin rescoped /\ Matches(reader.scopes[k], rows[i]) /\ i \notin ToSet(reader.hits)
             => Outdone(i)
    /\ WakeUpIsNewest

RetrievalInv == RetrievalTypes /\ SearchInv /\ WakeupInv

-----------------------------------------------------------------------------
(* The call begins. *)

LEMMA InitHolds == RetrievalInit => RetrievalInv
<1> SUFFICES ASSUME RetrievalInit PROVE RetrievalInv
  OBVIOUS
<1>1. rows \in Seq(ScopePath) /\ rows # << >>
  BY RetrievalAssumption DEF RetrievalInit
<1>2. Len(rows) \in Nat /\ Len(rows) # 0
  BY <1>1, EmptySeq
<1>3. 1 \in Stored /\ \A i \in Stored : rows[i] \in ScopePath
  BY <1>1, <1>2 DEF Stored
<1>4. documents \subseteq Stored \X ScopePath
  BY <1>3 DEF RetrievalInit
<1>5. NoCall \in Reader
  BY DEF NoCall, Reader
<1>6. ToSet(<< >>) = {} /\ IsInjective(<< >>)
  BY DEF ToSet, IsInjective
<1>7. reader = NoCall /\ rescoped = {} /\ embeddings = Stored /\ changes = 0
  BY DEF RetrievalInit
<1>8. RetrievalTypes
  BY <1>1, <1>4, <1>5, <1>7 DEF RetrievalTypes, NoCall
<1>9. SearchInv
  BY <1>6, <1>7 DEF SearchInv, NoCall
<1>10. WakeupInv
  BY <1>7 DEF WakeupInv, WakeUpIsNewest, NoCall
<1>11. QED BY <1>8, <1>9, <1>10 DEF RetrievalInv

LEMMA AskRetrieveStep ==
    ASSUME RetrievalInv, NEW mode \in {"auto", "lexical", "semantic", "hybrid"},
           NEW f \in ScopeFilters \cup {NoFilter}, NEW sidecars \in SUBSET {"lexical", "semantic"},
           AskRetrieve(mode, f, sidecars)
    PROVE  RetrievalInv'
<1> DEFINE resolved == ResolveSearchMode(mode, sidecars)
<1>1. resolved \in {"lexical", "semantic", "hybrid"}
  BY ResolvedMode DEF AskRetrieve
<1>2. /\ reader.at = "idle" /\ rescoped' = {} /\ UNCHANGED <<rows, documents, embeddings, changes>>
      /\ reader' = [reader EXCEPT !.at = "lexical", !.mode = resolved, !.filter = f]
  BY DEF AskRetrieve
<1> HIDE DEF resolved
<1>3. reader \in Reader /\ RetrievalTypes
  BY DEF RetrievalInv, RetrievalTypes
<1>4. reader' \in Reader
  BY <1>1, <1>2, <1>3 DEF Reader
<1>5. Stored' = Stored
  BY <1>2 DEF Stored
<1>6. /\ reader'.at = "lexical" /\ reader'.mode = resolved /\ reader'.lexical = reader.lexical
      /\ reader'.semantic = reader.semantic /\ reader'.blocks = reader.blocks
  BY <1>2, <1>3 DEF Reader
<1>7. RetrievalTypes'
  BY <1>2, <1>3, <1>4, <1>5, <1>6 DEF RetrievalTypes
<1>8. reader.lexical = << >> /\ reader.semantic = << >> /\ reader.blocks = << >>
  BY <1>2 DEF RetrievalInv, SearchInv
<1>9. ToSet(<< >>) = {} /\ IsInjective(<< >>)
  BY DEF ToSet, IsInjective
<1>10. SearchInv'
  BY <1>1, <1>6, <1>8, <1>9 DEF SearchInv
<1>11. WakeupInv'
  BY <1>6 DEF WakeupInv, WakeUpIsNewest
<1>12. QED BY <1>7, <1>10, <1>11 DEF RetrievalInv


LEMMA LexicalHitsStep ==
    ASSUME RetrievalInv, NEW r \in Rankings(InIndex, Limit), LexicalHits(r)
    PROVE  RetrievalInv'
<1>0. RetrievalTypes /\ SearchInv /\ WakeupInv
  BY DEF RetrievalInv
<1>1. InIndex \subseteq Stored /\ IsFiniteSet(InIndex) /\ Stored \subseteq Nat
  BY <1>0, StoredFinite
<1>2. r \in Seq(InIndex) /\ IsInjective(r)
  BY <1>1, Limits, RankingsAreLists
<1>3. ToSet(r) \subseteq InIndex /\ r \in Seq(Nat)
  <2>1. ToSet(r) \subseteq InIndex
    BY <1>2, Members
  <2>2. InIndex \subseteq Nat
    BY <1>1
  <2>3. r \in Seq(Nat)
    BY <1>2, <2>2, SeqMonotonic
  <2>4. QED BY <2>1, <2>3
<1> DEFINE stale == {d[1] : d \in {e \in documents : rows[e[1]] # e[2]}}
           at == IF reader.mode = "hybrid" THEN "semantic" ELSE "fuse"
<1>4. stale \subseteq Nat
  <2>1. \A e \in documents : e[1] \in Nat
    BY <1>0, <1>1 DEF RetrievalTypes
  <2>2. QED BY <2>1
<1>5. /\ reader.at = "lexical" /\ reader.mode \in {"lexical", "hybrid"}
      /\ UNCHANGED <<rows, documents, embeddings, changes, rescoped>>
      /\ reader' = [reader EXCEPT !.lexical = r, !.stale = stale, !.at = at]
  BY DEF LexicalHits
<1>6. \A i \in ToSet(r) : i \in Stored /\ (Matches(reader.filter, rows[i]) \/ i \in stale)
  <2> TAKE i \in ToSet(r)
  <2>1. PICK d \in documents : i = d[1] /\ Matches(reader.filter, d[2])
    BY <1>3 DEF InIndex
  <2>2. QED BY <1>1, <1>3, <2>1
<1> HIDE DEF stale
<1>7. reader \in Reader
  BY <1>0 DEF RetrievalTypes
<1>8. reader' \in Reader
  BY <1>3, <1>4, <1>5, <1>7, ZenonT(40) DEF Reader
<1>9. /\ reader'.at = at /\ reader'.mode = reader.mode /\ reader'.lexical = r
      /\ reader'.stale = stale /\ reader'.semantic = reader.semantic
      /\ reader'.blocks = reader.blocks /\ reader'.filter = reader.filter
  BY <1>5, <1>7 DEF Reader
<1>10. Stored' = Stored /\ at \in {"semantic", "fuse"} /\ (at = "fuse" => reader.mode = "lexical")
  BY <1>5 DEF Stored
<1> HIDE DEF at
<1>11. RetrievalTypes'
  BY <1>0, <1>5, <1>8, <1>9, <1>10 DEF RetrievalTypes
<1>12. /\ reader.semantic = << >> /\ reader.blocks = << >> /\ IsInjective(<< >>)
       /\ \A i \in ToSet(<< >>) : FALSE
  BY <1>0, <1>5 DEF SearchInv, ToSet
<1>13. \A i \in ToSet(reader'.lexical) : Justified(i, reader.stale)'
  BY <1>5, <1>6, <1>9, <1>10 DEF Justified
<1>14. reader'.at \in {"semantic", "fuse"}
  BY <1>9, <1>10
<1>15. OneOrBoth(reader'.mode, reader'.lexical, reader'.semantic)
  BY <1>9, <1>12 DEF OneOrBoth
<1>16. reader'.at = "semantic" => reader'.mode = "hybrid"
  BY <1>5, <1>9 DEF at
<1>17. SearchInv'
  BY <1>2, <1>5, <1>9, <1>12, <1>13, <1>14, <1>15, <1>16 DEF SearchInv
<1>18. WakeupInv'
  BY <1>14 DEF WakeupInv, WakeUpIsNewest
<1>19. QED BY <1>11, <1>17, <1>18 DEF RetrievalInv

LEMMA NoLexicalStep ==
    ASSUME RetrievalInv, NoLexical
    PROVE  RetrievalInv'
<1>0. RetrievalTypes /\ SearchInv /\ WakeupInv
  BY DEF RetrievalInv
<1>1. /\ reader.at = "lexical" /\ reader.mode = "semantic"
      /\ UNCHANGED <<rows, documents, embeddings, changes, rescoped>>
      /\ reader' = [reader EXCEPT !.at = "semantic"] /\ reader \in Reader
  BY <1>0 DEF NoLexical, RetrievalTypes
<1>2. reader' \in Reader
  BY <1>1 DEF Reader
<1>3. /\ reader'.at = "semantic" /\ reader'.mode = reader.mode /\ reader'.lexical = reader.lexical
      /\ reader'.stale = reader.stale /\ reader'.semantic = reader.semantic
      /\ reader'.blocks = reader.blocks /\ reader'.filter = reader.filter
  BY <1>1 DEF Reader
<1>4. Stored' = Stored
  BY <1>1 DEF Stored
<1>5. RetrievalTypes'
  BY <1>0, <1>1, <1>2, <1>3, <1>4 DEF RetrievalTypes
<1>6. SearchInv'
  <2>1. /\ \A i \in ToSet(reader'.lexical) : Justified(i, reader.stale)'
        /\ \A i \in ToSet(reader'.semantic) : Justified(i, {})'
    BY <1>0, <1>1, <1>3, <1>4 DEF SearchInv, Justified
  <2>2. reader.lexical = << >> /\ reader.semantic = << >> /\ reader.blocks = << >>
    BY <1>0, <1>1 DEF SearchInv
  <2>3. QED BY <1>0, <1>1, <1>3, <2>1, <2>2 DEF SearchInv
<1>7. WakeupInv'
  BY <1>3 DEF WakeupInv, WakeUpIsNewest
<1>8. QED BY <1>5, <1>6, <1>7 DEF RetrievalInv

LEMMA OnlyInjective ==
    ASSUME NEW S, NEW s \in Seq(S), NEW keep, IsInjective(s)
    PROVE  IsInjective(Only(s, keep))
<1> DEFINE t == Only(s, keep)
<1>1. t \in Seq(S \cap keep)
  BY OnlyKeeps
<1>2. PICK at \in [1 .. Len(t) -> 1 .. Len(s)] :
         /\ \A k \in 1 .. Len(t) : t[k] = s[at[k]]
         /\ \A j, k \in 1 .. Len(t) : j < k => at[j] < at[k]
  BY OnlyInOrder
<1> HIDE DEF t
<1>3. DOMAIN t = 1 .. Len(t) /\ Len(t) \in Nat /\ DOMAIN s = 1 .. Len(s)
  BY <1>1
<1>4. ASSUME NEW j \in 1 .. Len(t), NEW k \in 1 .. Len(t), t[j] = t[k], j # k PROVE FALSE
  <2>1. at[j] = at[k]
    <3>1. s[at[j]] = s[at[k]] /\ at[j] \in DOMAIN s /\ at[k] \in DOMAIN s
      BY <1>2, <1>3, <1>4, SMTT(30)
    <3>2. QED BY <3>1 DEF IsInjective
  <2>2. j < k \/ k < j
    BY <1>4
  <2>3. at[j] \in 1 .. Len(s) /\ Len(s) \in Nat
    BY <1>2
  <2>4. QED BY <1>2, <2>1, <2>2, <2>3
<1>5. IsInjective(t)
  BY <1>3, <1>4 DEF IsInjective
<1>6. QED BY <1>5 DEF t

LEMMA SemanticHitsStep ==
    ASSUME RetrievalInv, NEW r \in Rankings(embeddings, Candidates), SemanticHits(r)
    PROVE  RetrievalInv'
<1>0. RetrievalTypes /\ SearchInv /\ WakeupInv
  BY DEF RetrievalInv
<1>1. IsFiniteSet(embeddings) /\ Stored \subseteq Nat /\ embeddings \subseteq Stored
  BY <1>0, StoredFinite DEF RetrievalTypes
<1>2. r \in Seq(embeddings) /\ IsInjective(r)
  BY <1>1, Limits, RankingsAreLists
<1> DEFINE keep == {i \in Stored : Matches(reader.filter, rows[i])}
           some == Only(r, keep)
           few == First(some, Limit)
<1>3. some \in Seq(embeddings \cap keep) /\ IsInjective(some)
  BY <1>2, OnlyKeeps, OnlyInjective
<1>4. few \in Seq(embeddings \cap keep) /\ IsInjective(few)
  <2> HIDE DEF some
  <2>1. QED BY <1>3, Limits, FirstKeeps
<1>5. few \in Seq(Nat) /\ ToSet(few) \subseteq embeddings \cap keep
  <2>1. embeddings \cap keep \subseteq Nat
    BY <1>1
  <2> HIDE DEF few, keep
  <2>2. QED BY <1>4, <2>1, SeqMonotonic, Members
<1>6. /\ reader.at = "semantic" /\ reader \in Reader
      /\ UNCHANGED <<rows, documents, embeddings, changes, rescoped>>
      /\ reader' = [reader EXCEPT !.semantic = few, !.at = "fuse"]
  BY <1>0 DEF SemanticHits, ScopeFilterHits, RetrievalTypes
<1>7. \A i \in ToSet(few) : i \in Stored /\ Matches(reader.filter, rows[i])
  BY <1>5
<1> HIDE DEF few
<1>8. reader' \in Reader
  BY <1>5, <1>6 DEF Reader
<1>9. /\ reader'.at = "fuse" /\ reader'.mode = reader.mode /\ reader'.lexical = reader.lexical
      /\ reader'.stale = reader.stale /\ reader'.semantic = few
      /\ reader'.blocks = reader.blocks /\ reader'.filter = reader.filter
  BY <1>6 DEF Reader
<1>10. Stored' = Stored
  BY <1>6 DEF Stored
<1>11. RetrievalTypes'
  BY <1>0, <1>6, <1>8, <1>9, <1>10 DEF RetrievalTypes
<1>12. SearchInv'
  <2>1. \A i \in ToSet(reader'.lexical) : Justified(i, reader.stale)'
    BY <1>0, <1>6, <1>9, <1>10 DEF SearchInv, Justified
  <2>2. \A i \in ToSet(reader'.semantic) : Justified(i, {})'
    BY <1>6, <1>7, <1>9, <1>10 DEF Justified
  <2>3. /\ reader.blocks = << >> /\ (reader.mode = "hybrid" \/ reader.lexical = << >>)
        /\ reader.mode \in {"lexical", "semantic", "hybrid"} /\ IsInjective(reader.lexical)
    BY <1>0, <1>6 DEF SearchInv
  <2>4. OneOrBoth(reader'.mode, reader'.lexical, reader'.semantic)
    BY <1>9, <2>3 DEF OneOrBoth
  <2>5. QED BY <1>4, <1>9, <2>1, <2>2, <2>3, <2>4 DEF SearchInv, few
<1>13. WakeupInv'
  BY <1>9 DEF WakeupInv, WakeUpIsNewest
<1>14. QED BY <1>11, <1>12, <1>13 DEF RetrievalInv


LEMMA FuseStep ==
    ASSUME RetrievalInv, Fuse
    PROVE  RetrievalInv'
<1>0. RetrievalTypes /\ SearchInv /\ WakeupInv
  BY DEF RetrievalInv
<1> DEFINE shown == Shown(reader.mode, reader.lexical, reader.semantic)
<1>1. /\ reader.at = "fuse" /\ reader \in Reader
      /\ UNCHANGED <<rows, documents, embeddings, changes, rescoped>>
      /\ reader' = [reader EXCEPT !.hits = shown, !.at = "get"]
  BY <1>0 DEF Fuse, Shown, RetrievalTypes
<1>2. /\ OneOrBoth(reader.mode, reader.lexical, reader.semantic) /\ reader.blocks = << >>
      /\ IsInjective(reader.lexical) /\ IsInjective(reader.semantic)
      /\ reader.mode \in {"lexical", "semantic", "hybrid"}
  BY <1>0, <1>1 DEF SearchInv
<1>3. shown \in Seq(Nat)
  <2>1. reader.lexical \in Seq(Nat) /\ reader.semantic \in Seq(Nat)
    BY <1>1 DEF Reader
  <2>2. QED BY <1>2, <2>1, ShownIs
<1> HIDE DEF shown
<1>4. reader' \in Reader
  BY <1>1, <1>3 DEF Reader
<1>5. /\ reader'.at = "get" /\ reader'.mode = reader.mode /\ reader'.lexical = reader.lexical
      /\ reader'.stale = reader.stale /\ reader'.semantic = reader.semantic
      /\ reader'.blocks = reader.blocks /\ reader'.filter = reader.filter /\ reader'.hits = shown
  BY <1>1 DEF Reader
<1>6. Stored' = Stored
  BY <1>1 DEF Stored
<1>7. RetrievalTypes'
  <2>1. << >> \in Seq(Block)
    OBVIOUS
  <2>2. QED BY <1>0, <1>1, <1>2, <1>4, <1>5, <1>6, <2>1 DEF RetrievalTypes
<1>8. SearchInv'
  <2>1. /\ \A i \in ToSet(reader'.lexical) : Justified(i, reader.stale)'
        /\ \A i \in ToSet(reader'.semantic) : Justified(i, {})'
    BY <1>0, <1>1, <1>5, <1>6 DEF SearchInv, Justified
  <2>2. reader'.hits = Shown(reader'.mode, reader'.lexical, reader'.semantic)
    BY <1>5 DEF shown
  <2>3. DOMAIN << >> = {}
    OBVIOUS
  <2>4. QED BY <1>2, <1>5, <2>1, <2>2, <2>3 DEF SearchInv
<1>9. WakeupInv'
  BY <1>5 DEF WakeupInv, WakeUpIsNewest
<1>10. QED BY <1>7, <1>8, <1>9 DEF RetrievalInv

LEMMA GetBlockStep ==
    ASSUME RetrievalInv, GetBlock
    PROVE  RetrievalInv'
<1>0. RetrievalTypes /\ SearchInv /\ WakeupInv
  BY DEF RetrievalInv
<1> DEFINE i == reader.hits[Len(reader.blocks) + 1]
           b == [id |-> i, scope |-> rows[i]]
           blocks == Append(reader.blocks, b)
<1>1. /\ reader.at = "get" /\ Len(reader.blocks) < Len(reader.hits) /\ reader \in Reader
      /\ UNCHANGED <<rows, documents, embeddings, changes, rescoped>>
      /\ reader' = [reader EXCEPT !.blocks = blocks]
  BY <1>0 DEF GetBlock, RetrievalTypes
<1>2. /\ reader.blocks \in Seq(Block) /\ reader.hits \in Seq(Nat)
      /\ reader.lexical \in Seq(Nat) /\ reader.semantic \in Seq(Nat)
  BY <1>0, <1>1, SMTT(30) DEF RetrievalTypes, Reader
<1>3. /\ OneOrBoth(reader.mode, reader.lexical, reader.semantic)
      /\ IsInjective(reader.lexical) /\ IsInjective(reader.semantic)
      /\ reader.hits = Shown(reader.mode, reader.lexical, reader.semantic)
  BY <1>0, <1>1 DEF SearchInv
<1>4. i \in ToSet(reader.hits) /\ i \in Nat
  <2>1. Len(reader.blocks) + 1 \in 1 .. Len(reader.hits)
    BY <1>1, <1>2
  <2>2. QED BY <1>2, <2>1, SMTT(30) DEF ToSet
<1>5. i \in ToSet(reader.lexical) \cup ToSet(reader.semantic)
  BY <1>2, <1>3, <1>4, ShownIs, ZenonT(40)
<1>6. /\ i \in Stored
      /\ \/ Matches(reader.filter, rows[i])
         \/ i \in rescoped
         \/ i \in reader.stale /\ i \in ToSet(reader.lexical)
  <2> HIDE DEF i
  <2>1. CASE i \in ToSet(reader.lexical)
    <3>1. Justified(i, reader.stale)
      BY <1>0, <2>1 DEF SearchInv
    <3>2. QED BY <2>1, <3>1 DEF Justified
  <2>2. CASE i \in ToSet(reader.semantic)
    <3>1. Justified(i, {})
      BY <1>0, <2>2 DEF SearchInv
    <3>2. QED BY <3>1 DEF Justified
  <2>3. QED BY <1>5, <2>1, <2>2
<1>7. b \in Block /\ Accounted(b)
  <2>1. rows[i] \in ScopePath
    BY <1>0, <1>6 DEF RetrievalTypes, Stored
  <2>2. QED BY <1>4, <1>6, <2>1 DEF Block, Accounted
<1> HIDE DEF b, i
<1>8. /\ blocks \in Seq(Block)
      /\ \A k \in DOMAIN blocks :
            \/ blocks[k] = b
            \/ k \in DOMAIN reader.blocks /\ blocks[k] = reader.blocks[k]
  <2> DEFINE old == reader.blocks
  <2>1. old \in Seq(Block) /\ b \in Block
    BY <1>2, <1>7
  <2> HIDE DEF old
  <2>2. /\ blocks \in Seq(Block) /\ Len(blocks) = Len(old) + 1 /\ blocks[Len(old) + 1] = b
        /\ \A k \in 1 .. Len(old) : blocks[k] = old[k]
    BY <2>1 DEF old
  <2> HIDE DEF blocks
  <2>3. DOMAIN blocks = 1 .. Len(old) + 1 /\ DOMAIN old = 1 .. Len(old) /\ Len(old) \in Nat
    BY <2>1, <2>2
  <2>4. \A k \in 1 .. Len(old) + 1 : k \in 1 .. Len(old) \/ k = Len(old) + 1
    BY <2>3
  <2>5. \A k \in DOMAIN blocks : blocks[k] = b \/ (k \in DOMAIN old /\ blocks[k] = old[k])
    BY <2>2, <2>3, <2>4
  <2>6. QED BY <2>2, <2>5 DEF old
<1> HIDE DEF blocks
<1>9. reader' \in Reader
  BY <1>1, <1>8 DEF Reader
<1>10. /\ reader'.at = "get" /\ reader'.mode = reader.mode /\ reader'.lexical = reader.lexical
       /\ reader'.stale = reader.stale /\ reader'.semantic = reader.semantic
       /\ reader'.blocks = blocks /\ reader'.filter = reader.filter /\ reader'.hits = reader.hits
  BY <1>1 DEF Reader
<1>11. Stored' = Stored
  BY <1>1 DEF Stored
<1>12. RetrievalTypes'
  BY <1>0, <1>1, <1>8, <1>9, <1>10, <1>11 DEF RetrievalTypes
<1>13. SearchInv'
  <2>1. /\ \A j \in ToSet(reader'.lexical) : Justified(j, reader.stale)'
        /\ \A j \in ToSet(reader'.semantic) : Justified(j, {})'
    BY <1>0, <1>1, <1>10, <1>11 DEF SearchInv, Justified
  <2>2. \A k \in DOMAIN reader.blocks : Accounted(reader.blocks[k])
    BY <1>0, <1>1 DEF SearchInv
  <2>3. \A k \in DOMAIN blocks : Accounted(blocks[k])
    BY <1>7, <1>8, <2>2
  <2>4. (\A k \in DOMAIN reader.blocks : Accounted(reader.blocks[k]))'
    BY <1>1, <1>10, <2>3 DEF Accounted
  <2>5. QED BY <1>0, <1>1, <1>3, <1>10, <2>1, <2>4 DEF SearchInv
<1>14. WakeupInv'
  BY <1>10 DEF WakeupInv, WakeUpIsNewest
<1>15. QED BY <1>12, <1>13, <1>14 DEF RetrievalInv

LEMMA AskWakeupStep ==
    ASSUME RetrievalInv, NEW set \in ScopeSets, AskWakeup(set)
    PROVE  RetrievalInv'
<1>0. RetrievalTypes /\ SearchInv /\ WakeupInv
  BY DEF RetrievalInv
<1> DEFINE there == {i \in Stored : InAny(set, rows[i])}
           total == Cardinality(there)
<1>1. /\ reader.at = "idle" /\ reader \in Reader /\ rescoped' = {}
      /\ UNCHANGED <<rows, documents, embeddings, changes>>
      /\ reader' = [reader EXCEPT !.at = "list", !.mode = "wakeup", !.scopes = set,
                                  !.known = Len(rows), !.total = total]
  BY <1>0 DEF AskWakeup, RetrievalTypes
<1>2. Len(rows) \in Nat /\ IsFiniteSet(Stored)
  BY <1>0, StoredFinite
<1>3. total \in Nat
  BY <1>2, FS_Subset, FS_CardinalityType
<1>4. /\ reader.lexical = << >> /\ reader.semantic = << >>
      /\ reader.hits = << >> /\ reader.listed = 0
  BY <1>0, <1>1 DEF SearchInv, WakeupInv
<1>5. Len(set) \in Nat
  BY RetrievalAssumption
<1> HIDE DEF total
<1>6. reader' \in Reader
  BY <1>1, <1>2, <1>3 DEF Reader
<1>7. /\ reader'.at = "list" /\ reader'.lexical = << >> /\ reader'.semantic = << >>
      /\ reader'.hits = << >> /\ reader'.listed = 0 /\ reader'.scopes = set
      /\ reader'.known = Len(rows) /\ reader'.total = total
  BY <1>1, <1>4 DEF Reader
<1>8. Stored' = Stored
  BY <1>1 DEF Stored
<1>9. RetrievalTypes'
  BY <1>0, <1>1, <1>6, <1>7, <1>8 DEF RetrievalTypes
<1>10. ToSet(<< >>) = {} /\ IsInjective(<< >>)
  BY DEF ToSet, IsInjective
<1>11. SearchInv'
  BY <1>7, <1>10 DEF SearchInv
<1>12. WakeupInv'
  <2>1. reader'.total = Cardinality({i \in Stored' : InAny(reader'.scopes, rows'[i])})
    BY <1>1, <1>7, <1>8 DEF total, there
  <2>2. /\ reader'.known <= Len(rows') /\ reader'.known = Len(rows')
        /\ reader'.listed \in 0 .. Len(reader'.scopes) /\ 1 .. reader'.listed = {}
    BY <1>1, <1>2, <1>5, <1>7
  <2>3. QED BY <1>7, <1>10, <2>1, <2>2 DEF WakeupInv, WakeUpIsNewest
<1>13. QED BY <1>9, <1>11, <1>12 DEF RetrievalInv


-----------------------------------------------------------------------------
(* The newest of a set. *)

Newest(S) == First(NewestFirst(S), WakeupLimit)

LEMMA NewestIs ==
    ASSUME NEW S \in SUBSET Nat, IsFiniteSet(S)
    PROVE  /\ Newest(S) \in Seq(Nat) /\ ToSet(Newest(S)) \subseteq S /\ IsInjective(Newest(S))
           /\ Len(Newest(S)) = Smaller(WakeupLimit, Cardinality(S)) /\ Cardinality(S) \in Nat
           /\ \A j, k \in 1 .. Len(Newest(S)) : j < k => Newest(S)[j] > Newest(S)[k]
           /\ \A i \in S : i \notin ToSet(Newest(S)) =>
                 Len(Newest(S)) = WakeupLimit /\ \A j \in ToSet(Newest(S)) : j > i
<1> DEFINE all == NewestFirst(S)
           t == Newest(S)
           n == Cardinality(S)
<1>0. WakeupLimit \in Nat
  BY RetrievalAssumption
<1>1. /\ n \in Nat /\ all \in Seq(S) /\ Len(all) = n
      /\ \A i \in S : \E k \in 1 .. n : all[k] = i
      /\ \A j, k \in 1 .. n : j < k => all[j] > all[k]
      /\ IsInjective(all)
  BY SortedNewest
<1>2. t = First(all, WakeupLimit)
  BY DEF Newest
<1> HIDE DEF all, n, t
<1>3. /\ t \in Seq(S) /\ Len(t) = Smaller(WakeupLimit, n) /\ Smaller(WakeupLimit, n) \in Nat
      /\ Smaller(WakeupLimit, n) <= n /\ \A k \in 1 .. Len(t) : t[k] = all[k]
      /\ IsInjective(t)
  BY <1>0, <1>1, <1>2, FirstKeeps
<1>4. t \in Seq(Nat) /\ ToSet(t) \subseteq S
  BY <1>3, SeqMonotonic, Members
<1>5. Len(t) \in Nat /\ Len(t) <= n /\ 1 .. Len(t) \subseteq 1 .. n
  BY <1>1, <1>3
<1>6. \A j, k \in 1 .. Len(t) : j < k => t[j] > t[k]
  BY <1>1, <1>3, <1>5
<1>7. ASSUME NEW i \in S, i \notin ToSet(t)
      PROVE  Len(t) = WakeupLimit /\ \A j \in ToSet(t) : j > i
  <2>1. PICK k \in 1 .. n : all[k] = i
    BY <1>1
  <2>2. k \notin 1 .. Len(t)
    BY <1>3, <1>7, <2>1, Members
  <2>3. Len(t) < k /\ k \in Nat
    BY <1>1, <1>5, <2>2
  <2>4. Len(t) = WakeupLimit
    BY <1>0, <1>1, <1>3, <2>3 DEF Smaller
  <2>5. ASSUME NEW j \in ToSet(t) PROVE j > i
    <3>1. PICK m \in 1 .. Len(t) : t[m] = j
      BY <1>3, Members
    <3>2. m \in 1 .. n /\ m < k
      BY <1>5, <2>3
    <3>3. QED BY <1>1, <1>3, <2>1, <3>1, <3>2
  <2>6. QED BY <2>4, <2>5
<1>8. QED BY <1>1, <1>3, <1>4, <1>6, <1>7 DEF t, n

\* An item with enough newer ones is older than all of the newest.
LEMMA NewestOutdo ==
    ASSUME NEW S \in SUBSET Nat, IsFiniteSet(S), NEW i \in Nat, i \notin S,
           WakeupLimit <= Cardinality(Newer(S, i))
    PROVE  Len(Newest(S)) = WakeupLimit /\ \A j \in ToSet(Newest(S)) : j > i
<1> DEFINE t == Newest(S)
           W == WakeupLimit
<1>0. W \in Nat
  BY RetrievalAssumption
<1>1. /\ t \in Seq(Nat) /\ ToSet(t) \subseteq S /\ IsInjective(t) /\ Cardinality(S) \in Nat
      /\ Len(t) = Smaller(W, Cardinality(S))
      /\ \A x \in S : x \notin ToSet(t) => Len(t) = W /\ \A j \in ToSet(t) : j > x
  BY NewestIs
<1>2. /\ Newer(S, i) \subseteq S /\ IsFiniteSet(Newer(S, i)) /\ Cardinality(Newer(S, i)) \in Nat
      /\ Cardinality(Newer(S, i)) <= Cardinality(S)
  BY FS_Subset, FS_CardinalityType DEF Newer
<1> HIDE DEF t, W
<1>3. Len(t) = W
  BY <1>0, <1>1, <1>2 DEF Smaller, W
<1>4. ASSUME NEW j \in ToSet(t), ~(j > i) PROVE FALSE
  <2>1. j \in S /\ j \in Nat /\ j < i
    <3>1. j \in S /\ j \in Nat
      BY <1>1, <1>4
    <3>2. QED BY <1>4, <3>1
  <2>2. Newer(S, i) \subseteq ToSet(t) \ {j}
    <3>1. ASSUME NEW x \in Newer(S, i) PROVE x \in ToSet(t) /\ x # j
      <4>1. x \in S /\ x \in Nat /\ x > i
        BY DEF Newer
      <4>2. x > j /\ ~(j > x)
        BY <2>1, <4>1
      <4>3. x \in ToSet(t)
        BY <1>1, <1>4, <4>1, <4>2
      <4>4. QED BY <2>1, <4>2, <4>3
    <3>2. QED BY <3>1
  <2>3. IsFiniteSet(ToSet(t)) /\ Cardinality(ToSet(t)) = W
    BY <1>1, <1>3, SetOfList
  <2>4. IsFiniteSet(ToSet(t) \ {j}) /\ Cardinality(ToSet(t) \ {j}) = W - 1
    BY <1>4, <2>3, FS_RemoveElement
  <2>5. Cardinality(Newer(S, i)) <= W - 1
    BY <2>2, <2>4, FS_Subset
  <2>6. QED BY <1>0, <1>2, <2>5 DEF W
<1>5. QED BY <1>3, <1>4 DEF t, W

LEMMA SuffixIs ==
    ASSUME NEW S, NEW s \in Seq(S), NEW t \in Seq(S)
    PROVE  IsSuffix(s, t) <=>
              Len(s) <= Len(t) /\ \A k \in 1 .. Len(s) : s[k] = t[Len(t) - Len(s) + k]
<1> DEFINE m == Len(s)
           n == Len(t)
           rs == Reverse(s)
           rt == Reverse(t)
<1>0. m \in Nat /\ n \in Nat
  OBVIOUS
<1>1. /\ rs \in Seq(S) /\ Len(rs) = m /\ \A k \in 1 .. m : rs[k] = s[m - k + 1]
      /\ rt \in Seq(S) /\ Len(rt) = n /\ \A k \in 1 .. n : rt[k] = t[n - k + 1]
  BY ReverseIs
<1>2. IsSuffix(s, t) <=> m <= n /\ SubSeq(rs, 1, m) = SubSeq(rt, 1, m)
  BY <1>1 DEF IsSuffix, IsPrefix
<1> HIDE DEF m, n, rs, rt
<1>3. ASSUME m <= n
      PROVE  SubSeq(rs, 1, m) = SubSeq(rt, 1, m) <=> \A k \in 1 .. m : s[k] = t[n - m + k]
  <2>1. SubSeq(rs, 1, m) = [k \in 1 .. m |-> rs[k]] /\ SubSeq(rt, 1, m) = [k \in 1 .. m |-> rt[k]]
    BY <1>0, <1>1, <1>3
  <2>2. SubSeq(rs, 1, m) = SubSeq(rt, 1, m) <=> \A k \in 1 .. m : rs[k] = rt[k]
    BY <2>1
  <2>3. \A k \in 1 .. m : rs[k] = s[m - k + 1] /\ rt[k] = t[n - k + 1]
    BY <1>0, <1>1, <1>3
  <2>4. \A k \in 1 .. m : m - k + 1 \in 1 .. m /\ m - (m - k + 1) + 1 = k /\ n - m + (m - k + 1) = n - k + 1
    BY <1>0
  <2>5. \A k \in 1 .. m : n - (m - k + 1) + 1 = n - m + k
    BY <1>0
  <2>6. ASSUME \A k \in 1 .. m : rs[k] = rt[k], NEW k \in 1 .. m PROVE s[k] = t[n - m + k]
    <3>1. rs[m - k + 1] = rt[m - k + 1]
      BY <2>4, <2>6
    <3>2. rs[m - k + 1] = s[m - (m - k + 1) + 1] /\ rt[m - k + 1] = t[n - (m - k + 1) + 1]
      BY <2>3, <2>4
    <3>3. QED BY <2>4, <2>5, <3>1, <3>2
  <2>7. ASSUME \A k \in 1 .. m : s[k] = t[n - m + k], NEW k \in 1 .. m PROVE rs[k] = rt[k]
    <3>1. s[m - k + 1] = t[n - m + (m - k + 1)]
      BY <2>4, <2>7
    <3>2. QED BY <2>3, <2>4, <3>1
  <2>8. QED BY <2>2, <2>6, <2>7
<1>4. QED BY <1>2, <1>3 DEF m, n


-----------------------------------------------------------------------------
(* The steps of a wake-up. *)

LEMMA ListScopeStep ==
    ASSUME RetrievalInv, ListScope
    PROVE  RetrievalInv'
<1>0. RetrievalTypes /\ SearchInv /\ WakeupInv
  BY DEF RetrievalInv
<1> DEFINE n == reader.listed + 1
           f == reader.scopes[n]
           S == {i \in Stored : Matches(f, rows[i])}
           old == reader.hits
           more == Newest(S)
           both == old \o more
<1>1. /\ reader.at = "list" /\ reader.listed < Len(reader.scopes) /\ reader \in Reader
      /\ UNCHANGED <<rows, documents, embeddings, changes, rescoped>>
      /\ reader' = [reader EXCEPT !.listed = n, !.hits = both]
  BY <1>0 DEF ListScope, Recent, Newest, RetrievalTypes
<1>2. /\ reader.listed \in 0 .. Len(reader.scopes) /\ Len(reader.scopes) \in Nat
      /\ reader.known <= Len(rows) /\ reader.known \in Nat /\ old \in Seq(Nat)
  <2>1. \A set \in ScopeSets \cup {<< >>} : Len(set) \in Nat
    BY RetrievalAssumption
  <2>2. QED BY <1>0, <1>1, <2>1 DEF WakeupInv, Reader
<1>3. n \in 1 .. Len(reader.scopes) /\ reader.listed \in Nat
  BY <1>1, <1>2
<1>4. f \in ToSet(reader.scopes)
  <2>1. \A set \in ScopeSets \cup {<< >>} : DOMAIN set = 1 .. Len(set)
    BY RetrievalAssumption
  <2>2. DOMAIN reader.scopes = 1 .. Len(reader.scopes)
    BY <1>1, <2>1 DEF Reader
  <2>3. QED BY <1>3, <2>2 DEF ToSet
<1>5. Stored \subseteq Nat /\ IsFiniteSet(Stored) /\ Len(rows) \in Nat
  BY <1>0, StoredFinite
<1>6. S \in SUBSET Nat /\ IsFiniteSet(S) /\ S \subseteq Stored
  BY <1>5, FS_Subset
<1>7. /\ more \in Seq(Nat) /\ ToSet(more) \subseteq S /\ IsInjective(more)
      /\ \A i \in S : i \notin ToSet(more) =>
            Len(more) = WakeupLimit /\ \A j \in ToSet(more) : j > i
  <2> HIDE DEF S
  <2>1. QED BY <1>6, NewestIs
<1>8. \A i \in S : i \in Stored /\ Matches(f, rows[i])
  OBVIOUS
<1>a. \A i \in Stored : Matches(f, rows[i]) => i \in S
  OBVIOUS
<1> HIDE DEF more, S, f
<1>9. both \in Seq(Nat) /\ ToSet(both) = ToSet(old) \cup ToSet(more)
  <2> HIDE DEF old
  <2>1. /\ both \in Seq(Nat) /\ Len(both) = Len(old) + Len(more)
        /\ \A k \in 1 .. Len(both) : both[k] = IF k <= Len(old) THEN old[k] ELSE more[k - Len(old)]
    BY <1>2, <1>7, ConcatProperties
  <2>2. Len(old) \in Nat /\ Len(more) \in Nat
    BY <1>2, <1>7
  <2> HIDE DEF both
  <2>3. ASSUME NEW i \in ToSet(both) PROVE i \in ToSet(old) \cup ToSet(more)
    <3>1. PICK k \in 1 .. Len(both) : both[k] = i
      BY <2>1, Members
    <3>2. k <= Len(old) => k \in 1 .. Len(old)
      BY <2>2
    <3>3. ~(k <= Len(old)) => k - Len(old) \in 1 .. Len(more)
      BY <2>1, <2>2
    <3>4. QED BY <1>2, <1>7, <2>1, <3>1, <3>2, <3>3, Members
  <2>4. ASSUME NEW i \in ToSet(old) PROVE i \in ToSet(both)
    <3>1. PICK k \in 1 .. Len(old) : old[k] = i
      BY <1>2, Members
    <3>2. k \in 1 .. Len(both) /\ k <= Len(old)
      BY <2>1, <2>2
    <3>3. QED BY <2>1, <3>1, <3>2, Members
  <2>5. ASSUME NEW i \in ToSet(more) PROVE i \in ToSet(both)
    <3>1. PICK k \in 1 .. Len(more) : more[k] = i
      BY <1>7, Members
    <3>2. Len(old) + k \in 1 .. Len(both) /\ ~(Len(old) + k <= Len(old)) /\ (Len(old) + k) - Len(old) = k
      BY <2>1, <2>2
    <3>3. both[Len(old) + k] = more[k]
      BY <2>1, <3>2
    <3>4. QED BY <2>1, <3>1, <3>2, <3>3, Members
  <2>6. QED BY <2>1, <2>3, <2>4, <2>5
<1> HIDE DEF both
<1>10. reader' \in Reader
  <2>1. n \in Nat
    BY <1>3
  <2> HIDE DEF n
  <2>2. QED BY <1>1, <1>9, <2>1 DEF Reader
<1>11. /\ reader'.at = "list" /\ reader'.lexical = reader.lexical /\ reader'.semantic = reader.semantic
       /\ reader'.stale = reader.stale /\ reader'.filter = reader.filter
       /\ reader'.hits = both /\ reader'.listed = n /\ reader'.scopes = reader.scopes
       /\ reader'.known = reader.known /\ reader'.total = reader.total
  BY <1>1 DEF Reader
<1>12. Stored' = Stored
  BY <1>1 DEF Stored
<1>13. RetrievalTypes'
  BY <1>0, <1>1, <1>10, <1>11, <1>12 DEF RetrievalTypes
<1>14. SearchInv'
  <2>1. /\ \A i \in ToSet(reader'.lexical) : Justified(i, reader.stale)'
        /\ \A i \in ToSet(reader'.semantic) : Justified(i, {})'
    BY <1>0, <1>1, <1>11, <1>12 DEF SearchInv, Justified
  <2>2. QED BY <1>0, <1>11, <2>1 DEF SearchInv
<1>15. \A i \in ToSet(both) : Due(i)
  <2>1. \A i \in ToSet(old) : Due(i)
    BY <1>0, <1>1 DEF WakeupInv
  <2>2. \A i \in ToSet(more) : Due(i)
    BY <1>4, <1>7, <1>8 DEF Due, InAny
  <2>3. QED BY <1>9, <2>1, <2>2
<1>16. IsFiniteSet(ToSet(both)) /\ ToSet(both) \subseteq Nat
  BY <1>9, SetOfList, Members
<1>17. ASSUME NEW k \in 1 .. n, NEW i \in 1 .. reader.known, i \notin rescoped,
              Matches(reader.scopes[k], rows[i]), i \notin ToSet(both)
       PROVE  WakeupLimit <= Cardinality(Newer(ToSet(both), i))
  <2>1. IsFiniteSet(Newer(ToSet(both), i)) /\ Cardinality(Newer(ToSet(both), i)) \in Nat
    BY <1>16, FS_Subset, FS_CardinalityType DEF Newer
  <2>2. WakeupLimit \in Nat
    BY RetrievalAssumption
  <2>3. CASE k = n
    <3>1. i \in Stored
      BY <1>2, <1>5 DEF Stored
    <3>2. i \in S
      BY <1>17, <1>a, <2>3, <3>1 DEF f
    <3>3. Len(more) = WakeupLimit /\ \A j \in ToSet(more) : j > i
      BY <1>7, <1>9, <1>17, <3>2
    <3>4. ToSet(more) \subseteq Newer(ToSet(both), i)
      BY <1>9, <3>3 DEF Newer
    <3>5. Cardinality(ToSet(more)) = WakeupLimit
      BY <1>7, <3>3, SetOfList
    <3>6. QED BY <2>1, <3>4, <3>5, FS_Subset
  <2>4. CASE k # n
    <3>1. k \in 1 .. reader.listed
      BY <1>3, <2>4
    <3>2. Outdone(i)
      BY <1>0, <1>1, <1>9, <1>17, <3>1 DEF WakeupInv
    <3>3. Newer(ToSet(old), i) \subseteq Newer(ToSet(both), i)
      BY <1>9 DEF Newer
    <3>4. /\ Cardinality(Newer(ToSet(old), i)) <= Cardinality(Newer(ToSet(both), i))
          /\ Cardinality(Newer(ToSet(old), i)) \in Nat
      BY <2>1, <3>3, FS_Subset, FS_CardinalityType
    <3>5. QED BY <2>1, <2>2, <3>2, <3>4 DEF Outdone
  <2>5. QED BY <2>3, <2>4
<1>18. WakeupInv'
  <2>1. \A i \in ToSet(reader'.hits) : Due(i)'
    BY <1>1, <1>11, <1>12, <1>15 DEF Due
  <2>2. (\A k \in 1 .. reader.listed, i \in 1 .. reader.known :
            /\ i \notin rescoped /\ Matches(reader.scopes[k], rows[i]) /\ i \notin ToSet(reader.hits)
            => Outdone(i))'
    BY <1>1, <1>11, <1>17 DEF Outdone
  <2>3. reader'.listed \in 0 .. Len(reader'.scopes)
    BY <1>3, <1>11
  <2>4. /\ reader'.known <= Len(rows')
        /\ rescoped' = {} =>
             /\ reader'.known = Len(rows')
             /\ reader'.total = Cardinality({i \in Stored' : InAny(reader'.scopes, rows'[i])})
    BY <1>0, <1>1, <1>11, <1>12 DEF WakeupInv
  <2>5. WakeUpIsNewest'
    BY <1>11 DEF WakeUpIsNewest
  <2>6. QED BY <1>11, <2>1, <2>2, <2>3, <2>4, <2>5 DEF WakeupInv
<1>19. QED BY <1>13, <1>14, <1>18 DEF RetrievalInv


LEMMA MergeScopesStep ==
    ASSUME RetrievalInv, MergeScopes
    PROVE  RetrievalInv'
<1>0. RetrievalTypes /\ SearchInv /\ WakeupInv
  BY DEF RetrievalInv
<1> DEFINE H == ToSet(reader.hits)
           new == Newest(H)
           m == Reverse(new)
           n == Len(new)
<1>1. /\ reader.at = "list" /\ reader.listed = Len(reader.scopes) /\ reader \in Reader
      /\ UNCHANGED <<rows, documents, embeddings, changes, rescoped>>
      /\ reader' = [reader EXCEPT !.at = "render", !.hits = m, !.blocks = m]
  BY <1>0 DEF MergeScopes, Merged, Newest, RetrievalTypes
<1>2. H \in SUBSET Nat /\ IsFiniteSet(H) /\ Cardinality(H) \in Nat
  <2>1. reader.hits \in Seq(Nat)
    BY <1>1 DEF Reader
  <2>2. QED BY <2>1, SetOfList, Members
<1>3. \A i \in H : Due(i)
  BY <1>0, <1>1 DEF WakeupInv
<1>4. \A k \in 1 .. reader.listed, i \in 1 .. reader.known :
         i \notin rescoped /\ Matches(reader.scopes[k], rows[i]) /\ i \notin H
         => WakeupLimit <= Cardinality(Newer(H, i))
  BY <1>0, <1>1 DEF WakeupInv, Outdone
<1>5. /\ Len(rows) \in Nat /\ reader.known \in Nat /\ reader.known <= Len(rows)
      /\ WakeupLimit \in Nat /\ IsFiniteSet(Stored) /\ Stored \subseteq Nat
  BY <1>0, <1>1, StoredFinite, RetrievalAssumption DEF WakeupInv, Reader
<1>a. DOMAIN reader.scopes = 1 .. reader.listed
  <2>1. \A set \in ScopeSets \cup {<< >>} : DOMAIN set = 1 .. Len(set)
    BY RetrievalAssumption
  <2>2. QED BY <1>1, <2>1 DEF Reader
<1> HIDE DEF H
<1>6. /\ new \in Seq(Nat) /\ ToSet(new) \subseteq H /\ IsInjective(new)
      /\ n = Smaller(WakeupLimit, Cardinality(H))
      /\ \A j, k \in 1 .. n : j < k => new[j] > new[k]
      /\ \A i \in H : i \notin ToSet(new) => n = WakeupLimit /\ \A j \in ToSet(new) : j > i
  BY <1>2, NewestIs
<1>7. \A i \in Nat : i \notin H /\ WakeupLimit <= Cardinality(Newer(H, i)) =>
         n = WakeupLimit /\ \A j \in ToSet(new) : j > i
  BY <1>2, NewestOutdo
<1> HIDE DEF new
<1>8. n \in Nat /\ m \in Seq(Nat) /\ Len(m) = n /\ \A k \in 1 .. n : m[k] = new[n - k + 1]
  <2>1. n \in Nat
    BY <1>6
  <2>2. QED BY <1>6, <2>1, ReverseIs
<1> HIDE DEF m, n
<1>9. ToSet(m) = ToSet(new)
  <2>1. \A k \in 1 .. n : n - k + 1 \in 1 .. n /\ n - (n - k + 1) + 1 = k
    BY <1>8
  <2>2. ASSUME NEW i \in ToSet(m) PROVE i \in ToSet(new)
    <3>1. PICK k \in 1 .. n : m[k] = i
      BY <1>8, Members
    <3>2. n - k + 1 \in 1 .. n /\ new[n - k + 1] = i
      BY <1>8, <2>1, <3>1
    <3>3. QED BY <1>6, <3>2, Members DEF n
  <2>3. ASSUME NEW i \in ToSet(new) PROVE i \in ToSet(m)
    <3>1. PICK k \in 1 .. n : new[k] = i
      BY <1>6, Members DEF n
    <3>2. n - k + 1 \in 1 .. n /\ m[n - k + 1] = new[n - (n - k + 1) + 1]
      BY <1>8, <2>1, SMTT(30)
    <3>3. m[n - k + 1] = i
      BY <2>1, <3>1, <3>2
    <3> DEFINE j == n - k + 1
    <3>4. j \in 1 .. Len(m) /\ m[j] = i /\ m \in Seq(Nat)
      BY <1>8, <3>2, <3>3
    <3> HIDE DEF j
    <3>5. QED BY <3>4, Members
  <2>4. QED BY <2>2, <2>3
<1>10. reader' \in Reader
  BY <1>1, <1>8 DEF Reader
<1>11. /\ reader'.at = "render" /\ reader'.lexical = reader.lexical /\ reader'.semantic = reader.semantic
       /\ reader'.stale = reader.stale /\ reader'.filter = reader.filter
       /\ reader'.hits = m /\ reader'.blocks = m /\ reader'.scopes = reader.scopes
       /\ reader'.known = reader.known /\ reader'.total = reader.total
  BY <1>1 DEF Reader
<1>12. Stored' = Stored
  BY <1>1 DEF Stored
<1>13. RetrievalTypes'
  BY <1>0, <1>1, <1>8, <1>10, <1>11, <1>12 DEF RetrievalTypes
<1>14. SearchInv'
  <2>1. /\ \A i \in ToSet(reader'.lexical) : Justified(i, reader.stale)'
        /\ \A i \in ToSet(reader'.semantic) : Justified(i, {})'
    BY <1>0, <1>1, <1>11, <1>12 DEF SearchInv, Justified
  <2>2. QED BY <1>0, <1>11, <2>1 DEF SearchInv
<1>15. \A i \in ToSet(m) : Due(i)
  BY <1>3, <1>6, <1>9
<1>16. ASSUME NEW i \in 1 .. reader.known, i \notin rescoped, InAny(reader.scopes, rows[i]),
              i \notin ToSet(m)
       PROVE  n = WakeupLimit /\ \A k \in DOMAIN m : m[k] > i
  <2>1. n = WakeupLimit /\ \A j \in ToSet(m) : j > i
    <3>1. CASE i \in H
      BY <1>6, <1>9, <1>16, <3>1
    <3>2. CASE i \notin H
      <4>1. PICK k \in 1 .. reader.listed : Matches(reader.scopes[k], rows[i])
        BY <1>16, <1>a DEF InAny, ToSet
      <4>2. WakeupLimit <= Cardinality(Newer(H, i))
        BY <1>4, <1>16, <3>2, <4>1
      <4>3. i \in Nat
        BY <1>5
      <4>4. QED BY <1>7, <1>9, <3>2, <4>2, <4>3
    <3>3. QED BY <3>1, <3>2
  <2>2. \A k \in DOMAIN m : m[k] \in ToSet(m)
    BY DEF ToSet
  <2>3. QED BY <2>1, <2>2
<1>17. ASSUME rescoped = {} PROVE n = Smaller(WakeupLimit, reader.total)
  <2> DEFINE M == {i \in Stored : InAny(reader.scopes, rows[i])}
  <2>1. reader.known = Len(rows) /\ reader.total = Cardinality(M)
    BY <1>0, <1>1, <1>17 DEF WakeupInv
  <2>2. H \subseteq M
    BY <1>3, <1>17 DEF Due
  <2>3. IsFiniteSet(M) /\ Cardinality(M) \in Nat
    BY <1>5, FS_Subset, FS_CardinalityType
  <2>4. CASE H = M
    BY <1>6, <2>1, <2>4
  <2>5. CASE H # M
    <3>1. PICK i \in M : i \notin H
      BY <2>2, <2>5
    <3>2. i \in 1 .. reader.known /\ InAny(reader.scopes, rows[i]) /\ i \in Nat
      BY <1>5, <2>1 DEF Stored
    <3>3. PICK k \in 1 .. reader.listed : Matches(reader.scopes[k], rows[i])
      BY <3>2, <1>a DEF InAny, ToSet
    <3>4. WakeupLimit <= Cardinality(Newer(H, i))
      BY <1>4, <1>17, <3>1, <3>2, <3>3
    <3>5. n = WakeupLimit
      BY <1>7, <3>1, <3>2, <3>4
    <3>6. /\ Cardinality(Newer(H, i)) <= Cardinality(H) /\ Cardinality(Newer(H, i)) \in Nat
          /\ Cardinality(H) <= Cardinality(M)
      <4>1. Newer(H, i) \subseteq H
        BY DEF Newer
      <4> HIDE DEF M
      <4>2. QED BY <1>2, <2>2, <2>3, <4>1, FS_Subset, FS_CardinalityType
    <3> HIDE DEF M
    <3>7. WakeupLimit <= Cardinality(M)
      BY <1>2, <1>5, <2>3, <3>4, <3>6
    <3>8. QED BY <1>5, <2>1, <2>3, <3>5, <3>7 DEF Smaller
  <2>6. QED BY <2>4, <2>5
<1>18. \A k \in 2 .. Len(m) : m[k - 1] < m[k]
  <2>1. ASSUME NEW k \in 2 .. n PROVE m[k - 1] < m[k]
    <3>1. k - 1 \in 1 .. n /\ k \in 1 .. n
      BY <1>8
    <3>2. m[k - 1] = new[n - (k - 1) + 1] /\ m[k] = new[n - k + 1]
      BY <1>8, <3>1
    <3>3. n - k + 1 \in 1 .. n /\ n - (k - 1) + 1 \in 1 .. n /\ n - k + 1 < n - (k - 1) + 1
      BY <1>8
    <3>4. new[n - k + 1] > new[n - (k - 1) + 1]
      BY <1>6, <3>3
    <3>5. m[k - 1] \in Nat /\ m[k] \in Nat
      BY <1>8, <3>1, SMTT(30)
    <3>6. QED BY <3>2, <3>4, <3>5
  <2>2. QED BY <1>8, <2>1
<1>19. WakeUpIsNewest'
  <2>1. \A i \in Stored' : Steady(i)' /\ i \notin ToSet(m) =>
           Len(m) = WakeupLimit /\ \A k \in DOMAIN m : m[k] > i
    <3>1. \A i \in Stored : i <= reader.known => i \in 1 .. reader.known
      BY <1>5 DEF Stored
    <3>2. QED BY <1>1, <1>8, <1>11, <1>12, <1>16, <3>1 DEF Steady
  <2>2. \A i \in ToSet(m) : InAny(reader'.scopes, rows'[i]) \/ i \in rescoped'
    BY <1>1, <1>11, <1>15 DEF Due
  <2>3. rescoped' = {} => Len(m) = Smaller(WakeupLimit, reader'.total)
    BY <1>1, <1>8, <1>11, <1>17
  <2>4. IsSuffix(m, m)
    <3>1. \A k \in 1 .. n : n - n + k = k
      BY <1>8
    <3>2. QED BY <1>8, <3>1, SuffixIs
  <2>5. QED BY <1>11, <1>18, <2>1, <2>2, <2>3, <2>4 DEF WakeUpIsNewest
<1>20. WakeupInv'
  <2>1. \A i \in ToSet(reader'.hits) : Due(i)'
    BY <1>1, <1>11, <1>12, <1>15 DEF Due
  <2>2. /\ reader'.known <= Len(rows')
        /\ rescoped' = {} =>
             /\ reader'.known = Len(rows')
             /\ reader'.total = Cardinality({i \in Stored' : InAny(reader'.scopes, rows'[i])})
    BY <1>0, <1>1, <1>11, <1>12 DEF WakeupInv
  <2>3. QED BY <1>11, <1>19, <2>1, <2>2 DEF WakeupInv
<1>21. QED BY <1>13, <1>14, <1>20 DEF RetrievalInv


LEMMA DropOldestStep ==
    ASSUME RetrievalInv, DropOldest
    PROVE  RetrievalInv'
<1>0. RetrievalTypes /\ SearchInv /\ WakeupInv
  BY DEF RetrievalInv
<1> DEFINE old == reader.blocks
           new == Tail(old)
           m == reader.hits
<1>1. /\ reader.at = "render" /\ ~Fits(old) /\ reader \in Reader
      /\ UNCHANGED <<rows, documents, embeddings, changes, rescoped>>
      /\ reader' = [reader EXCEPT !.blocks = new]
  BY <1>0 DEF DropOldest, RetrievalTypes
<1>2. old \in Seq(Nat) /\ m \in Seq(Nat) /\ old # << >>
  BY <1>0, <1>1 DEF RetrievalTypes, Reader, Fits
<1>3. /\ WakeUpIsNewest /\ IsSuffix(old, m)
  BY <1>0, <1>1 DEF WakeupInv, WakeUpIsNewest
<1> HIDE DEF old, m
<1>4. /\ Len(old) <= Len(m) /\ \A k \in 1 .. Len(old) : old[k] = m[Len(m) - Len(old) + k]
      /\ Len(old) \in Nat /\ Len(m) \in Nat /\ Len(old) # 0
  BY <1>2, <1>3, SuffixIs, EmptySeq
<1>5. /\ new \in Seq(Nat) /\ Len(new) = Len(old) - 1
      /\ \A k \in 1 .. Len(old) - 1 : new[k] = old[k + 1]
  BY <1>2
<1> HIDE DEF new
<1>6. IsSuffix(new, m)
  <2>1. \A k \in 1 .. Len(new) : k + 1 \in 1 .. Len(old) /\ Len(m) - Len(old) + (k + 1) = Len(m) - Len(new) + k
    BY <1>4, <1>5
  <2>2. \A k \in 1 .. Len(new) : new[k] = m[Len(m) - Len(new) + k]
    BY <1>4, <1>5, <2>1
  <2>3. Len(new) <= Len(m)
    BY <1>4, <1>5
  <2>4. QED BY <1>2, <1>5, <2>2, <2>3, SuffixIs
<1>7. SubSeq(m, Len(m) - Len(new), Len(m)) = old
  <2> DEFINE d == Len(m) - Len(old)
             part == SubSeq(m, d + 1, Len(m))
  <2>1. d \in Nat /\ Len(m) - Len(new) = d + 1 /\ d + Len(old) = Len(m)
    BY <1>4, <1>5
  <2>2. \A k \in 1 .. Len(old) : old[k] = m[d + k]
    BY <1>4
  <2> HIDE DEF d
  <2>3. part = [k \in 1 .. Len(old) |-> m[d + k]]
    <3>1. /\ part \in Seq(Nat) /\ Len(part) = Len(old)
          /\ \A k \in 1 .. Len(old) : part[k] = m[d + k]
      <4> DEFINE n == Len(m)
                 o == Len(old)
      <4>1. n \in Nat /\ o \in Nat /\ d \in Nat /\ d + o = n /\ \A k \in 1 .. n : m[k] \in Nat
        BY <1>2, <1>4, <2>1, SMTT(30)
      <4> HIDE DEF n, o
      <4>2. /\ d + 1 \in Int /\ n \in Int /\ n - (d + 1) + 1 = o /\ \A k \in d + 1 .. n : m[k] \in Nat
            /\ (IF d + 1 <= n THEN n - (d + 1) + 1 ELSE 0) = o
            /\ \A k \in 1 .. o : (d + 1) + k - 1 = d + k
        BY <4>1
      <4>3. /\ SubSeq(m, d + 1, n) \in Seq(Nat) /\ Len(SubSeq(m, d + 1, n)) = o
            /\ \A k \in 1 .. o : SubSeq(m, d + 1, n)[k] = m[(d + 1) + k - 1]
        BY <4>2, SubSeqProperties
      <4>4. QED BY <4>2, <4>3, SMTT(30) DEF n, o
    <3> HIDE DEF part
    <3>2. QED BY <3>1
  <2>4. old = [k \in 1 .. Len(old) |-> old[k]]
    BY <1>2
  <2>5. part = old
    BY <2>2, <2>3, <2>4
  <2>6. QED BY <2>1, <2>5 DEF part
<1>8. reader' \in Reader
  BY <1>1, <1>5 DEF Reader
<1>9. /\ reader'.at = "render" /\ reader'.lexical = reader.lexical /\ reader'.semantic = reader.semantic
      /\ reader'.stale = reader.stale /\ reader'.filter = reader.filter
      /\ reader'.hits = m /\ reader'.blocks = new /\ reader'.scopes = reader.scopes
      /\ reader'.known = reader.known /\ reader'.total = reader.total
  BY <1>1 DEF Reader, m
<1>10. Stored' = Stored
  BY <1>1 DEF Stored
<1>11. RetrievalTypes'
  BY <1>0, <1>1, <1>5, <1>8, <1>9, <1>10 DEF RetrievalTypes
<1>12. SearchInv'
  <2>1. /\ \A i \in ToSet(reader'.lexical) : Justified(i, reader.stale)'
        /\ \A i \in ToSet(reader'.semantic) : Justified(i, {})'
    BY <1>0, <1>1, <1>9, <1>10 DEF SearchInv, Justified
  <2>2. QED BY <1>0, <1>9, <2>1 DEF SearchInv
<1>13. WakeUpIsNewest'
  <2>1. \A i \in Stored' : Steady(i)' <=> Steady(i)
    BY <1>1, <1>9 DEF Steady
  <2>2. ~Fits(SubSeq(m, Len(m) - Len(new), Len(m)))
    BY <1>1, <1>7 DEF old
  <2>3. QED BY <1>1, <1>3, <1>6, <1>9, <1>10, <2>1, <2>2 DEF WakeUpIsNewest, m
<1>14. WakeupInv'
  <2>1. \A i \in ToSet(reader'.hits) : Due(i)'
    BY <1>0, <1>1, <1>9, <1>10 DEF Due, WakeupInv, m
  <2>2. /\ reader'.known <= Len(rows')
        /\ rescoped' = {} =>
             /\ reader'.known = Len(rows')
             /\ reader'.total = Cardinality({i \in Stored' : InAny(reader'.scopes, rows'[i])})
    BY <1>0, <1>1, <1>9, <1>10 DEF WakeupInv
  <2>3. QED BY <1>9, <1>13, <2>1, <2>2 DEF WakeupInv
<1>15. QED BY <1>11, <1>12, <1>14 DEF RetrievalInv

-----------------------------------------------------------------------------
(* Other processes never undo what a call relies on. *)

LEMMA ChangedStep ==
    ASSUME RetrievalInv, Changed
    PROVE  RetrievalInv'
<1>0. RetrievalTypes /\ SearchInv /\ WakeupInv
  BY DEF RetrievalInv
<1>1. RetrievalTypes' /\ Meanwhile /\ reader' = reader
  BY <1>0, ChangesKeep
<1>2. /\ Stored \subseteq Stored' /\ rescoped \subseteq rescoped'
      /\ \A i \in Stored : i \in rescoped' \/ rows'[i] = rows[i]
      /\ rescoped' = {} => rows' = rows
  BY <1>1 DEF Meanwhile
<1>3. \A i, odd : Justified(i, odd) => Justified(i, odd)'
  BY <1>1, <1>2 DEF Justified
<1>4. \A b : Accounted(b) => Accounted(b)'
  BY <1>1, <1>2 DEF Accounted
<1>5. \A i : Due(i) => Due(i)'
  BY <1>1, <1>2 DEF Due
<1>6. SearchInv'
  BY <1>0, <1>1, <1>3, <1>4 DEF SearchInv
<1>7. /\ Len(rows) \in Nat /\ Len(rows') \in Nat /\ Len(rows) <= Len(rows')
      /\ reader.known \in Nat
  <2>1. Len(rows) \in Nat /\ Len(rows') \in Nat /\ reader.known \in Nat /\ rows # << >>
    BY <1>0, <1>1 DEF RetrievalTypes, Reader
  <2>2. Len(rows) # 0
    BY <1>0, EmptySeq DEF RetrievalTypes
  <2>3. Len(rows) \in Stored'
    BY <1>2, <2>1, <2>2 DEF Stored
  <2>4. QED BY <2>1, <2>3 DEF Stored
<1>8. reader.at \in {"list", "render"} =>
         /\ reader.known <= Len(rows')
         /\ \A i \in ToSet(reader.hits) : Due(i)'
         /\ rescoped' = {} =>
               /\ reader.known = Len(rows')
               /\ reader.total = Cardinality({i \in Stored' : InAny(reader.scopes, rows'[i])})
  <2> SUFFICES ASSUME reader.at \in {"list", "render"}
               PROVE  /\ reader.known <= Len(rows')
                      /\ \A i \in ToSet(reader.hits) : Due(i)'
                      /\ rescoped' = {} =>
                            /\ reader.known = Len(rows')
                            /\ reader.total = Cardinality({i \in Stored' : InAny(reader.scopes, rows'[i])})
    OBVIOUS
  <2>1. reader.known <= Len(rows) /\ \A i \in ToSet(reader.hits) : Due(i)
    BY <1>0 DEF WakeupInv
  <2>2. ASSUME rescoped' = {}
        PROVE  /\ reader.known = Len(rows')
               /\ reader.total = Cardinality({i \in Stored' : InAny(reader.scopes, rows'[i])})
    <3>1. rescoped = {} /\ rows' = rows /\ Stored' = Stored
      BY <1>2, <2>2 DEF Stored
    <3>2. QED BY <1>0, <3>1 DEF WakeupInv
  <2>3. QED BY <1>5, <1>7, <2>1, <2>2
<1>9. reader.at \in {"list", "render"} => \A i \in 1 .. reader.known : i \in Stored
  BY <1>0, <1>7 DEF WakeupInv, Stored
<1>10. reader.at = "list" =>
          \A k \in 1 .. reader.listed, i \in 1 .. reader.known :
             /\ i \notin rescoped' /\ Matches(reader.scopes[k], rows'[i]) /\ i \notin ToSet(reader.hits)
             => Outdone(i)
  BY <1>0, <1>2, <1>9 DEF WakeupInv
<1>11. WakeUpIsNewest'
  <2> SUFFICES ASSUME reader.at = "render" PROVE WakeUpIsNewest'
    BY <1>1 DEF WakeUpIsNewest
  <2>1. WakeUpIsNewest
    BY <1>0 DEF WakeupInv
  <2>2. ASSUME NEW i \in Stored', Steady(i)' PROVE i \in Stored /\ Steady(i)
    <3>1. i \in 1 .. reader.known
      BY <1>1, <1>7, <2>2 DEF Steady, Stored
    <3>2. QED BY <1>1, <1>2, <1>9, <2>2, <3>1 DEF Steady
  <2>3. \A i \in ToSet(reader.hits) : InAny(reader.scopes, rows'[i]) \/ i \in rescoped'
    BY <1>1, <1>8 DEF Due
  <2>4. rescoped' = {} => rescoped = {}
    BY <1>2
  <2>5. QED BY <1>1, <2>1, <2>2, <2>3, <2>4 DEF WakeUpIsNewest
<1>12. WakeupInv'
  <2>1. \A i : Outdone(i)' <=> Outdone(i)
    BY <1>1 DEF Outdone
  <2>2. QED BY <1>0, <1>1, <1>8, <1>10, <1>11, <2>1 DEF WakeupInv
<1>13. QED BY <1>1, <1>6, <1>12 DEF RetrievalInv

LEMMA NextHolds == RetrievalInv /\ [RetrievalNext]_retrieval_vars => RetrievalInv'
<1> SUFFICES ASSUME RetrievalInv, [RetrievalNext]_retrieval_vars PROVE RetrievalInv'
  OBVIOUS
<1>1. CASE Changed
  BY <1>1, ChangedStep
<1>2. CASE Reads
  BY <1>2, AskRetrieveStep, LexicalHitsStep, NoLexicalStep, SemanticHitsStep, FuseStep,
     GetBlockStep, AskWakeupStep, ListScopeStep, MergeScopesStep, DropOldestStep DEF Reads
<1>3. CASE UNCHANGED retrieval_vars
  <2>1. reader' = reader /\ rows' = rows /\ rescoped' = rescoped /\ Stored' = Stored
    BY <1>3 DEF retrieval_vars, Stored
  <2>2. RetrievalTypes'
    BY <1>3, <2>1 DEF RetrievalInv, RetrievalTypes, retrieval_vars
  <2>3. SearchInv'
    BY <2>1 DEF RetrievalInv, SearchInv, Justified, Accounted
  <2>4. WakeUpIsNewest'
    BY <2>1 DEF RetrievalInv, WakeupInv, WakeUpIsNewest, Steady
  <2>5. WakeupInv'
    BY <2>1, <2>4 DEF RetrievalInv, WakeupInv, Due, Outdone
  <2>6. QED BY <2>2, <2>3, <2>5, SMTT(30) DEF RetrievalInv
<1>4. QED BY <1>1, <1>2, <1>3, NextIsReadOrChange

LEMMA InvHolds == RetrievalSpec => []RetrievalInv
<1>1. RetrievalInv /\ [RetrievalNext]_retrieval_vars => RetrievalInv'
  BY NextHolds
<1>2. QED BY <1>1, InitHolds, PTL DEF RetrievalSpec

-----------------------------------------------------------------------------
(* The theorems. *)

\* The state of a call and the tables it reads stay well formed, whatever
\* other processes store, move and reindex (Retriever::retrieve, build).
THEOREM ReadTypes == RetrievalSpec => []RetrievalTypes
<1>1. RetrievalInv => RetrievalTypes
  BY DEF RetrievalInv
<1>2. QED BY <1>1, InvHolds, PTL

\* A search answers only with items of its scope, apart from those that other
\* processes moved while it ran and those that an outdated document of the
\* full-text index put there: scope_filter_hits lets no vector hit through.
THEOREM LeaksExplained == RetrievalSpec => []LeaksAreExplained
<1>1. RetrievalInv => LeaksAreExplained
  BY DEF RetrievalInv, SearchInv, LeaksAreExplained, Retrieved, Accounted
<1>2. QED BY <1>1, InvHolds, PTL

\* rrf_fuse and the two cuts keep what both rankers agree on: the reciprocal
\* rank scores are a total order, and an item above another in every ranking
\* has the larger sum.
THEOREM AgreementIsKept == RetrievalSpec => []AgreementKept
<1>1. RetrievalInv => AgreementKept
  <2> SUFFICES ASSUME RetrievalInv, Retrieved PROVE AgreementKept
    BY DEF AgreementKept
  <2>1. /\ OneOrBoth(reader.mode, reader.lexical, reader.semantic)
        /\ IsInjective(reader.lexical) /\ IsInjective(reader.semantic)
        /\ reader.hits = Shown(reader.mode, reader.lexical, reader.semantic)
    BY DEF RetrievalInv, SearchInv, Retrieved
  <2>2. reader.lexical \in Seq(Nat) /\ reader.semantic \in Seq(Nat)
    BY DEF RetrievalInv, RetrievalTypes, Reader
  <2> DEFINE mode == reader.mode
             lex == reader.lexical
             sem == reader.semantic
             hits == reader.hits
  <2>a. /\ lex \in Seq(Nat) /\ sem \in Seq(Nat) /\ OneOrBoth(mode, lex, sem)
        /\ IsInjective(lex) /\ IsInjective(sem) /\ hits = Shown(mode, lex, sem)
    BY <2>1, <2>2
  <2> HIDE DEF mode, lex, sem, hits
  <2>3. /\ hits \in Seq(Nat) /\ IsInjective(hits) /\ Len(hits) <= Smaller(SearchLimit, MaxBlocks)
        /\ \A i, j : Ranked(lex, i, j) /\ Ranked(sem, i, j) => Ranked(hits, i, j)
    BY <2>a, ShownIs
  <2>4. \A i \in ToSet(lex \o sem), j \in ToSet(hits) :
           i # j /\ Ranked(lex, i, j) /\ Ranked(sem, i, j) => Ranked(hits, i, j)
    BY <2>3
  <2>5. QED BY <2>3, <2>4 DEF AgreementKept, lex, sem, hits
<1>2. QED BY <1>1, InvHolds, PTL

\* A wake-up shows the newest items of its scopes in order of time.  What the
\* statements so far have listed leaves out an item only when there are enough
\* newer ones among the listed (Outdone), and neither an overlap of the scopes
\* nor a change by another process takes those away.
THEOREM WakeUpNewest == RetrievalSpec => []WakeUpIsNewest
<1>1. RetrievalInv => WakeUpIsNewest
  BY DEF RetrievalInv, WakeupInv
<1>2. QED BY <1>1, InvHolds, PTL
=============================================================================
