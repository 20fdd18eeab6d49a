------------------------------ MODULE ListProofs ------------------------------
(***************************************************************************)
(* What the operators of Lists return, and that loops with a rank end.  The  *)
(* inductions are over numbers, taken from the least element of a set.       *)
(***************************************************************************)
EXTENDS Lists, FiniteSetTheorems, WellFoundedInduction, SequenceTheorems, TLAPS

\* Every set of numbers has a least one: of its finite initial parts, one
\* includes no other.
THEOREM Least ==
    ASSUME NEW T \in SUBSET Nat, T # {}
    PROVE  \E n \in T : \A m \in T : n <= m
<1> DEFINE Upto(k) == {m \in T : m <= k}
           F == {Upto(k) : k \in T}
<1>1. F \subseteq FiniteSubsetsOf(Nat) /\ F # {}
  <2>1. ASSUME NEW k \in T PROVE Upto(k) \in FiniteSubsetsOf(Nat)
    BY FS_BoundedSetOfNaturals DEF FiniteSubsetsOf
  <2>2. QED BY <2>1
<1>2. PICK A \in F : \A B \in F : <<B, A>> \notin StrictSubsetOrdering(Nat)
  BY <1>1, FS_StrictSubsetOrderingWellFounded, WFMin
<1>3. PICK k \in T : A = Upto(k)
  OBVIOUS
<1>4. ASSUME NEW j \in T, j < k PROVE FALSE
  <2>1. Upto(j) \in F
    OBVIOUS
  <2>2. Upto(j) \subseteq Upto(k)
    <3>1. \A m \in Nat : m <= j => m <= k
      BY <1>4
    <3>2. QED BY <3>1
  <2>3. k \in Upto(k) /\ k \notin Upto(j)
    BY <1>4
  <2>4. Upto(j) \subseteq Nat /\ Upto(k) \subseteq Nat /\ Upto(j) # Upto(k)
    BY <2>3
  <2>5. <<Upto(j), A>> \in StrictSubsetOrdering(Nat)
    BY <2>2, <2>4, <1>3 DEF StrictSubsetOrdering
  <2>6. QED BY <1>2, <2>1, <2>5
<1>5. \A j \in T : k <= j
  BY <1>4
<1>6. QED BY <1>5

\* A set of numbers that has 0, and with a number the next one, up to N, has all
\* the numbers up to N.
LEMMA Upwards ==
    ASSUME NEW N \in Nat, NEW T, 0 \in T, \A n \in 1 .. N : n - 1 \in T => n \in T
    PROVE  0 .. N \subseteq T
<1> SUFFICES ASSUME NEW k \in 0 .. N, k \notin T PROVE FALSE
  OBVIOUS
<1> DEFINE Missing == {n \in 0 .. N : n \notin T}
<1>0. Missing \in SUBSET Nat /\ Missing # {}
  OBVIOUS
<1>1. PICK n \in Missing : \A m \in Missing : n <= m
  <2> HIDE DEF Missing
  <2>1. QED BY <1>0, Least
<1>2. n \in 1 .. N /\ n - 1 \in 0 .. N /\ n - 1 \notin Missing
  BY <1>1
<1>3. QED BY <1>1, <1>2

\* The run of Only over a list: what it has kept after n members.
RunOver(list, keep, only) ==
    /\ Only(list, keep) = only[Len(list)] /\ only[0] = << >>
    /\ \A n \in 1 .. Len(list) :
          only[n] = IF list[n] \in keep THEN Append(only[n - 1], list[n]) ELSE only[n - 1]

LEMMA OnlyRuns ==
    ASSUME NEW S, NEW list \in Seq(S), NEW keep
    PROVE  \E only \in [0 .. Len(list) -> Seq(S)] : RunOver(list, keep, only)
<1> DEFINE N == Len(list)
           Keep(f, n) == IF n = 0 THEN << >>
                         ELSE IF list[n] \in keep THEN Append(f[n - 1], list[n]) ELSE f[n - 1]
           Runs(f, n) == \A k \in 0 .. n : f[k] = Keep(f, k)
           T == {n \in 0 .. N : \E f \in [0 .. n -> Seq(S)] : Runs(f, n)}
<1>0. N \in Nat /\ \A n \in 1 .. N : list[n] \in S
  OBVIOUS
<1>1. 0 \in T
  <2> DEFINE f == [k \in 0 .. 0 |-> << >>]
  <2>1. f \in [0 .. 0 -> Seq(S)] /\ Runs(f, 0) /\ 0 \in 0 .. N
    BY <1>0
  <2> HIDE DEF f, Runs
  <2>2. QED BY <2>1
<1>2. ASSUME NEW n \in 1 .. N, n - 1 \in T PROVE n \in T
  <2>1. PICK f \in [0 .. n - 1 -> Seq(S)] : Runs(f, n - 1)
    BY <1>2
  <2>2. f[n - 1] \in Seq(S)
    BY <1>0
  <2>3. Keep(f, n) \in Seq(S)
    BY <1>0, <2>2
  <2> DEFINE g == [k \in 0 .. n |-> IF k = n THEN Keep(f, n) ELSE f[k]]
  <2>4. g \in [0 .. n -> Seq(S)]
    BY <1>0, <2>3
  <2>5. ASSUME NEW k \in 0 .. n PROVE g[k] = Keep(g, k)
    <3>1. CASE k = n
      BY <1>0, <3>1
    <3>2. CASE k # n
      <4>1. k \in 0 .. n - 1 /\ (k # 0 => k - 1 \in 0 .. n - 1 /\ k - 1 # n)
        BY <1>0, <3>2
      <4>2. g[k] = f[k] /\ (k # 0 => g[k - 1] = f[k - 1])
        BY <1>0, <3>2, <4>1
      <4>3. QED BY <2>1, <4>1, <4>2
    <3>3. QED BY <3>1, <3>2
  <2>6. Runs(g, n)
    BY <2>5
  <2>7. n \in 0 .. N
    BY <1>0
  <2> HIDE DEF g, Runs
  <2>8. QED BY <2>4, <2>6, <2>7
<1>3. N \in T
  <2> HIDE DEF T
  <2>1. \A n \in 1 .. N : n - 1 \in T => n \in T
    BY <1>2
  <2>2. 0 .. N \subseteq T
    <3> HIDE DEF N
    <3>1. QED BY <1>0, <1>1, <2>1, Upwards
  <2>3. QED BY <1>0, <2>2
<1>4. PICK f \in [0 .. N -> Seq(S)] : Runs(f, N)
  BY <1>3
<1> DEFINE only == CHOOSE g : g = [n \in 0 .. N |-> Keep(g, n)]
<1>5. f = [n \in 0 .. N |-> Keep(f, n)]
  BY <1>4
<1>6. only = [n \in 0 .. N |-> Keep(only, n)]
  BY <1>5, ZenonT(40)
<1>7. Only(list, keep) = only[N]
  BY SMTT(30) DEF Only
<1>8. Runs(only, N)
  BY <1>6
<1>9. only \in [0 .. N -> Seq(S)]
  <2> HIDE DEF only
  <2> DEFINE U == {n \in 0 .. N : only[n] \in Seq(S)}
  <2>1. 0 \in U
    <3>1. 0 \in 0 .. N /\ << >> \in Seq(S)
      BY <1>0
    <3>2. only[0] = << >>
      BY <1>8, <3>1
    <3>3. QED BY <3>1, <3>2
  <2>2. ASSUME NEW n \in 1 .. N, n - 1 \in U PROVE n \in U
    <3>1. n \in 0 .. N /\ n # 0 /\ list[n] \in S /\ only[n - 1] \in Seq(S)
      BY <1>0, <2>2
    <3>2. only[n] \in {Append(only[n - 1], list[n]), only[n - 1]}
      BY <1>8, <3>1
    <3>3. Append(only[n - 1], list[n]) \in Seq(S)
      BY <3>1
    <3>4. QED BY <3>1, <3>2, <3>3
  <2>3. 0 .. N \subseteq U
    <3>1. \A n \in 1 .. N : n - 1 \in U => n \in U
      BY <2>2
    <3> HIDE DEF U, N
    <3>2. QED BY <1>0, <2>1, <3>1, Upwards
  <2>4. QED BY <1>6, <2>3
<1> HIDE DEF only
<1>10. \A n \in 1 .. N : only[n] = IF list[n] \in keep THEN Append(only[n - 1], list[n])
                                   ELSE only[n - 1]
  BY <1>0, <1>8
<1>11. only[0] = << >>
  BY <1>0, <1>8
<1>12. QED BY <1>7, <1>9, <1>10, <1>11 DEF RunOver

\* Only keeps the members that are in keep, all of them, in a list of its own.
THEOREM OnlyKeeps ==
    ASSUME NEW S, NEW list \in Seq(S), NEW keep
    PROVE  /\ Only(list, keep) \in Seq(S \cap keep)
           /\ \A n \in 1 .. Len(list) : list[n] \in keep =>
                 \E k \in 1 .. Len(Only(list, keep)) : Only(list, keep)[k] = list[n]
           /\ \A k \in 1 .. Len(Only(list, keep)) :
                 \E n \in 1 .. Len(list) : list[n] = Only(list, keep)[k]
<1>run. PICK only \in [0 .. Len(list) -> Seq(S)] : RunOver(list, keep, only)
  BY OnlyRuns
<1>1. /\ Only(list, keep) = only[Len(list)] /\ only[0] = << >>
      /\ \A n \in 1 .. Len(list) :
            only[n] = IF list[n] \in keep THEN Append(only[n - 1], list[n]) ELSE only[n - 1]
  BY <1>run DEF RunOver
<1> DEFINE N == Len(list)
           Kept(n, s) ==
              /\ s \in Seq(S \cap keep)
              /\ \A m \in 1 .. n : list[m] \in keep => \E k \in 1 .. Len(s) : s[k] = list[m]
              /\ \A k \in 1 .. Len(s) : \E m \in 1 .. n : list[m] = s[k]
           T == {n \in 0 .. N : Kept(n, only[n])}
<1>0. N \in Nat /\ \A n \in 1 .. N : list[n] \in S
  OBVIOUS
<1>2. 0 \in T
  <2>1. only[0] = << >> /\ << >> \in Seq(S \cap keep) /\ Len(<< >>) = 0 /\ 0 \in 0 .. N
    BY <1>0, <1>1
  <2>2. Kept(0, << >>)
    BY <2>1
  <2>3. QED BY <2>1, <2>2
<1>3. ASSUME NEW n \in 1 .. N, n - 1 \in T PROVE n \in T
  <2>1. Kept(n - 1, only[n - 1]) /\ n \in 0 .. N /\ n \in Nat /\ n > 0 /\ list[n] \in S
    BY <1>0, <1>3
  <2>2. \A m \in 1 .. n : m \in 1 .. (n - 1) \/ m = n
    BY <2>1
  <2>3. CASE list[n] \in keep
    <3> DEFINE s == only[n - 1]
               t == Append(s, list[n])
    <3>1. only[n] = t
      BY <1>1, <2>3
    <3>2. s \in Seq(S \cap keep) /\ list[n] \in S \cap keep
      BY <2>1, <2>3
    <3> HIDE DEF s
    <3>3. /\ t \in Seq(S \cap keep) /\ Len(t) = Len(s) + 1 /\ t[Len(s) + 1] = list[n]
          /\ \A k \in 1 .. Len(s) : t[k] = s[k] /\ Len(s) \in Nat
      BY <3>2
    <3> HIDE DEF t
    <3>4. \A k \in 1 .. Len(t) : k \in 1 .. Len(s) \/ k = Len(s) + 1
      BY <3>2, <3>3
    <3>5. 1 .. Len(s) \subseteq 1 .. Len(t) /\ Len(s) + 1 \in 1 .. Len(t)
      BY <3>2, <3>3
    <3>6. ASSUME NEW m \in 1 .. n, list[m] \in keep PROVE \E k \in 1 .. Len(t) : t[k] = list[m]
      <4>1. CASE m = n
        BY <3>3, <3>5, <4>1
      <4>2. CASE m \in 1 .. (n - 1)
        BY <2>1, <3>3, <3>5, <3>6, <4>2 DEF s
      <4>3. QED BY <2>2, <4>1, <4>2
    <3>7. ASSUME NEW k \in 1 .. Len(t) PROVE \E m \in 1 .. n : list[m] = t[k]
      <4>1. CASE k = Len(s) + 1
        BY <2>1, <3>3, <4>1
      <4>2. CASE k \in 1 .. Len(s)
        <5>1. PICK m \in 1 .. (n - 1) : list[m] = s[k]
          BY <2>1, <4>2 DEF s
        <5>2. m \in 1 .. n
          BY <2>1
        <5>3. QED BY <3>3, <4>2, <5>1, <5>2
      <4>3. QED BY <3>4, <4>1, <4>2
    <3>8. Kept(n, t)
      BY <3>3, <3>6, <3>7
    <3>9. QED BY <2>1, <3>1, <3>8
  <2>4. CASE list[n] \notin keep
    <3> DEFINE s == only[n - 1]
    <3>1. only[n] = s
      BY <1>1, <2>4
    <3>2. Kept(n - 1, s) /\ 1 .. (n - 1) \subseteq 1 .. n
      BY <2>1
    <3> HIDE DEF s
    <3>3. Kept(n, s)
      BY <2>2, <2>4, <3>2
    <3>4. QED BY <2>1, <3>1, <3>3
  <2>5. QED BY <2>3, <2>4
<1>4. N \in T
  <2> HIDE DEF T
  <2>1. \A n \in 1 .. N : n - 1 \in T => n \in T
    BY <1>3
  <2>2. 0 .. N \subseteq T
    <3> HIDE DEF N
    <3>1. QED BY <1>0, <1>2, <2>1, Upwards
  <2>3. QED BY <1>0, <2>2
<1>5. Kept(N, only[N])
  BY <1>4, SMTT(30)
<1>6. QED BY <1>1, <1>5

\* Every member is kept or counted among those that are not in keep.
THEOREM OnlyCounts ==
    ASSUME NEW S, NEW list \in Seq(S), NEW keep
    PROVE  /\ IsFiniteSet({n \in 1 .. Len(list) : list[n] \notin keep})
           /\ Len(Only(list, keep)) + Cardinality({n \in 1 .. Len(list) : list[n] \notin keep})
                 = Len(list)
<1>run. PICK only \in [0 .. Len(list) -> Seq(S)] : RunOver(list, keep, only)
  BY OnlyRuns
<1>1. /\ Only(list, keep) = only[Len(list)] /\ only[0] = << >>
      /\ \A n \in 1 .. Len(list) :
            only[n] = IF list[n] \in keep THEN Append(only[n - 1], list[n]) ELSE only[n - 1]
  BY <1>run DEF RunOver
<1> DEFINE N == Len(list)
           Dropped(n) == {m \in 1 .. n : list[m] \notin keep}
           T == {n \in 0 .. N : Len(only[n]) + Cardinality(Dropped(n)) = n}
<1>0. N \in Nat /\ \A n \in 1 .. N : list[n] \in S
  OBVIOUS
<1>2. \A n \in 0 .. N : IsFiniteSet(Dropped(n)) /\ Cardinality(Dropped(n)) \in Nat
  <2>1. ASSUME NEW n \in 0 .. N PROVE IsFiniteSet(Dropped(n))
    <3>1. IsFiniteSet(1 .. n)
      BY FS_Interval
    <3>2. QED BY <3>1, FS_Subset
  <2>2. QED BY <2>1, FS_CardinalityType
<1>3. 0 \in T
  <2>1. Dropped(0) = {} /\ 0 \in 0 .. N
    BY <1>0
  <2>2. QED BY <1>1, <2>1, FS_EmptySet
<1>4. ASSUME NEW n \in 1 .. N, n - 1 \in T PROVE n \in T
  <2>1. /\ n \in Nat /\ n - 1 \in 0 .. N /\ n \in 0 .. N /\ list[n] \in S
    BY <1>0
  <2>a. only[n - 1] \in Seq(S) /\ Cardinality(Dropped(n - 1)) \in Nat
    BY <1>2, <2>1
  <2>b. Len(only[n - 1]) + Cardinality(Dropped(n - 1)) = n - 1
    BY <1>4
  <2>2. CASE list[n] \in keep
    <3>1. Dropped(n) = Dropped(n - 1)
      BY <2>1, <2>2
    <3>2. only[n] = Append(only[n - 1], list[n])
      BY <1>1, <2>2
    <3>3. Len(only[n]) = Len(only[n - 1]) + 1 /\ Len(only[n - 1]) \in Nat
      BY <2>a, <3>2
    <3> HIDE DEF Dropped
    <3>4. QED BY <2>1, <2>a, <2>b, <3>1, <3>3
  <2>3. CASE list[n] \notin keep
    <3>1. Dropped(n) = Dropped(n - 1) \cup {n} /\ n \notin Dropped(n - 1)
      BY <2>1, <2>3
    <3>2. IsFiniteSet(Dropped(n - 1))
      BY <1>2, <2>1
    <3>3. only[n] = only[n - 1] /\ Len(only[n]) \in Nat
      BY <1>1, <2>a, <2>3
    <3> HIDE DEF Dropped
    <3>4. Cardinality(Dropped(n)) = Cardinality(Dropped(n - 1)) + 1
      BY <3>1, <3>2, FS_AddElement
    <3>5. Len(only[n]) + Cardinality(Dropped(n)) = n
      <4> DEFINE kept == Len(only[n])
                 lost == Cardinality(Dropped(n - 1))
      <4>1. kept \in Nat /\ lost \in Nat /\ kept + lost = n - 1
        BY <2>a, <2>b, <3>3
      <4>2. Cardinality(Dropped(n)) = lost + 1
        BY <3>4
      <4> HIDE DEF kept, lost
      <4>3. kept + (lost + 1) = n
        BY <2>1, <4>1
      <4>4. kept + Cardinality(Dropped(n)) = n
        BY <4>2, <4>3
      <4>5. QED BY <4>4 DEF kept
    <3>6. QED BY <2>1, <3>5
  <2>4. QED BY <2>2, <2>3
<1>5. N \in T
  <2> HIDE DEF T
  <2>1. \A n \in 1 .. N : n - 1 \in T => n \in T
    BY <1>4
  <2>2. 0 .. N \subseteq T
    <3> HIDE DEF N
    <3>1. QED BY <1>0, <1>3, <2>1, Upwards
  <2>3. QED BY <1>0, <2>2
<1>6. N \in 0 .. N
  BY <1>0
<1>7. QED BY <1>1, <1>2, <1>5, <1>6

\* What is asked of one more member does not depend on those before it.
THEOREM OnlyAppends ==
    ASSUME NEW S, NEW list \in Seq(S), NEW keep, NEW x \in S
    PROVE  Only(Append(list, x), keep) =
              IF x \in keep THEN Append(Only(list, keep), x) ELSE Only(list, keep)
<1> DEFINE N == Len(list)
           longer == Append(list, x)
<1>0. /\ N \in Nat /\ longer \in Seq(S) /\ Len(longer) = N + 1 /\ longer[N + 1] = x
      /\ \A n \in 1 .. N : longer[n] = list[n]
  OBVIOUS
<1> HIDE DEF longer
<1>1. PICK only \in [0 .. N -> Seq(S)] : RunOver(list, keep, only)
  BY OnlyRuns
<1>2. PICK more \in [0 .. Len(longer) -> Seq(S)] : RunOver(longer, keep, more)
  BY <1>0, OnlyRuns
<1> DEFINE T == {n \in 0 .. N : more[n] = only[n]}
<1>3. 0 \in T
  BY <1>0, <1>1, <1>2 DEF RunOver
<1>4. ASSUME NEW n \in 1 .. N, n - 1 \in T PROVE n \in T
  <2>1. n \in 1 .. Len(longer) /\ n \in 0 .. N /\ more[n - 1] = only[n - 1] /\ longer[n] = list[n]
    BY <1>0, <1>4
  <2>2. QED BY <1>1, <1>2, <2>1, SMTT(30) DEF RunOver
<1>5. N \in T
  <2> HIDE DEF T
  <2>1. \A n \in 1 .. N : n - 1 \in T => n \in T
    BY <1>4
  <2>2. 0 .. N \subseteq T
    <3> HIDE DEF N
    <3>1. QED BY <1>0, <1>3, <2>1, Upwards
  <2>3. QED BY <1>0, <2>2, SMTT(30)
<1>6. more[N] = Only(list, keep)
  BY <1>1, <1>5 DEF RunOver
<1>7. more[N + 1] = IF x \in keep THEN Append(more[N], x) ELSE more[N]
  <2>1. N + 1 \in 1 .. Len(longer) /\ N + 1 - 1 = N
    BY <1>0
  <2>2. more[N + 1] = IF longer[N + 1] \in keep THEN Append(more[N + 1 - 1], longer[N + 1])
                      ELSE more[N + 1 - 1]
    BY <1>2, <2>1 DEF RunOver
  <2>3. QED BY <1>0, <2>1, <2>2
<1>8. QED BY <1>0, <1>2, <1>6, <1>7 DEF longer, RunOver

\* A list whose members all stay is kept as it is.
THEOREM OnlyAll ==
    ASSUME NEW S, NEW list \in Seq(S), NEW keep, \A n \in 1 .. Len(list) : list[n] \in keep
    PROVE  Only(list, keep) = list
<1> DEFINE N == Len(list)
<1>0. N \in Nat
  OBVIOUS
<1>1. PICK only \in [0 .. N -> Seq(S)] :
         /\ Only(list, keep) = only[N] /\ only[0] = << >>
         /\ \A n \in 1 .. N :
               only[n] = IF list[n] \in keep THEN Append(only[n - 1], list[n]) ELSE only[n - 1]
  BY OnlyRuns DEF RunOver
<1> DEFINE T == {n \in 0 .. N : Len(only[n]) = n /\ \A i \in 1 .. n : only[n][i] = list[i]}
<1>2. 0 \in T
  BY <1>0, <1>1
<1>3. ASSUME NEW n \in 1 .. N, n - 1 \in T PROVE n \in T
  <2> DEFINE before == only[n - 1]
  <2>1. /\ n \in 0 .. N /\ n - 1 \in 0 .. N /\ before \in Seq(S) /\ Len(before) = n - 1
        /\ \A i \in 1 .. n - 1 : before[i] = list[i]
    BY <1>0, <1>3
  <2>2. only[n] = Append(before, list[n]) /\ list[n] \in S
    <3>1. list[n] \in S /\ list[n] \in keep
      BY <1>0
    <3>2. only[n] = IF list[n] \in keep THEN Append(only[n - 1], list[n]) ELSE only[n - 1]
      BY <1>1
    <3>3. QED BY <3>1, <3>2
  <2> HIDE DEF before
  <2>3. /\ Len(Append(before, list[n])) = Len(before) + 1
        /\ Append(before, list[n])[Len(before) + 1] = list[n]
        /\ \A i \in 1 .. Len(before) : Append(before, list[n])[i] = before[i]
    BY <2>1, <2>2
  <2>4. Len(only[n]) = n
    BY <2>1, <2>2, <2>3
  <2>5. \A i \in 1 .. n : i \in 1 .. n - 1 \/ i = n
    OBVIOUS
  <2>6. \A i \in 1 .. n : only[n][i] = list[i]
    BY <2>1, <2>2, <2>3, <2>5
  <2>7. QED BY <2>1, <2>4, <2>6
<1>4. N \in T
  <2> HIDE DEF T
  <2>1. \A n \in 1 .. N : n - 1 \in T => n \in T
    BY <1>3
  <2>2. 0 .. N \subseteq T
    <3> HIDE DEF N
    <3>1. QED BY <1>0, <1>2, <2>1, Upwards
  <2>3. QED BY <1>0, <2>2
<1>5. only[N] \in Seq(S) /\ Len(only[N]) = Len(list) /\ \A i \in 1 .. Len(only[N]) : only[N][i] = list[i]
  BY <1>0, <1>4
<1>6. only[N] = list
  BY <1>5, SeqEqual
<1>7. QED BY <1>1, <1>6

\* A list of which nothing stays becomes empty.
THEOREM OnlyNone ==
    ASSUME NEW S, NEW list \in Seq(S), NEW keep, \A n \in 1 .. Len(list) : list[n] \notin keep
    PROVE  Only(list, keep) = << >>
<1> DEFINE kept == Only(list, keep)
<1>1. /\ kept \in Seq(S \cap keep)
      /\ \A k \in 1 .. Len(kept) : \E n \in 1 .. Len(list) : list[n] = kept[k]
  BY OnlyKeeps
<1> HIDE DEF kept
<1>2. \A k \in 1 .. Len(kept) : kept[k] \in keep
  BY <1>1
<1>3. 1 \notin 1 .. Len(kept)
  BY <1>1, <1>2
<1>4. kept = << >>
  BY <1>1, <1>3, EmptySeq
<1>5. QED BY <1>4 DEF kept


\* What Only keeps stands in the order it had.
THEOREM OnlyInOrder ==
    ASSUME NEW S, NEW list \in Seq(S), NEW keep
    PROVE  \E at \in [1 .. Len(Only(list, keep)) -> 1 .. Len(list)] :
              /\ \A k \in 1 .. Len(Only(list, keep)) : Only(list, keep)[k] = list[at[k]]
              /\ \A j, k \in 1 .. Len(Only(list, keep)) : j < k => at[j] < at[k]
<1>run. PICK only \in [0 .. Len(list) -> Seq(S)] : RunOver(list, keep, only)
  BY OnlyRuns
<1>1. /\ Only(list, keep) = only[Len(list)] /\ only[0] = << >>
      /\ \A n \in 1 .. Len(list) :
            only[n] = IF list[n] \in keep THEN Append(only[n - 1], list[n]) ELSE only[n - 1]
  BY <1>run DEF RunOver
<1> DEFINE N == Len(list)
           Traced(s, n, at) == /\ \A k \in 1 .. Len(s) : s[k] = list[at[k]]
                               /\ \A j, k \in 1 .. Len(s) : j < k => at[j] < at[k]
           T == {n \in 0 .. N : \E at \in [1 .. Len(only[n]) -> 1 .. n] : Traced(only[n], n, at)}
<1>0. N \in Nat
  OBVIOUS
<1>2. 0 \in T
  <2>1. [k \in 1 .. 0 |-> 0] \in [1 .. Len(only[0]) -> 1 .. 0]
    BY <1>1
  <2>2. Traced(only[0], 0, [k \in 1 .. 0 |-> 0])
    BY <1>1
  <2> HIDE DEF Traced
  <2>3. 0 \in 0 .. N
    BY <1>0
  <2>4. QED BY <2>1, <2>2, <2>3
<1>3. ASSUME NEW n \in 1 .. N, n - 1 \in T PROVE n \in T
  <2> DEFINE s == only[n - 1]
             t == Append(s, list[n])
  <2>0. n \in 0 .. N /\ n - 1 \in 0 .. N /\ s \in Seq(S) /\ Len(s) \in Nat
    <3>1. n \in 0 .. N /\ n - 1 \in 0 .. N
      BY <1>0
    <3>2. s \in Seq(S)
      BY <3>1
    <3> HIDE DEF s
    <3>3. Len(s) \in Nat
      BY <3>2
    <3>4. QED BY <3>1, <3>2, <3>3
  <2>1. PICK at \in [1 .. Len(s) -> 1 .. n - 1] : Traced(s, n - 1, at)
    BY <1>3
  <2>2. 1 .. n - 1 \subseteq 1 .. n
    OBVIOUS
  <2>3. CASE list[n] \notin keep
    <3>1. only[n] = s
      BY <1>1, <2>3
    <3> HIDE DEF s, Traced
    <3>2. at \in [1 .. Len(s) -> 1 .. n]
      BY <2>1, <2>2
    <3>3. Traced(s, n, at)
      BY <2>1 DEF Traced
    <3>4. QED BY <2>0, <3>1, <3>2, <3>3
  <2>4. CASE list[n] \in keep
    <3>1. only[n] = t
      BY <1>1, <2>4
    <3>2. Len(t) = Len(s) + 1 /\ t[Len(s) + 1] = list[n] /\ \A k \in 1 .. Len(s) : t[k] = s[k]
      BY <2>0
    <3> DEFINE L == Len(s)
               more == [k \in 1 .. L + 1 |-> IF k = L + 1 THEN n ELSE at[k]]
    <3> HIDE DEF s, t
    <3>3. \A k \in 1 .. L + 1 : k \in 1 .. L \/ k = L + 1
      BY <2>0
    <3>4. /\ \A k \in 1 .. L : more[k] = at[k] /\ at[k] \in 1 .. n - 1 /\ k # L + 1
          /\ more[L + 1] = n
      BY <2>0, <2>1
    <3>5. more \in [1 .. L + 1 -> 1 .. n]
      BY <2>0, <2>1, <2>2, <3>3
    <3> HIDE DEF more
    <3>6. \A k \in 1 .. L + 1 : t[k] = list[more[k]]
      BY <2>1, <3>2, <3>3, <3>4
    <3>7. \A j, k \in 1 .. L + 1 : j < k => more[j] < more[k]
      <4>1. ASSUME NEW j \in 1 .. L + 1, NEW k \in 1 .. L + 1, j < k PROVE more[j] < more[k]
        <5>1. j \in 1 .. L
          BY <2>0, <4>1
        <5>2. CASE k = L + 1
          BY <3>4, <5>1, <5>2
        <5>3. CASE k \in 1 .. L
          BY <2>1, <3>4, <4>1, <5>1, <5>3
        <5>4. QED BY <3>3, <5>2, <5>3
      <4>2. QED BY <4>1
    <3>8. Traced(t, n, more)
      BY <3>2, <3>6, <3>7
    <3>9. more \in [1 .. Len(t) -> 1 .. n]
      BY <3>2, <3>5
    <3> HIDE DEF Traced
    <3>10. QED BY <2>0, <3>1, <3>8, <3>9
  <2>5. QED BY <2>3, <2>4
<1>4. N \in T
  <2> HIDE DEF T
  <2>1. \A n \in 1 .. N : n - 1 \in T => n \in T
    BY <1>3
  <2>2. 0 .. N \subseteq T
    <3> HIDE DEF N
    <3>1. QED BY <1>0, <1>2, <2>1, Upwards
  <2>3. QED BY <1>0, <2>2
<1>5. QED BY <1>1, <1>4

\* Sets that are paired are of one size.
LEMMA PairedSets ==
    ASSUME NEW S, NEW T, IsFiniteSet(S), NEW f \in [S -> T],
           \A x, y \in S : f[x] = f[y] => x = y, \A z \in T : \E x \in S : f[x] = z
    PROVE  IsFiniteSet(T) /\ Cardinality(T) = Cardinality(S)
<1>1. f \in Bijection(S, T)
  BY DEF Bijection, Injection, Surjection, IsInjective
<1>2. ExistsBijection(S, T)
  BY <1>1 DEF ExistsBijection
<1>3. QED BY <1>2, FS_Bijection

\* A strict total order of a set.
Orders(before, set) ==
    /\ \A x \in set : <<x, x>> \notin before
    /\ \A x, y \in set : x # y => <<x, y>> \in before \/ <<y, x>> \in before
    /\ \A x, y, z \in set : <<x, y>> \in before /\ <<y, z>> \in before => <<x, z>> \in before

\* A finite set has a first member.
LEMMA FirstOfAll ==
    ASSUME NEW set, IsFiniteSet(set), set # {}, NEW before, Orders(before, set)
    PROVE  \E x \in set : \A y \in set \ {x} : <<x, y>> \in before
<1> DEFINE Ahead(x) == {y \in set : <<y, x>> \in before}
           F == {Ahead(x) : x \in set}
<1>1. F \subseteq FiniteSubsetsOf(set) /\ F # {}
  <2>1. \A x \in set : IsFiniteSet(Ahead(x))
    BY FS_Subset
  <2>2. QED BY <2>1 DEF FiniteSubsetsOf
<1>2. PICK A \in F : \A B \in F : <<B, A>> \notin StrictSubsetOrdering(set)
  BY <1>1, FS_StrictSubsetOrderingWellFounded, WFMin
<1>3. PICK x \in set : A = Ahead(x)
  OBVIOUS
<1>4. ASSUME NEW y \in set \ {x}, <<x, y>> \notin before PROVE FALSE
  <2>1. <<y, x>> \in before /\ y \in set
    BY <1>4 DEF Orders
  <2>2. Ahead(y) \subseteq Ahead(x)
    BY <2>1 DEF Orders
  <2>3. y \in Ahead(x) /\ y \notin Ahead(y)
    BY <2>1 DEF Orders
  <2>4. Ahead(y) \in F /\ Ahead(y) # Ahead(x) /\ Ahead(x) \subseteq set /\ Ahead(y) \subseteq set
    BY <2>1, <2>3
  <2>5. <<Ahead(y), A>> \in StrictSubsetOrdering(set)
    BY <1>3, <2>2, <2>4 DEF StrictSubsetOrdering
  <2>6. QED BY <1>2, <2>4, <2>5
<1>5. QED BY <1>4

\* s has the members of set in the order before.
InOrder(s, set, before) ==
    /\ \A x \in set : \E k \in DOMAIN s : s[k] = x
    /\ \A j, k \in DOMAIN s : j < k => <<s[j], s[k]>> \in before

LEMMA CanBeOrdered ==
    ASSUME NEW set, IsFiniteSet(set), NEW before, Orders(before, set)
    PROVE  \E s \in [1 .. Cardinality(set) -> set] : InOrder(s, set, before)
<1> DEFINE N == Cardinality(set)
           Can(part) == \E s \in [1 .. Cardinality(part) -> part] : InOrder(s, part, before)
           T == {n \in 0 .. N : \A part \in SUBSET set : Cardinality(part) = n => Can(part)}
<1>0. N \in Nat /\ \A part \in SUBSET set : IsFiniteSet(part) /\ Cardinality(part) \in Nat
  BY FS_CardinalityType, FS_Subset
<1>1. 0 \in T
  <2>1. ASSUME NEW part \in SUBSET set, Cardinality(part) = 0 PROVE Can(part)
    <3>1. part = {}
      BY <1>0, <2>1, FS_EmptySet
    <3>2. [k \in 1 .. 0 |-> 0] \in [1 .. Cardinality(part) -> part]
      BY <2>1, <3>1
    <3>3. InOrder([k \in 1 .. 0 |-> 0], part, before)
      BY <3>1 DEF InOrder
    <3>4. QED BY <3>2, <3>3
  <2>2. QED BY <1>0, <2>1
<1>2. ASSUME NEW n \in 1 .. N, n - 1 \in T PROVE n \in T
  <2>1. ASSUME NEW part \in SUBSET set, Cardinality(part) = n PROVE Can(part)
    <3>1. IsFiniteSet(part) /\ part # {} /\ n \in Nat
      BY <1>0, <2>1, FS_EmptySet
    <3>2. Orders(before, part)
      <4>1. \A x \in part : x \in set
        OBVIOUS
      <4>2. QED BY <4>1 DEF Orders
    <3>3. PICK x \in part : \A y \in part \ {x} : <<x, y>> \in before
      BY <3>1, <3>2, FirstOfAll
    <3> DEFINE rest == part \ {x}
    <3>4. Cardinality(rest) = n - 1 /\ rest \in SUBSET set
      BY <2>1, <3>1, FS_RemoveElement
    <3>5. PICK s \in [1 .. n - 1 -> rest] : InOrder(s, rest, before)
      BY <1>2, <3>4
    <3> DEFINE t == [k \in 1 .. n |-> IF k = 1 THEN x ELSE s[k - 1]]
    <3>6. \A k \in 1 .. n : k = 1 \/ k - 1 \in 1 .. n - 1
      BY <3>1
    <3>7. t \in [1 .. n -> part]
      BY <3>5, <3>6
    <3>8. t[1] = x /\ 1 \in 1 .. n /\ \A k \in 1 .. n : k # 1 => t[k] = s[k - 1] /\ t[k] \in rest
      BY <3>1, <3>5, <3>6
    <3>9. \A y \in part : \E k \in 1 .. n : t[k] = y
      <4>1. ASSUME NEW y \in rest PROVE \E k \in 1 .. n : t[k] = y
        <5>1. PICK j \in 1 .. n - 1 : s[j] = y
          BY <3>5 DEF InOrder
        <5>2. j + 1 \in 1 .. n /\ j + 1 # 1 /\ (j + 1) - 1 = j
          BY <3>1
        <5>3. t[j + 1] = s[j]
          BY <3>8, <5>2
        <5>4. QED BY <5>1, <5>2, <5>3
      <4>2. \A y \in part : y = x \/ y \in rest
        OBVIOUS
      <4>3. QED BY <3>8, <4>1, <4>2
    <3>10. \A j, k \in 1 .. n : j < k => <<t[j], t[k]>> \in before
      <4>1. ASSUME NEW j \in 1 .. n, NEW k \in 1 .. n, j < k PROVE <<t[j], t[k]>> \in before
        <5>1. k # 1 /\ t[k] = s[k - 1] /\ t[k] \in rest
          BY <3>1, <3>8, <4>1
        <5>2. CASE j = 1
          BY <3>3, <3>8, <5>1, <5>2
        <5>3. CASE j # 1
          <6>1. t[j] = s[j - 1] /\ j - 1 \in 1 .. n - 1 /\ k - 1 \in 1 .. n - 1 /\ j - 1 < k - 1
            BY <3>6, <3>8, <4>1, <5>1, <5>3
          <6>2. QED BY <3>5, <5>1, <6>1 DEF InOrder
        <5>4. QED BY <5>2, <5>3
      <4>2. QED BY <4>1
    <3> HIDE DEF t
    <3>11. InOrder(t, part, before)
      BY <3>7, <3>9, <3>10 DEF InOrder
    <3>12. QED BY <2>1, <3>7, <3>11
  <2> HIDE DEF Can
  <2>2. n \in 0 .. N
    BY <1>0
  <2>3. QED BY <2>1, <2>2
<1>3. N \in T
  <2> HIDE DEF T
  <2>1. \A n \in 1 .. N : n - 1 \in T => n \in T
    BY <1>2
  <2>2. 0 .. N \subseteq T
    <3> HIDE DEF N
    <3>1. QED BY <1>0, <1>1, <2>1, Upwards
  <2>3. QED BY <1>0, <2>2
<1> HIDE DEF Can
<1>4. Can(set)
  BY <1>3
<1>5. QED BY <1>4 DEF Can

\* Ordered gives every member of a finite set exactly once, in the order asked.
THEOREM OrderedSorts ==
    ASSUME NEW set, IsFiniteSet(set), NEW before, Orders(before, set)
    PROVE  /\ Cardinality(set) \in Nat
           /\ Ordered(set, before) \in [1 .. Cardinality(set) -> set]
           /\ Ordered(set, before) \in Seq(set)
           /\ Len(Ordered(set, before)) = Cardinality(set)
           /\ \A x \in set : \E k \in 1 .. Cardinality(set) : Ordered(set, before)[k] = x
           /\ \A j, k \in 1 .. Cardinality(set) :
                 j < k => <<Ordered(set, before)[j], Ordered(set, before)[k]>> \in before
           /\ \A j, k \in 1 .. Cardinality(set) :
                 Ordered(set, before)[j] = Ordered(set, before)[k] => j = k
<1> DEFINE N == Cardinality(set)
           s == Ordered(set, before)
<1>0. N \in Nat
  BY FS_CardinalityType
<1>1. PICK r \in [1 .. N -> set] :
         /\ \A x \in set : \E k \in DOMAIN r : r[k] = x
         /\ \A j, k \in DOMAIN r : j < k => <<r[j], r[k]>> \in before
  BY CanBeOrdered DEF InOrder
<1>2. /\ s \in [1 .. N -> set] /\ \A x \in set : \E k \in DOMAIN s : s[k] = x
      /\ \A j, k \in DOMAIN s : j < k => <<s[j], s[k]>> \in before
  <2> HIDE DEF N
  <2>1. QED BY <1>1 DEF Ordered, N
<1> HIDE DEF s
<1>3. DOMAIN s = 1 .. N
  BY <1>2
<1>4. s \in Seq(set) /\ Len(s) = N
  <2> HIDE DEF N
  <2>1. QED BY <1>0, <1>2
<1>5. ASSUME NEW j \in 1 .. N, NEW k \in 1 .. N, s[j] = s[k], j # k PROVE FALSE
  <2>1. j < k \/ k < j
    BY <1>0, <1>5
  <2>2. <<s[j], s[j]>> \in before /\ s[j] \in set
    BY <1>2, <1>3, <1>5, <2>1
  <2>3. QED BY <2>2 DEF Orders
<1>6. QED BY <1>0, <1>2, <1>3, <1>4, <1>5 DEF s

-----------------------------------------------------------------------------
(* Loops, as functions that end at done or go on with the next state. *)

Loop(f, S, done, value, next) ==
    \A s \in S : f[s] = IF s \in done THEN value[s] ELSE f[next[s]]

RankFalls(S, done, next, rank) == \A s \in S \ done : next[s] \in S /\ rank[next[s]] < rank[s]

\* A loop with a rank that decreases has a result in every state.
LEMMA LoopRuns ==
    ASSUME NEW S, NEW V, NEW done, NEW value \in [S -> V], NEW next,
           NEW N \in Nat, NEW rank \in [S -> 0 .. N], RankFalls(S, done, next, rank),
           NEW any \in V
    PROVE  \E f \in [S -> V] : Loop(f, S, done, value, next)
<1> DEFINE Right(f, n) == \A s \in S : rank[s] <= n =>
                             f[s] = IF s \in done THEN value[s] ELSE f[next[s]]
           T == {n \in 0 .. N : \E f \in [S -> V] : Right(f, n)}
<1>1. 0 \in T
  <2>1. \A s \in S : rank[s] <= 0 => s \in done
    <3> SUFFICES ASSUME NEW s \in S \ done, rank[s] <= 0 PROVE FALSE
      OBVIOUS
    <3>1. next[s] \in S /\ rank[next[s]] < rank[s]
      BY DEF RankFalls
    <3>2. rank[next[s]] \in 0 .. N /\ rank[s] \in 0 .. N
      BY <3>1
    <3>3. QED BY <3>1, <3>2
  <2>2. Right(value, 0)
    BY <2>1
  <2>3. QED BY <2>2
<1>2. ASSUME NEW n \in 1 .. N, n - 1 \in T PROVE n \in T
  <2>1. PICK f \in [S -> V] : Right(f, n - 1)
    BY <1>2
  <2> DEFINE g == [s \in S |-> IF s \in done THEN value[s] ELSE f[next[s]]]
  <2>2. g \in [S -> V]
    BY DEF RankFalls
  <2>3. Right(g, n)
    <3> SUFFICES ASSUME NEW s \in S, rank[s] <= n, s \notin done
                 PROVE  g[s] = g[next[s]]
      OBVIOUS
    <3>1. next[s] \in S /\ rank[next[s]] < rank[s]
      BY DEF RankFalls
    <3>2. rank[next[s]] \in 0 .. N /\ rank[s] \in 0 .. N
      BY <3>1
    <3>3. rank[next[s]] <= n - 1
      BY <3>1, <3>2
    <3>4. f[next[s]] = g[next[s]]
      BY <2>1, <3>1, <3>3
    <3>5. QED BY <3>4
  <2> HIDE DEF g, Right
  <2>4. QED BY <2>2, <2>3
<1> HIDE DEF Right
<1>3. 0 .. N \subseteq T
  <2> HIDE DEF T
  <2>1. QED BY <1>1, <1>2, Upwards
<1>4. PICK f \in [S -> V] : Right(f, N)
  BY <1>3
<1>5. QED BY <1>4 DEF Right, Loop

\* Its result is the value of a state where it is done, of which what every turn
\* keeps is true.
LEMMA LoopEnds ==
    ASSUME NEW S, NEW done, NEW value, NEW next, NEW N \in Nat, NEW rank \in [S -> 0 .. N],
           RankFalls(S, done, next, rank), NEW f, Loop(f, S, done, value, next),
           NEW P \in SUBSET S, \A s \in P \ done : next[s] \in P, NEW start \in P
    PROVE  \E d \in P : d \in done /\ f[start] = value[d]
<1> DEFINE Ends(s) == \E d \in P : d \in done /\ f[s] = value[d]
           T == {n \in 0 .. N : \A s \in P : rank[s] <= n => Ends(s)}
<1>1. \A s \in P : rank[s] \in 0 .. N
  OBVIOUS
<1>2. \A s \in P \cap done : Ends(s)
  BY DEF Loop
<1>3. \A s \in P \ done : next[s] \in P /\ rank[next[s]] < rank[s] /\ f[s] = f[next[s]]
  BY DEF Loop, RankFalls
<1> HIDE DEF Ends
<1>4. 0 \in T
  BY <1>1, <1>2, <1>3
<1>5. ASSUME NEW n \in 1 .. N, n - 1 \in T PROVE n \in T
  <2> SUFFICES ASSUME NEW s \in P, rank[s] <= n, s \notin done PROVE Ends(s)
    BY <1>2
  <2>1. next[s] \in P /\ rank[next[s]] <= n - 1
    BY <1>1, <1>3
  <2>2. Ends(next[s])
    BY <1>5, <2>1
  <2>3. QED BY <1>3, <2>2 DEF Ends
<1>6. 0 .. N \subseteq T
  <2> HIDE DEF T
  <2>1. QED BY <1>4, <1>5, Upwards
<1>7. QED BY <1>1, <1>6 DEF Ends
=============================================================================
