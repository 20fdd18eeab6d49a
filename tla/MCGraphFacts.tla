---------------------------- MODULE MCGraphFacts ----------------------------
(* Small instances of GraphFacts for TLC: two processes, one of them with   *)
(* one or two threads, which all write about the same fact.                 *)
EXTENDS GraphReads, TLC

CONSTANTS t1, t2, t3, s1, s2, a, b, v, l, m, k1, k2, p

TwoStores == t1 :> s1 @@ t2 :> s1 @@ t3 :> s2

OneThreadEach == t1 :> s1 @@ t3 :> s2

\* Threads are interchangeable together with their stores.
Swapped ==
    {q \in Permutations(Thread \cup Store) :
        \A t \in Thread : q[t] \in Thread /\ q[StoreOf[t]] = StoreOf[q[t]]}

Add(object, kind, object_kind, from, to) ==
    [op |-> "add", subject |-> a, label |-> l, object |-> object, kind |-> kind,
     object_kind |-> object_kind, valid_from |-> from, valid_to |-> to,
     confidence |-> 100]
Invalidate(object, at) ==
    [op |-> "invalidate", subject |-> a, label |-> l, object |-> object, at |-> at]
Supersede(object, new, at) ==
    [op |-> "supersede", subject |-> a, label |-> l, object |-> object,
     new |-> new, new_kind |-> None, at |-> at]

\* A fact between entities and one with a literal, a conflicting kind, an
\* empty and an already closed window, and replacements both ways.
AllCalls ==
    {Add(b, k1, None, None, None), Add(b, k2, k1, None, None), Add(v, None, None, 1, 0),
     [Add(v, None, None, 0, 1) EXCEPT !.label = m], Invalidate(b, None), Supersede(b, v, None),
     Supersede(v, b, 0)}

OnePredicate == l :> p @@ m :> p

\* No filter, one scope, and both.
Filters == {None, {l}, {m}, {l, m}}

OneFact == {Add(v, None, None, None, None), Invalidate(v, None)}
=============================================================================
