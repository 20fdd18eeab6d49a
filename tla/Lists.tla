-------------------------------- MODULE Lists --------------------------------
(***************************************************************************)
(* Vec::retain, Vec::drain, Iterator::filter, slice::sort and ORDER BY, as   *)
(* several modules of the code use them.                                    *)
(***************************************************************************)
EXTENDS Integers, Sequences, FiniteSets

\* The members of list that are in the set keep, in their order: SelectSeq with
\* a set for its test, and a recursive function, so that ListProofs can say
\* what it returns.
Only(list, keep) ==
    LET only[n \in 0 .. Len(list)] ==
            IF n = 0 THEN << >>
            ELSE IF list[n] \in keep THEN Append(only[n - 1], list[n]) ELSE only[n - 1]
    IN only[Len(list)]

\* Every member of the set once, one before another where before has the pair.
Ordered(set, before) ==
    CHOOSE s \in [1 .. Cardinality(set) -> set] :
        /\ \A x \in set : \E k \in DOMAIN s : s[k] = x
        /\ \A j, k \in DOMAIN s : j < k => <<s[j], s[k]>> \in before
=============================================================================
