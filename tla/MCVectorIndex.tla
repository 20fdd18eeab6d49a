--------------------------- MODULE MCVectorIndex ---------------------------
(* Small instances of VectorIndex and of its inductive invariant for TLC. *)
EXTENDS VectorDurability, TLC

CONSTANTS h1, h2, i1, i2, i3

NoLegacy == {}
OneLegacy == {[id |-> i1, ver |-> 1]}
HandlesAndItems == Permutations(Handle) \cup Permutations(Item)
=============================================================================
