--------------------------- MODULE MCVectorReset ---------------------------
(* Small instances of VectorReset for TLC. *)
EXTENDS VectorReset

CONSTANTS h1, h2, i1, i2, i3

NoLegacy == {}
=============================================================================
