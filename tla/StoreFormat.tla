---------------------------- MODULE StoreFormat ----------------------------
(***************************************************************************)
(* What opening promises about a store file: its format only moves forward, *)
(* a step at a time or from nothing to the current one, whole formats at   *)
(* every moment, and an open store is one of the current format.           *)
(***************************************************************************)
EXTENDS Integers

CONSTANTS Process, Current, None, Foreign

VARIABLES format, opened

format_vars == <<format, opened>>

Init == format \in (1 .. Current) \cup {None, Foreign} /\ opened = {}

Create == format = None /\ format' = Current /\ UNCHANGED opened

Migrate == format \in 1 .. Current - 1 /\ format' = format + 1 /\ UNCHANGED opened

Open(p) == format = Current /\ opened' = opened \cup {p} /\ UNCHANGED format

Close(p) == opened' = opened \ {p} /\ UNCHANGED format

Next == Create \/ Migrate \/ \E p \in Process : Open(p) \/ Close(p)

Spec == Init /\ [][Next]_format_vars
=============================================================================
