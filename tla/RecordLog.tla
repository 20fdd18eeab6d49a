----------------------------- MODULE RecordLog -----------------------------
(***************************************************************************)
(* What journal.bin promises to VectorIndex: a log of records.  An append  *)
(* adds all of its records or, when it fails or the process dies, a prefix *)
(* of them, and may then leave the log damaged.  A damaged log keeps what  *)
(* it has and promises nothing about what is appended to it.  The length,   *)
(* which commits compare with COMPACT_THRESHOLD, counts its records.        *)
(***************************************************************************)
EXTENDS Integers, Sequences

CONSTANTS Record, MaxBatch

VARIABLES log, damaged, length

Batch == UNION {[1 .. n -> Record] : n \in 1 .. MaxBatch}

Init == log = << >> /\ damaged = FALSE /\ length = 0

Extend(batch) ==
    /\ ~damaged
    /\ \E n \in 0 .. Len(batch) :
          /\ log' = log \o SubSeq(batch, 1, n)
          /\ damaged' \in {FALSE, n < Len(batch)}

Smear == damaged /\ damaged' /\ SubSeq(log', 1, Len(log)) = log

\* A damaged header survives a clear.
Clear == log' = << >> /\ damaged' \in {FALSE, damaged}

Next ==
    /\ Clear \/ Smear \/ \E batch \in Batch : Extend(batch)
    /\ length' = Len(log')

Spec == Init /\ [][Next]_<<log, damaged, length>>
=============================================================================
