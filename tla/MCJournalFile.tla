--------------------------- MODULE MCJournalFile ---------------------------
(* Small instances of JournalFile for TLC. *)
EXTENDS JournalFile
=============================================================================
