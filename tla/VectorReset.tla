---------------------------- MODULE VectorReset ----------------------------
(***************************************************************************)
(* `reindex --with-embeddings --reset-vectors --force` deletes the whole   *)
(* vector directory, its lock file included, before it opens a handle of   *)
(* its own and adds every item of the store again.  Handles of other       *)
(* processes stay open.  What is deleted is deleted on purpose: the        *)
(* history starts again with the deletion, so the property speaks of what  *)
(* the rebuilt directory holds only.                                       *)
(***************************************************************************)
EXTENDS VectorIndex

CONSTANT MaxReset       \* bound: resets

VARIABLES
    resets,             \* deletions so far
    reindexer,          \* the handle of the last one's process
    owed                \* records of stored items it has still to add again

resetVars == <<resets, reindexer, owed>>

ResetInit == Init /\ resets = 0 /\ reindexer = None /\ owed = {}

\* Bound: nobody is inside a call while the directory is deleted.  What a
\* call meets whose lock and temporary files vanish under it is left out.
BetweenCalls == \A h \in Handle : pc[h] \in {"closed", "idle"}

\* remove_dir_all in cmd_reindex, in a process that has no handle yet.
ResetVectors(h) ==
    /\ pc[h] = "closed" /\ BetweenCalls /\ resets < MaxReset
    /\ resets' = resets + 1 /\ reindexer' = h /\ owed' = issued
    /\ meta_json' = "none" /\ keymap_format' = "none"
    /\ index_usearch' = EmptyGraph /\ keymap_bin' = EmptyKeymap
    /\ journal' = << >>
    /\ issued' = {} /\ acked' = {}
    /\ added' = [g \in Handle |-> {}] /\ covers' = [g \in Handle |-> {}]
    /\ UNCHANGED <<lock, pc, memory, locals, crashes, faults>>

\* acquire_lock_at of a handle whose directory is gone: open_lock_file fails
\* and the commit returns its error; the queue stays.
NoLockFile(h) ==
    /\ pc[h] = "acquire" /\ meta_json = "none"
    /\ attempts' = [attempts EXCEPT ![h] = 0]
    /\ covers' = [covers EXCEPT ![h] = {}]
    /\ end_of_batch' = [end_of_batch EXCEPT ![h] = FALSE]
    /\ Goto(h, "idle")
    /\ UNCHANGED <<disk, lock, memory, todo, skip, drained, saved, issued,
                   added, acked, crashes, faults, resetVars>>

\* The rest of cmd_reindex: only the reindex adds stored items again, and it
\* commits when it has added all of them.
Reindexing ==
    /\ \A h \in Handle \ {reindexer} :
          Ids(added'[h] \ added[h]) \cap Ids(owed) = {}
    /\ owed # {} => pc'[reindexer] # "acquire"
    /\ owed' = owed \ issued'

ResetNext ==
    \/ /\ Next /\ Reindexing
       /\ \A h \in Handle :
             pc[h] = "acquire" /\ meta_json = "none" => pc'[h] = "acquire"
       /\ UNCHANGED <<resets, reindexer>>
    \/ \E h \in Handle : NoLockFile(h) \/ ResetVectors(h)

ResetSpec == ResetInit /\ [][ResetNext]_<<vars, resetVars>>

\* A compaction drops no vector another handle has saved: apart from the
\* deletion itself, keymap.bin goes on naming every id it names
\* (reload_if_stale, publish_compaction).
OthersVectorsKept ==
    [][resets' = resets => Named(keymap_bin) \subseteq Named(keymap_bin')]_<<vars, resetVars>>
=============================================================================
