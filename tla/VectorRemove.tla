---------------------------- MODULE VectorRemove ---------------------------
(***************************************************************************)
(* VectorIndex::remove.  The index hooks have no delete verb and no        *)
(* production code calls it, so it is kept apart from module VectorIndex.  *)
(***************************************************************************)
EXTENDS VectorIndex, Lists

CONSTANT Removable      \* items that may be removed

ASSUME RemovableAssumption == Removable \subseteq Item

\* Only an id that was present leaves a tombstone.
Remove(h, i) ==
    /\ MayMutate(h)
    /\ LET key == keymap[h].reverse[i]
           Without(f) == [k \in Key |-> IF k = key THEN None ELSE f[k]]
       IN /\ inner' = [inner EXCEPT ![h] = Without(@)]
          /\ keymap' = [keymap EXCEPT ![h].forward = Without(@),
                                      ![h].reverse[i] = None]
          /\ tombstones' = [tombstones EXCEPT ![h] = IF key = None THEN @ ELSE @ \cup {i}]
    /\ pending' = [pending EXCEPT ![h] = Only(@, {r \in Rec : r.id # i})]
    /\ added' = [added EXCEPT ![h] = {r \in @ : r.id # i}]
    /\ acked' = {r \in acked : r.id # i}
    /\ covers' = [g \in Handle |-> {r \in covers[g] : r.id # i}]
    /\ UNCHANGED <<disk, lock, pc, loaded_generation, meta_upgrade_pending,
                   batch_end, locals, issued, crashes, faults>>

RemoveNext == Next \/ \E h \in Handle, i \in Removable : Remove(h, i)

RemoveSpec == Init /\ [][RemoveNext]_vars

\* What a handle removed is not brought back by its own replays of a journal
\* that still holds it, until it is added again (remove, absorb_journal).  For
\* a handle that has the directory to itself and whose commits do not fail.
RemovedStaysRemoved ==
    \A h \in Handle : pc[h] = "idle" =>
        Named(keymap[h]) \subseteq Ids(added[h] \cup acked)
=============================================================================
