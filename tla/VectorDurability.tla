-------------------------- MODULE VectorDurability --------------------------
(***************************************************************************)
(* Why an acknowledged vector survives: an inductive invariant of module   *)
(* VectorIndex, for a directory whose handles add every id once (Shared is *)
(* empty) and commit without concurrent adds on the same handle, as Store  *)
(* uses them.                                                              *)
(***************************************************************************)
EXTENDS VectorIndex

FreshIds == Shared = {} /\ ~ConcurrentAdd

\* What a handle has in memory only.
Queue(h) == InSeq(pending[h]) \cup InSeq(drained[h])

\* Records the directory must have: acknowledged, or off their handle's queue.
Settled(r) ==
    r \in acked \/ \E h \in Handle : r \in added[h] /\ r \notin Queue(h)

\* Records whose entry in the pair on disk is intact.  The exception is a batch
\* that a failed commit had published: its retry inserts it under new keys.
Safe(r) ==
    \/ r \in acked
    \/ \E h \in Handle : r \in added[h] /\ (batch_end[h] => r \notin Queue(h))

\* The keymap names the record's id, and the graph has the record there.
Holds(g, km, r) == km.reverse[r.id] \in Key /\ g[km.reverse[r.id]] = r

\* The handle's memory descends from the pair on disk.
InSync(h) == pc[h] # "closed" /\ loaded_generation[h] = keymap_bin.generation

Locks ==
    /\ \A h \in Handle : pc[h] \in Committing => writer = h
    /\ \A h \in Handle : pc[h] = "loading" => h \in readers
    /\ writer # None => readers = {}

\* An id is issued once, and every record anywhere has been issued.
Issued ==
    /\ \A r, s \in issued : r.id = s.id => r = s
    /\ InSeq(journal) \subseteq issued /\ acked \subseteq issued
    /\ Named(keymap_bin) \subseteq Ids(issued)
    /\ \A h \in Handle :
          added[h] \subseteq issued /\ InSeq(todo[h]) \subseteq issued
            /\ Named(keymap[h]) \subseteq Ids(issued)

\* A record has one owner, an acknowledged one is in no queue, and a handle
\* inserts its own queue into a reloaded graph.
Owned ==
    /\ \A h \in Handle :
          covers[h] \subseteq added[h] /\ Queue(h) \subseteq added[h]
            /\ acked \cap Queue(h) = {}
            /\ (pc[h] = "reinsert" => InSeq(todo[h]) \subseteq Queue(h))
    /\ \A h, g \in Handle : h # g => added[h] \cap added[g] = {}

\* What the locals of a handle hold at each stage.
Stages ==
    \A h \in Handle :
      /\ tombstones[h] = {}
      /\ pc[h] \in {"closed", "loading", "saved", "graphed", "keyed"} => pending[h] = << >>
      /\ pc[h] \notin {"append", "saved", "graphed", "keyed"} => drained[h] = << >>
      /\ pc[h] \notin {"loading", "absorb", "saved", "graphed", "keyed"} => skip[h] = {}
      /\ pc[h] \in {"saved", "graphed", "keyed"} => todo[h] = << >>
      /\ pc[h] \in Committing \cup {"acquire"} => end_of_batch[h] = batch_end[h]
      /\ pc[h] = "append" => ~batch_end[h]
      /\ pc[h] \in {"append", "reload", "reinsert", "scan", "absorb"} /\ ~batch_end[h]
           => pending[h] = << >>

Generations ==
    /\ keymap_format = "none" => keymap_bin.generation = 0
    /\ \A h \in Handle :
          /\ loaded_generation[h] <= keymap_bin.generation
          /\ pc[h] \in {"loading", "reinsert", "scan", "absorb", "saved", "graphed"}
               => loaded_generation[h] = keymap_bin.generation
          /\ pc[h] = "keyed" =>
               /\ keymap_bin.generation = loaded_generation[h] + 1
               /\ \A g \in Handle : loaded_generation[g] < keymap_bin.generation

\* The directory has every settled record, and its pair is sound for safe ones.
OnDisk ==
    \A r \in issued :
      /\ Settled(r) => keymap_bin.reverse[r.id] # None \/ r \in InSeq(journal)
      /\ Safe(r) /\ keymap_bin.reverse[r.id] # None
           => Holds(index_usearch, keymap_bin, r)

\* A handle in sync has the safe entries of the pair, under the same keys, and
\* its own graph is sound for safe records; its queue is in its graph.
InMemory ==
    \A h \in Handle, r \in issued :
      /\ InSync(h) /\ Safe(r) /\ keymap_bin.reverse[r.id] # None
           => keymap[h].reverse[r.id] = keymap_bin.reverse[r.id]
      /\ InSync(h) /\ Safe(r) /\ keymap[h].reverse[r.id] # None
           => Holds(inner[h], keymap[h], r)
      /\ r \in Queue(h) =>
           Holds(inner[h], keymap[h], r) \/ (pc[h] = "reinsert" /\ r \in InSeq(todo[h]))

\* A replay reaches every journal record the keymap does not name, and does
\* not move the entries the pair on disk has.
Replays ==
    \A h \in Handle, r \in issued :
      /\ pc[h] \in {"loading", "absorb", "saved", "graphed"} /\ r \in InSeq(journal)
           => \/ keymap[h].reverse[r.id] # None
              \/ r \in InSeq(todo[h]) /\ r.id \notin skip[h]
      /\ pc[h] \in {"loading", "absorb"} /\ Safe(r) /\ keymap_bin.reverse[r.id] # None
           => r.id \in skip[h]

\* What a compaction has published so far is what the handle has in memory.
Publishes ==
    \A h \in Handle :
      /\ pc[h] \in {"saved", "graphed"} => saved[h] = inner[h]
      /\ pc[h] \in {"graphed", "keyed"} => index_usearch = inner[h]
      /\ pc[h] = "keyed" =>
           /\ keymap_bin.reverse = keymap[h].reverse
           /\ \A r \in InSeq(journal) : keymap[h].reverse[r.id] # None

\* The inductive invariant behind AckedRecoverable and OpenSeesAcked
\* (commit_locked, compact_locked, publish_compaction, reload_if_stale,
\* absorb_journal together).
Durable ==
    /\ Locks /\ Issued /\ Owned /\ Stages /\ Generations
    /\ OnDisk /\ InMemory /\ Replays /\ Publishes

\* What a handle in sync has in memory extends the pair on disk, and a keymap
\* that names ids is never beside an empty graph, which a load would take for
\* a stale keymap.  With Durable, inductive behind NoLostUpdate.
Descends ==
    /\ Named(keymap_bin) # {} => index_usearch # EmptyGraph
    /\ \A h \in Handle :
          /\ Named(keymap[h]) # {} => inner[h] # EmptyGraph
          /\ InSync(h) => /\ keymap[h].next_key >= keymap_bin.next_key
                          /\ Named(keymap_bin) \subseteq Named(keymap[h])
          /\ pc[h] = "keyed" => keymap[h] = keymap_bin

\* As long as no call failed, a handle has what it added in its graph, or is on
\* the way to insert it again after a reload.  With Durable, inductive behind
\* OwnAddsSearchable.
Finds(h, r) ==
    \/ Holds(inner[h], keymap[h], r)
    \/ pc[h] = "reinsert" /\ r \in InSeq(todo[h])
    \/ pc[h] \in {"reinsert", "scan"} /\ r \in InSeq(journal)
    \/ pc[h] = "absorb" /\ r \in InSeq(todo[h]) /\ r.id \notin skip[h]

FindsOwn ==
    faults = 0 => \A h \in Handle :
      /\ pc[h] = "closed" => added[h] = {}
      /\ \A r \in added[h] : Finds(h, r)
=============================================================================
