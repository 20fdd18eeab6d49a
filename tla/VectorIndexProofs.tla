------------------------- MODULE VectorIndexProofs -------------------------
(***************************************************************************)
(* Proofs about VectorIndex, for every set of handles, items and keys      *)
(* (Key may be all of Nat) and every bound: first the types and the keymap, *)
(* then that Durable is an inductive invariant when ids are fresh.  With it *)
(* every acknowledged record is recoverable, an open sees it, and no        *)
(* compaction loses another handle's work.  The last part is about          *)
(* VectorRemove.                                                            *)
(***************************************************************************)
EXTENDS VectorDurability, VectorRemove, ListProofs, SequenceTheorems, TLAPS

USE DEF Stage

-----------------------------------------------------------------------------
(* Types of the operators. *)

\* An inserted record leaves a graph and a keymap (insert_entries).
LEMMA InsertType ==
    ASSUME NEW g \in Graph, NEW km \in Keymap, NEW r \in Rec, km.next_key \in Key
    PROVE  GraphInsert(g, km, r) \in Graph /\ KeymapInsert(km, r) \in Keymap
<1>1. r.id \in Item /\ km.reverse[r.id] \in Key \cup {None}
  BY DEF Rec, Keymap
<1>2. GraphInsert(g, km, r) \in Graph
  BY <1>1 DEF Graph, GraphInsert
<1>3. KeymapInsert(km, r) \in Keymap
  BY <1>1 DEF Keymap, KeymapInsert
<1>4. QED BY <1>2, <1>3

\* An empty index is an index.
LEMMA EmptyType == EmptyGraph \in Graph /\ EmptyKeymap \in Keymap
BY DEF Graph, Keymap, EmptyGraph, EmptyKeymap

\* What load makes of keymap.bin is a keymap, with the counters of the file.
LEMMA LoadedType ==
    ASSUME keymap_bin \in Keymap
    PROVE  /\ LoadedKeymap \in Keymap
           /\ LoadedKeymap.generation = keymap_bin.generation
           /\ LoadedKeymap.next_key = keymap_bin.next_key
BY DEF Keymap, LoadedKeymap, EmptyKeymap

\* The parts of a sequence a commit moves about are sequences.
LEMMA SeqType ==
    ASSUME NEW q \in Seq(Rec), NEW n \in 0 .. Len(q)
    PROVE  SubSeq(q, 1, n) \in Seq(Rec) /\ SubSeq(q, n + 1, Len(q)) \in Seq(Rec)
<1>1. Len(q) \in Nat BY LenProperties
<1>2. \A m \in 1 .. Len(q) : q[m] \in Rec BY ElementOfSeq
<1>3. SubSeq(q, 1, n) \in Seq(Rec) BY <1>1, <1>2, SubSeqProperties
<1>4. SubSeq(q, n + 1, Len(q)) \in Seq(Rec) BY <1>1, <1>2, SubSeqProperties
<1>5. QED BY <1>3, <1>4

\* A chunk is a part of the drained queue.
LEMMA ChunkType ==
    ASSUME TypeOK, NEW h \in Handle
    PROVE  Chunk(h) \in 0 .. Len(drained[h]) /\ Torn(h) \subseteq 0 .. Len(drained[h])
<1>1. drained[h] \in Seq(Rec) BY DEF TypeOK
<1>2. Len(drained[h]) \in Nat BY <1>1, LenProperties
<1>3. QED BY <1>2, BoundAssumption DEF Chunk, Torn

-----------------------------------------------------------------------------
(* TypeOK. *)

LEMMA InitType == Init => TypeOK
<1> SUFFICES ASSUME Init PROVE TypeOK
  OBVIOUS
<1>1. index_usearch \in Graph /\ keymap_bin \in Keymap
  <2>1. CASE Legacy = {}
    BY <2>1, EmptyType DEF Init, InitDirectory
  <2>2. CASE Legacy # {}
    <3>1. PICK f \in Numbering, n \in LegacyKey :
             index_usearch = LegacyGraph(f) /\ keymap_bin = LegacyKeymap(f, n)
      BY <2>2 DEF Init, InitDirectory
    <3>2. f \in [Legacy -> Key] /\ n \in Nat
      BY LegacyAssumption, KeyAssumption DEF Numbering
    <3>3. \A k \in Key : (\E r \in Legacy : f[r] = k)
             => /\ (CHOOSE r \in Legacy : f[r] = k) \in Rec
                /\ (CHOOSE r \in Legacy : f[r] = k).id \in Item
      BY LegacyAssumption DEF Rec
    <3>4. \A i \in Item : i \in Ids(Legacy)
             => f[CHOOSE r \in Legacy : r.id = i] \in Key
      BY <3>2 DEF Ids
    <3>5. LegacyGraph(f) \in Graph
      BY <3>3 DEF Graph, LegacyGraph
    <3>6. LegacyKeymap(f, n) \in Keymap
      BY <3>2, <3>3, <3>4 DEF Keymap, LegacyKeymap
    <3>7. QED BY <3>1, <3>5, <3>6
  <2>3. QED BY <2>1, <2>2
<1>2. meta_json \in {"none", "1", "2"} /\ keymap_format \in {"none", "1", "2"}
  BY DEF Init, InitDirectory
<1>3. QED
  BY <1>1, <1>2, EmptyType, LegacyAssumption DEF Init, TypeOK

LEMMA NextType == TypeOK /\ [Next]_vars => TypeOK'
<1> SUFFICES ASSUME TypeOK, [Next]_vars PROVE TypeOK'
  OBVIOUS
<1> USE DEF disk, lock, memory, locals, history, Goto
<1>0. CASE UNCHANGED vars
  BY <1>0 DEF TypeOK, vars
<1>1. ASSUME NEW h \in Handle, Open(h) PROVE TypeOK'
  <2>1. LoadedKeymap \in Keymap /\ LoadedKeymap.generation \in Nat
    BY LoadedType DEF TypeOK, Keymap
  <2>2. Named(LoadedKeymap) \subseteq Item
    BY DEF Named
  <2>3. QED BY <1>1, <2>1, <2>2 DEF TypeOK, Open
<1>2. ASSUME NEW h \in Handle, Replay(h) PROVE TypeOK'
  <2>1. Head(todo[h]) \in Rec /\ Tail(todo[h]) \in Seq(Rec)
    BY <1>2, HeadTailProperties DEF TypeOK, Replay
  <2>2. inner' \in [Handle -> Graph] /\ keymap' \in [Handle -> Keymap]
    <3>1. CASE UNCHANGED <<inner, keymap>>
      BY <3>1 DEF TypeOK
    <3>2. CASE Insert(h, Head(todo[h]))
      <4>1. /\ GraphInsert(inner[h], keymap[h], Head(todo[h])) \in Graph
            /\ KeymapInsert(keymap[h], Head(todo[h])) \in Keymap
        BY <2>1, <3>2, InsertType DEF TypeOK, Insert
      <4>2. QED BY <3>2, <4>1 DEF TypeOK, Insert
    <3>3. QED BY <1>2, <3>1, <3>2 DEF Replay
  <2>3. QED BY <1>2, <2>1, <2>2 DEF TypeOK, Replay
<1>3. ASSUME NEW h \in Handle, OpenDone(h) PROVE TypeOK'
  BY <1>3 DEF TypeOK, OpenDone
<1>4. ASSUME NEW h \in Handle, Commit(h) PROVE TypeOK'
  BY <1>4 DEF TypeOK, Commit
<1>5. ASSUME NEW h \in Handle, Acquire(h) PROVE TypeOK'
  BY <1>5 DEF TypeOK, Acquire
<1>6. ASSUME NEW h \in Handle, Busy(h) PROVE TypeOK'
  <2>1. CASE /\ attempts' = [attempts EXCEPT ![h] = @ + 1]
             /\ UNCHANGED <<pc, covers, end_of_batch>>
    BY <1>6, <2>1, SMTT(30) DEF TypeOK, Busy
  <2>2. CASE /\ attempts' = [attempts EXCEPT ![h] = 0]
             /\ covers' = [covers EXCEPT ![h] = {}]
             /\ end_of_batch' = [end_of_batch EXCEPT ![h] = FALSE]
             /\ pc' = [pc EXCEPT ![h] = "idle"]
    BY <1>6, <2>2 DEF TypeOK, Busy
  <2>3. QED BY <1>6, <2>1, <2>2 DEF Busy
<1>7. ASSUME NEW h \in Handle, CommitLocked(h) PROVE TypeOK'
  <2>1. meta_json' \in {"none", "1", "2"} /\ pc' \in [Handle -> Stage]
    BY <1>7 DEF TypeOK, CommitLocked, UpgradedMeta
  <2>2. pending' \in [Handle -> Seq(Rec)] /\ drained' \in [Handle -> Seq(Rec)]
    <3>1. << >> \in Seq(Rec) BY EmptySeq
    <3>2. CASE UNCHANGED <<pending, drained>>
      BY <3>2 DEF TypeOK
    <3>3. CASE /\ drained' = [drained EXCEPT ![h] = pending[h]]
               /\ pending' = [pending EXCEPT ![h] = << >>]
      BY <3>1, <3>3 DEF TypeOK
    <3>4. QED BY <1>7, <3>2, <3>3 DEF CommitLocked
  <2>3. QED BY <1>7, <2>1, <2>2 DEF TypeOK, CommitLocked
<1>8. ASSUME NEW h \in Handle, AppendChunk(h) PROVE TypeOK'
  BY <1>8, ChunkType, SeqType, ConcatProperties DEF TypeOK, AppendChunk
<1>9. ASSUME NEW h \in Handle, AppendDone(h) PROVE TypeOK'
  BY <1>9, EmptyType DEF TypeOK, AppendDone, Ok, Return, Supersede, Ids
<1>10. ASSUME NEW h \in Handle, AppendThenCompact(h) PROVE TypeOK'
  BY <1>10 DEF TypeOK, AppendThenCompact
<1>11. ASSUME NEW h \in Handle, ReloadIfStale(h) PROVE TypeOK'
  <2>1. keymap_bin.generation \in Nat
    BY DEF TypeOK, Keymap
  <2>2. inner' \in [Handle -> Graph] /\ keymap' \in [Handle -> Keymap]
    <3>1. CASE UNCHANGED <<inner, keymap>>
      BY <3>1 DEF TypeOK
    <3>2. CASE /\ inner' = [inner EXCEPT ![h] = index_usearch]
               /\ keymap' = [keymap EXCEPT ![h] = keymap_bin]
      BY <3>2 DEF TypeOK
    <3>3. QED BY <1>11, <3>1, <3>2 DEF ReloadIfStale, ReloadedGraph
  <2>3. loaded_generation' \in [Handle -> Nat] /\ todo' \in [Handle -> Seq(Rec)]
    BY <1>11, <2>1, ZenonT(40) DEF TypeOK, ReloadIfStale, Queued
  <2>4. pc' \in [Handle -> Stage]
    BY <1>11, ZenonT(40) DEF TypeOK, ReloadIfStale
  <2>5. /\ UNCHANGED <<disk, lock, pending, meta_upgrade_pending, tombstones, batch_end>>
        /\ UNCHANGED <<end_of_batch, attempts, skip, drained, saved, history>>
    BY <1>11 DEF ReloadIfStale
  <2>6. QED BY <2>2, <2>3, <2>4, <2>5, SMTT(30) DEF TypeOK
<1>12. ASSUME NEW h \in Handle, AbsorbJournal(h) PROVE TypeOK'
  BY <1>12 DEF TypeOK, AbsorbJournal, Suppressed, Named
<1>13. ASSUME NEW h \in Handle, SaveGraph(h) PROVE TypeOK'
  BY <1>13 DEF TypeOK, SaveGraph
<1>14. ASSUME NEW h \in Handle, PublishGraph(h) PROVE TypeOK'
  BY <1>14 DEF TypeOK, PublishGraph
<1>15. ASSUME NEW h \in Handle, PublishKeymap(h) PROVE TypeOK'
  <2>1. Stamped(h) \in Keymap
    BY SMTT(30) DEF TypeOK, Keymap, NextGeneration, Stamped
  <2>2. keymap' \in [Handle -> Keymap] /\ keymap_bin' \in Keymap
    BY <1>15, <2>1 DEF TypeOK, PublishKeymap
  <2>3. QED BY <1>15, <2>2 DEF TypeOK, PublishKeymap
<1>16. ASSUME NEW h \in Handle, ClearJournal(h) PROVE TypeOK'
  BY <1>16, EmptyType, SMTT(30) DEF TypeOK, ClearJournal, NextGeneration, Ok, Return, Supersede, Ids
<1>17. ASSUME NEW h \in Handle, IoError(h) PROVE TypeOK'
  <2>1. \A n \in Torn(h) : SubSeq(drained[h], 1, n) \in Seq(Rec)
    BY ChunkType, SeqType DEF TypeOK
  <2>2. journal' \in Seq(Rec)
    <3>1. CASE \E n \in Torn(h) : journal' = journal \o SubSeq(drained[h], 1, n)
      BY <2>1, <3>1, ConcatProperties DEF TypeOK
    <3>2. CASE journal' = << >>
      BY <3>2, EmptySeq
    <3>3. QED BY <1>17, <3>1, <3>2 DEF IoError
  <2>3. pending' \in [Handle -> Seq(Rec)]
    BY <1>17, ConcatProperties DEF TypeOK, IoError
  <2>4. QED BY <1>17, <2>2, <2>3, EmptyType, SMTT(30) DEF TypeOK, IoError, Return
<1>18. ASSUME NEW h \in Handle, Crash(h) PROVE TypeOK'
  <2>1. \A n \in Torn(h) : SubSeq(drained[h], 1, n) \in Seq(Rec)
    BY ChunkType, SeqType DEF TypeOK
  <2>2. journal' \in Seq(Rec)
    BY <1>18, <2>1, ConcatProperties, EmptySeq DEF TypeOK, Crash
  <2>3. /\ inner' \in [Handle -> Graph] /\ saved' \in [Handle -> Graph]
        /\ keymap' \in [Handle -> Keymap]
    BY <1>18, EmptyType DEF TypeOK, Crash
  <2>4. /\ pending' \in [Handle -> Seq(Rec)] /\ todo' \in [Handle -> Seq(Rec)]
        /\ drained' \in [Handle -> Seq(Rec)]
    BY <1>18, EmptySeq DEF TypeOK, Crash
  <2>5. /\ tombstones' \in [Handle -> SUBSET Item] /\ skip' \in [Handle -> SUBSET Item]
        /\ added' \in [Handle -> SUBSET Rec] /\ covers' \in [Handle -> SUBSET Rec]
    BY <1>18 DEF TypeOK, Crash
  <2>6. /\ batch_end' \in [Handle -> BOOLEAN] /\ end_of_batch' \in [Handle -> BOOLEAN]
        /\ meta_upgrade_pending' \in [Handle -> BOOLEAN]
        /\ loaded_generation' \in [Handle -> Nat] /\ attempts' \in [Handle -> Nat]
        /\ pc' \in [Handle -> Stage]
    BY <1>18 DEF TypeOK, Crash
  <2>7. /\ writer' \in Handle \cup {None} /\ readers' \in SUBSET Handle /\ crashes' \in Nat
    BY <1>18 DEF TypeOK, Crash
  <2>8. /\ meta_json' = meta_json /\ keymap_format' = keymap_format /\ keymap_bin' = keymap_bin
        /\ index_usearch' = index_usearch
        /\ issued' = issued /\ acked' = acked /\ faults' = faults
    BY <1>18 DEF Crash
  <2>9. QED BY <2>2, <2>3, <2>4, <2>5, <2>6, <2>7, <2>8 DEF TypeOK
<1>19. ASSUME NEW h \in Handle, NEW r \in Rec, NEW batch \in BOOLEAN, Add(h, r, batch)
      PROVE  TypeOK'
  <2>1. /\ GraphInsert(inner[h], keymap[h], r) \in Graph
        /\ KeymapInsert(keymap[h], r) \in Keymap
    BY <1>19, InsertType DEF TypeOK, Add, Insert
  <2>2. inner' \in [Handle -> Graph] /\ keymap' \in [Handle -> Keymap]
    BY <1>19, <2>1 DEF TypeOK, Add, Insert
  <2>3. pending' \in [Handle -> Seq(Rec)]
    BY <1>19, AppendProperties DEF TypeOK, Add
  <2>4. added' \in [Handle -> SUBSET Rec] /\ issued' \in SUBSET Rec
    <3>1. Supersede(added[h], {r}) \in SUBSET Rec /\ issued \cup {r} \in SUBSET Rec
      BY DEF TypeOK, Supersede
    <3>2. QED BY <1>19, <3>1 DEF TypeOK, Add
  <2>5. batch_end' \in [Handle -> BOOLEAN]
    BY <1>19 DEF TypeOK, Add
  <2>6. QED BY <1>19, <2>2, <2>3, <2>4, <2>5 DEF TypeOK, Add
<1>20. QED
  BY <1>0, <1>1, <1>2, <1>3, <1>4, <1>5, <1>6, <1>7, <1>8, <1>9, <1>10, <1>11, <1>12, <1>13, <1>14, <1>15, <1>16, <1>17, <1>18, <1>19 DEF Next, Call, Step

\* Every variable keeps its type, whatever is opened, added, committed, lost
\* or failed, on any number of handles.
THEOREM TypeCorrect == Spec => []TypeOK
<1>1. Init => TypeOK BY InitType
<1>2. TypeOK /\ [Next]_vars => TypeOK' BY NextType
<1>3. QED BY <1>1, <1>2, PTL DEF Spec

-----------------------------------------------------------------------------
(* KeymapsConsistent. *)

\* Insertion keeps the two directions inverse to each other: the id's old key
\* goes, the new one is above every key in use (insert_entries).
LEMMA InsertConsistent ==
    ASSUME NEW km \in Keymap, NEW r \in Rec, km.next_key \in Key, Consistent(km)
    PROVE  Consistent(KeymapInsert(km, r))
<1> DEFINE kn == KeymapInsert(km, r)
<1>1. r.id \in Item /\ km.next_key \in Nat
  BY DEF Rec, Keymap
<1>2. /\ kn.next_key = km.next_key + 1
      /\ kn.forward = [k \in Key |-> IF k = km.next_key THEN r.id
                                     ELSE IF k = km.reverse[r.id] THEN None
                                     ELSE km.forward[k]]
      /\ kn.reverse = [km.reverse EXCEPT ![r.id] = km.next_key]
  BY DEF KeymapInsert
<1>3. km.forward \in [Key -> Item \cup {None}] /\ km.reverse \in [Item -> Key \cup {None}]
  BY DEF Keymap
<1>4. \A k \in Key : k \in Nat
  BY KeyAssumption
<1>5. \A k \in Key : kn.forward[k] # None => k < kn.next_key
  BY <1>1, <1>2, <1>3, <1>4 DEF Consistent
<1>6. ASSUME NEW i \in Item, NEW k \in Key
      PROVE  kn.reverse[i] = k <=> kn.forward[k] = i
  <2>1. None \notin Item /\ None \notin Key
    BY NoneAssumption
  <2>2. km.forward[km.next_key] = None
    BY <1>1, <1>3 DEF Consistent
  <2>3. \A j \in Item, l \in Key : km.reverse[j] = l <=> km.forward[l] = j
    BY DEF Consistent
  <2>4. QED BY <1>1, <1>2, <1>3, <2>1, <2>2, <2>3
<1>7. QED BY <1>5, <1>6 DEF Consistent

\* The empty keymap, and what load makes of a consistent keymap.bin.
LEMMA LoadConsistent ==
    /\ Consistent(EmptyKeymap)
    /\ keymap_bin \in Keymap /\ Consistent(keymap_bin) => Consistent(LoadedKeymap)
<1>1. None \notin Item /\ None \notin Key
  BY NoneAssumption
<1>2. QED BY <1>1 DEF Consistent, EmptyKeymap, LoadedKeymap

\* The keymap of a format "1" directory.
LEMMA LegacyConsistent ==
    ASSUME NEW f \in Numbering, NEW n \in LegacyKey, \A r \in Legacy : f[r] < n
    PROVE  Consistent(LegacyKeymap(f, n))
<1> DEFINE km == LegacyKeymap(f, n)
           At(k) == CHOOSE r \in Legacy : f[r] = k
           Of(i) == CHOOSE r \in Legacy : r.id = i
<1>1. None \notin Item /\ None \notin Key
  BY NoneAssumption
<1>2. /\ \A r \in Legacy : r.id \in Item /\ f[r] \in Key
      /\ \A r, s \in Legacy : f[r] = f[s] => r = s
      /\ \A r, s \in Legacy : r.id = s.id => r = s
  BY LegacyAssumption DEF Numbering, Rec
<1>3. \A k \in Key : (\E r \in Legacy : f[r] = k) => At(k) \in Legacy /\ f[At(k)] = k
  OBVIOUS
<1>4. \A i \in Item : i \in Ids(Legacy) => Of(i) \in Legacy /\ Of(i).id = i
  BY DEF Ids
<1>5. /\ \A k \in Key : km.forward[k] = IF \E r \in Legacy : f[r] = k THEN At(k).id ELSE None
      /\ \A i \in Item : km.reverse[i] = IF i \in Ids(Legacy) THEN f[Of(i)] ELSE None
      /\ km.next_key = n
  BY DEF LegacyKeymap
<1>6. ASSUME NEW k \in Key, km.forward[k] # None PROVE k < km.next_key
  BY <1>3, <1>5, <1>6
<1>7. ASSUME NEW i \in Item, NEW k \in Key PROVE km.reverse[i] = k <=> km.forward[k] = i
  <2>1. ASSUME km.reverse[i] = k PROVE km.forward[k] = i
    <3>1. Of(i) \in Legacy /\ Of(i).id = i /\ f[Of(i)] = k
      BY <1>1, <1>4, <1>5, <2>1
    <3>2. At(k) = Of(i)
      BY <1>2, <1>3, <3>1
    <3>3. QED BY <1>5, <3>1, <3>2
  <2>2. ASSUME km.forward[k] = i PROVE km.reverse[i] = k
    <3>1. At(k) \in Legacy /\ f[At(k)] = k /\ At(k).id = i
      BY <1>1, <1>3, <1>5, <2>2
    <3>2. i \in Ids(Legacy)
      BY <3>1 DEF Ids
    <3>3. Of(i) = At(k)
      BY <1>2, <1>4, <3>1, <3>2
    <3>4. QED BY <1>5, <3>1, <3>2, <3>3
  <2>3. QED BY <2>1, <2>2
<1>8. QED BY <1>6, <1>7 DEF Consistent

LEMMA NextConsistent == TypeOK /\ KeymapsConsistent /\ [Next]_vars => KeymapsConsistent'
<1> SUFFICES ASSUME TypeOK, KeymapsConsistent, [Next]_vars PROVE KeymapsConsistent'
  OBVIOUS
<1> USE DEF disk, lock, memory, locals, history, Goto
<1>1. ASSUME UNCHANGED <<keymap, keymap_bin>> PROVE KeymapsConsistent'
  BY <1>1 DEF KeymapsConsistent
<1>2. ASSUME NEW h \in Handle, NEW km, keymap' = [keymap EXCEPT ![h] = km],
             Consistent(km), Consistent(keymap_bin')
      PROVE  KeymapsConsistent'
  BY <1>2 DEF KeymapsConsistent, TypeOK
<1>3. ASSUME NEW h \in Handle, NEW r \in Rec, Insert(h, r), UNCHANGED keymap_bin
      PROVE  KeymapsConsistent'
  <2>1. Consistent(KeymapInsert(keymap[h], r))
    BY <1>3, InsertConsistent DEF KeymapsConsistent, Insert, TypeOK
  <2>2. QED BY <1>2, <1>3, <2>1 DEF Insert, KeymapsConsistent
<1>4. ASSUME NEW h \in Handle, Open(h) PROVE KeymapsConsistent'
  BY <1>2, <1>4, LoadConsistent DEF Open, KeymapsConsistent, TypeOK
<1>5. ASSUME NEW h \in Handle, Replay(h) PROVE KeymapsConsistent'
  <2>1. Head(todo[h]) \in Rec
    BY <1>5, HeadTailProperties DEF TypeOK, Replay
  <2>2. QED BY <1>1, <1>3, <1>5, <2>1 DEF Replay
<1>6. ASSUME NEW h \in Handle, NEW r \in Rec, NEW batch \in BOOLEAN, Add(h, r, batch)
      PROVE  KeymapsConsistent'
  BY <1>3, <1>6 DEF Add
<1>7. ASSUME NEW h \in Handle, ReloadIfStale(h) PROVE KeymapsConsistent'
  BY <1>1, <1>2, <1>7 DEF ReloadIfStale, KeymapsConsistent
<1>8. ASSUME NEW h \in Handle, PublishKeymap(h) PROVE KeymapsConsistent'
  <2>1. Consistent(Stamped(h))
    BY DEF KeymapsConsistent, Consistent, Stamped
  <2>2. QED BY <1>2, <1>8, <2>1 DEF PublishKeymap
<1>9. ASSUME NEW h \in Handle, Crash(h) PROVE KeymapsConsistent'
  BY <1>2, <1>9, LoadConsistent DEF Crash, KeymapsConsistent
<1>10. ASSUME NEW h \in Handle,
              \/ OpenDone(h) \/ Commit(h) \/ Acquire(h) \/ Busy(h)
              \/ CommitLocked(h) \/ AppendChunk(h) \/ AppendDone(h)
              \/ AppendThenCompact(h) \/ AbsorbJournal(h) \/ SaveGraph(h)
              \/ PublishGraph(h) \/ ClearJournal(h) \/ IoError(h)
       PROVE  UNCHANGED <<keymap, keymap_bin>>
  BY <1>10 DEF OpenDone, Commit, Acquire, Busy, CommitLocked, AppendChunk,
               AppendDone, AppendThenCompact, AbsorbJournal, SaveGraph,
               PublishGraph, ClearJournal, IoError
<1>11. CASE UNCHANGED vars
  BY <1>1, <1>11 DEF vars
<1>12. QED
  BY <1>1, <1>4, <1>5, <1>6, <1>7, <1>8, <1>9, <1>10, <1>11 DEF Next, Call, Step

\* Every keymap, on disk and in memory, is a bijection between ids and issued
\* keys in every reachable state: for any number of handles, with re-added
\* ids, concurrent threads, failing file-system calls and crashes.
THEOREM KeymapBijective == Spec => []KeymapsConsistent
<1>1. Init => KeymapsConsistent
  <2> SUFFICES ASSUME Init PROVE KeymapsConsistent
    OBVIOUS
  <2>1. Consistent(keymap_bin)
    BY LoadConsistent, LegacyConsistent DEF Init, InitDirectory
  <2>2. QED BY <2>1, LoadConsistent DEF Init, KeymapsConsistent
<1>2. TypeOK /\ KeymapsConsistent /\ [Next]_vars => KeymapsConsistent' BY NextConsistent
<1>3. QED BY <1>1, <1>2, TypeCorrect, PTL DEF Spec

-----------------------------------------------------------------------------
(* MetaUpgradedFirst. *)

\* A handle opened on a format "1" directory still has the upgrade to do for
\* as long as .meta.json says "1", and does it before anything else.
MetaUpgrade ==
    /\ meta_json = "none" => \A h \in Handle : pc[h] = "closed"
    /\ meta_json = "1" => \A h \in Handle : pc[h] = "closed" \/ meta_upgrade_pending[h]
    /\ \A h \in Handle : pc[h] \in Committing \ {"locked"} => meta_json = "2"
    /\ MetaUpgradedFirst

\* Nothing is written to the journal by a step that tears no append.
LEMMA UntornJournal ==
    ASSUME TypeOK, NEW h \in Handle, NEW n \in {0},
           journal' = journal \o SubSeq(drained[h], 1, n)
    PROVE  journal' = journal
<1>1. drained[h] \in Seq(Rec) /\ journal \in Seq(Rec)
  BY DEF TypeOK
<1>2. SubSeq(drained[h], 1, 0) = << >>
  BY <1>1, SubSeqEmpty
<1>3. QED BY <1>1, <1>2, ConcatEmptySeq

LEMMA NextMetaUpgrade == TypeOK /\ MetaUpgrade /\ [Next]_vars => MetaUpgrade'
<1> SUFFICES ASSUME TypeOK, MetaUpgrade, [Next]_vars PROVE MetaUpgrade'
  OBVIOUS
<1> USE DEF disk, lock, memory, locals, history, Goto, Committing, Stage
<1>0. /\ meta_json \in {"none", "1", "2"} /\ pc \in [Handle -> Stage]
      /\ meta_upgrade_pending \in [Handle -> BOOLEAN]
  BY DEF TypeOK
<1>1. CASE UNCHANGED vars
  BY <1>1 DEF MetaUpgrade, MetaUpgradedFirst, vars
<1>2. ASSUME NEW h \in Handle, Open(h) PROVE MetaUpgrade'
  BY <1>0, <1>2 DEF MetaUpgrade, MetaUpgradedFirst, Open
<1>3. ASSUME NEW h \in Handle, CommitLocked(h) PROVE MetaUpgrade'
  <2>1. meta_json' = "2"
    BY <1>0, <1>3 DEF MetaUpgrade, CommitLocked, UpgradedMeta
  <2>2. QED BY <1>0, <2>1 DEF MetaUpgrade, MetaUpgradedFirst
<1>4. ASSUME NEW h \in Handle, Crash(h) PROVE MetaUpgrade'
  <2>1. /\ meta_json' = meta_json /\ keymap_format' = keymap_format
        /\ pc' = [pc EXCEPT ![h] = "closed"]
        /\ meta_upgrade_pending' = [meta_upgrade_pending EXCEPT ![h] = FALSE]
    BY <1>4 DEF Crash
  <2>2. meta_json = "2" \/ journal' = journal
    <3>1. CASE pc[h] = "append"
      BY <3>1 DEF MetaUpgrade
    <3>2. CASE pc[h] # "append"
      BY <1>4, <3>2, UntornJournal DEF Crash, Torn
    <3>3. QED BY <3>1, <3>2
  <2>3. QED BY <1>0, <2>1, <2>2 DEF MetaUpgrade, MetaUpgradedFirst
<1>5. ASSUME NEW h \in Handle,
             \/ AppendChunk(h) \/ AppendDone(h) \/ AppendThenCompact(h) \/ ReloadIfStale(h)
             \/ AbsorbJournal(h) \/ SaveGraph(h) \/ PublishGraph(h) \/ PublishKeymap(h)
             \/ ClearJournal(h) \/ (IoError(h) /\ pc[h] # "locked")
      PROVE  MetaUpgrade'
  <2>1. pc[h] \in Committing \ {"locked"} /\ meta_json' = meta_json
    BY <1>5 DEF AppendChunk, AppendDone, AppendThenCompact, ReloadIfStale, AbsorbJournal,
       SaveGraph, PublishGraph, PublishKeymap, ClearJournal, IoError
  <2>2. meta_json' = "2"
    BY <2>1 DEF MetaUpgrade
  <2>3. QED BY <1>0, <2>2 DEF MetaUpgrade, MetaUpgradedFirst
<1>6. ASSUME NEW h \in Handle, IoError(h), pc[h] = "locked" PROVE MetaUpgrade'
  <2>1. /\ meta_json' = meta_json /\ keymap_format' = keymap_format
        /\ pc' = [pc EXCEPT ![h] = "idle"] /\ meta_upgrade_pending' = meta_upgrade_pending
    BY <1>6 DEF IoError, Return
  <2>2. journal' = journal
    BY <1>6, UntornJournal DEF IoError, Torn
  <2>3. QED BY <1>0, <1>6, <2>1, <2>2 DEF MetaUpgrade, MetaUpgradedFirst
<1>7. ASSUME NEW h \in Handle,
             OpenDone(h) \/ Commit(h) \/ Acquire(h) \/ Busy(h) \/ Replay(h)
      PROVE  MetaUpgrade'
  <2>1. UNCHANGED <<meta_json, keymap_format, journal, meta_upgrade_pending>>
    BY <1>7 DEF OpenDone, Commit, Acquire, Busy, Replay
  <2>2. /\ pc[h] # "closed"
        /\ \/ pc' = pc
           \/ \E stage \in {"idle", "acquire", "locked"} : pc' = [pc EXCEPT ![h] = stage]
    BY <1>7 DEF OpenDone, Commit, Acquire, Busy, Replay
  <2>3. QED BY <1>0, <2>1, <2>2 DEF MetaUpgrade, MetaUpgradedFirst
<1>8. ASSUME NEW h \in Handle, NEW r \in Rec, NEW batch \in BOOLEAN, Add(h, r, batch)
      PROVE  MetaUpgrade'
  BY <1>8 DEF MetaUpgrade, MetaUpgradedFirst, Add
<1>9. QED
  BY <1>1, <1>2, <1>3, <1>4, <1>5, <1>6, <1>7, <1>8 DEF Next, Call, Step

\* An older build never finds a format "2" keymap or a journal beside a
\* format "1" .meta.json (write_meta_upgrade comes first in commit_locked).
THEOREM UpgradeFirst == Spec => []MetaUpgradedFirst
<1>1. Init => MetaUpgrade
  BY DEF Init, InitDirectory, MetaUpgrade, MetaUpgradedFirst, Committing, Stage
<1>2. TypeOK /\ MetaUpgrade /\ [Next]_vars => MetaUpgrade'
  BY NextMetaUpgrade
<1>3. MetaUpgrade => MetaUpgradedFirst
  BY DEF MetaUpgrade
<1>4. QED BY <1>1, <1>2, <1>3, TypeCorrect, PTL DEF Spec

-----------------------------------------------------------------------------
(* Durability. *)

USE DEF Committing

-----------------------------------------------------------------------------
(* The elements of a sequence. *)

LEMMA InSeqEmpty == InSeq(<< >>) = {}
BY DEF InSeq

LEMMA InSeqAppend ==
    ASSUME NEW q \in Seq(Rec), NEW r \in Rec
    PROVE  InSeq(Append(q, r)) = InSeq(q) \cup {r}
<1>1. /\ DOMAIN q = 1 .. Len(q) /\ Len(q) \in Nat
      /\ DOMAIN Append(q, r) = 1 .. (Len(q) + 1)
  BY LenProperties, AppendProperties
<1>2. /\ \A n \in 1 .. Len(q) : Append(q, r)[n] = q[n]
      /\ Append(q, r)[Len(q) + 1] = r
  BY AppendProperties
<1>3. Len(q) + 1 \in 1 .. (Len(q) + 1) /\ 1 .. Len(q) \subseteq 1 .. (Len(q) + 1)
  BY <1>1
<1>4. InSeq(q) \cup {r} \subseteq InSeq(Append(q, r))
  BY <1>1, <1>2, <1>3 DEF InSeq
<1>5. InSeq(Append(q, r)) \subseteq InSeq(q) \cup {r}
  <2>1. ASSUME NEW n \in 1 .. (Len(q) + 1) PROVE Append(q, r)[n] \in InSeq(q) \cup {r}
    BY <1>1, <1>2 DEF InSeq
  <2>2. QED BY <1>1, <2>1 DEF InSeq
<1>6. QED BY <1>4, <1>5

LEMMA InSeqConcat ==
    ASSUME NEW p \in Seq(Rec), NEW q \in Seq(Rec)
    PROVE  InSeq(p \o q) = InSeq(p) \cup InSeq(q)
<1>1. /\ DOMAIN p = 1 .. Len(p) /\ DOMAIN q = 1 .. Len(q)
      /\ DOMAIN (p \o q) = 1 .. (Len(p) + Len(q))
      /\ Len(p) \in Nat /\ Len(q) \in Nat
  BY LenProperties, ConcatProperties
<1>2. \A n \in 1 .. (Len(p) + Len(q)) :
         (p \o q)[n] = IF n <= Len(p) THEN p[n] ELSE q[n - Len(p)]
  BY ConcatProperties
<1>3. InSeq(p \o q) \subseteq InSeq(p) \cup InSeq(q)
  BY <1>1, <1>2 DEF InSeq
<1>4. InSeq(p) \subseteq InSeq(p \o q)
  BY <1>1, <1>2 DEF InSeq
<1>5. ASSUME NEW n \in 1 .. Len(q) PROVE q[n] \in InSeq(p \o q)
  <2>1. n + Len(p) \in 1 .. (Len(p) + Len(q)) /\ (p \o q)[n + Len(p)] = q[n]
    BY <1>1, <1>2
  <2>2. QED BY <1>1, <2>1, SMTT(30) DEF InSeq
<1>6. InSeq(q) \subseteq InSeq(p \o q)
  BY <1>1, <1>5 DEF InSeq
<1>7. QED BY <1>3, <1>4, <1>6

LEMMA InSeqHead ==
    ASSUME NEW q \in Seq(Rec), q # << >>
    PROVE  InSeq(q) = {Head(q)} \cup InSeq(Tail(q))
<1>1. /\ DOMAIN q = 1 .. Len(q) /\ Len(q) \in Nat \ {0} /\ Head(q) = q[1]
      /\ DOMAIN Tail(q) = 1 .. (Len(q) - 1)
      /\ \A n \in 1 .. (Len(q) - 1) : Tail(q)[n] = q[n + 1]
  BY LenProperties, EmptySeq, HeadTailProperties
<1>2. InSeq(Tail(q)) \subseteq InSeq(q) /\ Head(q) \in InSeq(q)
  BY <1>1 DEF InSeq
<1>3. ASSUME NEW n \in 1 .. Len(q), n # 1 PROVE q[n] \in InSeq(Tail(q))
  <2>1. n - 1 \in 1 .. (Len(q) - 1) /\ Tail(q)[n - 1] = q[n]
    BY <1>1, <1>3
  <2>2. QED BY <1>1, <2>1 DEF InSeq
<1>4. InSeq(q) \subseteq {Head(q)} \cup InSeq(Tail(q))
  BY <1>1, <1>3, SMTT(30) DEF InSeq
<1>5. QED BY <1>2, <1>4

\* A prefix and the rest of a sequence.
LEMMA InSeqSplit ==
    ASSUME NEW q \in Seq(Rec), NEW n \in 0 .. Len(q)
    PROVE  InSeq(q) = InSeq(SubSeq(q, 1, n)) \cup InSeq(SubSeq(q, n + 1, Len(q)))
<1>1. Len(q) \in Nat BY LenProperties
<1>2. 1 \in 1 .. Len(q) + 1 /\ n \in 1 - 1 .. Len(q) /\ Len(q) \in n .. Len(q)
  BY <1>1
<1>3. SubSeq(q, 1, n) \o SubSeq(q, n + 1, Len(q)) = SubSeq(q, 1, Len(q))
  BY <1>2, ConcatAdjacentSubSeq, Zenon
<1>4. SubSeq(q, 1, Len(q)) = q
  BY SubSeqFull
<1>5. SubSeq(q, 1, n) \in Seq(Rec) /\ SubSeq(q, n + 1, Len(q)) \in Seq(Rec)
  BY SeqType
<1>6. InSeq(SubSeq(q, 1, n) \o SubSeq(q, n + 1, Len(q)))
        = InSeq(SubSeq(q, 1, n)) \cup InSeq(SubSeq(q, n + 1, Len(q)))
  BY <1>5, InSeqConcat
<1>7. QED BY <1>3, <1>4, <1>6

-----------------------------------------------------------------------------
(* Locks, stages and generations. *)

LEMMA NextLocks == TypeOK /\ Locks /\ [Next]_vars => Locks'
<1> SUFFICES ASSUME TypeOK, Locks, [Next]_vars PROVE Locks'
  OBVIOUS
<1> USE DEF disk, lock, memory, locals, history, Goto, TypeOK
<1>1. CASE UNCHANGED vars
  BY <1>1 DEF Locks, vars
<1>2. ASSUME NEW h \in Handle, Open(h) PROVE Locks'
  BY <1>2, SMTT(30) DEF Locks, Open
<1>3. ASSUME NEW h \in Handle, OpenDone(h) PROVE Locks'
  BY <1>3 DEF Locks, OpenDone
<1>4. ASSUME NEW h \in Handle, Commit(h) PROVE Locks'
  BY <1>4 DEF Locks, Commit
<1>5. ASSUME NEW h \in Handle, Acquire(h) PROVE Locks'
  BY <1>5, NoneAssumption DEF Locks, Acquire
<1>6. ASSUME NEW h \in Handle, Busy(h) PROVE Locks'
  BY <1>6, ZenonT(40) DEF Locks, Busy
<1>7. ASSUME NEW h \in Handle, Crash(h) PROVE Locks'
  BY <1>7, SMTT(30) DEF Locks, Crash
<1>8. ASSUME NEW h \in Handle, AppendDone(h) \/ ClearJournal(h) \/ IoError(h) PROVE Locks'
  <2>1. /\ pc[h] \in Committing /\ pc' = [pc EXCEPT ![h] = "idle"]
        /\ writer' = None /\ readers' = readers
    BY <1>8 DEF AppendDone, ClearJournal, IoError, Ok, Return
  <2>2. QED BY <2>1 DEF Locks
<1>9. ASSUME NEW h \in Handle,
             \/ CommitLocked(h) \/ AppendThenCompact(h) \/ ReloadIfStale(h)
             \/ AbsorbJournal(h) \/ SaveGraph(h) \/ PublishGraph(h) \/ PublishKeymap(h)
      PROVE  Locks'
  <2>1. CASE CommitLocked(h)
    BY <2>1, ZenonT(40) DEF Locks, CommitLocked
  <2>2. CASE AppendThenCompact(h)
    BY <2>2 DEF Locks, AppendThenCompact
  <2>3. CASE ReloadIfStale(h)
    BY <2>3, ZenonT(40) DEF Locks, ReloadIfStale
  <2>4. CASE AbsorbJournal(h)
    BY <2>4 DEF Locks, AbsorbJournal
  <2>5. CASE SaveGraph(h)
    BY <2>5 DEF Locks, SaveGraph
  <2>6. CASE PublishGraph(h)
    BY <2>6 DEF Locks, PublishGraph
  <2>7. CASE PublishKeymap(h)
    BY <2>7 DEF Locks, PublishKeymap
  <2>8. QED BY <1>9, <2>1, <2>2, <2>3, <2>4, <2>5, <2>6, <2>7
<1>10. ASSUME NEW h \in Handle, Replay(h) \/ AppendChunk(h) PROVE Locks'
  BY <1>10 DEF Locks, Replay, AppendChunk
<1>11. ASSUME NEW h \in Handle, NEW r \in Rec, NEW batch \in BOOLEAN, Add(h, r, batch)
       PROVE  Locks'
  BY <1>11 DEF Locks, Add
<1>12. QED
  BY <1>1, <1>2, <1>3, <1>4, <1>5, <1>6, <1>7, <1>8, <1>9, <1>10, <1>11 DEF Next, Call, Step

LEMMA NextGenerations ==
    TypeOK /\ Locks /\ Generations /\ [Next]_vars => Generations'
<1> SUFFICES ASSUME TypeOK, Locks, Generations, [Next]_vars PROVE Generations'
  OBVIOUS
<1> USE DEF disk, lock, memory, locals, history, Goto
<1>0. /\ keymap_bin.generation \in Nat /\ pc \in [Handle -> Stage]
      /\ loaded_generation \in [Handle -> Nat] /\ keymap_bin \in Keymap
  BY DEF TypeOK, Keymap
<1>1. CASE UNCHANGED vars
  BY <1>0, <1>1 DEF Generations, vars
<1>2. ASSUME NEW h \in Handle, Open(h) PROVE Generations'
  <2>1. \A g \in Handle : pc[g] \notin Committing
    BY <1>0, <1>2, NoneAssumption DEF Locks, Open
  <2>2. /\ pc' = [pc EXCEPT ![h] = "loading"]
        /\ loaded_generation' = [loaded_generation EXCEPT ![h] = keymap_bin.generation]
        /\ keymap_bin' = keymap_bin /\ keymap_format' = keymap_format
    BY <1>0, <1>2, LoadedType DEF Open
  <2>3. \A g \in Handle : pc'[g] # "keyed"
    BY <1>0, <2>1, <2>2
  <2>4. QED BY <1>0, <2>2, <2>3 DEF Generations
<1>3. ASSUME NEW h \in Handle, ReloadIfStale(h) PROVE Generations'
  <2>1. \A g \in Handle : g # h => pc[g] \notin Committing
    BY <1>0, <1>3 DEF Locks, ReloadIfStale
  <2>2. /\ keymap_bin' = keymap_bin /\ keymap_format' = keymap_format
        /\ \A g \in Handle : pc'[g] # "keyed"
    BY <1>0, <1>3, <2>1 DEF ReloadIfStale
  <2>3. CASE ~Stale(h)
    <3>1. pc' = [pc EXCEPT ![h] = "scan"] /\ loaded_generation' = loaded_generation
      BY <1>0, <1>3, <2>3 DEF ReloadIfStale
    <3>2. loaded_generation[h] = keymap_bin.generation
      BY <1>0, <2>3 DEF Generations, Stale
    <3>3. QED BY <1>0, <2>2, <3>1, <3>2 DEF Generations
  <2>4. CASE Stale(h)
    <3>1. /\ pc' = [pc EXCEPT ![h] = "reinsert"]
          /\ loaded_generation' = [loaded_generation EXCEPT ![h] = keymap_bin.generation]
      BY <1>0, <1>3, <2>4 DEF ReloadIfStale
    <3>2. QED BY <1>0, <2>2, <3>1 DEF Generations
  <2>5. QED BY <1>0, <2>3, <2>4
<1>4. ASSUME NEW h \in Handle, PublishKeymap(h) PROVE Generations'
  <2>1. /\ keymap_bin'.generation = keymap_bin.generation + 1 /\ keymap_format' = "2"
        /\ loaded_generation' = loaded_generation /\ pc' = [pc EXCEPT ![h] = "keyed"]
        /\ loaded_generation[h] = keymap_bin.generation
    BY <1>0, <1>4 DEF Generations, PublishKeymap, Stamped, NextGeneration
  <2>2. \A g \in Handle : g # h => pc[g] \notin Committing \cup {"loading"}
    BY <1>0, <1>4, NoneAssumption DEF Locks, PublishKeymap
  <2>3. \A g \in Handle : /\ loaded_generation[g] \in Nat
                          /\ loaded_generation[g] <= keymap_bin.generation
    BY <1>0 DEF Generations
  <2>4. \A g \in Handle : /\ loaded_generation[g] <= keymap_bin'.generation
                          /\ loaded_generation[g] < keymap_bin'.generation
    BY <1>0, <2>1, <2>3
  <2>5. QED BY <1>0, <2>1, <2>2, <2>4 DEF Generations
<1>5. ASSUME NEW h \in Handle, ClearJournal(h) PROVE Generations'
  <2>1. \A g \in Handle : g # h => pc[g] \notin Committing
    BY <1>0, <1>5 DEF Locks, ClearJournal
  <2>2. /\ pc[h] = "keyed" /\ pc' = [pc EXCEPT ![h] = "idle"]
        /\ loaded_generation' = [loaded_generation EXCEPT ![h] = loaded_generation[h] + 1]
        /\ keymap_bin' = keymap_bin /\ keymap_format' = keymap_format
    BY <1>0, <1>5 DEF ClearJournal, NextGeneration, Ok, Return
  <2>3. QED BY <1>0, <2>1, <2>2 DEF Generations
<1>6. ASSUME NEW h \in Handle, Crash(h) PROVE Generations'
  <2>1. /\ pc' = [pc EXCEPT ![h] = "closed"]
        /\ loaded_generation' = [loaded_generation EXCEPT ![h] = 0]
        /\ keymap_bin' = keymap_bin /\ keymap_format' = keymap_format
    BY <1>0, <1>6 DEF Crash
  <2>2. \A g \in Handle : pc[g] = "keyed" => 0 < keymap_bin.generation
    BY <1>0 DEF Generations
  <2>3. \A g \in Handle : \/ g # h /\ loaded_generation'[g] = loaded_generation[g]
                          \/ loaded_generation'[g] = 0 /\ pc'[g] = "closed"
    BY <1>0, <2>1
  <2>4. ASSUME NEW g \in Handle, pc'[g] = "keyed"
        PROVE  /\ keymap_bin'.generation = loaded_generation'[g] + 1
               /\ \A f \in Handle : loaded_generation'[f] < keymap_bin'.generation
    <3>1. pc[g] = "keyed" /\ g # h
      BY <1>0, <2>1, <2>4
    <3>2. QED BY <1>0, <2>1, <2>2, <2>3, <3>1 DEF Generations
  <2>5. QED BY <1>0, <2>1, <2>3, <2>4 DEF Generations
<1>7. ASSUME NEW h \in Handle, AppendDone(h) \/ IoError(h) PROVE Generations'
  <2>1. /\ pc' = [pc EXCEPT ![h] = "idle"] /\ loaded_generation' = loaded_generation
        /\ keymap_bin' = keymap_bin /\ keymap_format' = keymap_format
    BY <1>0, <1>7 DEF AppendDone, IoError, Ok, Return
  <2>2. QED BY <1>0, <2>1 DEF Generations
<1>8. ASSUME NEW h \in Handle,
             \/ OpenDone(h) \/ Commit(h) \/ Acquire(h) \/ Busy(h) \/ CommitLocked(h)
             \/ AppendThenCompact(h) \/ AbsorbJournal(h) \/ SaveGraph(h) \/ PublishGraph(h)
      PROVE  Generations'
  <2>1. CASE OpenDone(h)
    BY <1>0, <2>1 DEF Generations, OpenDone
  <2>2. CASE Commit(h)
    BY <1>0, <2>2 DEF Generations, Commit
  <2>3. CASE Acquire(h)
    BY <1>0, <2>3 DEF Generations, Acquire
  <2>4. CASE Busy(h)
    BY <1>0, <2>4 DEF Generations, Busy
  <2>5. CASE CommitLocked(h)
    BY <1>0, <2>5 DEF Generations, CommitLocked
  <2>6. CASE AppendThenCompact(h)
    BY <1>0, <2>6 DEF Generations, AppendThenCompact
  <2>7. CASE AbsorbJournal(h)
    BY <1>0, <2>7 DEF Generations, AbsorbJournal
  <2>8. CASE SaveGraph(h)
    BY <1>0, <2>8 DEF Generations, SaveGraph
  <2>9. CASE PublishGraph(h)
    BY <1>0, <2>9 DEF Generations, PublishGraph
  <2>10. QED BY <1>0, <1>8, <2>1, <2>2, <2>3, <2>4, <2>5, <2>6, <2>7, <2>8, <2>9
<1>9. ASSUME NEW h \in Handle, Replay(h) \/ AppendChunk(h) PROVE Generations'
  BY <1>0, <1>9 DEF Generations, Replay, AppendChunk
<1>10. ASSUME NEW h \in Handle, NEW r \in Rec, NEW batch \in BOOLEAN, Add(h, r, batch)
       PROVE  Generations'
  BY <1>0, <1>10 DEF Generations, Add
<1>11. QED
  BY <1>0, <1>1, <1>2, <1>3, <1>4, <1>5, <1>6, <1>7, <1>8, <1>9, <1>10 DEF Next, Call, Step

LEMMA NextStages == FreshIds /\ TypeOK /\ Stages /\ [Next]_vars => Stages'
<1> SUFFICES ASSUME FreshIds, TypeOK, Stages, [Next]_vars PROVE Stages'
  OBVIOUS
<1> USE DEF disk, lock, memory, locals, history, Goto
<1>0. /\ pc \in [Handle -> Stage] /\ tombstones \in [Handle -> SUBSET Item]
      /\ pending \in [Handle -> Seq(Rec)] /\ drained \in [Handle -> Seq(Rec)]
      /\ todo \in [Handle -> Seq(Rec)] /\ skip \in [Handle -> SUBSET Item]
      /\ batch_end \in [Handle -> BOOLEAN] /\ end_of_batch \in [Handle -> BOOLEAN]
  BY DEF TypeOK
<1>1. CASE UNCHANGED vars
  BY <1>0, <1>1 DEF Stages, vars
<1>2. ASSUME NEW h \in Handle, NEW r \in Rec, NEW batch \in BOOLEAN, Add(h, r, batch)
      PROVE  Stages'
  BY <1>0, <1>2, ZenonT(40) DEF Stages, Add, MayMutate, FreshIds
<1>3. ASSUME NEW h \in Handle, Open(h) PROVE Stages'
  BY <1>0, <1>3 DEF Stages, Open
<1>4. ASSUME NEW h \in Handle, Replay(h) PROVE Stages'
  BY <1>0, <1>4 DEF Stages, Replay
<1>5. ASSUME NEW h \in Handle, OpenDone(h) PROVE Stages'
  BY <1>0, <1>5 DEF Stages, OpenDone
<1>6. ASSUME NEW h \in Handle, Commit(h) PROVE Stages'
  BY <1>0, <1>6 DEF Stages, Commit
<1>7. ASSUME NEW h \in Handle, Acquire(h) PROVE Stages'
  BY <1>0, <1>7 DEF Stages, Acquire
<1>8. ASSUME NEW h \in Handle, Busy(h) PROVE Stages'
  BY <1>0, <1>8, SMTT(30) DEF Stages, Busy
<1>9. ASSUME NEW h \in Handle, CommitLocked(h) PROVE Stages'
  <2>1. CASE end_of_batch[h]
    BY <1>0, <1>9, <2>1 DEF Stages, CommitLocked
  <2>2. CASE ~end_of_batch[h]
    BY <1>0, <1>9, <2>2, SMTT(30) DEF Stages, CommitLocked
  <2>3. QED BY <2>1, <2>2
<1>10. ASSUME NEW h \in Handle, AppendChunk(h) PROVE Stages'
  BY <1>0, <1>10 DEF Stages, AppendChunk
<1>11. ASSUME NEW h \in Handle, AppendDone(h) PROVE Stages'
  BY <1>0, <1>11 DEF Stages, AppendDone, Ok, Return
<1>12. ASSUME NEW h \in Handle, AppendThenCompact(h) PROVE Stages'
  BY <1>0, <1>12 DEF Stages, AppendThenCompact
<1>13. ASSUME NEW h \in Handle, ReloadIfStale(h) PROVE Stages'
  <2>1. pc[h] = "reload" /\ (pc' = [pc EXCEPT ![h] = "scan"] \/ pc' = [pc EXCEPT ![h] = "reinsert"])
    BY <1>13 DEF ReloadIfStale
  <2>2. UNCHANGED <<pending, drained, skip, tombstones, batch_end, end_of_batch>>
    BY <1>13 DEF ReloadIfStale
  <2>3. \A g \in Handle : g # h => pc'[g] = pc[g] /\ todo'[g] = todo[g]
    BY <1>0, <1>13 DEF ReloadIfStale
  <2>4. pc'[h] \in {"scan", "reinsert"}
    BY <1>0, <2>1
  <2> DEFINE At(g) ==
        /\ tombstones[g] = {}
        /\ pc[g] \in {"closed", "loading", "saved", "graphed", "keyed"} => pending[g] = << >>
        /\ pc[g] \notin {"append", "saved", "graphed", "keyed"} => drained[g] = << >>
        /\ pc[g] \notin {"loading", "absorb", "saved", "graphed", "keyed"} => skip[g] = {}
        /\ pc[g] \in {"saved", "graphed", "keyed"} => todo[g] = << >>
        /\ pc[g] \in Committing \cup {"acquire"} => end_of_batch[g] = batch_end[g]
        /\ pc[g] = "append" => ~batch_end[g]
        /\ pc[g] \in {"append", "reload", "reinsert", "scan", "absorb"} /\ ~batch_end[g]
             => pending[g] = << >>
  <2>5. \A g \in Handle : At(g)
    BY DEF Stages
  <2>6. ASSUME NEW g \in Handle, g # h PROVE At(g)'
    <3>1. At(g) /\ pc'[g] = pc[g] /\ todo'[g] = todo[g]
      BY <2>3, <2>5, <2>6
    <3>2. QED BY <2>2, <3>1
  <2>7. At(h)'
    <3>1. At(h)
      BY <2>5
    <3>2. QED BY <2>1, <2>2, <2>4, <3>1
  <2>8. QED BY <2>6, <2>7 DEF Stages
<1>14. ASSUME NEW h \in Handle, AbsorbJournal(h) PROVE Stages'
  BY <1>0, <1>14 DEF Stages, AbsorbJournal, Suppressed
<1>15. ASSUME NEW h \in Handle, SaveGraph(h) PROVE Stages'
  BY <1>0, <1>15 DEF Stages, SaveGraph
<1>16. ASSUME NEW h \in Handle, PublishGraph(h) PROVE Stages'
  BY <1>0, <1>16 DEF Stages, PublishGraph
<1>17. ASSUME NEW h \in Handle, PublishKeymap(h) PROVE Stages'
  BY <1>0, <1>17 DEF Stages, PublishKeymap
<1>18. ASSUME NEW h \in Handle, ClearJournal(h) PROVE Stages'
  BY <1>0, <1>18 DEF Stages, ClearJournal, Ok, Return
<1>19. ASSUME NEW h \in Handle, IoError(h) PROVE Stages'
  BY <1>0, <1>19 DEF Stages, IoError, Return
<1>20. ASSUME NEW h \in Handle, Crash(h) PROVE Stages'
  BY <1>0, <1>20, SMTT(30) DEF Stages, Crash
<1>21. QED
  BY <1>1, <1>2, <1>3, <1>4, <1>5, <1>6, <1>7, <1>8, <1>9, <1>10, <1>11, <1>12, <1>13, <1>14, <1>15, <1>16, <1>17, <1>18, <1>19, <1>20
     DEF Next, Call, Step

-----------------------------------------------------------------------------
(* Records and their owners. *)

\* An insertion adds one name (insert_entries).
LEMMA InsertNames ==
    ASSUME NEW km \in Keymap, NEW r \in Rec
    PROVE  Named(KeymapInsert(km, r)) \subseteq Named(km) \cup {r.id}
BY DEF Keymap, Rec, Named, KeymapInsert

\* A loaded keymap has no names but those of the file (load).
LEMMA LoadedNames == Named(LoadedKeymap) \subseteq Named(keymap_bin)
BY DEF Named, LoadedKeymap, EmptyKeymap

\* The records a handle may still have to write, after each step on it.
LEMMA QueueStep ==
    ASSUME FreshIds, TypeOK, Stages, NEW h \in Handle
    PROVE  /\ CommitLocked(h) => Queue(h)' = Queue(h)
           /\ AppendChunk(h) => /\ Queue(h)' \subseteq Queue(h)
                                /\ Queue(h) \subseteq Queue(h)' \cup InSeq(journal')
           /\ SaveGraph(h) => Queue(h)' = Queue(h)
           /\ AppendDone(h) => Queue(h) = {} /\ Queue(h)' = {}
           /\ ClearJournal(h) => Queue(h)' = {}
           /\ IoError(h) => Queue(h)' = Queue(h)
           /\ Crash(h) => Queue(h)' = {}
           /\ \A r \in Rec, batch \in BOOLEAN : Add(h, r, batch) => Queue(h)' = Queue(h) \cup {r}
<1> USE DEF disk, lock, memory, locals, history, Goto
<1>0. pending[h] \in Seq(Rec) /\ drained[h] \in Seq(Rec) /\ journal \in Seq(Rec)
  BY DEF TypeOK
<1>1. ASSUME CommitLocked(h) PROVE Queue(h)' = Queue(h)
  <2>1. drained[h] = << >>
    BY <1>1 DEF Stages, CommitLocked
  <2>2. CASE UNCHANGED <<pending, drained>>
    BY <2>2 DEF Queue
  <2>3. CASE drained'[h] = pending[h] /\ pending'[h] = << >>
    BY <2>1, <2>3 DEF Queue
  <2>4. QED BY <1>1, <2>2, <2>3 DEF CommitLocked, TypeOK
<1>2. ASSUME AppendChunk(h)
      PROVE  /\ Queue(h)' \subseteq Queue(h)
             /\ Queue(h) \subseteq Queue(h)' \cup InSeq(journal')
  <2>1. Chunk(h) \in 0 .. Len(drained[h])
    BY ChunkType
  <2> DEFINE head == SubSeq(drained[h], 1, Chunk(h))
             rest == SubSeq(drained[h], Chunk(h) + 1, Len(drained[h]))
  <2>2. head \in Seq(Rec) /\ rest \in Seq(Rec)
    BY <1>0, <2>1, SeqType
  <2>3. InSeq(drained[h]) = InSeq(head) \cup InSeq(rest)
    BY <1>0, <2>1, InSeqSplit
  <2>4. journal' = journal \o head /\ drained'[h] = rest /\ pending'[h] = pending[h]
    BY <1>2 DEF AppendChunk, TypeOK
  <2>5. InSeq(journal') = InSeq(journal) \cup InSeq(head)
    BY <1>0, <2>2, <2>4, InSeqConcat
  <2> HIDE DEF head, rest
  <2>6. QED BY <2>3, <2>4, <2>5 DEF Queue
<1>3. ASSUME SaveGraph(h) PROVE Queue(h)' = Queue(h)
  <2>1. drained[h] = << >>
    BY <1>3 DEF Stages, SaveGraph
  <2>2. drained'[h] = pending[h] /\ pending'[h] = << >>
    BY <1>3 DEF SaveGraph, TypeOK
  <2>3. QED BY <2>1, <2>2 DEF Queue
<1>4. ASSUME AppendDone(h) PROVE Queue(h) = {} /\ Queue(h)' = {}
  <2>1. drained[h] = << >> /\ pending[h] = << >>
    BY <1>4 DEF Stages, AppendDone
  <2>2. drained'[h] = << >> /\ pending'[h] = pending[h]
    BY <1>4 DEF AppendDone, Ok, Return, TypeOK
  <2>3. QED BY <2>1, <2>2, InSeqEmpty DEF Queue
<1>5. ASSUME ClearJournal(h) PROVE Queue(h)' = {}
  <2>1. drained'[h] = << >> /\ pending'[h] = << >>
    BY <1>5 DEF Stages, ClearJournal, Ok, Return, TypeOK
  <2>2. QED BY <2>1, InSeqEmpty DEF Queue
<1>6. ASSUME IoError(h) PROVE Queue(h)' = Queue(h)
  <2>1. drained'[h] = << >> /\ pending'[h] = drained[h] \o pending[h]
    BY <1>6 DEF IoError, Return, TypeOK
  <2>2. InSeq(drained[h] \o pending[h]) = InSeq(drained[h]) \cup InSeq(pending[h])
    BY <1>0, InSeqConcat
  <2>3. QED BY <2>1, <2>2, InSeqEmpty DEF Queue
<1>7. ASSUME Crash(h) PROVE Queue(h)' = {}
  <2>1. drained'[h] = << >> /\ pending'[h] = << >>
    BY <1>7 DEF Crash, TypeOK
  <2>2. QED BY <2>1, InSeqEmpty DEF Queue
<1>8. ASSUME NEW r \in Rec, NEW batch \in BOOLEAN, Add(h, r, batch)
      PROVE  Queue(h)' = Queue(h) \cup {r}
  <2>1. drained'[h] = drained[h] /\ pending'[h] = Append(pending[h], r)
    BY <1>8 DEF Add, TypeOK
  <2>2. InSeq(Append(pending[h], r)) = InSeq(pending[h]) \cup {r}
    BY <1>0, InSeqAppend
  <2>3. QED BY <2>1, <2>2 DEF Queue
<1>9. QED BY <1>1, <1>2, <1>3, <1>4, <1>5, <1>6, <1>7, <1>8

\* The steps a handle takes; Next is one of them for some handle.
Act(h) == Call(h) \/ Step(h) \/ IoError(h) \/ Crash(h)

\* A step of one handle leaves what the others have in memory alone.
LEMMA Frame ==
    ASSUME TypeOK, NEW h \in Handle, Act(h), NEW g \in Handle, g # h
    PROVE  /\ pc'[g] = pc[g] /\ inner'[g] = inner[g] /\ keymap'[g] = keymap[g]
           /\ loaded_generation'[g] = loaded_generation[g] /\ batch_end'[g] = batch_end[g]
           /\ pending'[g] = pending[g] /\ drained'[g] = drained[g] /\ Queue(g)' = Queue(g)
           /\ todo'[g] = todo[g] /\ skip'[g] = skip[g] /\ saved'[g] = saved[g]
           /\ added'[g] = added[g] /\ covers'[g] = covers[g]
<1> USE DEF disk, lock, memory, locals, history, Goto, TypeOK
<1> DEFINE Same == /\ pc'[g] = pc[g] /\ inner'[g] = inner[g] /\ keymap'[g] = keymap[g]
                   /\ loaded_generation'[g] = loaded_generation[g]
                   /\ batch_end'[g] = batch_end[g]
                   /\ pending'[g] = pending[g] /\ drained'[g] = drained[g]
                   /\ todo'[g] = todo[g] /\ skip'[g] = skip[g] /\ saved'[g] = saved[g]
                   /\ added'[g] = added[g] /\ covers'[g] = covers[g]
<1>1. ASSUME NEW r \in Rec, NEW batch \in BOOLEAN, Add(h, r, batch) PROVE Same
  BY <1>1 DEF Add, Insert
<1>2. ASSUME Open(h) PROVE Same
  BY <1>2 DEF Open
<1>3. ASSUME Replay(h) PROVE Same
  BY <1>3, SMTT(30) DEF Replay, Insert
<1>4. ASSUME OpenDone(h) \/ Commit(h) \/ Acquire(h) \/ AppendThenCompact(h) PROVE Same
  BY <1>4, SMTT(30) DEF OpenDone, Commit, Acquire, AppendThenCompact
<1>5. ASSUME Busy(h) PROVE Same
  BY <1>5 DEF Busy
<1>6. ASSUME CommitLocked(h) PROVE Same
  BY <1>6, SMTT(30) DEF CommitLocked
<1>7. ASSUME AppendChunk(h) PROVE Same
  BY <1>7 DEF AppendChunk
<1>8. ASSUME AppendDone(h) PROVE Same
  BY <1>8 DEF AppendDone, Ok, Return
<1>9. ASSUME ReloadIfStale(h) PROVE Same
  BY <1>9, SMTT(30) DEF ReloadIfStale
<1>10. ASSUME AbsorbJournal(h) \/ SaveGraph(h) PROVE Same
  BY <1>10, SMTT(30) DEF AbsorbJournal, SaveGraph
<1>11. ASSUME PublishGraph(h) \/ PublishKeymap(h) PROVE Same
  BY <1>11, SMTT(30) DEF PublishGraph, PublishKeymap
<1>12. ASSUME ClearJournal(h) PROVE Same
  BY <1>12 DEF ClearJournal, Ok, Return
<1>13. ASSUME IoError(h) PROVE Same
  BY <1>13 DEF IoError, Return
<1>14. ASSUME Crash(h) PROVE Same
  BY <1>14 DEF Crash
<1>15. Same
  BY <1>1, <1>2, <1>3, <1>4, <1>5, <1>6, <1>7, <1>8, <1>9, <1>10, <1>11, <1>12, <1>13, <1>14
     DEF Act, Call, Step
<1>16. QED BY <1>15 DEF Queue

\* Steps that change neither the journal nor what the handles owe to it.
LEMMA QuietStep ==
    ASSUME FreshIds, TypeOK, Stages, NEW h \in Handle,
           \/ Open(h) \/ Replay(h) \/ OpenDone(h) \/ Commit(h) \/ Acquire(h) \/ Busy(h)
           \/ CommitLocked(h) \/ AppendThenCompact(h) \/ ReloadIfStale(h)
           \/ AbsorbJournal(h) \/ SaveGraph(h) \/ PublishGraph(h) \/ PublishKeymap(h)
    PROVE  /\ UNCHANGED <<journal, issued, added, acked, batch_end>>
           /\ \A g \in Handle : Queue(g)' = Queue(g)
<1> USE DEF disk, lock, memory, locals, history, Goto
<1>1. CASE CommitLocked(h)
  <2>1. Queue(h)' = Queue(h)
    BY <1>1, QueueStep
  <2>2. QED BY <1>1, <2>1, Frame DEF Act, Step, CommitLocked
<1>2. CASE SaveGraph(h)
  <2>1. Queue(h)' = Queue(h)
    BY <1>2, QueueStep
  <2>2. QED BY <1>2, <2>1, Frame DEF Act, Step, SaveGraph
<1>3. CASE \/ Open(h) \/ Replay(h) \/ OpenDone(h) \/ Commit(h) \/ Acquire(h) \/ Busy(h)
           \/ AppendThenCompact(h) \/ ReloadIfStale(h)
           \/ AbsorbJournal(h) \/ PublishGraph(h) \/ PublishKeymap(h)
  <2>1. UNCHANGED <<pending, drained, journal, issued, added, acked, batch_end>>
    BY <1>3 DEF Open, Replay, OpenDone, Commit, Acquire, Busy, AppendThenCompact,
                ReloadIfStale, AbsorbJournal, PublishGraph, PublishKeymap
  <2>2. QED BY <2>1 DEF Queue
<1>4. QED BY <1>1, <1>2, <1>3

\* A new record is in the handle's queue and nowhere else (mint_raw_ulid).
LEMMA AddStep ==
    ASSUME FreshIds, TypeOK, Issued, Owned, Stages, NEW h \in Handle,
           NEW r \in Rec, NEW batch \in BOOLEAN, Add(h, r, batch)
    PROVE  /\ r.id \notin Ids(issued) /\ r \notin issued /\ issued' = issued \cup {r}
           /\ added' = [added EXCEPT ![h] = added[h] \cup {r}]
           /\ Queue(h)' = Queue(h) \cup {r}
           /\ UNCHANGED <<journal, acked, covers, pc, todo>>
           /\ batch_end[h] => batch_end'[h]
<1> USE DEF disk, lock, memory, locals, history
<1>1. r.id \notin Ids(issued)
  BY DEF Add, MayAdd, FreshIds
<1>2. r \notin issued
  BY <1>1 DEF Ids
<1>3. \A s \in added[h] : s.id # r.id
  BY <1>1 DEF Issued, Ids
<1>4. Supersede(added[h], {r}) = added[h] \cup {r}
  BY <1>3 DEF Supersede, Ids
<1>5. Queue(h)' = Queue(h) \cup {r}
  BY QueueStep
<1>6. QED BY <1>1, <1>2, <1>4, <1>5 DEF Add, TypeOK

\* A commit that returns Ok acknowledges what it covers, which its handle owns.
LEMMA OkStep ==
    ASSUME TypeOK, Issued, Owned, NEW h \in Handle, Ok(h)
    PROVE  acked' = acked \cup covers[h] /\ covers[h] \subseteq added[h]
<1>1. covers[h] \subseteq added[h] /\ covers[h] \subseteq issued /\ acked \subseteq issued
  BY DEF Owned, Issued
<1>2. \A s \in acked : s.id \in Ids(covers[h]) => s \in covers[h]
  BY <1>1 DEF Issued, Ids
<1>3. Supersede(acked, covers[h]) = acked \cup covers[h]
  BY <1>2 DEF Supersede
<1>4. QED BY <1>1, <1>3 DEF Ok

\* What a step may write to the journal, and who may write to it.
LEMMA JournalStep ==
    ASSUME FreshIds, TypeOK, Stages, NEW h \in Handle, Act(h)
    PROVE  /\ InSeq(journal') \subseteq InSeq(journal) \cup Queue(h)
           /\ pc[h] # "keyed" => InSeq(journal) \subseteq InSeq(journal')
           /\ pc[h] # "append" => InSeq(journal') \subseteq InSeq(journal)
           /\ pc[h] \notin Committing => InSeq(journal') = InSeq(journal)
<1> USE DEF disk, lock, memory, locals, history, Stage
<1>0. /\ drained[h] \in Seq(Rec) /\ journal \in Seq(Rec) /\ Len(drained[h]) \in Nat
      /\ Chunk(h) \in 0 .. Len(drained[h]) /\ Torn(h) \subseteq 0 .. Len(drained[h])
  BY ChunkType, LenProperties DEF TypeOK
<1> DEFINE Wrote(n) == journal' = journal \o SubSeq(drained[h], 1, n)
<1>1. ASSUME NEW n \in 0 .. Len(drained[h]), Wrote(n)
      PROVE  /\ InSeq(journal) \subseteq InSeq(journal')
             /\ InSeq(journal') \subseteq InSeq(journal) \cup Queue(h)
  <2> DEFINE head == SubSeq(drained[h], 1, n)
  <2>1. head \in Seq(Rec)
    BY <1>0, <1>1, SeqType
  <2>2. InSeq(drained[h]) = InSeq(head) \cup InSeq(SubSeq(drained[h], n + 1, Len(drained[h])))
    BY <1>0, <1>1, InSeqSplit
  <2>3. InSeq(journal') = InSeq(journal) \cup InSeq(head)
    BY <1>0, <1>1, <2>1, InSeqConcat
  <2> HIDE DEF head
  <2>4. QED BY <2>2, <2>3 DEF Queue
<1>2. CASE AppendChunk(h)
  <2>1. pc[h] = "append" /\ Wrote(Chunk(h))
    BY <1>2 DEF AppendChunk
  <2> HIDE DEF Wrote
  <2>2. QED BY <1>0, <1>1, <2>1
<1>3. CASE IoError(h) \/ Crash(h)
  <2>1. PICK n \in Torn(h) :
           \/ Wrote(n)
           \/ pc[h] = "keyed" /\ journal' = << >>
    <3>1. 0 \in Torn(h)
      BY <1>0 DEF Torn
    <3>2. QED BY <1>3, <3>1 DEF IoError, Crash
  <2>2. CASE pc[h] = "keyed" /\ journal' = << >>
    <3>1. InSeq(journal') = {}
      BY <2>2, InSeqEmpty
    <3>2. QED BY <2>2, <3>1
  <2>3. CASE pc[h] = "append" /\ Wrote(n)
    <3> HIDE DEF Wrote
    <3>1. QED BY <1>0, <1>1, <2>3
  <2>4. CASE pc[h] # "append" /\ Wrote(n)
    <3>1. n = 0
      BY <2>4 DEF Torn
    <3>2. SubSeq(drained[h], 1, 0) = << >>
      BY <1>0, SubSeqEmpty
    <3>3. journal' = journal
      BY <1>0, <2>4, <3>1, <3>2, ConcatEmptySeq
    <3>4. QED BY <2>4, <3>3
  <2>5. QED BY <2>1, <2>2, <2>3, <2>4
<1>4. CASE ClearJournal(h)
  <2>1. pc[h] = "keyed" /\ InSeq(journal') = {}
    BY <1>4, InSeqEmpty DEF ClearJournal
  <2>2. QED BY <2>1
<1>5. CASE AppendDone(h) \/ \E r \in Rec, batch \in BOOLEAN : Add(h, r, batch)
  BY <1>5 DEF AppendDone, Add
<1>6. CASE \/ Open(h) \/ Replay(h) \/ OpenDone(h) \/ Commit(h) \/ Acquire(h) \/ Busy(h)
           \/ CommitLocked(h) \/ AppendThenCompact(h) \/ ReloadIfStale(h)
           \/ AbsorbJournal(h) \/ SaveGraph(h) \/ PublishGraph(h) \/ PublishKeymap(h)
  BY <1>6, QuietStep
<1>7. QED BY <1>2, <1>3, <1>4, <1>5, <1>6 DEF Act, Call, Step

\* A step of h makes a record settled only by writing it to the journal, or as
\* the last step of a compaction; only the latter makes one safe.
LEMMA Growth ==
    ASSUME FreshIds, TypeOK, Issued, Owned, Stages, NEW h \in Handle, Act(h), NEW r \in issued
    PROVE  /\ Settled(r)' => \/ Settled(r) \/ r \in InSeq(journal')
                             \/ ClearJournal(h) /\ r \in Queue(h)
           /\ Safe(r)' => Safe(r) \/ (ClearJournal(h) /\ r \in Queue(h))
<1> USE DEF disk, lock, memory, locals, history
<1>0. \A g \in Handle : g # h =>
         added'[g] = added[g] /\ batch_end'[g] = batch_end[g] /\ Queue(g)' = Queue(g)
  BY Frame
<1>1. CASE \/ Open(h) \/ Replay(h) \/ OpenDone(h) \/ Commit(h) \/ Acquire(h) \/ Busy(h)
           \/ CommitLocked(h) \/ AppendThenCompact(h) \/ ReloadIfStale(h)
           \/ AbsorbJournal(h) \/ SaveGraph(h) \/ PublishGraph(h) \/ PublishKeymap(h)
  <2>1. /\ added' = added /\ acked' = acked /\ batch_end' = batch_end
        /\ \A g \in Handle : Queue(g)' = Queue(g)
    BY <1>1, QuietStep
  <2>2. QED BY <2>1 DEF Settled, Safe
<1>2. ASSUME NEW s \in Rec, NEW batch \in BOOLEAN, Add(h, s, batch)
      PROVE  (Settled(r)' => Settled(r)) /\ (Safe(r)' => Safe(r))
  <2>1. /\ s # r /\ acked' = acked /\ added'[h] = added[h] \cup {s}
        /\ Queue(h)' = Queue(h) \cup {s} /\ (batch_end[h] => batch_end'[h])
    BY <1>2, AddStep, SMTT(30) DEF TypeOK
  <2>2. QED BY <1>0, <2>1 DEF Settled, Safe
<1>3. CASE AppendChunk(h)
  <2>1. acked' = acked /\ added' = added /\ batch_end' = batch_end /\ ~batch_end[h]
    BY <1>3 DEF AppendChunk, Stages
  <2>2. Queue(h) \subseteq Queue(h)' \cup InSeq(journal')
    BY <1>3, QueueStep
  <2>3. QED BY <1>0, <2>1, <2>2 DEF Settled, Safe
<1>4. CASE AppendDone(h)
  <2>1. Queue(h) = {} /\ Queue(h)' = {}
    BY <1>4, QueueStep
  <2>2. added' = added /\ acked' = acked \cup covers[h] /\ covers[h] \subseteq added[h]
    BY <1>4, OkStep DEF AppendDone, Ok, Return
  <2>3. QED BY <1>0, <2>1, <2>2 DEF Settled, Safe
<1>5. CASE ClearJournal(h)
  <2>1. Queue(h)' = {}
    BY <1>5, QueueStep
  <2>2. added' = added /\ acked' = acked \cup covers[h] /\ covers[h] \subseteq added[h]
    BY <1>5, OkStep DEF ClearJournal, Ok, Return
  <2>3. QED BY <1>0, <1>5, <2>1, <2>2 DEF Settled, Safe
<1>6. CASE IoError(h)
  <2>1. Queue(h)' = Queue(h)
    BY <1>6, QueueStep
  <2>2. added' = added /\ acked' = acked /\ batch_end' = batch_end
    BY <1>6 DEF IoError, Return
  <2>3. QED BY <1>0, <2>1, <2>2 DEF Settled, Safe
<1>7. CASE Crash(h)
  <2>1. added'[h] = {} /\ acked' = acked
    BY <1>7 DEF Crash, TypeOK
  <2>2. QED BY <1>0, <2>1 DEF Settled, Safe
<1>8. QED BY <1>1, <1>2, <1>3, <1>4, <1>5, <1>6, <1>7 DEF Act, Call, Step

\* Nothing is issued but by an add, and a new record is on no disk.
LEMMA Issuing ==
    ASSUME FreshIds, TypeOK, Issued, Owned, Stages, NEW h \in Handle, Act(h),
           NEW r \in issued', r \notin issued
    PROVE  /\ \E batch \in BOOLEAN : Add(h, r, batch)
           /\ r.id \notin Ids(issued)
           /\ keymap_bin' = keymap_bin /\ keymap_bin.reverse[r.id] = None
           /\ r \notin InSeq(journal') /\ ~Settled(r)'
<1> USE DEF disk, lock, memory, locals, history
<1>1. \A s \in Rec, batch \in BOOLEAN : Add(h, s, batch) => issued' = issued \cup {s}
  BY AddStep, SMTT(30)
<1>2. (\A s \in Rec, batch \in BOOLEAN : ~Add(h, s, batch)) => issued' = issued
  BY DEF Act, Call, Step, Open, Replay, OpenDone, Commit, Acquire, Busy, CommitLocked,
         AppendChunk, AppendDone, AppendThenCompact, ReloadIfStale, AbsorbJournal,
         SaveGraph, PublishGraph, PublishKeymap, ClearJournal, IoError, Crash, Ok, Return
<1>3. PICK s \in Rec, batch \in BOOLEAN : Add(h, s, batch)
  BY <1>2
<1>4. s = r
  BY <1>1, <1>3
<1>5. /\ r.id \notin Ids(issued) /\ added'[h] = added[h] \cup {r}
      /\ Queue(h)' = Queue(h) \cup {r} /\ journal' = journal /\ acked' = acked
  BY <1>3, <1>4, AddStep, SMTT(30) DEF TypeOK
<1>6. keymap_bin.reverse[r.id] = None
  BY <1>3, <1>4, <1>5 DEF Issued, Named, Rec
<1>7. r \notin InSeq(journal) /\ r \notin acked /\ \A g \in Handle : r \notin added[g]
  BY DEF Issued
<1>8. \A g \in Handle : g # h => added'[g] = added[g]
  BY Frame
<1>9. keymap_bin' = keymap_bin
  BY <1>3 DEF Add
<1>10. QED BY <1>3, <1>4, <1>5, <1>6, <1>7, <1>8, <1>9, SMTT(30) DEF Settled

\* What a step other than an add may put in memory and into keymap.bin.
LEMMA MemoryStep ==
    ASSUME TypeOK, Stages, NEW h \in Handle, Step(h) \/ Open(h) \/ Commit(h) \/ IoError(h) \/ Crash(h)
    PROVE  /\ issued' = issued /\ added'[h] \subseteq added[h]
           /\ InSeq(todo'[h]) \subseteq InSeq(todo[h]) \cup InSeq(journal) \cup Queue(h)
           /\ Named(keymap_bin') \subseteq Named(keymap_bin) \cup Named(keymap[h])
           /\ Named(keymap'[h]) \subseteq
                Named(keymap_bin) \cup Named(keymap[h]) \cup Ids(InSeq(todo[h]))
<1> USE DEF disk, lock, memory, locals, history
<1>1. /\ Named(EmptyKeymap) = {} /\ Named(LoadedKeymap) \subseteq Named(keymap_bin)
      /\ Named(Stamped(h)) = Named(keymap[h]) /\ InSeq(<< >>) = {}
  BY InSeqEmpty, LoadedNames DEF Named, EmptyKeymap, Stamped
<1>2. CASE Replay(h)
  <2>1. Head(todo[h]) \in Rec /\ InSeq(todo[h]) = {Head(todo[h])} \cup InSeq(Tail(todo[h]))
    BY <1>2, HeadTailProperties, InSeqHead DEF TypeOK, Replay
  <2>2. /\ issued' = issued /\ added' = added /\ todo'[h] = Tail(todo[h])
        /\ keymap_bin' = keymap_bin
    BY <1>2 DEF Replay, TypeOK
  <2>3. keymap'[h] = keymap[h] \/ keymap'[h] = KeymapInsert(keymap[h], Head(todo[h]))
    BY <1>2 DEF Replay, Insert, TypeOK
  <2>4. Named(KeymapInsert(keymap[h], Head(todo[h]))) \subseteq Named(keymap[h]) \cup {Head(todo[h]).id}
    BY <2>1, InsertNames, SMTT(30) DEF TypeOK
  <2>5. Head(todo[h]).id \in Ids(InSeq(todo[h]))
    BY <2>1 DEF Ids
  <2>6. QED BY <2>1, <2>2, <2>3, <2>4, <2>5
<1>3. CASE Open(h)
  BY <1>1, <1>3 DEF Open, TypeOK
<1>4. CASE Crash(h)
  BY <1>1, <1>4, ZenonT(40) DEF Crash, TypeOK
<1>5. CASE IoError(h) \/ AppendDone(h) \/ ClearJournal(h)
  <2>1. /\ issued' = issued /\ added' = added /\ todo'[h] = << >>
        /\ keymap_bin' = keymap_bin /\ keymap' = keymap
    BY <1>5 DEF IoError, AppendDone, ClearJournal, Ok, Return, TypeOK
  <2>2. QED BY <1>1, <2>1
<1>6. CASE PublishKeymap(h)
  <2>1. /\ issued' = issued /\ added' = added /\ todo' = todo
        /\ keymap_bin' = Stamped(h) /\ keymap'[h] = Stamped(h)
    BY <1>6 DEF PublishKeymap, TypeOK
  <2>2. QED BY <1>1, <2>1
<1>7. CASE ReloadIfStale(h)
  <2>1. InSeq(pending[h]) \subseteq Queue(h)
    BY DEF Queue
  <2>2. /\ issued' = issued /\ added' = added /\ keymap_bin' = keymap_bin
        /\ todo'[h] = todo[h] \/ todo'[h] = pending[h]
        /\ keymap'[h] = keymap[h] \/ keymap'[h] = keymap_bin
    BY <1>7 DEF ReloadIfStale, Queued, TypeOK
  <2>3. QED BY <2>1, <2>2
<1>8. CASE AbsorbJournal(h)
  BY <1>8 DEF AbsorbJournal, TypeOK
<1>9. CASE \/ OpenDone(h) \/ Commit(h) \/ Acquire(h) \/ Busy(h) \/ CommitLocked(h)
           \/ AppendChunk(h) \/ AppendThenCompact(h) \/ SaveGraph(h) \/ PublishGraph(h)
  <2>1. UNCHANGED <<issued, added, todo, keymap, keymap_bin>>
    BY <1>9 DEF OpenDone, Commit, Acquire, Busy, CommitLocked, AppendChunk,
                AppendThenCompact, SaveGraph, PublishGraph
  <2>2. QED BY <2>1
<1>10. QED BY <1>2, <1>3, <1>4, <1>5, <1>6, <1>7, <1>8, <1>9 DEF Step

LEMMA NextIssued ==
    ASSUME FreshIds, TypeOK, Issued, Owned, Stages, NEW h \in Handle, Act(h)
    PROVE  Issued'
<1> USE DEF disk, lock, memory, locals, history
<1>1. Queue(h) \subseteq issued /\ InSeq(journal') \subseteq issued
  BY JournalStep DEF Issued, Owned
<1>2. \A g \in Handle : g # h =>
         added'[g] = added[g] /\ todo'[g] = todo[g] /\ keymap'[g] = keymap[g]
  BY Frame
<1>3. ASSUME NEW r \in Rec, NEW batch \in BOOLEAN, Add(h, r, batch) PROVE Issued'
  <2>1. /\ r.id \notin Ids(issued) /\ issued' = issued \cup {r} /\ acked' = acked
        /\ added'[h] = added[h] \cup {r} /\ todo' = todo /\ journal' = journal
    BY <1>3, AddStep, SMTT(30) DEF TypeOK
  <2>2. keymap_bin' = keymap_bin /\ keymap'[h] = KeymapInsert(keymap[h], r)
    BY <1>3 DEF Add, Insert, TypeOK
  <2>3. Named(keymap'[h]) \subseteq Named(keymap[h]) \cup {r.id}
    BY <2>2, InsertNames DEF TypeOK
  <2>4. Ids(issued') = Ids(issued) \cup {r.id}
    BY <2>1 DEF Ids
  <2>5. \A s, t \in issued' : s.id = t.id => s = t
    BY <2>1 DEF Issued, Ids
  <2>6. \A g \in Handle : /\ added'[g] \subseteq issued' /\ InSeq(todo'[g]) \subseteq issued'
                          /\ Named(keymap'[g]) \subseteq Ids(issued')
    BY <1>2, <2>1, <2>3, <2>4 DEF Issued
  <2>7. QED BY <1>1, <2>1, <2>2, <2>4, <2>5, <2>6 DEF Issued
<1>4. CASE Step(h) \/ Open(h) \/ Commit(h) \/ IoError(h) \/ Crash(h)
  <2>1. /\ issued' = issued /\ added'[h] \subseteq added[h]
        /\ InSeq(todo'[h]) \subseteq issued
        /\ Named(keymap_bin') \subseteq Ids(issued) /\ Named(keymap'[h]) \subseteq Ids(issued)
    <3>1. Ids(InSeq(todo[h])) \subseteq Ids(issued)
      BY DEF Issued, Ids
    <3>2. QED BY <1>1, <1>4, <3>1, MemoryStep DEF Issued
  <2>2. acked' \subseteq issued
    <3>1. CASE AppendDone(h) \/ ClearJournal(h)
      BY <3>1, OkStep DEF AppendDone, ClearJournal, Issued
    <3>2. CASE ~AppendDone(h) /\ ~ClearJournal(h)
      <4>1. acked' = acked
        BY <1>4, <3>2 DEF Step, Open, Replay, OpenDone, Commit, Acquire, Busy, CommitLocked,
           AppendChunk, AppendThenCompact, ReloadIfStale, AbsorbJournal, SaveGraph,
           PublishGraph, PublishKeymap, IoError, Crash
      <4>2. QED BY <4>1, SMTT(30) DEF Issued
    <3>3. QED BY <3>1, <3>2
  <2>3. \A g \in Handle : /\ added'[g] \subseteq issued' /\ InSeq(todo'[g]) \subseteq issued'
                          /\ Named(keymap'[g]) \subseteq Ids(issued')
    BY <1>2, <2>1 DEF Issued
  <2>4. QED BY <1>1, <2>1, <2>2, <2>3 DEF Issued
<1>5. QED BY <1>3, <1>4 DEF Act, Call

LEMMA NextOwned ==
    ASSUME FreshIds, TypeOK, Issued, Owned, Stages, NEW h \in Handle, Act(h)
    PROVE  Owned'
<1> USE DEF disk, lock, memory, locals, history, Goto
<1> DEFINE Keeps == /\ covers'[h] \subseteq added'[h]
                    /\ Queue(h)' \subseteq added'[h]
                    /\ acked' \cap Queue(h)' = {}
                    /\ pc'[h] = "reinsert" => InSeq(todo'[h]) \subseteq Queue(h)'
                    /\ acked' \subseteq acked \cup added[h]
                    /\ added'[h] \subseteq added[h] \cup (issued' \ issued)
<1>0. /\ covers[h] \subseteq added[h] /\ Queue(h) \subseteq added[h] /\ acked \cap Queue(h) = {}
      /\ pc[h] = "reinsert" => InSeq(todo[h]) \subseteq Queue(h)
  BY DEF Owned
<1>1. ASSUME Keeps PROVE Owned'
  <2>1. \A g \in Handle : g # h =>
           /\ pc'[g] = pc[g] /\ todo'[g] = todo[g] /\ added'[g] = added[g]
           /\ covers'[g] = covers[g] /\ Queue(g)' = Queue(g)
    BY Frame
  <2>2. \A g \in Handle : g # h =>
           added'[h] \cap added[g] = {} /\ acked' \cap Queue(g) = {}
    BY <1>1 DEF Owned, Issued
  <2>3. \A g \in Handle :
          /\ covers'[g] \subseteq added'[g] /\ Queue(g)' \subseteq added'[g]
          /\ acked' \cap Queue(g)' = {}
          /\ pc'[g] = "reinsert" => InSeq(todo'[g]) \subseteq Queue(g)'
    BY <1>1, <2>1, <2>2 DEF Owned
  <2>4. \A g, f \in Handle : g # f => added'[g] \cap added'[f] = {}
    BY <2>1, <2>2 DEF Owned
  <2>5. QED BY <2>3, <2>4 DEF Owned
<1>2. ASSUME NEW r \in Rec, NEW batch \in BOOLEAN, Add(h, r, batch) PROVE Keeps
  <2>1. /\ r \notin issued /\ issued' = issued \cup {r} /\ acked' = acked /\ covers' = covers
        /\ added'[h] = added[h] \cup {r} /\ pc' = pc /\ Queue(h)' = Queue(h) \cup {r}
    BY <1>2, AddStep, SMTT(30) DEF TypeOK
  <2>2. pc[h] # "reinsert"
    BY <1>2 DEF Add, MayMutate, FreshIds
  <2>3. QED BY <1>0, <2>1, <2>2 DEF Issued
<1>3. ASSUME AppendDone(h) \/ ClearJournal(h) PROVE Keeps
  <2>1. Queue(h)' = {}
    BY <1>3, QueueStep
  <2>2. acked' = acked \cup covers[h] /\ covers'[h] = {} /\ added' = added /\ pc'[h] = "idle"
    BY <1>3, OkStep, ZenonT(40) DEF AppendDone, ClearJournal, Ok, Return, TypeOK
  <2>3. QED BY <1>0, <2>1, <2>2
<1>4. ASSUME IoError(h) PROVE Keeps
  <2>1. Queue(h)' = Queue(h)
    BY <1>4, QueueStep
  <2>2. acked' = acked /\ covers'[h] = {} /\ added' = added /\ pc'[h] = "idle"
    BY <1>4 DEF IoError, Return, TypeOK
  <2>3. QED BY <1>0, <2>1, <2>2
<1>5. ASSUME Crash(h) PROVE Keeps
  <2>1. Queue(h)' = {}
    BY <1>5, QueueStep
  <2>2. acked' = acked /\ covers'[h] = {} /\ added'[h] = {} /\ pc'[h] = "closed"
    BY <1>5 DEF Crash, TypeOK
  <2>3. QED BY <1>0, <2>1, <2>2
<1>6. ASSUME AppendChunk(h) PROVE Keeps
  <2>1. Queue(h)' \subseteq Queue(h)
    BY <1>6, QueueStep
  <2>2. /\ acked' = acked /\ covers' = covers /\ added' = added /\ pc'[h] # "reinsert"
    BY <1>6 DEF AppendChunk
  <2>3. QED BY <1>0, <2>1, <2>2
<1>7. ASSUME \/ Open(h) \/ Replay(h) \/ OpenDone(h) \/ Commit(h) \/ Acquire(h) \/ Busy(h)
             \/ CommitLocked(h) \/ AppendThenCompact(h) \/ ReloadIfStale(h)
             \/ AbsorbJournal(h) \/ SaveGraph(h) \/ PublishGraph(h) \/ PublishKeymap(h)
      PROVE  Keeps
  <2>1. acked' = acked /\ added' = added /\ Queue(h)' = Queue(h)
    BY <1>7, QuietStep
  <2>2. covers'[h] = covers[h] \/ covers'[h] = added[h] \/ covers'[h] = {}
    BY <1>7 DEF Open, Replay, OpenDone, Commit, Acquire, Busy, CommitLocked, AppendThenCompact,
                ReloadIfStale, AbsorbJournal, SaveGraph, PublishGraph, PublishKeymap, TypeOK
  <2>3. ASSUME pc'[h] = "reinsert" PROVE InSeq(todo'[h]) \subseteq Queue(h)
    <3>1. CASE Replay(h)
      <4>1. pc[h] = "reinsert" /\ todo'[h] = Tail(todo[h])
        BY <2>3, <3>1 DEF Replay, TypeOK
      <4>2. InSeq(Tail(todo[h])) \subseteq InSeq(todo[h])
        BY <3>1, InSeqHead DEF Replay, TypeOK
      <4>3. QED BY <1>0, <4>1, <4>2
    <3>2. CASE ReloadIfStale(h)
      <4>1. todo'[h] = pending[h]
        BY <2>3, <3>2 DEF ReloadIfStale, Queued, TypeOK
      <4>2. QED BY <4>1 DEF Queue
    <3>3. CASE ~Replay(h) /\ ~ReloadIfStale(h)
      <4>1. pc' = pc /\ todo' = todo
        BY <1>7, <2>3, <3>3 DEF Open, OpenDone, Commit, Acquire, Busy, CommitLocked,
           AppendThenCompact, AbsorbJournal, SaveGraph, PublishGraph, PublishKeymap, TypeOK
      <4>2. QED BY <1>0, <2>3, <4>1
    <3>4. QED BY <3>1, <3>2, <3>3
  <2>4. QED BY <1>0, <2>1, <2>2, <2>3
<1>8. Keeps
  BY <1>2, <1>3, <1>4, <1>5, <1>6, <1>7 DEF Act, Call, Step
<1>9. QED BY <1>1, <1>8

-----------------------------------------------------------------------------
(* The directory. *)

LEMMA SettledSafe == \A r : Settled(r) => Safe(r)
BY DEF Settled, Safe

\* The last steps of a compaction: everything the handle has is published.
LEMMA Published ==
    ASSUME TypeOK, OnDisk, InMemory, Publishes, NEW h \in Handle, pc[h] = "keyed",
           NEW r \in issued
    PROVE  /\ Settled(r) \/ r \in InSeq(journal) \/ r \in Queue(h)
                => keymap_bin.reverse[r.id] # None
           /\ r \in Queue(h) => Holds(index_usearch, keymap_bin, r)
<1>1. keymap_bin.reverse = keymap[h].reverse /\ index_usearch = inner[h]
  BY DEF Publishes
<1>2. r \in InSeq(journal) => keymap[h].reverse[r.id] # None
  BY DEF Publishes
<1>3. r \in Queue(h) => Holds(inner[h], keymap[h], r)
  BY DEF InMemory
<1>4. \A g, km : Holds(g, km, r) => km.reverse[r.id] # None
  BY NoneAssumption DEF Holds
<1>5. Settled(r) => keymap_bin.reverse[r.id] # None \/ r \in InSeq(journal)
  BY DEF OnDisk
<1>6. r \in Queue(h) => Holds(index_usearch, keymap_bin, r)
  BY <1>1, <1>3 DEF Holds
<1>7. QED BY <1>1, <1>2, <1>4, <1>5, <1>6

LEMMA NextOnDisk ==
    ASSUME FreshIds, TypeOK, Durable, NEW h \in Handle, Act(h)
    PROVE  OnDisk'
<1> USE DEF disk, lock, memory, locals, history
<1> SUFFICES ASSUME NEW r \in issued'
             PROVE  /\ Settled(r)' => keymap_bin'.reverse[r.id] # None \/ r \in InSeq(journal')
                    /\ Safe(r)' /\ keymap_bin'.reverse[r.id] # None
                         => Holds(index_usearch', keymap_bin', r)
  BY DEF OnDisk, Holds
<1>0. Issued /\ Owned /\ Stages /\ OnDisk /\ InMemory /\ Replays /\ Publishes /\ Generations
  BY DEF Durable
<1>1. CASE r \notin issued
  BY <1>0, <1>1, Issuing
<1>2. CASE r \in issued /\ pc[h] = "keyed"
  <2>1. keymap_bin' = keymap_bin /\ index_usearch' = index_usearch
    BY <1>2 DEF Act, Call, Step, Open, Replay, OpenDone, Commit, Acquire, Busy,
       CommitLocked, AppendChunk, AppendDone, AppendThenCompact, ReloadIfStale, AbsorbJournal,
       SaveGraph, PublishGraph, PublishKeymap, ClearJournal, IoError, Crash, Add
  <2>2. /\ Settled(r)' => Settled(r) \/ r \in InSeq(journal') \/ r \in Queue(h)
        /\ Safe(r)' => Safe(r) \/ r \in Queue(h)
        /\ InSeq(journal') \subseteq InSeq(journal)
    BY <1>0, <1>2, Growth, JournalStep
  <2>3. /\ Settled(r) \/ r \in InSeq(journal) \/ r \in Queue(h)
             => keymap_bin.reverse[r.id] # None
        /\ r \in Queue(h) => Holds(index_usearch, keymap_bin, r)
    BY <1>0, <1>2, Published
  <2>4. Safe(r) /\ keymap_bin.reverse[r.id] # None => Holds(index_usearch, keymap_bin, r)
    BY <1>0, <1>2 DEF OnDisk
  <2>5. QED BY <2>1, <2>2, <2>3, <2>4
<1>3. CASE r \in issued /\ pc[h] # "keyed"
  <2>1. /\ Settled(r)' => Settled(r) \/ r \in InSeq(journal')
        /\ Safe(r)' => Safe(r)
        /\ InSeq(journal) \subseteq InSeq(journal')
    BY <1>0, <1>3, Growth, JournalStep DEF ClearJournal
  <2>2. /\ Settled(r) => keymap_bin.reverse[r.id] # None \/ r \in InSeq(journal)
        /\ Safe(r) /\ keymap_bin.reverse[r.id] # None => Holds(index_usearch, keymap_bin, r)
        /\ Settled(r) => Safe(r)
    BY <1>0, <1>3, SettledSafe DEF OnDisk
  <2>3. pc[h] \in {"saved", "graphed"} =>
          /\ Safe(r) /\ keymap_bin.reverse[r.id] # None
               => keymap[h].reverse[r.id] = keymap_bin.reverse[r.id]
          /\ Safe(r) /\ keymap[h].reverse[r.id] # None => Holds(inner[h], keymap[h], r)
    BY <1>0, <1>3 DEF InMemory, InSync, Generations
  <2>4. CASE PublishGraph(h)
    <3>1. pc[h] = "saved" /\ index_usearch' = inner[h] /\ keymap_bin' = keymap_bin
      BY <1>0, <2>4 DEF PublishGraph, Publishes
    <3>2. QED BY <2>1, <2>2, <2>3, <3>1 DEF Holds
  <2>5. CASE PublishKeymap(h)
    <3>1. /\ pc[h] = "graphed" /\ index_usearch' = inner[h]
          /\ keymap_bin'.reverse = keymap[h].reverse
      BY <1>0, <2>5, SMTT(30) DEF PublishKeymap, Publishes, Stamped
    <3>2. QED BY <2>1, <2>2, <2>3, <3>1 DEF Holds
  <2>6. CASE ~PublishGraph(h) /\ ~PublishKeymap(h)
    <3>1. keymap_bin' = keymap_bin /\ index_usearch' = index_usearch
      BY <1>3, <2>6 DEF Act, Call, Step, Open, Replay, OpenDone, Commit, Acquire, Busy,
         CommitLocked, AppendChunk, AppendDone, AppendThenCompact, ReloadIfStale,
         AbsorbJournal, SaveGraph, ClearJournal, IoError, Crash, Add
    <3>2. QED BY <2>1, <2>2, <3>1, SMTT(30)
  <2>7. QED BY <2>4, <2>5, <2>6
<1>4. QED BY <1>1, <1>2, <1>3

-----------------------------------------------------------------------------
(* The handles' memory. *)

\* An insertion puts its record in place and moves no other (insert_entries).
LEMMA InsertHolds ==
    ASSUME NEW g \in Graph, NEW km \in Keymap, NEW s \in Rec, km.next_key \in Key, Consistent(km)
    PROVE  /\ Holds(GraphInsert(g, km, s), KeymapInsert(km, s), s)
           /\ \A r \in Rec : r.id # s.id =>
                /\ KeymapInsert(km, s).reverse[r.id] = km.reverse[r.id]
                /\ Holds(g, km, r) => Holds(GraphInsert(g, km, s), KeymapInsert(km, s), r)
<1>1. s.id \in Item /\ km.next_key \in Nat /\ None \notin Key
  BY NoneAssumption DEF Rec, Keymap
<1>2. /\ km.reverse \in [Item -> Key \cup {None}]
      /\ KeymapInsert(km, s).reverse = [km.reverse EXCEPT ![s.id] = km.next_key]
  BY DEF Keymap, KeymapInsert
<1>3. GraphInsert(g, km, s)[km.next_key] = s
  BY DEF GraphInsert
<1>4. ASSUME NEW r \in Rec, r.id # s.id
      PROVE  /\ KeymapInsert(km, s).reverse[r.id] = km.reverse[r.id]
             /\ Holds(g, km, r) => Holds(GraphInsert(g, km, s), KeymapInsert(km, s), r)
  <2>1. r.id \in Item /\ KeymapInsert(km, s).reverse[r.id] = km.reverse[r.id]
    BY <1>1, <1>2, <1>4 DEF Rec
  <2>2. ASSUME Holds(g, km, r) PROVE Holds(GraphInsert(g, km, s), KeymapInsert(km, s), r)
    <3>1. km.reverse[r.id] \in Key /\ g[km.reverse[r.id]] = r
      BY <2>2 DEF Holds
    <3>2. km.forward[km.reverse[r.id]] = r.id
      BY <2>1, <3>1 DEF Consistent
    <3>3. km.reverse[r.id] # km.next_key
      <4>1. r.id # None
        BY <2>1, NoneAssumption
      <4>2. km.reverse[r.id] < km.next_key
        BY <3>1, <3>2, <4>1 DEF Consistent
      <4>3. QED BY <1>1, <3>1, <4>2, KeyAssumption
    <3>4. km.reverse[r.id] # km.reverse[s.id]
      BY <1>1, <1>4, <2>1, <3>1, <3>2 DEF Consistent
    <3>5. GraphInsert(g, km, s)[km.reverse[r.id]] = r
      BY <3>1, <3>3, <3>4 DEF GraphInsert
    <3>6. QED BY <2>1, <3>1, <3>5 DEF Holds
  <2>3. QED BY <2>1, <2>2
<1>5. QED BY <1>1, <1>2, <1>3, <1>4 DEF Holds

\* The keymap of a directory whose graph file is missing names no safe record.
LEMMA LoadedIsSaved ==
    ASSUME TypeOK, OnDisk, NEW r \in issued, Safe(r), keymap_bin.reverse[r.id] # None
    PROVE  LoadedKeymap = keymap_bin
<1>1. keymap_bin.reverse[r.id] \in Key /\ index_usearch[keymap_bin.reverse[r.id]] = r
  BY DEF OnDisk, Holds
<1>2. r # None
  BY NoneAssumption DEF TypeOK
<1>3. index_usearch # EmptyGraph
  BY <1>1, <1>2 DEF EmptyGraph
<1>4. QED BY <1>3 DEF LoadedKeymap

\* InMemory, for one handle and one record.
Linked(h, r) ==
    /\ InSync(h) /\ Safe(r) /\ keymap_bin.reverse[r.id] # None
         => keymap[h].reverse[r.id] = keymap_bin.reverse[r.id]
    /\ InSync(h) /\ Safe(r) /\ keymap[h].reverse[r.id] # None
         => Holds(inner[h], keymap[h], r)
    /\ r \in Queue(h) =>
         Holds(inner[h], keymap[h], r) \/ (pc[h] = "reinsert" /\ r \in InSeq(todo[h]))

LEMMA InMemoryLinked == InMemory <=> \A h \in Handle, r \in issued : Linked(h, r)
BY DEF InMemory, Linked

\* A record that is new is named by no keymap but the one it went into.
LEMMA NewIsUnnamed ==
    ASSUME TypeOK, Issued, NEW g \in Handle, NEW r \in Rec, r.id \notin Ids(issued)
    PROVE  keymap[g].reverse[r.id] = None
BY DEF Issued, Named, Rec

\* A step of h leaves the other handles as they are, or out of sync.
LEMMA OthersInMemory ==
    ASSUME FreshIds, TypeOK, Durable, NEW h \in Handle, Act(h),
           NEW g \in Handle, g # h, NEW r \in issued'
    PROVE  Linked(g, r)'
<1> USE DEF disk, lock, memory, locals, history
<1>0. Issued /\ Owned /\ Stages /\ OnDisk /\ InMemory /\ Generations /\ issued' \subseteq Rec
  BY NextType DEF Durable, TypeOK, Next, Act
<1>1. /\ pc'[g] = pc[g] /\ inner'[g] = inner[g] /\ keymap'[g] = keymap[g]
      /\ loaded_generation'[g] = loaded_generation[g] /\ todo'[g] = todo[g]
      /\ Queue(g)' = Queue(g)
  BY Frame
<1>2. CASE r \notin issued
  <2>1. keymap_bin' = keymap_bin /\ keymap_bin.reverse[r.id] = None /\ r.id \notin Ids(issued)
    BY <1>0, <1>2, Issuing
  <2>2. keymap[g].reverse[r.id] = None
    BY <1>0, <2>1, NewIsUnnamed
  <2>3. r \notin Queue(g)
    BY <1>0, <1>2 DEF Issued, Owned
  <2>4. QED BY <1>1, <2>1, <2>2, <2>3 DEF Linked
<1>3. CASE r \in issued
  <2>0. Linked(g, r)
    BY <1>0, <1>3, InMemoryLinked
  <2>1. CASE PublishKeymap(h) \/ ClearJournal(h)
    <3>1. keymap_bin'.generation # loaded_generation[g]
      <4>1. CASE PublishKeymap(h)
        <5>1. /\ keymap_bin'.generation = loaded_generation[h] + 1
              /\ loaded_generation[h] = keymap_bin.generation
              /\ loaded_generation[g] <= keymap_bin.generation
          BY <1>0, <4>1 DEF PublishKeymap, Stamped, NextGeneration, Generations
        <5>2. keymap_bin.generation \in Nat /\ loaded_generation[g] \in Nat
          BY DEF TypeOK, Keymap
        <5>3. QED BY <5>1, <5>2
      <4>2. CASE ClearJournal(h)
        <5>1. keymap_bin' = keymap_bin /\ loaded_generation[g] < keymap_bin.generation
          BY <1>0, <4>2 DEF ClearJournal, Generations
        <5>2. keymap_bin.generation \in Nat /\ loaded_generation[g] \in Nat
          BY SMTT(30) DEF TypeOK, Keymap
        <5>3. QED BY <5>1, <5>2
      <4>3. QED BY <2>1, <4>1, <4>2
    <3>2. ~InSync(g)'
      BY <1>1, <3>1, SMTT(30) DEF InSync
    <3>3. QED BY <1>1, <2>0, <3>2 DEF Linked, Holds
  <2>2. CASE ~PublishKeymap(h) /\ ~ClearJournal(h)
    <3>1. keymap_bin' = keymap_bin
      BY <2>2 DEF Act, Call, Step, Open, Replay, OpenDone, Commit, Acquire, Busy,
         CommitLocked, AppendChunk, AppendDone, AppendThenCompact, ReloadIfStale,
         AbsorbJournal, SaveGraph, PublishGraph, IoError, Crash, Add
    <3>2. Safe(r)' => Safe(r)
      BY <1>0, <1>3, <2>2, Growth
    <3>3. InSync(g)' <=> InSync(g)
      BY <1>1, <3>1 DEF InSync
    <3>4. QED BY <1>1, <2>0, <3>1, <3>2, <3>3, SMTT(30) DEF Linked, Holds
  <2>3. QED BY <2>1, <2>2
<1>4. QED BY <1>2, <1>3

\* A record a handle inserts again is not safe, and one it replays is not in
\* the pair on disk.
LEMMA Reinserted ==
    ASSUME TypeOK, Durable, NEW h \in Handle, pc[h] \in {"loading", "reinsert", "absorb"},
           NEW r \in issued, r \in InSeq(todo[h]), r.id \notin skip[h], Safe(r)
    PROVE  keymap_bin.reverse[r.id] = None
<1>1. CASE pc[h] \in {"loading", "absorb"}
  BY <1>1 DEF Durable, Replays
<1>2. CASE pc[h] = "reinsert"
  <2>1. r \in Queue(h) /\ r \notin acked /\ r \in added[h]
    BY <1>2 DEF Durable, Owned
  <2>2. ~batch_end[h]
    BY <2>1 DEF Durable, Owned, Safe
  <2>3. pending[h] = << >> /\ drained[h] = << >>
    BY <1>2, <2>2 DEF Durable, Stages
  <2>4. QED BY <2>1, <2>3, InSeqEmpty DEF Queue
<1>3. QED BY <1>1, <1>2

\* A step that leaves the handle's graph and the pair alone.
LEMMA IdleInMemory ==
    ASSUME InMemory, NEW h \in Handle, NEW r \in issued,
           inner'[h] = inner[h], keymap'[h] = keymap[h], keymap_bin' = keymap_bin,
           loaded_generation'[h] = loaded_generation[h], pc[h] # "closed",
           pc[h] = "reinsert" => todo[h] = << >>,
           Queue(h)' \subseteq Queue(h), Safe(r)' => Safe(r)
    PROVE  Linked(h, r)'
<1>1. Linked(h, r)
  BY InMemoryLinked
<1>2. InSync(h)' => InSync(h)
  BY DEF InSync
<1>3. r \in Queue(h) => Holds(inner[h], keymap[h], r)
  BY <1>1, InSeqEmpty DEF Linked
<1>4. QED BY <1>1, <1>2, <1>3 DEF Linked, Holds

\* A step that inserts s into the handle's graph.
LEMMA InsertInMemory ==
    ASSUME TypeOK, KeymapsConsistent, Durable, NEW h \in Handle, NEW s \in Rec, NEW r \in issued,
           Insert(h, s), r = s \/ r.id # s.id,
           keymap_bin' = keymap_bin, loaded_generation'[h] = loaded_generation[h], pc' = pc,
           Queue(h)' \subseteq Queue(h) \cup {s}, Safe(r)' => Safe(r),
           r = s /\ Safe(r) => keymap_bin.reverse[r.id] = None,
           pc[h] = "reinsert" /\ r \in InSeq(todo[h]) => r = s \/ r \in InSeq(todo'[h])
    PROVE  Linked(h, r)'
<1>0. inner[h] \in Graph /\ keymap[h] \in Keymap /\ r \in Rec /\ Consistent(keymap[h])
  BY DEF TypeOK, KeymapsConsistent
<1>1. /\ keymap[h].next_key \in Key
      /\ inner'[h] = GraphInsert(inner[h], keymap[h], s)
      /\ keymap'[h] = KeymapInsert(keymap[h], s)
  BY DEF Insert, TypeOK
<1>2. /\ Holds(inner'[h], keymap'[h], s)
      /\ r.id # s.id => /\ keymap'[h].reverse[r.id] = keymap[h].reverse[r.id]
                        /\ Holds(inner[h], keymap[h], r) => Holds(inner'[h], keymap'[h], r)
  BY <1>0, <1>1, InsertHolds
<1>3. Linked(h, r)
  BY InMemoryLinked, SMTT(30) DEF Durable
<1>4. InSync(h)' <=> InSync(h)
  BY SMTT(30) DEF InSync
<1>5. CASE r = s
  BY <1>2, <1>5 DEF Linked, Holds
<1>6. CASE r.id # s.id
  BY <1>2, <1>3, <1>4, <1>6 DEF Linked, Holds
<1>7. QED BY <1>5, <1>6

LEMMA OwnInMemory ==
    ASSUME FreshIds, TypeOK, KeymapsConsistent, Durable, NEW h \in Handle, Act(h),
           NEW r \in issued'
    PROVE  Linked(h, r)'
<1> USE DEF disk, lock, memory, locals, history, Goto
<1>0. /\ Issued /\ Owned /\ Stages /\ OnDisk /\ InMemory /\ Generations /\ Publishes
      /\ issued \subseteq Rec
  BY DEF Durable, TypeOK
<1>1. CASE r \notin issued
  <2>1. /\ \E batch \in BOOLEAN : Add(h, r, batch)
        /\ keymap_bin' = keymap_bin /\ keymap_bin.reverse[r.id] = None
    BY <1>0, <1>1, Issuing
  <2>2. r \in Rec /\ Insert(h, r)
    BY <1>1, <2>1, NextType DEF Add, TypeOK, Next, Act
  <2>3. /\ inner'[h] = GraphInsert(inner[h], keymap[h], r)
        /\ keymap'[h] = KeymapInsert(keymap[h], r)
        /\ keymap[h].next_key \in Key /\ keymap[h] \in Keymap /\ inner[h] \in Graph
        /\ Consistent(keymap[h])
    BY <2>2 DEF Insert, TypeOK, KeymapsConsistent
  <2>4. Holds(inner'[h], keymap'[h], r)
    BY <2>2, <2>3, InsertHolds
  <2>5. QED BY <2>1, <2>4 DEF Linked, Holds
<1>2. ASSUME r \in issued, NEW s \in Rec, NEW batch \in BOOLEAN, Add(h, s, batch)
      PROVE  Linked(h, r)'
  <2>1. s.id \notin Ids(issued) /\ Queue(h)' = Queue(h) \cup {s}
    BY <1>0, <1>2, AddStep
  <2>2. r.id # s.id
    BY <1>2, <2>1 DEF Ids
  <2>3. Safe(r)' => Safe(r)
    BY <1>0, <1>2, Growth DEF Add, ClearJournal, MayMutate, FreshIds
  <2>4. /\ Insert(h, s) /\ keymap_bin' = keymap_bin /\ pc' = pc
        /\ loaded_generation'[h] = loaded_generation[h] /\ todo' = todo
    BY <1>2 DEF Add
  <2>5. QED BY <1>2, <2>1, <2>2, <2>3, <2>4, InsertInMemory
<1>3. ASSUME r \in issued, Replay(h) PROVE Linked(h, r)'
  <2> DEFINE s == Head(todo[h])
  <2>1. /\ pc[h] \in {"loading", "reinsert", "absorb"} /\ pc' = pc
        /\ keymap_bin' = keymap_bin /\ loaded_generation' = loaded_generation
        /\ todo[h] # << >> /\ todo'[h] = Tail(todo[h])
        /\ \/ s.id \in skip[h] /\ inner' = inner /\ keymap' = keymap
           \/ s.id \notin skip[h] /\ Insert(h, s)
    BY <1>3 DEF Replay, TypeOK
  <2>2. Queue(h)' = Queue(h)
    BY <1>0, <1>3, QuietStep
  <2>3. Safe(r)' => Safe(r)
    BY <1>0, <1>3, Growth DEF Replay, ClearJournal
  <2>4. InSeq(todo[h]) = {s} \cup InSeq(todo'[h]) /\ InSeq(todo[h]) \subseteq issued
    BY <1>0, <2>1, InSeqHead DEF TypeOK, Issued
  <2>5. s \in issued /\ s \in Rec
    BY <1>0, <2>4
  <2> HIDE DEF s
  <2>6. CASE s.id \notin skip[h]
    <3>1. Insert(h, s)
      BY <2>1, <2>6
    <3>2. r = s \/ r.id # s.id
      BY <1>0, <1>3, <2>5 DEF Issued
    <3>3. r = s /\ Safe(r) => keymap_bin.reverse[r.id] = None
      BY <1>3, <2>1, <2>4, <2>6, Reinserted
    <3>4. r \in InSeq(todo[h]) => r = s \/ r \in InSeq(todo'[h])
      BY <2>4
    <3>5. QED BY <1>3, <2>1, <2>2, <2>3, <2>5, <3>1, <3>2, <3>3, <3>4, InsertInMemory
  <2>7. CASE s.id \in skip[h]
    <3>1. pc[h] # "reinsert"
      BY <1>0, <2>7 DEF Stages
    <3>2. pc[h] # "closed" /\ inner' = inner /\ keymap' = keymap
      BY <2>1, <2>7
    <3>3. QED BY <1>0, <1>3, <2>1, <2>2, <2>3, <3>1, <3>2, IdleInMemory
  <2>8. QED BY <2>6, <2>7
<1>4. ASSUME r \in issued, Open(h) PROVE Linked(h, r)'
  <2>1. /\ inner'[h] = index_usearch /\ keymap'[h] = LoadedKeymap /\ keymap_bin' = keymap_bin
        /\ pending[h] = << >> /\ drained[h] = << >>
    BY <1>0, <1>4 DEF Open, Stages, TypeOK
  <2>2. Queue(h)' = {}
    BY <1>0, <1>4, <2>1, QuietStep, InSeqEmpty DEF Queue
  <2>3. Safe(r)' => Safe(r)
    BY <1>0, <1>4, Growth DEF Open, ClearJournal
  <2>4. Safe(r) /\ keymap_bin.reverse[r.id] # None
          => LoadedKeymap = keymap_bin /\ Holds(index_usearch, keymap_bin, r)
    BY <1>0, <1>4, LoadedIsSaved DEF OnDisk
  <2>5. LoadedKeymap.reverse[r.id] # None => keymap_bin.reverse[r.id] # None
    BY <1>0, <1>4 DEF LoadedKeymap, EmptyKeymap, Rec
  <2>6. QED BY <2>1, <2>2, <2>3, <2>4, <2>5 DEF Linked, Holds
<1>5. ASSUME r \in issued, ReloadIfStale(h) PROVE Linked(h, r)'
  <2>1. Queue(h)' = Queue(h) /\ keymap_bin' = keymap_bin /\ pc[h] = "reload"
    BY <1>0, <1>5, QuietStep DEF ReloadIfStale
  <2>2. Safe(r)' => Safe(r)
    BY <1>0, <1>5, Growth DEF ReloadIfStale, ClearJournal
  <2>3. CASE ~Stale(h)
    <3>1. inner' = inner /\ keymap' = keymap /\ loaded_generation' = loaded_generation
      BY <1>5, <2>3 DEF ReloadIfStale
    <3>2. QED BY <1>0, <1>5, <2>1, <2>2, <3>1, IdleInMemory
  <2>4. CASE Stale(h)
    <3>1. /\ inner'[h] = index_usearch /\ keymap'[h] = keymap_bin /\ todo'[h] = pending[h]
          /\ pc'[h] = "reinsert" /\ drained[h] = << >>
      BY <1>0, <1>5, <2>4, SMTT(30) DEF ReloadIfStale, ReloadedGraph, Queued, Stages, TypeOK
    <3>2. Queue(h) = InSeq(todo'[h])
      BY <3>1, InSeqEmpty DEF Queue
    <3>3. Safe(r) /\ keymap_bin.reverse[r.id] # None => Holds(index_usearch, keymap_bin, r)
      BY <1>0, <1>5 DEF OnDisk
    <3>4. QED BY <2>1, <2>2, <3>1, <3>2, <3>3 DEF Linked, Holds
  <2>5. QED BY <2>3, <2>4
<1>6. ASSUME r \in issued, PublishKeymap(h) PROVE Linked(h, r)'
  <2>1. /\ keymap'[h].reverse = keymap[h].reverse /\ inner' = inner /\ pc[h] = "graphed"
        /\ keymap_bin'.generation = loaded_generation[h] + 1
        /\ loaded_generation' = loaded_generation /\ loaded_generation[h] \in Nat
    BY <1>6 DEF PublishKeymap, Stamped, NextGeneration, TypeOK
  <2>2. Queue(h)' = Queue(h)
    BY <1>0, <1>6, QuietStep
  <2>3. ~InSync(h)'
    BY <2>1 DEF InSync
  <2>4. r \in Queue(h) => Holds(inner[h], keymap[h], r)
    BY <1>0, <1>6, <2>1 DEF InMemory
  <2>5. QED BY <2>1, <2>2, <2>3, <2>4 DEF Linked, Holds
<1>7. ASSUME r \in issued, ClearJournal(h) PROVE Linked(h, r)'
  <2>1. /\ inner' = inner /\ keymap' = keymap /\ keymap_bin' = keymap_bin
        /\ pc[h] = "keyed" /\ Queue(h)' = {}
    BY <1>0, <1>7, QueueStep DEF ClearJournal
  <2>2. keymap_bin.reverse = keymap[h].reverse /\ index_usearch = inner[h]
    BY <1>0, <2>1 DEF Publishes
  <2>3. Safe(r)' => Safe(r) \/ r \in Queue(h)
    BY <1>0, <1>7, Growth
  <2>4. r \in Queue(h) => Holds(inner[h], keymap[h], r)
    BY <1>0, <1>7, <2>1 DEF InMemory
  <2>5. Safe(r) /\ keymap[h].reverse[r.id] # None => Holds(inner[h], keymap[h], r)
    BY <1>0, <1>7, <2>2 DEF OnDisk, Holds
  <2>6. QED BY <2>1, <2>2, <2>3, <2>4, <2>5 DEF Linked, Holds
<1>8. ASSUME r \in issued, Crash(h) PROVE Linked(h, r)'
  <2>1. Queue(h)' = {} /\ pc'[h] = "closed"
    BY <1>0, <1>8, QueueStep DEF Crash, TypeOK
  <2>2. QED BY <2>1, SMTT(30) DEF Linked, InSync
<1>9. ASSUME r \in issued,
             \/ OpenDone(h) \/ Commit(h) \/ Acquire(h) \/ Busy(h) \/ CommitLocked(h)
             \/ AppendChunk(h) \/ AppendDone(h) \/ AppendThenCompact(h) \/ AbsorbJournal(h)
             \/ SaveGraph(h) \/ PublishGraph(h) \/ IoError(h)
      PROVE  Linked(h, r)'
  <2>1. Queue(h)' \subseteq Queue(h)
    <3>1. CASE AppendChunk(h) \/ AppendDone(h) \/ IoError(h)
      BY <1>0, <3>1, QueueStep
    <3>2. CASE ~AppendChunk(h) /\ ~AppendDone(h) /\ ~IoError(h)
      <4>1. Queue(h)' = Queue(h)
        BY <1>0, <1>9, <3>2, QuietStep
      <4>2. QED BY <4>1
    <3>3. QED BY <3>1, <3>2
  <2>2. /\ inner' = inner /\ keymap' = keymap /\ keymap_bin' = keymap_bin
        /\ loaded_generation' = loaded_generation /\ pc[h] # "closed"
        /\ pc[h] = "reinsert" => todo[h] = << >>
    BY <1>9 DEF OpenDone, Commit, Acquire, Busy, CommitLocked, AppendChunk, AppendDone,
                AppendThenCompact, AbsorbJournal, SaveGraph, PublishGraph, IoError
  <2>3. ~ClearJournal(h)
    <3>1. CASE IoError(h)
      BY <3>1 DEF IoError, ClearJournal, Ok, TypeOK
    <3>2. CASE ~IoError(h)
      BY <1>9, <3>2 DEF OpenDone, Commit, Acquire, Busy, CommitLocked, AppendChunk, AppendDone,
                AppendThenCompact, AbsorbJournal, SaveGraph, PublishGraph, ClearJournal
    <3>3. QED BY <3>1, <3>2
  <2>4. Safe(r)' => Safe(r)
    BY <1>0, <1>9, <2>3, Growth
  <2>5. QED BY <1>0, <1>9, <2>1, <2>2, <2>4, IdleInMemory
<1>10. QED
  BY <1>1, <1>2, <1>3, <1>4, <1>5, <1>6, <1>7, <1>8, <1>9 DEF Act, Call, Step

LEMMA NextInMemory ==
    ASSUME FreshIds, TypeOK, KeymapsConsistent, Durable, NEW h \in Handle, Act(h)
    PROVE  InMemory'
<1>1. \A g \in Handle, r \in issued' : Linked(g, r)'
  <2> SUFFICES ASSUME NEW g \in Handle, NEW r \in issued' PROVE Linked(g, r)'
    OBVIOUS
  <2>1. CASE g = h
    BY <2>1, OwnInMemory
  <2>2. CASE g # h
    BY <2>2, OthersInMemory
  <2>3. QED BY <2>1, <2>2
<1>2. QED BY <1>1 DEF InMemory, Linked

-----------------------------------------------------------------------------
(* Replays and compactions in progress. *)

\* While a handle holds a lock, the others leave the directory alone.
LEMMA Exclusion ==
    ASSUME FreshIds, TypeOK, Durable, NEW h \in Handle, Act(h), NEW g \in Handle, g # h,
           pc[g] \in Committing \cup {"loading"}
    PROVE  /\ keymap_bin' = keymap_bin /\ index_usearch' = index_usearch
           /\ InSeq(journal') = InSeq(journal)
           /\ \A r \in issued : Safe(r)' => Safe(r)
<1> USE DEF disk, lock, memory, locals, history
<1>1. pc[h] \notin Committing
  BY NoneAssumption, SMTT(30) DEF Durable, Locks
<1>2. InSeq(journal') = InSeq(journal)
  BY <1>1, JournalStep, SMTT(30) DEF Durable
<1>3. ~ClearJournal(h) /\ ~PublishKeymap(h) /\ ~PublishGraph(h)
  BY <1>1, SMTT(30) DEF ClearJournal, PublishKeymap, PublishGraph
<1>4. keymap_bin' = keymap_bin /\ index_usearch' = index_usearch
  BY <1>3 DEF Act, Call, Step, Open, Replay, OpenDone, Commit, Acquire, Busy,
     CommitLocked, AppendChunk, AppendDone, AppendThenCompact, ReloadIfStale,
     AbsorbJournal, SaveGraph, IoError, Crash, Add
<1>5. \A r \in issued : Safe(r)' => Safe(r)
  BY <1>3, Growth DEF Durable
<1>6. QED BY <1>2, <1>4, <1>5

\* Replays, for one handle and one record.
Replayed(h, r) ==
    /\ pc[h] \in {"loading", "absorb", "saved", "graphed"} /\ r \in InSeq(journal)
         => \/ keymap[h].reverse[r.id] # None
            \/ r \in InSeq(todo[h]) /\ r.id \notin skip[h]
    /\ pc[h] \in {"loading", "absorb"} /\ Safe(r) /\ keymap_bin.reverse[r.id] # None
         => r.id \in skip[h]

LEMMA OthersReplays ==
    ASSUME FreshIds, TypeOK, Durable, NEW h \in Handle, Act(h),
           NEW g \in Handle, g # h, NEW r \in issued
    PROVE  Replayed(g, r)'
<1>1. /\ pc'[g] = pc[g] /\ keymap'[g] = keymap[g] /\ todo'[g] = todo[g] /\ skip'[g] = skip[g]
  BY Frame
<1>2. Replayed(g, r)
  BY DEF Durable, Replays, Replayed
<1>3. CASE pc[g] \in {"loading", "absorb", "saved", "graphed"}
  <2>1. /\ keymap_bin' = keymap_bin /\ InSeq(journal') = InSeq(journal)
        /\ Safe(r)' => Safe(r)
    BY <1>3, Exclusion
  <2>2. QED BY <1>1, <1>2, <2>1 DEF Replayed
<1>4. CASE pc[g] \notin {"loading", "absorb", "saved", "graphed"}
  BY <1>1, <1>4 DEF Replayed
<1>5. QED BY <1>3, <1>4

LEMMA OwnReplays ==
    ASSUME FreshIds, TypeOK, KeymapsConsistent, Durable, NEW h \in Handle, Act(h), NEW r \in issued
    PROVE  Replayed(h, r)'
<1> USE DEF disk, lock, memory, locals, history, Goto
<1>0. /\ Issued /\ Owned /\ Stages /\ OnDisk /\ InMemory /\ Generations
      /\ r \in Rec /\ r.id \in Item /\ Replayed(h, r)
  BY DEF Durable, TypeOK, Rec, Replays, Replayed
<1>1. CASE Open(h)
  <2>1. /\ todo'[h] = journal /\ skip'[h] = Named(LoadedKeymap) /\ keymap'[h] = LoadedKeymap
        /\ journal' = journal /\ keymap_bin' = keymap_bin
    BY <1>1 DEF Open, TypeOK
  <2>2. Safe(r)' => Safe(r)
    BY <1>0, <1>1, Growth DEF Open, ClearJournal
  <2>3. Safe(r) /\ keymap_bin.reverse[r.id] # None => LoadedKeymap = keymap_bin
    BY <1>0, LoadedIsSaved
  <2>4. QED BY <1>0, <2>1, <2>2, <2>3 DEF Replayed, Named
<1>2. CASE Replay(h)
  <2> DEFINE s == Head(todo[h])
  <2>1. /\ pc' = pc /\ skip' = skip /\ keymap_bin' = keymap_bin /\ journal' = journal
        /\ todo[h] # << >> /\ todo'[h] = Tail(todo[h])
        /\ \/ s.id \in skip[h] /\ keymap' = keymap
           \/ s.id \notin skip[h] /\ Insert(h, s)
    BY <1>2 DEF Replay, TypeOK
  <2>2. Safe(r)' => Safe(r)
    BY <1>0, <1>2, Growth DEF Replay, ClearJournal
  <2>3. InSeq(todo[h]) = {s} \cup InSeq(todo'[h]) /\ InSeq(todo[h]) \subseteq issued
    BY <1>0, <2>1, InSeqHead, SMTT(30) DEF TypeOK, Issued
  <2>4. s \in issued /\ s \in Rec
    BY <2>3 DEF TypeOK
  <2> HIDE DEF s
  <2>5. CASE s.id \in skip[h]
    <3>1. keymap' = keymap
      BY <2>1, <2>5
    <3>2. QED BY <1>0, <2>1, <2>2, <2>3, <2>5, <3>1 DEF Replayed
  <2>6. CASE s.id \notin skip[h]
    <3>1. /\ keymap'[h] = KeymapInsert(keymap[h], s) /\ keymap[h].next_key \in Key
          /\ keymap[h] \in Keymap /\ inner[h] \in Graph /\ Consistent(keymap[h])
      BY <2>1, <2>6 DEF Insert, TypeOK, KeymapsConsistent
    <3>2. /\ keymap'[h].reverse[s.id] \in Key
          /\ r.id # s.id => keymap'[h].reverse[r.id] = keymap[h].reverse[r.id]
      BY <1>0, <2>4, <3>1, InsertHolds DEF Holds
    <3>3. r = s \/ r.id # s.id
      BY <1>0, <2>4 DEF Issued
    <3>4. QED BY <1>0, <2>1, <2>2, <2>3, <3>2, <3>3, NoneAssumption DEF Replayed
  <2>7. QED BY <2>5, <2>6
<1>3. CASE AbsorbJournal(h)
  <2>1. /\ todo'[h] = journal /\ skip'[h] = Named(keymap[h]) /\ keymap' = keymap
        /\ journal' = journal /\ keymap_bin' = keymap_bin
        /\ pc[h] \in {"reinsert", "scan"}
    BY <1>0, <1>3 DEF AbsorbJournal, Suppressed, Stages, TypeOK
  <2>2. Safe(r)' => Safe(r)
    BY <1>0, <1>3, Growth DEF AbsorbJournal, ClearJournal
  <2>3. InSync(h)
    BY <1>0, <2>1 DEF InSync, Generations
  <2>4. Safe(r) /\ keymap_bin.reverse[r.id] # None => keymap[h].reverse[r.id] # None
    BY <1>0, <2>3 DEF InMemory
  <2>5. QED BY <1>0, <2>1, <2>2, <2>4 DEF Replayed, Named
<1>4. CASE SaveGraph(h) \/ PublishGraph(h)
  <2>1. /\ pc[h] \in {"absorb", "saved"} /\ pc'[h] \in {"saved", "graphed"} /\ todo[h] = << >>
        /\ keymap' = keymap /\ journal' = journal
    BY <1>0, <1>4 DEF SaveGraph, PublishGraph, Stages, TypeOK
  <2>2. QED BY <1>0, <2>1, InSeqEmpty DEF Replayed
<1>5. CASE ~Open(h) /\ ~Replay(h) /\ ~AbsorbJournal(h) /\ ~SaveGraph(h) /\ ~PublishGraph(h)
  <2>1. pc'[h] \notin {"loading", "absorb", "saved", "graphed"}
    BY <1>5, ZenonT(40) DEF Act, Call, Step, OpenDone, Commit, Acquire, Busy, CommitLocked, AppendChunk,
       AppendDone, AppendThenCompact, ReloadIfStale, PublishKeymap, ClearJournal, IoError,
       Crash, Add, Ok, Return, MayMutate, FreshIds, TypeOK
  <2>2. QED BY <2>1 DEF Replayed
<1>6. QED BY <1>1, <1>2, <1>3, <1>4, <1>5

LEMMA NextReplays ==
    ASSUME FreshIds, TypeOK, KeymapsConsistent, Durable, NEW h \in Handle, Act(h)
    PROVE  Replays'
<1>1. ASSUME NEW g \in Handle, NEW r \in issued' PROVE Replayed(g, r)'
  <2>1. CASE r \notin issued
    <3>1. r \notin InSeq(journal') /\ keymap_bin'.reverse[r.id] = None
      BY <2>1, Issuing DEF Durable
    <3>2. QED BY <3>1 DEF Replayed
  <2>2. CASE r \in issued /\ g = h
    BY <2>2, OwnReplays
  <2>3. CASE r \in issued /\ g # h
    BY <2>3, OthersReplays
  <2>4. QED BY <2>1, <2>2, <2>3
<1>2. QED BY <1>1 DEF Replays, Replayed

LEMMA NextPublishes ==
    ASSUME FreshIds, TypeOK, Durable, NEW h \in Handle, Act(h)
    PROVE  Publishes'
<1> USE DEF disk, lock, memory, locals, history, Goto
<1> DEFINE Shown(g) ==
      /\ pc[g] \in {"saved", "graphed"} => saved[g] = inner[g]
      /\ pc[g] \in {"graphed", "keyed"} => index_usearch = inner[g]
      /\ pc[g] = "keyed" =>
           /\ keymap_bin.reverse = keymap[g].reverse
           /\ \A r \in InSeq(journal) : keymap[g].reverse[r.id] # None
<1>0. Issued /\ Stages /\ \A g \in Handle : Shown(g)
  BY DEF Durable, Publishes
<1>1. ASSUME NEW g \in Handle, g # h PROVE Shown(g)'
  <2>1. /\ pc'[g] = pc[g] /\ keymap'[g] = keymap[g] /\ inner'[g] = inner[g]
        /\ saved'[g] = saved[g]
    BY <1>1, Frame
  <2>2. CASE pc[g] \in {"saved", "graphed", "keyed"}
    <3>1. /\ keymap_bin' = keymap_bin /\ index_usearch' = index_usearch
          /\ InSeq(journal') = InSeq(journal)
      BY <1>1, <2>2, Exclusion
    <3>2. QED BY <1>0, <1>1, <2>1, <3>1
  <2>3. CASE pc[g] \notin {"saved", "graphed", "keyed"}
    BY <2>1, <2>3
  <2>4. QED BY <2>2, <2>3
<1>2. Shown(h)'
  <2>1. CASE SaveGraph(h)
    BY <2>1 DEF SaveGraph, TypeOK
  <2>2. CASE PublishGraph(h)
    BY <1>0, <2>2 DEF PublishGraph, TypeOK
  <2>3. CASE PublishKeymap(h)
    <3>1. /\ pc[h] = "graphed" /\ pc'[h] = "keyed" /\ todo[h] = << >>
          /\ index_usearch' = index_usearch /\ inner' = inner /\ journal' = journal
          /\ keymap_bin'.reverse = keymap[h].reverse /\ keymap'[h].reverse = keymap[h].reverse
      BY <1>0, <2>3 DEF PublishKeymap, Stamped, Stages, TypeOK
    <3>2. \A r \in InSeq(journal) : keymap[h].reverse[r.id] # None
      BY <1>0, <3>1, InSeqEmpty DEF Durable, Replays, Issued
    <3>3. QED BY <1>0, <3>1, <3>2
  <2>4. CASE ~SaveGraph(h) /\ ~PublishGraph(h) /\ ~PublishKeymap(h)
    <3>1. pc'[h] \notin {"saved", "graphed", "keyed"}
      BY <2>4, ZenonT(40) DEF Act, Call, Step, Open, Replay, OpenDone, Commit, Acquire, Busy, CommitLocked,
         AppendChunk, AppendDone, AppendThenCompact, ReloadIfStale, AbsorbJournal,
         ClearJournal, IoError, Crash, Add, Ok, Return, MayMutate, FreshIds, TypeOK
    <3>2. QED BY <3>1, SMTT(30)
  <2>5. QED BY <2>1, <2>2, <2>3, <2>4
<1>3. QED BY <1>1, <1>2 DEF Publishes

-----------------------------------------------------------------------------
(* The theorems. *)

\* A format "1" directory holds its records (LegacyGraph, LegacyKeymap).
LEMMA LegacyHolds ==
    ASSUME NEW f \in Numbering, NEW n \in LegacyKey, NEW r \in Legacy
    PROVE  Holds(LegacyGraph(f), LegacyKeymap(f, n), r)
<1> DEFINE At(k) == CHOOSE s \in Legacy : f[s] = k
           Of(i) == CHOOSE s \in Legacy : s.id = i
<1>1. /\ r.id \in Item /\ f[r] \in Key
      /\ \A s, t \in Legacy : f[s] = f[t] => s = t
      /\ \A s, t \in Legacy : s.id = t.id => s = t
  BY LegacyAssumption DEF Numbering, Rec
<1>2. Of(r.id) = r /\ At(f[r]) = r
  BY <1>1
<1>3. r.id \in Ids(Legacy)
  BY DEF Ids
<1>4. LegacyKeymap(f, n).reverse[r.id] = f[Of(r.id)]
  BY <1>1, <1>3 DEF LegacyKeymap
<1>5. LegacyGraph(f)[f[r]] = At(f[r])
  BY <1>1 DEF LegacyGraph
<1>6. QED BY <1>1, <1>2, <1>4, <1>5 DEF Holds

LEMMA InitDurable == Init => Durable
<1> SUFFICES ASSUME Init PROVE Durable
  OBVIOUS
<1>1. \A h \in Handle :
        /\ pc[h] = "closed" /\ added[h] = {} /\ covers[h] = {} /\ loaded_generation[h] = 0
        /\ pending[h] = << >> /\ drained[h] = << >> /\ todo[h] = << >> /\ skip[h] = {}
        /\ tombstones[h] = {} /\ batch_end[h] = FALSE /\ keymap[h] = EmptyKeymap
  BY DEF Init
<1>2. /\ journal = << >> /\ writer = None /\ readers = {} /\ issued = Legacy /\ acked = Legacy
  BY DEF Init
<1>3. InSeq(<< >>) = {} /\ \A h \in Handle : Queue(h) = {}
  BY <1>1, InSeqEmpty DEF Queue
<1>4. Named(EmptyKeymap) = {}
  BY DEF Named, EmptyKeymap
<1>5. keymap_bin.generation = 0 /\ Named(keymap_bin) \subseteq Ids(Legacy)
  <2>1. CASE keymap_bin = EmptyKeymap
    BY <1>4, <2>1 DEF EmptyKeymap
  <2>2. ASSUME NEW f \in Numbering, NEW n \in LegacyKey, keymap_bin = LegacyKeymap(f, n)
        PROVE  keymap_bin.generation = 0 /\ Named(keymap_bin) \subseteq Ids(Legacy)
    BY <2>2 DEF LegacyKeymap, Named
  <2>3. QED BY <2>1, <2>2 DEF Init, InitDirectory
<1>6. \A r \in Legacy : Holds(index_usearch, keymap_bin, r)
  BY LegacyHolds DEF Init, InitDirectory
<1>7. Locks
  BY <1>1, <1>2 DEF Locks
<1>8. Issued
  BY <1>1, <1>2, <1>3, <1>4, <1>5, LegacyAssumption DEF Issued
<1>9. Owned
  BY <1>1, <1>3 DEF Owned
<1>10. Stages
  <2>1. \A h \in Handle : pc[h] \notin Committing \cup {"acquire"}
    BY <1>1
  <2>2. QED BY <1>1, <2>1, ZenonT(40) DEF Stages
<1>11. Generations
  BY <1>1, <1>5 DEF Generations
<1>12. OnDisk
  BY <1>2, <1>6, NoneAssumption DEF OnDisk, Holds
<1>13. InMemory
  BY <1>1, <1>3 DEF InMemory, InSync
<1>14. Replays /\ Publishes
  BY <1>1 DEF Replays, Publishes
<1>15. QED
  BY <1>7, <1>8, <1>9, <1>10, <1>11, <1>12, <1>13, <1>14 DEF Durable

LEMMA NextDurable ==
    ASSUME FreshIds, TypeOK, KeymapsConsistent, Durable, [Next]_vars
    PROVE  Durable'
<1>1. CASE UNCHANGED vars
  <2> USE DEF vars, disk, lock, memory, locals, history
  <2>1. \A r : (Settled(r)' <=> Settled(r)) /\ (Safe(r)' <=> Safe(r))
    BY <1>1 DEF Settled, Safe, Queue
  <2>2. \A h \in Handle : Queue(h)' = Queue(h) /\ (InSync(h)' <=> InSync(h))
    BY <1>1 DEF Queue, InSync
  <2>3. Locks' /\ Issued' /\ Owned' /\ Stages' /\ Generations'
    BY <1>1, <2>2 DEF Durable, Locks, Issued, Owned, Stages, Generations
  <2>4. OnDisk' /\ Replays' /\ Publishes'
    BY <1>1, <2>1 DEF Durable, OnDisk, Replays, Publishes
  <2>5. InMemory'
    BY <1>1, <2>1, <2>2 DEF Durable, InMemory
  <2>6. QED BY <2>3, <2>4, <2>5 DEF Durable
<1>2. ASSUME NEW h \in Handle, Act(h) PROVE Durable'
  <2>1. Locks /\ Issued /\ Owned /\ Stages /\ Generations
    BY DEF Durable
  <2>2. [Next]_vars
    OBVIOUS
  <2>3. Locks' /\ Stages' /\ Generations'
    BY <2>1, NextLocks, NextStages, NextGenerations
  <2>4. Issued' /\ Owned'
    BY <1>2, <2>1, NextIssued, NextOwned
  <2>5. OnDisk' /\ InMemory' /\ Replays' /\ Publishes'
    BY <1>2, NextOnDisk, NextInMemory, NextReplays, NextPublishes
  <2>6. QED BY <2>3, <2>4, <2>5 DEF Durable
<1>3. QED BY <1>1, <1>2 DEF Next, Act

\* The inductive invariant holds in every behaviour (commit_locked,
\* compact_locked, publish_compaction, reload_if_stale, absorb_journal, open).
THEOREM DurableInvariant == ASSUME FreshIds PROVE Spec => []Durable
<1>1. Init => Durable
  BY InitDurable
<1>2. TypeOK /\ KeymapsConsistent /\ Durable /\ [Next]_vars => Durable'
  BY NextDurable
<1>3. QED BY <1>1, <1>2, TypeCorrect, KeymapBijective, PTL DEF Spec

\* What the directory has of a settled record, the next open finds.
LEMMA SettledRecoverable ==
    ASSUME TypeOK, Durable, NEW r \in issued, Settled(r)
    PROVE  Recoverable(r)
<1>1. Safe(r) /\ r.id \in Item
  BY SettledSafe DEF TypeOK, Rec
<1>2. CASE keymap_bin.reverse[r.id] # None
  <2>1. LoadedKeymap = keymap_bin /\ Holds(index_usearch, keymap_bin, r)
    BY <1>1, <1>2, LoadedIsSaved DEF Durable, OnDisk
  <2>2. QED BY <2>1 DEF Recoverable, Holds
<1>3. CASE keymap_bin.reverse[r.id] = None
  <2>1. r \in InSeq(journal) /\ LoadedKeymap.reverse[r.id] = None
    BY <1>1, <1>3 DEF Durable, OnDisk, LoadedKeymap, EmptyKeymap
  <2>2. \A m \in DOMAIN journal : journal[m] \in issued
    BY DEF Durable, Issued, InSeq
  <2>3. \A m \in DOMAIN journal : journal[m].id = r.id => journal[m] = r
    BY <2>2 DEF Durable, Issued
  <2>4. QED BY <2>1, <2>3 DEF Recoverable, InSeq
<1>4. QED BY <1>2, <1>3

LEMMA DurableRecoverable ==
    ASSUME TypeOK, Durable
    PROVE  AckedRecoverable
<1>1. \A r \in acked : r \in issued /\ Settled(r)
  BY DEF Durable, Issued, Settled
<1>2. QED BY <1>1, SettledRecoverable DEF AckedRecoverable

\* Whatever a commit that returned Ok covered can be recovered from the
\* directory, after any crash, failed call or compaction by any handle
\* (commit_locked, compact_locked, publish_compaction, load).
THEOREM AckedSurvives == ASSUME FreshIds PROVE Spec => []AckedRecoverable
<1>1. TypeOK /\ Durable => AckedRecoverable
  BY DurableRecoverable
<1>2. QED BY <1>1, TypeCorrect, DurableInvariant, PTL

\* An open that returns has replayed what its graph and keymap lacked.
LEMMA OpenSees ==
    ASSUME TypeOK, KeymapsConsistent, Durable, [Next]_vars, NEW h \in Handle,
           pc[h] = "loading", pc'[h] = "idle", NEW r \in acked
    PROVE  Sees(h, r)'
<1> USE DEF disk, lock, memory, locals, history, Goto
<1>1. r \in issued /\ Settled(r) /\ Safe(r) /\ r.id \in Item
  BY DEF Durable, Issued, Settled, Safe, TypeOK, Rec
<1>2. PICK g \in Handle : Act(g)
  BY SMTT(30) DEF Next, Act, vars
<1>3. g = h
  BY <1>2, Frame, SMTT(30)
<1>4. OpenDone(h)
  BY <1>2, <1>3 DEF Act, Call, Step, Open, Replay, Commit, Acquire, Busy, CommitLocked,
     AppendChunk, AppendDone, AppendThenCompact, ReloadIfStale, AbsorbJournal, SaveGraph,
     PublishGraph, PublishKeymap, ClearJournal, IoError, Crash, Add, MayMutate, TypeOK
<1>5. todo[h] = << >> /\ inner' = inner /\ keymap' = keymap
  BY <1>4 DEF OpenDone
<1>6. InSync(h)
  BY DEF InSync, Durable, Generations
<1>7. keymap[h].reverse[r.id] # None
  <2>1. CASE keymap_bin.reverse[r.id] # None
    BY <1>1, <1>6, <2>1 DEF Durable, InMemory
  <2>2. CASE r \in InSeq(journal)
    BY <1>1, <1>5, <2>2, InSeqEmpty DEF Durable, Replays
  <2>3. QED BY <1>1, <2>1, <2>2 DEF Durable, OnDisk
<1>8. Holds(inner[h], keymap[h], r)
  BY <1>1, <1>6, <1>7 DEF Durable, InMemory
<1>9. keymap[h].forward[keymap[h].reverse[r.id]] = r.id
  BY <1>1, <1>8 DEF Holds, KeymapsConsistent, Consistent
<1>10. QED BY <1>5, <1>8, <1>9 DEF Sees, Holds

\* An open that returns sees everything acknowledged before it: the graph it
\* loads is sound, and the replay adds what it lacks (load, absorb_journal).
THEOREM OpenComplete == ASSUME FreshIds PROVE Spec => OpenSeesAcked
<1>1. ASSUME TypeOK, KeymapsConsistent, Durable, [Next]_vars, NEW h \in Handle,
             pc[h] = "loading", pc'[h] = "idle", NEW r \in acked
      PROVE  Sees(h, r)'
  BY <1>1, OpenSees
<1>2. TypeOK /\ KeymapsConsistent /\ Durable /\ [Next]_vars
        => [\A h \in Handle : pc[h] = "loading" /\ pc'[h] = "idle"
              => \A r \in acked : Sees(h, r)']_vars
  BY <1>1
<1>3. QED
  BY <1>2, TypeCorrect, KeymapBijective, DurableInvariant, PTL DEF Spec, OpenSeesAcked

-----------------------------------------------------------------------------
(* NoLostUpdate. *)

\* An insertion forgets no name, and the graph it makes is not empty.
LEMMA InsertGrows ==
    ASSUME NEW g, NEW km \in Keymap, NEW s \in Rec, km.next_key \in Key
    PROVE  /\ Named(km) \subseteq Named(KeymapInsert(km, s))
           /\ KeymapInsert(km, s).next_key >= km.next_key
           /\ GraphInsert(g, km, s) # EmptyGraph
<1>1. s # None /\ km.next_key # None /\ km.next_key \in Nat
  BY NoneAssumption DEF Keymap
<1>2. GraphInsert(g, km, s)[km.next_key] = s /\ EmptyGraph[km.next_key] = None
  BY DEF GraphInsert, EmptyGraph
<1>3. KeymapInsert(km, s).reverse = [km.reverse EXCEPT ![s.id] = km.next_key]
  BY DEF KeymapInsert
<1>4. Named(km) \subseteq Named(KeymapInsert(km, s))
  BY <1>1, <1>3 DEF Named, Keymap
<1>5. KeymapInsert(km, s).next_key = km.next_key + 1
  BY DEF KeymapInsert
<1>6. QED BY <1>1, <1>2, <1>4, <1>5

\* Descends, for one handle.
Extends(h) ==
    /\ Named(keymap[h]) # {} => inner[h] # EmptyGraph
    /\ InSync(h) => /\ keymap[h].next_key >= keymap_bin.next_key
                    /\ Named(keymap_bin) \subseteq Named(keymap[h])
    /\ pc[h] = "keyed" => keymap[h] = keymap_bin

LEMMA InsertExtends ==
    ASSUME TypeOK, Descends, NEW h \in Handle, NEW s \in Rec, Insert(h, s), pc' = pc,
           keymap_bin' = keymap_bin, loaded_generation' = loaded_generation, pc[h] # "keyed"
    PROVE  Extends(h)'
<1>1. /\ keymap[h].next_key \in Key /\ keymap[h] \in Keymap /\ keymap_bin \in Keymap
      /\ inner'[h] = GraphInsert(inner[h], keymap[h], s)
      /\ keymap'[h] = KeymapInsert(keymap[h], s)
  BY DEF Insert, TypeOK
<1>2. /\ Named(keymap[h]) \subseteq Named(keymap'[h]) /\ inner'[h] # EmptyGraph
      /\ keymap'[h].next_key >= keymap[h].next_key
  BY <1>1, InsertGrows
<1>3. InSync(h)' => InSync(h)
  BY DEF InSync
<1>4. /\ keymap'[h].next_key \in Nat /\ keymap[h].next_key \in Nat /\ keymap_bin.next_key \in Nat
  BY <1>1 DEF KeymapInsert, Keymap
<1>5. InSync(h) => /\ keymap[h].next_key >= keymap_bin.next_key
                   /\ Named(keymap_bin) \subseteq Named(keymap[h])
  BY DEF Descends
<1>6. QED BY <1>2, <1>3, <1>4, <1>5 DEF Extends, Named

LEMMA OwnExtends ==
    ASSUME FreshIds, TypeOK, Durable, Descends, NEW h \in Handle, Act(h)
    PROVE  /\ Named(keymap_bin') # {} => index_usearch' # EmptyGraph
           /\ Extends(h)'
<1> USE DEF disk, lock, memory, locals, history, Goto
<1> DEFINE Sound(km, g) == Named(km) # {} => g # EmptyGraph
<1>0. /\ Sound(keymap_bin, index_usearch) /\ Sound(keymap[h], inner[h]) /\ Extends(h)
      /\ keymap_bin \in Keymap /\ keymap_bin.next_key \in Nat /\ Named(EmptyKeymap) = {}
      /\ Stages /\ Publishes /\ Generations
  BY DEF Descends, Extends, TypeOK, Keymap, Named, EmptyKeymap, Durable
<1>1. CASE Open(h)
  <2>1. /\ inner'[h] = index_usearch /\ keymap'[h] = LoadedKeymap /\ keymap_bin' = keymap_bin
        /\ index_usearch' = index_usearch /\ pc'[h] = "loading"
    BY <1>1 DEF Open, TypeOK
  <2>2. /\ LoadedKeymap.next_key = keymap_bin.next_key
        /\ Named(LoadedKeymap) = Named(keymap_bin)
    BY <1>0 DEF LoadedKeymap, EmptyKeymap, Named
  <2>3. QED BY <1>0, <2>1, <2>2 DEF Extends, Named
<1>2. CASE Replay(h)
  <2>1. /\ pc' = pc /\ keymap_bin' = keymap_bin /\ loaded_generation' = loaded_generation
        /\ index_usearch' = index_usearch /\ pc[h] # "keyed" /\ Head(todo[h]) \in Rec
        /\ (inner' = inner /\ keymap' = keymap) \/ Insert(h, Head(todo[h]))
    BY <1>2, HeadTailProperties, SMTT(30) DEF Replay, TypeOK
  <2>2. CASE inner' = inner /\ keymap' = keymap
    BY <1>0, <2>1, <2>2 DEF Extends, InSync
  <2>3. CASE Insert(h, Head(todo[h]))
    BY <1>0, <2>1, <2>3, InsertExtends
  <2>4. QED BY <2>1, <2>2, <2>3
<1>3. ASSUME NEW r \in Rec, NEW batch \in BOOLEAN, Add(h, r, batch)
      PROVE  Sound(keymap_bin', index_usearch') /\ Extends(h)'
  BY <1>0, <1>3, InsertExtends DEF Add, MayMutate, FreshIds
<1>4. CASE ReloadIfStale(h)
  <2>1. keymap_bin' = keymap_bin /\ index_usearch' = index_usearch /\ pc[h] = "reload" /\ pc'[h] # "keyed"
    BY <1>4 DEF ReloadIfStale, TypeOK
  <2>2. \/ inner' = inner /\ keymap' = keymap /\ loaded_generation' = loaded_generation
        \/ inner'[h] = index_usearch /\ keymap'[h] = keymap_bin
    BY <1>4 DEF ReloadIfStale, ReloadedGraph, TypeOK
  <2>3. QED BY <1>0, <2>1, <2>2 DEF Extends, InSync, Named
<1>5. CASE PublishGraph(h)
  <2>1. /\ index_usearch' = inner[h] /\ keymap_bin' = keymap_bin /\ pc[h] = "saved"
        /\ inner' = inner /\ keymap' = keymap /\ loaded_generation' = loaded_generation
        /\ pc'[h] = "graphed"
    BY <1>0, <1>5 DEF PublishGraph, Publishes, TypeOK
  <2>2. InSync(h)
    BY <1>0, <2>1 DEF InSync, Generations
  <2>3. QED BY <1>0, <2>1, <2>2 DEF Extends, InSync
<1>6. CASE PublishKeymap(h)
  <2>1. /\ index_usearch' = index_usearch /\ index_usearch = inner[h] /\ inner' = inner
        /\ keymap'[h] = Stamped(h) /\ keymap_bin' = Stamped(h)
    BY <1>0, <1>6 DEF PublishKeymap, Publishes, TypeOK
  <2>2. Named(Stamped(h)) = Named(keymap[h]) /\ Stamped(h).next_key \in Nat
    BY DEF Stamped, Named, TypeOK, Keymap
  <2>3. QED BY <1>0, <2>1, <2>2 DEF Extends, Named
<1>7. CASE ClearJournal(h)
  <2>1. /\ keymap_bin' = keymap_bin /\ index_usearch' = index_usearch /\ inner' = inner
        /\ keymap' = keymap /\ keymap[h] = keymap_bin
    BY <1>0, <1>7 DEF ClearJournal, Extends
  <2>2. QED BY <1>0, <2>1 DEF Extends
<1>8. CASE Crash(h)
  <2>1. /\ keymap_bin' = keymap_bin /\ index_usearch' = index_usearch
        /\ keymap'[h] = EmptyKeymap /\ pc'[h] = "closed"
    BY <1>8 DEF Crash, TypeOK
  <2>2. QED BY <1>0, <2>1 DEF Extends, InSync, Named
<1>9. CASE \/ OpenDone(h) \/ Commit(h) \/ Acquire(h) \/ Busy(h) \/ CommitLocked(h)
           \/ AppendChunk(h) \/ AppendDone(h) \/ AppendThenCompact(h) \/ AbsorbJournal(h)
           \/ SaveGraph(h) \/ IoError(h)
  <2>1. /\ keymap_bin' = keymap_bin /\ index_usearch' = index_usearch /\ inner' = inner
        /\ keymap' = keymap /\ loaded_generation' = loaded_generation
        /\ pc[h] # "closed" /\ pc'[h] # "keyed"
    BY <1>9, ZenonT(40) DEF OpenDone, Commit, Acquire, Busy, CommitLocked, AppendChunk, AppendDone,
                AppendThenCompact, AbsorbJournal, SaveGraph, IoError, Ok, Return, TypeOK
  <2>2. QED BY <1>0, <2>1 DEF Extends, InSync
<1>10. QED
  BY <1>1, <1>2, <1>3, <1>4, <1>5, <1>6, <1>7, <1>8, <1>9 DEF Act, Call, Step

LEMMA OthersExtend ==
    ASSUME FreshIds, TypeOK, Durable, Descends, NEW h \in Handle, Act(h),
           NEW g \in Handle, g # h
    PROVE  Extends(g)'
<1> USE DEF disk, lock, memory, locals, history
<1>1. /\ pc'[g] = pc[g] /\ keymap'[g] = keymap[g] /\ inner'[g] = inner[g]
      /\ loaded_generation'[g] = loaded_generation[g]
  BY Frame
<1>2. Extends(g)
  BY SMTT(30) DEF Descends, Extends
<1>3. CASE ~PublishKeymap(h)
  <2>1. keymap_bin' = keymap_bin
    BY <1>3 DEF Act, Call, Step, Open, Replay, OpenDone, Commit, Acquire, Busy,
       CommitLocked, AppendChunk, AppendDone, AppendThenCompact, ReloadIfStale,
       AbsorbJournal, SaveGraph, PublishGraph, ClearJournal, IoError, Crash, Add
  <2>2. QED BY <1>1, <1>2, <2>1, SMTT(30) DEF Extends, InSync
<1>4. CASE PublishKeymap(h)
  <2>1. pc[g] # "keyed"
    BY <1>4 DEF PublishKeymap, Durable, Locks
  <2>2. /\ keymap_bin'.generation = keymap_bin.generation + 1
        /\ loaded_generation[g] <= keymap_bin.generation
    BY <1>4 DEF PublishKeymap, Stamped, NextGeneration, Durable, Generations
  <2>3. keymap_bin.generation \in Nat /\ loaded_generation[g] \in Nat
    BY DEF TypeOK, Keymap
  <2>4. ~InSync(g)'
    BY <1>1, <2>2, <2>3 DEF InSync
  <2>5. QED BY <1>1, <1>2, <2>1, <2>4 DEF Extends
<1>5. QED BY <1>3, <1>4

LEMMA InitDescends == Init => Descends
<1> SUFFICES ASSUME Init PROVE Descends
  OBVIOUS
<1>1. \A h \in Handle : pc[h] = "closed" /\ keymap[h] = EmptyKeymap
  BY DEF Init
<1>2. Named(EmptyKeymap) = {}
  BY DEF Named, EmptyKeymap
<1>3. Named(keymap_bin) # {} => index_usearch # EmptyGraph
  <2>1. ASSUME NEW f \in Numbering, NEW n \in LegacyKey, NEW r \in Legacy
        PROVE  LegacyGraph(f) # EmptyGraph
    <3>1. Holds(LegacyGraph(f), LegacyKeymap(f, n), r) /\ r # None
      BY <2>1, LegacyHolds, LegacyAssumption, NoneAssumption
    <3>2. QED BY <3>1 DEF Holds, EmptyGraph
  <2>2. QED BY <1>2, <2>1 DEF Init, InitDirectory
<1>4. QED BY <1>1, <1>2, <1>3 DEF Descends, InSync

LEMMA NextDescends ==
    ASSUME FreshIds, TypeOK, Durable, Descends, [Next]_vars
    PROVE  Descends'
<1>1. CASE UNCHANGED vars
  BY <1>1 DEF Descends, InSync, vars, disk, memory
<1>2. ASSUME NEW h \in Handle, Act(h) PROVE Descends'
  <2>1. /\ Named(keymap_bin') # {} => index_usearch' # EmptyGraph
        /\ Extends(h)'
    BY <1>2, OwnExtends
  <2>2. \A g \in Handle : g # h => Extends(g)'
    BY <1>2, OthersExtend
  <2>3. \A g \in Handle : Extends(g)'
    BY <2>1, <2>2, SMTT(30)
  <2>4. QED BY <2>1, <2>3 DEF Descends, Extends, Named
<1>3. QED BY <1>1, <1>2 DEF Next, Act

\* Only the holder of the lock, in sync, replaces keymap.bin, and what it
\* publishes extends what it read.
LEMMA PublishExtends ==
    ASSUME FreshIds, TypeOK, Durable, Descends, [Next]_vars, keymap_bin' # keymap_bin
    PROVE  /\ keymap_bin'.generation = keymap_bin.generation + 1
           /\ keymap_bin'.next_key >= keymap_bin.next_key
           /\ Named(keymap_bin) \subseteq Named(keymap_bin')
<1> USE DEF disk, lock, memory, locals, history
<1>1. PICK h \in Handle : Act(h)
  BY SMTT(30) DEF Next, Act, vars
<1>2. PublishKeymap(h)
  BY <1>1 DEF Act, Call, Step, Open, Replay, OpenDone, Commit, Acquire, Busy,
     CommitLocked, AppendChunk, AppendDone, AppendThenCompact, ReloadIfStale,
     AbsorbJournal, SaveGraph, PublishGraph, ClearJournal, IoError, Crash, Add
<1>3. /\ keymap_bin' = Stamped(h) /\ pc[h] = "graphed"
      /\ loaded_generation[h] = keymap_bin.generation
  BY <1>2 DEF PublishKeymap, Durable, Generations
<1>4. InSync(h)
  BY <1>3 DEF InSync
<1>5. QED BY <1>3, <1>4, SMTT(30) DEF Descends, Stamped, NextGeneration, Named

\* No compaction drops another handle's ids or re-issues its keys
\* (reload_if_stale, publish_compaction).
THEOREM NothingLost == ASSUME FreshIds PROVE Spec => NoLostUpdate
<1>1. Init => Descends
  BY InitDescends
<1>2. TypeOK /\ Durable /\ Descends /\ [Next]_vars => Descends'
  BY NextDescends
<1>3. TypeOK /\ Durable /\ Descends /\ [Next]_vars
        => [keymap_bin' # keymap_bin =>
              /\ keymap_bin'.generation = keymap_bin.generation + 1
              /\ keymap_bin'.next_key >= keymap_bin.next_key
              /\ Named(keymap_bin) \subseteq Named(keymap_bin')]_vars
  BY PublishExtends
<1>4. QED
  BY <1>1, <1>2, <1>3, TypeCorrect, DurableInvariant, PTL DEF Spec, NoLostUpdate

-----------------------------------------------------------------------------
(* OwnAddsSearchable. *)

LEMMA OthersFind ==
    ASSUME FreshIds, TypeOK, Durable, NEW h \in Handle, Act(h),
           NEW g \in Handle, g # h, NEW r \in added'[g], \A s \in added[g] : Finds(g, s)
    PROVE  Finds(g, r)'
<1>1. /\ pc'[g] = pc[g] /\ inner'[g] = inner[g] /\ keymap'[g] = keymap[g]
      /\ todo'[g] = todo[g] /\ skip'[g] = skip[g] /\ added'[g] = added[g]
  BY Frame
<1>2. Finds(g, r)
  BY <1>1
<1>3. pc[g] \in {"reinsert", "scan"} => InSeq(journal') = InSeq(journal)
  BY Exclusion
<1>4. QED BY <1>1, <1>2, <1>3 DEF Finds, Holds

LEMMA OwnFinds ==
    ASSUME FreshIds, TypeOK, KeymapsConsistent, Durable, NEW h \in Handle, Act(h), ~IoError(h),
           NEW r \in added'[h], \A s \in added[h] : Finds(h, s),
           pc[h] = "closed" => added[h] = {}
    PROVE  Finds(h, r)'
<1> USE DEF disk, lock, memory, locals, history, Goto
<1>0. /\ Issued /\ Owned /\ Stages /\ OnDisk /\ InMemory /\ Generations
      /\ added[h] \subseteq issued /\ issued \subseteq Rec
      /\ inner[h] \in Graph /\ keymap[h] \in Keymap /\ Consistent(keymap[h])
  BY DEF Durable, Issued, TypeOK, KeymapsConsistent
<1>1. ASSUME NEW s \in Rec, NEW batch \in BOOLEAN, Add(h, s, batch) PROVE Finds(h, r)'
  <2>1. s.id \notin Ids(issued) /\ added'[h] = added[h] \cup {s}
    BY <1>0, <1>1, AddStep, SMTT(30) DEF TypeOK
  <2>2. /\ inner'[h] = GraphInsert(inner[h], keymap[h], s)
        /\ keymap'[h] = KeymapInsert(keymap[h], s) /\ keymap[h].next_key \in Key
        /\ pc[h] = "idle"
    BY <1>1 DEF Add, Insert, MayMutate, FreshIds, TypeOK
  <2>3. CASE r = s
    BY <1>0, <2>2, <2>3, InsertHolds DEF Finds, Holds
  <2>4. CASE r \in added[h]
    <3>1. r.id # s.id /\ r \in Rec /\ Holds(inner[h], keymap[h], r)
      BY <1>0, <2>1, <2>2, <2>4 DEF Ids, Finds
    <3>2. QED BY <1>0, <2>2, <3>1, InsertHolds DEF Finds, Holds
  <2>5. QED BY <2>1, <2>3, <2>4
<1>2. CASE Replay(h)
  <2> DEFINE s == Head(todo[h])
  <2>1. /\ pc' = pc /\ skip' = skip /\ journal' = journal /\ added' = added
        /\ pc[h] \in {"loading", "reinsert", "absorb"}
        /\ todo[h] # << >> /\ todo'[h] = Tail(todo[h])
        /\ \/ s.id \in skip[h] /\ keymap' = keymap /\ inner' = inner
           \/ s.id \notin skip[h] /\ Insert(h, s)
    BY <1>2 DEF Replay, TypeOK
  <2>2. InSeq(todo[h]) = {s} \cup InSeq(todo'[h]) /\ s \in issued /\ s \in Rec
    BY <1>0, <2>1, InSeqHead, SMTT(30) DEF TypeOK, Issued
  <2>3. Finds(h, r) /\ r \in issued /\ r \in Rec /\ (r = s \/ r.id # s.id)
    BY <1>0, <2>1, <2>2 DEF Issued
  <2>4. skip[h] = {} \/ pc[h] # "reinsert"
    BY <1>0 DEF Stages
  <2> HIDE DEF s
  <2>5. CASE s.id \in skip[h]
    <3>1. keymap' = keymap /\ inner' = inner
      BY <2>1, <2>5
    <3>2. QED BY <2>1, <2>2, <2>3, <2>4, <2>5, <3>1 DEF Finds, Holds
  <2>6. CASE s.id \notin skip[h]
    <3>1. /\ inner'[h] = GraphInsert(inner[h], keymap[h], s)
          /\ keymap'[h] = KeymapInsert(keymap[h], s) /\ keymap[h].next_key \in Key
      BY <2>1, <2>6 DEF Insert, TypeOK
    <3>2. /\ Holds(inner'[h], keymap'[h], s)
          /\ r.id # s.id /\ Holds(inner[h], keymap[h], r) => Holds(inner'[h], keymap'[h], r)
      BY <1>0, <2>2, <2>3, <3>1, InsertHolds
    <3>3. QED BY <2>1, <2>2, <2>3, <3>2 DEF Finds, Holds
  <2>7. QED BY <2>5, <2>6
<1>3. CASE ReloadIfStale(h)
  <2>1. /\ added' = added /\ journal' = journal /\ pc[h] = "reload" /\ Finds(h, r)
        /\ r \in issued
    BY <1>0, <1>3 DEF ReloadIfStale
  <2>2. Holds(inner[h], keymap[h], r)
    BY <2>1 DEF Finds
  <2>3. CASE ~Stale(h)
    BY <1>3, <2>2, <2>3 DEF ReloadIfStale, Finds, Holds
  <2>4. CASE Stale(h)
    <3>1. /\ inner'[h] = index_usearch /\ keymap'[h] = keymap_bin /\ todo'[h] = pending[h]
          /\ pc'[h] = "reinsert" /\ drained[h] = << >>
      BY <1>0, <1>3, <2>4 DEF ReloadIfStale, ReloadedGraph, Queued, Stages, TypeOK
    <3>2. CASE r \in Queue(h)
      BY <3>1, <3>2, InSeqEmpty DEF Queue, Finds
    <3>3. CASE r \notin Queue(h)
      <4>1. Settled(r) /\ Safe(r)
        BY <2>1, <3>3 DEF Settled, Safe
      <4>2. Holds(index_usearch, keymap_bin, r) \/ r \in InSeq(journal)
        BY <1>0, <2>1, <4>1 DEF OnDisk
      <4>3. QED BY <2>1, <3>1, <4>2 DEF Finds, Holds
    <3>4. QED BY <3>2, <3>3
  <2>5. QED BY <2>3, <2>4
<1>4. CASE AbsorbJournal(h)
  <2>1. /\ todo'[h] = journal /\ skip'[h] = Named(keymap[h]) /\ keymap' = keymap
        /\ inner' = inner /\ added' = added /\ pc'[h] = "absorb"
        /\ pc[h] \in {"reinsert", "scan"} /\ todo[h] = << >>
    BY <1>0, <1>4 DEF AbsorbJournal, Suppressed, Stages, TypeOK
  <2>2. Finds(h, r) /\ r \in issued /\ r \in Rec
    BY <1>0, <2>1
  <2>3. CASE r.id \notin Named(keymap[h])
    BY <2>1, <2>2, <2>3, InSeqEmpty DEF Finds, Holds
  <2>4. CASE r.id \in Named(keymap[h])
    <3>1. InSync(h)
      BY <1>0, <2>1 DEF InSync, Generations
    <3>2. Holds(inner[h], keymap[h], r)
      <4>1. CASE r \in Queue(h)
        BY <1>0, <2>1, <2>2, <4>1, InSeqEmpty DEF InMemory
      <4>2. CASE r \notin Queue(h)
        <5>1. Safe(r)
          BY <2>1, <4>2 DEF Safe
        <5>2. QED BY <1>0, <2>2, <2>4, <3>1, <5>1 DEF InMemory, Named
      <4>3. QED BY <4>1, <4>2
    <3>3. QED BY <2>1, <3>2 DEF Finds, Holds
  <2>5. QED BY <2>3, <2>4
<1>5. CASE Crash(h)
  BY <1>5 DEF Crash, TypeOK
<1>6. CASE PublishKeymap(h)
  <2>1. /\ added' = added /\ inner' = inner /\ keymap'[h].reverse = keymap[h].reverse
        /\ pc[h] = "graphed"
    BY <1>6 DEF PublishKeymap, Stamped, TypeOK
  <2>2. QED BY <2>1 DEF Finds, Holds
<1>7. CASE Open(h)
  BY <1>7 DEF Open
<1>8. CASE \/ OpenDone(h) \/ Commit(h) \/ Acquire(h) \/ Busy(h) \/ CommitLocked(h)
           \/ AppendChunk(h) \/ AppendDone(h) \/ AppendThenCompact(h)
           \/ SaveGraph(h) \/ PublishGraph(h) \/ ClearJournal(h)
  <2>1. /\ added' = added /\ inner' = inner /\ keymap' = keymap
        /\ pc[h] \notin {"reinsert", "scan"} /\ (pc[h] = "absorb" => todo[h] = << >>)
    BY <1>8 DEF OpenDone, Commit, Acquire, Busy, CommitLocked, AppendChunk, AppendDone,
                AppendThenCompact, SaveGraph, PublishGraph, ClearJournal, Ok, Return
  <2>2. QED BY <2>1, InSeqEmpty DEF Finds, Holds
<1>9. QED
  BY <1>1, <1>2, <1>3, <1>4, <1>5, <1>6, <1>7, <1>8 DEF Act, Call, Step

LEMMA NextFindsOwn ==
    ASSUME FreshIds, TypeOK, KeymapsConsistent, Durable, FindsOwn, [Next]_vars
    PROVE  FindsOwn'
<1> USE DEF disk, lock, memory, locals, history, Goto
<1>1. CASE UNCHANGED vars
  BY <1>1 DEF FindsOwn, Finds, Holds, vars
<1>2. ASSUME NEW h \in Handle, Act(h), faults' = 0 PROVE FindsOwn'
  <2>1. faults = 0 /\ ~IoError(h)
    <3>1. faults \in Nat
      BY DEF TypeOK
    <3>2. CASE IoError(h)
      BY <1>2, <3>1, <3>2, SMTT(30) DEF IoError
    <3>3. CASE ~IoError(h)
      BY <1>2, <3>3, ZenonT(40) DEF Act, Call, Step, Open, Replay, OpenDone, Commit, Acquire, Busy,
         CommitLocked, AppendChunk, AppendDone, AppendThenCompact, ReloadIfStale,
         AbsorbJournal, SaveGraph, PublishGraph, PublishKeymap, ClearJournal, Crash, Add, Ok
    <3>4. QED BY <3>2, <3>3
  <2>2. \A g \in Handle : (pc[g] = "closed" => added[g] = {}) /\ \A r \in added[g] : Finds(g, r)
    BY <2>1 DEF FindsOwn
  <2>3. \A g \in Handle, r \in Rec : r \in added'[g] => Finds(g, r)'
    <3>1. ASSUME NEW g \in Handle, NEW r \in added'[g] PROVE Finds(g, r)'
      <4>1. CASE g = h
        BY <1>2, <2>1, <2>2, <4>1, OwnFinds
      <4>2. CASE g # h
        BY <1>2, <2>2, <4>2, OthersFind
      <4>3. QED BY <4>1, <4>2
    <3>2. QED BY <3>1
  <2>4. pc'[h] = "closed" => added'[h] = {}
    <3>1. CASE Crash(h)
      BY <3>1, SMTT(30) DEF Crash, TypeOK
    <3>2. CASE ~Crash(h)
      BY <1>2, <2>1, <3>2, ZenonT(40)
      DEF Act, Call, Step, Open, Replay, OpenDone, Commit, Acquire, Busy,
         CommitLocked, AppendChunk, AppendDone, AppendThenCompact, ReloadIfStale,
         AbsorbJournal, SaveGraph, PublishGraph, PublishKeymap, ClearJournal, Add, Ok, Return,
         MayMutate, FreshIds, TypeOK
    <3>3. QED BY <3>1, <3>2
  <2>5. \A g \in Handle : g # h => pc'[g] = pc[g] /\ added'[g] = added[g]
    BY <1>2, Frame
  <2>6. \A g \in Handle : added'[g] \subseteq Rec
    BY NextType DEF TypeOK
  <2>7. \A g \in Handle : pc'[g] = "closed" => added'[g] = {}
    BY <2>2, <2>4, <2>5
  <2>8. QED BY <2>3, <2>6, <2>7 DEF FindsOwn
<1>3. CASE faults' # 0
  BY <1>3 DEF FindsOwn
<1>4. QED BY <1>1, <1>2, <1>3 DEF Next, Act

\* Between calls, what is not in the handle's graph is on disk.
LEMMA OwnFound ==
    ASSUME TypeOK, KeymapsConsistent, Durable, FindsOwn
    PROVE  OwnAddsSearchable
<1> SUFFICES ASSUME NEW h \in Handle, pc[h] = "idle", NEW r \in added[h]
             PROVE  Sees(h, r) \/ (faults > 0 /\ Recoverable(r))
  BY DEF OwnAddsSearchable
<1>1. r \in issued /\ r \in Rec /\ r.id \in Item /\ faults \in Nat
  BY DEF Durable, Issued, TypeOK, Rec
<1>2. ASSUME Holds(inner[h], keymap[h], r) PROVE Sees(h, r)
  <2>1. keymap[h].forward[keymap[h].reverse[r.id]] = r.id
    BY <1>1, <1>2 DEF Holds, KeymapsConsistent, Consistent
  <2>2. QED BY <1>2, <2>1 DEF Holds, Sees
<1>3. CASE faults = 0
  <2>1. Finds(h, r)
    BY <1>3 DEF FindsOwn
  <2>2. QED BY <1>2, <2>1 DEF Finds
<1>4. CASE faults > 0 /\ r \in Queue(h)
  BY <1>1, <1>2, <1>4 DEF Durable, InMemory
<1>5. CASE faults > 0 /\ r \notin Queue(h)
  <2>1. Settled(r)
    BY <1>5 DEF Settled
  <2>2. QED BY <1>1, <1>5, <2>1, SettledRecoverable
<1>6. QED BY <1>1, <1>3, <1>4, <1>5

\* A handle between calls finds everything its callers added, whatever other
\* handles have published meanwhile (reload_if_stale, absorb_journal); after a
\* failed call it may have to be opened again.
THEOREM OwnAddsFound == ASSUME FreshIds PROVE Spec => []OwnAddsSearchable
<1>1. Init => FindsOwn
  BY DEF Init, FindsOwn
<1>2. TypeOK /\ KeymapsConsistent /\ Durable /\ FindsOwn /\ [Next]_vars => FindsOwn'
  BY NextFindsOwn
<1>3. TypeOK /\ KeymapsConsistent /\ Durable /\ FindsOwn => OwnAddsSearchable
  BY OwnFound
<1>4. QED
  BY <1>1, <1>2, <1>3, TypeCorrect, KeymapBijective, DurableInvariant, PTL DEF Spec

-----------------------------------------------------------------------------
(* Removals. *)

\* What is left of the queue when the records of an id are taken out (remove).
LEMMA QueueWithout ==
    ASSUME NEW q \in Seq(Rec), NEW i
    PROVE  /\ Only(q, {r \in Rec : r.id # i}) \in Seq(Rec)
           /\ InSeq(Only(q, {r \in Rec : r.id # i})) \subseteq {r \in InSeq(q) : r.id # i}
<1> DEFINE keep == {r \in Rec : r.id # i}
           kept == Only(q, keep)
<1>1. kept \in Seq(Rec \cap keep)
  <2> HIDE DEF keep
  <2>1. QED BY OnlyKeeps
<1>2. Rec \cap keep = keep /\ keep \subseteq Rec
  OBVIOUS
<1>3. \A k \in 1 .. Len(kept) : \E n \in 1 .. Len(q) : kept[k] = q[n]
  <2> HIDE DEF keep
  <2>1. PICK at \in [1 .. Len(kept) -> 1 .. Len(q)] :
           \A k \in 1 .. Len(kept) : kept[k] = q[at[k]]
    BY OnlyInOrder
  <2>2. QED BY <2>1
<1>4. kept \in Seq(keep)
  BY <1>1, <1>2
<1> HIDE DEF kept
<1>5. DOMAIN kept = 1 .. Len(kept) /\ DOMAIN q = 1 .. Len(q)
      /\ \A k \in 1 .. Len(kept) : kept[k] \in keep
  BY <1>4, LenProperties, ElementOfSeq
<1>6. kept \in Seq(Rec)
  BY <1>2, <1>4
<1>7. InSeq(kept) \subseteq {r \in InSeq(q) : r.id # i}
  BY <1>3, <1>5, ZenonT(40) DEF InSeq
<1>8. QED BY <1>6, <1>7 DEF kept

\* A keymap with other forward entries and without the key of an id.
WithoutKey(km, f, i) == [km EXCEPT !.forward = f, !.reverse[i] = None]

LeavesOut(kn, km, f, i) ==
    /\ kn \in Keymap /\ kn.reverse = [km.reverse EXCEPT ![i] = None]
    /\ kn.forward = f /\ kn.next_key = km.next_key

LEMMA WithoutKeyType ==
    ASSUME NEW km \in Keymap, NEW f \in [Key -> Item \cup {None}], NEW i \in Item
    PROVE  LeavesOut(WithoutKey(km, f, i), km, f, i)
<1> DEFINE kn == WithoutKey(km, f, i)
<1>1. kn = [generation |-> km.generation, next_key |-> km.next_key, forward |-> f,
            reverse |-> [km.reverse EXCEPT ![i] = None]]
  <2> DEFINE first == [km EXCEPT !.forward = f]
  <2>1. first = [generation |-> km.generation, next_key |-> km.next_key, forward |-> f,
                 reverse |-> km.reverse]
    BY DEF Keymap
  <2>2. kn = [first EXCEPT !.reverse = [first.reverse EXCEPT ![i] = None]]
    BY DEF WithoutKey
  <2> HIDE DEF first, kn
  <2>3. QED BY <2>1, <2>2
<1>2. [km.reverse EXCEPT ![i] = None] \in [Item -> Key \cup {None}]
  BY DEF Keymap
<1> HIDE DEF kn
<1>3. LeavesOut(kn, km, f, i)
  BY <1>1, <1>2, SMTT(30) DEF Keymap, LeavesOut
<1>4. QED BY <1>3 DEF kn

\* What a removal leaves in memory and what it forgets (remove).
LEMMA RemoveStep ==
    ASSUME TypeOK, NEW h \in Handle, NEW i \in Removable, Remove(h, i)
    PROVE  /\ TypeOK'
           /\ Named(keymap'[h]) = Named(keymap[h]) \ {i}
           /\ keymap'[h].reverse = [keymap[h].reverse EXCEPT ![i] = None]
           /\ keymap'[h].forward = [k \in Key |-> IF k = keymap[h].reverse[i] THEN None
                                                  ELSE keymap[h].forward[k]]
           /\ keymap'[h].next_key = keymap[h].next_key
           /\ tombstones'[h] = tombstones[h] \cup (Named(keymap[h]) \cap {i})
           /\ InSeq(pending'[h]) \subseteq {r \in InSeq(pending[h]) : r.id # i}
           /\ \A g \in Handle \ {h} : keymap'[g] = keymap[g]
<1> USE DEF disk, lock, locals
<1> DEFINE key == keymap[h].reverse[i]
           Without(f) == [k \in Key |-> IF k = key THEN None ELSE f[k]]
<1>1. /\ i \in Item /\ keymap \in [Handle -> Keymap] /\ keymap[h] \in Keymap
      /\ inner \in [Handle -> Graph] /\ pending \in [Handle -> Seq(Rec)]
      /\ tombstones \in [Handle -> SUBSET Item]
  BY RemovableAssumption DEF TypeOK
<1>2. /\ inner' = [inner EXCEPT ![h] = Without(inner[h])]
      /\ keymap' = [keymap EXCEPT ![h].forward = Without(keymap[h].forward),
                                  ![h].reverse[i] = None]
      /\ tombstones' = [tombstones EXCEPT ![h] = IF key = None THEN tombstones[h]
                                                 ELSE tombstones[h] \cup {i}]
      /\ pending' = [pending EXCEPT ![h] = Only(pending[h], {r \in Rec : r.id # i})]
      /\ added' = [added EXCEPT ![h] = {r \in added[h] : r.id # i}]
      /\ acked' = {r \in acked : r.id # i}
      /\ covers' = [g \in Handle |-> {r \in covers[g] : r.id # i}]
      /\ UNCHANGED <<disk, lock, pc, loaded_generation, meta_upgrade_pending,
                     batch_end, locals, issued, crashes, faults>>
  BY DEF Remove
<1>3. Without(inner[h]) \in Graph
  BY <1>1 DEF Graph
<1>4. Without(keymap[h].forward) \in [Key -> Item \cup {None}]
  BY <1>1 DEF Keymap
<1> DEFINE km == keymap'[h]
<1>5. /\ km = WithoutKey(keymap[h], Without(keymap[h].forward), i)
      /\ keymap' = [keymap EXCEPT ![h] = km]
      /\ \A g \in Handle \ {h} : keymap'[g] = keymap[g]
  <2> HIDE DEF Without
  <2>1. QED BY <1>1, <1>2, ZenonT(40) DEF WithoutKey
<1>6. /\ km \in Keymap /\ km.reverse = [keymap[h].reverse EXCEPT ![i] = None]
      /\ km.forward = Without(keymap[h].forward) /\ km.next_key = keymap[h].next_key
  <2>1. PICK f \in [Key -> Item \cup {None}] : f = Without(keymap[h].forward)
    BY <1>4
  <2> HIDE DEF Without, km
  <2>2. km = WithoutKey(keymap[h], f, i)
    BY <1>5, <2>1
  <2>3. keymap[h] \in Keymap /\ i \in Item
    BY <1>1
  <2>4. LeavesOut(km, keymap[h], f, i)
    BY <2>2, <2>3, WithoutKeyType, Zenon
  <2>5. QED BY <2>1, <2>4 DEF LeavesOut
<1> HIDE DEF km
<1>7. Named(km) = Named(keymap[h]) \ {i}
  BY <1>1, <1>6 DEF Named, Keymap
<1>8. tombstones'[h] = tombstones[h] \cup (Named(keymap[h]) \cap {i})
  BY <1>1, <1>2, SMTT(30) DEF Named
<1>9. /\ Only(pending[h], {r \in Rec : r.id # i}) \in Seq(Rec)
      /\ InSeq(Only(pending[h], {r \in Rec : r.id # i}))
            \subseteq {r \in InSeq(pending[h]) : r.id # i}
  BY <1>1, QueueWithout
<1>10. pending'[h] = Only(pending[h], {r \in Rec : r.id # i})
  BY <1>1, <1>2, SMTT(30)
<1>11. TypeOK'
  <2>1. inner' \in [Handle -> Graph] /\ keymap' \in [Handle -> Keymap]
    <3> HIDE DEF Without
    <3>1. inner' \in [Handle -> Graph]
      BY <1>1, <1>2, <1>3
    <3>2. keymap' \in [Handle -> Keymap]
      BY <1>1, <1>5, <1>6
    <3>3. QED BY <3>1, <3>2
  <2>2. pending' \in [Handle -> Seq(Rec)] /\ tombstones' \in [Handle -> SUBSET Item]
    BY <1>1, <1>2, <1>9
  <2>3. /\ added' \in [Handle -> SUBSET Rec] /\ acked' \in SUBSET Rec
        /\ covers' \in [Handle -> SUBSET Rec]
    BY <1>2 DEF TypeOK
  <2>4. QED BY <1>2, <2>1, <2>2, <2>3 DEF TypeOK
<1>12. QED BY <1>2, <1>5, <1>6, <1>7, <1>8, <1>9, <1>10, <1>11 DEF km

LEMMA RemovalsTyped == RemoveSpec => []TypeOK
<1>1. TypeOK /\ [RemoveNext]_vars => TypeOK'
  BY NextType, RemoveStep DEF RemoveNext
<1>2. QED BY <1>1, InitType, PTL DEF RemoveSpec

\* What a removal leaves is a bijection (remove).
LEMMA RemoveConsistent ==
    ASSUME TypeOK, KeymapsConsistent, NEW h \in Handle, NEW i \in Removable, Remove(h, i)
    PROVE  KeymapsConsistent'
<1> DEFINE km == keymap[h]
           kn == keymap'[h]
           key == km.reverse[i]
<1>1. keymap_bin' = keymap_bin /\ Consistent(km) /\ i \in Item /\ km \in Keymap
  BY RemovableAssumption DEF Remove, disk, KeymapsConsistent, TypeOK
<1>2. /\ kn.reverse = [km.reverse EXCEPT ![i] = None] /\ kn.next_key = km.next_key
      /\ kn.forward = [k \in Key |-> IF k = km.reverse[i] THEN None ELSE km.forward[k]]
  BY RemoveStep
<1> HIDE DEF kn
<1>3. \A j \in Item : kn.reverse[j] = IF j = i THEN None ELSE km.reverse[j]
  BY <1>1, <1>2 DEF Keymap
<1>4. \A k \in Key : kn.forward[k] = IF k = key THEN None ELSE km.forward[k]
  BY <1>2
<1>5. ASSUME NEW j \in Item, NEW k \in Key PROVE kn.reverse[j] = k <=> kn.forward[k] = j
  <2>1. None # k /\ None # j
    BY NoneAssumption
  <2>2. (km.reverse[j] = k <=> km.forward[k] = j) /\ (km.reverse[i] = k <=> km.forward[k] = i)
    BY <1>1 DEF Consistent
  <2>3. QED BY <1>3, <1>4, <2>1, <2>2
<1>6. \A k \in Key : kn.forward[k] # None => k < kn.next_key
  BY <1>1, <1>2, <1>4 DEF Consistent
<1>7. Consistent(kn)
  BY <1>5, <1>6 DEF Consistent
<1>8. \A g \in Handle \ {h} : keymap'[g] = keymap[g]
  BY RemoveStep
<1>9. QED BY <1>1, <1>7, <1>8 DEF KeymapsConsistent, kn

\* Removals keep every keymap a bijection too, with any number of handles,
\* failed calls and crashes (remove, insert_entries).
THEOREM RemovalsBijective == RemoveSpec => []KeymapsConsistent
<1>1. Init => KeymapsConsistent
  <2> SUFFICES ASSUME Init PROVE KeymapsConsistent
    OBVIOUS
  <2>1. Consistent(keymap_bin)
    BY LoadConsistent, LegacyConsistent DEF Init, InitDirectory
  <2>2. QED BY <2>1, LoadConsistent DEF Init, KeymapsConsistent
<1>2. TypeOK /\ KeymapsConsistent /\ [RemoveNext]_vars => KeymapsConsistent'
  BY NextConsistent, RemoveConsistent DEF RemoveNext
<1>3. QED BY <1>1, <1>2, RemovalsTyped, PTL DEF RemoveSpec

\* One handle, whose calls do not fail and whose process lives on.
Undisturbed == MaxCrash = 0 /\ \A g, h \in Handle : g = h

Forgotten(h) == Named(keymap[h]) \cup tombstones[h]

\* What the handle names its callers added, and what it has on disk or on the
\* way there it names or has a tombstone for: a replay of the journal inserts
\* nothing.  Its keymap.bin is never stale, so nothing is reloaded.
Replayless(h) ==
    /\ Named(keymap[h]) \subseteq Ids(added[h] \cup acked)
    /\ Ids(InSeq(pending[h])) \subseteq Named(keymap[h])
    /\ Ids(InSeq(journal)) \cup Ids(InSeq(drained[h])) \subseteq Forgotten(h)
    /\ pc[h] \in {"closed", "loading"} => journal = << >> /\ todo[h] = << >>
    /\ pc[h] = "closed" => /\ drained[h] = << >> /\ pending[h] = << >>
                           /\ Named(keymap_bin) \subseteq Ids(acked)
    /\ pc[h] = "absorb" => Ids(InSeq(todo[h])) \subseteq skip[h]
    /\ pc[h] # "reinsert"
    /\ pc[h] # "closed" =>
          keymap_bin.generation = loaded_generation[h] + (IF pc[h] = "keyed" THEN 1 ELSE 0)

\* Names only grow, and tombstones stay, while the handle neither reloads nor
\* clears the journal.
LEMMA IdsMonotone ==
    /\ Ids({}) = {}
    /\ \A S, T : Ids(S \cup T) = Ids(S) \cup Ids(T)
    /\ \A S, T : Ids(S) \cup Ids(T) \subseteq Ids(Supersede(S, T) \cup S)
    /\ \A S, T : Ids(S) \subseteq Ids(Supersede(S, T))
    /\ \A S, T : Ids(T) \subseteq Ids(Supersede(S, T))
    /\ \A S, T : S \subseteq T => Ids(S) \subseteq Ids(T)
BY DEF Ids, Supersede

LEMMA InsertKeepsNames ==
    ASSUME NEW km \in Keymap, NEW r \in Rec, km.next_key \in Key
    PROVE  Named(KeymapInsert(km, r)) = Named(km) \cup {r.id}
BY NoneAssumption DEF Keymap, Rec, Named, KeymapInsert

\* Each step of the handle, but a removal.
LEMMA StepReplayless ==
    ASSUME Undisturbed, TypeOK, NEW h \in Handle, Act(h), Replayless(h)
    PROVE  Replayless(h)'
<1> USE DEF disk, lock, memory, locals, history, Goto
<1> DEFINE Has(S) == Ids(InSeq(S))
<1>0. /\ journal \in Seq(Rec) /\ drained[h] \in Seq(Rec) /\ pending[h] \in Seq(Rec)
      /\ todo[h] \in Seq(Rec) /\ keymap[h] \in Keymap /\ keymap_bin \in Keymap
      /\ loaded_generation[h] \in Nat /\ keymap_bin.generation \in Nat
  BY DEF TypeOK, Keymap
<1>1. Has(<< >>) = {}
  BY InSeqEmpty, IdsMonotone
<1>2. ~IoError(h) /\ ~Crash(h)
  BY DEF Undisturbed, IoError, Crash, TypeOK
<1>3. ASSUME Open(h) PROVE Replayless(h)'
  <2>1. journal = << >> /\ todo'[h] = << >> /\ journal' = journal
    BY <1>3 DEF Open, Replayless, TypeOK
  <2>2. /\ keymap'[h] = LoadedKeymap /\ pc'[h] = "loading" /\ drained'[h] = << >>
        /\ loaded_generation'[h] = keymap_bin.generation /\ keymap_bin' = keymap_bin
        /\ UNCHANGED <<added, acked, pending, tombstones>>
    BY <1>0, <1>3, LoadedType DEF Open, Replayless, TypeOK
  <2>3. Named(LoadedKeymap) \subseteq Ids(acked)
    BY <1>3, LoadedNames DEF Open, Replayless
  <2>4. Ids(acked) \subseteq Ids(added[h] \cup acked)
    BY IdsMonotone
  <2>5. pending[h] = << >>
    BY <1>3 DEF Open, Replayless
  <2>6. /\ Named(keymap'[h]) \subseteq Ids(added'[h] \cup acked')
        /\ Has(pending'[h]) = {} /\ Has(journal') = {} /\ Has(drained'[h]) = {}
    BY <1>1, <2>1, <2>2, <2>3, <2>4, <2>5
  <2>7. keymap_bin'.generation = loaded_generation'[h] + (IF pc'[h] = "keyed" THEN 1 ELSE 0)
    BY <1>0, <2>2
  <2>8. Has(journal') \cup Has(drained'[h]) \subseteq Forgotten(h)'
    BY <2>6
  <2>9. Has(pending'[h]) \subseteq Named(keymap'[h])
    BY <2>6
  <2> HIDE DEF Has
  <2>10. QED BY <2>1, <2>2, <2>6, <2>7, <2>8, <2>9, Zenon DEF Replayless, Has
<1>4. ASSUME Replay(h) PROVE Replayless(h)'
  <2>1. pc[h] = "absorb" /\ todo[h] # << >> /\ todo'[h] = Tail(todo[h]) /\ skip' = skip
    BY <1>4 DEF Replay, Replayless, TypeOK
  <2>2. InSeq(todo[h]) = {Head(todo[h])} \cup InSeq(Tail(todo[h]))
    BY <1>0, <2>1, InSeqHead
  <2>3. Head(todo[h]).id \in skip[h] /\ Has(Tail(todo[h])) \subseteq skip[h]
    BY <2>1, <2>2 DEF Replayless, Ids
  <2>4. UNCHANGED <<keymap, journal, pending, drained, tombstones, added, acked, pc,
                    keymap_bin, loaded_generation>>
    BY <1>4, <2>3 DEF Replay
  <2>5. QED BY <2>1, <2>3, <2>4 DEF Replayless, Forgotten
<1>5. ASSUME NEW r \in Rec, NEW batch \in BOOLEAN, Add(h, r, batch) PROVE Replayless(h)'
  <2>1. Named(keymap'[h]) = Named(keymap[h]) \cup {r.id}
    BY <1>0, <1>5, InsertKeepsNames DEF Add, Insert, TypeOK
  <2>2. InSeq(pending'[h]) = InSeq(pending[h]) \cup {r}
    BY <1>0, <1>5, InSeqAppend DEF Add, TypeOK
  <2>3. added'[h] = Supersede(added[h], {r}) /\ acked' = acked
    BY <1>5 DEF Add, TypeOK
  <2>4. Named(keymap'[h]) \subseteq Ids(added'[h] \cup acked')
    BY <2>1, <2>3 DEF Replayless, Ids, Supersede
  <2>5. Has(pending'[h]) \subseteq Named(keymap'[h])
    BY <2>1, <2>2 DEF Replayless, Ids
  <2>6. /\ UNCHANGED <<journal, drained, tombstones, pc, todo, skip, keymap_bin,
                       loaded_generation>>
        /\ pc[h] # "closed"
    BY <1>5 DEF Add, MayMutate
  <2>7. QED BY <2>1, <2>4, <2>5, <2>6 DEF Replayless, Forgotten
<1>6. ASSUME OpenDone(h) \/ Commit(h) \/ Acquire(h) \/ Busy(h) \/ AppendThenCompact(h)
             \/ PublishGraph(h)
      PROVE  Replayless(h)'
  <2>1. /\ UNCHANGED <<journal, drained, tombstones, todo, keymap, pending, keymap_bin,
                       loaded_generation, added, acked>>
        /\ pc[h] \notin {"closed", "keyed"}
        /\ pc'[h] \in {"idle", "acquire", "locked", "reload", "graphed"}
    BY <1>6, SMTT(30)
    DEF OpenDone, Commit, Acquire, Busy, AppendThenCompact, PublishGraph, TypeOK
  <2>2. QED BY <2>1 DEF Replayless, Forgotten
<1>7. ASSUME CommitLocked(h) \/ SaveGraph(h) PROVE Replayless(h)'
  <2>1. /\ UNCHANGED <<journal, tombstones, todo, keymap, keymap_bin,
                       loaded_generation, added, acked>>
        /\ pc[h] \in {"locked", "absorb"}
        /\ pc'[h] \in {"reload", "append", "saved"}
        /\ \/ pending'[h] = pending[h] /\ drained'[h] = drained[h]
           \/ pending'[h] = << >> /\ drained'[h] = pending[h]
    BY <1>7, SMTT(30) DEF CommitLocked, SaveGraph, TypeOK
  <2>2. QED BY <1>1, <2>1 DEF Replayless, Forgotten
<1>8. ASSUME AppendChunk(h) PROVE Replayless(h)'
  <2> DEFINE head == SubSeq(drained[h], 1, Chunk(h))
             rest == SubSeq(drained[h], Chunk(h) + 1, Len(drained[h]))
  <2>1. Chunk(h) \in 0 .. Len(drained[h])
    BY ChunkType
  <2>2. head \in Seq(Rec) /\ rest \in Seq(Rec)
    BY <1>0, <2>1, SeqType
  <2>3. InSeq(drained[h]) = InSeq(head) \cup InSeq(rest)
    BY <1>0, <2>1, InSeqSplit
  <2>4. journal' = journal \o head /\ drained'[h] = rest
    BY <1>8 DEF AppendChunk, TypeOK
  <2>5. InSeq(journal') = InSeq(journal) \cup InSeq(head)
    BY <1>0, <2>2, <2>4, InSeqConcat
  <2> HIDE DEF head, rest
  <2>6. Has(journal') \cup Has(drained'[h]) = Has(journal) \cup Has(drained[h])
    BY <2>3, <2>4, <2>5 DEF Ids
  <2>7. /\ UNCHANGED <<tombstones, todo, keymap, pending, keymap_bin, loaded_generation,
                       added, acked, pc>>
        /\ pc[h] = "append"
    BY <1>8 DEF AppendChunk
  <2>8. QED BY <2>6, <2>7 DEF Replayless, Forgotten
<1>9. ASSUME AppendDone(h) \/ ClearJournal(h) PROVE Replayless(h)'
  <2>1. /\ UNCHANGED <<keymap, pending, keymap_bin, added>>
        /\ acked' = Supersede(acked, covers[h]) /\ drained'[h] = << >>
        /\ pc'[h] = "idle"
    BY <1>9 DEF AppendDone, ClearJournal, Ok, Return, TypeOK
  <2>2. Ids(added[h] \cup acked) \subseteq Ids(added[h] \cup acked')
    BY <2>1 DEF Ids, Supersede
  <2>3. \/ journal' = journal /\ tombstones' = tombstones
           /\ loaded_generation' = loaded_generation /\ pc[h] = "append"
        \/ journal' = << >> /\ loaded_generation'[h] = loaded_generation[h] + 1
           /\ pc[h] = "keyed"
    BY <1>9 DEF AppendDone, ClearJournal, NextGeneration, TypeOK
  <2>4. Has(journal') \cup Has(drained'[h]) \subseteq Forgotten(h)'
    <3>1. CASE journal' = journal /\ tombstones' = tombstones
      BY <1>1, <2>1, <3>1 DEF Replayless, Forgotten
    <3>2. CASE journal' = << >>
      BY <1>1, <2>1, <3>2
    <3>3. QED BY <2>3, <3>1, <3>2
  <2>5. keymap_bin'.generation = loaded_generation'[h] + (IF pc'[h] = "keyed" THEN 1 ELSE 0)
    BY <1>0, <2>1, <2>3 DEF Replayless
  <2>6. /\ Named(keymap'[h]) \subseteq Ids(added'[h] \cup acked')
        /\ Has(pending'[h]) \subseteq Named(keymap'[h])
    BY <2>1, <2>2 DEF Replayless
  <2>7. pc'[h] \notin {"closed", "loading", "absorb", "reinsert"}
    BY <2>1
  <2>8. QED BY <2>4, <2>5, <2>6, <2>7, Zenon DEF Replayless
<1>10. ASSUME ReloadIfStale(h) PROVE Replayless(h)'
  <2>1. ~Stale(h)
    BY <1>10 DEF Stale, ReloadIfStale, Replayless, TypeOK
  <2>2. /\ UNCHANGED <<journal, drained, tombstones, todo, keymap, pending, keymap_bin,
                       loaded_generation, added, acked>>
        /\ pc[h] = "reload" /\ pc'[h] = "scan"
    BY <1>10, <2>1 DEF ReloadIfStale, TypeOK
  <2>3. QED BY <2>2 DEF Replayless, Forgotten
<1>11. ASSUME AbsorbJournal(h) PROVE Replayless(h)'
  <2>1. /\ UNCHANGED <<journal, drained, tombstones, keymap, pending, keymap_bin,
                       loaded_generation, added, acked>>
        /\ todo'[h] = journal /\ skip'[h] = Forgotten(h)
        /\ pc[h] = "scan" /\ pc'[h] = "absorb"
    BY <1>11 DEF AbsorbJournal, Suppressed, Forgotten, Replayless, TypeOK
  <2>2. QED BY <2>1 DEF Replayless, Forgotten
<1>12. ASSUME PublishKeymap(h) PROVE Replayless(h)'
  <2>1. /\ UNCHANGED <<journal, drained, tombstones, todo, pending, loaded_generation,
                       added, acked>>
        /\ keymap'[h] = Stamped(h) /\ keymap_bin' = Stamped(h)
        /\ pc[h] = "graphed" /\ pc'[h] = "keyed"
    BY <1>12 DEF PublishKeymap, TypeOK
  <2>2. /\ Named(Stamped(h)) = Named(keymap[h])
        /\ Stamped(h).generation = loaded_generation[h] + 1
    BY DEF Stamped, Named, NextGeneration
  <2> HIDE DEF Stamped
  <2>3. QED BY <2>1, <2>2 DEF Replayless, Forgotten
<1>13. QED
  BY <1>2, <1>3, <1>4, <1>5, <1>6, <1>7, <1>8, <1>9, <1>10, <1>11, <1>12 DEF Act, Call, Step

LEMMA RemoveReplayless ==
    ASSUME TypeOK, NEW h \in Handle, NEW i \in Removable, Remove(h, i), Replayless(h)
    PROVE  Replayless(h)'
<1>1. /\ UNCHANGED <<journal, drained, todo, skip, pc, keymap_bin, loaded_generation>>
      /\ pc[h] # "closed"
  BY DEF Remove, disk, locals, MayMutate
<1>2. Named(keymap'[h]) = Named(keymap[h]) \ {i}
  BY RemoveStep
<1>3. Forgotten(h) \subseteq Forgotten(h)'
  <2>1. tombstones'[h] = tombstones[h] \cup (Named(keymap[h]) \cap {i})
    BY RemoveStep
  <2>2. QED BY <1>2, <2>1 DEF Forgotten
<1>4. Named(keymap'[h]) \subseteq Ids(added'[h] \cup acked')
  <2>1. added'[h] = {r \in added[h] : r.id # i} /\ acked' = {r \in acked : r.id # i}
    BY DEF Remove, TypeOK
  <2>2. QED BY <1>2, <2>1 DEF Ids, Replayless
<1>5. Ids(InSeq(pending'[h])) \subseteq Named(keymap'[h])
  <2>1. InSeq(pending'[h]) \subseteq {r \in InSeq(pending[h]) : r.id # i}
    BY RemoveStep
  <2>2. QED BY <1>2, <2>1 DEF Ids, Replayless
<1>6. QED BY <1>1, <1>3, <1>4, <1>5 DEF Replayless

\* What a handle removed stays removed, through every commit and compaction it
\* makes while the journal still holds it (remove, absorb_journal, Suppressed).
THEOREM RemovedForGood ==
    ASSUME Undisturbed PROVE RemoveSpec => []RemovedStaysRemoved
<1> DEFINE Inv == \A h \in Handle : Replayless(h)
<1>1. Init => Inv
  <2> SUFFICES ASSUME Init, NEW h \in Handle PROVE Replayless(h)
    OBVIOUS
  <2>1. Named(keymap_bin) \subseteq Ids(Legacy)
    BY DEF Init, InitDirectory, Named, EmptyKeymap, LegacyKeymap
  <2>2. Named(EmptyKeymap) = {} /\ Ids(InSeq(<< >>)) = {}
    BY InSeqEmpty, IdsMonotone DEF Named, EmptyKeymap
  <2>3. QED BY <2>1, <2>2 DEF Init, Replayless
<1>2. TypeOK /\ Inv /\ [RemoveNext]_vars => Inv'
  <2> SUFFICES ASSUME TypeOK, Inv, [RemoveNext]_vars, NEW h \in Handle PROVE Replayless(h)'
    OBVIOUS
  <2>1. CASE UNCHANGED vars
    BY <2>1 DEF Replayless, Forgotten, vars, disk, memory, locals, history
  <2>2. CASE Next
    BY <2>2, StepReplayless DEF Next, Act, Undisturbed
  <2>3. ASSUME NEW g \in Handle, NEW i \in Removable, Remove(g, i) PROVE Replayless(h)'
    BY <2>3, RemoveReplayless DEF Undisturbed
  <2>4. QED BY <2>1, <2>2, <2>3 DEF RemoveNext
<1>3. Inv => RemovedStaysRemoved
  BY DEF Replayless, RemovedStaysRemoved
<1>4. QED BY <1>1, <1>2, <1>3, RemovalsTyped, PTL DEF RemoveSpec
=============================================================================
