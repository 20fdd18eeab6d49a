-------------------------- MODULE GraphFactsProofs --------------------------
(***************************************************************************)
(* Proofs about GraphFacts, for every set of threads, stores, names and    *)
(* requests and every bound.  What keeps the graph sound is that a         *)
(* transaction reads sound tables, that each call turns sound tables into  *)
(* sound tables, and that nothing is committed between the snapshot of a   *)
(* writing transaction and its COMMIT.                                     *)
(***************************************************************************)
EXTENDS GraphReads, ListProofs
LOCAL INSTANCE SequencesExt

\* OneOpenHead, ChainsNeverFork and the foreign keys, of any tables.
OneHead(fs) ==
    \A i, j \in DOMAIN fs :
        /\ i \in OpenHeads(fs, fs[i].subject, fs[i].label, fs[i].object)
        /\ j \in OpenHeads(fs, fs[i].subject, fs[i].label, fs[i].object)
        => i = j

Revises(fs, i, j) ==
    /\ j \in 1 .. (i - 1) /\ fs[j].valid_to = None
    /\ fs[i] = [fs[j] EXCEPT !.valid_to = fs[i].valid_to, !.supersedes = j,
                             !.recorded_at = fs[i].recorded_at]
    /\ \A k \in DOMAIN fs : fs[k].supersedes = j => k = i

Chains(fs) ==
    \A i \in DOMAIN fs :
        fs[i].supersedes # None => Revises(fs, i, fs[i].supersedes)

Named(db) ==
    \A i \in DOMAIN db.facts : \A n \in {db.facts[i].subject, db.facts[i].object} \cap Name :
        db.entities[n] # Absent

Sound(db) == db \in Tables /\ OneHead(db.facts) /\ Chains(db.facts) /\ Named(db)

\* The tables later hold every row and entity they held before.
EntitiesKept(before, after) ==
    \A n \in Name : /\ before[n] # Absent => after[n] # Absent
                    /\ before[n] \in Kind => after[n] = before[n]

Grows(before, after) ==
    /\ Len(before.facts) <= Len(after.facts)
    /\ \A i \in 1 .. Len(before.facts) : after.facts[i] = before.facts[i]
    /\ EntitiesKept(before.entities, after.entities)

Committed == [facts |-> facts, entities |-> entities]

\* What SupersedeAtomic says of the rows.
Replaced(fs, r) ==
    /\ OpenHeads(fs, r.subject, r.label, r.new) # {}
    /\ r.new = r.object \/ OpenHeads(fs, r.subject, r.label, r.object) = {}

\* The inductive invariant.
Idle(t) == request[t] = None
Reading(t) ==
    /\ request[t] \in Request
    /\ Sound(tx[t]) /\ snapshot[t] = Len(tx[t].facts)
Writing(t) ==
    /\ db_lock = t /\ request[t] \in Request
    /\ Sound(tx[t]) /\ snapshot[t] = Len(facts) /\ Grows(Committed, tx[t])
    /\ request[t].op = "supersede" => Replaced(tx[t].facts, request[t])

Transactions ==
    /\ Sound(Committed)
    /\ \A t \in Thread :
          /\ pc[t] = "idle" => Idle(t)
          /\ pc[t] = "called" => request[t] \in Request
          /\ pc[t] = "reading" => Reading(t)
          /\ pc[t] = "writing" => Writing(t)

-----------------------------------------------------------------------------
(* One row is appended. *)

LEMMA AppendRow ==
    ASSUME NEW fs \in Seq(Fact), NEW row \in Fact
    PROVE  /\ Len(fs) \in Nat /\ DOMAIN fs = 1 .. Len(fs)
           /\ Append(fs, row) \in Seq(Fact) /\ Len(Append(fs, row)) = Len(fs) + 1
           /\ DOMAIN Append(fs, row) = 1 .. (Len(fs) + 1)
           /\ \A i \in 1 .. Len(fs) : Append(fs, row)[i] = fs[i]
           /\ Append(fs, row)[Len(fs) + 1] = row
BY LenProperties, AppendProperties

\* A head after the append was one before it, or is the new row.
LEMMA HeadsAfterAppend ==
    ASSUME NEW fs \in Seq(Fact), NEW row \in Fact, NEW s, NEW l, NEW o,
           NEW i \in OpenHeads(Append(fs, row), s, l, o)
    PROVE  \/ i \in OpenHeads(fs, s, l, o) /\ row.supersedes # i
           \/ /\ i = Len(fs) + 1 /\ row.valid_to = None
              /\ row.subject = s /\ row.label = l /\ row.object = o
<1> DEFINE gs == Append(fs, row)
<1>1. /\ Len(fs) \in Nat /\ DOMAIN fs = 1 .. Len(fs) /\ DOMAIN gs = 1 .. (Len(fs) + 1)
      /\ \A k \in 1 .. Len(fs) : gs[k] = fs[k]
      /\ gs[Len(fs) + 1] = row
  BY AppendRow
<1>2. /\ i \in DOMAIN gs /\ gs[i].subject = s /\ gs[i].label = l /\ gs[i].object = o
      /\ gs[i].valid_to = None /\ \A j \in DOMAIN gs : gs[j].supersedes # i
  BY DEF OpenHeads
<1> HIDE DEF gs
<1>3. CASE i = Len(fs) + 1
  BY <1>1, <1>2, <1>3
<1>4. CASE i \in 1 .. Len(fs)
  <2>1. \A j \in DOMAIN fs : fs[j].supersedes # i
    BY <1>1, <1>2
  <2>2. row.supersedes # i
    BY <1>1, <1>2
  <2>3. QED BY <1>1, <1>2, <1>4, <2>1, <2>2 DEF OpenHeads
<1>5. QED BY <1>1, <1>2, <1>3, <1>4

\* An open row may be appended when no head of its triple is open.
LEMMA OneHeadAppend ==
    ASSUME NEW fs \in Seq(Fact), NEW row \in Fact, OneHead(fs),
           row.valid_to = None => OpenHeads(fs, row.subject, row.label, row.object) = {}
    PROVE  OneHead(Append(fs, row))
<1> DEFINE gs == Append(fs, row)
<1> SUFFICES ASSUME NEW i \in DOMAIN gs, NEW j \in DOMAIN gs,
                    i \in OpenHeads(gs, gs[i].subject, gs[i].label, gs[i].object),
                    j \in OpenHeads(gs, gs[i].subject, gs[i].label, gs[i].object)
             PROVE  i = j
  BY DEF OneHead
<1>1. /\ Len(fs) \in Nat /\ DOMAIN fs = 1 .. Len(fs)
      /\ \A k \in 1 .. Len(fs) : gs[k] = fs[k]
      /\ gs[Len(fs) + 1] = row
  BY AppendRow
<1>2. \/ i \in OpenHeads(fs, gs[i].subject, gs[i].label, gs[i].object)
      \/ /\ i = Len(fs) + 1 /\ row.valid_to = None /\ row.subject = gs[i].subject
         /\ row.label = gs[i].label /\ row.object = gs[i].object
  BY HeadsAfterAppend
<1>3. \/ j \in OpenHeads(fs, gs[i].subject, gs[i].label, gs[i].object)
      \/ /\ j = Len(fs) + 1 /\ row.valid_to = None /\ row.subject = gs[i].subject
         /\ row.label = gs[i].label /\ row.object = gs[i].object
  BY HeadsAfterAppend
<1> HIDE DEF gs
<1>4. CASE /\ i \in OpenHeads(fs, gs[i].subject, gs[i].label, gs[i].object)
           /\ j \in OpenHeads(fs, gs[i].subject, gs[i].label, gs[i].object)
  <2>1. i \in DOMAIN fs /\ j \in DOMAIN fs
    BY <1>4 DEF OpenHeads
  <2>2. gs[i] = fs[i]
    BY <1>1, <2>1
  <2>3. QED BY <1>4, <2>1, <2>2 DEF OneHead
<1>5. QED BY <1>2, <1>3, <1>4

\* A row may be appended when it revises no row, or one open head.
LEMMA ChainsAppend ==
    ASSUME NEW fs \in Seq(Fact), NEW row \in Fact, Chains(fs),
           row.supersedes # None =>
              /\ row.supersedes \in OpenHeads(fs, row.subject, row.label, row.object)
              /\ row = [fs[row.supersedes] EXCEPT !.valid_to = row.valid_to,
                                                  !.supersedes = row.supersedes,
                                                  !.recorded_at = row.recorded_at]
    PROVE  Chains(Append(fs, row))
<1> DEFINE gs == Append(fs, row)
           n == Len(fs) + 1
<1>1. /\ Len(fs) \in Nat /\ DOMAIN fs = 1 .. Len(fs) /\ DOMAIN gs = 1 .. n
      /\ \A k \in 1 .. Len(fs) : gs[k] = fs[k]
      /\ gs[n] = row
  BY AppendRow
<1> SUFFICES ASSUME NEW i \in DOMAIN gs, gs[i].supersedes # None
             PROVE  Revises(gs, i, gs[i].supersedes)
  BY DEF Chains
<1> HIDE DEF gs
<1>2. CASE i \in 1 .. Len(fs)
  <2> DEFINE j == fs[i].supersedes
  <2>1. gs[i] = fs[i] /\ Revises(fs, i, j)
    BY <1>1, <1>2 DEF Chains
  <2>2. j \in 1 .. (i - 1) /\ j \in 1 .. Len(fs) /\ gs[j] = fs[j]
    BY <1>1, <1>2, <2>1 DEF Revises
  <2>3. row.supersedes # j
    <3>1. i \in DOMAIN fs /\ fs[i].supersedes = j
      BY <1>1, <1>2
    <3>2. j \notin OpenHeads(fs, row.subject, row.label, row.object)
      BY <3>1 DEF OpenHeads
    <3>3. j # None
      BY <2>1, <1>1, <1>2
    <3>4. QED BY <3>2, <3>3
  <2>4. ASSUME NEW k \in DOMAIN gs, gs[k].supersedes = j PROVE k = i
    <3>1. k # n
      BY <1>1, <2>3, <2>4
    <3>2. k \in DOMAIN fs /\ fs[k].supersedes = j
      BY <1>1, <2>4, <3>1
    <3>3. QED BY <2>1, <3>2 DEF Revises
  <2>5. QED BY <2>1, <2>2, <2>4 DEF Revises
<1>3. CASE i = n
  <2> DEFINE j == row.supersedes
  <2>1. /\ gs[i] = row /\ j \in DOMAIN fs /\ fs[j].valid_to = None
        /\ \A k \in DOMAIN fs : fs[k].supersedes # j
    BY <1>1, <1>3 DEF OpenHeads
  <2>2. j \in 1 .. (i - 1) /\ gs[j] = fs[j]
    BY <1>1, <1>3, <2>1
  <2>3. gs[i] = [gs[j] EXCEPT !.valid_to = gs[i].valid_to, !.supersedes = j,
                              !.recorded_at = gs[i].recorded_at]
    BY <1>1, <1>3, <2>1, <2>2
  <2>4. \A k \in DOMAIN gs : gs[k].supersedes = j => k = i
    BY <1>1, <1>3, <2>1
  <2>5. QED BY <2>1, <2>2, <2>3, <2>4 DEF Revises
<1>4. QED BY <1>1, <1>2, <1>3

-----------------------------------------------------------------------------
(* Each call turns sound tables into sound tables, and only adds to them.  *)

\* A table of entities has a kind, no kind or no row for every name.
Tabled == [Name -> Kind \cup {None, Absent}]

\* get_or_create_entity makes its entity exist and leaves the others.
LEMMA GetOrCreateKeeps ==
    ASSUME NEW es \in Tabled, NEW n \in Name, NEW kind \in Kind \cup {None}
    PROVE  /\ GetOrCreate(es, n, kind) \in Tabled
           /\ GetOrCreate(es, n, kind)[n] # Absent
           /\ EntitiesKept(es, GetOrCreate(es, n, kind))
BY GraphAssumption DEF Tabled, GetOrCreate, EntitiesKept

\* The subject of a fact and its object, when it is an entity, exist.
LEMMA ResolvedKeeps ==
    ASSUME NEW es \in Tabled, NEW r \in AddRequest
    PROVE  /\ Resolved(es, r) \in Tabled
           /\ EntitiesKept(es, Resolved(es, r))
           /\ \A n \in {r.subject, r.object} \cap Name : Resolved(es, r)[n] # Absent
<1> DEFINE subjects == GetOrCreate(es, r.subject, r.kind)
<1>1. /\ r.subject \in Name /\ r.kind \in Kind \cup {None}
      /\ r.object_kind \in Kind \cup {None}
  BY DEF AddRequest
<1>2. /\ subjects \in Tabled /\ subjects[r.subject] # Absent
      /\ EntitiesKept(es, subjects)
  BY <1>1, GetOrCreateKeeps
<1> HIDE DEF subjects
<1>3. CASE r.object \notin Name
  <2>1. Resolved(es, r) = subjects
    BY <1>3 DEF Resolved, subjects
  <2>2. QED BY <1>2, <1>3, <2>1
<1>4. CASE r.object \in Name
  <2> DEFINE both == GetOrCreate(subjects, r.object, r.object_kind)
  <2>1. Resolved(es, r) = both
    BY <1>4 DEF Resolved, subjects
  <2>2. /\ both \in Tabled /\ both[r.object] # Absent
        /\ EntitiesKept(subjects, both)
    BY <1>1, <1>2, <1>4, GetOrCreateKeeps
  <2> HIDE DEF both
  <2>3. EntitiesKept(es, both) /\ both[r.subject] # Absent
    BY <1>1, <1>2, <2>2 DEF EntitiesKept
  <2>4. QED BY <2>1, <2>2, <2>3
<1>5. QED BY <1>3, <1>4

\* Tables grow by one row whose entities exist.
LEMMA RowAdded ==
    ASSUME NEW db, Sound(db), NEW row \in Fact, NEW es \in Tabled,
           EntitiesKept(db.entities, es),
           \A n \in {row.subject, row.object} \cap Name : es[n] # Absent,
           row.valid_to = None
              => OpenHeads(db.facts, row.subject, row.label, row.object) = {},
           row.supersedes # None =>
              /\ row.supersedes \in OpenHeads(db.facts, row.subject, row.label, row.object)
              /\ row = [db.facts[row.supersedes] EXCEPT !.valid_to = row.valid_to,
                                                        !.supersedes = row.supersedes,
                                                        !.recorded_at = row.recorded_at],
           NEW after, after = [facts |-> Append(db.facts, row), entities |-> es]
    PROVE  Sound(after) /\ Grows(db, after)
<1>1. db.facts \in Seq(Fact) /\ OneHead(db.facts) /\ Chains(db.facts) /\ Named(db)
  BY DEF Sound, Tables
<1>2. after.facts = Append(db.facts, row) /\ after.entities = es
  BY SMTT(30)
<1>3. after \in Tables
  BY <1>1, <1>2, AppendRow, SMTT(30) DEF Tables, Tabled
<1>4. OneHead(after.facts)
  BY <1>1, <1>2, OneHeadAppend
<1>5. Chains(after.facts)
  BY <1>1, <1>2, ChainsAppend
<1>6. /\ Len(db.facts) \in Nat /\ DOMAIN db.facts = 1 .. Len(db.facts)
      /\ Len(after.facts) = Len(db.facts) + 1
      /\ DOMAIN after.facts = 1 .. (Len(db.facts) + 1)
      /\ \A i \in 1 .. Len(db.facts) : after.facts[i] = db.facts[i]
      /\ after.facts[Len(db.facts) + 1] = row
  BY <1>1, <1>2, AppendRow
<1>7. Named(after)
  <2> SUFFICES ASSUME NEW i \in DOMAIN after.facts,
                      NEW n \in {after.facts[i].subject, after.facts[i].object} \cap Name
               PROVE  es[n] # Absent
    BY <1>2 DEF Named
  <2>1. CASE i = Len(db.facts) + 1
    BY <1>6, <2>1
  <2>2. CASE i \in 1 .. Len(db.facts)
    <3>1. db.entities[n] # Absent
      BY <1>1, <1>6, <2>2 DEF Named
    <3>2. QED BY <3>1 DEF EntitiesKept
  <2>3. QED BY <1>6, <2>1, <2>2
<1>8. Grows(db, after)
  BY <1>2, <1>6 DEF Grows
<1>9. QED BY <1>3, <1>4, <1>5, <1>7, <1>8 DEF Sound

LEMMA GrowsTransitive ==
    ASSUME NEW d, NEW e, NEW f, d \in Tables, e \in Tables, f \in Tables,
           Grows(d, e), Grows(e, f)
    PROVE  Grows(d, f)
<1>1. Len(d.facts) \in Nat /\ Len(e.facts) \in Nat /\ Len(f.facts) \in Nat
  BY LenProperties DEF Tables
<1>2. /\ Len(d.facts) <= Len(f.facts)
      /\ \A i \in 1 .. Len(d.facts) : f.facts[i] = d.facts[i]
  BY <1>1 DEF Grows
<1>3. EntitiesKept(d.entities, f.entities)
  BY DEF Grows, EntitiesKept
<1>4. QED BY <1>2, <1>3 DEF Grows

\* add_fact_in_tx.
LEMMA AddSound ==
    ASSUME NEW db, Sound(db), NEW r \in AddRequest, NEW time \in Time
    PROVE  Sound(AddFact(db, r, time)) /\ Grows(db, AddFact(db, r, time))
<1> DEFINE row == [subject |-> r.subject, label |-> r.label, object |-> r.object,
                   valid_from |-> r.valid_from, valid_to |-> r.valid_to,
                   confidence |-> r.confidence, supersedes |-> None, recorded_at |-> time]
           after == AddFact(db, r, time)
           heads == OpenHeads(db.facts, r.subject, r.label, r.object)
<1>1. row \in Fact
  BY DEF Fact, AddRequest
<1>2. db.facts \in Seq(Fact) /\ db.entities \in Tabled
  BY DEF Sound, Tables, Tabled
<1>3. /\ Resolved(db.entities, r) \in Tabled
      /\ EntitiesKept(db.entities, Resolved(db.entities, r))
      /\ \A n \in {r.subject, r.object} \cap Name : Resolved(db.entities, r)[n] # Absent
  BY <1>2, ResolvedKeeps
<1>4. CASE heads = {}
  <2>1. after = [facts |-> Append(db.facts, row), entities |-> Resolved(db.entities, r)]
    BY <1>4 DEF AddFact
  <2>2. /\ row.subject = r.subject /\ row.label = r.label /\ row.object = r.object
        /\ row.supersedes = None
    OBVIOUS
  <2> HIDE DEF row
  <2>3. QED BY <1>1, <1>3, <1>4, <2>1, <2>2, RowAdded
<1>5. CASE heads # {}
  <2>1. after = [facts |-> db.facts, entities |-> Resolved(db.entities, r)]
    BY <1>5 DEF AddFact
  <2>2. after.facts = db.facts /\ after.entities = Resolved(db.entities, r)
    BY <2>1
  <2>3. after \in Tables
    BY <1>2, <1>3, <2>1 DEF Tables, Tabled
  <2>4. Named(after)
    BY <1>3, <2>2 DEF Named, Sound, EntitiesKept
  <2>5. Grows(db, after)
    <3>1. Len(db.facts) \in Nat
      BY <1>2, LenProperties
    <3>2. QED BY <1>3, <2>2, <3>1 DEF Grows
  <2>6. QED BY <2>2, <2>3, <2>4, <2>5 DEF Sound
<1>6. QED BY <1>4, <1>5

\* invalidate_in_tx closes the open head.
LEMMA CloseSound ==
    ASSUME NEW db, Sound(db), NEW r \in Request, r.op # "add",
           NEW at \in Time, NEW time \in Time, ~NotFound(db, r)
    PROVE  Sound(Close(db, r, at, time)) /\ Grows(db, Close(db, r, at, time))
<1> DEFINE i == Head1(db.facts, r.subject, r.label, r.object)
           row == [db.facts[i] EXCEPT !.valid_to = at, !.supersedes = i, !.recorded_at = time]
           after == Close(db, r, at, time)
<1>1. i \in OpenHeads(db.facts, r.subject, r.label, r.object)
  BY DEF NotFound, Head1
<1>2. /\ db.facts \in Seq(Fact) /\ db.entities \in Tabled
      /\ db = [facts |-> db.facts, entities |-> db.entities]
  BY DEF Sound, Tables, Tabled
<1>3. /\ i \in DOMAIN db.facts /\ db.facts[i].subject = r.subject
      /\ db.facts[i].label = r.label /\ db.facts[i].object = r.object
  BY <1>1 DEF OpenHeads
<1>4. i \in Nat /\ db.facts[i] \in Fact
  BY <1>2, <1>3, LenProperties, ElementOfSeq
<1>5. after = [facts |-> Append(db.facts, row), entities |-> db.entities]
  BY <1>2, SMTT(30) DEF Close
<1> HIDE DEF i
<1>6. row \in Fact
  BY <1>4 DEF Fact
<1>7. /\ row.valid_to = at /\ row.supersedes = i /\ row.recorded_at = time
      /\ row.subject = db.facts[i].subject /\ row.label = db.facts[i].label
      /\ row.object = db.facts[i].object
  BY <1>4 DEF Fact
<1>8. row = [db.facts[row.supersedes] EXCEPT !.valid_to = row.valid_to,
                                             !.supersedes = row.supersedes,
                                             !.recorded_at = row.recorded_at]
  BY <1>7
<1> HIDE DEF row
<1>9. \A n \in {row.subject, row.object} \cap Name : db.entities[n] # Absent
  BY <1>3, <1>7 DEF Sound, Named
<1>10. EntitiesKept(db.entities, db.entities)
  BY DEF EntitiesKept
<1>11. row.valid_to # None
  BY <1>7, GraphAssumption
<1>12. row.supersedes \in OpenHeads(db.facts, row.subject, row.label, row.object)
  BY <1>1, <1>3, <1>7
<1>13. QED BY <1>2, <1>5, <1>6, <1>8, <1>9, <1>10, <1>11, <1>12, RowAdded, ZenonT(40)

LEMMA RequestType ==
    ASSUME NEW r \in Request, NEW time \in Time
    PROVE  /\ r.op = "add" => r \in AddRequest
           /\ r.op \in {"add", "invalidate", "supersede"}
           /\ r.op # "add" => At(r, time) \in Time
           /\ r.op = "supersede" => Replacement(r, time) \in AddRequest
<1>1. CASE r \in AddRequest
  BY <1>1 DEF AddRequest
<1>2. CASE r \in InvalidateRequest
  BY <1>2 DEF InvalidateRequest, At
<1>3. CASE r \in SupersedeRequest
  BY <1>3, GraphAssumption DEF SupersedeRequest, AddRequest, Replacement, At
<1>4. QED BY <1>1, <1>2, <1>3, GraphAssumption

\* A call that does not fail.
LEMMA ResultSound ==
    ASSUME NEW db, Sound(db), NEW r \in Request, NEW time \in Time, ~Fails(db, r, time)
    PROVE  Sound(Result(db, r, time)) /\ Grows(db, Result(db, r, time))
<1> USE RequestType
<1>1. CASE r.op = "add"
  <2>1. Result(db, r, time) = AddFact(db, r, time)
    BY <1>1 DEF Result
  <2>2. QED BY <1>1, <2>1, AddSound
<1>2. CASE r.op = "invalidate"
  <2>1. Result(db, r, time) = Close(db, r, At(r, time), time) /\ ~NotFound(db, r)
    BY <1>2 DEF Result, Fails
  <2>2. QED BY <1>2, <2>1, CloseSound
<1>3. CASE r.op = "supersede"
  <2> DEFINE closed == Closed(db, r, time)
  <2>1. Result(db, r, time) = AddFact(closed, Replacement(r, time), time)
    BY <1>3 DEF Result
  <2>2. Sound(closed) /\ Grows(db, closed)
    <3>1. CASE NotFound(db, r)
      <4>1. closed = db
        BY <3>1 DEF Closed
      <4>2. Len(db.facts) \in Nat
        BY LenProperties DEF Sound, Tables
      <4>3. QED BY <4>1, <4>2 DEF Grows, EntitiesKept
    <3>2. CASE ~NotFound(db, r)
      <4>1. closed = Close(db, r, At(r, time), time)
        BY <3>2 DEF Closed
      <4>2. QED BY <1>3, <3>2, <4>1, CloseSound
    <3>3. QED BY <3>1, <3>2
  <2> HIDE DEF closed
  <2>3. Sound(Result(db, r, time)) /\ Grows(closed, Result(db, r, time))
    BY <1>3, <2>1, <2>2, AddSound
  <2>4. QED BY <2>2, <2>3, GrowsTransitive DEF Sound
<1>4. QED BY <1>1, <1>2, <1>3

\* A supersede closes the old fact, if it stands, and opens the new one.
LEMMA SupersedeReplaces ==
    ASSUME NEW db, Sound(db), NEW r \in Request, r.op = "supersede", NEW time \in Time
    PROVE  Replaced(Result(db, r, time).facts, r)
<1> DEFINE closed == Closed(db, r, time)
           new == Replacement(r, time)
           row == [subject |-> new.subject, label |-> new.label, object |-> new.object,
                   valid_from |-> new.valid_from, valid_to |-> new.valid_to,
                   confidence |-> new.confidence, supersedes |-> None, recorded_at |-> time]
<1>1. new \in AddRequest /\ At(r, time) \in Time
  BY RequestType
<1>2. new.subject = r.subject /\ new.label = r.label /\ new.object = r.new /\ new.valid_to = None
  BY DEF Replacement
<1> HIDE DEF new
<1>3. row \in Fact
  BY <1>1 DEF Fact, AddRequest
<1>4. Sound(closed) /\ OpenHeads(closed.facts, r.subject, r.label, r.object) = {}
  <2>1. CASE NotFound(db, r)
    BY <2>1 DEF Closed, NotFound
  <2>2. CASE ~NotFound(db, r)
    <3> DEFINE i == Head1(db.facts, r.subject, r.label, r.object)
               closing == [db.facts[i] EXCEPT !.valid_to = At(r, time), !.supersedes = i,
                                              !.recorded_at = time]
    <3>1. closed = Close(db, r, At(r, time), time)
      BY <2>2 DEF Closed
    <3>2. Sound(closed)
      BY <1>1, <2>2, <3>1, CloseSound
    <3>3. db.facts \in Seq(Fact) /\ db \in Tables /\ OneHead(db.facts)
      BY DEF Sound, Tables
    <3>4. closed.facts = Append(db.facts, closing)
      BY <3>1, <3>3 DEF Close, Tables
    <3>5. i \in OpenHeads(db.facts, r.subject, r.label, r.object)
      BY <2>2 DEF NotFound, Head1
    <3> HIDE DEF i
    <3>6. i \in DOMAIN db.facts /\ db.facts[i] \in Fact /\ i \in Nat
      BY <3>3, <3>5, LenProperties, ElementOfSeq DEF OpenHeads
    <3>7. closing \in Fact /\ closing.valid_to # None /\ closing.supersedes = i
      BY <1>1, <3>6, GraphAssumption DEF Fact
    <3> HIDE DEF closing
    <3>8. ASSUME NEW k \in OpenHeads(closed.facts, r.subject, r.label, r.object) PROVE FALSE
      <4>1. k \in OpenHeads(db.facts, r.subject, r.label, r.object) /\ i # k
        BY <3>3, <3>4, <3>7, <3>8, HeadsAfterAppend
      <4>2. k \in DOMAIN db.facts /\ db.facts[i].subject = r.subject
            /\ db.facts[i].label = r.label /\ db.facts[i].object = r.object
        BY <3>5, <4>1 DEF OpenHeads
      <4>3. QED BY <3>3, <3>5, <3>6, <4>1, <4>2 DEF OneHead
    <3>9. QED BY <3>2, <3>8
  <2>3. QED BY <2>1, <2>2
<1>5. Result(db, r, time) = AddFact(closed, new, time)
  BY DEF Result, new
<1> HIDE DEF closed
<1>6. CASE OpenHeads(closed.facts, r.subject, r.label, r.new) # {}
  <2>1. Result(db, r, time).facts = closed.facts
    BY <1>2, <1>5, <1>6, SMTT(30) DEF AddFact
  <2>2. QED BY <1>4, <1>6, <2>1 DEF Replaced
<1>7. CASE OpenHeads(closed.facts, r.subject, r.label, r.new) = {}
  <2> DEFINE gs == Append(closed.facts, row)
             n == Len(closed.facts) + 1
  <2>1. Result(db, r, time).facts = gs
    BY <1>2, <1>5, <1>7 DEF AddFact
  <2>2. closed.facts \in Seq(Fact) /\ Chains(closed.facts)
    BY <1>4 DEF Sound, Tables
  <2>3. /\ row.subject = r.subject /\ row.label = r.label /\ row.object = r.new
        /\ row.valid_to = None /\ row.supersedes = None
    BY <1>2
  <2> HIDE DEF row
  <2>4. /\ Len(closed.facts) \in Nat /\ DOMAIN closed.facts = 1 .. Len(closed.facts)
        /\ DOMAIN gs = 1 .. n /\ gs[n] = row
        /\ \A k \in 1 .. Len(closed.facts) : gs[k] = closed.facts[k]
    BY <1>3, <2>2, AppendRow
  <2>5. ASSUME NEW o, NEW k \in OpenHeads(gs, r.subject, r.label, o)
        PROVE  k \in OpenHeads(closed.facts, r.subject, r.label, o) \/ o = r.new
    BY <1>3, <2>2, <2>3, <2>5, HeadsAfterAppend
  <2> HIDE DEF gs
  <2>6. ASSUME NEW k \in DOMAIN gs PROVE gs[k].supersedes # n
    <3>1. CASE k = n
      BY <2>3, <2>4, <3>1, GraphAssumption
    <3>2. CASE k \in 1 .. Len(closed.facts)
      <4>1. \/ closed.facts[k].supersedes = None
            \/ closed.facts[k].supersedes \in 1 .. (k - 1)
        BY <2>2, <2>4, <3>2 DEF Chains, Revises
      <4>2. QED BY <2>4, <3>2, <4>1, GraphAssumption, SMTT(30)
    <3>3. QED BY <2>4, <2>6, <3>1, <3>2
  <2>7. n \in OpenHeads(gs, r.subject, r.label, r.new)
    BY <2>3, <2>4, <2>6 DEF OpenHeads
  <2>8. QED BY <1>4, <2>1, <2>5, <2>7 DEF Replaced
<1>8. QED BY <1>6, <1>7

-----------------------------------------------------------------------------
(* The transactions.                                                       *)

\* Tables that grow keep their rows as a prefix, and the rows a transaction
\* appends to it are the tables it saw.
LEMMA RowsAppended ==
    ASSUME NEW fs \in Seq(Fact), NEW gs \in Seq(Fact), Len(fs) <= Len(gs),
           \A i \in 1 .. Len(fs) : gs[i] = fs[i]
    PROVE  SubSeq(gs, 1, Len(fs)) = fs /\ fs \o SubSeq(gs, Len(fs) + 1, Len(gs)) = gs
<1>1. Len(fs) \in Nat /\ Len(gs) \in Nat
  BY LenProperties
<1>2. \A i \in 1 .. Len(gs) : gs[i] \in Fact
  BY ElementOfSeq
<1>3. /\ SubSeq(gs, 1, Len(fs)) \in Seq(Fact)
      /\ Len(SubSeq(gs, 1, Len(fs))) = Len(fs)
      /\ \A i \in 1 .. Len(fs) : SubSeq(gs, 1, Len(fs))[i] = gs[i]
  <2>1. \A i \in 1 .. Len(fs) : gs[i] \in Fact
    BY <1>1, <1>2
  <2>2. /\ SubSeq(gs, 1, Len(fs)) \in Seq(Fact)
        /\ Len(SubSeq(gs, 1, Len(fs))) = IF 1 <= Len(fs) THEN Len(fs) - 1 + 1 ELSE 0
        /\ \A i \in 1 .. Len(fs) - 1 + 1 : SubSeq(gs, 1, Len(fs))[i] = gs[1 + i - 1]
    BY <1>1, <2>1, SubSeqProperties
  <2>3. QED BY <1>1, <2>2
<1>4. SubSeq(gs, 1, Len(fs)) = fs
  BY <1>3, SeqEqual
<1>5. SubSeq(gs, 1, Len(fs)) \o SubSeq(gs, Len(fs) + 1, Len(gs)) = SubSeq(gs, 1, Len(gs))
  <2>1. /\ 1 \in 1 .. Len(gs) + 1 /\ Len(fs) \in 1 - 1 .. Len(gs)
        /\ Len(gs) \in Len(fs) .. Len(gs)
    BY <1>1
  <2>2. QED BY <2>1, ConcatAdjacentSubSeq
<1>6. QED BY <1>4, <1>5, SubSeqFull

\* A COMMIT leaves exactly the tables its transaction saw.
LEMMA CommitTables ==
    ASSUME TypeOK, NEW t \in Thread, Writing(t), Commit(t)
    PROVE  /\ facts' = tx[t].facts /\ entities' = tx[t].entities
           /\ SubSeq(facts', 1, Len(facts)) = facts
<1>1. facts \in Seq(Fact) /\ tx[t].facts \in Seq(Fact)
  BY DEF TypeOK, Writing, Sound, Tables
<1>2. /\ snapshot[t] = Len(facts) /\ Len(facts) <= Len(tx[t].facts)
      /\ \A i \in 1 .. Len(facts) : tx[t].facts[i] = facts[i]
  BY DEF Writing, Grows, Committed
<1>3. /\ SubSeq(tx[t].facts, 1, Len(facts)) = facts
      /\ facts \o SubSeq(tx[t].facts, Len(facts) + 1, Len(tx[t].facts)) = tx[t].facts
  BY <1>1, <1>2, RowsAppended
<1>4. facts' = tx[t].facts /\ entities' = tx[t].entities
  BY <1>2, <1>3 DEF Commit, NewRows
<1>5. QED BY <1>3, <1>4

LEMMA InitInv == Init => TypeOK /\ Transactions
<1> SUFFICES ASSUME Init PROVE TypeOK /\ Transactions
  OBVIOUS
<1>1. facts = << >> /\ facts \in Seq(Fact) /\ DOMAIN facts = {} /\ Len(facts) = 0
  BY EmptySeq, LenProperties DEF Init
<1>2. entities \in Tabled /\ NoTables \in Tables /\ Committed \in Tables
  BY <1>1 DEF Init, Tabled, Tables, NoTables, Committed
<1>3. TypeOK
  BY <1>1, <1>2, GraphAssumption DEF Init, TypeOK, Tabled, Time
<1>4. Sound(Committed)
  BY <1>1, <1>2 DEF Sound, Committed, OneHead, Chains, Named
<1>5. QED BY <1>3, <1>4 DEF Init, Transactions, Idle

\* The tables of the file stay sound: only COMMIT changes them.
LEMMA NextTables ==
    ASSUME TypeOK, Transactions, [Next]_vars
    PROVE  Sound(Committed')
<1>1. CASE UNCHANGED <<facts, entities>>
  BY <1>1 DEF Transactions, Committed
<1>2. ASSUME NEW t \in Thread, Commit(t) PROVE Sound(Committed')
  <2>1. Writing(t)
    BY <1>2 DEF Transactions, Commit
  <2>2. facts' = tx[t].facts /\ entities' = tx[t].entities
    BY <1>2, <2>1, CommitTables
  <2>3. tx[t] = Committed' /\ Sound(tx[t])
    BY <2>1, <2>2 DEF Writing, Sound, Tables, Committed
  <2>4. QED BY <2>3
<1>3. QED
  BY <1>1, <1>2 DEF Next, vars, Tick, Crash, Begin, Standing, Execute, Rollback, Call

\* The types of the variables of the tables and of the callers.
LEMMA NextType ==
    ASSUME TypeOK, Transactions, [Next]_vars
    PROVE  TypeOK'
<1> USE DEF TypeOK
<1>1. /\ facts' \in Seq(Fact) /\ entities' \in [Name -> Kind \cup {None, Absent}]
      /\ \A i \in DOMAIN facts' : \A n \in {facts'[i].subject, facts'[i].object} \cap Name :
            entities'[n] # Absent
  BY NextTables DEF Sound, Tables, Named, Committed
<1>2. NoTables \in Tables /\ 0 \in Time
  BY EmptySeq, GraphAssumption DEF NoTables, Tables, Time
<1>3. CASE Tick
  BY <1>1, <1>3, GraphAssumption DEF Tick, Time
<1>4. ASSUME NEW s \in Store, Crash(s) PROVE TypeOK'
  BY <1>1, <1>2, <1>4 DEF Crash
<1>5. ASSUME NEW t \in Thread, Begin(t) PROVE TypeOK'
  <2>1. Len(facts) \in Nat /\ Committed \in Tables
    BY LenProperties DEF Committed, Tables
  <2>2. QED BY <1>1, <1>5, <2>1, GraphAssumption DEF Begin, Committed
<1>6. ASSUME NEW t \in Thread, Standing(t) PROVE TypeOK'
  BY <1>1, <1>2, <1>6, GraphAssumption DEF Standing, Release
<1>7. ASSUME NEW t \in Thread, Execute(t) PROVE TypeOK'
  <2>1. Sound(tx[t]) /\ request[t] \in Request /\ now[t] \in Time
    BY <1>7 DEF Execute, Transactions, Reading
  <2>2. Result(tx[t], request[t], now[t]) \in Tables
    BY <1>7, <2>1, ResultSound DEF Execute, Sound
  <2>3. QED BY <1>1, <1>7, <2>2 DEF Execute
<1>8. ASSUME NEW t \in Thread, Commit(t) PROVE TypeOK'
  BY <1>1, <1>2, <1>8, GraphAssumption DEF Commit, Release
<1>9. ASSUME NEW t \in Thread, Rollback(t) PROVE TypeOK'
  BY <1>1, <1>2, <1>9, GraphAssumption DEF Rollback, Release
<1>10. ASSUME NEW t \in Thread, NEW r \in Request, Call(t, r) PROVE TypeOK'
  BY <1>1, <1>10 DEF Call
<1>11. CASE UNCHANGED vars
  BY <1>1, <1>11 DEF vars
<1>12. QED
  BY <1>3, <1>4, <1>5, <1>6, <1>7, <1>8, <1>9, <1>10, <1>11 DEF Next

\* What a thread knows stays true while its variables and the tables do not
\* change, and while another thread commits, which only readers survive.
LEMMA OtherThread ==
    ASSUME NEW u \in Thread, Transactions,
           pc'[u] = pc[u], request'[u] = request[u], tx'[u] = tx[u],
           snapshot'[u] = snapshot[u],
           pc[u] = "writing" => db_lock' = u /\ UNCHANGED <<facts, entities>>
    PROVE  /\ pc'[u] = "idle" => Idle(u)'
           /\ pc'[u] = "called" => request'[u] \in Request
           /\ pc'[u] = "reading" => Reading(u)'
           /\ pc'[u] = "writing" => Writing(u)'
BY DEF Transactions, Idle, Reading, Writing, Committed

LEMMA NextTransactions ==
    ASSUME TypeOK, Transactions, [Next]_vars
    PROVE  Transactions'
<1> DEFINE Waits(u) == /\ pc'[u] = "idle" => Idle(u)'
                       /\ pc'[u] = "called" => request'[u] \in Request
                       /\ pc'[u] = "reading" => Reading(u)'
                       /\ pc'[u] = "writing" => Writing(u)'
<1>1. Sound(Committed')
  BY NextTables
<1> SUFFICES ASSUME NEW u \in Thread PROVE Waits(u)
  BY <1>1 DEF Transactions
<1>2. /\ pc[u] = "writing" => db_lock = u
      /\ u # None
  BY GraphAssumption DEF Transactions, Writing
<1>t. /\ pc \in [Thread -> {"idle", "called", "reading", "writing"}]
      /\ request \in [Thread -> Request \cup {None}]
      /\ tx \in [Thread -> Tables] /\ snapshot \in [Thread -> Nat]
  BY DEF TypeOK
<1>3. CASE Tick \/ UNCHANGED vars
  BY <1>2, <1>3, OtherThread DEF Tick, vars
<1>4. ASSUME NEW s \in Store, Crash(s) PROVE Waits(u)
  <2>1. CASE StoreOf[u] = s
    BY <1>t, <1>4, <2>1 DEF Crash, Idle
  <2>2. CASE StoreOf[u] # s
    <3>1. /\ pc'[u] = pc[u] /\ request'[u] = request[u] /\ tx'[u] = tx[u]
          /\ snapshot'[u] = snapshot[u]
      BY <1>t, <1>4, <2>2 DEF Crash
    <3>2. pc[u] = "writing" => db_lock' = u /\ UNCHANGED <<facts, entities>>
      BY <1>2, <1>4, <2>2 DEF Crash
    <3>3. QED BY <3>1, <3>2, OtherThread
  <2>3. QED BY <2>1, <2>2
<1>5. ASSUME NEW t \in Thread, Begin(t) PROVE Waits(u)
  <2>1. CASE u = t
    <3>1. /\ pc'[u] = "reading" /\ request'[u] = request[u] /\ request[u] \in Request
          /\ tx'[u] = Committed /\ snapshot'[u] = Len(facts)
      BY <1>t, <1>5, <2>1 DEF Begin, Committed, Transactions
    <3>2. Sound(Committed) /\ Committed.facts = facts
      BY DEF Transactions, Committed
    <3>3. QED BY <3>1, <3>2 DEF Reading
  <2>2. CASE u # t
    <3>1. /\ pc'[u] = pc[u] /\ request'[u] = request[u] /\ tx'[u] = tx[u]
          /\ snapshot'[u] = snapshot[u]
      BY <1>t, <1>5, <2>2 DEF Begin
    <3>2. QED BY <1>2, <1>5, <3>1, OtherThread DEF Begin
  <2>3. QED BY <2>1, <2>2
<1>6. ASSUME NEW t \in Thread, Release(t),
             u # t => (pc[u] = "writing" => db_lock' = u /\ UNCHANGED <<facts, entities>>)
      PROVE  Waits(u)
  <2>1. CASE u = t
    BY <1>t, <1>6, <2>1 DEF Release, Idle
  <2>2. CASE u # t
    <3>1. /\ pc'[u] = pc[u] /\ request'[u] = request[u] /\ tx'[u] = tx[u]
          /\ snapshot'[u] = snapshot[u]
      BY <1>t, <1>6, <2>2 DEF Release
    <3>2. QED BY <1>6, <2>2, <3>1, OtherThread
  <2>3. QED BY <2>1, <2>2
<1>7. ASSUME NEW t \in Thread, Standing(t) PROVE Waits(u)
  BY <1>2, <1>6, <1>7 DEF Standing
<1>8. ASSUME NEW t \in Thread, Rollback(t) PROVE Waits(u)
  BY <1>2, <1>6, <1>8 DEF Rollback
<1>9. ASSUME NEW t \in Thread, Commit(t) PROVE Waits(u)
  <2>1. db_lock = t
    BY <1>9 DEF Commit, Transactions, Writing
  <2>2. QED BY <1>2, <1>6, <1>9, <2>1 DEF Commit
<1>10. ASSUME NEW t \in Thread, Execute(t) PROVE Waits(u)
  <2>1. CASE u = t
    <3> DEFINE after == Result(tx[t], request[t], now[t])
    <3>1. Reading(t) /\ now[t] \in Time /\ tx[t] = Committed
      BY <1>10 DEF Execute, Transactions, TypeOK, Current, Committed
    <3>2. Sound(after) /\ Grows(Committed, after)
      BY <1>10, <3>1, ResultSound DEF Execute, Reading
    <3>3. /\ pc'[u] = "writing" /\ db_lock' = u /\ request'[u] = request[u]
          /\ tx'[u] = after /\ snapshot'[u] = snapshot[u] /\ UNCHANGED <<facts, entities>>
      BY <1>t, <1>10, <2>1 DEF Execute
    <3> HIDE DEF after
    <3>4. request[u] \in Request /\ snapshot[u] = Len(facts)
      BY <2>1, <3>1 DEF Reading, Committed
    <3>5. request[u].op = "supersede" => Replaced(after.facts, request[u])
      BY <2>1, <3>1, SupersedeReplaces DEF Reading, after
    <3>6. QED BY <3>2, <3>3, <3>4, <3>5 DEF Writing, Committed
  <2>2. CASE u # t
    <3>1. /\ pc'[u] = pc[u] /\ request'[u] = request[u] /\ tx'[u] = tx[u]
          /\ snapshot'[u] = snapshot[u]
      BY <1>t, <1>10, <2>2 DEF Execute
    <3>2. pc[u] # "writing"
      BY <1>2, <1>10 DEF Execute
    <3>3. QED BY <3>1, <3>2, OtherThread
  <2>3. QED BY <2>1, <2>2
<1>11. ASSUME NEW t \in Thread, NEW r \in Request, Call(t, r) PROVE Waits(u)
  <2>1. CASE u = t
    BY <1>t, <1>11, <2>1 DEF Call
  <2>2. CASE u # t
    <3>1. /\ pc'[u] = pc[u] /\ request'[u] = request[u] /\ tx'[u] = tx[u]
          /\ snapshot'[u] = snapshot[u]
      BY <1>t, <1>11, <2>2 DEF Call
    <3>2. QED BY <1>2, <1>11, <3>1, OtherThread DEF Call
  <2>3. QED BY <2>1, <2>2
<1>12. QED
  BY <1>3, <1>4, <1>5, <1>7, <1>8, <1>9, <1>10, <1>11 DEF Next

\* In every reachable state the types are right and what each transaction
\* relies on is true: the file holds sound tables, a reader has sound tables,
\* and a writer holds the lock and sees the file plus its own rows.
THEOREM TransactionsInvariant == Spec => [](TypeOK /\ Transactions)
<1>1. Init => TypeOK /\ Transactions
  BY InitInv
<1>2. TypeOK /\ Transactions /\ [Next]_vars => (TypeOK /\ Transactions)'
  BY NextType, NextTransactions
<1>3. QED BY <1>1, <1>2, PTL DEF Spec

\* The tables of the file have their types, and every fact's entities exist.
THEOREM FactTypes == Spec => []TypeOK
<1>1. TypeOK /\ Transactions => TypeOK
  OBVIOUS
<1>2. QED BY <1>1, TransactionsInvariant, PTL

\* A triple never has two open facts, whatever any number of threads and
\* processes add, close and replace concurrently (add_fact_in_tx,
\* invalidate_in_tx, supersede_fact).
THEOREM OneHeadEver == Spec => []OneOpenHead
<1>1. TypeOK /\ Transactions => OneOpenHead
  BY SMTT(30) DEF Transactions, Sound, Committed, OneHead, OneOpenHead
<1>2. QED BY <1>1, TransactionsInvariant, PTL

\* A revision chain never forks (invalidate_in_tx).
THEOREM NoForks == Spec => []ChainsNeverFork
<1>1. TypeOK /\ Transactions => ChainsNeverFork
  BY DEF Transactions, Sound, Committed, Chains, Revises, ChainsNeverFork
<1>2. QED BY <1>1, TransactionsInvariant, PTL

\* No row and no entity is lost or rewritten, although writers work on
\* snapshots (insert_fact_row, get_or_create_entity).
THEOREM HistoryIsKept == Spec => HistoryKept
<1> DEFINE Kept == /\ SubSeq(facts', 1, Len(facts)) = facts
                   /\ EntitiesKept(entities, entities')
<1>1. TypeOK /\ Transactions /\ [Next]_vars => Kept
  <2> SUFFICES ASSUME TypeOK, Transactions, [Next]_vars PROVE Kept
    OBVIOUS
  <2>1. CASE UNCHANGED <<facts, entities>>
    <3>1. facts \in Seq(Fact)
      BY DEF TypeOK
    <3>2. QED BY <2>1, <3>1, SubSeqFull DEF EntitiesKept
  <2>2. ASSUME NEW t \in Thread, Commit(t) PROVE Kept
    <3>1. Writing(t)
      BY <2>2 DEF Transactions, Commit
    <3>2. EntitiesKept(entities, tx[t].entities)
      BY <3>1 DEF Writing, Grows, Committed
    <3>3. QED BY <2>2, <3>1, <3>2, CommitTables
  <2>3. QED
    BY <2>1, <2>2 DEF Next, vars, Tick, Crash, Begin, Standing, Execute, Rollback, Call
<1>2. Kept => \/ /\ SubSeq(facts', 1, Len(facts)) = facts
                 /\ \A n \in Name : /\ entities[n] # Absent => entities'[n] # Absent
                                    /\ entities[n] \in Kind => entities'[n] = entities[n]
  BY DEF EntitiesKept
<1>3. QED BY <1>1, <1>2, TransactionsInvariant, PTL DEF Spec, HistoryKept

\* A supersede that commits replaces the fact: both rows or neither, under
\* every interleaving, failure and crash (supersede_fact).
THEOREM SupersedeIsAtomic == Spec => SupersedeAtomic
<1> DEFINE Whole == \A t \in Thread :
                       pc[t] = "writing" /\ request[t].op = "supersede" /\ facts' # facts
                          => Replaced(facts', request[t])
<1>1. TypeOK /\ Transactions /\ [Next]_vars => Whole
  <2> SUFFICES ASSUME TypeOK, Transactions, [Next]_vars,
                      NEW t \in Thread, pc[t] = "writing",
                      request[t].op = "supersede", facts' # facts
               PROVE  Replaced(facts', request[t])
    OBVIOUS
  <2>1. PICK u \in Thread : Commit(u)
    BY DEF Next, vars, Tick, Crash, Begin, Standing, Execute, Rollback, Call
  <2>2. Writing(t) /\ Writing(u)
    BY <2>1 DEF Transactions, Commit
  <2>3. u = t
    BY <2>2 DEF Writing
  <2>4. facts' = tx[t].facts
    BY <2>1, <2>2, <2>3, CommitTables
  <2>5. QED BY <2>2, <2>4 DEF Writing
<1>2. Whole => \A t \in Thread :
                  pc[t] = "writing" /\ request[t].op = "supersede" /\ facts' # facts =>
                    LET r == request[t]
                    IN /\ OpenHeads(facts', r.subject, r.label, r.new) # {}
                       /\ r.new = r.object
                          \/ OpenHeads(facts', r.subject, r.label, r.object) = {}
  BY DEF Replaced
<1>3. QED BY <1>1, <1>2, TransactionsInvariant, PTL DEF Spec, SupersedeAtomic


-----------------------------------------------------------------------------
(* Reads. *)

\* The last row of a fact is its head: a row that superseded it would be a
\* later one of the same fact.
LEMMA LastIsHead ==
    ASSUME TypeOK, ChainsNeverFork, NEW i \in DOMAIN facts
    PROVE  \E j \in DOMAIN facts :
              /\ facts[j].subject = facts[i].subject /\ facts[j].object = facts[i].object
              /\ facts[j].label = facts[i].label
              /\ \A k \in DOMAIN facts : facts[k].supersedes # j
<1> DEFINE N == Len(facts)
           Same(j) == /\ facts[j].subject = facts[i].subject
                      /\ facts[j].object = facts[i].object
                      /\ facts[j].label = facts[i].label
           T == {n \in 0 .. N : N - n \in DOMAIN facts /\ Same(N - n)}
<1>1. N \in Nat /\ DOMAIN facts = 1 .. N BY DEF TypeOK
<1> HIDE DEF N
<1>2. N - i \in T BY <1>1
<1>3. T \in SUBSET Nat BY <1>1
<1>4. PICK n \in T : \A m \in T : n <= m
  <2> HIDE DEF T
  <2>1. QED BY <1>2, <1>3, Least
<1> DEFINE j == N - n
<1>5. j \in DOMAIN facts /\ Same(j) BY <1>4
<1>6. ASSUME NEW k \in DOMAIN facts, facts[k].supersedes = j PROVE FALSE
  <2>1. facts[k].supersedes # None
    <3>1. j \in Nat BY <1>1, <1>5, SMTT(30)
    <3>2. QED BY <1>6, <3>1, GraphAssumption, SMTT(30)
  <2>2. /\ j \in 1 .. (k - 1)
        /\ facts[k] = [facts[j] EXCEPT !.valid_to = facts[k].valid_to, !.supersedes = j,
                                       !.recorded_at = facts[k].recorded_at]
    BY <1>6, <2>1 DEF ChainsNeverFork
  <2>3. facts[j] \in Fact BY <1>5 DEF TypeOK
  <2>4. Same(k)
    <3>1. /\ facts[k].subject = facts[j].subject /\ facts[k].object = facts[j].object
          /\ facts[k].label = facts[j].label
      BY <2>2, <2>3 DEF Fact
    <3>2. QED BY <1>5, <3>1
  <2>5. N - k \in T /\ N - (N - k) = k
    <3>1. k \in 1 .. N BY <1>1
    <3>2. N - (N - k) = k /\ N - k \in 0 .. N BY <1>1, <3>1
    <3>3. QED BY <2>4, <3>2
  <2>6. n <= N - k BY <1>4, <2>5
  <2>7. k \in Nat /\ n \in Nat /\ j <= k - 1 BY <1>1, <1>4, <2>2
  <2>8. QED BY <1>1, <2>6, <2>7
<1>7. QED BY <1>5, <1>6

LEMMA EntitiesCovered ==
    ASSUME TypeOK, ChainsNeverFork, NEW k \in 0 .. Len(facts), NEW scope \in ScopeFilter
    PROVE  Covered(k, scope)
<1> DEFINE before == SubSeq(facts, 1, k)
<1>1. Len(facts) \in Nat /\ DOMAIN facts = 1 .. Len(facts) BY DEF TypeOK
<1>2. DOMAIN before = 1 .. k /\ \A i \in 1 .. k : before[i] = facts[i]
  <2>1. \A i \in 1 .. k : facts[i] \in Fact BY <1>1 DEF TypeOK
  <2>2. /\ before \in Seq(Fact) /\ Len(before) = IF 1 <= k THEN k - 1 + 1 ELSE 0
        /\ \A i \in 1 .. k - 1 + 1 : before[i] = facts[1 + i - 1]
    BY <1>1, <2>1, SubSeqProperties
  <2> HIDE DEF before
  <2>3. QED BY <1>1, <2>2
<1> HIDE DEF before
<1>3. ASSUME NEW n \in Name, NEW i \in DOMAIN facts, InScope(facts[i], scope), Touches(facts[i], n)
      PROVE  n \in Known(entities) /\ \E j \in AnyHead(facts, scope) : Touches(facts[j], n)
  <2>1. entities[n] # Absent BY <1>3 DEF TypeOK, Touches
  <2>2. PICK j \in DOMAIN facts :
              /\ facts[j].subject = facts[i].subject /\ facts[j].object = facts[i].object
              /\ facts[j].label = facts[i].label
              /\ \A m \in DOMAIN facts : facts[m].supersedes # j
    BY LastIsHead
  <2>3. j \in AnyHead(facts, scope)
    BY <1>3, <2>2 DEF AnyHead, NewestSeen, RecordedBy, InScope
  <2>4. Touches(facts[j], n) BY <1>3, <2>2 DEF Touches
  <2>5. QED BY <2>1, <2>3, <2>4 DEF Known
<1> DEFINE touched == {n \in Name : \E i \in AnyHead(before, scope) : Touches(before[i], n)}
           listed == {n \in Known(entities) :
                         scope = None \/ \E i \in AnyHead(facts, scope) : Touches(facts[i], n)}
<1>4. \A n \in Name : FactCount(n, scope) > 0
         <=> \E i \in AnyHead(facts, scope) : Touches(facts[i], n)
  <2> SUFFICES ASSUME NEW n \in Name
               PROVE  FactCount(n, scope) > 0 <=> \E i \in AnyHead(facts, scope) : Touches(facts[i], n)
    OBVIOUS
  <2> DEFINE S == {i \in AnyHead(facts, scope) : Touches(facts[i], n)}
  <2>1. S \subseteq 1 .. Len(facts) BY <1>1 DEF AnyHead, NewestSeen
  <2>2. IsFiniteSet(S)
    <3>1. IsFiniteSet(1 .. Len(facts)) BY <1>1, FS_Interval
    <3>2. QED BY <2>1, <3>1, FS_Subset
  <2>3. Cardinality(S) \in Nat /\ (Cardinality(S) = 0 <=> S = {})
    BY <2>2, FS_CardinalityType, FS_EmptySet
  <2>4. FactCount(n, scope) = Cardinality(S) BY DEF FactCount
  <2>5. S # {} <=> \E i \in AnyHead(facts, scope) : Touches(facts[i], n) OBVIOUS
  <2> HIDE DEF S
  <2>6. QED BY <2>3, <2>4, <2>5
<1>5. Entities(scope, None) = listed BY <1>4 DEF Entities, Known
<1>6. touched \subseteq listed
  <2> SUFFICES ASSUME NEW n \in touched PROVE n \in listed OBVIOUS
  <2>1. PICK i \in AnyHead(before, scope) : Touches(before[i], n) OBVIOUS
  <2>2. i \in 1 .. k /\ i \in DOMAIN facts /\ before[i] = facts[i] /\ InScope(before[i], scope)
    <3>1. i \in DOMAIN before /\ InScope(before[i], scope) BY DEF AnyHead, NewestSeen
    <3>2. QED BY <1>1, <1>2, <3>1
  <2>3. InScope(facts[i], scope) /\ Touches(facts[i], n) BY <2>1, <2>2
  <2>4. QED BY <1>3, <2>2, <2>3
<1>7. GraphStats(before, scope).entities = Cardinality(listed) BY DEF GraphStats
<1>8. QED BY <1>5, <1>6, <1>7 DEF Covered, before

\* graph_stats counts the entities that entities lists, among them every one
\* that takes part in a fact the first of its two SELECTs counted, whatever
\* another process commits between them (graph_stats, entities).
THEOREM StatsAlwaysCover == Spec => StatsCoverEntities
<1>1. TypeOK /\ ChainsNeverFork
        => \A k \in 0 .. Len(facts), scope \in ScopeFilter : Covered(k, scope)
  BY EntitiesCovered
<1>2. QED BY <1>1, FactTypes, NoForks, PTL DEF StatsCoverEntities

-----------------------------------------------------------------------------
(* What the reads return. *)

\* Nothing is recorded in the future of the clock, nor about to be.
Past(fs, time) == \A i \in DOMAIN fs : fs[i].recorded_at <= time

Dated ==
    /\ Past(facts, clock)
    /\ \A t \in Thread : now[t] <= clock /\ Past(tx[t].facts, clock)

LEMMA PastAppend ==
    ASSUME NEW fs \in Seq(Fact), NEW row \in Fact, NEW time, Past(fs, time),
           row.recorded_at <= time
    PROVE  Past(Append(fs, row), time)
BY AppendRow DEF Past

LEMMA ClosePast ==
    ASSUME NEW db, Sound(db), NEW r \in Request, r.op # "add", NEW at \in Time,
           NEW time \in Time, ~NotFound(db, r), NEW later, time <= later, Past(db.facts, later)
    PROVE  Past(Close(db, r, at, time).facts, later)
<1> DEFINE i == Head1(db.facts, r.subject, r.label, r.object)
           row == [db.facts[i] EXCEPT !.valid_to = at, !.supersedes = i, !.recorded_at = time]
<1>1. i \in OpenHeads(db.facts, r.subject, r.label, r.object)
  BY DEF NotFound, Head1
<1>2. db.facts \in Seq(Fact) /\ db = [facts |-> db.facts, entities |-> db.entities]
  BY DEF Sound, Tables
<1>3. Close(db, r, at, time).facts = Append(db.facts, row)
  BY <1>2 DEF Close
<1>4. i \in DOMAIN db.facts
  BY <1>1 DEF OpenHeads
<1> HIDE DEF i
<1>5. i \in Nat /\ db.facts[i] \in Fact
  BY <1>2, <1>4, LenProperties, ElementOfSeq
<1>6. row \in Fact /\ row.recorded_at = time
  BY <1>5 DEF Fact
<1> HIDE DEF row
<1>7. QED BY <1>2, <1>3, <1>6, PastAppend

LEMMA AddPast ==
    ASSUME NEW db, Sound(db), NEW r \in AddRequest, NEW time \in Time,
           NEW later, time <= later, Past(db.facts, later)
    PROVE  Past(AddFact(db, r, time).facts, later)
<1> DEFINE row == [subject |-> r.subject, label |-> r.label, object |-> r.object,
                   valid_from |-> r.valid_from, valid_to |-> r.valid_to,
                   confidence |-> r.confidence, supersedes |-> None, recorded_at |-> time]
<1>1. row \in Fact /\ row.recorded_at = time
  BY DEF Fact, AddRequest
<1>2. db.facts \in Seq(Fact)
  BY DEF Sound, Tables
<1>3. \/ AddFact(db, r, time).facts = db.facts
      \/ AddFact(db, r, time).facts = Append(db.facts, row)
  BY DEF AddFact
<1> HIDE DEF row
<1>4. QED BY <1>1, <1>2, <1>3, PastAppend

\* A call records at the time it read.
LEMMA ResultPast ==
    ASSUME NEW db, Sound(db), NEW r \in Request, NEW time \in Time, ~Fails(db, r, time),
           NEW later, time <= later, Past(db.facts, later)
    PROVE  Past(Result(db, r, time).facts, later)
<1> USE RequestType
<1>1. CASE r.op = "add"
  <2>1. Result(db, r, time) = AddFact(db, r, time)
    BY <1>1 DEF Result
  <2>2. QED BY <1>1, <2>1, AddPast
<1>2. CASE r.op = "invalidate"
  <2>1. Result(db, r, time) = Close(db, r, At(r, time), time) /\ ~NotFound(db, r)
    BY <1>2 DEF Result, Fails
  <2>2. QED BY <1>2, <2>1, ClosePast
<1>3. CASE r.op = "supersede"
  <2> DEFINE closed == Closed(db, r, time)
  <2>1. Result(db, r, time) = AddFact(closed, Replacement(r, time), time)
    BY <1>3 DEF Result
  <2>2. Sound(closed) /\ Past(closed.facts, later)
    BY <1>3, CloseSound, ClosePast DEF Closed
  <2> HIDE DEF closed
  <2>3. QED BY <1>3, <2>1, <2>2, AddPast
<1>4. QED BY <1>1, <1>2, <1>3

LEMMA InitDated == Init => Dated
BY EmptySeq DEF Init, Dated, Past, NoTables

LEMMA NextDated ==
    ASSUME TypeOK, Transactions, Dated, [Next]_vars
    PROVE  Dated'
<1>t. /\ now \in [Thread -> Time] /\ tx \in [Thread -> Tables] /\ clock \in Time
      /\ Time \subseteq Nat
  BY DEF TypeOK, Time
<1>0. Past(NoTables.facts, clock) /\ 0 <= clock
  BY <1>t, EmptySeq DEF Past, NoTables
<1>1. CASE Tick
  <2>1. /\ UNCHANGED <<facts, now, tx>> /\ clock' = clock + 1
    BY <1>1 DEF Tick
  <2>2. \A fs \in Seq(Fact) : Past(fs, clock) => Past(fs, clock')
    <3> SUFFICES ASSUME NEW fs \in Seq(Fact), Past(fs, clock), NEW i \in DOMAIN fs
                 PROVE  fs[i].recorded_at <= clock'
      BY DEF Past
    <3>1. fs[i] \in Fact
      BY LenProperties, ElementOfSeq
    <3>2. fs[i].recorded_at \in Nat /\ fs[i].recorded_at <= clock
      BY <1>t, <3>1 DEF Fact, Past
    <3>3. QED BY <1>t, <2>1, <3>2
  <2>3. ASSUME NEW t \in Thread PROVE now[t] <= clock'
    <3>1. now[t] \in Nat /\ clock \in Nat /\ now[t] <= clock
      BY <1>t DEF Dated
    <3>2. QED BY <2>1, <3>1
  <2>4. facts \in Seq(Fact) /\ \A t \in Thread : tx[t].facts \in Seq(Fact)
    BY <1>t DEF TypeOK, Tables
  <2>5. Past(facts, clock') /\ \A t \in Thread : Past(tx[t].facts, clock')
    BY <2>2, <2>4 DEF Dated
  <2> HIDE DEF Past
  <2>6. QED BY <2>1, <2>3, <2>5 DEF Dated
<1>2. ASSUME NEW s \in Store, Crash(s) PROVE Dated'
  BY <1>t, <1>0, <1>2 DEF Crash, Dated
<1>3. ASSUME NEW t \in Thread, Begin(t) PROVE Dated'
  <2>1. UNCHANGED <<facts, clock, now>>
        /\ tx' = [tx EXCEPT ![t] = [facts |-> facts, entities |-> entities]]
    BY <1>3 DEF Begin
  <2>2. \A u \in Thread : Past(tx'[u].facts, clock)
    BY <1>t, <2>1 DEF Dated
  <2>3. QED BY <2>1, <2>2 DEF Dated
<1>4. ASSUME NEW t \in Thread, Release(t), Past(facts', clock) PROVE Dated'
  BY <1>t, <1>0, <1>4 DEF Release, Dated
<1>5. ASSUME NEW t \in Thread, Standing(t) \/ Rollback(t) PROVE Dated'
  <2>1. Release(t) /\ facts' = facts
    BY <1>5 DEF Standing, Rollback
  <2>2. QED BY <1>4, <2>1 DEF Dated
<1>6. ASSUME NEW t \in Thread, Commit(t) PROVE Dated'
  <2>1. facts' = tx[t].facts /\ Release(t)
    BY <1>6, CommitTables DEF Commit, Transactions
  <2>2. QED BY <1>4, <2>1 DEF Dated
<1>7. ASSUME NEW t \in Thread, Execute(t) PROVE Dated'
  <2>1. Sound(tx[t]) /\ request[t] \in Request /\ now[t] \in Time
    BY <1>t, <1>7 DEF Execute, Transactions, Reading
  <2>2. Past(Result(tx[t], request[t], now[t]).facts, clock)
    BY <1>7, <2>1, ResultPast DEF Execute, Dated
  <2>3. /\ UNCHANGED <<facts, clock, now>>
        /\ tx' = [tx EXCEPT ![t] = Result(tx[t], request[t], now[t])]
    BY <1>7 DEF Execute
  <2>4. \A u \in Thread : Past(tx'[u].facts, clock)
    BY <1>t, <2>2, <2>3 DEF Dated
  <2>5. QED BY <2>3, <2>4 DEF Dated
<1>8. ASSUME NEW t \in Thread, NEW r \in Request, Call(t, r) PROVE Dated'
  <2>1. UNCHANGED <<facts, clock, tx>> /\ now' = [now EXCEPT ![t] = clock]
    BY <1>8 DEF Call
  <2>2. \A u \in Thread : now'[u] <= clock
    BY <1>t, <2>1 DEF Dated
  <2>3. QED BY <2>1, <2>2 DEF Dated
<1>9. CASE UNCHANGED vars
  BY <1>9 DEF vars, Dated
<1>10. QED
  BY <1>1, <1>2, <1>3, <1>5, <1>6, <1>7, <1>8, <1>9 DEF Next

\* Whatever a read sees was recorded by now (insert_fact_row).
THEOREM NeverAhead == Spec => [](TypeOK /\ Transactions /\ Dated)
<1>1. Init => TypeOK /\ Transactions /\ Dated
  BY InitInv, InitDated
<1>2. TypeOK /\ Transactions /\ Dated /\ [Next]_vars => (TypeOK /\ Transactions /\ Dated)'
  BY NextType, NextTransactions, NextDated
<1>3. QED BY <1>1, <1>2, PTL DEF Spec

\* The rows of a scope, and the first revisions among them.
RowsIn(scope) == {i \in DOMAIN facts : InScope(facts[i], scope)}
FirstsIn(scope) == {i \in DOMAIN facts : facts[i].supersedes = None /\ InScope(facts[i], scope)}

LEMMA RowsFinite ==
    ASSUME TypeOK
    PROVE  \A set \in SUBSET DOMAIN facts : IsFiniteSet(set)
<1>1. Len(facts) \in Nat /\ DOMAIN facts = 1 .. Len(facts)
  BY LenProperties DEF TypeOK
<1>2. IsFiniteSet(1 .. Len(facts))
  BY <1>1, FS_Interval
<1>3. QED BY <1>1, <1>2, FS_Subset

\* A scope has as many heads as first revisions: supersedes pairs the rows
\* that supersede one with the rows that are superseded.
LEMMA HeadsAreFacts ==
    ASSUME TypeOK, ChainsNeverFork, NEW scope
    PROVE  Cardinality(AnyHead(facts, scope)) = Cardinality(FirstsIn(scope))
<1> DEFINE S == RowsIn(scope)
           F == FirstsIn(scope)
           H == AnyHead(facts, scope)
           f == [i \in S \ F |-> facts[i].supersedes]
<1>1. S \subseteq DOMAIN facts /\ F \subseteq S
  BY DEF RowsIn, FirstsIn
<1>2. H = {i \in S : \A j \in DOMAIN facts : facts[j].supersedes # i}
  BY DEF RowsIn, AnyHead, NewestSeen, RecordedBy
<1>3. ASSUME NEW i \in S \ F
      PROVE  /\ facts[i].supersedes \in S \ H
             /\ \A k \in DOMAIN facts : facts[k].supersedes = facts[i].supersedes => k = i
  <2> DEFINE j == facts[i].supersedes
  <2>1. i \in DOMAIN facts /\ InScope(facts[i], scope) /\ j # None
    BY <1>3, SMTT(30) DEF RowsIn, FirstsIn
  <2>2. /\ j \in 1 .. (i - 1)
        /\ facts[i] = [facts[j] EXCEPT !.valid_to = facts[i].valid_to, !.supersedes = j,
                                       !.recorded_at = facts[i].recorded_at]
        /\ \A k \in DOMAIN facts : facts[k].supersedes = j => k = i
    BY <2>1 DEF ChainsNeverFork
  <2>3. j \in DOMAIN facts
    BY <2>1, <2>2 DEF TypeOK
  <2>4. facts[i].label = facts[j].label
    <3>1. facts[j] \in Fact
      BY <2>3 DEF TypeOK
    <3>2. QED BY <2>2, <3>1 DEF Fact
  <2>5. j \in S
    BY <2>1, <2>3, <2>4 DEF RowsIn, InScope
  <2>6. j \notin H
    BY <1>2, <2>1
  <2>7. QED BY <2>2, <2>5, <2>6, SMTT(30)
<1>4. ASSUME NEW j \in S \ H PROVE \E i \in S \ F : facts[i].supersedes = j
  <2>1. PICK i \in DOMAIN facts : facts[i].supersedes = j
    BY <1>2, SMTT(30)
  <2>2. j \in Nat /\ j \in DOMAIN facts /\ InScope(facts[j], scope)
    BY <1>1, SMTT(30) DEF TypeOK, RowsIn
  <2>3. facts[i].supersedes # None
    BY <2>1, <2>2, GraphAssumption, SMTT(30)
  <2>4. facts[i] = [facts[j] EXCEPT !.valid_to = facts[i].valid_to, !.supersedes = j,
                                    !.recorded_at = facts[i].recorded_at]
    BY <2>1, <2>3 DEF ChainsNeverFork
  <2>5. facts[i].label = facts[j].label
    <3>1. facts[j] \in Fact
      BY <2>2 DEF TypeOK
    <3>2. QED BY <2>4, <3>1 DEF Fact
  <2>6. i \in S \ F
    BY <2>2, <2>3, <2>5 DEF RowsIn, FirstsIn, InScope
  <2>7. QED BY <2>1, <2>6
<1> HIDE DEF S, F, H
<1>5. /\ f \in [S \ F -> S \ H]
      /\ \A i, k \in S \ F : f[i] = f[k] => i = k
      /\ \A j \in S \ H : \E i \in S \ F : f[i] = j
  BY <1>1, <1>3, <1>4
<1> HIDE DEF f
<1>6. IsFiniteSet(S) /\ IsFiniteSet(F) /\ IsFiniteSet(H) /\ H \subseteq S
  BY <1>1, <1>2, RowsFinite
<1>7. Cardinality(S \ H) = Cardinality(S \ F)
  <2>1. IsFiniteSet(S \ F)
    BY <1>6, FS_Difference
  <2>2. QED BY <1>5, <2>1, PairedSets
<1>8. /\ Cardinality(S \ H) = Cardinality(S) - Cardinality(H)
      /\ Cardinality(S \ F) = Cardinality(S) - Cardinality(F)
  <2>1. S \cap H = H /\ S \cap F = F
    BY <1>1, <1>6
  <2>2. Cardinality(S \ H) = Cardinality(S) - Cardinality(S \cap H)
    BY <1>6, FS_Difference
  <2>3. Cardinality(S \ F) = Cardinality(S) - Cardinality(S \cap F)
    BY <1>6, FS_Difference
  <2>4. QED BY <2>1, <2>2, <2>3
<1>9. /\ Cardinality(S) \in Nat /\ Cardinality(H) \in Nat /\ Cardinality(F) \in Nat
  BY <1>6, FS_CardinalityType
<1> DEFINE n == Cardinality(S)
           h == Cardinality(H)
           m == Cardinality(F)
<1>10. n - h = n - m /\ n \in Nat /\ h \in Nat /\ m \in Nat
  BY <1>7, <1>8, <1>9, Zenon
<1>11. h = m
  <2> HIDE DEF n, h, m
  <2>1. QED BY <1>10
<1>12. QED BY <1>11 DEF H, F

\* Both ORDER BYs are strict total orders of the rows: ids break ties.
LEMMA RowOrders ==
    ASSUME TypeOK, NEW set \in SUBSET DOMAIN facts
    PROVE  /\ Orders({p \in set \X set : RecordedBefore(p[1], p[2])}, set)
           /\ Orders({p \in set \X set : StartsBefore(p[1], p[2])}, set)
<1>1. \A i \in set : /\ i \in Nat /\ facts[i].recorded_at \in Nat
                     /\ facts[i].valid_from \in Nat \cup {None}
  <2>1. \A i \in set : i \in Nat /\ facts[i] \in Fact
    BY LenProperties, ElementOfSeq DEF TypeOK
  <2>2. QED BY <2>1 DEF Fact, Time
<1>2. None \notin Nat
  BY GraphAssumption
<1>3. /\ \A i \in set : ~RecordedBefore(i, i)
      /\ \A i, j \in set : i # j => RecordedBefore(i, j) \/ RecordedBefore(j, i)
      /\ \A i, j, k \in set : RecordedBefore(i, j) /\ RecordedBefore(j, k) => RecordedBefore(i, k)
  BY <1>1 DEF RecordedBefore
<1>4. /\ \A i \in set : ~StartsBefore(i, i)
      /\ \A i, j \in set : i # j => StartsBefore(i, j) \/ StartsBefore(j, i)
      /\ \A i, j, k \in set : StartsBefore(i, j) /\ StartsBefore(j, k) => StartsBefore(i, k)
  <2> HIDE DEF RecordedBefore
  <2>1. \A i \in set : ~StartsBefore(i, i)
    BY <1>3 DEF StartsBefore
  <2>2. \A i, j \in set : i # j => StartsBefore(i, j) \/ StartsBefore(j, i)
    BY <1>1, <1>2, <1>3 DEF StartsBefore
  <2>3. ASSUME NEW i \in set, NEW j \in set, NEW k \in set, StartsBefore(i, j), StartsBefore(j, k)
        PROVE  StartsBefore(i, k)
    BY <1>1, <1>2, <1>3, <2>3 DEF StartsBefore
  <2>4. QED BY <2>1, <2>2, <2>3
<1>5. QED
  <2>1. \A i, j \in set : <<i, j>> \in {p \in set \X set : RecordedBefore(p[1], p[2])}
                             <=> RecordedBefore(i, j)
    OBVIOUS
  <2>2. \A i, j \in set : <<i, j>> \in {p \in set \X set : StartsBefore(p[1], p[2])}
                             <=> StartsBefore(i, j)
    OBVIOUS
  <2>3. Orders({p \in set \X set : RecordedBefore(p[1], p[2])}, set)
    BY <1>3, <2>1 DEF Orders
  <2>4. Orders({p \in set \X set : StartsBefore(p[1], p[2])}, set)
    BY <1>4, <2>2 DEF Orders
  <2>5. QED BY <2>3, <2>4

\* A sorted result has every row it should, once.
LEMMA ResultRows ==
    ASSUME TypeOK, NEW set \in SUBSET DOMAIN facts
    PROVE  /\ ByRecorded(set) \in Seq(set) /\ Len(ByRecorded(set)) = Cardinality(set)
           /\ ByStart(set) \in Seq(set) /\ Len(ByStart(set)) = Cardinality(set)
           /\ ToSet(ByRecorded(set)) = set
           /\ Cardinality(set) \in Nat
<1>1. IsFiniteSet(set)
  BY RowsFinite
<1>2. /\ Cardinality(set) \in Nat
      /\ ByRecorded(set) \in Seq(set) /\ Len(ByRecorded(set)) = Cardinality(set)
      /\ \A x \in set : \E k \in 1 .. Cardinality(set) : ByRecorded(set)[k] = x
  <2> DEFINE before == {p \in set \X set : RecordedBefore(p[1], p[2])}
  <2>1. Orders(before, set) /\ ByRecorded(set) = Ordered(set, before)
    BY RowOrders DEF ByRecorded
  <2> HIDE DEF before
  <2>2. QED BY <1>1, <2>1, OrderedSorts
<1>3. ByStart(set) \in Seq(set) /\ Len(ByStart(set)) = Cardinality(set)
  <2> DEFINE before == {p \in set \X set : StartsBefore(p[1], p[2])}
  <2>1. Orders(before, set) /\ ByStart(set) = Ordered(set, before)
    BY RowOrders DEF ByStart
  <2> HIDE DEF before
  <2>2. QED BY <1>1, <2>1, OrderedSorts
<1>4. ToSet(ByRecorded(set)) = set
  <2>1. DOMAIN ByRecorded(set) = 1 .. Cardinality(set)
    BY <1>2, LenProperties
  <2>2. \A k \in 1 .. Cardinality(set) : ByRecorded(set)[k] \in set
    BY <1>2, ElementOfSeq
  <2>3. QED BY <1>2, <2>1, <2>2 DEF ToSet
<1>5. QED BY <1>2, <1>3, <1>4

LEMMA ReadsAccount ==
    ASSUME TypeOK, ChainsNeverFork, Dated, NEW scope \in ScopeFilter
    PROVE  Accounted(scope)
<1> DEFINE heads == AnyHead(facts, scope)
           opened == {i \in heads : facts[i].valid_to = None}
           closed == {i \in heads : facts[i].valid_to # None}
           open == UNION {ToSet(QueryPredicate(p, Plain(scope))) : p \in ToSet(PredicateOf)}
           rows == Timeline(None, scope)
           firsts == FirstsIn(scope)
           stats == GraphStats(facts, scope)
<1>1. heads \in SUBSET DOMAIN facts /\ firsts \in SUBSET DOMAIN facts
  BY DEF AnyHead, NewestSeen, FirstsIn
<1>2. Cardinality(heads) = Cardinality(firsts)
  BY HeadsAreFacts
<1>3. NewestSeen(facts, clock) = NewestSeen(facts, None)
  BY DEF Dated, Past, NewestSeen, RecordedBy
<1>4. /\ FactWhere(Plain(scope)) = opened
      /\ FactWhere([Plain(scope) EXCEPT !.recorded_at = clock]) = opened
  <2>1. /\ Plain(scope).scope = scope /\ Plain(scope).as_of = None
        /\ Plain(scope).recorded_at = None
        /\ [Plain(scope) EXCEPT !.recorded_at = clock].scope = scope
        /\ [Plain(scope) EXCEPT !.recorded_at = clock].as_of = None
        /\ [Plain(scope) EXCEPT !.recorded_at = clock].recorded_at = clock
    BY DEF Plain
  <2>2. QED BY <1>3, <2>1 DEF FactWhere, InWindow, AnyHead
<1>5. open = opened
  <2>1. \A p : ToSet(QueryPredicate(p, Plain(scope)))
                  = {i \in opened : PredicateOf[facts[i].label] = p}
    <3> SUFFICES ASSUME NEW p
                 PROVE  ToSet(QueryPredicate(p, Plain(scope)))
                           = {i \in opened : PredicateOf[facts[i].label] = p}
      OBVIOUS
    <3> DEFINE set == {i \in opened : PredicateOf[facts[i].label] = p}
    <3>1. set \in SUBSET DOMAIN facts
      BY <1>1
    <3>2. QueryPredicate(p, Plain(scope)) = ByRecorded(set)
      BY <1>4 DEF QueryPredicate
    <3> HIDE DEF set
    <3>3. ToSet(QueryPredicate(p, Plain(scope))) = set
      BY <3>1, <3>2, ResultRows
    <3>4. QED BY <3>3 DEF set
  <2>2. \A i \in opened : PredicateOf[facts[i].label] \in ToSet(PredicateOf)
    <3>1. \A i \in DOMAIN facts : facts[i].label \in DOMAIN PredicateOf
      <4>1. \A i \in DOMAIN facts : facts[i] \in Fact
        BY LenProperties, ElementOfSeq DEF TypeOK
      <4>2. \A i \in DOMAIN facts : facts[i].label \in Label
        BY <4>1 DEF Fact
      <4>3. QED BY <4>2, ReadsAssumption
    <3>2. QED BY <1>1, <3>1 DEF ToSet
  <2> HIDE DEF opened
  <2>3. QED BY <2>1, <2>2
<1>6. opened \cup closed = heads /\ opened \cap closed = {}
  OBVIOUS
<1>7. stats.open_facts + stats.closed_facts = Cardinality(firsts)
  <2>1. stats.open_facts = Cardinality(opened) /\ stats.closed_facts = Cardinality(closed)
    BY DEF GraphStats
  <2>2. IsFiniteSet(opened) /\ IsFiniteSet(closed)
    BY <1>1, RowsFinite
  <2> HIDE DEF opened, closed, heads
  <2>3. /\ Cardinality(heads) = Cardinality(opened) + Cardinality(closed) - Cardinality({})
        /\ Cardinality({}) = 0
    BY <1>6, <2>2, FS_Union, FS_EmptySet
  <2>4. Cardinality(opened) \in Nat /\ Cardinality(closed) \in Nat
    BY <2>2, FS_CardinalityType
  <2>5. QED BY <1>2, <2>1, <2>3, <2>4
<1>8. stats.open_facts = Cardinality(opened)
  BY DEF GraphStats
<1>9. Len(rows) = Capped(Cardinality(firsts)) /\ ToSet(rows) \subseteq heads
  <2> DEFINE all == ByStart(heads)
             few == Capped(Len(all))
  <2>1. rows = SubSeq(all, 1, few)
    BY DEF Timeline, Capped
  <2>2. all \in Seq(heads) /\ Len(all) = Cardinality(firsts) /\ Len(all) \in Nat
    BY <1>1, <1>2, ResultRows
  <2>3. few \in Nat /\ few <= Len(all)
    BY <2>2, ReadsAssumption DEF Capped
  <2> HIDE DEF all, few, heads
  <2>4. \A i \in 1 .. few : all[i] \in heads
    BY <2>2, <2>3, ElementOfSeq
  <2>5. SubSeq(all, 1, few) \in Seq(heads) /\ Len(SubSeq(all, 1, few)) = few
    <3>1. /\ SubSeq(all, 1, few) \in Seq(heads)
          /\ Len(SubSeq(all, 1, few)) = IF 1 <= few THEN few - 1 + 1 ELSE 0
      BY <2>2, <2>3, <2>4, SubSeqProperties
    <3>2. QED BY <2>3, <3>1
  <2>6. ToSet(rows) \subseteq heads
    BY <2>1, <2>5, LenProperties, ElementOfSeq DEF ToSet
  <2>7. Len(rows) = few
    BY <2>1, <2>5
  <2>8. QED BY <2>2, <2>6, <2>7 DEF few
<1>10. {i \in ToSet(rows) : CurrentEntry(i)} \subseteq opened
  BY <1>9, SMTT(30) DEF CurrentEntry
<1> HIDE DEF rows, open, opened, stats
<1>11. QED
  BY <1>4, <1>5, <1>7, <1>8, <1>9, <1>10 DEF Accounted, rows, open, stats, FirstsIn

\* Every fact is counted once by graph_stats, listed once by the timeline and,
\* while it is open, found by a plain query and by one about the present
\* (fact_where, timeline, graph_stats, query_predicate).
THEOREM ReadsAddUp == Spec => EachFactOnce
<1>1. TypeOK /\ Transactions /\ Dated => \A scope \in ScopeFilter : Accounted(scope)
  BY ReadsAccount DEF Transactions, Sound, Committed, Chains, Revises, ChainsNeverFork
<1>2. QED BY <1>1, NeverAhead, PTL DEF EachFactOnce

-----------------------------------------------------------------------------
(* The history of a fact. *)

Linked(h) == h \in Chain /\ \A n \in 2 .. Len(h) : facts[h[n]].supersedes = h[n - 1]

History(h) ==
    /\ Linked(h) /\ facts[h[1]].supersedes = None
    /\ \A j \in DOMAIN facts : facts[j].supersedes # h[Len(h)]

LEMMA ChainIs ==
    ASSUME TypeOK, NEW h \in Chain
    PROVE  /\ h \in Seq(DOMAIN facts) /\ Len(h) \in Nat /\ Len(h) >= 1 /\ DOMAIN h = 1 .. Len(h)
           /\ \A n \in 1 .. Len(h) : h[n] \in DOMAIN facts
           /\ Head(h) = h[1] /\ Last(h) = h[Len(h)]
           /\ \A i : i \in ToSet(h) <=> \E n \in 1 .. Len(h) : h[n] = i
           /\ ToSet(h) \subseteq DOMAIN facts
<1>1. h \in Seq(DOMAIN facts) /\ h # << >>
  BY DEF Chain
<1>2. Len(h) \in Nat /\ DOMAIN h = 1 .. Len(h) /\ \A n \in 1 .. Len(h) : h[n] \in DOMAIN facts
  BY <1>1, LenProperties, ElementOfSeq
<1>3. Len(h) >= 1
  BY <1>1, <1>2, EmptySeq
<1>4. Head(h) = h[1] /\ Last(h) = h[Len(h)]
  BY <1>1, HeadTailProperties DEF Last
<1>5. \A i : i \in ToSet(h) <=> \E n \in 1 .. Len(h) : h[n] = i
  BY <1>2 DEF ToSet
<1>6. QED BY <1>1, <1>2, <1>3, <1>4, <1>5

\* What a row supersedes is an earlier row, which no other row supersedes.
LEMMA Superseded ==
    ASSUME TypeOK, ChainsNeverFork, NEW i \in DOMAIN facts
    PROVE  /\ i \in Nat /\ i # None
           /\ facts[i].supersedes # None =>
                 /\ facts[i].supersedes \in DOMAIN facts /\ facts[i].supersedes < i
                 /\ \A k \in DOMAIN facts : facts[k].supersedes = facts[i].supersedes => k = i
<1>1. DOMAIN facts = 1 .. Len(facts) /\ Len(facts) \in Nat
  BY LenProperties DEF TypeOK
<1>2. i \in Nat /\ i # None
  BY <1>1, GraphAssumption, SMTT(30)
<1>3. ASSUME facts[i].supersedes # None
      PROVE  /\ facts[i].supersedes \in DOMAIN facts /\ facts[i].supersedes < i
             /\ \A k \in DOMAIN facts : facts[k].supersedes = facts[i].supersedes => k = i
  <2>1. /\ facts[i].supersedes \in 1 .. (i - 1)
        /\ \A k \in DOMAIN facts : facts[k].supersedes = facts[i].supersedes => k = i
    BY <1>3 DEF ChainsNeverFork
  <2>2. QED BY <1>1, <2>1
<1>4. QED BY <1>2, <1>3

LEMMA LinkedRises ==
    ASSUME TypeOK, ChainsNeverFork, NEW h, Linked(h)
    PROVE  \A m, n \in 1 .. Len(h) : m < n => h[m] < h[n]
<1> DEFINE T == {n \in 0 .. Len(h) : \A m, k \in 1 .. n : m < k => h[m] < h[k]}
<1>1. /\ Len(h) \in Nat /\ \A n \in 1 .. Len(h) : h[n] \in DOMAIN facts /\ h[n] \in Nat
      /\ \A n \in 2 .. Len(h) : facts[h[n]].supersedes = h[n - 1]
  BY ChainIs, Superseded DEF Linked
<1>2. \A n \in 2 .. Len(h) : h[n - 1] < h[n]
  <2> SUFFICES ASSUME NEW n \in 2 .. Len(h) PROVE h[n - 1] < h[n]
    OBVIOUS
  <2>1. n - 1 \in 1 .. Len(h) /\ n \in 1 .. Len(h)
    BY <1>1
  <2>2. h[n - 1] # None /\ facts[h[n]].supersedes = h[n - 1]
    BY <1>1, <2>1, Superseded
  <2>3. QED BY <1>1, <2>1, <2>2, Superseded
<1>3. 0 \in T
  BY <1>1
<1>4. ASSUME NEW n \in 1 .. Len(h), n - 1 \in T PROVE n \in T
  <2> SUFFICES ASSUME NEW m \in 1 .. n, NEW k \in 1 .. n, m < k PROVE h[m] < h[k]
    BY <1>1
  <2>0. \A a, b \in 1 .. n - 1 : a < b => h[a] < h[b]
    BY <1>4
  <2>1. m \in 1 .. n - 1 /\ m \in 1 .. Len(h) /\ k \in 1 .. Len(h)
    BY <1>1
  <2>2. CASE k \in 1 .. n - 1
    BY <2>0, <2>1, <2>2
  <2>3. CASE k = n
    <3>1. n \in 2 .. Len(h) /\ n - 1 \in 1 .. n - 1
      BY <1>1, <2>1
    <3>2. h[n - 1] < h[n] /\ (m = n - 1 \/ h[m] < h[n - 1])
      BY <1>2, <2>0, <2>1, <3>1, SMTT(30)
    <3>3. h[m] \in Nat /\ h[n - 1] \in Nat /\ h[n] \in Nat
      BY <1>1, <2>1, <3>1
    <3>4. QED BY <2>3, <3>2, <3>3
  <2>4. QED BY <2>1, <2>2, <2>3
<1>5. 0 .. Len(h) \subseteq T
  <2> HIDE DEF T
  <2>1. QED BY <1>1, <1>3, <1>4, Upwards
<1>6. QED BY <1>1, <1>5, SMTT(30)

\* A turn backwards: the row before the first is not in the chain.
LEMMA LinkedBefore ==
    ASSUME TypeOK, ChainsNeverFork, NEW h, Linked(h),
           NEW j, j = facts[h[1]].supersedes, j # None
    PROVE  j \notin ToSet(h) /\ Linked(<< j >> \o h) /\ Last(<< j >> \o h) = Last(h)
<1> DEFINE g == << j >> \o h
<1>1. /\ h \in Chain /\ h \in Seq(DOMAIN facts) /\ Len(h) \in Nat /\ Len(h) >= 1
      /\ \A n \in 1 .. Len(h) : h[n] \in DOMAIN facts
      /\ \A i : i \in ToSet(h) <=> \E n \in 1 .. Len(h) : h[n] = i
      /\ \A n \in 2 .. Len(h) : facts[h[n]].supersedes = h[n - 1]
      /\ Last(h) = h[Len(h)]
  BY ChainIs DEF Linked
<1>2. h[1] \in DOMAIN facts /\ j \in DOMAIN facts /\ j < h[1]
  BY <1>1, Superseded
<1>3. j \notin ToSet(h)
  <2> SUFFICES ASSUME NEW n \in 1 .. Len(h), h[n] = j PROVE FALSE
    BY <1>1
  <2>1. h[1] \in Nat /\ j \in Nat
    BY <1>2, Superseded
  <2>2. n = 1 \/ h[1] < h[n]
    BY <1>1, LinkedRises
  <2>3. QED BY <1>2, <2>1, <2>2
<1>4. /\ g \in Seq(DOMAIN facts) /\ Len(g) = Len(h) + 1 /\ g[1] = j
      /\ \A n \in 1 .. Len(h) : g[n + 1] = h[n]
  <2>1. /\ << j >> \in Seq(DOMAIN facts) /\ Len(<< j >>) = 1 /\ << j >>[1] = j
    BY <1>2
  <2> DEFINE one == << j >>
  <2> HIDE DEF one
  <2>2. /\ one \o h \in Seq(DOMAIN facts) /\ Len(one \o h) = Len(one) + Len(h)
        /\ \A n \in 1 .. Len(one) + Len(h) :
              (one \o h)[n] = IF n <= Len(one) THEN one[n] ELSE h[n - Len(one)]
    BY <1>1, <2>1, ConcatProperties DEF one
  <2>3. one \o h = g /\ Len(one) = 1 /\ one[1] = j
    BY <2>1 DEF one
  <2> HIDE DEF g
  <2>4. QED BY <1>1, <2>2, <2>3
<1> HIDE DEF g
<1>5. g \in Chain
  <2>1. g # << >>
    BY <1>1, <1>4, EmptySeq
  <2>2. QED BY <1>4, <2>1 DEF Chain
<1>6. \A n \in 2 .. Len(g) : facts[g[n]].supersedes = g[n - 1]
  <2> SUFFICES ASSUME NEW n \in 2 .. Len(g) PROVE facts[g[n]].supersedes = g[n - 1]
    OBVIOUS
  <2>1. n - 1 \in 1 .. Len(h) /\ g[n] = h[n - 1]
    BY <1>1, <1>4
  <2>2. CASE n = 2
    BY <1>4, <2>1, <2>2
  <2>3. CASE n # 2
    <3>1. n - 1 \in 2 .. Len(h) /\ n - 2 \in 1 .. Len(h) /\ g[n - 1] = h[n - 2]
      <4>1. n - 1 \in 2 .. Len(h) /\ n - 2 \in 1 .. Len(h) /\ (n - 2) + 1 = n - 1
        BY <1>1, <2>1, <2>3
      <4>2. g[(n - 2) + 1] = h[n - 2]
        BY <1>4, <4>1
      <4>3. QED BY <4>1, <4>2
    <3>2. facts[h[n - 1]].supersedes = h[n - 2]
      BY <1>1, <3>1
    <3>3. QED BY <2>1, <3>1, <3>2
  <2>4. QED BY <2>2, <2>3
<1>7. Last(g) = Last(h)
  BY <1>1, <1>4, <1>5, ChainIs
<1>8. QED BY <1>3, <1>5, <1>6, <1>7 DEF Linked, g

\* A turn forwards.
LEMMA LinkedAfter ==
    ASSUME TypeOK, ChainsNeverFork, NEW h, Linked(h),
           NEW j \in DOMAIN facts, facts[j].supersedes = Last(h)
    PROVE  j \notin ToSet(h) /\ Linked(Append(h, j))
<1>1. /\ h \in Chain /\ h \in Seq(DOMAIN facts) /\ Len(h) \in Nat /\ Len(h) >= 1
      /\ \A n \in 1 .. Len(h) : h[n] \in DOMAIN facts
      /\ \A i : i \in ToSet(h) <=> \E n \in 1 .. Len(h) : h[n] = i
      /\ \A n \in 2 .. Len(h) : facts[h[n]].supersedes = h[n - 1]
      /\ Last(h) = h[Len(h)]
  BY ChainIs DEF Linked
<1>2. Last(h) \in DOMAIN facts /\ Last(h) # None /\ Last(h) < j
  BY <1>1, Superseded
<1>3. j \notin ToSet(h)
  <2> SUFFICES ASSUME NEW n \in 1 .. Len(h), h[n] = j PROVE FALSE
    BY <1>1
  <2>1. Last(h) \in Nat /\ j \in Nat
    BY <1>2, Superseded
  <2>2. n = Len(h) \/ h[n] < h[Len(h)]
    BY <1>1, LinkedRises
  <2>3. QED BY <1>1, <1>2, <2>1, <2>2
<1> DEFINE g == Append(h, j)
<1>4. /\ g \in Seq(DOMAIN facts) /\ Len(g) = Len(h) + 1 /\ g[Len(h) + 1] = j
      /\ \A n \in 1 .. Len(h) : g[n] = h[n]
  BY <1>1, AppendProperties
<1> HIDE DEF g
<1>5. g \in Chain
  <2>1. g # << >>
    BY <1>1, <1>4, EmptySeq
  <2>2. QED BY <1>4, <2>1 DEF Chain
<1>6. \A n \in 2 .. Len(g) : facts[g[n]].supersedes = g[n - 1]
  <2> SUFFICES ASSUME NEW n \in 2 .. Len(g) PROVE facts[g[n]].supersedes = g[n - 1]
    OBVIOUS
  <2>1. n - 1 \in 1 .. Len(h) /\ g[n - 1] = h[n - 1]
    BY <1>1, <1>4
  <2>2. CASE n = Len(h) + 1
    BY <1>1, <1>4, <2>1, <2>2
  <2>3. CASE n \in 2 .. Len(h)
    <3>1. n \in 1 .. Len(h)
      BY <2>3
    <3>2. QED BY <1>1, <1>4, <2>1, <2>3, <3>1
  <2>4. QED BY <1>1, <1>4, <2>2, <2>3
<1>7. QED BY <1>3, <1>5, <1>6 DEF Linked, g

\* The rows of a chain and one more.
LEMMA JoinedRows ==
    ASSUME TypeOK, NEW h \in Chain, NEW j \in DOMAIN facts
    PROVE  /\ << j >> \o h \in Chain /\ ToSet(<< j >> \o h) = ToSet(h) \cup {j}
           /\ Append(h, j) \in Chain /\ ToSet(Append(h, j)) = ToSet(h) \cup {j}
<1> DEFINE one == << j >>
           g == one \o h
           a == Append(h, j)
<1>1. h \in Seq(DOMAIN facts) /\ Len(h) \in Nat /\ Len(h) >= 1
      /\ \A i : i \in ToSet(h) <=> \E n \in 1 .. Len(h) : h[n] = i
  BY ChainIs
<1>2. one \in Seq(DOMAIN facts) /\ Len(one) = 1 /\ one[1] = j
  OBVIOUS
<1> HIDE DEF one
<1>3. /\ g \in Seq(DOMAIN facts) /\ Len(g) = 1 + Len(h)
      /\ \A n \in 1 .. 1 + Len(h) : g[n] = IF n <= 1 THEN one[n] ELSE h[n - 1]
  <2>1. h \in Seq(DOMAIN facts)
    BY <1>1
  <2>2. /\ g \in Seq(DOMAIN facts) /\ Len(g) = Len(one) + Len(h)
        /\ \A n \in 1 .. Len(one) + Len(h) :
              g[n] = IF n <= Len(one) THEN one[n] ELSE h[n - Len(one)]
    BY <1>2, <2>1, ConcatProperties
  <2> HIDE DEF g
  <2>3. QED BY <1>2, <2>2
<1>4. /\ a \in Seq(DOMAIN facts) /\ Len(a) = Len(h) + 1 /\ a[Len(h) + 1] = j
      /\ \A n \in 1 .. Len(h) : a[n] = h[n]
  BY <1>1, AppendProperties
<1> HIDE DEF g, a
<1>5. g \in Chain /\ a \in Chain
  <2>1. g # << >> /\ a # << >>
    BY <1>1, <1>3, <1>4, EmptySeq
  <2>2. QED BY <1>3, <1>4, <2>1 DEF Chain
<1>6. /\ \A i : i \in ToSet(g) <=> \E n \in 1 .. Len(g) : g[n] = i
      /\ \A i : i \in ToSet(a) <=> \E n \in 1 .. Len(a) : a[n] = i
  BY <1>5, ChainIs
<1>7. ToSet(g) = ToSet(h) \cup {j}
  <2>1. ASSUME NEW i \in ToSet(h) PROVE i \in ToSet(g)
    <3>1. PICK n \in 1 .. Len(h) : h[n] = i
      BY <1>1, <2>1
    <3>2. n + 1 \in 1 .. Len(g) /\ ~(n + 1 <= 1) /\ (n + 1) - 1 = n /\ n + 1 \in 1 .. 1 + Len(h)
      BY <1>1, <1>3
    <3>3. g[n + 1] = i
      BY <1>3, <3>1, <3>2
    <3>4. QED BY <1>6, <3>2, <3>3
  <2>2. j \in ToSet(g)
    <3>1. 1 \in 1 .. Len(g) /\ g[1] = j
      BY <1>1, <1>2, <1>3
    <3>2. QED BY <1>6, <3>1
  <2>3. ASSUME NEW i \in ToSet(g) PROVE i \in ToSet(h) \cup {j}
    <3>1. PICK n \in 1 .. 1 + Len(h) : g[n] = i
      BY <1>3, <1>6, <2>3
    <3>2. CASE n = 1
      BY <1>2, <1>3, <3>1, <3>2
    <3>3. CASE n # 1
      <4>1. n - 1 \in 1 .. Len(h) /\ ~(n <= 1)
        BY <1>1, <3>3
      <4>2. h[n - 1] = i
        BY <1>3, <3>1, <4>1
      <4>3. QED BY <1>1, <4>1, <4>2
    <3>4. QED BY <3>2, <3>3
  <2>4. QED BY <2>1, <2>2, <2>3
<1>8. ToSet(a) = ToSet(h) \cup {j}
  <2>1. ASSUME NEW i \in ToSet(h) \cup {j} PROVE i \in ToSet(a)
    BY <1>1, <1>4, <1>6, <2>1
  <2>2. ASSUME NEW i \in ToSet(a) PROVE i \in ToSet(h) \cup {j}
    BY <1>1, <1>4, <1>6, <2>2
  <2>3. QED BY <2>1, <2>2
<1>9. QED BY <1>5, <1>7, <1>8 DEF g, a, one

\* Each turn of a loop leaves fewer rows outside its chain.
LEMMA RanksAre ==
    ASSUME TypeOK
    PROVE  /\ Cardinality(DOMAIN facts) \in Nat
           /\ [s \in Chain |-> Cardinality(DOMAIN facts \ ToSet(s))]
                 \in [Chain -> 0 .. Cardinality(DOMAIN facts)]
<1> DEFINE N == Cardinality(DOMAIN facts)
<1>1. IsFiniteSet(DOMAIN facts)
  BY RowsFinite
<1>2. N \in Nat
  BY <1>1, FS_CardinalityType
<1>3. ASSUME NEW s \in Chain PROVE Cardinality(DOMAIN facts \ ToSet(s)) \in 0 .. N
  <2> DEFINE rest == DOMAIN facts \ ToSet(s)
  <2>1. rest \in SUBSET DOMAIN facts
    OBVIOUS
  <2> HIDE DEF rest
  <2>2. Cardinality(rest) \in Nat /\ Cardinality(rest) <= N
    BY <1>1, <2>1, FS_Subset, FS_CardinalityType
  <2>3. QED BY <1>2, <2>2 DEF rest
<1>4. QED BY <1>2, <1>3

LEMMA RanksFall ==
    ASSUME TypeOK, NEW s, NEW t, NEW j \in DOMAIN facts,
           j \notin ToSet(s), ToSet(t) = ToSet(s) \cup {j}
    PROVE  Cardinality(DOMAIN facts \ ToSet(t)) < Cardinality(DOMAIN facts \ ToSet(s))
<1> DEFINE rest == DOMAIN facts \ ToSet(s)
           less == DOMAIN facts \ ToSet(t)
<1>1. less = rest \ {j} /\ j \in rest
  OBVIOUS
<1>2. IsFiniteSet(rest)
  BY RowsFinite
<1> HIDE DEF rest, less
<1>3. Cardinality(less) = Cardinality(rest) - 1 /\ Cardinality(rest) \in Nat
  BY <1>1, <1>2, FS_RemoveElement, FS_CardinalityType
<1>4. Cardinality(less) < Cardinality(rest)
  BY <1>3
<1>5. QED BY <1>4 DEF rest, less

\* What the loop backwards keeps: a chain that ends with i.
LEMMA OlderIs ==
    ASSUME TypeOK, ChainsNeverFork, NEW i \in DOMAIN facts
    PROVE  /\ Linked(Older[<< i >>]) /\ facts[Older[<< i >>][1]].supersedes = None
           /\ Last(Older[<< i >>]) = i
<1> DEFINE prev(s) == facts[Head(s)].supersedes
           done == {s \in Chain : prev(s) \in ToSet(s) \cup {None}}
           value == [s \in Chain |-> s]
           next == [s \in Chain |-> << prev(s) >> \o s]
           rank == [s \in Chain |-> Cardinality(DOMAIN facts \ ToSet(s))]
           N == Cardinality(DOMAIN facts)
           P == {s \in Chain : Linked(s) /\ Last(s) = i}
<1>1. << i >> \in Chain /\ Len(<< i >>) = 1 /\ << i >>[1] = i
  <2>1. << i >> \in Seq(DOMAIN facts) /\ Len(<< i >>) = 1
    OBVIOUS
  <2>2. << i >> # << >>
    BY <2>1, EmptySeq
  <2>3. QED BY <2>1, <2>2 DEF Chain
<1>2. ASSUME NEW s \in Chain, s \notin done
      PROVE  /\ s[1] \in DOMAIN facts /\ prev(s) = facts[s[1]].supersedes /\ prev(s) # None
             /\ prev(s) \in DOMAIN facts /\ prev(s) \notin ToSet(s)
             /\ next[s] = << prev(s) >> \o s /\ next[s] \in Chain
  <2>1. s[1] \in DOMAIN facts /\ Head(s) = s[1] /\ prev(s) # None /\ prev(s) \notin ToSet(s)
    BY <1>2, ChainIs
  <2>2. prev(s) \in DOMAIN facts
    BY <2>1, Superseded
  <2>3. << prev(s) >> \o s \in Chain
    BY <2>2, JoinedRows
  <2>4. QED BY <2>1, <2>2, <2>3
<1>3. N \in Nat /\ rank \in [Chain -> 0 .. N]
  BY RanksAre
<1>4. RankFalls(Chain, done, next, rank)
  <2> SUFFICES ASSUME NEW s \in Chain, s \notin done
               PROVE  next[s] \in Chain /\ rank[next[s]] < rank[s]
    BY DEF RankFalls
  <2> DEFINE j == prev(s)
  <2>1. /\ next[s] \in Chain /\ next[s] = << j >> \o s
        /\ j \in DOMAIN facts /\ j \notin ToSet(s)
    BY <1>2
  <2> HIDE DEF j, next
  <2>2. ToSet(next[s]) = ToSet(s) \cup {j}
    BY <2>1, JoinedRows
  <2>3. QED BY <2>1, <2>2, RanksFall
<1>5. Loop(Older, Chain, done, value, next)
  <2>1. value \in [Chain -> Chain]
    OBVIOUS
  <2>2. \E f \in [Chain -> Chain] : Loop(f, Chain, done, value, next)
    <3> HIDE DEF done, value, next, rank, N
    <3>1. QED BY <1>1, <1>3, <1>4, <2>1, LoopRuns
  <2> DEFINE Walks(f) ==
                f = [chain \in Chain |->
                       LET prior == facts[Head(chain)].supersedes
                       IN IF prior \in ToSet(chain) \cup {None} THEN chain
                          ELSE f[<< prior >> \o chain]]
  <2>3. \E f : Walks(f)
    BY <2>2 DEF Loop
  <2>4. Older = CHOOSE f : Walks(f)
    BY DEF Older
  <2>5. Walks(Older)
    BY <2>3, <2>4
  <2> HIDE DEF Older
  <2>6. QED BY <2>5, ZenonT(40) DEF Loop
<1>6. << i >> \in P
  <2>1. Linked(<< i >>)
    BY <1>1 DEF Linked
  <2>2. QED BY <1>1, <2>1, ChainIs
<1>7. \A s \in P \ done : next[s] \in P
  <2> SUFFICES ASSUME NEW s \in P, s \notin done PROVE next[s] \in P
    OBVIOUS
  <2>1. Linked(s) /\ Last(s) = i /\ s \in Chain
    OBVIOUS
  <2>2. /\ next[s] = << prev(s) >> \o s /\ next[s] \in Chain
        /\ prev(s) = facts[s[1]].supersedes /\ prev(s) # None
    BY <1>2, <2>1
  <2>3. Linked(next[s]) /\ Last(next[s]) = i
    BY <2>1, <2>2, LinkedBefore
  <2>4. QED BY <2>2, <2>3
<1>8. PICK d \in P : d \in done /\ Older[<< i >>] = value[d]
  <2>1. P \in SUBSET Chain
    OBVIOUS
  <2> HIDE DEF done, value, next, rank, N, P
  <2>2. QED BY <1>3, <1>4, <1>5, <1>6, <1>7, <2>1, LoopEnds
<1>9. Older[<< i >>] = d /\ Linked(d) /\ Last(d) = i /\ d \in Chain
  BY <1>8
<1>10. facts[d[1]].supersedes = None
  <2>1. facts[d[1]].supersedes \in ToSet(d) \cup {None}
    BY <1>8, <1>9, ChainIs
  <2>2. QED BY <1>9, <2>1, LinkedBefore
<1>11. QED BY <1>9, <1>10

\* The rows that supersede the last one: at most one.
LEMMA OneSuccessor ==
    ASSUME TypeOK, ChainsNeverFork, NEW i \in DOMAIN facts
    PROVE  \/ Successors(i) = {} /\ Cardinality(Successors(i)) = 0
           \/ \E j \in DOMAIN facts : /\ facts[j].supersedes = i /\ Successors(i) = {j}
                                      /\ Cardinality(Successors(i)) = 1
<1>1. CASE Successors(i) = {}
  BY <1>1, FS_EmptySet
<1>2. CASE Successors(i) # {}
  <2>1. PICK j \in DOMAIN facts : facts[j].supersedes = i
    BY <1>2 DEF Successors
  <2>2. i # None
    BY Superseded
  <2>3. Successors(i) = {j}
    BY <2>1, <2>2, Superseded DEF Successors
  <2>4. Cardinality({j}) = 1
    BY FS_Singleton
  <2>5. QED BY <2>1, <2>3, <2>4
<1>3. QED BY <1>1, <1>2

Prefix(h, g) == Len(h) <= Len(g) /\ \A n \in 1 .. Len(h) : g[n] = h[n]

\* What the loop forwards keeps: a chain that begins with h.
LEMMA NewerIs ==
    ASSUME TypeOK, ChainsNeverFork, NEW h, Linked(h), facts[h[1]].supersedes = None
    PROVE  History(Newer[h]) /\ Prefix(h, Newer[h])
<1> DEFINE heirs(s) == Successors(Last(s))
           done == {s \in Chain : Cardinality(heirs(s)) > 1 \/ heirs(s) \subseteq ToSet(s)}
           value == [s \in Chain |-> IF Cardinality(heirs(s)) > 1 THEN None ELSE s]
           next == [s \in Chain |-> Append(s, CHOOSE j \in heirs(s) : TRUE)]
           rank == [s \in Chain |-> Cardinality(DOMAIN facts \ ToSet(s))]
           N == Cardinality(DOMAIN facts)
           P == {s \in Chain : Linked(s) /\ Prefix(h, s)}
<1>1. \A s \in Chain : Last(s) \in DOMAIN facts
  BY ChainIs
<1>2. ASSUME NEW s \in Chain
      PROVE  /\ ~(Cardinality(heirs(s)) > 1)
             /\ s \notin done => \E j \in DOMAIN facts :
                                    /\ facts[j].supersedes = Last(s) /\ heirs(s) = {j}
                                    /\ j \notin ToSet(s) /\ next[s] = Append(s, j)
  <2>1. CASE heirs(s) = {} /\ Cardinality(heirs(s)) = 0
    BY <2>1
  <2>2. ASSUME NEW j \in DOMAIN facts, facts[j].supersedes = Last(s), heirs(s) = {j},
               Cardinality(heirs(s)) = 1
        PROVE  /\ ~(Cardinality(heirs(s)) > 1)
               /\ s \notin done => j \notin ToSet(s) /\ next[s] = Append(s, j)
    <3>1. s \notin done => j \notin ToSet(s)
      BY <2>2
    <3>2. (CHOOSE k \in heirs(s) : TRUE) = j
      BY <2>2
    <3>3. QED BY <2>2, <3>1, <3>2
  <2>3. QED
    <3>1. \/ heirs(s) = {} /\ Cardinality(heirs(s)) = 0
          \/ \E j \in DOMAIN facts : /\ facts[j].supersedes = Last(s) /\ heirs(s) = {j}
                                     /\ Cardinality(heirs(s)) = 1
      BY <1>1, OneSuccessor
    <3> HIDE DEF done, next
    <3>2. QED BY <2>1, <2>2, <3>1
<1>3. N \in Nat /\ rank \in [Chain -> 0 .. N]
  BY RanksAre
<1>4. RankFalls(Chain, done, next, rank)
  <2> SUFFICES ASSUME NEW s \in Chain, s \notin done
               PROVE  next[s] \in Chain /\ rank[next[s]] < rank[s]
    BY DEF RankFalls
  <2>1. PICK j \in DOMAIN facts : j \notin ToSet(s) /\ next[s] = Append(s, j)
    BY <1>2
  <2>2. next[s] \in Chain /\ ToSet(next[s]) = ToSet(s) \cup {j}
    BY <2>1, JoinedRows
  <2> HIDE DEF next
  <2>3. QED BY <2>1, <2>2, RanksFall
<1>5. Loop(Newer, Chain, done, value, next)
  <2>1. value \in [Chain -> Chain \cup {None}]
    OBVIOUS
  <2>2. \E f \in [Chain -> Chain \cup {None}] : Loop(f, Chain, done, value, next)
    <3> HIDE DEF done, value, next, rank, N
    <3>1. QED BY <1>3, <1>4, <2>1, LoopRuns
  <2> DEFINE Walks(f) ==
                f = [chain \in Chain |->
                       LET then == Successors(Last(chain))
                       IN IF Cardinality(then) > 1 THEN None
                          ELSE IF then \subseteq ToSet(chain) THEN chain
                          ELSE f[Append(chain, CHOOSE j \in then : TRUE)]]
  <2>3. \E f : Walks(f)
    BY <2>2 DEF Loop
  <2>4. Newer = CHOOSE f : Walks(f)
    BY DEF Newer
  <2>5. Walks(Newer)
    BY <2>3, <2>4
  <2> HIDE DEF Newer
  <2>6. QED BY <2>5 DEF Loop
<1>6. h \in P
  BY ChainIs DEF Linked, Prefix
<1>7. \A s \in P \ done : next[s] \in P
  <2> SUFFICES ASSUME NEW s \in P, s \notin done PROVE next[s] \in P
    OBVIOUS
  <2>1. Linked(s) /\ Prefix(h, s) /\ s \in Chain
    OBVIOUS
  <2>2. PICK j \in DOMAIN facts : facts[j].supersedes = Last(s) /\ next[s] = Append(s, j)
    BY <1>2, <2>1
  <2>3. Linked(next[s])
    BY <2>1, <2>2, LinkedAfter
  <2>4. Prefix(h, Append(s, j))
    <3>1. /\ Len(Append(s, j)) = Len(s) + 1 /\ \A n \in 1 .. Len(s) : Append(s, j)[n] = s[n]
          /\ Len(s) \in Nat /\ Len(h) \in Nat
      BY <2>1, ChainIs, AppendProperties DEF Linked
    <3>2. QED BY <2>1, <3>1 DEF Prefix
  <2>5. next[s] \in Chain
    BY <2>3 DEF Linked
  <2> HIDE DEF next
  <2>6. QED BY <2>2, <2>3, <2>4, <2>5
<1>8. PICK d \in P : d \in done /\ Newer[h] = value[d]
  <2>1. P \in SUBSET Chain
    OBVIOUS
  <2> HIDE DEF done, value, next, rank, N, P
  <2>2. QED BY <1>3, <1>4, <1>5, <1>6, <1>7, <2>1, LoopEnds
<1>9. Newer[h] = d /\ Linked(d) /\ Prefix(h, d) /\ d \in Chain /\ heirs(d) \subseteq ToSet(d)
  BY <1>2, <1>8
<1>10. facts[d[1]].supersedes = None
  <2>1. Len(h) >= 1 /\ Len(h) \in Nat
    BY ChainIs DEF Linked
  <2>2. QED BY <1>9, <2>1 DEF Prefix
<1>11. \A j \in DOMAIN facts : facts[j].supersedes # d[Len(d)]
  <2> SUFFICES ASSUME NEW j \in DOMAIN facts, facts[j].supersedes = d[Len(d)] PROVE FALSE
    OBVIOUS
  <2>1. Last(d) = d[Len(d)]
    BY <1>9, ChainIs
  <2>2. j \notin ToSet(d)
    BY <1>9, <2>1, LinkedAfter
  <2>3. j \in heirs(d)
    BY <2>1 DEF Successors
  <2>4. QED BY <1>9, <2>2, <2>3
<1>12. QED BY <1>9, <1>10, <1>11 DEF History

\* Where a history and a chain share a row, so do they share those before it,
\* and the row is as far from the beginning of the history.
LEMMA SameBefore ==
    ASSUME TypeOK, ChainsNeverFork, NEW g, Linked(g), NEW h, Linked(h),
           NEW a \in 1 .. Len(g), NEW b \in 1 .. Len(h), g[a] = h[b]
    PROVE  /\ \A m \in 0 .. Len(g) : m < a /\ m < b => g[a - m] = h[b - m]
           /\ facts[g[1]].supersedes = None => b <= a
<1> DEFINE T == {m \in 0 .. Len(g) : m < a /\ m < b => g[a - m] = h[b - m]}
<1>1. /\ Len(g) \in Nat /\ Len(h) \in Nat
      /\ \A n \in 1 .. Len(g) : g[n] \in DOMAIN facts
      /\ \A n \in 1 .. Len(h) : h[n] \in DOMAIN facts /\ h[n] # None
      /\ \A n \in 2 .. Len(g) : facts[g[n]].supersedes = g[n - 1]
      /\ \A n \in 2 .. Len(h) : facts[h[n]].supersedes = h[n - 1]
  BY ChainIs, Superseded DEF Linked
<1>2. 0 \in T
  BY <1>1
<1>3. ASSUME NEW m \in 1 .. Len(g), m - 1 \in T PROVE m \in T
  <2> SUFFICES ASSUME m < a, m < b PROVE g[a - m] = h[b - m]
    BY <1>1
  <2>1. g[a - (m - 1)] = h[b - (m - 1)]
    BY <1>1, <1>3
  <2>2. /\ a - (m - 1) \in 2 .. Len(g) /\ b - (m - 1) \in 2 .. Len(h)
        /\ (a - (m - 1)) - 1 = a - m /\ (b - (m - 1)) - 1 = b - m
    BY <1>1
  <2>3. /\ facts[g[a - (m - 1)]].supersedes = g[(a - (m - 1)) - 1]
        /\ facts[h[b - (m - 1)]].supersedes = h[(b - (m - 1)) - 1]
    BY <1>1, <2>2
  <2>4. QED BY <2>1, <2>2, <2>3
<1>4. \A m \in 0 .. Len(g) : m < a /\ m < b => g[a - m] = h[b - m]
  <2>1. 0 .. Len(g) \subseteq T
    <3> HIDE DEF T
    <3>1. QED BY <1>1, <1>2, <1>3, Upwards
  <2>2. QED BY <2>1
<1>5. ASSUME facts[g[1]].supersedes = None, a < b PROVE FALSE
  <2>1. a - 1 \in 0 .. Len(g) /\ a - 1 < a /\ a - 1 < b /\ a - (a - 1) = 1
    BY <1>1, <1>5
  <2>2. g[1] = h[b - (a - 1)]
    BY <1>4, <2>1
  <2>3. b - (a - 1) \in 2 .. Len(h) /\ (b - (a - 1)) - 1 \in 1 .. Len(h)
    BY <1>1, <1>5
  <2>4. facts[h[b - (a - 1)]].supersedes = h[(b - (a - 1)) - 1]
    BY <1>1, <2>3
  <2>5. h[(b - (a - 1)) - 1] # None
    BY <1>1, <2>3
  <2>6. QED BY <1>5, <2>2, <2>4, <2>5
<1>6. QED BY <1>1, <1>4, <1>5

\* Histories with one beginning are one.
LEMMA SameAfter ==
    ASSUME TypeOK, ChainsNeverFork, NEW g, Linked(g), NEW h, History(h), g[1] = h[1]
    PROVE  Prefix(g, h)
<1> DEFINE T == {n \in 0 .. Len(g) : \A k \in 1 .. n : k <= Len(h) /\ g[k] = h[k]}
<1>1. /\ Len(g) \in Nat /\ Len(h) \in Nat /\ Len(h) >= 1
      /\ \A n \in 1 .. Len(g) : g[n] \in DOMAIN facts /\ g[n] # None
      /\ \A n \in 1 .. Len(h) : h[n] \in DOMAIN facts
      /\ \A n \in 2 .. Len(g) : facts[g[n]].supersedes = g[n - 1]
      /\ \A n \in 2 .. Len(h) : facts[h[n]].supersedes = h[n - 1]
      /\ \A j \in DOMAIN facts : facts[j].supersedes # h[Len(h)]
  BY ChainIs, Superseded DEF Linked, History
<1>2. 0 \in T
  BY <1>1
<1>3. ASSUME NEW n \in 1 .. Len(g), n - 1 \in T PROVE n \in T
  <2>1. \A k \in 1 .. n - 1 : k <= Len(h) /\ g[k] = h[k]
    BY <1>3
  <2>2. n <= Len(h) /\ g[n] = h[n]
    <3>1. CASE n = 1
      BY <1>1, <3>1
    <3>2. CASE n # 1
      <4>1. /\ n - 1 \in 1 .. n - 1 /\ n \in 2 .. Len(g) /\ n - 1 \in 1 .. Len(g)
            /\ n - 1 \in 1 .. Len(h) /\ g[n - 1] = h[n - 1]
        <5>1. n - 1 \in 1 .. n - 1 /\ n \in 2 .. Len(g) /\ n - 1 \in 1 .. Len(g)
          BY <1>1, <3>2
        <5>2. QED BY <1>1, <2>1, <5>1
      <4>2. facts[g[n]].supersedes = h[n - 1] /\ g[n] \in DOMAIN facts
        BY <1>1, <4>1
      <4>3. n - 1 # Len(h)
        BY <1>1, <4>2
      <4>4. n \in 2 .. Len(h) /\ n \in 1 .. Len(h)
        BY <1>1, <4>1, <4>3
      <4>5. facts[h[n]].supersedes = h[n - 1] /\ h[n] \in DOMAIN facts
        BY <1>1, <4>4
      <4>6. facts[g[n]].supersedes # None
        BY <1>1, <4>1, <4>2
      <4>7. g[n] = h[n]
        BY <4>2, <4>5, <4>6, Superseded
      <4>8. QED BY <4>4, <4>7
    <3>3. QED BY <3>1, <3>2
  <2>3. \A k \in 1 .. n : k = n \/ k \in 1 .. n - 1
    OBVIOUS
  <2>4. QED BY <2>1, <2>2, <2>3
<1>4. 0 .. Len(g) \subseteq T
  <2> HIDE DEF T
  <2>1. QED BY <1>1, <1>2, <1>3, Upwards
<1>5. \A k \in 1 .. Len(g) : k <= Len(h) /\ g[k] = h[k]
  BY <1>1, <1>4
<1>6. QED
  <2>1. Len(g) <= Len(h)
    <3>1. CASE Len(g) = 0
      BY <1>1, <3>1
    <3>2. CASE Len(g) # 0
      <4>1. Len(g) \in 1 .. Len(g)
        BY <1>1, <3>2
      <4>2. QED BY <1>5, <4>1
    <3>3. QED BY <3>1, <3>2
  <2>2. QED BY <1>5, <2>1 DEF Prefix

LEMMA HistoriesMeet ==
    ASSUME TypeOK, ChainsNeverFork, NEW g, History(g), NEW h, History(h),
           NEW i \in ToSet(g), i \in ToSet(h)
    PROVE  g = h
<1>1. /\ Linked(g) /\ Linked(h) /\ g \in Seq(DOMAIN facts) /\ h \in Seq(DOMAIN facts)
      /\ Len(g) \in Nat /\ Len(h) \in Nat
      /\ facts[g[1]].supersedes = None /\ facts[h[1]].supersedes = None
  BY ChainIs DEF History, Linked
<1>2. PICK a \in 1 .. Len(g) : g[a] = i
  BY ChainIs DEF History, Linked
<1>3. PICK b \in 1 .. Len(h) : h[b] = i
  BY ChainIs DEF History, Linked
<1>4. a <= b /\ b <= a
  BY <1>1, <1>2, <1>3, SameBefore
<1>5. g[1] = h[1]
  <2>1. a - 1 \in 0 .. Len(g) /\ a - 1 < a /\ a - 1 < b /\ a - (a - 1) = 1 /\ b - (a - 1) = 1
    BY <1>1, <1>4
  <2>2. g[a - (a - 1)] = h[b - (a - 1)]
    BY <1>1, <1>2, <1>3, <2>1, SameBefore
  <2>3. QED BY <2>1, <2>2
<1>6. Prefix(g, h) /\ Prefix(h, g)
  BY <1>1, <1>5, SameAfter
<1>7. QED BY <1>1, <1>6, SeqEqual DEF Prefix

\* The walk from a row gives the history it is in.
LEMMA WalkIsHistory ==
    ASSUME TypeOK, ChainsNeverFork, NEW i \in DOMAIN facts
    PROVE  /\ History(FactHistory(i)) /\ FactHistory(i) \in Chain
           /\ i \in ToSet(FactHistory(i))
<1> DEFINE h == Older[<< i >>]
           g == Newer[h]
<1>1. Linked(h) /\ facts[h[1]].supersedes = None /\ Last(h) = i
  BY OlderIs
<1> HIDE DEF h
<1>2. History(g) /\ Prefix(h, g)
  BY <1>1, NewerIs
<1> HIDE DEF g
<1>3. g \in Chain /\ h \in Chain
  BY <1>1, <1>2 DEF History, Linked
<1>4. Len(h) \in 1 .. Len(h) /\ Len(h) \in 1 .. Len(g) /\ h[Len(h)] = i
  BY <1>1, <1>2, <1>3, ChainIs DEF Prefix
<1>5. g[Len(h)] = i
  BY <1>2, <1>4 DEF Prefix
<1>6. i \in ToSet(g)
  BY <1>3, <1>4, <1>5, ChainIs
<1>7. FactHistory(i) = g
  BY DEF FactHistory, g, h
<1>8. QED BY <1>2, <1>3, <1>6, <1>7

\* fact_history is never ambiguous and gives, from every revision of a fact,
\* the one list of them from the first revision to the head (fact_history,
\* invalidate_in_tx).
THEOREM HistoriesAlwaysAgree == Spec => HistoriesAgree
<1>1. TypeOK /\ ChainsNeverFork => \A i \in DOMAIN facts : OneHistory(i)
  <2> SUFFICES ASSUME TypeOK, ChainsNeverFork, NEW i \in DOMAIN facts PROVE OneHistory(i)
    OBVIOUS
  <2> DEFINE chain == FactHistory(i)
  <2>1. History(chain) /\ chain \in Chain /\ i \in ToSet(chain)
    BY WalkIsHistory
  <2>2. chain # None
    <3>1. chain \in Seq(Nat)
      <4>1. DOMAIN facts \subseteq Nat
        BY Superseded
      <4> HIDE DEF chain
      <4>2. Len(chain) \in Nat /\ chain \in [1 .. Len(chain) -> Nat]
        BY <2>1, <4>1, ChainIs, LenProperties
      <4>3. QED BY <4>2, IsASeq
    <3>2. QED BY <3>1, ReadsAssumption
  <2> HIDE DEF chain
  <2>3. Head(chain) = chain[1] /\ Last(chain) = chain[Len(chain)]
        /\ ToSet(chain) \subseteq DOMAIN facts /\ Last(chain) \in DOMAIN facts
    BY <2>1, ChainIs
  <2>4. facts[Head(chain)].supersedes = None
    BY <2>1, <2>3 DEF History
  <2>5. Last(chain) \in NewestSeen(facts, None)
    BY <2>1, <2>3 DEF History, NewestSeen, RecordedBy
  <2>6. ASSUME NEW k \in ToSet(chain) PROVE FactHistory(k) = chain
    BY <2>1, <2>3, WalkIsHistory, HistoriesMeet
  <2>7. QED BY <2>2, <2>4, <2>5, <2>6 DEF OneHistory, chain
<1>2. QED BY <1>1, FactTypes, NoForks, PTL DEF HistoriesAgree
=============================================================================
