-------------------------- MODULE FilesProofs ---------------------------
(***************************************************************************)
(* Three files and what they promise.                                      *)
(*                                                                         *)
(* However many processes create, migrate and open a store at a time: its   *)
(* version row describes its tables, no script meets the tables of another  *)
(* process, and an open store has the current format.  What a process has   *)
(* read may be stale.  The invariant says how stale: the version only moves *)
(* forward from what was read, and under the write lock is what was read.   *)
(*                                                                         *)
(* However long a record is and wherever a write stops: journal.bin is a log *)
(* of records.  The cells of an append after whole records read as its      *)
(* records; after a broken one they stay out of step, since the chunk that  *)
(* would complete it holds a first cell where a later one belongs.          *)
(*                                                                         *)
(* Whatever configuration a user has, for any number of processes and any   *)
(* events: the verbs keep what is not theirs, and the file that is read is  *)
(* one whole configuration, as long as no two verbs have had the temporary  *)
(* file in hand at once.                                                    *)
(***************************************************************************)
EXTENDS StoreOpen, JournalFile, HooksConfig, ListProofs

-----------------------------------------------------------------------------
(* The opening of a store. *)

InCall == {"dispatch", "begin", "recheck", "ddl"}

\* The scripts run under the write lock, from the version that was read again.
Locked ==
    \A p \in Opener :
        /\ at_step[p] \in {"recheck", "ddl"} => write_lock = p
        /\ at_step[p] = "ddl" => version = seen[p]

\* A process upgrades from nothing or from an older format.
Upgrades ==
    \A p \in Opener :
        at_step[p] \in {"begin", "recheck", "ddl"} => seen[p] \in {Nothing} \cup 1 .. (FORMAT_VERSION - 1)

\* The version has only moved forward since a process read it.
ReadEarlier ==
    \A p \in Opener : at_step[p] \in InCall =>
        /\ seen[p] \in Nat => version \in Nat /\ version >= seen[p]
        /\ seen[p] = Nothing => version \in {Nothing, FORMAT_VERSION}

OpenIsCurrent == \A p \in Opener : at_step[p] = "open" => version = FORMAT_VERSION

OpenInv ==
    OpenTypeOK /\ SchemaMatchesVersion /\ Locked /\ Upgrades /\ ReadEarlier /\ OpenIsCurrent

-----------------------------------------------------------------------------
LEMMA InitInv == OpenInit => OpenInv
<1> SUFFICES ASSUME OpenInit PROVE OpenInv
  OBVIOUS
<1> USE OpenAssumption DEF OpenInit
<1>1. version \in FormatVersion /\ parts = Parts(version) BY DEF OpenInit
<1>2. parts \subseteq 1 .. FORMAT_VERSION BY <1>1 DEF Parts, FormatVersion
<1>3. OpenTypeOK BY <1>2 DEF OpenTypeOK, FormatVersion
<1>4. SchemaMatchesVersion BY DEF SchemaMatchesVersion
<1>5. Locked /\ Upgrades /\ ReadEarlier /\ OpenIsCurrent
  BY DEF Locked, Upgrades, ReadEarlier, OpenIsCurrent, InCall
<1>6. QED BY <1>3, <1>4, <1>5 DEF OpenInv

-----------------------------------------------------------------------------
(* Steps that neither read the version nor write it. *)

\* A process moves on outside the upgrade.
LEMMA MovesInv ==
    ASSUME OpenInv, OpenTypeOK', NEW p \in Opener,
           UNCHANGED <<version, parts, write_lock, seen>>,
           NEW label \in {"idle", "pragma", "retry", "read"},
           at_step' = [at_step EXCEPT ![p] = label]
    PROVE  OpenInv'
<1> USE DEF OpenInv
<1>2. \A q \in Opener : at_step'[q] = IF q = p THEN label ELSE at_step[q] BY DEF OpenTypeOK
<1>3. SchemaMatchesVersion' BY DEF SchemaMatchesVersion, Parts
<1>4. Locked' BY <1>2 DEF Locked
<1>5. Upgrades' /\ ReadEarlier' /\ OpenIsCurrent'
  BY <1>2 DEF Upgrades, ReadEarlier, OpenIsCurrent, InCall
<1>6. QED BY <1>3, <1>4, <1>5

\* A call that returns, or a process that ends.
LEMMA LeaveInv ==
    ASSUME OpenInv, NEW p \in Opener, NEW label \in {"idle", "open"}, Leave(p, label),
           UNCHANGED <<store_exists, wal, version, parts>>,
           label = "open" => version = FORMAT_VERSION
    PROVE  OpenInv'
<1> USE OpenAssumption DEF OpenInv
<1>1. /\ OpenTypeOK /\ at_step' = [at_step EXCEPT ![p] = label]
      /\ switches' = [switches EXCEPT ![p] = 0] /\ seen' = [seen EXCEPT ![p] = Nothing]
      /\ read_only' = [read_only EXCEPT ![p] = @ /\ label = "open"]
      /\ write_lock' = IF write_lock = p THEN Nothing ELSE write_lock
  BY DEF Leave, Proceed
<1>2. read_only' \in [Opener -> BOOLEAN]
  BY <1>1, Zenon DEF OpenTypeOK
<1>3. OpenTypeOK' BY <1>1, <1>2 DEF OpenTypeOK, FormatVersion
<1>4. \A q \in Opener : /\ at_step'[q] = IF q = p THEN label ELSE at_step[q]
                        /\ seen'[q] = IF q = p THEN Nothing ELSE seen[q]
  BY <1>1 DEF OpenTypeOK
<1>5. SchemaMatchesVersion' BY DEF SchemaMatchesVersion, Parts
<1>6. Locked' BY <1>1, <1>4 DEF Locked
<1>7. Upgrades' /\ ReadEarlier' /\ OpenIsCurrent'
  BY <1>4 DEF Upgrades, ReadEarlier, OpenIsCurrent, InCall
<1>8. QED BY <1>3, <1>5, <1>6, <1>7

-----------------------------------------------------------------------------
(* The upgrade. *)

\* A step of the upgrade is over, and its version is in the file.
LEMMA NextStepInv ==
    ASSUME OpenInv, NEW p \in Opener, at_step[p] \in {"recheck", "ddl"}, NextStep(p),
           UNCHANGED <<store_exists, wal>>,
           version' \in FormatVersion, parts' = Parts(version'),
           After(seen[p]) \in Nat, version' \in Nat, version' >= After(seen[p]),
           \/ version' = version
           \/ version = Nothing /\ version' = FORMAT_VERSION
           \/ version \in 1 .. (FORMAT_VERSION - 1) /\ version' = version + 1
    PROVE  OpenInv'
<1> USE OpenAssumption DEF OpenInv
<1>1. /\ OpenTypeOK /\ write_lock = p /\ seen[p] \in {Nothing} \cup 1 .. (FORMAT_VERSION - 1)
  BY DEF Locked, Upgrades
<1>2. After(seen[p]) \in 1 .. FORMAT_VERSION /\ (After(seen[p]) = FORMAT_VERSION \/ After(seen[p]) \in 1 .. (FORMAT_VERSION - 1))
  BY <1>1 DEF After
<1>3. PICK label \in {"dispatch", "begin"} :
        /\ at_step' = [at_step EXCEPT ![p] = label]
        /\ label = "dispatch" => After(seen[p]) = FORMAT_VERSION
        /\ label = "begin" => After(seen[p]) # FORMAT_VERSION
  BY DEF NextStep, Proceed
<1>4. /\ seen' = [seen EXCEPT ![p] = After(seen[p])] /\ write_lock' = Nothing
      /\ switches' = switches /\ read_only' = read_only
  BY DEF NextStep
<1>5. parts' \subseteq 1 .. FORMAT_VERSION BY DEF Parts, FormatVersion
<1>6. OpenTypeOK' BY <1>1, <1>2, <1>3, <1>4, <1>5 DEF OpenTypeOK, FormatVersion
<1>7. \A q \in Opener : /\ at_step'[q] = IF q = p THEN label ELSE at_step[q]
                        /\ seen'[q] = IF q = p THEN After(seen[p]) ELSE seen[q]
  BY <1>1, <1>3, <1>4 DEF OpenTypeOK
<1>8. SchemaMatchesVersion' BY DEF SchemaMatchesVersion
<1>9. \A q \in Opener : at_step'[q] \notin {"recheck", "ddl"}
  BY <1>1, <1>7 DEF Locked
<1>10. Locked' BY <1>9 DEF Locked
<1>11. Upgrades' BY <1>2, <1>3, <1>7 DEF Upgrades
<1>12. ReadEarlier'
  <2> SUFFICES ASSUME NEW q \in Opener, at_step'[q] \in InCall
               PROVE  /\ seen'[q] \in Nat => version' \in Nat /\ version' >= seen'[q]
                      /\ seen'[q] = Nothing => version' \in {Nothing, FORMAT_VERSION}
    BY DEF ReadEarlier
  <2>1. CASE q = p BY <1>2, <1>7, <2>1
  <2>2. CASE q # p
    <3>1. at_step[q] \in InCall /\ seen'[q] = seen[q] BY <1>7, <2>2
    <3>2. /\ seen[q] \in Nat => version \in Nat /\ version >= seen[q]
          /\ seen[q] = Nothing => version \in {Nothing, FORMAT_VERSION}
      BY <3>1 DEF ReadEarlier
    <3>3. QED BY <3>1, <3>2
  <2>3. QED BY <2>1, <2>2
<1>13. OpenIsCurrent'
  BY <1>7 DEF OpenIsCurrent
<1>14. QED BY <1>6, <1>8, <1>10, <1>11, <1>12, <1>13

\* Opening never finds the tables of another process.
LEMMA InvNoConflict == OpenInv => NoConflict
<1> SUFFICES ASSUME OpenInv, NEW p \in Opener, at_step[p] = "ddl" PROVE ~Conflicts(seen[p])
  BY DEF NoConflict
<1> USE OpenAssumption
<1>1. /\ version = seen[p] /\ seen[p] \in {Nothing} \cup 1 .. (FORMAT_VERSION - 1)
      /\ parts = Parts(version)
  BY DEF OpenInv, Locked, Upgrades, SchemaMatchesVersion
<1>2. CASE seen[p] = Nothing BY <1>1, <1>2 DEF Conflicts, Adds, Parts
<1>3. CASE seen[p] \in 1 .. (FORMAT_VERSION - 1) BY <1>1, <1>3 DEF Conflicts, Adds, Parts
<1>4. QED BY <1>1, <1>2, <1>3

LEMMA RecheckInv == ASSUME OpenInv, NEW p \in Opener, Recheck(p) PROVE OpenInv'
<1> USE OpenAssumption DEF OpenInv
<1>1. /\ at_step[p] = "recheck" /\ UNCHANGED <<store_exists, wal, version, parts>>
  BY DEF Recheck
<1>2. /\ OpenTypeOK /\ seen[p] \in {Nothing} \cup 1 .. (FORMAT_VERSION - 1) /\ write_lock = p
      /\ seen[p] \in Nat => version \in Nat /\ version >= seen[p]
      /\ seen[p] = Nothing => version \in {Nothing, FORMAT_VERSION}
  BY <1>1 DEF Locked, Upgrades, ReadEarlier, InCall
<1>3. CASE version = seen[p]
  <2>1. /\ at_step' = [at_step EXCEPT ![p] = "ddl"]
        /\ UNCHANGED <<write_lock, read_only, switches, seen>>
    BY <1>3 DEF Recheck, Proceed
  <2>2. OpenTypeOK' BY <1>1, <1>2, <2>1 DEF OpenTypeOK
  <2>3. \A q \in Opener : at_step'[q] = IF q = p THEN "ddl" ELSE at_step[q]
    BY <1>2, <2>1 DEF OpenTypeOK
  <2>4. SchemaMatchesVersion' BY <1>1 DEF SchemaMatchesVersion, Parts
  <2>5. Locked' BY <1>1, <1>2, <1>3, <2>1, <2>3 DEF Locked
  <2>6. Upgrades' /\ ReadEarlier' /\ OpenIsCurrent'
    BY <1>1, <1>2, <2>1, <2>3 DEF Upgrades, ReadEarlier, OpenIsCurrent, InCall
  <2>7. QED BY <2>2, <2>4, <2>5, <2>6
<1>4. CASE version # seen[p]
  <2>1. NextStep(p) BY <1>4 DEF Recheck
  <2>2. /\ After(seen[p]) \in Nat /\ version \in Nat /\ version >= After(seen[p])
    BY <1>2, <1>4 DEF After
  <2>3. version' \in FormatVersion /\ parts' = Parts(version')
    BY <1>1 DEF OpenTypeOK, SchemaMatchesVersion
  <2>4. QED BY <1>1, <2>1, <2>2, <2>3, NextStepInv
<1>5. QED BY <1>3, <1>4

\* A script and its meta row.
LEMMA ApplyStep ==
    ASSUME OpenInv, NEW p \in Opener, Apply(p)
    PROVE  /\ version = seen[p] /\ version' = After(version)
           /\ \/ version = Nothing /\ version' = FORMAT_VERSION
              \/ version \in 1 .. (FORMAT_VERSION - 1) /\ version' = version + 1
           /\ parts' = Parts(version')
<1> USE OpenAssumption
<1>1. /\ at_step[p] = "ddl" /\ parts' = parts \cup Adds(seen[p]) /\ version' = After(seen[p])
  BY DEF Apply
<1>2. /\ version = seen[p] /\ seen[p] \in {Nothing} \cup 1 .. (FORMAT_VERSION - 1)
      /\ parts = Parts(version)
  BY <1>1 DEF OpenInv, Locked, Upgrades, SchemaMatchesVersion
<1>3. CASE version = Nothing BY <1>1, <1>2, <1>3 DEF After, Adds, Parts
<1>4. CASE version \in 1 .. (FORMAT_VERSION - 1)
  <2>1. version # Nothing BY <1>4
  <2>2. version' = version + 1 BY <1>1, <1>2, <2>1 DEF After
  <2>3. parts = 1 .. version /\ Adds(version) = {version + 1} BY <1>2, <1>4, <2>1 DEF Parts, Adds
  <2>4. 1 .. (version + 1) = (1 .. version) \cup {version + 1} BY <1>4
  <2>5. parts' = Parts(version') BY <1>1, <1>2, <1>4, <2>2, <2>3, <2>4 DEF Parts
  <2>6. QED BY <1>1, <1>2, <1>4, <2>2, <2>5
<1>5. QED BY <1>2, <1>3, <1>4

LEMMA ApplyInv == ASSUME OpenInv, NEW p \in Opener, Apply(p) PROVE OpenInv'
<1>1. /\ at_step[p] = "ddl" /\ NextStep(p) /\ UNCHANGED <<store_exists, wal>>
  BY DEF Apply
<1>2. /\ version = seen[p] /\ version' = After(version)
      /\ \/ version = Nothing /\ version' = FORMAT_VERSION
         \/ version \in 1 .. (FORMAT_VERSION - 1) /\ version' = version + 1
      /\ parts' = Parts(version')
  BY ApplyStep
<1>3. version' \in 1 .. FORMAT_VERSION BY <1>2, OpenAssumption
<1>4. version' \in FormatVersion /\ version' \in Nat /\ After(seen[p]) \in Nat
      /\ version' >= After(seen[p])
  BY <1>2, <1>3, OpenAssumption DEF FormatVersion
<1>5. QED BY <1>1, <1>2, <1>4, NextStepInv

-----------------------------------------------------------------------------
LEMMA NextInv == ASSUME OpenInv, [OpenNext]_open_vars PROVE OpenInv'
<1> USE OpenAssumption
<1>0. OpenTypeOK BY DEF OpenInv
<1>1. CASE UNCHANGED open_vars
  BY <1>1 DEF OpenInv, OpenTypeOK, SchemaMatchesVersion, Parts, Locked, Upgrades, ReadEarlier,
              OpenIsCurrent, open_vars
<1>2. ASSUME NEW p \in Opener, NEW ro \in BOOLEAN, OpenStore(p, ro) PROVE OpenInv'
  <2>1. OpenTypeOK' BY <1>0, <1>2 DEF OpenStore, Proceed, OpenTypeOK
  <2>2. QED BY <1>2, <2>1, MovesInv DEF OpenStore, Proceed
<1>3. ASSUME NEW p \in Opener, SwitchToWal(p) PROVE OpenInv'
  <2>1. OpenTypeOK' BY <1>0, <1>3 DEF SwitchToWal, Proceed, OpenTypeOK
  <2>2. QED BY <1>3, <2>1, MovesInv DEF SwitchToWal, Proceed
<1>4. ASSUME NEW p \in Opener, SwitchBusy(p) PROVE OpenInv'
  <2>1. OpenTypeOK' BY <1>0, <1>4 DEF SwitchBusy, Proceed, OpenTypeOK
  <2>2. QED BY <1>4, <2>1, MovesInv DEF SwitchBusy, Proceed
<1>5. ASSUME NEW p \in Opener, SwitchRetry(p) PROVE OpenInv'
  <2>1. OpenTypeOK' BY <1>0, <1>5 DEF SwitchRetry, Proceed, OpenTypeOK
  <2>2. QED BY <1>5, <2>1, MovesInv DEF SwitchRetry, Proceed
<1>6. ASSUME NEW p \in Opener, SwitchFailed(p) \/ Refuse(p) \/ Fails(p) \/ Exit(p) PROVE OpenInv'
  BY <1>6, LeaveInv DEF SwitchFailed, Refuse, Fails, Exit
<1>7. ASSUME NEW p \in Opener, Opened(p) PROVE OpenInv'
  <2>1. version \in FormatVersion /\ version \in Nat /\ version >= FORMAT_VERSION
    BY <1>0, <1>7 DEF Opened, OpenInv, ReadEarlier, InCall, OpenTypeOK
  <2>2. version = FORMAT_VERSION BY <2>1 DEF FormatVersion
  <2>3. QED BY <1>7, <2>2, LeaveInv DEF Opened
<1>8. ASSUME NEW p \in Opener, ReadFormatVersion(p) PROVE OpenInv'
  <2>1. /\ seen' = [seen EXCEPT ![p] = version] /\ at_step' = [at_step EXCEPT ![p] = "dispatch"]
        /\ UNCHANGED <<store_exists, wal, version, parts, write_lock, read_only, switches>>
    BY <1>8 DEF ReadFormatVersion, Proceed
  <2>2. OpenTypeOK' BY <1>0, <2>1 DEF OpenTypeOK
  <2>3. \A q \in Opener : /\ at_step'[q] = IF q = p THEN "dispatch" ELSE at_step[q]
                          /\ seen'[q] = IF q = p THEN version ELSE seen[q]
    BY <1>0, <2>1 DEF OpenTypeOK
  <2>4. QED
    BY <2>1, <2>2, <2>3 DEF OpenInv, SchemaMatchesVersion, Parts, Locked, Upgrades, ReadEarlier,
                            OpenIsCurrent, InCall
<1>9. ASSUME NEW p \in Opener, Upgrade(p) PROVE OpenInv'
  <2>1. /\ at_step[p] = "dispatch" /\ seen[p] \notin {UnknownVersion, FORMAT_VERSION}
        /\ at_step' = [at_step EXCEPT ![p] = "begin"]
        /\ UNCHANGED <<store_exists, wal, version, parts, write_lock, read_only, switches, seen>>
    BY <1>9 DEF Upgrade, Proceed
  <2>2. OpenTypeOK' BY <1>0, <2>1 DEF OpenTypeOK
  <2>3. seen[p] \in {Nothing} \cup 1 .. (FORMAT_VERSION - 1)
    BY <1>0, <2>1 DEF OpenTypeOK, FormatVersion
  <2>4. \A q \in Opener : at_step'[q] = IF q = p THEN "begin" ELSE at_step[q]
    BY <1>0, <2>1 DEF OpenTypeOK
  <2>5. QED
    BY <2>1, <2>2, <2>3, <2>4 DEF OpenInv, SchemaMatchesVersion, Parts, Locked, Upgrades,
                                  ReadEarlier, OpenIsCurrent, InCall
<1>10. ASSUME NEW p \in Opener, BeginImmediate(p) PROVE OpenInv'
  <2>1. /\ at_step[p] = "begin" /\ write_lock = Nothing /\ write_lock' = p
        /\ at_step' = [at_step EXCEPT ![p] = "recheck"]
        /\ UNCHANGED <<store_exists, wal, version, parts, read_only, switches, seen>>
    BY <1>10 DEF BeginImmediate, Proceed
  <2>2. OpenTypeOK' BY <1>0, <2>1 DEF OpenTypeOK
  <2>3. \A q \in Opener : at_step'[q] = IF q = p THEN "recheck" ELSE at_step[q]
    BY <1>0, <2>1 DEF OpenTypeOK
  <2>4. Locked' BY <2>1, <2>3 DEF OpenInv, Locked
  <2>5. QED
    BY <2>1, <2>2, <2>3, <2>4 DEF OpenInv, SchemaMatchesVersion, Parts, Upgrades, ReadEarlier,
                                  OpenIsCurrent, InCall
<1>11. QED
  BY <1>1, <1>2, <1>3, <1>4, <1>5, <1>6, <1>7, <1>8, <1>9, <1>10, RecheckInv, ApplyInv
     DEF OpenNext, OpenStep

THEOREM OpenInvariant == OpenSpec => []OpenInv
<1>1. OpenInv /\ [OpenNext]_open_vars => OpenInv' BY NextInv
<1>2. QED BY InitInv, <1>1, PTL DEF OpenSpec

\* Store::open keeps its state what it is declared to be.
THEOREM OpenTypes == OpenSpec => []OpenTypeOK
<1>1. OpenInv => OpenTypeOK BY DEF OpenInv
<1>2. QED BY <1>1, OpenInvariant, PTL

\* The version row and the tables agree, whoever migrates, fails or dies
\* (apply_current, run_migration).
THEOREM SchemaAlwaysMatches == OpenSpec => []SchemaMatchesVersion
<1>1. OpenInv => SchemaMatchesVersion BY DEF OpenInv
<1>2. QED BY <1>1, OpenInvariant, PTL

\* No opener's script meets another's tables (the second read under the lock).
THEOREM NeverConflicts == OpenSpec => []NoConflict
BY InvNoConflict, OpenInvariant, PTL

-----------------------------------------------------------------------------
(* The refinement of StoreFormat. *)

LEMMA InitRefines == OpenInit => Format!Init
BY OpenAssumption DEF OpenInit, Format!Init, FormatVersion

Shut == {"idle", "pragma", "retry", "read", "dispatch", "begin", "recheck", "ddl"}

\* A process that goes anywhere else has no open store.
LEMMA OpenedBy ==
    ASSUME OpenTypeOK, NEW p \in Opener, NEW label \in Shut,
           at_step' = [at_step EXCEPT ![p] = label]
    PROVE  {q \in Opener : at_step'[q] = "open"} = {q \in Opener : at_step[q] = "open"} \ {p}
<1>1. \A q \in Opener : at_step'[q] = IF q = p THEN label ELSE at_step[q] BY DEF OpenTypeOK
<1>2. QED BY <1>1 DEF Shut

LEMMA StepRefines ==
    ASSUME OpenInv, OpenInv', [OpenNext]_open_vars
    PROVE  [Format!Next]_Format!format_vars
<1> DEFINE opened == {p \in Opener : at_step[p] = "open"}
<1> DEFINE opened1 == {p \in Opener : at_step'[p] = "open"}
<1> USE OpenAssumption
<1>0. OpenTypeOK BY DEF OpenInv
<1> USE DEF Format!format_vars
<1>1. CASE UNCHANGED open_vars
  BY <1>1 DEF open_vars
<1>2. ASSUME NEW p \in Opener, Apply(p) PROVE [Format!Next]_Format!format_vars
  <2>1. \/ version = Nothing /\ version' = FORMAT_VERSION
        \/ version \in 1 .. (FORMAT_VERSION - 1) /\ version' = version + 1
    BY <1>2, ApplyStep
  <2>2. PICK label \in {"dispatch", "begin"} : at_step' = [at_step EXCEPT ![p] = label]
    BY <1>2 DEF Apply, NextStep, Proceed
  <2>3. at_step[p] = "ddl" BY <1>2 DEF Apply
  <2>4. opened1 = opened BY <1>0, <2>2, <2>3 DEF OpenTypeOK
  <2>5. QED BY <2>1, <2>4 DEF Format!Next, Format!Create, Format!Migrate
<1>3. ASSUME NEW p \in Opener, Opened(p) PROVE [Format!Next]_Format!format_vars
  <2>1. at_step' = [at_step EXCEPT ![p] = "open"] /\ version' = version
    BY <1>3 DEF Opened, Leave, Proceed
  <2>2. at_step'[p] = "open" BY <1>0, <2>1 DEF OpenTypeOK
  <2>3. version = FORMAT_VERSION BY <2>1, <2>2 DEF OpenInv, OpenIsCurrent
  <2>4. \A q \in Opener : at_step'[q] = IF q = p THEN "open" ELSE at_step[q]
    BY <1>0, <2>1 DEF OpenTypeOK
  <2>6. opened1 = opened \cup {p} BY <2>4
  <2>5. QED BY <2>1, <2>3, <2>6 DEF Format!Next, Format!Open
<1>4. ASSUME NEW p \in Opener, NEW label \in Shut, version' = version,
             at_step' = [at_step EXCEPT ![p] = label]
      PROVE  [Format!Next]_Format!format_vars
  <2>1. opened1 = opened \ {p} BY <1>0, <1>4, OpenedBy
  <2>2. QED BY <1>4, <2>1 DEF Format!Next, Format!Close
<1>5. ASSUME NEW p \in Opener,
             \/ SwitchToWal(p) \/ SwitchBusy(p) \/ SwitchRetry(p) \/ SwitchFailed(p)
             \/ ReadFormatVersion(p) \/ Refuse(p) \/ Upgrade(p)
             \/ BeginImmediate(p) \/ Recheck(p) \/ Fails(p) \/ Exit(p)
             \/ \E ro \in BOOLEAN : OpenStore(p, ro)
      PROVE  [Format!Next]_Format!format_vars
  <2>1. ASSUME NEW label \in Shut, Proceed(p, label), version' = version
        PROVE  [Format!Next]_Format!format_vars
    BY <1>4, <2>1 DEF Proceed
  <2>2. CASE SwitchFailed(p) \/ Refuse(p) \/ Fails(p) \/ Exit(p)
    BY <2>1, <2>2 DEF SwitchFailed, Refuse, Fails, Exit, Leave, Shut
  <2>3. CASE \/ SwitchToWal(p) \/ SwitchBusy(p) \/ SwitchRetry(p)
             \/ \E ro \in BOOLEAN : OpenStore(p, ro)
    <3>1. Proceed(p, "read") \/ Proceed(p, "retry") \/ Proceed(p, "pragma")
      BY <2>3 DEF SwitchToWal, SwitchBusy, SwitchRetry, OpenStore
    <3>2. version' = version BY <2>3 DEF SwitchToWal, SwitchBusy, SwitchRetry, OpenStore
    <3>3. QED BY <2>1, <3>1, <3>2 DEF Shut
  <2>4. CASE ReadFormatVersion(p) \/ Upgrade(p) \/ BeginImmediate(p) \/ Recheck(p)
    <3>1. \/ Proceed(p, "dispatch") \/ Proceed(p, "begin") \/ Proceed(p, "recheck")
          \/ Proceed(p, "ddl")
      BY <2>4 DEF ReadFormatVersion, Upgrade, BeginImmediate, Recheck, NextStep
    <3>2. version' = version BY <2>4 DEF ReadFormatVersion, Upgrade, BeginImmediate, Recheck
    <3>3. QED BY <2>1, <3>1, <3>2 DEF Shut
  <2>5. QED BY <1>5, <2>2, <2>3, <2>4
<1>6. QED BY <1>1, <1>2, <1>3, <1>5 DEF OpenNext, OpenStep

\* Opening implements the abstract format: it moves forward a whole step at a
\* time, and an open store has the current one (open_inner).
THEOREM OpenMovesForward == OpenSpec => MovesForward
<1>1. OpenInv /\ OpenInv' /\ [OpenNext]_open_vars
        => [Format!Next]_Format!format_vars
  BY StepRefines
<1>2. QED BY InitRefines, <1>1, OpenInvariant, PTL DEF OpenSpec, MovesForward, Format!Spec

-----------------------------------------------------------------------------
(* Numbers of cells and of records. *)

LEMMA Division ==
    ASSUME NEW R \in Nat \ {0}, NEW a \in Nat
    PROVE  /\ a \div R \in Nat /\ (a \div R) * R \in Nat
           /\ (a \div R) * R <= a /\ a < (a \div R) * R + R
           /\ a % R \in Nat /\ a % R = a - (a \div R) * R
OBVIOUS

LEMMA Multiples ==
    ASSUME NEW R \in Nat \ {0}, NEW m \in Nat, NEW n \in Nat
    PROVE  /\ m * R \in Nat /\ n * R \in Nat
           /\ (m + 1) * R = m * R + R /\ (m - 1) * R = m * R - R
           /\ (m + n) * R = m * R + n * R
           /\ (n - m) * R = n * R - m * R
           /\ m <= n => m * R <= n * R
           /\ m < n => m * R + R <= n * R
<1>1. m * R \in Nat /\ n * R \in Nat OBVIOUS
<1>2. (m + 1) * R = m * R + R OBVIOUS
<1>3. (m - 1) * R = m * R - R OBVIOUS
<1>4. (m + n) * R = m * R + n * R OBVIOUS
<1>5. (n - m) * R = n * R - m * R OBVIOUS
<1>6. ASSUME m <= n PROVE m * R <= n * R
  <2>1. n - m \in Nat BY <1>6
  <2>2. (n - m) * R \in Nat BY <2>1
  <2>3. QED BY <1>1, <1>5, <2>2
<1>7. ASSUME m < n PROVE m * R + R <= n * R
  <2>1. n - m - 1 \in Nat BY <1>7
  <2>2. (n - m - 1) * R \in Nat BY <2>1
  <2>3. (n - m - 1) * R = (n - m) * R - R OBVIOUS
  <2>4. QED BY <1>1, <1>5, <2>2, <2>3
<1>8. QED BY <1>1, <1>2, <1>3, <1>4, <1>5, <1>6, <1>7

LEMMA Quotient ==
    ASSUME NEW R \in Nat \ {0}, NEW a \in Nat, NEW q \in Nat, q * R <= a, a < q * R + R
    PROVE  a \div R = q /\ a % R = a - q * R
<1> DEFINE d == a \div R
<1>1. /\ d \in Nat /\ d * R \in Nat /\ d * R <= a /\ a < d * R + R
      /\ a % R = a - d * R
  BY Division
<1> HIDE DEF d
<1>2. q * R \in Nat OBVIOUS
<1>3. ~(d < q)
  <2>1. SUFFICES ASSUME d < q PROVE FALSE OBVIOUS
  <2>2. d * R + R <= q * R BY <1>1, <2>1, Multiples
  <2>3. QED BY <1>1, <1>2, <2>2
<1>4. ~(q < d)
  <2>1. SUFFICES ASSUME q < d PROVE FALSE OBVIOUS
  <2>2. q * R + R <= d * R BY <1>1, <2>1, Multiples
  <2>3. QED BY <1>1, <1>2, <2>2
<1>5. d = q BY <1>1, <1>3, <1>4
<1>6. QED BY <1>1, <1>5 DEF d

-----------------------------------------------------------------------------
(* What a replay reads, cell by cell. *)

\* Concatenation, in two halves.
LEMMA Halves ==
    ASSUME NEW S, NEW s \in Seq(S), NEW t \in Seq(S), NEW m, NEW n, Len(s) = m, Len(t) = n
    PROVE  /\ m \in Nat /\ n \in Nat
           /\ s \o t \in Seq(S) /\ Len(s \o t) = m + n
           /\ \A i \in 1 .. m : (s \o t)[i] = s[i]
           /\ \A j \in 1 .. n : (s \o t)[m + j] = t[j]
<1> DEFINE u == s \o t
<1>1. m \in Nat /\ n \in Nat OBVIOUS
<1>2. /\ u \in Seq(S) /\ Len(u) = Len(s) + Len(t)
      /\ \A i \in 1 .. Len(s) + Len(t) : u[i] = IF i <= Len(s) THEN s[i] ELSE t[i - Len(s)]
  BY ConcatProperties
<1> HIDE DEF u
<1>3. \A i \in 1 .. m : u[i] = s[i] BY <1>1, <1>2
<1>4. ASSUME NEW j \in 1 .. n PROVE u[m + j] = t[j]
  <2>1. m + j \in 1 .. m + n /\ ~(m + j <= m) /\ m + j - m = j BY <1>1
  <2>2. u[m + j] = t[m + j - m] BY <1>2, <2>1, SMTT(30)
  <2>3. QED BY <2>1, <2>2
<1>5. QED BY <1>1, <1>2, <1>3, <1>4 DEF u

Cell == (Record \cup {"header", "zero"}) \X Nat

\* The records read from the cells after the header.
ReadOf(b) ==
    [n \in 1 .. Len(b) \div RECORD_LEN |->
        Decode(SubSeq(b, (n - 1) * RECORD_LEN + 1, n * RECORD_LEN))]

BodyOf(f) == SubSeq(f, HEADER_LEN + 1, Len(f))

LEMMA BodyShape ==
    ASSUME NEW f \in Seq(Cell)
    PROVE  /\ BodyOf(f) \in Seq(Cell)
           /\ Len(BodyOf(f)) = IF Len(f) <= HEADER_LEN THEN 0 ELSE Len(f) - HEADER_LEN
           /\ \A i \in 1 .. Len(BodyOf(f)) : BodyOf(f)[i] = f[HEADER_LEN + i]
<1>0. HEADER_LEN \in Nat \ {0} /\ RECORD_LEN \in Nat \ {0} BY JournalAssumption
<1> USE <1>0
<1>1. Len(f) \in Nat /\ HEADER_LEN \in Nat OBVIOUS
<1>2. \A i \in HEADER_LEN + 1 .. Len(f) : f[i] \in Cell BY <1>1
<1>3. /\ BodyOf(f) \in Seq(Cell)
      /\ Len(BodyOf(f)) = IF HEADER_LEN + 1 <= Len(f) THEN Len(f) - (HEADER_LEN + 1) + 1 ELSE 0
      /\ \A i \in 1 .. Len(f) - (HEADER_LEN + 1) + 1 : BodyOf(f)[i] = f[(HEADER_LEN + 1) + i - 1]
  BY <1>1, <1>2, SubSeqProperties DEF BodyOf
<1>4. QED BY <1>1, <1>3

LEMMA BodyGrows ==
    ASSUME NEW f \in Seq(Cell), NEW c \in Seq(Cell), Len(f) >= HEADER_LEN
    PROVE  BodyOf(f \o c) = BodyOf(f) \o c
<1>0. HEADER_LEN \in Nat \ {0} /\ RECORD_LEN \in Nat \ {0} BY JournalAssumption
<1> USE <1>0
<1> DEFINE g == f \o c
<1>1. /\ g \in Seq(Cell) /\ Len(g) = Len(f) + Len(c)
      /\ \A i \in 1 .. Len(f) + Len(c) : g[i] = IF i <= Len(f) THEN f[i] ELSE c[i - Len(f)]
  BY ConcatProperties
<1>2. Len(f) \in Nat /\ Len(c) \in Nat OBVIOUS
<1> HIDE DEF g
<1>3. /\ BodyOf(g) \in Seq(Cell) /\ Len(BodyOf(g)) = Len(f) - HEADER_LEN + Len(c)
      /\ \A i \in 1 .. Len(BodyOf(g)) : BodyOf(g)[i] = g[HEADER_LEN + i]
  <2>1. /\ BodyOf(g) \in Seq(Cell)
        /\ Len(BodyOf(g)) = IF Len(g) <= HEADER_LEN THEN 0 ELSE Len(g) - HEADER_LEN
        /\ \A i \in 1 .. Len(BodyOf(g)) : BodyOf(g)[i] = g[HEADER_LEN + i]
    BY <1>1, BodyShape
  <2>2. HEADER_LEN \in Nat /\ Len(g) = Len(f) + Len(c) BY <1>1
  <2>3. QED BY <1>2, <2>1, <2>2
<1>4. /\ BodyOf(f) \in Seq(Cell) /\ Len(BodyOf(f)) = Len(f) - HEADER_LEN
      /\ \A i \in 1 .. Len(BodyOf(f)) : BodyOf(f)[i] = f[HEADER_LEN + i]
  <2>1. /\ BodyOf(f) \in Seq(Cell)
        /\ Len(BodyOf(f)) = IF Len(f) <= HEADER_LEN THEN 0 ELSE Len(f) - HEADER_LEN
        /\ \A i \in 1 .. Len(BodyOf(f)) : BodyOf(f)[i] = f[HEADER_LEN + i]
    BY BodyShape
  <2>2. QED BY <1>2, <2>1
<1> DEFINE d == BodyOf(f) \o c
<1>5. /\ d \in Seq(Cell) /\ Len(d) = Len(BodyOf(f)) + Len(c)
      /\ \A i \in 1 .. Len(BodyOf(f)) + Len(c) :
            d[i] = IF i <= Len(BodyOf(f)) THEN BodyOf(f)[i] ELSE c[i - Len(BodyOf(f))]
  BY <1>4, ConcatProperties, ZenonT(40)
<1> HIDE DEF d
<1>6. Len(BodyOf(g)) = Len(d) BY <1>2, <1>3, <1>4, <1>5
<1>7. ASSUME NEW i \in 1 .. Len(BodyOf(g)) PROVE BodyOf(g)[i] = d[i]
  <2>1. BodyOf(g)[i] = g[HEADER_LEN + i] BY <1>3
  <2>2. HEADER_LEN + i \in 1 .. Len(f) + Len(c) BY <1>2, <1>3
  <2>3. CASE i <= Len(BodyOf(f))
    BY <1>1, <1>2, <1>3, <1>4, <1>5, <2>1, <2>2, <2>3
  <2>4. CASE ~(i <= Len(BodyOf(f)))
    <3>1. g[HEADER_LEN + i] = c[HEADER_LEN + i - Len(f)] BY <1>1, <1>2, <1>4, <2>2, <2>4
    <3>2. d[i] = c[i - Len(BodyOf(f))] BY <1>2, <1>3, <1>4, <1>5, <2>4
    <3>3. HEADER_LEN + i - Len(f) = i - Len(BodyOf(f)) BY <1>2, <1>4
    <3>4. QED BY <2>1, <3>1, <3>2, <3>3
  <2>5. QED BY <2>3, <2>4
<1>8. BodyOf(g) = d BY <1>3, <1>5, <1>6, <1>7, SeqEqual
<1>9. QED BY <1>8 DEF g, d

\* A chunk has the cells of one record.
LEMMA Chunk ==
    ASSUME NEW b \in Seq(Cell), NEW n \in 1 .. Len(b) \div RECORD_LEN
    PROVE  LET chunk == SubSeq(b, (n - 1) * RECORD_LEN + 1, n * RECORD_LEN)
           IN  /\ (n - 1) * RECORD_LEN \in Nat
               /\ n * RECORD_LEN = (n - 1) * RECORD_LEN + RECORD_LEN
               /\ n * RECORD_LEN <= Len(b)
               /\ chunk \in Seq(Cell) /\ Len(chunk) = RECORD_LEN
               /\ \A k \in 1 .. RECORD_LEN : chunk[k] = b[(n - 1) * RECORD_LEN + k]
<1>0. HEADER_LEN \in Nat \ {0} /\ RECORD_LEN \in Nat \ {0} BY JournalAssumption
<1> USE <1>0
<1>1. /\ Len(b) \in Nat /\ Len(b) \div RECORD_LEN \in Nat
      /\ (Len(b) \div RECORD_LEN) * RECORD_LEN <= Len(b)
  <2>1. Len(b) \in Nat OBVIOUS
  <2>2. QED BY <2>1, Division
<1>2. n \in Nat /\ n - 1 \in Nat /\ n <= Len(b) \div RECORD_LEN BY <1>1
<1> DEFINE lo == (n - 1) * RECORD_LEN
           hi == n * RECORD_LEN
           top == (Len(b) \div RECORD_LEN) * RECORD_LEN
<1>3. lo \in Nat /\ hi \in Nat /\ hi = lo + RECORD_LEN
  <2>1. lo \in Nat /\ hi \in Nat BY <1>2
  <2>2. (n - 1) * RECORD_LEN = n * RECORD_LEN - RECORD_LEN BY <1>2, Multiples
  <2>3. QED BY <2>1, <2>2
<1>4. hi <= top BY <1>1, <1>2, Multiples
<1>10. top \in Nat BY <1>1
<1>11. hi <= Len(b)
  <2>1. top <= Len(b) BY <1>1
  <2> HIDE DEF hi, top
  <2>2. QED BY <1>1, <1>3, <1>4, <1>10, <2>1
<1>5. hi <= Len(b) /\ top \in Int BY <1>10, <1>11
<1> HIDE DEF lo, hi, top
<1>6. \A i \in lo + 1 .. hi : b[i] \in Cell BY <1>1, <1>3, <1>5
<1>7. /\ SubSeq(b, lo + 1, hi) \in Seq(Cell)
      /\ Len(SubSeq(b, lo + 1, hi)) = IF lo + 1 <= hi THEN hi - (lo + 1) + 1 ELSE 0
      /\ \A i \in 1 .. hi - (lo + 1) + 1 : SubSeq(b, lo + 1, hi)[i] = b[(lo + 1) + i - 1]
  BY <1>3, <1>6, SubSeqProperties
<1>8. /\ Len(SubSeq(b, lo + 1, hi)) = RECORD_LEN
      /\ \A k \in 1 .. RECORD_LEN : SubSeq(b, lo + 1, hi)[k] = b[lo + k]
  BY <1>3, <1>7
<1>9. QED BY <1>3, <1>5, <1>7, <1>8 DEF lo, hi


\* A chunk decodes to the record all of its cells are of.
LEMMA Decodes ==
    ASSUME NEW chunk \in Seq(Cell), Len(chunk) = RECORD_LEN
    PROVE  /\ Decode(chunk) \in Record \cup {"garbage"}
           /\ \A r \in Record : (\A k \in 1 .. RECORD_LEN : chunk[k] = <<r, k>>) => Decode(chunk) = r
           /\ (\E k \in 1 .. RECORD_LEN : chunk[k][2] # k) => Decode(chunk) = "garbage"
<1>0. HEADER_LEN \in Nat \ {0} /\ RECORD_LEN \in Nat \ {0} BY JournalAssumption
<1> USE <1>0
<1> DEFINE whole(r) == [n \in 1 .. RECORD_LEN |-> RecordCell(r, n)]
<1>1. \A r \in Record : /\ 1 \in 1 .. RECORD_LEN
                        /\ whole(r)[1][1] = r
                        /\ \A k \in 1 .. RECORD_LEN : whole(r)[k][2] = k
  BY DEF RecordCell
<1>2. Decode(chunk) = IF \E r \in Record : chunk = whole(r) THEN chunk[1][1] ELSE "garbage"
  BY DEF Decode
<1>3. ASSUME NEW r \in Record, \A k \in 1 .. RECORD_LEN : chunk[k] = <<r, k>>
      PROVE  chunk = whole(r)
  <2>1. DOMAIN chunk = 1 .. RECORD_LEN /\ chunk = [k \in DOMAIN chunk |-> chunk[k]]
    BY LenProperties
  <2>2. QED BY <1>3, <2>1 DEF RecordCell
<1> HIDE DEF whole
<1>4. Decode(chunk) \in Record \cup {"garbage"} BY <1>1, <1>2
<1>5. ASSUME NEW r \in Record, \A k \in 1 .. RECORD_LEN : chunk[k] = <<r, k>>
      PROVE  Decode(chunk) = r
  <2>1. chunk = whole(r) BY <1>3, <1>5
  <2>2. QED BY <1>1, <1>2, <2>1
<1>6. ASSUME NEW k \in 1 .. RECORD_LEN, chunk[k][2] # k PROVE Decode(chunk) = "garbage"
  BY <1>1, <1>2, <1>6
<1>7. QED BY <1>4, <1>5, <1>6

LEMMA ReadShape ==
    ASSUME NEW b \in Seq(Cell)
    PROVE  /\ ReadOf(b) \in Seq(Record \cup {"garbage"})
           /\ Len(ReadOf(b)) = Len(b) \div RECORD_LEN
           /\ Len(b) \div RECORD_LEN \in Nat
           /\ \A n \in 1 .. Len(b) \div RECORD_LEN :
                 ReadOf(b)[n] = Decode(SubSeq(b, (n - 1) * RECORD_LEN + 1, n * RECORD_LEN))
<1> DEFINE q == Len(b) \div RECORD_LEN
           read(n) == Decode(SubSeq(b, (n - 1) * RECORD_LEN + 1, n * RECORD_LEN))
<1>1. q \in Nat
  <2>1. Len(b) \in Nat OBVIOUS
  <2>2. QED BY <2>1, Division, JournalAssumption
<1>2. ReadOf(b) = [n \in 1 .. q |-> read(n)] BY DEF ReadOf
<1>3. ASSUME NEW n \in 1 .. q PROVE read(n) \in Record \cup {"garbage"}
  BY Chunk, Decodes
<1> HIDE DEF q, read
<1>4. ReadOf(b) \in [1 .. q -> Record \cup {"garbage"}] BY <1>2, <1>3
<1>5. ReadOf(b) \in Seq(Record \cup {"garbage"}) /\ Len(ReadOf(b)) = q BY <1>1, <1>4
<1>6. QED BY <1>1, <1>2, <1>5 DEF q, read

\* What is appended changes nothing of what is read before it.
LEMMA ReadGrows ==
    ASSUME NEW b \in Seq(Cell), NEW c \in Seq(Cell)
    PROVE  /\ Len(ReadOf(b)) <= Len(ReadOf(b \o c))
           /\ \A n \in 1 .. Len(ReadOf(b)) : ReadOf(b \o c)[n] = ReadOf(b)[n]
<1>0. HEADER_LEN \in Nat \ {0} /\ RECORD_LEN \in Nat \ {0} BY JournalAssumption
<1> USE <1>0
<1> DEFINE d == b \o c
<1>1. /\ d \in Seq(Cell) /\ Len(d) = Len(b) + Len(c)
      /\ \A i \in 1 .. Len(b) : d[i] = b[i]
  <2>1. Len(b) \in Nat /\ Len(c) \in Nat OBVIOUS
  <2>2. /\ d \in Seq(Cell) /\ Len(d) = Len(b) + Len(c)
        /\ \A i \in 1 .. Len(b) + Len(c) : d[i] = IF i <= Len(b) THEN b[i] ELSE c[i - Len(b)]
    BY ConcatProperties
  <2> HIDE DEF d
  <2>3. QED BY <2>1, <2>2
<1> HIDE DEF d
<1> DEFINE p == Len(b) \div RECORD_LEN
           q == Len(d) \div RECORD_LEN
<1>2. Len(b) \in Nat /\ Len(c) \in Nat /\ Len(d) \in Nat BY <1>1
<1>3. p \in Nat /\ p * RECORD_LEN \in Nat /\ p * RECORD_LEN <= Len(b) BY <1>2, Division
<1>4. q \in Nat /\ q * RECORD_LEN \in Nat /\ Len(d) < q * RECORD_LEN + RECORD_LEN
  BY <1>2, Division
<1> HIDE DEF p, q
<1>5. p <= q
  <2>1. SUFFICES ASSUME q < p PROVE FALSE BY <1>3, <1>4
  <2>2. q * RECORD_LEN + RECORD_LEN <= p * RECORD_LEN BY <1>3, <1>4, <2>1, Multiples
  <2> DEFINE pr == p * RECORD_LEN
             qr == q * RECORD_LEN
  <2>3. qr \in Nat /\ pr \in Nat /\ Len(d) < qr + RECORD_LEN /\ pr <= Len(b) /\ qr + RECORD_LEN <= pr
    BY <1>3, <1>4, <2>2
  <2> HIDE DEF pr, qr
  <2>4. QED BY <1>1, <1>2, <2>3
<1>6. Len(ReadOf(b)) = p /\ Len(ReadOf(d)) = q BY <1>1, ReadShape DEF p, q
<1>7. ASSUME NEW n \in 1 .. p PROVE ReadOf(d)[n] = ReadOf(b)[n]
  <2> DEFINE lo == (n - 1) * RECORD_LEN
             hi == n * RECORD_LEN
             old == SubSeq(b, lo + 1, hi)
             new == SubSeq(d, lo + 1, hi)
  <2>1. n \in 1 .. q BY <1>3, <1>4, <1>5
  <2>2. /\ lo \in Nat /\ hi = lo + RECORD_LEN /\ hi <= Len(b)
        /\ old \in Seq(Cell) /\ Len(old) = RECORD_LEN
        /\ \A k \in 1 .. RECORD_LEN : old[k] = b[lo + k]
    BY Chunk DEF p
  <2>3. /\ new \in Seq(Cell) /\ Len(new) = RECORD_LEN
        /\ \A k \in 1 .. RECORD_LEN : new[k] = d[lo + k]
    BY <1>1, <2>1, Chunk DEF q
  <2>4. ReadOf(b)[n] = Decode(old) BY ReadShape DEF p
  <2>5. ReadOf(d)[n] = Decode(new) BY <1>1, <2>1, ReadShape DEF q
  <2> HIDE DEF lo, hi, old, new
  <2>6. ASSUME NEW k \in 1 .. RECORD_LEN PROVE lo + k \in 1 .. Len(b)
    <3>1. lo \in Nat /\ k \in Nat /\ k >= 1 /\ k <= RECORD_LEN /\ RECORD_LEN \in Nat BY <2>2
    <3>2. lo + RECORD_LEN <= Len(b) BY <2>2
    <3>3. QED BY <1>2, <3>1, <3>2
  <2>7. \A k \in 1 .. RECORD_LEN : old[k] = new[k] BY <1>1, <2>2, <2>3, <2>6
  <2>8. old = new BY <2>2, <2>3, <2>7, SeqEqual
  <2>9. QED BY <2>4, <2>5, <2>8
<1>8. QED BY <1>5, <1>6, <1>7 DEF d


-----------------------------------------------------------------------------
(* What an append writes. *)

LEMMA Encoded ==
    ASSUME NEW records \in Seq(Record)
    PROVE  /\ Len(records) \in Nat /\ Len(records) * RECORD_LEN \in Nat
           /\ Encode(records) \in Seq(Cell)
           /\ Len(Encode(records)) = Len(records) * RECORD_LEN
           /\ \A n \in 1 .. Len(records) : \A k \in 1 .. RECORD_LEN :
                 Encode(records)[(n - 1) * RECORD_LEN + k] = <<records[n], k>>
<1>0. HEADER_LEN \in Nat \ {0} /\ RECORD_LEN \in Nat \ {0} BY JournalAssumption
<1> USE <1>0
<1> DEFINE N == Len(records) * RECORD_LEN
           quot(i) == (i - 1) \div RECORD_LEN
           rem(i) == (i - 1) % RECORD_LEN
           cell(i) == RecordCell(records[quot(i) + 1], rem(i) + 1)
<1>1. Len(records) \in Nat /\ RECORD_LEN \in Nat /\ N \in Nat OBVIOUS
<1>2. Encode(records) = [i \in 1 .. N |-> cell(i)] BY DEF Encode
<1>3. ASSUME NEW i \in 1 .. N
      PROVE  quot(i) + 1 \in 1 .. Len(records) /\ rem(i) + 1 \in 1 .. RECORD_LEN
  <2>1. i - 1 \in Nat /\ i - 1 < N
    <3> HIDE DEF N
    <3>1. QED BY <1>1
  <2>2. /\ quot(i) \in Nat /\ quot(i) * RECORD_LEN \in Nat /\ quot(i) * RECORD_LEN <= i - 1
        /\ i - 1 < quot(i) * RECORD_LEN + RECORD_LEN
        /\ rem(i) \in Nat /\ rem(i) = (i - 1) - quot(i) * RECORD_LEN
    BY <2>1, Division
  <2> HIDE DEF quot, rem
  <2>3. ~(Len(records) <= quot(i))
    <3>1. SUFFICES ASSUME Len(records) <= quot(i) PROVE FALSE OBVIOUS
    <3>2. N <= quot(i) * RECORD_LEN BY <1>1, <2>2, <3>1, Multiples
    <3> HIDE DEF N
    <3>3. QED BY <1>1, <2>1, <2>2, <3>2
  <2>4. rem(i) < RECORD_LEN BY <1>1, <2>1, <2>2, SMTT(30)
  <2>5. QED BY <1>1, <2>2, <2>3, <2>4, SMTT(30)
<1>4. ASSUME NEW i \in 1 .. N PROVE cell(i) \in Cell
  <2>1. records[quot(i) + 1] \in Record BY <1>3
  <2>2. rem(i) + 1 \in Nat BY <1>3
  <2> HIDE DEF quot, rem
  <2>3. QED BY <2>1, <2>2 DEF RecordCell, Cell
<1>5. Encode(records) \in Seq(Cell) /\ Len(Encode(records)) = N
  <2> HIDE DEF cell, N
  <2>1. Encode(records) \in [1 .. N -> Cell] BY <1>2, <1>4
  <2>2. QED BY <1>1, <2>1
<1>6. ASSUME NEW n \in 1 .. Len(records), NEW k \in 1 .. RECORD_LEN
      PROVE  Encode(records)[(n - 1) * RECORD_LEN + k] = <<records[n], k>>
  <2> DEFINE m == n - 1
             i == m * RECORD_LEN + k
  <2>1. m \in Nat /\ n \in Nat /\ n <= Len(records) /\ m * RECORD_LEN \in Nat BY <1>1
  <2>2. m * RECORD_LEN + RECORD_LEN <= N BY <1>1, <2>1, Multiples
  <2>3. k \in Nat /\ k >= 1 /\ k <= RECORD_LEN BY <1>1
  <2>4. i - 1 \in Nat /\ m * RECORD_LEN <= i - 1 /\ i - 1 < m * RECORD_LEN + RECORD_LEN
    <3> HIDE DEF m
    <3>1. QED BY <1>1, <2>1, <2>3
  <2>5. i \in 1 .. N
    <3> HIDE DEF m, N
    <3>1. QED BY <1>1, <2>1, <2>2, <2>3
  <2>6. quot(i) = m /\ rem(i) = (i - 1) - m * RECORD_LEN
    <3> HIDE DEF m, i
    <3>1. QED BY <2>1, <2>4, Quotient
  <2>7. rem(i) + 1 = k
    <3> HIDE DEF quot, rem, m
    <3>1. QED BY <1>1, <2>1, <2>3, <2>6
  <2>8. quot(i) + 1 = n
    <3> HIDE DEF quot, rem, i
    <3>1. QED BY <2>1, <2>6
  <2>9. cell(i) = <<records[n], k>>
    <3> HIDE DEF quot, rem, i
    <3>1. QED BY <2>7, <2>8 DEF RecordCell
  <2> HIDE DEF cell, N
  <2>10. Encode(records)[i] = cell(i) BY <1>2, <2>5
  <2>11. QED BY <2>9, <2>10
<1>7. QED BY <1>1, <1>5, <1>6

\* The first cells of an append, as a failed write leaves them.
LEMMA Piece ==
    ASSUME NEW records \in Seq(Record),
           NEW c \in 0 .. Len(records) * RECORD_LEN
    PROVE  LET piece == SubSeq(Encode(records), 1, c)
           IN  /\ piece \in Seq(Cell) /\ Len(piece) = c
               /\ \A i \in 1 .. c : piece[i] = Encode(records)[i]
<1> DEFINE N == Len(records) * RECORD_LEN
           e == Encode(records)
<1>1. N \in Nat /\ e \in Seq(Cell) /\ Len(e) = N BY Encoded
<1> HIDE DEF N, e
<1>2. c \in 0 .. N BY DEF N
<1>3. c \in Nat /\ \A i \in 1 .. c : e[i] \in Cell BY <1>1, <1>2
<1>4. /\ SubSeq(e, 1, c) \in Seq(Cell)
      /\ Len(SubSeq(e, 1, c)) = IF 1 <= c THEN c - 1 + 1 ELSE 0
      /\ \A i \in 1 .. c - 1 + 1 : SubSeq(e, 1, c)[i] = e[1 + i - 1]
  BY <1>3, SubSeqProperties
<1>5. QED BY <1>3, <1>4 DEF e


\* An append after whole records adds as many records as it wrote whole.
LEMMA Aligned ==
    ASSUME NEW b \in Seq(Cell), NEW records \in Seq(Record),
           NEW c \in 0 .. Len(records) * RECORD_LEN, Len(b) % RECORD_LEN = 0
    PROVE  LET d == b \o SubSeq(Encode(records), 1, c)
           IN  /\ c \div RECORD_LEN \in 0 .. Len(records)
               /\ ReadOf(d) = ReadOf(b) \o SubSeq(records, 1, c \div RECORD_LEN)
               /\ Len(d) % RECORD_LEN = c % RECORD_LEN
               /\ c % RECORD_LEN # 0 => c \div RECORD_LEN < Len(records)
               /\ c = Len(records) * RECORD_LEN
                    => c % RECORD_LEN = 0 /\ c \div RECORD_LEN = Len(records)
<1>0. HEADER_LEN \in Nat \ {0} /\ RECORD_LEN \in Nat \ {0} BY JournalAssumption
<1> USE <1>0
<1> DEFINE R == RECORD_LEN
           piece == SubSeq(Encode(records), 1, c)
           d == b \o piece
           q == Len(b) \div R
           w == c \div R
           t == c % R
           L == Len(records)
           N == L * R
<1>1. /\ L \in Nat /\ N \in Nat /\ R \in Nat \ {0} /\ c \in Nat /\ c <= N
  <2>1. L \in Nat /\ N \in Nat /\ R \in Nat \ {0} OBVIOUS
  <2> HIDE DEF N
  <2>2. c \in 0 .. N BY DEF N
  <2>3. QED BY <2>1, <2>2
<1>2. /\ piece \in Seq(Cell) /\ Len(piece) = c
      /\ \A i \in 1 .. c : piece[i] = Encode(records)[i]
  BY Piece
<1> HIDE DEF piece, N
<1>3. /\ d \in Seq(Cell) /\ Len(d) = Len(b) + c
      /\ \A j \in 1 .. c : d[Len(b) + j] = piece[j]
  <2>1. \A s1, s2 \in Seq(Cell) :
           /\ s1 \o s2 \in Seq(Cell) /\ Len(s1 \o s2) = Len(s1) + Len(s2)
           /\ \A j \in 1 .. Len(s2) : (s1 \o s2)[Len(s1) + j] = s2[j]
    BY Halves
  <2>2. /\ d \in Seq(Cell) /\ Len(d) = Len(b) + Len(piece)
        /\ \A j \in 1 .. Len(piece) : d[Len(b) + j] = piece[j]
    BY <1>2, <2>1, Zenon
  <2>3. QED BY <1>2, <2>2, Zenon
<1> HIDE DEF d
<1>4. Len(b) \in Nat OBVIOUS
<1>5. /\ w \in Nat /\ w * R \in Nat /\ w * R <= c /\ c < w * R + R /\ t = c - w * R
  BY <1>1, Division
<1>6. q \in Nat /\ q * R \in Nat /\ Len(b) = q * R
  <2>1. q \in Nat /\ q * R \in Nat /\ Len(b) % R = Len(b) - q * R BY <1>4, Division
  <2> HIDE DEF q
  <2>2. Len(b) % R = 0 OBVIOUS
  <2>3. QED BY <1>4, <2>1, <2>2
<1> HIDE DEF q, w, t, L
<1>7. Len(d) \div R = q + w /\ Len(d) % R = t
  <2>1. (q + w) * R = q * R + w * R BY <1>1, <1>5, <1>6, Multiples
  <2> DEFINE qr == q * R
             wr == w * R
             sr == (q + w) * R
  <2>6. qr \in Nat /\ Len(b) = qr BY <1>6
  <2>7. wr \in Nat /\ wr <= c /\ c < wr + R /\ t = c - wr BY <1>5
  <2>8. sr = qr + wr /\ q + w \in Nat BY <1>5, <1>6, <2>1
  <2> HIDE DEF qr, wr, sr
  <2>9. Len(d) \in Nat /\ sr <= Len(d) /\ Len(d) < sr + R /\ Len(d) - sr = t
    BY <1>1, <1>3, <2>6, <2>7, <2>8, SMTT(30)
  <2>2. Len(d) \in Nat /\ (q + w) \in Nat /\ (q + w) * R <= Len(d) /\ Len(d) < (q + w) * R + R
    BY <2>8, <2>9 DEF sr
  <2>3. Len(d) \div R = q + w /\ Len(d) % R = Len(d) - (q + w) * R BY <1>1, <2>2, Quotient
  <2>4. Len(d) - (q + w) * R = t BY <2>9 DEF sr
  <2>5. QED BY <2>3, <2>4
<1>8. w <= L
  <2>1. SUFFICES ASSUME L < w PROVE FALSE BY <1>1, <1>5
  <2>2. N + R <= w * R BY <1>1, <1>5, <2>1, Multiples DEF N
  <2>3. QED BY <1>1, <1>5, <2>2
<1>9. ASSUME t # 0 PROVE w < L
  <2>1. SUFFICES ASSUME w = L PROVE FALSE BY <1>1, <1>5, <1>8
  <2>2. w * R = N BY <2>1 DEF N
  <2>3. QED BY <1>1, <1>5, <1>9, <2>2
<1>10. ASSUME c = N PROVE t = 0 /\ w = L
  <2>1. N \in Nat /\ L * R <= N /\ N < L * R + R BY <1>1 DEF N
  <2>2. N \div R = L /\ N % R = N - L * R BY <1>1, <2>1, Quotient
  <2>3. QED BY <1>1, <1>10, <2>2 DEF w, t, N
<1> DEFINE more == SubSeq(records, 1, w)
           new == ReadOf(b) \o more
           Read == Record \cup {"garbage"}
<1>11. more \in Seq(Read) /\ Len(more) = w /\ \A m \in 1 .. w : more[m] = records[m]
  <2>1. \A m \in 1 .. w : records[m] \in Read BY <1>1, <1>5, <1>8 DEF L
  <2>2. /\ more \in Seq(Read) /\ Len(more) = IF 1 <= w THEN w - 1 + 1 ELSE 0
        /\ \A i \in 1 .. w - 1 + 1 : more[i] = records[1 + i - 1]
    BY <1>5, <2>1, SubSeqProperties
  <2> HIDE DEF more
  <2>3. QED BY <1>5, <2>2
<1> HIDE DEF more, Read
<1>12. ReadOf(b) \in Seq(Read) /\ Len(ReadOf(b)) = q BY ReadShape DEF Read, q
<1>13. /\ new \in Seq(Read) /\ Len(new) = q + w
       /\ \A n \in 1 .. q : new[n] = ReadOf(b)[n]
       /\ \A m \in 1 .. w : new[q + m] = more[m]
  BY <1>11, <1>12, Halves, SMTT(30)
<1>14. ReadOf(d) \in Seq(Read) /\ Len(ReadOf(d)) = q + w BY <1>3, <1>7, ReadShape DEF Read
<1> HIDE DEF new
<1>15. ASSUME NEW n \in 1 .. q + w PROVE ReadOf(d)[n] = new[n]
  <2>1. CASE n <= q
    <3>1. n \in 1 .. Len(ReadOf(b)) BY <1>5, <1>6, <1>12, <2>1
    <3>2. ReadOf(d)[n] = ReadOf(b)[n] BY <1>2, <3>1, ReadGrows, SMTT(30) DEF d
    <3>3. QED BY <1>12, <1>13, <3>1, <3>2
  <2>2. CASE ~(n <= q)
    <3> DEFINE m == n - q
               lo == (n - 1) * R
               chunk == SubSeq(d, lo + 1, n * R)
    <3>1. m \in 1 .. w /\ m - 1 \in Nat /\ n - 1 = q + (m - 1) BY <1>5, <1>6, <2>2
    <3>2. /\ lo \in Nat /\ n * R = lo + R /\ n * R <= Len(d)
          /\ chunk \in Seq(Cell) /\ Len(chunk) = R
          /\ \A k \in 1 .. R : chunk[k] = d[lo + k]
      <4>1. n \in 1 .. Len(d) \div R BY <1>7
      <4>2. QED BY <1>3, <4>1, Chunk, ZenonT(40)
    <3>3. ReadOf(d)[n] = Decode(chunk) BY <1>3, <1>7, ReadShape
    <3>4. lo = Len(b) + (m - 1) * R /\ (m - 1) * R \in Nat
      BY <1>1, <1>6, <3>1, Multiples
    <3>5. new[n] = records[m] /\ m \in 1 .. L /\ records[m] \in Record
      <4>1. new[n] = more[m]
        <5>1. n = q + m BY <1>5, <1>6
        <5>2. new[q + m] = more[m] BY <1>13, <3>1
        <5>3. QED BY <5>1, <5>2
      <4>2. m \in 1 .. L BY <1>1, <1>5, <1>8, <3>1
      <4>3. more[m] = records[m] BY <1>11, <3>1
      <4>4. QED BY <4>1, <4>2, <4>3 DEF L
    <3> HIDE DEF lo, chunk
    <3>6. ASSUME NEW k \in 1 .. R PROVE chunk[k] = <<records[m], k>>
      <4> DEFINE i == (m - 1) * R + k
      <4>1. k \in Nat /\ k >= 1 /\ k <= R /\ R \in Nat BY <1>1
      <4>2. n * R <= Len(b) + c BY <1>3, <3>2
      <4>3. n * R = Len(b) + (m - 1) * R + R BY <3>2, <3>4
      <4>4. (m - 1) * R + R <= c
        <5>1. n * R \in Int BY <3>2
        <5>2. QED BY <1>1, <1>4, <3>4, <4>2, <4>3, SMTT(30)
      <4>5. i \in 1 .. c BY <1>1, <3>4, <4>1, <4>4, SMTT(30)
      <4>6. lo + k = Len(b) + i BY <1>4, <3>4, <4>1
      <4>7. chunk[k] = d[Len(b) + i] BY <3>2, <4>6
      <4> HIDE DEF i
      <4>9. d[Len(b) + i] = piece[i] BY <1>3, <4>5
      <4>10. piece[i] = Encode(records)[i] BY <1>2, <4>5
      <4>11. Encode(records)[i] = <<records[m], k>> BY <3>5, Encoded DEF i, L
      <4>12. QED BY <4>7, <4>9, <4>10, <4>11
    <3>7. Decode(chunk) = records[m] BY <3>2, <3>5, <3>6, Decodes
    <3>8. QED BY <3>3, <3>5, <3>7
  <2>3. QED BY <2>1, <2>2
<1>16. ReadOf(d) = new BY <1>5, <1>6, <1>13, <1>14, <1>15, SeqEqual
<1>17. w \in 0 .. L BY <1>1, <1>5, <1>8
<1>18. QED BY <1>7, <1>9, <1>10, <1>16, <1>17 DEF d, piece, w, t, L, N, new, more


\* Cells after a broken record stay out of step: the chunk that would finish
\* it holds the first cell of another record where one of its own belongs.
LEMMA Misaligned ==
    ASSUME NEW b \in Seq(Cell), NEW records \in Seq(Record),
           NEW c \in 1 .. Len(records) * RECORD_LEN, Len(b) % RECORD_LEN # 0
    PROVE  LET d == b \o SubSeq(Encode(records), 1, c)
           IN  \/ Len(d) % RECORD_LEN # 0
               \/ \E n \in 1 .. Len(ReadOf(d)) : ReadOf(d)[n] = "garbage"
<1>0. HEADER_LEN \in Nat \ {0} /\ RECORD_LEN \in Nat \ {0} BY JournalAssumption
<1> USE <1>0
<1> DEFINE R == RECORD_LEN
           piece == SubSeq(Encode(records), 1, c)
           d == b \o piece
           q == Len(b) \div R
           p == Len(d) \div R
           t == Len(b) % R
           N == Len(records) * R
<1>1. /\ Len(records) \in Nat /\ N \in Nat /\ R \in Nat \ {0} /\ c \in Nat \ {0} /\ c <= N
  <2>1. Len(records) \in Nat /\ N \in Nat /\ R \in Nat \ {0} OBVIOUS
  <2> HIDE DEF N
  <2>2. c \in 1 .. N BY DEF N
  <2>3. QED BY <2>1, <2>2
<1>2. /\ piece \in Seq(Cell) /\ Len(piece) = c
      /\ \A i \in 1 .. c : piece[i] = Encode(records)[i]
  <2>1. c \in 0 .. Len(records) * RECORD_LEN
    <3> HIDE DEF N
    <3>1. QED BY <1>1 DEF N
  <2>2. QED BY <2>1, Piece
<1> HIDE DEF piece, N
<1>3. /\ d \in Seq(Cell) /\ Len(d) = Len(b) + c /\ Len(b) \in Nat
      /\ \A j \in 1 .. c : d[Len(b) + j] = piece[j]
  <2>1. \A s1, s2 \in Seq(Cell) :
           /\ Len(s1) \in Nat /\ s1 \o s2 \in Seq(Cell) /\ Len(s1 \o s2) = Len(s1) + Len(s2)
           /\ \A j \in 1 .. Len(s2) : (s1 \o s2)[Len(s1) + j] = s2[j]
    BY Halves
  <2>2. piece \in Seq(Cell) BY <1>2
  <2>3. /\ Len(b) \in Nat /\ d \in Seq(Cell) /\ Len(d) = Len(b) + Len(piece)
        /\ \A j \in 1 .. Len(piece) : d[Len(b) + j] = piece[j]
    BY <2>1, <2>2, Zenon
  <2>4. QED BY <1>2, <2>3, Zenon
<1> HIDE DEF d
<1>4. d[Len(b) + 1][2] = 1
  <2>1. N # 0 /\ Len(records) # 0
    <3>1. N # 0 BY <1>1
    <3>2. Len(records) = 0 => N = 0 BY DEF N
    <3>3. QED BY <3>1, <3>2
  <2>2. 1 \in 1 .. Len(records) /\ 1 \in 1 .. R /\ 1 \in 1 .. c BY <1>1, <2>1
  <2>3. Encode(records)[(1 - 1) * RECORD_LEN + 1] = <<records[1], 1>> BY <2>2, Encoded
  <2>4. (1 - 1) * RECORD_LEN + 1 = 1 BY <1>1
  <2>5. piece[1] = <<records[1], 1>> BY <1>2, <2>2, <2>3, <2>4
  <2>6. d[Len(b) + 1] = piece[1] BY <1>3, <2>2
  <2>7. QED BY <2>5, <2>6
<1>5. /\ q \in Nat /\ q * R \in Nat /\ q * R <= Len(b) /\ Len(b) < q * R + R
      /\ t \in Nat /\ t = Len(b) - q * R
  BY <1>1, <1>3, Division
<1>6. /\ p \in Nat /\ p * R \in Nat /\ p * R <= Len(d) /\ Len(d) < p * R + R
      /\ Len(d) % R = Len(d) - p * R
  <2>1. Len(d) \in Nat BY <1>1, <1>3
  <2>2. QED BY <1>1, <2>1, Division
<1>7. t # 0 OBVIOUS
<1> HIDE DEF q, p, t
<1>8. CASE p <= q
  <2>1. p * R <= q * R BY <1>1, <1>5, <1>6, <1>8, Multiples
  <2> DEFINE pr == p * R
             qr == q * R
  <2>4. pr \in Nat /\ qr \in Nat /\ pr <= qr /\ qr <= Len(b) BY <1>5, <1>6, <2>1
  <2> HIDE DEF pr, qr
  <2>5. Len(d) - pr # 0 BY <1>1, <1>3, <2>4, SMTT(30)
  <2>2. Len(d) - p * R # 0 BY <2>5 DEF pr
  <2>3. QED BY <1>6, <2>2 DEF d, piece
<1>9. CASE ~(p <= q)
  <2> DEFINE n == q + 1
             lo == (n - 1) * R
             chunk == SubSeq(d, lo + 1, n * R)
             k == t + 1
  <2>1. n \in 1 .. p BY <1>5, <1>6, <1>9
  <2>2. /\ chunk \in Seq(Cell) /\ Len(chunk) = R
        /\ \A i \in 1 .. R : chunk[i] = d[lo + i]
    <3>1. n \in 1 .. Len(d) \div R BY <2>1 DEF p
    <3>2. QED BY <1>3, <3>1, Chunk
  <2>3. ReadOf(d)[n] = Decode(chunk) /\ Len(ReadOf(d)) = p
    <3>1. n \in 1 .. Len(d) \div R BY <2>1 DEF p
    <3>2. QED BY <1>3, <3>1, ReadShape DEF p
  <2>4. lo = q * R BY <1>5
  <2> HIDE DEF lo, n, chunk
  <2>5. k \in 1 .. R /\ lo + k = Len(b) + 1 /\ k # 1 BY <1>1, <1>3, <1>5, <1>7, <2>4
  <2> HIDE DEF k
  <2>6. chunk[k][2] # k BY <1>4, <2>2, <2>5
  <2>7. Decode(chunk) = "garbage" BY <2>2, <2>5, <2>6, Decodes
  <2>8. QED BY <2>1, <2>3, <2>7 DEF d, piece
<1>10. QED BY <1>8, <1>9


-----------------------------------------------------------------------------
(* The file as a log. *)

HeadIntact(f) == Len(f) >= HEADER_LEN /\ SubSeq(f, 1, HEADER_LEN) = Header

RecordsIn(f) == ReadOf(BodyOf(f))

\* What Damaged says of the cells.
Sick(f) ==
    \/ ~HeadIntact(f)
    \/ ~\A n \in DOMAIN RecordsIn(f) : RecordsIn(f)[n] \in Record
    \/ Len(BodyOf(f)) % RECORD_LEN # 0

LEMMA HeaderCells ==
    /\ Header \in Seq(Cell) /\ Len(Header) = HEADER_LEN
    /\ \A k \in 1 .. HEADER_LEN : Header[k] = <<"header", k>>
<1>1. HEADER_LEN \in Nat BY JournalAssumption
<1>2. Header \in [1 .. HEADER_LEN -> Cell] BY <1>1 DEF Header, HeaderCell, Cell
<1>3. Header \in Seq(Cell) /\ Len(Header) = HEADER_LEN BY <1>1, <1>2
<1>4. \A k \in 1 .. HEADER_LEN : Header[k] = <<"header", k>> BY DEF Header, HeaderCell
<1>5. QED BY <1>3, <1>4

\* The header of a file is intact exactly when its cells are the header's.
LEMMA HeadCells ==
    ASSUME NEW f \in Seq(Cell), Len(f) >= HEADER_LEN
    PROVE  HeadIntact(f) <=> \A k \in 1 .. HEADER_LEN : f[k] = Header[k]
<1>1. HEADER_LEN \in Nat /\ Len(f) \in Nat BY JournalAssumption
<1>2. \A i \in 1 .. HEADER_LEN : f[i] \in Cell BY <1>1
<1> DEFINE h == SubSeq(f, 1, HEADER_LEN)
<1>3. /\ h \in Seq(Cell) /\ Len(h) = HEADER_LEN
      /\ \A i \in 1 .. HEADER_LEN : h[i] = f[i]
  <2>1. /\ h \in Seq(Cell) /\ Len(h) = IF 1 <= HEADER_LEN THEN HEADER_LEN - 1 + 1 ELSE 0
        /\ \A i \in 1 .. HEADER_LEN - 1 + 1 : h[i] = f[1 + i - 1]
    BY <1>1, <1>2, SubSeqProperties
  <2> HIDE DEF h
  <2>2. QED BY <1>1, <2>1
<1> HIDE DEF h
<1>4. ASSUME \A k \in 1 .. HEADER_LEN : f[k] = Header[k] PROVE h = Header
  <2>1. \A i \in 1 .. Len(h) : h[i] = Header[i] BY <1>3, <1>4
  <2>2. QED BY <1>3, <2>1, HeaderCells, SeqEqual
<1>5. ASSUME h = Header PROVE \A k \in 1 .. HEADER_LEN : f[k] = Header[k]
  BY <1>3, <1>5
<1>6. QED BY <1>4, <1>5 DEF HeadIntact, h

\* Appended cells neither break a header nor mend one.
LEMMA HeadKept ==
    ASSUME NEW f \in Seq(Cell), NEW records \in Seq(Record),
           NEW c \in 0 .. Len(records) * RECORD_LEN
    PROVE  HeadIntact(f \o SubSeq(Encode(records), 1, c)) <=> HeadIntact(f)
<1> DEFINE piece == SubSeq(Encode(records), 1, c)
           g == f \o piece
           l == Len(f)
<1>1. /\ piece \in Seq(Cell) /\ Len(piece) = c
      /\ \A i \in 1 .. c : piece[i] = Encode(records)[i]
  BY Piece
<1> HIDE DEF piece
<1>2. HEADER_LEN \in Nat /\ l \in Nat BY JournalAssumption
<1>3. /\ g \in Seq(Cell) /\ Len(g) = l + c /\ c \in Nat
      /\ \A i \in 1 .. l : g[i] = f[i]
      /\ \A j \in 1 .. c : g[l + j] = piece[j]
  <2>1. \A s1, s2 \in Seq(Cell) :
           /\ Len(s2) \in Nat
           /\ s1 \o s2 \in Seq(Cell) /\ Len(s1 \o s2) = Len(s1) + Len(s2)
           /\ \A i \in 1 .. Len(s1) : (s1 \o s2)[i] = s1[i]
           /\ \A j \in 1 .. Len(s2) : (s1 \o s2)[Len(s1) + j] = s2[j]
    BY Halves
  <2>2. /\ g \in Seq(Cell) /\ Len(g) = l + Len(piece) /\ Len(piece) \in Nat
        /\ \A i \in 1 .. l : g[i] = f[i]
        /\ \A j \in 1 .. Len(piece) : g[l + j] = piece[j]
    BY <1>1, <2>1, Zenon
  <2>3. QED BY <1>1, <2>2, Zenon
<1>4. CASE l >= HEADER_LEN
  <2>1. \A k \in 1 .. HEADER_LEN : g[k] = f[k]
    <3> HIDE DEF g, l
    <3>1. QED BY <1>2, <1>3, <1>4
  <2>2. Len(g) >= HEADER_LEN
    <3> HIDE DEF g, l
    <3>1. QED BY <1>2, <1>3, <1>4
  <2> HIDE DEF g
  <2>3. QED BY <1>3, <1>4, <2>1, <2>2, HeadCells DEF g, piece
<1>5. CASE ~(l >= HEADER_LEN)
  <2>1. ~HeadIntact(f) BY <1>5 DEF HeadIntact
  <2>2. SUFFICES ASSUME HeadIntact(g) PROVE FALSE BY <2>1 DEF piece
  <2> HIDE DEF g
  <2>3. Len(g) >= HEADER_LEN BY <2>2 DEF HeadIntact
  <2> HIDE DEF l
  <2>4. 1 \in 1 .. c /\ l + 1 \in 1 .. HEADER_LEN BY <1>2, <1>3, <1>5, <2>3
  <2>5. g[l + 1] = Encode(records)[1] BY <1>1, <1>3, <2>4
  <2>6. g[l + 1] = <<"header", l + 1>> BY <1>3, <2>2, <2>3, <2>4, HeadCells, HeaderCells
  <2>7. Encode(records)[1][1] \in Record
    <3>1. 1 \in 1 .. Len(records) /\ 1 \in 1 .. RECORD_LEN
      <4>1. Len(records) \in Nat /\ RECORD_LEN \in Nat \ {0} BY JournalAssumption
      <4>2. Len(records) = 0 => Len(records) * RECORD_LEN = 0 BY <4>1
      <4>3. Len(records) # 0 BY <1>3, <2>4, <4>2
      <4>4. QED BY <4>1, <4>3
    <3>2. Encode(records)[(1 - 1) * RECORD_LEN + 1] = <<records[1], 1>> BY <3>1, Encoded
    <3>3. (1 - 1) * RECORD_LEN + 1 = 1 BY JournalAssumption
    <3>4. QED BY <3>1, <3>2, <3>3
  <2>8. QED BY <2>5, <2>6, <2>7, JournalAssumption
<1>6. QED BY <1>4, <1>5


\* A file that ends with its header, or inside it, holds no records.
LEMMA Short ==
    ASSUME NEW f \in Seq(Cell), Len(f) <= HEADER_LEN
    PROVE  RecordsIn(f) = << >> /\ (Sick(f) <=> ~HeadIntact(f))
<1>0. HEADER_LEN \in Nat \ {0} /\ RECORD_LEN \in Nat \ {0} BY JournalAssumption
<1>1. BodyOf(f) \in Seq(Cell) /\ Len(BodyOf(f)) = 0 BY <1>0, BodyShape
<1>2. 0 \div RECORD_LEN = 0 /\ 0 % RECORD_LEN = 0
  <2>1. 0 * RECORD_LEN <= 0 /\ 0 < 0 * RECORD_LEN + RECORD_LEN BY <1>0
  <2>2. 0 \div RECORD_LEN = 0 /\ 0 % RECORD_LEN = 0 - 0 * RECORD_LEN BY <1>0, <2>1, Quotient
  <2>3. QED BY <1>0, <2>2
<1>3. RecordsIn(f) \in Seq(Record \cup {"garbage"}) /\ Len(RecordsIn(f)) = 0
  BY <1>1, <1>2, ReadShape DEF RecordsIn
<1>4. RecordsIn(f) = << >> BY <1>3
<1>5. QED BY <1>1, <1>2, <1>4 DEF Sick

\* JournalLen counts the records a replay returns.
LEMMA CountsRecords ==
    ASSUME NEW f \in Seq(Cell)
    PROVE  /\ RecordsIn(f) \in Seq(Record \cup {"garbage"})
           /\ Len(RecordsIn(f))
                = IF Len(f) <= HEADER_LEN THEN 0 ELSE (Len(f) - HEADER_LEN) \div RECORD_LEN
<1>1. BodyOf(f) \in Seq(Cell) BY BodyShape
<1>2. /\ RecordsIn(f) \in Seq(Record \cup {"garbage"})
      /\ Len(RecordsIn(f)) = Len(BodyOf(f)) \div RECORD_LEN
  BY <1>1, ReadShape DEF RecordsIn
<1>3. CASE Len(f) <= HEADER_LEN BY <1>2, <1>3, Short
<1>4. CASE ~(Len(f) <= HEADER_LEN) BY <1>2, <1>4, BodyShape
<1>5. QED BY <1>2, <1>3, <1>4

\* A write of cells of records: what it does to a sound file.
LEMMA WriteSound ==
    ASSUME NEW f \in Seq(Cell), NEW records \in Seq(Record),
           NEW c \in 0 .. Len(records) * RECORD_LEN, ~Sick(f)
    PROVE  LET g == f \o SubSeq(Encode(records), 1, c)
               n == c \div RECORD_LEN
           IN  /\ n \in 0 .. Len(records)
               /\ RecordsIn(g) = RecordsIn(f) \o SubSeq(records, 1, n)
               /\ Sick(g) => n < Len(records)
               /\ c = Len(records) * RECORD_LEN => ~Sick(g) /\ n = Len(records)
<1> DEFINE piece == SubSeq(Encode(records), 1, c)
           g == f \o piece
           n == c \div RECORD_LEN
           b == BodyOf(f)
           full == c = Len(records) * RECORD_LEN
<1>1. piece \in Seq(Cell) BY Piece
<1>2. b \in Seq(Cell) /\ Len(b) % RECORD_LEN = 0 /\ HeadIntact(f) BY BodyShape DEF Sick
<1>3. BodyOf(g) = b \o piece BY <1>1, <1>2, BodyGrows DEF HeadIntact
<1>4. HeadIntact(g) BY <1>2, HeadKept
<1>5. /\ n \in 0 .. Len(records)
      /\ ReadOf(b \o piece) = ReadOf(b) \o SubSeq(records, 1, n)
      /\ Len(b \o piece) % RECORD_LEN = c % RECORD_LEN
      /\ c % RECORD_LEN # 0 => n < Len(records)
      /\ full => c % RECORD_LEN = 0 /\ n = Len(records)
  BY <1>2, Aligned, ZenonT(40)
<1> HIDE DEF g, n, piece, full, b
<1>6. RecordsIn(g) = RecordsIn(f) \o SubSeq(records, 1, n) BY <1>3, <1>5 DEF RecordsIn, b
<1>7. \A i \in DOMAIN RecordsIn(g) : RecordsIn(g)[i] \in Record
  <2>1. RecordsIn(f) \in Seq(Record)
    <3>1. RecordsIn(f) \in Seq(Record \cup {"garbage"}) BY CountsRecords
    <3>2. \A i \in DOMAIN RecordsIn(f) : RecordsIn(f)[i] \in Record BY DEF Sick
    <3>3. RecordsIn(f) \in [1 .. Len(RecordsIn(f)) -> Record] /\ Len(RecordsIn(f)) \in Nat
      BY <3>1, <3>2, LenProperties
    <3>4. QED BY <3>3
  <2>2. SubSeq(records, 1, n) \in Seq(Record)
    <3>1. n \in Nat /\ n <= Len(records) /\ Len(records) \in Nat BY <1>5
    <3>2. \A i \in 1 .. n : records[i] \in Record BY <3>1
    <3>3. QED BY <3>1, <3>2, SubSeqProperties
  <2>3. RecordsIn(g) \in Seq(Record) BY <1>6, <2>1, <2>2, ConcatProperties
  <2>4. QED BY <2>3
<1>8. Sick(g) => c % RECORD_LEN # 0 BY <1>3, <1>4, <1>5, <1>7 DEF Sick
<1>9. QED BY <1>5, <1>6, <1>8 DEF g, n, piece, full

\* ... and to a damaged one: it keeps what it has and stays damaged.
LEMMA WriteDamaged ==
    ASSUME NEW f \in Seq(Cell), NEW records \in Seq(Record),
           NEW c \in 0 .. Len(records) * RECORD_LEN, Sick(f)
    PROVE  LET g == f \o SubSeq(Encode(records), 1, c)
           IN  /\ Sick(g)
               /\ SubSeq(RecordsIn(g), 1, Len(RecordsIn(f))) = RecordsIn(f)
<1> DEFINE piece == SubSeq(Encode(records), 1, c)
           g == f \o piece
           b == BodyOf(f)
           top == Len(records) * RECORD_LEN
           Read == Record \cup {"garbage"}
<1>1. piece \in Seq(Cell) /\ Len(piece) = c BY Piece
<1>2. HeadIntact(g) <=> HeadIntact(f) BY HeadKept
<1>3. b \in Seq(Cell) BY BodyShape
<1>4. c \in 0 .. top OBVIOUS
<1> HIDE DEF piece, b, top
<1>5. CASE Len(f) >= HEADER_LEN
  <2>1. BodyOf(g) = b \o piece BY <1>1, <1>5, BodyGrows DEF b
  <2>2. g \in Seq(Cell) BY <1>1, ConcatProperties
  <2> HIDE DEF g
  <2>3. /\ Len(RecordsIn(f)) <= Len(RecordsIn(g))
        /\ \A n \in 1 .. Len(RecordsIn(f)) : RecordsIn(g)[n] = RecordsIn(f)[n]
    <3>1. RecordsIn(g) = ReadOf(b \o piece) /\ RecordsIn(f) = ReadOf(b)
      BY <2>1 DEF RecordsIn, b
    <3>2. QED BY <1>1, <1>3, <3>1, ReadGrows, SMTT(30)
  <2>4. RecordsIn(f) \in Seq(Read) /\ RecordsIn(g) \in Seq(Read) BY <2>2, CountsRecords
  <2> HIDE DEF Read
  <2>5. SubSeq(RecordsIn(g), 1, Len(RecordsIn(f))) = RecordsIn(f)
    <3> DEFINE s == RecordsIn(g)
               r == RecordsIn(f)
               m == Len(r)
    <3>1. m \in Nat /\ Len(s) \in Nat /\ m <= Len(s) BY <2>3, <2>4
    <3> HIDE DEF s, r, m
    <3>2. s \in Seq(Read) /\ r \in Seq(Read) /\ m = Len(r) BY <2>4 DEF s, r, m
    <3>3. \A i \in 1 .. m : s[i] \in Read BY <3>1, <3>2
    <3>4. /\ SubSeq(s, 1, m) \in Seq(Read)
          /\ Len(SubSeq(s, 1, m)) = IF 1 <= m THEN m - 1 + 1 ELSE 0
          /\ \A i \in 1 .. m - 1 + 1 : SubSeq(s, 1, m)[i] = s[1 + i - 1]
      BY <3>1, <3>3, SubSeqProperties
    <3>5. Len(SubSeq(s, 1, m)) = m /\ \A i \in 1 .. m : SubSeq(s, 1, m)[i] = s[i]
      BY <3>1, <3>4
    <3>6. \A i \in 1 .. m : s[i] = r[i] BY <2>3 DEF s, r, m
    <3>7. SubSeq(s, 1, m) = r BY <3>2, <3>4, <3>5, <3>6, SeqEqual
    <3>8. QED BY <3>7 DEF s, r, m
  <2>6. Sick(g)
    <3>1. CASE ~HeadIntact(f) BY <1>2, <3>1 DEF Sick, g
    <3>2. CASE ~\A n \in DOMAIN RecordsIn(f) : RecordsIn(f)[n] \in Record
      <4>1. PICK n \in 1 .. Len(RecordsIn(f)) : RecordsIn(f)[n] \notin Record
        BY <2>4, <3>2
      <4>2. n \in 1 .. Len(RecordsIn(g)) BY <2>3, <2>4
      <4>3. n \in DOMAIN RecordsIn(g) /\ RecordsIn(g)[n] \notin Record
        BY <2>3, <2>4, <4>1, <4>2
      <4>4. QED BY <4>3 DEF Sick
    <3>3. CASE Len(b) % RECORD_LEN # 0
      <4>1. CASE c = 0
        <5>1. piece = << >> BY <1>1, <4>1
        <5>2. b \o piece = b BY <1>3, <5>1, ConcatEmptySeq
        <5>3. QED BY <2>1, <3>3, <5>2 DEF Sick
      <4>2. CASE c # 0
        <5>1. c \in 1 .. top BY <1>4, <4>2
        <5>2. \/ Len(b \o piece) % RECORD_LEN # 0
              \/ \E n \in 1 .. Len(ReadOf(b \o piece)) : ReadOf(b \o piece)[n] = "garbage"
          BY <1>3, <3>3, <5>1, Misaligned DEF piece, top
        <5>3. ASSUME NEW n \in 1 .. Len(RecordsIn(g)), RecordsIn(g)[n] = "garbage"
              PROVE  Sick(g)
          <6>1. n \in DOMAIN RecordsIn(g) /\ "garbage" \notin Record
            BY <2>4, JournalAssumption
          <6>2. QED BY <5>3, <6>1 DEF Sick
        <5>4. QED BY <2>1, <5>2, <5>3 DEF Sick, RecordsIn
      <4>3. QED BY <4>1, <4>2
    <3>4. QED BY <3>1, <3>2, <3>3 DEF Sick, b
  <2>7. QED BY <2>5, <2>6 DEF g, piece
<1>6. CASE ~(Len(f) >= HEADER_LEN)
  <2>1. ~HeadIntact(f) BY <1>6 DEF HeadIntact
  <2>2. Sick(g) BY <1>2, <2>1 DEF Sick
  <2>3. Len(f) <= HEADER_LEN BY <1>6, JournalAssumption
  <2>4. RecordsIn(f) = << >> BY <2>3, Short
  <2> HIDE DEF g
  <2>5. SubSeq(RecordsIn(g), 1, Len(RecordsIn(f))) = << >>
    <3>1. Len(RecordsIn(f)) = 0 BY <2>4
    <3>2. SubSeq(RecordsIn(g), 1, 0) = << >> BY SubSeqEmpty
    <3>3. QED BY <3>1, <3>2
  <2>6. QED BY <2>2, <2>4, <2>5 DEF g, piece
<1>7. QED BY <1>5, <1>6


\* A header, whole or not, is a file without records, and a whole one is sound.
LEMMA HeaderFile ==
    ASSUME NEW n \in 0 .. HEADER_LEN
    PROVE  /\ SubSeq(Header, 1, n) \in Seq(Cell)
           /\ RecordsIn(SubSeq(Header, 1, n)) = << >>
           /\ n = HEADER_LEN => SubSeq(Header, 1, n) = Header
           /\ RecordsIn(Header) = << >> /\ ~Sick(Header)
<1> DEFINE h == SubSeq(Header, 1, n)
<1>1. HEADER_LEN \in Nat /\ n \in Nat /\ n <= HEADER_LEN BY JournalAssumption
<1>2. \A i \in 1 .. n : Header[i] \in Cell BY <1>1, HeaderCells
<1>3. h \in Seq(Cell) /\ Len(h) = IF 1 <= n THEN n - 1 + 1 ELSE 0
  BY <1>1, <1>2, SubSeqProperties
<1> HIDE DEF h
<1>4. Len(h) <= HEADER_LEN BY <1>1, <1>3
<1>5. RecordsIn(h) = << >> BY <1>3, <1>4, Short
<1>6. SubSeq(Header, 1, HEADER_LEN) = Header BY HeaderCells, SubSeqFull
<1>7. Len(Header) <= HEADER_LEN /\ HeadIntact(Header)
  BY <1>1, <1>6, HeaderCells DEF HeadIntact
<1>8. RecordsIn(Header) = << >> /\ ~Sick(Header) BY <1>7, HeaderCells, Short
<1>9. QED BY <1>3, <1>5, <1>6, <1>8 DEF h

\* clear leaves no record, and no damage where there was none.
LEMMA TruncatedFile ==
    ASSUME NEW f \in Seq(Cell)
    PROVE  /\ Truncated(f) \in Seq(Cell) /\ RecordsIn(Truncated(f)) = << >>
           /\ Sick(Truncated(f)) => Sick(f)
<1> DEFINE g == Truncated(f)
<1>1. HEADER_LEN \in Nat BY JournalAssumption
<1>2. g \in [1 .. HEADER_LEN -> Cell]
  <2>1. ASSUME NEW n \in 1 .. HEADER_LEN
        PROVE  (IF n <= Len(f) THEN f[n] ELSE ZeroCell) \in Cell
    <3>1. ZeroCell \in Cell BY DEF ZeroCell, Cell
    <3>2. n <= Len(f) => f[n] \in Cell BY <1>1
    <3>3. QED BY <3>1, <3>2
  <2>2. QED BY <2>1 DEF Truncated
<1>3. g \in Seq(Cell) /\ Len(g) = HEADER_LEN BY <1>1, <1>2
<1>4. RecordsIn(g) = << >> /\ (Sick(g) <=> ~HeadIntact(g)) BY <1>1, <1>3, Short
<1>5. ASSUME HeadIntact(f) PROVE HeadIntact(g)
  <2>1. Len(f) >= HEADER_LEN /\ Len(f) \in Nat BY <1>5 DEF HeadIntact
  <2>2. \A k \in 1 .. HEADER_LEN : f[k] = Header[k] BY <1>5, <2>1, HeadCells
  <2>3. \A k \in 1 .. HEADER_LEN : g[k] = f[k] BY <1>1, <2>1 DEF Truncated
  <2> HIDE DEF g
  <2>4. \A k \in 1 .. HEADER_LEN : g[k] = Header[k] BY <2>2, <2>3
  <2>5. Len(g) >= HEADER_LEN BY <1>1, <1>3
  <2>6. QED BY <1>3, <2>4, <2>5, HeadCells
<1> HIDE DEF g
<1>6. Sick(g) => Sick(f) BY <1>4, <1>5 DEF Sick
<1>7. QED BY <1>3, <1>4, <1>6 DEF g

-----------------------------------------------------------------------------
(* The refinement. *)

Stage == {"closed", "idle", "create", "header", "write", "corrupt"}

\* A journal that does not exist has no cells, a created one starts empty, and
\* an append in progress has records.
LogInv ==
    /\ file \in Seq(Cell) /\ exists \in BOOLEAN /\ stage \in Stage
    /\ ~exists => file = << >>
    /\ stage = "create" => ~exists
    /\ stage = "header" => exists /\ file = << >>
    /\ stage = "write" => exists
    /\ stage \in {"create", "header", "write"} => batch \in Batches

LEMMA BatchesAreLists ==
    ASSUME NEW records \in Batches
    PROVE  records \in Seq(Record) /\ Len(records) \in Nat \ {0} /\ Batches = Log!Batch
<1>1. PICK n \in 1 .. MaxBatch : records \in [1 .. n -> Record] BY DEF Batches
<1>2. n \in Nat \ {0} BY JournalAssumption
<1>3. records \in Seq(Record) /\ Len(records) = n BY <1>1, <1>2
<1>4. Batches = Log!Batch BY DEF Batches, Log!Batch
<1>5. QED BY <1>2, <1>3, <1>4

LEMMA JournalInitInv == JournalInit => LogInv
<1>1. << >> \in Seq(Cell) BY EmptySeq
<1>2. QED BY <1>1 DEF JournalInit, LogInv, Stage

LEMMA JournalStepInv == LogInv /\ [JournalNext]_journal_vars => LogInv'
<1> SUFFICES ASSUME LogInv, [JournalNext]_journal_vars PROVE LogInv'
  OBVIOUS
<1>0. << >> \in Seq(Cell) BY EmptySeq
<1> USE DEF LogInv, Stage
<1>1. CASE UNCHANGED journal_vars BY <1>1 DEF journal_vars, Batches
<1>2. CASE Reset BY <1>0, <1>2 DEF Reset
<1>3. CASE JournalOpen BY <1>3 DEF JournalOpen
<1>4. CASE CreateFile BY <1>0, <1>4 DEF CreateFile, Batches
<1>5. CASE WriteHeader
  <2>1. file \o Header \in Seq(Cell) BY HeaderCells, ConcatProperties
  <2>2. QED BY <1>5, <2>1 DEF WriteHeader, Batches
<1>6. CASE WriteRecords
  <2>1. file \o Encode(batch) \in Seq(Cell)
    <3>1. batch \in Seq(Record) BY <1>6, BatchesAreLists DEF WriteRecords
    <3>2. QED BY <3>1, Encoded, ConcatProperties
  <2>2. QED BY <1>6, <2>1 DEF WriteRecords
<1>7. CASE Clear
  <2>1. Truncated(file) \in Seq(Cell) BY TruncatedFile
  <2>2. QED BY <1>7, <2>1 DEF Clear
<1>8. CASE Close BY <1>8 DEF Close
<1>9. ASSUME NEW records \in Batches, AppendCall(records) PROVE LogInv'
  BY <1>9 DEF AppendCall, Batches
<1>10. ASSUME NEW after \in {"closed", "idle"}, NEW n \in 0 .. HEADER_LEN, InterruptHeader(after, n)
       PROVE  LogInv'
  <2>1. file \o SubSeq(Header, 1, n) \in Seq(Cell) BY HeaderFile, ConcatProperties
  <2>2. QED BY <1>10, <2>1 DEF InterruptHeader, Interrupt
<1>11. ASSUME NEW after \in {"closed", "idle"}, NEW n \in 0 .. MaxBatch * RECORD_LEN,
              InterruptRecords(after, n)
       PROVE  LogInv'
  <2>1. file \o SubSeq(Encode(batch), 1, n) \in Seq(Cell)
    <3>1. batch \in Seq(Record) BY <1>11, BatchesAreLists DEF InterruptRecords
    <3>2. n \in Nat
      <4>1. MaxBatch * RECORD_LEN \in Nat BY JournalAssumption
      <4>2. QED BY <4>1
    <3>3. n \in 0 .. Len(batch) * RECORD_LEN
      BY <1>11, <3>1, <3>2, Encoded DEF InterruptRecords
    <3>4. QED BY <3>1, <3>3, Piece, ConcatProperties
  <2>2. QED BY <1>11, <2>1 DEF InterruptRecords, Interrupt
<1>12. QED
  BY <1>1, <1>2, <1>3, <1>4, <1>5, <1>6, <1>7, <1>8, <1>9, <1>10, <1>11 DEF JournalNext

LEMMA JournalInvariant == JournalSpec => []LogInv
BY JournalInitInv, JournalStepInv, PTL DEF JournalSpec


\* The three parts of the log, told from the file.
LEMMA JournalViews ==
    ASSUME file \in Seq(Cell), exists \in BOOLEAN
    PROVE  /\ Replayed = RecordsIn(file) /\ Replayed \in Seq(Record \cup {"garbage"})
           /\ JournalLen = Len(Replayed)
           /\ Damaged = (exists /\ stage \notin {"create", "header"} /\ Sick(file))
           /\ Damaged \in BOOLEAN
<1>1. Body = BodyOf(file) BY DEF Body, BodyOf
<1>2. Replayed = RecordsIn(file) BY <1>1 DEF Replayed, RecordsIn, ReadOf
<1>3. JournalLen = Len(Replayed) /\ Replayed \in Seq(Record \cup {"garbage"})
  BY <1>2, CountsRecords DEF JournalLen
<1>4. HeaderIntact <=> HeadIntact(file) BY DEF HeaderIntact, HeadIntact
<1>5. Damaged <=> exists /\ stage \notin {"create", "header"} /\ Sick(file)
  BY <1>1, <1>2, <1>4 DEF Damaged, ReplaysOnlyRecords, Sick
<1>6. Damaged \in BOOLEAN BY DEF Damaged
<1>7. QED BY <1>2, <1>3, <1>5, <1>6

LEMMA JournalInitRefines == JournalInit => Log!Init
<1> SUFFICES ASSUME JournalInit PROVE Log!Init
  OBVIOUS
<1>1. file = << >> /\ exists = FALSE BY DEF JournalInit
<1>2. file \in Seq(Cell) /\ Len(file) <= HEADER_LEN BY <1>1, EmptySeq, JournalAssumption
<1>3. Replayed = << >> BY <1>1, <1>2, JournalViews, Short
<1>4. Damaged = FALSE BY <1>1, <1>2, JournalViews
<1>5. JournalLen = 0 BY <1>1, <1>2, <1>3, JournalViews
<1>6. QED BY <1>3, <1>4, <1>5 DEF Log!Init

LEMMA JournalStepRefines ==
    LogInv /\ LogInv' /\ [JournalNext]_journal_vars
        => [Log!Next]_<<Replayed, Damaged, JournalLen>>
<1> SUFFICES ASSUME LogInv, LogInv', [JournalNext]_journal_vars
             PROVE  [Log!Next]_<<Replayed, Damaged, JournalLen>>
  OBVIOUS
<1> DEFINE Read == Record \cup {"garbage"}
           hurt == exists /\ stage \notin {"create", "header"} /\ Sick(file)
           hurt1 == exists' /\ stage' \notin {"create", "header"} /\ Sick(file')
<1>1. file \in Seq(Cell) /\ exists \in BOOLEAN BY DEF LogInv
<1>2. file' \in Seq(Cell) /\ exists' \in BOOLEAN BY DEF LogInv
<1>3. /\ Replayed = RecordsIn(file) /\ JournalLen = Len(Replayed) /\ Damaged = hurt
      /\ Replayed \in Seq(Read)
  BY <1>1, JournalViews
<1>4. /\ Replayed' = RecordsIn(file') /\ JournalLen' = Len(Replayed') /\ Damaged' = hurt1
  <2>1. Body' = BodyOf(file') BY DEF Body, BodyOf
  <2>2. Replayed' = RecordsIn(file') BY <2>1 DEF Replayed, RecordsIn, ReadOf
  <2>3. JournalLen' = Len(Replayed') BY <1>2, <2>2, CountsRecords DEF JournalLen
  <2>4. HeaderIntact' <=> HeadIntact(file') BY DEF HeaderIntact, HeadIntact
  <2>5. Damaged' <=> hurt1
    BY <2>1, <2>2, <2>4 DEF Damaged, ReplaysOnlyRecords, Sick
  <2>6. Damaged' \in BOOLEAN BY DEF Damaged
  <2>7. QED BY <2>2, <2>3, <2>5, <2>6
<1> HIDE DEF Read, hurt, hurt1
<1>5. ASSUME RecordsIn(file') = RecordsIn(file), hurt1 = hurt
      PROVE  [Log!Next]_<<Replayed, Damaged, JournalLen>>
  BY <1>3, <1>4, <1>5
<1>6. ASSUME RecordsIn(file') = << >>, hurt1 \in {FALSE, hurt}
      PROVE  [Log!Next]_<<Replayed, Damaged, JournalLen>>
  BY <1>3, <1>4, <1>6 DEF Log!Next, Log!Clear
<1>7. ASSUME NEW records \in Batches, NEW n \in 0 .. Len(records), ~hurt,
             RecordsIn(file') = RecordsIn(file) \o SubSeq(records, 1, n),
             hurt1 \in {FALSE, n < Len(records)}
      PROVE  [Log!Next]_<<Replayed, Damaged, JournalLen>>
  <2>1. records \in Log!Batch BY BatchesAreLists
  <2>2. Log!Extend(records) BY <1>3, <1>4, <1>7 DEF Log!Extend
  <2>3. QED BY <1>4, <2>1, <2>2 DEF Log!Next
<1>8. ASSUME hurt, hurt1, SubSeq(RecordsIn(file'), 1, Len(RecordsIn(file))) = RecordsIn(file)
      PROVE  [Log!Next]_<<Replayed, Damaged, JournalLen>>
  BY <1>3, <1>4, <1>8 DEF Log!Next, Log!Smear
<1>9. ASSUME file' = file, exists' = exists,
             (stage \in {"create", "header"}) <=> (stage' \in {"create", "header"})
      PROVE  [Log!Next]_<<Replayed, Damaged, JournalLen>>
  BY <1>5, <1>9 DEF hurt, hurt1
\* Cells of the batch, all of them or the first ones, are written.
<1>10. ASSUME NEW c \in 0 .. Len(batch) * RECORD_LEN, stage = "write",
              file' = file \o SubSeq(Encode(batch), 1, c), exists' = exists,
              stage' \in {"idle", "closed"}
       PROVE  [Log!Next]_<<Replayed, Damaged, JournalLen>>
  <2>1. exists /\ batch \in Batches BY <1>10 DEF LogInv
  <2>2. batch \in Seq(Record) BY <2>1, BatchesAreLists
  <2>3. (hurt <=> Sick(file)) /\ (hurt1 <=> Sick(file')) BY <1>10, <2>1 DEF hurt, hurt1
  <2>4. CASE Sick(file)
    <3>1. Sick(file') /\ SubSeq(RecordsIn(file'), 1, Len(RecordsIn(file))) = RecordsIn(file)
      BY <1>1, <1>10, <2>2, <2>4, WriteDamaged
    <3>2. QED BY <1>8, <2>3, <2>4, <3>1
  <2>5. CASE ~Sick(file)
    <3> DEFINE n == c \div RECORD_LEN
    <3>1. /\ n \in 0 .. Len(batch)
          /\ RecordsIn(file') = RecordsIn(file) \o SubSeq(batch, 1, n)
          /\ Sick(file') => n < Len(batch)
      BY <1>1, <1>10, <2>2, <2>5, WriteSound
    <3> HIDE DEF n
    <3>2. hurt1 \in {FALSE, n < Len(batch)}
      <4>1. hurt1 \in BOOLEAN BY <1>2 DEF hurt1
      <4>2. hurt1 => n < Len(batch) BY <2>3, <3>1
      <4>3. QED BY <4>1, <4>2
    <3>3. QED BY <1>7, <2>1, <2>3, <2>5, <3>1, <3>2
  <2>6. QED BY <2>4, <2>5
<1>11. CASE UNCHANGED journal_vars BY <1>9, <1>11 DEF journal_vars
<1>12. CASE JournalOpen BY <1>9, <1>12 DEF JournalOpen
<1>13. CASE Close BY <1>9, <1>13 DEF Close
<1>14. CASE Reset
  <2>1. file' = << >> /\ exists' = FALSE BY <1>14 DEF Reset
  <2>2. Len(file') <= HEADER_LEN BY <2>1, JournalAssumption
  <2>3. RecordsIn(file') = << >> BY <1>2, <2>2, Short
  <2>4. hurt1 = FALSE BY <2>1 DEF hurt1
  <2>5. QED BY <1>6, <2>3, <2>4
<1>15. CASE CreateFile
  <2>1. ~exists /\ file = << >> /\ file' = file /\ stage' = "header"
    BY <1>15 DEF CreateFile, LogInv
  <2>2. hurt = FALSE /\ hurt1 = FALSE BY <2>1 DEF hurt, hurt1
  <2>3. QED BY <1>5, <2>1, <2>2
<1>16. CASE WriteHeader
  <2>1. file = << >> /\ stage = "header" /\ file' = Header
    BY <1>16, HeaderCells, ConcatEmptySeq DEF WriteHeader, LogInv
  <2>2. RecordsIn(file') = << >> /\ ~Sick(file')
    <3>1. HEADER_LEN \in 0 .. HEADER_LEN BY JournalAssumption
    <3>2. QED BY <2>1, <3>1, HeaderFile
  <2>3. hurt1 = FALSE BY <2>2 DEF hurt1
  <2>4. QED BY <1>6, <2>2, <2>3
<1>17. CASE WriteRecords
  <2>1. batch \in Seq(Record) BY <1>17, BatchesAreLists DEF WriteRecords, LogInv
  <2>2. /\ Len(batch) * RECORD_LEN \in 0 .. Len(batch) * RECORD_LEN
        /\ SubSeq(Encode(batch), 1, Len(batch) * RECORD_LEN) = Encode(batch)
    <3> DEFINE N == Len(batch) * RECORD_LEN
    <3>1. N \in Nat /\ Encode(batch) \in Seq(Cell) /\ Len(Encode(batch)) = N BY <2>1, Encoded
    <3> HIDE DEF N
    <3>2. N \in 0 .. N /\ SubSeq(Encode(batch), 1, N) = Encode(batch) BY <3>1, SubSeqFull
    <3>3. QED BY <3>2 DEF N
  <2>3. QED BY <1>10, <1>17, <2>2 DEF WriteRecords
<1>18. CASE Clear
  <2>1. CASE exists
    <3>1. file' = Truncated(file) /\ exists' = exists /\ stage' = "idle" /\ stage = "idle"
      BY <1>18, <2>1 DEF Clear
    <3>2. RecordsIn(file') = << >> /\ (Sick(file') => Sick(file))
      BY <1>1, <3>1, TruncatedFile
    <3>3. hurt1 \in {FALSE, hurt}
      <4>1. hurt \in BOOLEAN /\ hurt1 \in BOOLEAN BY <1>1, <1>2 DEF hurt, hurt1
      <4>2. hurt1 => hurt BY <2>1, <3>1, <3>2 DEF hurt, hurt1
      <4>3. QED BY <4>1, <4>2
    <3>4. QED BY <1>6, <3>2, <3>3
  <2>2. CASE ~exists BY <1>9, <1>18, <2>2 DEF Clear
  <2>3. QED BY <2>1, <2>2
<1>19. ASSUME NEW records \in Batches, AppendCall(records)
       PROVE  [Log!Next]_<<Replayed, Damaged, JournalLen>>
  <2>1. file' = file /\ exists' = exists BY <1>19 DEF AppendCall
  <2>2. CASE exists BY <1>9, <1>19, <2>2 DEF AppendCall
  <2>3. CASE ~exists
    <3>1. hurt = FALSE /\ hurt1 = FALSE BY <2>1, <2>3 DEF hurt, hurt1
    <3>2. QED BY <1>5, <2>1, <3>1
  <2>4. QED BY <2>2, <2>3
<1>20. ASSUME NEW after \in {"closed", "idle"}, NEW n \in 0 .. HEADER_LEN, InterruptHeader(after, n)
       PROVE  [Log!Next]_<<Replayed, Damaged, JournalLen>>
  <2>1. /\ exists /\ file = << >> /\ stage = "header" /\ batch \in Batches
        /\ file' = file \o SubSeq(Header, 1, n)
    BY <1>20 DEF InterruptHeader, LogInv
  <2>2. SubSeq(Header, 1, n) \in Seq(Cell) /\ RecordsIn(SubSeq(Header, 1, n)) = << >>
    BY HeaderFile
  <2>3. file' = SubSeq(Header, 1, n) BY <2>1, <2>2, ConcatEmptySeq
  <2>4. RecordsIn(file) = << >>
    <3>1. Len(file) <= HEADER_LEN BY <2>1, JournalAssumption
    <3>2. QED BY <1>1, <3>1, Short
  <2>5. hurt = FALSE BY <2>1 DEF hurt
  <2>6. /\ 0 \in 0 .. Len(batch) /\ 0 < Len(batch)
        /\ RecordsIn(file') = RecordsIn(file) \o SubSeq(batch, 1, 0)
    <3>1. Len(batch) \in Nat \ {0} BY <2>1, BatchesAreLists
    <3>2. SubSeq(batch, 1, 0) = << >> BY SubSeqEmpty
    <3>3. << >> \o << >> = << >> BY EmptySeq, ConcatEmptySeq
    <3>4. RecordsIn(file') = RecordsIn(file) \o SubSeq(batch, 1, 0)
      BY <2>2, <2>3, <2>4, <3>2, <3>3, Zenon
    <3>5. QED BY <3>1, <3>4
  <2>7. hurt1 \in {FALSE, 0 < Len(batch)} BY <1>2, <2>6 DEF hurt1
  <2>8. QED BY <1>7, <2>1, <2>5, <2>6, <2>7
<1>21. ASSUME NEW after \in {"closed", "idle"}, NEW n \in 0 .. MaxBatch * RECORD_LEN,
              InterruptRecords(after, n)
       PROVE  [Log!Next]_<<Replayed, Damaged, JournalLen>>
  <2>1. batch \in Seq(Record) BY <1>21, BatchesAreLists DEF InterruptRecords, LogInv
  <2>2. n \in Nat
    <3>1. MaxBatch * RECORD_LEN \in Nat BY JournalAssumption
    <3>2. QED BY <3>1
  <2>3. n \in 0 .. Len(batch) * RECORD_LEN BY <1>21, <2>1, <2>2, Encoded DEF InterruptRecords
  <2>4. QED BY <1>10, <1>21, <2>3 DEF InterruptRecords, Interrupt
<1>22. QED
  BY <1>11, <1>12, <1>13, <1>14, <1>15, <1>16, <1>17, <1>18, <1>19, <1>20, <1>21
  DEF JournalNext

\* journal.bin implements the log of records that VectorIndex takes it for,
\* whatever the length of a record and of the header and wherever a write
\* stops (append, create_file, replay, clear, open).
THEOREM JournalIsALog == JournalSpec => ImplementsLog
<1>1. LogInv /\ LogInv' /\ [JournalNext]_journal_vars
        => [Log!Next]_<<Replayed, Damaged, JournalLen>>
  BY JournalStepRefines
<1>2. QED BY JournalInitRefines, <1>1, JournalInvariant, PTL DEF JournalSpec, ImplementsLog, Log!Spec

-----------------------------------------------------------------------------
(* The configuration of an editor. *)

\* What JSON the file may hold, and what bytes.
Config == UNION {[version : BOOLEAN, settings : SUBSET Setting,
                  hooks : {NoHooks, NotObject} \cup HooksOf(events)] : events \in SomeEvents}
Value == Config \cup {NotObject}
Bytes == Value \cup {Empty, TornBytes}

Places == {"idle", "open", "write", "rename", "clean_up"}

HooksTypeOK ==
    /\ cursor \in BOOLEAN /\ overlap \in BOOLEAN
    /\ config_file \in Inode \cup {NoInode} /\ tmp \in Inode \cup {NoInode}
    /\ content \in [Inode -> Bytes] /\ fd \in [Process -> Inode \cup {NoInode}]
    /\ step \in [Process -> Places] /\ verb \in [Process -> Bin \cup {NoHooks}]
    /\ existing \in [Process -> Value] /\ text \in [Process -> Value]

\* Which inode is whose.  The temporary file is never the configuration, and
\* a process holds a descriptor only to write.
Inodes ==
    /\ tmp # NoInode => tmp # config_file
    /\ \A p \in Process : fd[p] # NoInode <=> step[p] = "write"

\* What a verb that has read the file is to write.
ResultOf(config, bin) == IF bin = NoHooks THEN RemoveOurs(config) ELSE Merge(config, bin)
Result(p) == ResultOf(existing[p], verb[p])

Working == {"open", "write", "rename"}
Prepared ==
    \A p \in Process : step[p] \in Working => /\ text[p] = Result(p)
                                              /\ verb[p] = NoHooks => existing[p] # NotObject

\* The temporary file in one pair of hands.
Holding == {"write", "rename"}
Alone ==
    /\ config_file # NoInode => content[config_file] \in Value
    /\ \A p, q \in Process : step[p] \in Holding /\ step[q] \in Holding => p = q
    /\ \A p \in Process : step[p] = "write" =>
          /\ fd[p] # config_file /\ content[fd[p]] = Empty
          /\ tmp \in {NoInode, fd[p]}
    /\ \A p \in Process : step[p] = "rename" /\ tmp # NoInode => content[tmp] = text[p]

HooksInv == Inodes /\ Prepared /\ (overlap \/ Alone)

-----------------------------------------------------------------------------
(* Configurations. *)

LEMMA Objects == \A config : IsObject(config) <=> config \in Config
BY DEF IsObject, Config

LEMMA Whole ==
    /\ NotObject \notin Config /\ Configs \subseteq Value
    /\ Empty \notin Value /\ TornBytes \notin Value /\ Blank \in Config
    /\ \A bytes \in Bytes : IsConfig(bytes) <=> bytes \in Value
<1>1. NotObject \notin Config /\ Configs \subseteq Value /\ Empty \notin Value /\ TornBytes \notin Value
  BY HooksAssumption, Objects DEF Value
<1>2. Blank \in Config
  <2>1. {} \in SomeEvents
    BY DEF SomeEvents
  <2>2. Blank \in [version : BOOLEAN, settings : SUBSET Setting,
                   hooks : {NoHooks, NotObject} \cup HooksOf({})]
    BY DEF Blank
  <2>3. QED BY <2>1, <2>2 DEF Config
<1>3. QED BY <1>1, <1>2 DEF Bytes, IsConfig

LEMMA Fields ==
    ASSUME NEW config \in Config
    PROVE  /\ config.version \in BOOLEAN /\ config.settings \in SUBSET Setting
           /\ config.hooks \in {NoHooks, NotObject} \/ IsHooks(config.hooks)
           /\ config = [version |-> config.version, settings |-> config.settings,
                        hooks |-> config.hooks]
<1>1. PICK events \in SomeEvents :
         config \in [version : BOOLEAN, settings : SUBSET Setting,
                     hooks : {NoHooks, NotObject} \cup HooksOf(events)]
  BY DEF Config
<1>2. QED BY <1>1 DEF IsHooks

LEMMA OfFields ==
    ASSUME NEW flag \in BOOLEAN, NEW settings \in SUBSET Setting, NEW hooks,
           hooks \in {NoHooks, NotObject} \/ IsHooks(hooks)
    PROVE  [version |-> flag, settings |-> settings, hooks |-> hooks] \in Config
<1>1. \E events \in SomeEvents : hooks \in {NoHooks, NotObject} \cup HooksOf(events)
  <2>1. {} \in SomeEvents
    BY DEF SomeEvents
  <2>2. QED BY <2>1 DEF IsHooks
<1>2. QED BY <1>1 DEF Config

LEMMA Events ==
    ASSUME NEW hooks, IsHooks(hooks)
    PROVE  DOMAIN hooks \in SomeEvents /\ hooks \in HooksOf(DOMAIN hooks)
BY DEF IsHooks, HooksOf

LEMMA EmptyHooks == IsHooks(<< >>) /\ DOMAIN << >> = {}
<1>1. DOMAIN << >> = {}
  OBVIOUS
<1>2. << >> \in [{} -> {NotArray} \cup Seq(Group)]
  OBVIOUS
<1>3. {} \in SomeEvents
  BY DEF SomeEvents
<1>4. QED BY <1>1, <1>2, <1>3 DEF IsHooks, HooksOf

\* The "hooks" of a configuration are an object, if only an empty one.
LEMMA ObjectHooks ==
    ASSUME NEW config \in Value
    PROVE  /\ IsHooks(HooksObject(config))
           /\ \/ HooksObject(config) = << >>
              \/ config # NotObject /\ HooksObject(config) = config.hooks
BY EmptyHooks, Fields DEF Value, HooksObject

LEMMA GroupsAre ==
    ASSUME NEW hooks, IsHooks(hooks), NEW event
    PROVE  Groups(hooks, event) \in Seq(Group)
BY Events, EmptySeq DEF HooksOf, Groups

-----------------------------------------------------------------------------
(* What the verbs make of a configuration. *)

MergedHooks(config, bin) ==
    [event \in DOMAIN HooksObject(config) \cup Event |->
        IF event \in Event
        THEN Append(Only(Groups(HooksObject(config), event), Theirs), {bin})
        ELSE HooksObject(config)[event]]

KeptEvents(config) ==
    {event \in DOMAIN HooksObject(config) :
        \/ HooksObject(config)[event] = NotArray
        \/ Only(Groups(HooksObject(config), event), Theirs) # << >>}

KeptHooks(config) ==
    [event \in KeptEvents(config) |->
        IF HooksObject(config)[event] = NotArray THEN NotArray
        ELSE Only(HooksObject(config)[event], Theirs)]

LEMMA Sides ==
    /\ Ours \cup Theirs = Group /\ Ours \cap Theirs = {}
    /\ Theirs \subseteq Group /\ Ours \subseteq Group
    /\ \A bin \in Bin : {bin} \in Ours
BY DEF Ours, Theirs, IsOurs, Group

LEMMA TheirGroups ==
    ASSUME NEW list \in Seq(Group)
    PROVE  Only(list, Theirs) \in Seq(Theirs) /\ Only(list, Theirs) \in Seq(Group)
<1>1. Only(list, Theirs) \in Seq(Group \cap Theirs)
  BY OnlyKeeps
<1>2. Group \cap Theirs = Theirs
  BY Sides
<1>3. QED BY <1>1, <1>2, Sides

LEMMA MergedHooksAre ==
    ASSUME NEW config \in Value, NEW bin \in Bin
    PROVE  IsHooks(MergedHooks(config, bin))
<1> DEFINE old == HooksObject(config)
           events == DOMAIN old \cup Event
           new == MergedHooks(config, bin)
<1>1. IsHooks(old) /\ DOMAIN old \in SomeEvents /\ old \in HooksOf(DOMAIN old)
  BY ObjectHooks, Events
<1>2. events \in SomeEvents
  BY <1>1 DEF SomeEvents
<1>3. ASSUME NEW event \in events PROVE new[event] \in {NotArray} \cup Seq(Group)
  <2>1. CASE event \in Event
    <3>1. Only(Groups(old, event), Theirs) \in Seq(Group) /\ {bin} \in Group
      BY <1>1, GroupsAre, TheirGroups, Sides
    <3>2. new[event] = Append(Only(Groups(old, event), Theirs), {bin})
      BY <2>1 DEF MergedHooks
    <3>3. QED BY <3>1, <3>2, AppendProperties
  <2>2. CASE event \notin Event
    <3>1. new[event] = old[event] /\ event \in DOMAIN old
      BY <2>2 DEF MergedHooks
    <3>2. QED BY <1>1, <3>1 DEF HooksOf
  <2>3. QED BY <2>1, <2>2
<1>4. new \in HooksOf(events)
  <2>1. new = [event \in events |-> new[event]]
    BY DEF MergedHooks
  <2> HIDE DEF events, new
  <2>2. QED BY <1>3, <2>1 DEF HooksOf
<1>5. QED BY <1>2, <1>4 DEF IsHooks

LEMMA MergeIs ==
    ASSUME NEW config \in Value, NEW bin \in Bin, cursor \in BOOLEAN
    PROVE  /\ Merge(config, bin) \in Config
           /\ Merge(config, bin).hooks = MergedHooks(config, bin)
           /\ Merge(config, bin).settings =
                 (IF config = NotObject THEN {} ELSE config.settings)
           /\ Merge(config, bin).version =
                 (IF config = NotObject THEN cursor ELSE config.version \/ cursor)
<1> DEFINE result == IF config = NotObject THEN Blank ELSE config
<1>1. result \in Config
  BY Whole DEF Value
<1>2. PICK flag \in BOOLEAN, settings \in SUBSET Setting :
         result = [version |-> flag, settings |-> settings, hooks |-> result.hooks]
  <2>1. /\ result.version \in BOOLEAN /\ result.settings \in SUBSET Setting
        /\ result = [version |-> result.version, settings |-> result.settings,
                     hooks |-> result.hooks]
    BY <1>1, Fields
  <2> HIDE DEF result
  <2>2. QED BY <2>1, Zenon
<1>3. Merge(config, bin) = [result EXCEPT !.version = @ \/ cursor, !.hooks = MergedHooks(config, bin)]
  BY DEF Merge, MergedHooks
<1>4. Merge(config, bin) = [version |-> flag \/ cursor, settings |-> settings,
                            hooks |-> MergedHooks(config, bin)]
  <2>1. PICK hooks : result = [version |-> flag, settings |-> settings, hooks |-> hooks]
    BY <1>2
  <2> HIDE DEF result
  <2>2. QED BY <1>3, <2>1
<1>5. Merge(config, bin) \in Config
  <2>1. flag \/ cursor \in BOOLEAN
    OBVIOUS
  <2>2. QED BY <1>4, <2>1, MergedHooksAre, OfFields
<1>6. config = NotObject => flag = FALSE /\ settings = {}
  BY <1>2 DEF Blank
<1>7. config # NotObject => config.version = flag /\ config.settings = settings
  BY <1>2
<1>8. /\ Merge(config, bin).hooks = MergedHooks(config, bin)
      /\ Merge(config, bin).settings = settings
      /\ Merge(config, bin).version = (flag \/ cursor)
  BY <1>4
<1>9. CASE config = NotObject
  BY <1>5, <1>6, <1>8, <1>9
<1>10. CASE config # NotObject
  BY <1>5, <1>7, <1>8, <1>10
<1>11. QED BY <1>9, <1>10

LEMMA KeptHooksAre ==
    ASSUME NEW config \in Value
    PROVE  IsHooks(KeptHooks(config))
<1> DEFINE old == HooksObject(config)
           new == KeptHooks(config)
<1>1. IsHooks(old) /\ DOMAIN old \in SomeEvents /\ old \in HooksOf(DOMAIN old)
  BY ObjectHooks, Events
<1>2. KeptEvents(config) \in SomeEvents
  BY <1>1 DEF SomeEvents, KeptEvents
<1>3. ASSUME NEW event \in KeptEvents(config) PROVE new[event] \in {NotArray} \cup Seq(Group)
  <2>1. event \in DOMAIN old /\ old[event] \in {NotArray} \cup Seq(Group)
    BY <1>1 DEF KeptEvents, HooksOf
  <2>2. new[event] = IF old[event] = NotArray THEN NotArray ELSE Only(old[event], Theirs)
    BY DEF KeptHooks
  <2>3. QED BY <2>1, <2>2, TheirGroups
<1>4. new = [event \in KeptEvents(config) |-> new[event]]
  BY DEF KeptHooks
<1>5. new \in HooksOf(KeptEvents(config))
  <2> HIDE DEF new
  <2>1. QED BY <1>3, <1>4 DEF HooksOf
<1>6. QED BY <1>2, <1>5 DEF IsHooks

\* An object, with "hooks" that are one.
Hooked(config) == config # NotObject /\ config.hooks \notin {NoHooks, NotObject}

LEMMA RemoveIs ==
    ASSUME NEW config \in Value
    PROVE  /\ RemoveOurs(config) \in Value
           /\ ~Hooked(config) => RemoveOurs(config) = config
           /\ config # NotObject => /\ RemoveOurs(config) # NotObject
                                    /\ RemoveOurs(config).settings = config.settings
           /\ Hooked(config) => RemoveOurs(config).hooks \in {NoHooks, KeptHooks(config)}
           /\ Hooked(config) /\ RemoveOurs(config).hooks = NoHooks => KeptEvents(config) = {}
<1>1. CASE ~Hooked(config)
  BY <1>1 DEF RemoveOurs, Hooked
<1>2. CASE Hooked(config)
  <2>1. PICK hooks : /\ hooks \in {NoHooks, KeptHooks(config)}
                     /\ hooks = NoHooks => KeptEvents(config) = {}
                     /\ RemoveOurs(config) = [config EXCEPT !.hooks = hooks]
    <3> DEFINE hooks == IF KeptEvents(config) = {} /\ ~cursor THEN NoHooks ELSE KeptHooks(config)
    <3>1. RemoveOurs(config) = [config EXCEPT !.hooks = hooks]
      BY <1>2 DEF RemoveOurs, Hooked, KeptEvents, KeptHooks
    <3>2. hooks = NoHooks => KeptEvents(config) = {}
      BY KeptHooksAre, HooksAssumption
    <3>3. hooks \in {NoHooks, KeptHooks(config)}
      OBVIOUS
    <3> HIDE DEF hooks
    <3>4. QED BY <3>1, <3>2, <3>3
  <2>2. config \in Config /\ config # NotObject
    BY <1>2 DEF Value, Hooked
  <2>3. RemoveOurs(config) = [version |-> config.version, settings |-> config.settings,
                              hooks |-> hooks]
    BY <2>1, <2>2, Fields
  <2>4. RemoveOurs(config) \in Config
    BY <2>1, <2>2, <2>3, Fields, OfFields, KeptHooksAre
  <2>5. RemoveOurs(config).settings = config.settings /\ RemoveOurs(config).hooks = hooks
    BY <2>3
  <2>6. QED BY <1>2, <2>1, <2>4, <2>5, Whole DEF Value
<1>3. QED BY <1>1, <1>2

-----------------------------------------------------------------------------
(* What is not ours, and what is. *)

LEMMA OnlyEmpty == \A keep : Only(<< >>, keep) = << >>
<1> TAKE keep
<1>1. << >> \in Seq(Group) /\ \A n \in 1 .. Len(<< >>) : << >>[n] \notin keep
  OBVIOUS
<1>2. QED BY <1>1, OnlyNone

LEMMA TheirsStay ==
    ASSUME NEW list \in Seq(Group)
    PROVE  /\ Only(Only(list, Theirs), Theirs) = Only(list, Theirs)
           /\ Only(Only(list, Theirs), Ours) = << >>
           /\ \A n \in DOMAIN Only(list, Theirs) : ~IsOurs(Only(list, Theirs)[n])
<1> DEFINE kept == Only(list, Theirs)
<1>1. kept \in Seq(Theirs) /\ kept \in Seq(Group)
  BY TheirGroups
<1> HIDE DEF kept
<1>2. \A n \in 1 .. Len(kept) : kept[n] \in Theirs /\ kept[n] \notin Ours
  BY <1>1, Sides
<1>3. Only(kept, Theirs) = kept /\ Only(kept, Ours) = << >>
  BY <1>1, <1>2, OnlyAll, OnlyNone
<1>4. \A n \in DOMAIN kept : ~IsOurs(kept[n])
  BY <1>1, <1>2 DEF Theirs, Ours
<1>5. QED BY <1>3, <1>4 DEF kept

LEMMA OneOfOurs ==
    ASSUME NEW list \in Seq(Group), NEW bin \in Bin
    PROVE  /\ Only(Append(Only(list, Theirs), {bin}), Theirs) = Only(list, Theirs)
           /\ Only(Append(Only(list, Theirs), {bin}), Ours) = << {bin} >>
           /\ Append(Only(list, Theirs), {bin}) # NotArray
<1> DEFINE kept == Only(list, Theirs)
<1>1. kept \in Seq(Group) /\ Only(kept, Theirs) = kept /\ Only(kept, Ours) = << >>
  BY TheirGroups, TheirsStay
<1>2. {bin} \in Group /\ {bin} \in Ours /\ {bin} \notin Theirs
  BY Sides
<1> HIDE DEF kept
<1>3. /\ Only(Append(kept, {bin}), Theirs) = kept
      /\ Only(Append(kept, {bin}), Ours) = Append(<< >>, {bin})
  <2>1. \A keep : Only(Append(kept, {bin}), keep) =
                     IF {bin} \in keep THEN Append(Only(kept, keep), {bin}) ELSE Only(kept, keep)
    BY <1>1, <1>2, OnlyAppends
  <2>2. QED BY <1>1, <1>2, <2>1
<1>4. Append(kept, {bin}) # NotArray
  <2>1. Append(kept, {bin}) \in Seq(Group)
    BY <1>1, <1>2, AppendProperties
  <2>2. NotArray \notin Seq(Group)
    BY HooksAssumption
  <2>3. QED BY <2>1, <2>2
<1>5. Append(<< >>, {bin}) = << {bin} >>
  OBVIOUS
<1>6. QED BY <1>3, <1>4, <1>5 DEF kept

LEMMA MergedObject ==
    ASSUME NEW config \in Value, NEW bin \in Bin, cursor \in BOOLEAN
    PROVE  /\ HooksObject(Merge(config, bin)) = MergedHooks(config, bin)
           /\ Merge(config, bin) # NotObject
<1>1. MergedHooks(config, bin) \notin {NoHooks, NotObject}
  BY MergedHooksAre, HooksAssumption
<1>2. QED BY <1>1, MergeIs, Whole DEF HooksObject

\* The groups under an event after a merge.
LEMMA MergedGroups ==
    ASSUME NEW config \in Value, NEW bin \in Bin, NEW event
    PROVE  /\ event \in Event =>
                 Groups(MergedHooks(config, bin), event)
                    = Append(Only(Groups(HooksObject(config), event), Theirs), {bin})
           /\ event \notin Event =>
                 Groups(MergedHooks(config, bin), event) = Groups(HooksObject(config), event)
<1> DEFINE old == HooksObject(config)
           new == MergedHooks(config, bin)
<1>0. DOMAIN new = DOMAIN old \cup Event
  BY DEF MergedHooks
<1>1. CASE event \in Event
  <2>1. new[event] = Append(Only(Groups(old, event), Theirs), {bin})
    BY <1>1 DEF MergedHooks
  <2>2. new[event] # NotArray
    BY <2>1, ObjectHooks, GroupsAre, OneOfOurs
  <2>3. event \in DOMAIN new
    BY <1>0, <1>1
  <2>4. Groups(new, event) = new[event]
    BY <2>2, <2>3 DEF Groups
  <2> HIDE DEF new
  <2>5. QED BY <1>1, <2>1, <2>4 DEF new
<1>2. CASE event \notin Event
  <2>1. event \in DOMAIN old => new[event] = old[event]
    BY <1>2 DEF MergedHooks
  <2>2. event \in DOMAIN new <=> event \in DOMAIN old
    BY <1>0, <1>2
  <2> HIDE DEF new, old
  <2>3. Groups(new, event) = Groups(old, event)
    BY <2>1, <2>2 DEF Groups
  <2>4. QED BY <1>2, <2>3 DEF new, old
<1>3. QED BY <1>1, <1>2

\* A merge keeps what is not ours.
LEMMA MergeKeeps ==
    ASSUME NEW config \in Value, config # NotObject, NEW bin \in Bin, cursor \in BOOLEAN
    PROVE  NotOurs(Merge(config, bin)) = NotOurs(config)
<1> DEFINE old == HooksObject(config)
           new == MergedHooks(config, bin)
           merged == Merge(config, bin)
<1>1. HooksObject(merged) = new /\ merged.settings = config.settings
  BY MergedObject, MergeIs
<1>2. ASSUME NEW event \in Event \cup {OtherEvent}
      PROVE  Only(Groups(new, event), Theirs) = Only(Groups(old, event), Theirs)
  <2>1. Groups(old, event) \in Seq(Group)
    BY ObjectHooks, GroupsAre
  <2>2. QED BY <2>1, OneOfOurs, MergedGroups, ZenonT(40)
<1>3. /\ DOMAIN new \ Event = DOMAIN old \ Event
      /\ \A event \in DOMAIN old \ Event : new[event] = old[event]
  BY DEF MergedHooks
<1> HIDE DEF old, new, merged
<1>4. [event \in Event \cup {OtherEvent} |-> Only(Groups(new, event), Theirs)]
        = [event \in Event \cup {OtherEvent} |-> Only(Groups(old, event), Theirs)]
  BY <1>2
<1>5. {event \in DOMAIN new \ Event : new[event] = NotArray}
        = {event \in DOMAIN old \ Event : old[event] = NotArray}
  BY <1>3
<1>6. NotOurs(merged) = NotOurs(config)
  BY <1>1, <1>4, <1>5 DEF NotOurs, old
<1>7. QED BY <1>6 DEF merged

\* What a removal leaves: no group of ours, and the others where they were.
LEMMA KeptGroups ==
    ASSUME NEW config \in Value, NEW event
    PROVE  Groups(KeptHooks(config), event) = Only(Groups(HooksObject(config), event), Theirs)
<1> DEFINE old == HooksObject(config)
           new == KeptHooks(config)
<1>0. DOMAIN new = KeptEvents(config) /\ KeptEvents(config) \subseteq DOMAIN old
  BY DEF KeptHooks, KeptEvents
<1>1. CASE event \in KeptEvents(config)
  <2>1. new[event] = IF old[event] = NotArray THEN NotArray ELSE Only(old[event], Theirs)
    BY <1>1 DEF KeptHooks
  <2>2. CASE old[event] = NotArray
    <3>1. Groups(new, event) = << >> /\ Groups(old, event) = << >>
      BY <2>1, <2>2 DEF Groups
    <3> HIDE DEF new, old
    <3>2. QED BY <3>1, OnlyEmpty DEF new, old
  <2>3. CASE old[event] # NotArray
    <3>1. Groups(old, event) = old[event]
      BY <1>0, <1>1, <2>3 DEF Groups
    <3>2. Groups(old, event) \in Seq(Group)
      BY ObjectHooks, GroupsAre
    <3>3. new[event] \in Seq(Group)
      BY <2>1, <2>3, <3>1, <3>2, TheirGroups
    <3>4. new[event] # NotArray
      BY <3>3, HooksAssumption
    <3>5. Groups(new, event) = new[event]
      BY <1>0, <1>1, <3>4 DEF Groups
    <3> HIDE DEF new, old
    <3>6. QED BY <2>1, <2>3, <3>1, <3>5 DEF new, old
  <2>4. QED BY <2>2, <2>3
<1>2. CASE event \notin KeptEvents(config)
  <2>1. Groups(new, event) = << >>
    BY <1>0, <1>2 DEF Groups
  <2>2. Only(Groups(old, event), Theirs) = << >>
    <3>1. CASE event \in DOMAIN old
      BY <1>2, <3>1 DEF KeptEvents
    <3>2. CASE event \notin DOMAIN old
      <4>1. Groups(old, event) = << >>
        BY <3>2 DEF Groups
      <4> HIDE DEF old
      <4>2. QED BY <4>1, OnlyEmpty
    <3>3. QED BY <3>1, <3>2
  <2> HIDE DEF new, old
  <2>3. QED BY <2>1, <2>2 DEF new, old
<1>3. QED BY <1>1, <1>2

\* The same of the configuration it is in.
LEMMA RemovedGroups ==
    ASSUME NEW config \in Value, NEW event
    PROVE  Groups(HooksObject(RemoveOurs(config)), event)
              = Only(Groups(HooksObject(config), event), Theirs)
<1> DEFINE removed == RemoveOurs(config)
           old == HooksObject(config)
<1>1. CASE ~Hooked(config)
  <2>1. removed = config /\ old = << >>
    BY <1>1, RemoveIs DEF HooksObject, Hooked
  <2>2. Groups(<< >>, event) = << >>
    BY EmptyHooks DEF Groups
  <2> HIDE DEF removed, old
  <2>3. Groups(HooksObject(removed), event) = Only(Groups(old, event), Theirs)
    BY <2>1, <2>2, OnlyEmpty DEF old
  <2>4. QED BY <2>3 DEF removed, old
<1>2. CASE Hooked(config) /\ removed.hooks = NoHooks
  <2>1. HooksObject(removed) = << >> /\ KeptEvents(config) = {}
    BY <1>2, RemoveIs DEF HooksObject
  <2>2. Groups(<< >>, event) = << >>
    BY EmptyHooks DEF Groups
  <2>3. Groups(KeptHooks(config), event) = << >>
    BY <2>1 DEF Groups, KeptHooks
  <2> HIDE DEF removed
  <2>4. QED BY <2>1, <2>2, <2>3, KeptGroups DEF removed
<1>3. CASE Hooked(config) /\ removed.hooks # NoHooks
  <2>1. removed.hooks = KeptHooks(config) /\ removed # NotObject
    BY <1>3, RemoveIs DEF Hooked
  <2>2. KeptHooks(config) \notin {NoHooks, NotObject}
    BY KeptHooksAre, HooksAssumption
  <2>3. HooksObject(removed) = KeptHooks(config)
    BY <2>1, <2>2 DEF HooksObject
  <2> HIDE DEF removed
  <2>4. QED BY <2>3, KeptGroups DEF removed
<1>4. QED BY <1>1, <1>2, <1>3

\* A removal keeps what is not ours.
LEMMA RemoveKeeps ==
    ASSUME NEW config \in Value, config # NotObject
    PROVE  NotOurs(RemoveOurs(config)) = NotOurs(config)
<1> DEFINE removed == RemoveOurs(config)
           old == HooksObject(config)
           new == HooksObject(removed)
<1>1. removed.settings = config.settings /\ removed # NotObject
  BY RemoveIs
<1>2. ASSUME NEW event \in Event \cup {OtherEvent}
      PROVE  Only(Groups(new, event), Theirs) = Only(Groups(old, event), Theirs)
  <2>1. Groups(old, event) \in Seq(Group)
    BY ObjectHooks, GroupsAre
  <2>2. QED BY <2>1, TheirsStay, RemovedGroups
<1>3. {event \in DOMAIN new \ Event : new[event] = NotArray}
        = {event \in DOMAIN old \ Event : old[event] = NotArray}
  <2>1. CASE ~Hooked(config)
    BY <2>1, RemoveIs
  <2>2. CASE Hooked(config) /\ removed.hooks = NoHooks
    <3>1. new = << >> /\ KeptEvents(config) = {}
      BY <2>2, RemoveIs DEF HooksObject
    <3>2. \A event \in DOMAIN old : old[event] # NotArray
      BY <3>1 DEF KeptEvents
    <3>3. DOMAIN new = {}
      BY <3>1, EmptyHooks
    <3> HIDE DEF new, old
    <3>4. QED BY <3>2, <3>3
  <2>3. CASE Hooked(config) /\ removed.hooks # NoHooks
    <3>1. removed.hooks = KeptHooks(config)
      BY <2>3, RemoveIs DEF Hooked
    <3>2. KeptHooks(config) \notin {NoHooks, NotObject}
      BY KeptHooksAre, HooksAssumption
    <3>3. new = KeptHooks(config)
      BY <1>1, <3>1, <3>2 DEF HooksObject
    <3>4. DOMAIN new = KeptEvents(config) /\ KeptEvents(config) \subseteq DOMAIN old
      BY <3>3 DEF KeptHooks, KeptEvents
    <3>5. ASSUME NEW event \in KeptEvents(config)
          PROVE  new[event] = NotArray <=> old[event] = NotArray
      <4>1. new[event] = IF old[event] = NotArray THEN NotArray ELSE Only(old[event], Theirs)
        BY <3>3 DEF KeptHooks
      <4>2. old[event] \in {NotArray} \cup Seq(Group)
        BY <3>4, ObjectHooks, Events DEF HooksOf
      <4>3. old[event] # NotArray => Only(old[event], Theirs) \in Seq(Group)
        BY <4>2, TheirGroups
      <4> HIDE DEF new, old
      <4>4. QED BY <4>1, <4>3, HooksAssumption
    <3>6. \A event \in DOMAIN old : old[event] = NotArray => event \in KeptEvents(config)
      BY DEF KeptEvents
    <3> HIDE DEF new, old
    <3>7. QED BY <3>4, <3>5, <3>6
  <2>4. QED BY <2>1, <2>2, <2>3
<1> HIDE DEF old, new, removed
<1>4. [event \in Event \cup {OtherEvent} |-> Only(Groups(new, event), Theirs)]
        = [event \in Event \cup {OtherEvent} |-> Only(Groups(old, event), Theirs)]
  BY <1>2
<1>5. NotOurs(removed) = NotOurs(config)
  BY <1>1, <1>3, <1>4 DEF NotOurs, old, new
<1>6. QED BY <1>5 DEF removed

\* A removal leaves nothing of ours.
LEMMA RemoveTakesAll ==
    ASSUME NEW config \in Value
    PROVE  ~HasOurs(RemoveOurs(config))
<1> DEFINE new == HooksObject(RemoveOurs(config))
<1> SUFFICES ASSUME NEW event, NEW n \in DOMAIN Groups(new, event),
                    IsOurs(Groups(new, event)[n])
             PROVE  FALSE
  BY DEF HasOurs
<1>1. Groups(new, event) = Only(Groups(HooksObject(config), event), Theirs)
  BY RemovedGroups
<1>2. Groups(HooksObject(config), event) \in Seq(Group)
  BY ObjectHooks, GroupsAre
<1> HIDE DEF new
<1>3. QED BY <1>1, <1>2, TheirsStay

\* A merge leaves one group of ours under each event, and a second one changes
\* nothing.
LEMMA MergeLeavesOne ==
    ASSUME NEW config \in Value, NEW bin \in Bin, cursor \in BOOLEAN
    PROVE  \A event \in Event :
              Only(Groups(HooksObject(Merge(config, bin)), event), Ours) = << {bin} >>
<1> TAKE event \in Event
<1>1. Groups(HooksObject(config), event) \in Seq(Group)
  BY ObjectHooks, GroupsAre
<1>2. Groups(HooksObject(Merge(config, bin)), event)
         = Append(Only(Groups(HooksObject(config), event), Theirs), {bin})
  BY MergedObject, MergedGroups
<1>3. QED BY <1>1, <1>2, OneOfOurs

LEMMA MergeAgain ==
    ASSUME NEW config \in Value, NEW bin \in Bin, cursor \in BOOLEAN
    PROVE  Merge(Merge(config, bin), bin) = Merge(config, bin)
<1> DEFINE once == Merge(config, bin)
           twice == Merge(once, bin)
           hooks == MergedHooks(config, bin)
           again == MergedHooks(once, bin)
<1>1. once \in Config /\ once # NotObject /\ once \in Value /\ HooksObject(once) = hooks
  BY MergedObject, MergeIs DEF Value
<1>2. \A event \in Event : Only(Groups(hooks, event), Theirs)
                              = Only(Groups(HooksObject(config), event), Theirs)
  <2> TAKE event \in Event
  <2>1. Groups(HooksObject(config), event) \in Seq(Group)
    BY ObjectHooks, GroupsAre
  <2>2. Groups(hooks, event) = Append(Only(Groups(HooksObject(config), event), Theirs), {bin})
    BY MergedGroups
  <2> HIDE DEF hooks
  <2>3. QED BY <2>1, <2>2, OneOfOurs
<1>3. again = hooks
  <2>1. DOMAIN hooks = DOMAIN HooksObject(config) \cup Event
    BY DEF MergedHooks
  <2>2. again = [event \in DOMAIN hooks \cup Event |->
                    IF event \in Event
                    THEN Append(Only(Groups(hooks, event), Theirs), {bin})
                    ELSE hooks[event]]
    BY <1>1 DEF MergedHooks
  <2>3. ASSUME NEW event \in DOMAIN hooks
        PROVE  hooks[event] = IF event \in Event
                              THEN Append(Only(Groups(hooks, event), Theirs), {bin})
                              ELSE hooks[event]
    <3>1. event \in Event =>
             hooks[event] = Append(Only(Groups(HooksObject(config), event), Theirs), {bin})
      BY <2>1 DEF MergedHooks
    <3> HIDE DEF hooks
    <3>2. QED BY <1>2, <3>1
  <2>4. hooks = [event \in DOMAIN hooks |-> hooks[event]]
    BY DEF MergedHooks
  <2> HIDE DEF hooks, again, once
  <2>5. QED BY <2>1, <2>2, <2>3, <2>4
<1>4. twice \in Config /\ twice.hooks = again /\ twice.settings = once.settings
  BY <1>1, MergeIs
<1>5. once.hooks = hooks /\ once \in Config
  BY MergeIs
<1>6. twice.version = once.version
  <2>1. once.version = (IF config = NotObject THEN cursor ELSE config.version \/ cursor)
    BY MergeIs
  <2>2. twice.version = (once.version \/ cursor)
    BY <1>1, MergeIs
  <2>3. once.version \in BOOLEAN /\ (cursor => once.version)
    <3>1. once.version \in BOOLEAN
      BY <1>1, Fields
    <3>2. config # NotObject => config.version \in BOOLEAN
      BY Fields DEF Value
    <3> HIDE DEF once
    <3>3. QED BY <2>1, <3>1, <3>2
  <2> HIDE DEF once, twice
  <2>4. QED BY <2>2, <2>3
<1> HIDE DEF once, twice, hooks, again
<1>7. twice = once
  BY <1>3, <1>4, <1>5, <1>6, Fields
<1>8. QED BY <1>7 DEF once, twice

-----------------------------------------------------------------------------
(* Types. *)

\* There is always an inode for one more file.
LEMMA UnusedIsNew ==
    Unused \in Inode /\ Unused # config_file /\ Unused # tmp /\ \A p \in Process : Unused # fd[p]
<1> DEFINE fds == {fd[p] : p \in Process}
           used == {config_file, tmp} \cup fds
           N == Cardinality(Process)
<1>1. IsFiniteSet(fds) /\ Cardinality(fds) <= N
  <2> DEFINE f == [p \in Process |-> fd[p]]
  <2>1. f \in Surjection(Process, fds)
    BY DEF Surjection
  <2> HIDE DEF f, fds
  <2>2. QED BY <2>1, FS_Surjection, HooksAssumption
<1>2. N \in Nat /\ Cardinality(fds) \in Nat
  <2> HIDE DEF fds
  <2>1. QED BY <1>1, FS_CardinalityType, HooksAssumption
<1>3. IsFiniteSet(used) /\ Cardinality(used) <= N + 2
  <2> DEFINE more == fds \cup {config_file}
             all == more \cup {tmp}
  <2>1. used = all
    OBVIOUS
  <2> HIDE DEF fds, used, N
  <2>2. IsFiniteSet(more) /\ Cardinality(more) \in {Cardinality(fds), Cardinality(fds) + 1}
    BY <1>1, FS_AddElement
  <2> HIDE DEF more
  <2>3. IsFiniteSet(all) /\ Cardinality(all) \in {Cardinality(more), Cardinality(more) + 1}
    BY <2>2, FS_AddElement
  <2> HIDE DEF all
  <2>4. QED BY <1>1, <1>2, <2>1, <2>2, <2>3
<1>4. Cardinality(Inode) = N + 3
  <2>1. N + 3 \in Int /\ ~(1 > N + 3) /\ N + 3 - 1 + 1 = N + 3
    BY <1>2
  <2>2. QED BY <2>1, FS_Interval DEF Inode
<1>5. ~(Inode \subseteq used)
  <2> HIDE DEF used, N
  <2>1. Inode \subseteq used => Cardinality(Inode) <= Cardinality(used)
    BY <1>3, FS_Subset
  <2>2. Cardinality(used) \in Nat
    BY <1>3, FS_CardinalityType
  <2>3. QED BY <1>2, <1>3, <1>4, <2>1, <2>2
<1>6. Unused = CHOOSE n \in Inode : n \notin used
  BY DEF Unused
<1>7. Unused \in Inode /\ Unused \notin used
  <2> HIDE DEF used
  <2>1. QED BY <1>5, <1>6
<1>8. QED BY <1>7

LEMMA CurrentIs ==
    ASSUME HooksTypeOK
    PROVE  /\ Current \in Bytes
           /\ IsConfig(Current) <=> Current \in Value
           /\ IsConfig(Current) /\ Current # NotObject => Current \in Config
<1>1. Current \in Bytes
  BY Whole DEF HooksTypeOK, Current, Bytes, Value
<1>2. QED BY <1>1, Whole DEF Value

\* What the editor makes of an object is one.
LEMMA EditsAre ==
    ASSUME NEW config \in Config
    PROVE  /\ \A set \in SUBSET Setting : [config EXCEPT !.settings = set] \in Config
           /\ \A event \in Event \cup {OtherEvent}, cmd \in Foreign :
                 WithGroup(config, event, cmd) \in Config
<1>1. ASSUME NEW set \in SUBSET Setting PROVE [config EXCEPT !.settings = set] \in Config
  <2>1. [config EXCEPT !.settings = set]
          = [version |-> config.version, settings |-> set, hooks |-> config.hooks]
    BY Fields
  <2>2. QED BY <2>1, Fields, OfFields
<1>2. ASSUME NEW event \in Event \cup {OtherEvent}, NEW cmd \in Foreign
      PROVE  WithGroup(config, event, cmd) \in Config
  <2> DEFINE old == HooksObject(config)
             events == DOMAIN old \cup {event}
             new == [e \in events |-> IF e = event THEN Append(Groups(old, e), {cmd}) ELSE old[e]]
  <2>1. WithGroup(config, event, cmd) = [config EXCEPT !.hooks = new]
    BY DEF WithGroup
  <2>2. IsHooks(new)
    <3>1. IsHooks(old) /\ DOMAIN old \in SomeEvents /\ old \in HooksOf(DOMAIN old)
      BY ObjectHooks, Events DEF Value
    <3>2. events \in SomeEvents
      BY <3>1 DEF SomeEvents
    <3>3. Append(Groups(old, event), {cmd}) \in Seq(Group)
      <4>1. Groups(old, event) \in Seq(Group) /\ {cmd} \in Group
        BY <3>1, GroupsAre DEF Group
      <4> HIDE DEF old
      <4>2. QED BY <4>1, AppendProperties
    <3>4. \A e \in DOMAIN old : old[e] \in {NotArray} \cup Seq(Group)
      BY <3>1 DEF HooksOf
    <3> HIDE DEF old
    <3>5. new \in HooksOf(events)
      BY <3>3, <3>4 DEF HooksOf
    <3>6. QED BY <3>2, <3>5 DEF IsHooks
  <2> HIDE DEF new
  <2>3. [config EXCEPT !.hooks = new]
          = [version |-> config.version, settings |-> config.settings, hooks |-> new]
    BY Fields
  <2>4. QED BY <2>1, <2>2, <2>3, Fields, OfFields
<1>3. QED BY <1>1, <1>2

LEMMA TypesInit == HooksInit => HooksTypeOK
<1>1. ASSUME HooksInit PROVE HooksTypeOK
  <2>1. 1 \in Inode
    <3>1. Cardinality(Process) \in Nat
      BY FS_CardinalityType, HooksAssumption
    <3>2. QED BY <3>1 DEF Inode
  <2>2. Blank \in Value /\ Configs \subseteq Value /\ Value \subseteq Bytes /\ Empty \in Bytes
    BY Whole DEF Value, Bytes
  <2>3. config_file \in Inode \cup {NoInode} /\ content \in [Inode -> Bytes]
    BY <1>1, <2>1, <2>2 DEF HooksInit
  <2>4. QED BY <1>1, <2>2, <2>3 DEF HooksInit, HooksTypeOK, Places
<1>2. QED BY <1>1

LEMMA FinishTypes ==
    ASSUME HooksTypeOK, NEW p \in Process, NEW place \in Places, Finish(p, place)
    PROVE  /\ step' \in [Process -> Places] /\ verb' \in [Process -> Bin \cup {NoHooks}]
           /\ existing' \in [Process -> Value] /\ text' \in [Process -> Value]
BY Whole DEF HooksTypeOK, Finish, Value

LEMMA TypesNext ==
    ASSUME HooksTypeOK, HooksNext
    PROVE  HooksTypeOK'
<1> USE DEF HooksTypeOK
<1>1. ASSUME NEW p \in Process, NEW bin \in Bin, Install(p, bin) PROVE HooksTypeOK'
  <2>1. Current \in Value /\ Merge(Current, bin) \in Value
    BY <1>1, CurrentIs, MergeIs DEF Install, Value
  <2>2. QED BY <1>1, <2>1 DEF Install, Places
<1>2. ASSUME NEW p \in Process, Uninstall(p) PROVE HooksTypeOK'
  <2>1. Current \in Value /\ RemoveOurs(Current) \in Value
    BY <1>2, CurrentIs, RemoveIs DEF Uninstall
  <2>2. QED BY <1>2, <2>1 DEF Uninstall, Places
<1>3. ASSUME NEW p \in Process, OpenTmp(p) PROVE HooksTypeOK'
  <2>1. PICK inode \in Inode : tmp' = inode /\ fd' = [fd EXCEPT ![p] = inode]
                              /\ content' = [content EXCEPT ![inode] = Empty]
    BY <1>3, UnusedIsNew DEF OpenTmp
  <2>2. QED BY <1>3, <2>1 DEF OpenTmp, Places, Bytes
<1>4. ASSUME NEW p \in Process, NEW ok \in BOOLEAN, WriteTmp(p, ok) PROVE HooksTypeOK'
  <2>1. PICK bytes \in {text[p], content[fd[p]], TornBytes} :
           content' = [content EXCEPT ![fd[p]] = bytes]
    BY <1>4 DEF WriteTmp
  <2>2. content' \in [Inode -> Bytes]
    <3>1. text[p] \in Bytes /\ TornBytes \in Bytes
      BY DEF Bytes
    <3>2. fd[p] \in Inode => content[fd[p]] \in Bytes
      OBVIOUS
    <3>3. QED BY <2>1, <3>1, <3>2
  <2>3. QED BY <1>4, <2>2 DEF WriteTmp, Places
<1>5. ASSUME NEW p \in Process, NEW ok \in BOOLEAN, RenameTmp(p, ok) PROVE HooksTypeOK'
  <2>1. \E place \in Places : Finish(p, place)
    BY <1>5 DEF RenameTmp, Places
  <2>2. QED BY <1>5, <2>1, FinishTypes DEF RenameTmp
<1>6. ASSUME NEW p \in Process, CleanUp(p) PROVE HooksTypeOK'
  BY <1>6, FinishTypes DEF CleanUp, Places
<1>7. ASSUME NEW p \in Process, Die(p) PROVE HooksTypeOK'
  BY <1>7, FinishTypes DEF Die, Places
<1>8. CASE EditorSaves
  <2>1. PICK config \in Config : Save(config)
    BY <1>8, CurrentIs, EditsAre DEF EditorSaves
  <2>2. QED BY <2>1, UnusedIsNew DEF Save, Bytes, Value
<1>9. QED BY HooksNext, <1>1, <1>2, <1>3, <1>4, <1>5, <1>6, <1>7, <1>8 DEF HooksNext

\* The file holds a configuration, nothing, or something torn, whatever the
\* verbs and the editor do (config.rs, read_config, write_config).
THEOREM HooksTypes == HooksSpec => []HooksTypeOK
<1>1. HooksTypeOK /\ UNCHANGED hooks_vars => HooksTypeOK'
  BY DEF HooksTypeOK, hooks_vars
<1>2. QED BY TypesInit, TypesNext, <1>1, PTL DEF HooksSpec

-----------------------------------------------------------------------------
(* The invariant. *)

LEMMA InvInit == HooksInit => HooksInv
<1>1. ASSUME HooksInit PROVE HooksInv
  <2>1. /\ \A p \in Process : step[p] = "idle" /\ fd[p] = NoInode
        /\ tmp = NoInode
    BY <1>1 DEF HooksInit
  <2>2. config_file # NoInode => content[config_file] \in Value
    <3>1. 1 \in Inode
      <4>1. Cardinality(Process) \in Nat
        BY FS_CardinalityType, HooksAssumption
      <4>2. QED BY <4>1 DEF Inode
    <3>2. QED BY <1>1, <3>1, Whole DEF HooksInit
  <2>3. Inodes /\ Prepared
    BY <2>1 DEF Inodes, Prepared, Working
  <2>4. Alone
    BY <2>1, <2>2 DEF Alone, Holding
  <2>5. QED BY <2>3, <2>4 DEF HooksInv
<1>2. QED BY <1>1

LEMMA ResultStays ==
    ASSUME cursor' = cursor, NEW p
    PROVE  Result(p)' = ResultOf(existing'[p], verb'[p])
BY DEF Result, ResultOf, RemoveOurs, Merge, HooksObject, Groups

\* A verb that has read the file and knows what it is to write.
LEMMA ReadInv ==
    ASSUME HooksTypeOK, HooksInv, NEW p \in Process, step[p] = "idle",
           NEW json, NEW bin,
           /\ existing' = [existing EXCEPT ![p] = Current]
           /\ text' = [text EXCEPT ![p] = json] /\ verb' = [verb EXCEPT ![p] = bin]
           /\ step' = [step EXCEPT ![p] = "open"]
           /\ UNCHANGED <<cursor, config_file, tmp, content, fd, overlap>>,
           json = ResultOf(Current, bin),
           bin = NoHooks => Current # NotObject
    PROVE  HooksInv'
<1> DEFINE config == Current
<1>1. \A q \in Process : /\ step'[q] = IF q = p THEN "open" ELSE step[q]
                         /\ existing'[q] = IF q = p THEN config ELSE existing[q]
                         /\ text'[q] = IF q = p THEN json ELSE text[q]
                         /\ verb'[q] = IF q = p THEN bin ELSE verb[q]
  BY DEF HooksTypeOK
<1> HIDE DEF config
<1>2. Inodes'
  BY <1>1 DEF HooksInv, Inodes
<1>3. Prepared'
  <2> SUFFICES ASSUME NEW q \in Process, step'[q] \in Working
               PROVE  text'[q] = Result(q)' /\ (verb'[q] = NoHooks => existing'[q] # NotObject)
    BY DEF Prepared
  <2>1. Result(q)' = ResultOf(existing'[q], verb'[q])
    BY ResultStays
  <2>2. CASE q = p
    BY <1>1, <2>1, <2>2 DEF config
  <2>3. CASE q # p
    BY <1>1, <2>1, <2>3 DEF HooksInv, Prepared, Result
  <2>4. QED BY <2>2, <2>3
<1>4. overlap' \/ Alone'
  BY <1>1 DEF HooksInv, Alone, Holding
<1>5. QED BY <1>2, <1>3, <1>4 DEF HooksInv

\* A step of p that leaves what it, and every other process, is to write.
LEMMA PreparedStays ==
    ASSUME HooksTypeOK, HooksInv, cursor' = cursor,
           \A q \in Process : step'[q] \in Working =>
              /\ step[q] \in Working /\ text'[q] = text[q]
              /\ verb'[q] = verb[q] /\ existing'[q] = existing[q]
    PROVE  Prepared'
<1> SUFFICES ASSUME NEW q \in Process, step'[q] \in Working
             PROVE  text'[q] = Result(q)' /\ (verb'[q] = NoHooks => existing'[q] # NotObject)
  BY DEF Prepared
<1>1. Result(q)' = ResultOf(existing'[q], verb'[q])
  BY ResultStays
<1>2. QED BY <1>1 DEF HooksInv, Prepared, Result

LEMMA OpenTmpInv ==
    ASSUME HooksTypeOK, HooksInv, NEW p \in Process, OpenTmp(p)
    PROVE  HooksInv'
<1> USE DEF HooksTypeOK
<1>1. \A q \in Process : step'[q] = IF q = p THEN "write" ELSE step[q]
  BY DEF OpenTmp
<1>2. PICK inode \in Inode :
         /\ tmp' = inode /\ fd' = [fd EXCEPT ![p] = inode]
         /\ content' = [content EXCEPT ![inode] = Empty] /\ inode # config_file
         /\ tmp # NoInode => inode = tmp
  BY UnusedIsNew DEF OpenTmp, HooksInv, Inodes
<1>3. inode # NoInode /\ config_file' = config_file
  BY HooksAssumption DEF OpenTmp
<1>4. Inodes'
  BY <1>1, <1>2, <1>3 DEF HooksInv, Inodes
<1>5. Prepared'
  BY <1>1, PreparedStays DEF OpenTmp, Working
<1>6. ASSUME ~overlap' PROVE Alone'
  <2>1. ~overlap /\ Alone /\ \A q \in Process \ {p} : step[q] \notin Holding
    BY <1>6 DEF OpenTmp, HooksInv, Holding
  <2>2. \A q \in Process : step'[q] \in Holding => q = p
    BY <1>1, <2>1
  <2>3. config_file # NoInode => content'[config_file] \in Value
    BY <1>2, <2>1 DEF Alone
  <2>4. content'[inode] = Empty /\ fd'[p] = inode /\ step'[p] = "write"
    BY <1>1, <1>2
  <2>5. QED BY <1>2, <1>3, <2>2, <2>3, <2>4 DEF Alone, Holding
<1>7. QED BY <1>4, <1>5, <1>6 DEF HooksInv

LEMMA WriteTmpInv ==
    ASSUME HooksTypeOK, HooksInv, NEW p \in Process, NEW ok \in BOOLEAN, WriteTmp(p, ok)
    PROVE  HooksInv'
<1> USE DEF HooksTypeOK
<1>0. /\ fd[p] \in Inode /\ fd' = [fd EXCEPT ![p] = NoInode] /\ step[p] = "write"
      /\ UNCHANGED <<cursor, config_file, tmp, verb, existing, text, overlap>>
  BY DEF WriteTmp, HooksInv, Inodes
<1>1. \A q \in Process : step'[q] = IF q = p THEN IF ok THEN "rename" ELSE "clean_up"
                                    ELSE step[q]
  BY DEF WriteTmp
<1>2. \A q \in Process : fd'[q] = IF q = p THEN NoInode ELSE fd[q]
  BY <1>0
<1>3. PICK bytes : /\ content' = [content EXCEPT ![fd[p]] = bytes]
                   /\ ok /\ content[fd[p]] = Empty => bytes = text[p]
  BY DEF WriteTmp
<1>4. Inodes'
  BY <1>0, <1>1, <1>2 DEF HooksInv, Inodes
<1>5. Prepared'
  BY <1>0, <1>1, PreparedStays DEF Working
<1>6. ASSUME ~overlap' PROVE Alone'
  <2>1. /\ Alone /\ fd[p] # config_file /\ content[fd[p]] = Empty /\ tmp \in {NoInode, fd[p]}
        /\ \A q \in Process \ {p} : step[q] \notin Holding
    BY <1>0, <1>6 DEF HooksInv, Alone, Holding
  <2>2. \A q \in Process : step'[q] \in Holding => q = p /\ ok
    BY <1>1, <2>1 DEF Holding
  <2>3. config_file # NoInode => content'[config_file] \in Value
    BY <1>0, <1>3, <2>1 DEF Alone
  <2>4. ok => content'[fd[p]] = text[p]
    BY <1>0, <1>3, <2>1
  <2>5. \A q \in Process : step'[q] # "write"
    BY <1>1, <2>2 DEF Holding
  <2>6. QED BY <1>0, <2>1, <2>2, <2>3, <2>4, <2>5 DEF Alone, Holding
<1>7. QED BY <1>4, <1>5, <1>6 DEF HooksInv

\* The steps that end a verb, or its hold on the file.
LEMMA FinishTable ==
    ASSUME HooksTypeOK, NEW p \in Process, NEW place \in Places, Finish(p, place)
    PROVE  /\ \A q \in Process : step'[q] = IF q = p THEN place ELSE step[q]
           /\ \A q \in Process : q # p \/ place # "idle" =>
                 text'[q] = text[q] /\ verb'[q] = verb[q] /\ existing'[q] = existing[q]
BY DEF HooksTypeOK, Finish

LEMMA EndInv ==
    ASSUME HooksTypeOK, HooksInv, NEW p \in Process, NEW place \in {"idle", "clean_up"},
           Finish(p, place), UNCHANGED <<cursor, config_file, content, overlap>>,
           tmp' \in {tmp, NoInode}, fd' = [fd EXCEPT ![p] = NoInode]
    PROVE  HooksInv'
<1> USE DEF HooksTypeOK
<1>1. /\ \A q \in Process : step'[q] = IF q = p THEN place ELSE step[q]
      /\ \A q \in Process \ {p} :
            text'[q] = text[q] /\ verb'[q] = verb[q] /\ existing'[q] = existing[q]
  BY FinishTable DEF Places
<1>2. \A q \in Process : fd'[q] = IF q = p THEN NoInode ELSE fd[q]
  OBVIOUS
<1>3. Inodes'
  BY <1>1, <1>2 DEF HooksInv, Inodes
<1>4. Prepared'
  BY <1>1, PreparedStays DEF Working
<1>5. overlap \/ Alone'
  BY <1>1, <1>2 DEF HooksInv, Alone, Holding
<1>6. QED BY <1>3, <1>4, <1>5 DEF HooksInv

LEMMA RenameTmpInv ==
    ASSUME HooksTypeOK, HooksInv, NEW p \in Process, NEW ok \in BOOLEAN, RenameTmp(p, ok)
    PROVE  HooksInv'
<1> USE DEF HooksTypeOK
<1>0. /\ step[p] = "rename" /\ fd[p] = NoInode /\ fd' = fd /\ fd = [fd EXCEPT ![p] = NoInode]
      /\ UNCHANGED <<cursor, content, overlap>>
  BY DEF RenameTmp, HooksInv, Inodes
<1>1. CASE ~ok
  BY <1>0, <1>1, EndInv DEF RenameTmp
<1>2. CASE ok
  <2>0. config_file' = tmp /\ tmp # NoInode /\ tmp' = NoInode /\ Finish(p, "idle")
    BY <1>2 DEF RenameTmp
  <2>1. /\ \A q \in Process : step'[q] = IF q = p THEN "idle" ELSE step[q]
        /\ \A q \in Process \ {p} :
              text'[q] = text[q] /\ verb'[q] = verb[q] /\ existing'[q] = existing[q]
    BY <2>0, FinishTable DEF Places
  <2>2. Inodes'
    BY <1>0, <2>0, <2>1 DEF HooksInv, Inodes
  <2>3. Prepared'
    BY <1>0, <2>1, PreparedStays DEF Working
  <2>4. ASSUME ~overlap PROVE Alone'
    <3>1. content[tmp] \in Value /\ \A q \in Process \ {p} : step[q] \notin Holding
      BY <1>0, <2>0, <2>4 DEF HooksInv, Alone, Holding
    <3>2. \A q \in Process : step'[q] \notin Holding
      BY <2>1, <3>1 DEF Holding
    <3>3. QED BY <1>0, <2>0, <3>1, <3>2 DEF Alone, Holding
  <2>5. QED BY <1>0, <2>2, <2>3, <2>4 DEF HooksInv
<1>3. QED BY <1>1, <1>2

LEMMA SaveInv ==
    ASSUME HooksTypeOK, HooksInv, NEW config \in Config, Save(config)
    PROVE  HooksInv'
<1> USE DEF HooksTypeOK
<1>1. /\ config_file' = Unused /\ content' = [content EXCEPT ![Unused] = config]
      /\ UNCHANGED <<cursor, tmp, fd, step, verb, existing, text, overlap>>
  BY DEF Save
<1>2. Unused \in Inode /\ Unused # tmp /\ \A p \in Process : Unused # fd[p]
  BY UnusedIsNew
<1>3. Inodes'
  BY <1>1, <1>2 DEF HooksInv, Inodes
<1>4. Prepared'
  BY <1>1, PreparedStays
<1>5. ASSUME ~overlap PROVE Alone'
  <2>1. content'[Unused] \in Value
    BY <1>1, <1>2 DEF Value
  <2>2. \A n \in Inode : n # Unused => content'[n] = content[n]
    BY <1>1
  <2>3. \A p \in Process : step[p] = "write" => fd[p] \in Inode
    BY DEF HooksInv, Inodes
  <2>4. QED BY <1>1, <1>2, <1>5, <2>1, <2>2, <2>3 DEF HooksInv, Alone
<1>6. QED BY <1>1, <1>3, <1>4, <1>5 DEF HooksInv

LEMMA InvNext ==
    ASSUME HooksTypeOK, HooksInv, HooksNext
    PROVE  HooksInv'
<1>1. ASSUME NEW p \in Process, NEW bin \in Bin, Install(p, bin) PROVE HooksInv'
  <2>1. bin # NoHooks
    BY HooksAssumption
  <2>2. QED BY <1>1, <2>1, ReadInv DEF Install, ResultOf
<1>2. ASSUME NEW p \in Process, Uninstall(p) PROVE HooksInv'
  <2>1. Current # NotObject
    BY <1>2, EmptyHooks DEF Uninstall, HasOurs, HooksObject
  <2>2. QED BY <1>2, <2>1, ReadInv DEF Uninstall, ResultOf
<1>3. ASSUME NEW p \in Process, OpenTmp(p) PROVE HooksInv'
  BY <1>3, OpenTmpInv
<1>4. ASSUME NEW p \in Process, NEW ok \in BOOLEAN, WriteTmp(p, ok) PROVE HooksInv'
  BY <1>4, WriteTmpInv
<1>5. ASSUME NEW p \in Process, NEW ok \in BOOLEAN, RenameTmp(p, ok) PROVE HooksInv'
  BY <1>5, RenameTmpInv
<1>6. ASSUME NEW p \in Process, CleanUp(p) PROVE HooksInv'
  <2>1. fd' = [fd EXCEPT ![p] = NoInode]
    BY <1>6 DEF CleanUp, HooksInv, Inodes, HooksTypeOK
  <2>2. QED BY <1>6, <2>1, EndInv DEF CleanUp
<1>7. ASSUME NEW p \in Process, Die(p) PROVE HooksInv'
  BY <1>7, EndInv DEF Die
<1>8. CASE EditorSaves
  <2>1. PICK config \in Config : Save(config)
    BY <1>8, CurrentIs, EditsAre DEF EditorSaves
  <2>2. QED BY <2>1, SaveInv
<1>9. QED BY HooksNext, <1>1, <1>2, <1>3, <1>4, <1>5, <1>6, <1>7, <1>8 DEF HooksNext

LEMMA InvStutter == HooksTypeOK /\ HooksInv /\ UNCHANGED hooks_vars => HooksInv'
<1>1. ASSUME HooksTypeOK, HooksInv, UNCHANGED hooks_vars PROVE HooksInv'
  <2>1. Prepared'
    BY <1>1, PreparedStays DEF hooks_vars
  <2>2. Inodes' /\ (overlap' \/ Alone')
    BY <1>1 DEF hooks_vars, HooksInv, Inodes, Alone
  <2>3. QED BY <2>1, <2>2 DEF HooksInv
<1>2. QED BY <1>1

LEMMA HooksInvariant == HooksSpec => [](HooksTypeOK /\ HooksInv)
<1>1. HooksTypeOK /\ UNCHANGED hooks_vars => HooksTypeOK'
  BY DEF HooksTypeOK, hooks_vars
<1>2. QED BY TypesInit, TypesNext, InvInit, InvNext, InvStutter, <1>1, PTL DEF HooksSpec

\* The configuration file is whole, as long as no two verbs have the temporary
\* file in hand at once: what is renamed into place was written in one piece by
\* the verb that renames it, and nobody writes the file in place (write_config).
THEOREM FileIsWhole == HooksSpec => []ConfigWhole
<1>1. HooksTypeOK /\ HooksInv => ConfigWhole
  BY CurrentIs, Whole DEF ConfigWhole, HooksInv, Alone, Current, Value
<1>2. QED BY <1>1, HooksInvariant, PTL

-----------------------------------------------------------------------------
(* What a verb that finishes leaves. *)

LEMMA Renamed ==
    ASSUME HooksTypeOK, HooksInv, HooksNext, NEW p \in Process,
           step[p] = "rename", step'[p] = "idle", config_file' # config_file, ~overlap'
    PROVE  /\ Current' = ResultOf(existing[p], verb[p]) /\ existing[p] \in Value
           /\ verb[p] \in Bin \cup {NoHooks} /\ cursor \in BOOLEAN
           /\ verb[p] = NoHooks => existing[p] # NotObject
<1> USE DEF HooksTypeOK
<1>1. RenameTmp(p, TRUE)
  <2>1. ASSUME NEW q \in Process, \/ \E bin \in Bin : Install(q, bin)
                                  \/ Uninstall(q) \/ OpenTmp(q) \/ CleanUp(q) \/ Die(q)
                                  \/ \E ok \in BOOLEAN : WriteTmp(q, ok)
        PROVE  FALSE
    BY <2>1 DEF Install, Uninstall, OpenTmp, CleanUp, Die, WriteTmp
  <2>2. ~EditorSaves
    BY DEF EditorSaves, Save
  <2>3. PICK q \in Process, ok \in BOOLEAN : RenameTmp(q, ok)
    BY <2>1, <2>2 DEF HooksNext
  <2>4. ok
    BY <2>3 DEF RenameTmp
  <2>5. q = p
    BY <2>3, <2>4, FinishTable DEF RenameTmp, Places
  <2>6. QED BY <2>3, <2>4, <2>5
<1>2. config_file' = tmp /\ tmp # NoInode /\ content' = content /\ ~overlap
  BY <1>1 DEF RenameTmp
<1>3. content[tmp] = text[p] /\ text[p] = ResultOf(existing[p], verb[p])
      /\ (verb[p] = NoHooks => existing[p] # NotObject)
  BY <1>2 DEF HooksInv, Alone, Prepared, Result, Working
<1>4. QED BY <1>2, <1>3 DEF Current

\* A verb that finishes keeps the settings, the foreign groups of every event
\* and their order (merge, remove, over Vec::retain).
THEOREM KeepsTheirs == HooksSpec => ForeignKept
<1>1. ASSUME HooksTypeOK, HooksInv, HooksNext, NEW p \in Process,
             step[p] = "rename", step'[p] = "idle", config_file' # config_file, ~overlap',
             Current = existing[p], Current # NotObject
      PROVE  NotOurs(Current') = NotOurs(Current)
  <2>1. /\ Current' = ResultOf(existing[p], verb[p]) /\ existing[p] \in Value
        /\ verb[p] \in Bin \cup {NoHooks} /\ cursor \in BOOLEAN
    BY <1>1, Renamed
  <2>2. CASE verb[p] = NoHooks
    BY <1>1, <2>1, <2>2, RemoveKeeps DEF ResultOf
  <2>3. CASE verb[p] # NoHooks
    BY <1>1, <2>1, <2>3, MergeKeeps DEF ResultOf
  <2>4. QED BY <2>2, <2>3
<1>2. HooksTypeOK /\ HooksInv /\ [HooksNext]_hooks_vars
        => [\A p \in Process :
              /\ step[p] = "rename" /\ step'[p] = "idle" /\ config_file' # config_file /\ ~overlap'
              /\ Current = existing[p] /\ Current # NotObject
              => NotOurs(Current') = NotOurs(Current)]_hooks_vars
  BY <1>1
<1>3. QED BY <1>2, HooksInvariant, PTL DEF HooksSpec, ForeignKept

\* An install that finishes leaves one group of ours under each event, and
\* would change nothing a second time; an uninstall leaves none.
THEOREM TakesEffect == HooksSpec => VerbsTakeEffect
<1>1. ASSUME HooksTypeOK, HooksInv, HooksNext, NEW p \in Process,
             step[p] = "rename", step'[p] = "idle", config_file' # config_file, ~overlap'
      PROVE  IF verb[p] = NoHooks THEN ~HasOurs(Current')
             ELSE /\ Merge(Current', verb[p]) = Current'
                  /\ \A event \in Event :
                       Only(Groups(HooksObject(Current'), event), Ours) = << {verb[p]} >>
  <2>1. /\ Current' = ResultOf(existing[p], verb[p]) /\ existing[p] \in Value
        /\ verb[p] \in Bin \cup {NoHooks} /\ cursor \in BOOLEAN
    BY <1>1, Renamed
  <2>2. CASE verb[p] = NoHooks
    BY <2>1, <2>2, RemoveTakesAll DEF ResultOf
  <2>3. CASE verb[p] # NoHooks
    BY <2>1, <2>3, MergeAgain, MergeLeavesOne DEF ResultOf
  <2>4. QED BY <2>2, <2>3
<1>2. HooksTypeOK /\ HooksInv /\ [HooksNext]_hooks_vars
        => [\A p \in Process :
              /\ step[p] = "rename" /\ step'[p] = "idle" /\ config_file' # config_file /\ ~overlap'
              => IF verb[p] = NoHooks THEN ~HasOurs(Current')
                 ELSE /\ Merge(Current', verb[p]) = Current'
                      /\ \A event \in Event :
                           Only(Groups(HooksObject(Current'), event), Ours)
                               = << {verb[p]} >>]_hooks_vars
  BY <1>1
<1>3. QED BY <1>2, HooksInvariant, PTL DEF HooksSpec, VerbsTakeEffect
=============================================================================
