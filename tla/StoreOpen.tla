----------------------------- MODULE StoreOpen -----------------------------
(***************************************************************************)
(* Store::open: processes that create, migrate and open one store file at   *)
(* the same time, with store.rs and schema.rs step by step.  Only one       *)
(* connection at a time holds SQLite's write lock, and what it writes       *)
(* becomes visible as a whole at its commit.                                *)
(***************************************************************************)
EXTENDS Integers

CONSTANTS
    Opener,
    FORMAT_VERSION,
    ATTEMPTS,       \* of the switch to WAL
    Nothing,        \* "no such row", and "nobody"
    UnknownVersion  \* a format version this program does not know

ASSUME OpenAssumption ==
    /\ FORMAT_VERSION \in Nat \ {0} /\ ATTEMPTS \in Nat \ {0}
    /\ Nothing \notin Opener /\ Nothing \notin Nat
    /\ UnknownVersion \notin Nat /\ Nothing # UnknownVersion

FormatVersion == (1 .. FORMAT_VERSION) \cup {Nothing, UnknownVersion}

VARIABLES
    store_exists, wal,  \* the file, and whether its header says WAL
    version,        \* the meta row format_version
    parts,          \* the schema: {1} is version 1, n what step n - 1 to n adds
    write_lock,     \* the process whose connection holds the write lock
    at_step, read_only,
    switches,       \* failed WAL switches of the running call
    seen            \* the version the last read of a call returned

open_vars == <<store_exists, wal, version, parts, write_lock, at_step, read_only,
               switches, seen>>

Parts(v) == IF v \in Nat THEN 1 .. v ELSE {}

OpenTypeOK ==
    /\ store_exists \in BOOLEAN /\ wal \in BOOLEAN /\ version \in FormatVersion
    /\ parts \subseteq 1 .. FORMAT_VERSION
    /\ write_lock \in Opener \cup {Nothing}
    /\ at_step \in [Opener -> {"idle", "pragma", "retry", "read", "dispatch", "begin",
                           "recheck", "ddl", "open"}]
    /\ read_only \in [Opener -> BOOLEAN]
    /\ switches \in [Opener -> 0 .. ATTEMPTS]
    /\ seen \in [Opener -> FormatVersion]

\* A file of any version, or none.
OpenInit ==
    /\ store_exists \in BOOLEAN /\ wal \in BOOLEAN /\ version \in FormatVersion
    /\ ~store_exists => (~wal /\ version = Nothing)
    /\ parts = Parts(version) /\ write_lock = Nothing
    /\ at_step = [p \in Opener |-> "idle"] /\ read_only = [p \in Opener |-> FALSE]
    /\ switches = [p \in Opener |-> 0] /\ seen = [p \in Opener |-> Nothing]

Proceed(p, label) == at_step' = [at_step EXCEPT ![p] = label]

\* The call returns or the process ends: SQLite drops what it had open.
Leave(p, label) ==
    /\ Proceed(p, label)
    /\ switches' = [switches EXCEPT ![p] = 0] /\ seen' = [seen EXCEPT ![p] = Nothing]
    /\ read_only' = [read_only EXCEPT ![p] = @ /\ label = "open"]
    /\ write_lock' = IF write_lock = p THEN Nothing ELSE write_lock

(***************************************************************************)
(* open_inner.                                                             *)
(***************************************************************************)
\* A read-only call does not create the file; any other does, still empty.
OpenStore(p, ro) ==
    /\ at_step[p] = "idle" /\ (ro => store_exists)
    /\ store_exists' = TRUE
    /\ read_only' = [read_only EXCEPT ![p] = ro]
    /\ Proceed(p, IF ro THEN "read" ELSE "pragma")
    /\ UNCHANGED <<wal, version, parts, write_lock, switches, seen>>

\* The switch needs the file to itself, and does not wait for it.
InUse(p) == \E q \in Opener \ {p} : at_step[q] \in {"pragma", "retry", "read", "open"}

SwitchToWal(p) ==
    /\ at_step[p] = "pragma" /\ wal' = TRUE /\ Proceed(p, "read")
    /\ UNCHANGED <<store_exists, version, parts, write_lock, read_only, switches, seen>>

SwitchBusy(p) ==
    /\ at_step[p] = "pragma" /\ ~wal /\ InUse(p) /\ Proceed(p, "retry")
    /\ UNCHANGED <<store_exists, wal, version, parts, write_lock, read_only, switches, seen>>

\* Mutant of SwitchRetry: the attempts are not counted.
SwitchRetryForever(p) ==
    /\ at_step[p] = "retry" /\ Proceed(p, IF wal THEN "read" ELSE "pragma")
    /\ UNCHANGED <<store_exists, wal, version, parts, write_lock, read_only, switches, seen>>

\* Mutant of SwitchRetry: one attempt too many.
SwitchRetryLate(p) ==
    /\ at_step[p] = "retry" /\ ~wal
    /\ switches' = [switches EXCEPT ![p] = @ + 1] /\ Proceed(p, "pragma")
    /\ UNCHANGED <<store_exists, wal, version, parts, write_lock, read_only, seen>>

\* "Already wal" is success; otherwise sleep and try again.
SwitchRetry(p) ==
    /\ at_step[p] = "retry"
    /\ \/ wal /\ Proceed(p, "read") /\ UNCHANGED switches
       \/ /\ ~wal /\ switches[p] + 1 < ATTEMPTS
          /\ switches' = [switches EXCEPT ![p] = @ + 1] /\ Proceed(p, "pragma")
    /\ UNCHANGED <<store_exists, wal, version, parts, write_lock, read_only, seen>>

SwitchFailed(p) ==
    /\ at_step[p] = "retry" /\ ~wal /\ switches[p] + 1 = ATTEMPTS /\ Leave(p, "idle")
    /\ UNCHANGED <<store_exists, wal, version, parts>>

ReadFormatVersion(p) ==
    /\ at_step[p] = "read" /\ seen' = [seen EXCEPT ![p] = version] /\ Proceed(p, "dispatch")
    /\ UNCHANGED <<store_exists, wal, version, parts, write_lock, read_only, switches>>

\* Mutant of Opened: an older format will do for reading.
OpenedOld(p) ==
    /\ at_step[p] = "dispatch"
    /\ \/ seen[p] = FORMAT_VERSION
       \/ read_only[p] /\ seen[p] \in Nat
    /\ Leave(p, "open")
    /\ UNCHANGED <<store_exists, wal, version, parts>>

Opened(p) ==
    /\ at_step[p] = "dispatch" /\ seen[p] = FORMAT_VERSION /\ Leave(p, "open")
    /\ UNCHANGED <<store_exists, wal, version, parts>>

\* UnsupportedFormatVersion, or Migration for a read-only store.
Refuse(p) ==
    /\ at_step[p] = "dispatch"
    /\ \/ seen[p] = UnknownVersion
       \/ read_only[p] /\ seen[p] # FORMAT_VERSION
    /\ Leave(p, "idle")
    /\ UNCHANGED <<store_exists, wal, version, parts>>

Upgrade(p) ==
    /\ at_step[p] = "dispatch" /\ ~read_only[p] /\ seen[p] \notin {UnknownVersion, FORMAT_VERSION}
    /\ Proceed(p, "begin")
    /\ UNCHANGED <<store_exists, wal, version, parts, write_lock, read_only, switches, seen>>

(***************************************************************************)
(* apply_current, when seen is Nothing, and run_migration from seen otherwise. *)
(***************************************************************************)
BeginImmediate(p) ==
    /\ at_step[p] = "begin" /\ write_lock = Nothing /\ write_lock' = p /\ Proceed(p, "recheck")
    /\ UNCHANGED <<store_exists, wal, version, parts, read_only, switches, seen>>

\* The version the next call of the match starts from.
After(v) == IF v = Nothing THEN FORMAT_VERSION ELSE v + 1

\* The lock is released: the next step, or open_inner returns.
NextStep(p) ==
    /\ seen' = [seen EXCEPT ![p] = After(@)] /\ write_lock' = Nothing
    /\ Proceed(p, IF After(seen[p]) = FORMAT_VERSION THEN "dispatch" ELSE "begin")
    /\ UNCHANGED <<switches, read_only>>

\* Mutant of Recheck: the version is not read again under the lock.
RecheckSkipped(p) ==
    /\ at_step[p] = "recheck" /\ Proceed(p, "ddl")
    /\ UNCHANGED <<store_exists, wal, version, parts, write_lock, read_only, switches, seen>>

\* Another process was faster: roll back.
Recheck(p) ==
    /\ at_step[p] = "recheck"
    /\ IF version = seen[p]
       THEN Proceed(p, "ddl") /\ UNCHANGED <<write_lock, read_only, switches, seen>>
       ELSE NextStep(p)
    /\ UNCHANGED <<store_exists, wal, version, parts>>

\* The parts a script adds, and the ones it finds there.
Adds(v) == IF v = Nothing THEN 1 .. FORMAT_VERSION ELSE {v + 1}
Conflicts(v) == Adds(v) \cap parts # {} \/ (v # Nothing /\ v \notin parts)

\* Mutant of Apply: the scripts run outside the transaction of the meta row.
ApplyFirst(p) ==
    /\ at_step[p] = "ddl" /\ ~Conflicts(seen[p])
    /\ parts' = parts \cup Adds(seen[p])
    /\ \/ version' = After(seen[p])
       \/ UNCHANGED version
    /\ NextStep(p) /\ UNCHANGED <<store_exists, wal>>

\* The scripts, the meta row and COMMIT.
Apply(p) ==
    /\ at_step[p] = "ddl" /\ ~Conflicts(seen[p])
    /\ parts' = parts \cup Adds(seen[p])
    /\ version' = After(seen[p])
    /\ NextStep(p) /\ UNCHANGED <<store_exists, wal>>

\* A statement fails, on the way or because BEGIN waited busy_timeout: the
\* transaction rolls back and the call returns the error.
Fails(p) ==
    /\ \/ at_step[p] \in {"pragma", "read", "recheck", "ddl"}
       \/ at_step[p] = "begin" /\ write_lock # Nothing
    /\ Leave(p, "idle") /\ UNCHANGED <<store_exists, wal, version, parts>>

\* The store is dropped, or its process dies, in a call or between calls.
Exit(p) ==
    /\ at_step[p] # "idle" /\ Leave(p, "idle") /\ UNCHANGED <<store_exists, wal, version, parts>>

OpenStep(p) ==
    \/ SwitchToWal(p) \/ SwitchBusy(p) \/ SwitchRetry(p) \/ SwitchFailed(p)
    \/ ReadFormatVersion(p) \/ Opened(p) \/ Refuse(p) \/ Upgrade(p)
    \/ BeginImmediate(p) \/ Recheck(p) \/ Apply(p) \/ Fails(p)

OpenNext ==
    \E p \in Opener :
        OpenStep(p) \/ Exit(p) \/ (\E ro \in BOOLEAN : OpenStore(p, ro))

OpenSpec == OpenInit /\ [][OpenNext]_open_vars

\* A call that runs goes on; BEGIN gives up after busy_timeout.
FairOpenSpec == OpenSpec /\ \A p \in Opener : WF_open_vars(OpenStep(p))

(***************************************************************************)
(* Properties.                                                             *)
(***************************************************************************)
\* The version row never says more or less than the tables that are there,
\* whichever processes bootstrap, migrate, fail and die in between
\* (run_migration and apply_current commit the script and the row together).
SchemaMatchesVersion == parts = Parts(version)

\* No script meets tables another process has made since the version was
\* first read: opening never fails with "table already store_exists"
\* (the second read_format_version, under the write lock).
NoConflict ==
    \A p \in Opener : at_step[p] = "ddl" => ~Conflicts(seen[p])

\* Every call of Store::open returns: the WAL switch is tried a bounded number
\* of times, and the wait for the write lock times out.
OpensReturn ==
    \A p \in Opener : at_step[p] # "idle" ~> at_step[p] \in {"idle", "open"}

Format == INSTANCE StoreFormat
    WITH Current <- FORMAT_VERSION, format <- version, Process <- Opener,
         None <- Nothing, Foreign <- UnknownVersion,
         opened <- {p \in Opener : at_step[p] = "open"}

\* The format of the file moves forward one whole format at a time, and every
\* open store, read-only ones included, has the current format.
MovesForward == Format!Spec
=============================================================================
