---------------------------- MODULE MCIndexSync ----------------------------
(* Small instances of IndexSync and of Surfaces for TLC: the sessions behind *)
(* the three surfaces, and the calls their clients make.  They share no      *)
(* state, so that a behaviour is of one or of the other.                     *)
EXTENDS IndexSync, Surfaces

CONSTANTS root, deep
SomeCalls == {<< <<deep>>, FALSE >>, << <<root, deep>>, TRUE >>}

\* A call with the arguments of `given`, and nothing else.
With(op, given) ==
    <<op, [name \in DOMAIN (CHOOSE a \in Args[op] : TRUE) |->
             IF name \in DOMAIN given THEN given[name] ELSE None]>>
SomeShared ==
    {With("add", [object |-> "db"]),
     With("add", [object |-> "db", to |-> "a day"]),
     With("invalidate", [object |-> "db"]),
     With("invalidate", [object |-> "db", at |-> "no time"]),
     With("supersede", [object |-> "db", new |-> "orm"]),
     With("supersede", [object |-> "orm", new |-> "db", at |-> "a day"]),
     With("ingest", [contents |-> 1]),
     With("set_scope", [id |-> "known", scope |-> "team"]),
     With("set_scope", [id |-> "known"])}

VARIABLE part
both_vars == <<sync_vars, surface_vars, part>>

BothInit ==
    \/ /\ part = "sessions" /\ SyncInit
       /\ SurfacesInit /\ ~read_only["cli"] /\ ~alone
    \/ /\ part = "calls" /\ SurfacesInit
       /\ SyncInit /\ ~old_schema /\ ~tantivy /\ ~vectors

BothNext ==
    \/ part = "sessions" /\ SyncNext /\ UNCHANGED <<surface_vars, part>>
    \/ part = "calls" /\ SurfacesNext /\ UNCHANGED <<sync_vars, part>>

SessionsAndCalls ==
    /\ BothInit /\ [][BothNext]_both_vars
    /\ \A s \in Session : WF_sync_vars(SessionStep(s)) /\ WF_sync_vars(ReindexStep(s))
=============================================================================
