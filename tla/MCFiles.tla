------------------------------- MODULE MCFiles -------------------------------
(***************************************************************************)
(* Five protocols that share nothing, side by side: the journal file,        *)
(* removals from a vector index, the opening of a store, the configuration   *)
(* of an editor, and the reads behind a prompt.  Each behaviour runs one of  *)
(* them; the others stay in a first state of theirs.                        *)
(***************************************************************************)
EXTENDS VectorRemove, JournalFile, StoreOpen, HooksConfig, Retrieval, TLC

CONSTANTS i1, i2, old_bin, new_bin, lint, start, stop, other

NoLegacy == {}

Object(hooks) == [version |-> FALSE, settings |-> Setting, hooks |-> hooks]
\* A foreign hook and an empty array; an old install with a copy under another
\* event and an odd value; an odd "hooks"; no object at all.
SomeConfigs ==
    {Object(start :> << {lint} >> @@ stop :> << >>),
     Object(start :> << {old_bin}, {lint} >> @@ stop :> NotArray @@ other :> << {old_bin} >>),
     Object(NotObject), NotObject}

Project == <<"project">>
Files == <<"project", "files">>
Within(path) == [path |-> path, exact |-> FALSE]
Exactly(path) == [path |-> path, exact |-> TRUE]
SomeRows == {<<Files, Project>>}
SomePaths == {Project, Files, << >>}
SomeFilters == {Within(Project), Exactly(Project)}
\* wakeup --scope twice, with scopes that overlap; ScopeSet::for_project.
SomeScopeSets == {<<Within(Project), Within(Files)>>, <<Exactly(Project), Within(Files)>>}
SomeBytes == <<2, 1, 1>>

VARIABLE part

FilesInit ==
    /\ part \in {"journal", "remove", "open", "hooks", "read"}
    /\ Init /\ JournalInit
    /\ IF part = "open" THEN OpenInit
       ELSE OpenInit /\ ~store_exists
    /\ IF part = "hooks" THEN HooksInit
       ELSE HooksInit /\ config_file = NoInode /\ cursor
    /\ IF part = "read" THEN RetrievalInit
       ELSE RetrievalInit /\ <<1, Project>> \in documents

FilesNext ==
    /\ UNCHANGED part
    /\ \/ part = "remove" /\ RemoveNext
          /\ UNCHANGED <<journal_vars, open_vars, hooks_vars, retrieval_vars>>
       \/ part = "journal" /\ JournalNext
          /\ UNCHANGED <<vars, open_vars, hooks_vars, retrieval_vars>>
       \/ part = "open" /\ OpenNext
          /\ UNCHANGED <<vars, journal_vars, hooks_vars, retrieval_vars>>
       \/ part = "hooks" /\ HooksNext
          /\ UNCHANGED <<vars, journal_vars, open_vars, retrieval_vars>>
       \/ part = "read" /\ RetrievalNext
          /\ UNCHANGED <<vars, journal_vars, open_vars, hooks_vars>>

FilesSpec ==
    /\ FilesInit /\ [][FilesNext]_<<part, vars, journal_vars, open_vars, hooks_vars, retrieval_vars>>
    /\ \A p \in Opener : WF_open_vars(OpenStep(p))
=============================================================================
