---------------------------- MODULE HooksConfig ----------------------------
(***************************************************************************)
(* An editor's configuration file and the verbs that change our entries in  *)
(* it: `hooks install` and `hooks uninstall` read the file, merge or remove  *)
(* (module config.rs) and write <path>.tmp, which is renamed into place.     *)
(* Nothing is locked: other verbs and the editor itself write the file too,  *)
(* and every verb uses the same temporary name.                             *)
(*                                                                         *)
(* A hook group is the set of its commands; a command of ours is the binary  *)
(* it runs.  A file is its inode, so that a descriptor opened before a       *)
(* rename still writes the file after it.                                   *)
(***************************************************************************)
EXTENDS Lists, FiniteSets

CONSTANTS
    Process,            \* processes that run a verb
    Bin, Foreign,       \* our commands, by binary, and everybody else's
    Event, OtherEvent,  \* the events we hook for this editor, and another one
    Setting,            \* the other keys of the configuration
    NoHooks,            \* there is no "hooks" key
    NotObject,          \* JSON, but not an object
    NotArray,           \* the value of an event that is not an array
    Empty, TornBytes,   \* no bytes; bytes that are not JSON
    NoInode,
    Configs,            \* what a user may have put in the file
    MaxVerbs, MaxEdits  \* bounds

Inode == 1 .. Cardinality(Process) + 3

\* A hook group; the "hooks" object with these events; a configuration.
Group == SUBSET (Bin \cup Foreign)
HooksOf(events) == [events -> {NotArray} \cup Seq(Group)]
SomeEvents == SUBSET (Event \cup {OtherEvent})
IsHooks(json) == \E events \in SomeEvents : json \in HooksOf(events)
IsObject(json) ==
    \E events \in SomeEvents :
        json \in [version : BOOLEAN, settings : SUBSET Setting,
                 hooks : {NoHooks, NotObject} \cup HooksOf(events)]

ASSUME HooksAssumption ==
    /\ Bin \cap Foreign = {} /\ OtherEvent \notin Event
    /\ IsFiniteSet(Process) /\ NoInode \notin Inode
    /\ NoHooks \notin Bin /\ ~IsHooks(NoHooks) /\ ~IsHooks(NotObject)
    /\ NotArray \notin Seq(Group)
    /\ \A bytes \in {Empty, TornBytes} : ~IsObject(bytes) /\ bytes # NotObject
    /\ ~IsObject(NotObject) /\ \A config \in Configs : IsObject(config) \/ config = NotObject
    /\ MaxVerbs \in Nat /\ MaxEdits \in Nat

VARIABLES
    cursor,     \* is the editor Cursor?
    config_file,    \* the inode of the configuration file, NoInode when it is missing
    tmp,        \* the inode <path>.tmp names
    content,    \* what an inode holds
    fd,         \* the inode a process has open
    step,       \* where a process is
    verb,       \* the binary it installs, NoHooks for an uninstall
    existing,   \* what it read
    text,       \* what it is to write
    verbs, edits,   \* bounds
    overlap     \* history: two verbs had the temporary file in hand at once

hooks_vars == <<cursor, config_file, tmp, content, fd, step, verb, existing, text, verbs,
                edits, overlap>>

(***************************************************************************)
(* merge, remove and has_ours.                                             *)
(***************************************************************************)
Blank == [version |-> FALSE, settings |-> {}, hooks |-> NoHooks]

IsOurs(group) == group \cap Bin # {}
Ours == {group \in Group : IsOurs(group)}
Theirs == Group \ Ours
Groups(hooks, event) ==
    IF event \in DOMAIN hooks /\ hooks[event] # NotArray THEN hooks[event] ELSE << >>
HooksObject(config) ==
    IF config = NotObject \/ config.hooks \in {NoHooks, NotObject} THEN << >>
    ELSE config.hooks

\* Mutant of Merge: our previous entries stay.
MergeKeepsOurs(config, bin) ==
    LET result == IF config = NotObject THEN Blank ELSE config
        old == HooksObject(config)
    IN [result EXCEPT
          !.version = @ \/ cursor,
          !.hooks = [event \in DOMAIN old \cup Event |->
                       IF event \in Event
                       THEN Append(Groups(old, event), {bin})
                       ELSE old[event]]]

\* What is not an object is replaced; of an event of ours, the foreign groups
\* stay, in their order, and our group comes last.
Merge(config, bin) ==
    LET result == IF config = NotObject THEN Blank ELSE config
        old == HooksObject(config)
    IN [result EXCEPT
          !.version = @ \/ cursor,
          !.hooks = [event \in DOMAIN old \cup Event |->
                       IF event \in Event
                       THEN Append(Only(Groups(old, event), Theirs), {bin})
                       ELSE old[event]]]

\* Mutant of RemoveOurs: an event with a group of ours goes as a whole.
RemoveEvents(config) ==
    LET old == HooksObject(config)
        kept == {event \in DOMAIN old :
                   \A n \in DOMAIN Groups(old, event) : ~IsOurs(Groups(old, event)[n])}
    IN IF config = NotObject \/ config.hooks \in {NoHooks, NotObject} THEN config
       ELSE [config EXCEPT !.hooks = IF kept = {} /\ ~cursor THEN NoHooks
                                     ELSE [event \in kept |-> old[event]]]

\* Our groups go from every event, and with them every event left, or found,
\* with an empty array; Cursor keeps an empty "hooks".
RemoveOurs(config) ==
    LET old == HooksObject(config)
        kept == {event \in DOMAIN old :
                   old[event] = NotArray \/ Only(Groups(old, event), Theirs) # << >>}
    IN IF config = NotObject \/ config.hooks \in {NoHooks, NotObject} THEN config
       ELSE [config EXCEPT
               !.hooks = IF kept = {} /\ ~cursor THEN NoHooks
                         ELSE [event \in kept |->
                                 IF old[event] = NotArray THEN NotArray
                                 ELSE Only(old[event], Theirs)]]

HasOurs(config) ==
    \E event \in DOMAIN HooksObject(config) :
        \E n \in DOMAIN Groups(HooksObject(config), event) :
            IsOurs(Groups(HooksObject(config), event)[n])

(***************************************************************************)
(* The verbs.                                                              *)
(***************************************************************************)
Current == IF config_file = NoInode THEN Blank ELSE content[config_file]
IsConfig(bytes) == bytes \notin {Empty, TornBytes}
Unused == CHOOSE n \in Inode : n \notin {config_file, tmp} \cup {fd[p] : p \in Process}

HooksInit ==
    /\ cursor \in BOOLEAN /\ tmp = NoInode
    /\ \/ config_file = NoInode /\ content = [n \in Inode |-> Empty]
       \/ /\ config_file = 1
          /\ \E config \in Configs : content = [n \in Inode |-> IF n = 1 THEN config ELSE Empty]
    /\ fd = [p \in Process |-> NoInode]
    /\ step = [p \in Process |-> "idle"] /\ verb = [p \in Process |-> NoHooks]
    /\ existing = [p \in Process |-> Blank] /\ text = [p \in Process |-> Blank]
    /\ verbs = 0 /\ edits = 0 /\ overlap = FALSE

\* read_config and merge.  A file that is not JSON fails the verb.
Install(p, bin) ==
    /\ step[p] = "idle" /\ verbs < MaxVerbs /\ verbs' = verbs + 1
    /\ IsConfig(Current)
    /\ existing' = [existing EXCEPT ![p] = Current]
    /\ text' = [text EXCEPT ![p] = Merge(Current, bin)]
    /\ verb' = [verb EXCEPT ![p] = bin] /\ step' = [step EXCEPT ![p] = "open"]
    /\ UNCHANGED <<cursor, config_file, tmp, content, fd, edits, overlap>>

\* Only a file with something of ours in it is written.
Uninstall(p) ==
    /\ step[p] = "idle" /\ verbs < MaxVerbs /\ verbs' = verbs + 1
    /\ IsConfig(Current) /\ HasOurs(Current)
    /\ existing' = [existing EXCEPT ![p] = Current]
    /\ text' = [text EXCEPT ![p] = RemoveOurs(Current)]
    /\ verb' = [verb EXCEPT ![p] = NoHooks] /\ step' = [step EXCEPT ![p] = "open"]
    /\ UNCHANGED <<cursor, config_file, tmp, content, fd, edits, overlap>>

\* Mutant of OpenTmp: the configuration file itself is opened and truncated.
OpenTmpInPlace(p) ==
    /\ step[p] = "open" /\ config_file # NoInode /\ step' = [step EXCEPT ![p] = "write"]
    /\ fd' = [fd EXCEPT ![p] = config_file] /\ tmp' = tmp
    /\ content' = [content EXCEPT ![config_file] = Empty]
    /\ UNCHANGED <<cursor, config_file, verb, existing, text, verbs, edits, overlap>>

\* fs::write creates or truncates the temporary file, whoever made it.
OpenTmp(p) ==
    /\ step[p] = "open" /\ step' = [step EXCEPT ![p] = "write"]
    /\ LET inode == IF tmp = NoInode THEN Unused ELSE tmp IN
       /\ tmp' = inode /\ fd' = [fd EXCEPT ![p] = inode]
       /\ content' = [content EXCEPT ![inode] = Empty]
    /\ overlap' = (overlap \/ \E q \in Process \ {p} : step[q] \in {"write", "rename"})
    /\ UNCHANGED <<cursor, config_file, verb, existing, text, verbs, edits>>

\* One write from the start of the file.  Over longer bytes of another verb it
\* leaves their tail.  A write that fails may have written a part.
WriteTmp(p, ok) ==
    /\ step[p] = "write"
    /\ \E bytes \in (IF ok THEN {text[p]} ELSE {content[fd[p]]})
                    \cup (IF ok /\ content[fd[p]] \in {Empty, text[p]} THEN {} ELSE {TornBytes}) :
          content' = [content EXCEPT ![fd[p]] = bytes]
    /\ fd' = [fd EXCEPT ![p] = NoInode]
    /\ step' = [step EXCEPT ![p] = IF ok THEN "rename" ELSE "clean_up"]
    /\ UNCHANGED <<cursor, config_file, tmp, verb, existing, text, verbs, edits, overlap>>

Finish(p, place) ==
    /\ step' = [step EXCEPT ![p] = place]
    /\ IF place = "idle"
       THEN /\ verb' = [verb EXCEPT ![p] = NoHooks]
            /\ existing' = [existing EXCEPT ![p] = Blank]
            /\ text' = [text EXCEPT ![p] = Blank]
       ELSE UNCHANGED <<verb, existing, text>>

\* It renames what the name stands for by now; without it, or on another
\* error, the verb fails.
RenameTmp(p, ok) ==
    /\ step[p] = "rename" /\ (ok => tmp # NoInode)
    /\ IF ok
       THEN config_file' = tmp /\ tmp' = NoInode /\ Finish(p, "idle")
       ELSE UNCHANGED <<config_file, tmp>> /\ Finish(p, "clean_up")
    /\ UNCHANGED <<cursor, content, fd, verbs, edits, overlap>>

\* remove_file takes away the temporary file, whoever made it.
CleanUp(p) ==
    /\ step[p] = "clean_up" /\ tmp' = NoInode /\ Finish(p, "idle")
    /\ UNCHANGED <<cursor, config_file, content, fd, verbs, edits, overlap>>

Die(p) ==
    /\ step[p] # "idle" /\ Finish(p, "idle")
    /\ fd' = [fd EXCEPT ![p] = NoInode]
    /\ UNCHANGED <<cursor, config_file, tmp, content, verbs, edits, overlap>>

\* The editor, or its user, saves the file: a group or a setting of their own
\* comes or goes.
WithGroup(config, event, cmd) ==
    LET old == HooksObject(config)
    IN [config EXCEPT !.hooks =
          [e \in DOMAIN old \cup {event} |->
              IF e = event THEN Append(Groups(old, e), {cmd}) ELSE old[e]]]

Save(config) ==
    /\ IsConfig(Current) /\ Current # NotObject /\ edits < MaxEdits
    /\ edits' = edits + 1
    /\ config_file' = Unused /\ content' = [content EXCEPT ![Unused] = config]
    /\ UNCHANGED <<cursor, tmp, fd, step, verb, existing, text, verbs, overlap>>

EditorSaves ==
    \/ \E event \in Event \cup {OtherEvent}, cmd \in Foreign :
          Current # NotObject /\ IsConfig(Current) /\ Save(WithGroup(Current, event, cmd))
    \/ \E set \in SUBSET Setting :
          Current # NotObject /\ IsConfig(Current)
          /\ Save([Current EXCEPT !.settings = set])

HooksNext ==
    \/ \E p \in Process :
          \/ \E bin \in Bin : Install(p, bin)
          \/ Uninstall(p) \/ OpenTmp(p) \/ CleanUp(p) \/ Die(p)
          \/ \E ok \in BOOLEAN : WriteTmp(p, ok) \/ RenameTmp(p, ok)
    \/ EditorSaves

HooksSpec == HooksInit /\ [][HooksNext]_hooks_vars

(***************************************************************************)
(* Properties.                                                             *)
(***************************************************************************)
\* The configuration file is never empty or cut, whatever fails or dies in a
\* verb, as long as no two verbs have the temporary file in hand at once
\* (write_config).
ConfigWhole == overlap \/ IsConfig(Current)

\* What is not ours in a configuration: its settings, the foreign groups of
\* each event, in their order, and the events of others.  An object only.
NotOurs(config) ==
    [settings |-> config.settings,
     groups |-> [event \in Event \cup {OtherEvent} |->
                   Only(Groups(HooksObject(config), event), Theirs)],
     odd |-> {event \in DOMAIN HooksObject(config) \ Event :
                HooksObject(config)[event] = NotArray}]

\* A verb that finishes leaves everything that is not ours as it is, and as
\* long as nobody wrote the file while it ran that is what the user had: no
\* setting, foreign group or order among them is lost (merge, remove).
ForeignKept ==
    [][\A p \in Process :
          /\ step[p] = "rename" /\ step'[p] = "idle" /\ config_file' # config_file /\ ~overlap'
          /\ Current = existing[p] /\ Current # NotObject
          => NotOurs(Current') = NotOurs(Current)]_hooks_vars

\* An install that finishes leaves one group of ours per event, with the binary
\* it installs, and installing again would change nothing; an uninstall leaves
\* nothing of ours, whichever version wrote it (merge, remove, has_ours).
VerbsTakeEffect ==
    [][\A p \in Process :
          /\ step[p] = "rename" /\ step'[p] = "idle" /\ config_file' # config_file /\ ~overlap'
          => IF verb[p] = NoHooks THEN ~HasOurs(Current')
             ELSE /\ Merge(Current', verb[p]) = Current'
                  /\ \A event \in Event :
                       Only(Groups(HooksObject(Current'), event), Ours)
                           = << {verb[p]} >>]_hooks_vars
=============================================================================
