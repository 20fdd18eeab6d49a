--------------------------- MODULE MCIngestDriver ---------------------------
(* Small instances of IngestDriver and of Sources for TLC.                  *)
(*                                                                         *)
(* The driver: the files of a directory in two versions, an item without a  *)
(* key, invalid ones and an unreadable input.  The sources: transcripts   *)
(* of four lines, two workspaces that share a conversation, and a file.     *)
(* Each behaviour runs one of the two.                                     *)
EXTENDS IngestDriver, Sources, TLC

CONSTANTS k1, k2, h1, h2

I(key, hash) == [key |-> key, hash |-> hash, valid |-> TRUE]
Invalid(key) == [key |-> key, hash |-> None, valid |-> FALSE]

Versions == {<<I(k1, h1), I(k2, h1)>>,
             <<I(k1, h2), I(None, None), I(k1, h1), Unreadable>>,
             <<Invalid(None), I(k1, None), I(k2, None)>>,
             <<Invalid(k1), I(k1, h1)>>}

Empty == {<< >>}

EmptyOrOld == {<< >>, <<[key |-> k1, hash |-> h1]>>}

CONSTANTS project, elsewhere, s1, c1, c2, b1, b2

Short == << <<1, 1>> >>
Joined == << <<1>>, <<1>> >>        \* one chunk with its blank line
Two == << <<1, 1, 1>>, <<1, 1>> >>  \* two chunks
Long == << <<1, 3, 1, 1>> >>        \* split inside its paragraph

Said(cwd, text) == [kind |-> "message", cwd |-> cwd, text |-> text, sidechain |-> FALSE]
Meta(id, cwd) == [kind |-> "session_meta", id |-> id, cwd |-> cwd]
SomeClaude ==
    <<[Said(elsewhere, Short) EXCEPT !.kind = "structural"], Said(project, Two),
      Said(elsewhere, Short), [Said(project, Short) EXCEPT !.sidechain = TRUE]>>
SomeCodex ==
    <<Meta(s1, project), Said(NoValue, Two), Said(NoValue, Short), Said(NoValue, Short)>>
SomeFolders == <<elsewhere, project>>
SomeComposers == << <<c1>>, <<c1, c2>> >>
SomeBubbles == c1 :> <<b1>> @@ c2 :> <<b2>>
SomeDrafts == b1 :> <<Short, Long>> @@ b2 :> <<Joined, Short>>
SomeTexts == {Short, Two, Long}

TwoVersions == {<<I(k1, h1)>>, <<I(k1, h2)>>}

VARIABLE part

IngestInit == part \in {"driver", "sources"} /\ Init /\ SourcesInit
    /\ (part = "driver" => editor = "dir") /\ (part = "sources" => items = << >>)

IngestNext ==
    /\ UNCHANGED part
    /\ \/ part = "driver" /\ Next /\ UNCHANGED source_vars
       \/ part = "sources" /\ SourcesNext /\ UNCHANGED vars

IngestSpec ==
    /\ IngestInit /\ [][IngestNext]_<<part, vars, source_vars>>
    /\ \A p \in Process : WF_vars(Step(p))
=============================================================================
