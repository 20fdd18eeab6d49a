-------------------------------- MODULE Sources --------------------------------
(***************************************************************************)
(* The sources of crates/singularmem-ingest: transcripts of Claude Code and *)
(* Codex that the editor still appends to, the chats of Cursor, and the      *)
(* files of a directory, read again and again by verbs and editor hooks.     *)
(*                                                                         *)
(* What an item is called decides whether the next run skips it: a Claude    *)
(* message has a uuid, a Codex message the number of its line under the last *)
(* session_meta, a Cursor message its bubble, a file its path, and each has   *)
(* a suffix when its text makes several chunks.  A text is a sequence of      *)
(* paragraphs, a paragraph the widths of its characters, a directory its own  *)
(* scope.  ingest_source is one step; IngestDriver has its steps.            *)
(***************************************************************************)
EXTENDS Lists
LOCAL INSTANCE SequencesExt
LOCAL INSTANCE FiniteSetsExt

CONSTANTS
    ClaudeScript, CodexScript,  \* the lines an editor writes
    FolderOf, ComposersOf,      \* Cursor's workspaces: their folders and composers
    BubblesOf,                  \* the bubbles of a composer
    Drafts,                     \* the texts a bubble takes
    FileTexts, NoFile,          \* the texts of a file
    Directory, Override, NoValue, Stem,
    max_bytes,
    MaxScans, MaxEdits          \* bounds

ASSUME SourcesAssumption == max_bytes \in Nat /\ MaxScans \in Nat /\ MaxEdits \in Nat

\* The widths of the characters of each paragraph; a paragraph is not blank.
Text == Seq(Seq(1 .. 4) \ {<< >>})

ASSUME LinesAssumption ==
    /\ \A l \in DOMAIN ClaudeScript :
          ClaudeScript[l].kind = "message" => ClaudeScript[l].text \in Text
    /\ \A l \in DOMAIN CodexScript :
          CodexScript[l].kind = "message" => CodexScript[l].text \in Text
    /\ ClaudeScript \in Seq(ToSet(ClaudeScript)) /\ CodexScript \in Seq(ToSet(CodexScript))
ASSUME ChatsAssumption ==
    /\ ComposersOf \in Seq(Seq(DOMAIN BubblesOf))
    /\ \A c \in DOMAIN BubblesOf : BubblesOf[c] \in Seq(DOMAIN Drafts)
    /\ \A b \in DOMAIN Drafts : Drafts[b] \in Seq(Text)
ASSUME FilesAssumption == FileTexts \subseteq Text /\ {NoFile, NoValue} \cap FileTexts = {}

VARIABLES
    editor,         \* which source this is about
    written, piece, \* complete lines, and what there is of the next one
    draft,          \* the version of each bubble, 0 before it exists
    file,           \* the text of a file
    memory,         \* the current items, by external_id
    grown,          \* history: messages rewritten after they were read
    scan,           \* the run
    scans, edits    \* for the bounds

source_vars == <<editor, written, piece, draft, file, memory, grown, scan, scans, edits>>

Transcript == editor \in {"claude", "codex"}
Script == IF editor = "claude" THEN ClaudeScript ELSE CodexScript
Bubble == DOMAIN Drafts

(***************************************************************************)
(* chunk_text.  A chunk is the sequence of its characters.                  *)
(***************************************************************************)
Characters(text, p) == [k \in DOMAIN text[p] |-> <<p, k>>]

Bytes(text, chunk) ==
    LET widths[k \in 0 .. Len(chunk)] ==
            IF k = 0 THEN 0 ELSE widths[k - 1] + text[chunk[k][1]][chunk[k][2]]
    IN widths[Len(chunk)]
       + (IF chunk = << >> THEN 0 ELSE 2 * (Last(chunk)[1] - Head(chunk)[1]))

Cap == IF max_bytes < 4 THEN 4 ELSE max_bytes

\* The next piece takes characters as long as they fit.
Taking(text, pieces, c) ==
    IF pieces # << >> /\ Bytes(text, Append(Last(pieces), c)) <= Cap
    THEN [pieces EXCEPT ![Len(pieces)] = Append(@, c)]
    ELSE Append(pieces, <<c>>)

HardSplit(text, p) ==
    LET pieces[k \in 0 .. Len(text[p])] ==
            IF k = 0 THEN << >> ELSE Taking(text, pieces[k - 1], <<p, k>>)
    IN pieces[Len(text[p])]

Flush(s) == IF s.current = << >> THEN s.chunks ELSE Append(s.chunks, s.current)

\* The chunks and the current one, with a paragraph more.
Packing(text, s, p) ==
    LET paragraph == Characters(text, p)
    IN IF Bytes(text, paragraph) > Cap
       THEN [chunks |-> Flush(s) \o HardSplit(text, p), current |-> << >>]
       ELSE IF Bytes(text, s.current \o paragraph) > Cap
       THEN [chunks |-> Flush(s), current |-> paragraph]
       ELSE [s EXCEPT !.current = @ \o paragraph]

Pack(text) ==
    LET pack[p \in 0 .. Len(text)] ==
            IF p = 0 THEN [chunks |-> << >>, current |-> << >>]
            ELSE Packing(text, pack[p - 1], p)
    IN pack[Len(text)]

\* Mutant of ChunkText: the last paragraphs are not flushed.
ChunkTextUnflushed(text) == Pack(text).chunks

ChunkText(text) == Flush(Pack(text))

(***************************************************************************)
(* A run begins.                                                           *)
(***************************************************************************)
NoScan ==
    [at |-> "idle", filter |-> NoValue, conversation |-> NoValue, hook |-> FALSE,
     override |-> NoValue, line |-> 0, count |-> 0, cut |-> "no", split |-> FALSE,
     session |-> [id |-> Stem, cwd |-> NoValue], todo |-> << >>, yielded |-> << >>,
     blind |-> FALSE, due |-> {}]

SourcesInit ==
    /\ editor \in {"claude", "codex", "cursor", "dir"}
    /\ written = 0 /\ piece = "none"
    /\ draft = [b \in Bubble |-> 0]
    /\ file = NoFile
    /\ memory = << >> /\ grown = {} /\ scan = NoScan /\ scans = 0 /\ edits = 0

\* ProjectFilter::matches, on directories.
Passes(filter, cwd) == filter = NoValue \/ (cwd # NoValue /\ cwd = filter)

\* The session a line of a rollout belongs to.
SessionOf(l) ==
    LET metas == {k \in 1 .. l : CodexScript[k].kind = "session_meta"}
    IN IF metas = {} THEN [id |-> Stem, cwd |-> NoValue]
       ELSE [id |-> CodexScript[Max(metas)].id, cwd |-> CodexScript[Max(metas)].cwd]

CwdOf(l) == IF editor = "codex" THEN SessionOf(l).cwd ELSE Script[l].cwd

\* The name of a message, without the suffix of a chunk.
NameOf(m) == IF editor = "codex" THEN <<SessionOf(m).id, m>> ELSE m

Spoken(l) ==
    /\ Script[l].kind = "message" /\ Script[l].text # << >>
    /\ editor = "claude" => ~Script[l].sidechain

\* Workspaces that list a composer.
ListedBy(c) == {w \in DOMAIN ComposersOf : c \in ToSet(ComposersOf[w]) /\ FolderOf[w] # NoValue}

\* The messages that are there for a run to find.
Due(filter, conversation, hook) ==
    CASE Transcript -> {l \in 1 .. written : Spoken(l) /\ Passes(filter, CwdOf(l))}
      [] editor = "dir" -> IF file = NoFile \/ file = << >> THEN {} ELSE {"file"}
      [] OTHER -> {b \in Bubble :
            /\ draft[b] > 0 /\ Drafts[b][draft[b]] # << >>
            /\ \E c \in DOMAIN BubblesOf :
                  /\ b \in ToSet(BubblesOf[c]) /\ conversation \in {NoValue, c}
                  /\ \E w \in ListedBy(c) :
                        Passes(filter, FolderOf[w]) \/ (hook /\ conversation # NoValue)}

Begin(filter, conversation, hook, override) ==
    /\ scan.at \in {"idle", "done"} /\ scans < MaxScans
    /\ scans' = scans + 1
    /\ scan' = [NoScan EXCEPT
          !.at = "read", !.filter = filter, !.conversation = conversation, !.hook = hook,
          !.override = override, !.due = Due(filter, conversation, hook)]
    /\ UNCHANGED <<editor, written, piece, draft, file, memory, grown, edits>>

CmdIngestTranscript(project, scope) ==
    editor = "claude" /\ Begin(project, NoValue, FALSE, scope)

CmdIngestCodex(project, scope) ==
    editor = "codex" /\ Begin(project, NoValue, FALSE, scope)

CmdIngestCursor(project, conversation, scope) ==
    editor = "cursor" /\ Begin(project, conversation, FALSE, scope)

CmdIngestDir(scope) ==
    editor = "dir" /\ Begin(NoValue, NoValue, FALSE, scope)

\* The hooks of Claude Code and of Codex give the path of a transcript.
HookIngestClaude == editor = "claude" /\ Begin(NoValue, NoValue, TRUE, NoValue)

HookIngestCodex == editor = "codex" /\ Begin(NoValue, NoValue, TRUE, NoValue)

\* Cursor's names a conversation, a directory, or both.
HookIngestCursor(cwd, conversation) ==
    /\ editor = "cursor" /\ {cwd, conversation} # {NoValue}
    /\ Begin(cwd, conversation, TRUE, NoValue)

(***************************************************************************)
(* items(): transcripts.                                                   *)
(***************************************************************************)
Whole == 0

\* Mutant of Yield: the first of several chunks keeps the bare name.
YieldFirstBare(name, m, text, cwd) ==
    LET chunks == ChunkText(text)
    IN [i \in DOMAIN chunks |->
          [id |-> <<name, IF i = 1 THEN Whole ELSE i>>, message |-> m,
           text |-> text, chunk |-> chunks[i], split |-> scan.split,
           hash |-> IF editor = "dir" THEN text ELSE NoValue,
           scope |-> IF scan.override # NoValue THEN scan.override ELSE cwd]]

\* The items of a text.  A file carries its hash.
Yield(name, m, text, cwd) ==
    LET chunks == ChunkText(text)
    IN [i \in DOMAIN chunks |->
          [id |-> <<name, IF Len(chunks) = 1 THEN Whole ELSE i>>, message |-> m,
           text |-> text, chunk |-> chunks[i], split |-> scan.split,
           hash |-> IF editor = "dir" THEN text ELSE NoValue,
           scope |-> IF scan.override # NoValue THEN scan.override ELSE cwd]]

\* line_to_items.
LineToItems(l, no) ==
    LET line == Script[l]
        cwd == IF editor = "codex" THEN scan.session.cwd ELSE line.cwd
        name == IF editor = "codex" THEN <<scan.session.id, no>> ELSE l
    IN IF ~Spoken(l) \/ ~Passes(scan.filter, cwd) THEN << >>
       ELSE Yield(name, l, line.text, cwd)

\* The number of a line counts what lines() returned before it.
LineNo == scan.count + 1

Parsed(l, cut) ==
    scan' = [scan EXCEPT
        !.line = IF cut = "no" THEN l ELSE @, !.cut = cut, !.count = @ + 1,
        !.session = IF editor = "codex" /\ Script[l].kind = "session_meta"
                    THEN [id |-> Script[l].id, cwd |-> Script[l].cwd] ELSE @,
        !.yielded = @ \o LineToItems(l, LineNo)]

\* lines() returns a line, or what there is of the last one, which does not
\* parse unless only the end of the line is missing; when the reader comes back
\* and the rest has arrived, that is a line too: unparseable, or blank.
ReadLine ==
    /\ Transcript /\ scan.at = "read"
    /\ LET l == scan.line + 1
       IN \/ scan.cut = "no" /\ l <= written /\ Parsed(l, "no")
          \/ scan.cut = "no" /\ l = written + 1 /\ piece = "all" /\ Parsed(l, "all")
          \/ /\ scan.cut = "no" /\ l = written + 1 /\ piece = "head"
             /\ scan' = [scan EXCEPT !.cut = "head", !.count = @ + 1]
          \/ /\ scan.cut # "no" /\ l <= written
             /\ scan' = [scan EXCEPT !.cut = "no", !.line = l, !.count = @ + 1, !.split = TRUE]
    /\ UNCHANGED <<editor, written, piece, draft, file, memory, grown, scans, edits>>

EndOfFile ==
    /\ Transcript /\ scan.at = "read" /\ scan.line = written
    /\ scan.cut # "no" \/ piece = "none"
    /\ scan' = [scan EXCEPT !.at = "ingest"]
    /\ UNCHANGED <<editor, written, piece, draft, file, memory, grown, scans, edits>>

(***************************************************************************)
(* items(): Cursor and directories.                                        *)
(***************************************************************************)
\* The composers of a workspace that the run is about, with its folder.
Composers(w) ==
    LET kept == Only(ComposersOf[w], {c \in ToSet(ComposersOf[w]) :
                                          scan.conversation \in {NoValue, c}})
    IN IF FolderOf[w] = NoValue \/ ~Passes(scan.filter, FolderOf[w]) THEN << >>
       ELSE [k \in DOMAIN kept |-> [composer |-> kept[k], folder |-> FolderOf[w]]]

\* composers.  A filter on one conversation stops at the first workspace that
\* has it.
Found(readable) ==
    LET all == FlattenSeq([w \in DOMAIN ComposersOf |-> IF w \in readable THEN Composers(w) ELSE << >>])
    IN IF scan.conversation = NoValue \/ all = << >> THEN all ELSE <<Head(all)>>

\* The headers list the bubbles there are.
Headers(found) ==
    FlattenSeq([k \in DOMAIN found |->
        LET there == Only(BubblesOf[found[k].composer], {b \in Bubble : draft[b] > 0})
        IN [i \in DOMAIN there |-> [bubble |-> there[i], folder |-> found[k].folder]]])

ListComposers(readable) ==
    /\ editor = "cursor" /\ scan.at = "read"
    /\ scan' = [scan EXCEPT !.at = "bubbles", !.todo = Headers(Found(readable)),
                            !.blind = @ \/ readable # DOMAIN ComposersOf]
    /\ UNCHANGED <<editor, written, piece, draft, file, memory, grown, scans, edits>>

\* bubble_items.  A row that cannot be read is an empty text.
ReadBubble(readable) ==
    /\ editor = "cursor" /\ scan.at = "bubbles" /\ scan.todo # << >>
    /\ LET b == Head(scan.todo).bubble
           text == IF readable THEN Drafts[b][draft[b]] ELSE << >>
       IN scan' = [scan EXCEPT
             !.todo = Tail(@), !.blind = @ \/ ~readable,
             !.yielded = @ \o Yield(b, b, text, Head(scan.todo).folder)]
    /\ UNCHANGED <<editor, written, piece, draft, file, memory, grown, scans, edits>>

LastBubble ==
    /\ editor = "cursor" /\ scan.at = "bubbles" /\ scan.todo = << >>
    /\ scan' = [scan EXCEPT !.at = "ingest"]
    /\ UNCHANGED <<editor, written, piece, draft, file, memory, grown, scans, edits>>

\* file_to_items.  A file that is not text, or too large, is NoFile here.
FileToItems ==
    /\ editor = "dir" /\ scan.at = "read"
    /\ scan' = [scan EXCEPT
          !.at = "ingest",
          !.yielded = IF file = NoFile THEN << >> ELSE Yield("file", "file", file, Directory)]
    /\ UNCHANGED <<editor, written, piece, draft, file, memory, grown, scans, edits>>

(***************************************************************************)
(* ingest_source with what the source yielded.                              *)
(***************************************************************************)
\* Of several items with one id the first counts; an item replaces another
\* when both have a hash and the hashes differ.
Ingested(items) ==
    LET ids == {items[k].id : k \in DOMAIN items}
        first(id) == items[Min({k \in DOMAIN items : items[k].id = id})]
    IN [id \in DOMAIN memory \cup ids |->
          IF id \notin ids THEN memory[id]
          ELSE IF id \notin DOMAIN memory THEN first(id)
          ELSE IF NoValue \notin {first(id).hash, memory[id].hash} /\ first(id).hash # memory[id].hash
          THEN first(id)
          ELSE memory[id]]

\* A hook that found nothing of its conversation looks in every workspace, once.
IngestYielded ==
    /\ scan.at = "ingest"
    /\ memory' = Ingested(scan.yielded)
    /\ scan' = IF editor = "cursor" /\ scan.hook /\ scan.conversation # NoValue
                  /\ scan.yielded = << >>
               THEN [scan EXCEPT !.at = "read", !.filter = NoValue, !.hook = FALSE]
               ELSE [scan EXCEPT !.at = "done", !.yielded = << >>]
    /\ UNCHANGED <<editor, written, piece, draft, file, grown, scans, edits>>

\* The process dies after the first items.
IngestInterrupted(n) ==
    /\ scan.at = "ingest" /\ n < Len(scan.yielded)
    /\ memory' = Ingested(SubSeq(scan.yielded, 1, n))
    /\ scan' = NoScan
    /\ UNCHANGED <<editor, written, piece, draft, file, grown, scans, edits>>

(***************************************************************************)
(* The editor meanwhile.                                                   *)
(***************************************************************************)
\* A line arrives in one piece or in two.
WriteLine ==
    /\ Transcript /\ written < Len(Script)
    /\ \/ piece = "none" /\ piece' \in {"head", "all"} /\ UNCHANGED written
       \/ piece' = "none" /\ written' = written + 1
    /\ UNCHANGED <<editor, draft, file, memory, grown, scan, scans, edits>>

\* A message that has been read, or was there when the run began, changes.
Rewrite(m) ==
    /\ edits < MaxEdits /\ edits' = edits + 1
    /\ grown' = IF \/ \E id \in DOMAIN memory : memory[id].message = m
                   \/ \E k \in DOMAIN scan.yielded : scan.yielded[k].message = m
                THEN grown \cup {m} ELSE grown
    /\ scan' = [scan EXCEPT !.due = @ \ {m}]
    /\ UNCHANGED <<editor, written, piece, memory, scans>>

WriteBubble(b) ==
    /\ editor = "cursor" /\ draft[b] < Len(Drafts[b])
    /\ draft' = [draft EXCEPT ![b] = @ + 1] /\ UNCHANGED file
    /\ Rewrite(b)

WriteFile(text) ==
    /\ editor = "dir" /\ text # file
    /\ file' = text /\ UNCHANGED draft
    /\ Rewrite("file")

SourcesNext ==
    \/ \E dir \in {NoValue, Directory}, scope \in {NoValue, Override} :
          \/ CmdIngestTranscript(dir, scope) \/ CmdIngestCodex(dir, scope) \/ CmdIngestDir(scope)
          \/ \E conversation \in DOMAIN BubblesOf \cup {NoValue} :
                \/ CmdIngestCursor(dir, conversation, scope)
                \/ HookIngestCursor(dir, conversation)
    \/ HookIngestClaude \/ HookIngestCodex
    \/ ReadLine \/ EndOfFile \/ FileToItems \/ LastBubble \/ IngestYielded
    \/ \E readable \in SUBSET DOMAIN ComposersOf : ListComposers(readable)
    \/ \E readable \in BOOLEAN : ReadBubble(readable)
    \/ \E n \in DOMAIN scan.yielded : IngestInterrupted(n)
    \/ WriteLine
    \/ \E b \in Bubble : WriteBubble(b)
    \/ \E text \in FileTexts \cup {NoFile} : WriteFile(text)

SourcesSpec == SourcesInit /\ [][SourcesNext]_source_vars

(***************************************************************************)
(* Properties.                                                             *)
(***************************************************************************)
TextOf(m) ==
    CASE Transcript -> Script[m].text
      [] editor = "dir" -> file
      [] OTHER -> Drafts[m][draft[m]]

\* The items of a name: one, or n chunks.
Held(name, n) ==
    LET ids == IF n = 0 THEN << <<name, Whole>> >> ELSE [i \in 1 .. n |-> <<name, i>>]
    IN IF ToSet(ids) \subseteq DOMAIN memory
       THEN [k \in DOMAIN ids |-> memory[ids[k]]] ELSE << >>

Complete(m, name) ==
    \E n \in {id[2] : id \in DOMAIN memory} :
        LET items == Held(name, n)
            text == TextOf(m)
        IN /\ \A k \in DOMAIN items : items[k].message = m /\ items[k].text = text
           /\ FlattenSeq([k \in DOMAIN items |-> items[k].chunk])
              = FlattenSeq([p \in DOMAIN text |-> Characters(text, p)])
           /\ \A k \in DOMAIN items : Bytes(text, items[k].chunk) <= Cap

\* Read in a run that met a line in two pieces: its number is off.
Misnumbered(name) == \E id \in DOMAIN memory : id[1] = name /\ memory[id].split

\* When a run ends, every message that was there when it began, and that its
\* filters let pass, is in the store, whole and in order, however often runs
\* were interrupted before, whatever the editor wrote meanwhile and whichever
\* workspace the hook named.  Two kinds are lost: a Cursor message that was
\* stored as a draft, and a Codex message whose number has been taken by one
\* that was read after a line in two pieces (items, ingest_source,
\* hook_ingest_cursor).
StoredWhole ==
    scan.at = "done" /\ ~scan.blind =>
        \A m \in scan.due :
            \/ Complete(m, NameOf(m))
            \/ editor = "cursor" /\ m \in grown
            \/ editor = "codex" /\ Misnumbered(NameOf(m))

\* A message is stored once, under the scope of its own directory: whichever
\* run, filter or hook reads it gives it the same name, although a Codex name
\* depends on lines before it that may have been incomplete.  Only a message
\* rewritten since, or read after a line in two pieces, is found under two
\* names or two chunkings (LineToItems, Yield, session_meta).
StoredOnce ==
    \A a, b \in DOMAIN memory :
        memory[a].message = memory[b].message /\ memory[a].message \notin grown
        /\ ~(editor = "codex" /\ (memory[a].split \/ memory[b].split)) =>
            /\ a[1] = b[1] /\ (a[2] = Whole <=> b[2] = Whole)
            /\ Transcript => memory[a].scope \in {Override, CwdOf(memory[a].message)}
=============================================================================
