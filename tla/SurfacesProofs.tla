--------------------------- MODULE SurfacesProofs ---------------------------
(***************************************************************************)
(* Two theorems about the three surfaces of the store, for any calls,       *)
(* arguments and numbers of tries.                                         *)
(*                                                                         *)
(* A call takes effect once (EffectsOnce), since what a transaction did     *)
(* still holds or was undone by a later one (Stands), and what already      *)
(* holds is not done again.                                                *)
(*                                                                         *)
(* The surfaces agree (SurfacesAgreed): CliAgrees, McpAgrees and NodeAgrees *)
(* compare what a surface makes of each operation with what it means, and   *)
(* Stages carries the result along a call's way to the store and back.      *)
(***************************************************************************)
EXTENDS Surfaces, ListProofs

(***************************************************************************)
(* Calls take effect once.                                                 *)
(***************************************************************************)
CallFields == {"number", "try", "op", "args", "phase", "task", "error", "request"}

\* The tries of a call are numbered, and no two calls have one number.
Numbered ==
    /\ asked \in Nat /\ DOMAIN call = Surface /\ \E Entry : log \in Seq(Entry)
    /\ \A s \in Surface : call[s] # None =>
          /\ DOMAIN call[s] = CallFields
          /\ call[s].number \in Nat /\ call[s].number <= asked
          /\ call[s].try \in Nat
          /\ \A t \in Surface \ {s} : call[t] # None => call[s].number # call[t].number
    /\ \A n \in DOMAIN log :
          /\ log[n].number \in Nat /\ log[n].number <= asked
          /\ log[n].try \in Nat

HasActed(c) == c.phase = "done" /\ c.error = None

\* A try that has not reached the store, or was refused, is not in the log.
Unlogged ==
    \A n \in DOMAIN log, s \in Surface :
        call[s] # None /\ log[n].number = call[s].number =>
            /\ log[n].try <= call[s].try
            /\ log[n].try = call[s].try => HasActed(call[s])

WritableOnly == \A n \in DOMAIN log : ~read_only[log[n].by]

IsOpen(key) == Heads(open, key) # {}
LaterIn(n, change) == \E k \in n + 1 .. Len(log) : change \in log[k].did

\* What a transaction did still holds, unless a later one undid it.
Stands ==
    \A n \in DOMAIN log : \A change \in log[n].did :
        /\ change[1] \in {"row", "item", "open", "close", "move"}
        /\ change = << change[1], change[2] >>
        /\ change[1] = "open" =>
              IsOpen(change[2]) \/ LaterIn(n, << "close", change[2] >>)
        /\ change[1] = "close" =>
              \/ << "open", change[2] >> \in log[n].did
              \/ ~IsOpen(change[2]) \/ LaterIn(n, << "open", change[2] >>)
        /\ change[1] = "move" =>
              \/ item_scope = change[2]
              \/ \E k \in n + 1 .. Len(log) : \E other \in log[k].did :
                    other # change /\ other[1] = "move"

Repeats(n, m) ==
    \A change \in log[n].did \cap log[m].did :
        \/ change[1] \in {"row", "item"}
        \/ Renews(log[n], change[2]) \/ Renews(log[m], change[2])
        \/ \E k \in n + 1 .. m - 1 : \E other \in log[k].did :
              /\ other # change
              /\ IF change[1] = "move" THEN other[1] = "move"
                 ELSE other[2] = change[2]

NoneRepeats == \A n \in DOMAIN log : \A m \in n + 1 .. Len(log) : Repeats(n, m)

Effects == Numbered /\ Unlogged /\ WritableOnly /\ Stands /\ NoneRepeats

LEMMA EffectsInit == SurfacesInit => Effects
BY DEF SurfacesInit, Effects, Numbered, Unlogged, WritableOnly, Stands, NoneRepeats, Surface

\* A log and one more entry.
LEMMA Logged ==
    ASSUME NEW Entry, NEW g \in Seq(Entry), NEW e
    PROVE  /\ Append(g, e) \in Seq(Entry \cup {e})
           /\ Len(Append(g, e)) = Len(g) + 1 /\ Append(g, e)[Len(g) + 1] = e
           /\ \A n \in 1 .. Len(g) : Append(g, e)[n] = g[n]
           /\ DOMAIN g = 1 .. Len(g) /\ Len(g) \in Nat
<1>1. g \in Seq(Entry \cup {e})
  BY ElementOfSeq, SeqDef
<1>2. QED BY <1>1, AppendProperties, LenProperties

\* The shape of what a request changes, and what it finds.
LEMMA ChangesAre ==
    ASSUME NEW r, NEW d \in Changes(r)
    PROVE  /\ d[1] \in {"row", "item", "open", "close", "move"}
           /\ d = << d[1], d[2] >>
           /\ d[1] = "open" => ~IsOpen(d[2]) \/ << "close", d[2] >> \in Changes(r)
           /\ d[1] = "close" => IsOpen(d[2])
           /\ d[1] = "move" => d[2] = r.scope /\ d[2] # item_scope
<1>1. \A key : \A c \in Closes(key) : c = << "close", key >> /\ IsOpen(key)
  BY DEF Closes, IsOpen, Heads
<1>2. \A facts, key, to : \A c \in Opens(facts, key, to) :
         c \in {<< "open", key >>, << "row", key >>} /\ Heads(facts, key) = {}
  BY DEF Opens
<1>3. CASE r.method = "add_fact"
  BY <1>2, <1>3 DEF Changes, IsOpen
<1>4. CASE r.method = "invalidate_fact"
  BY <1>1, <1>4 DEF Changes
<1>5. CASE r.method = "supersede_fact"
  <2> DEFINE old == Key(r.old, r.scope)
             new == Key(r.new, r.scope)
  <2>1. Changes(r) = Closes(old) \cup Opens(open \ Heads(open, old), new, None)
    BY <1>5 DEF Changes
  <2>2. CASE d \in Closes(old)
    BY <1>1, <2>2
  <2>3. CASE d \in Opens(open \ Heads(open, old), new, None)
    <3>1. d \in {<< "open", new >>, << "row", new >>} /\ Heads(open \ Heads(open, old), new) = {}
      BY <1>2, <2>3
    <3>2. old = new \/ Heads(open, new) = {}
      BY <3>1 DEF Heads
    <3>3. old = new /\ IsOpen(new) => << "close", new >> \in Changes(r)
      BY <2>1 DEF Closes, IsOpen, Heads
    <3>4. QED BY <3>1, <3>2, <3>3 DEF IsOpen
  <2>4. QED BY <2>1, <2>2, <2>3
<1>6. CASE r.method = "ingest"
  BY <1>6 DEF Changes
<1>7. CASE r.method = "set_scope"
  BY <1>7 DEF Changes
<1>8. CASE r.method \notin {"add_fact", "invalidate_fact", "supersede_fact", "ingest",
                            "set_scope"}
  BY <1>8 DEF Changes
<1>9. QED BY <1>3, <1>4, <1>5, <1>6, <1>7, <1>8

\* The steps that leave the store alone.
Still == UNCHANGED << read_only, alone, open, item_scope, log >>

LEMMA StillKeeps ==
    ASSUME Still PROVE (WritableOnly /\ Stands /\ NoneRepeats) => (WritableOnly /\ Stands /\ NoneRepeats)'
BY SMTT(30)
DEF Still, WritableOnly, Stands, NoneRepeats, Repeats, Renews, LaterIn, IsOpen, Heads

\* A call goes on to its next phase: it keeps its number and its try, and if it
\* had not acted it has not acted.
GoesOn(s) ==
    /\ call[s] # None /\ DOMAIN call' = Surface
    /\ \A t \in Surface \ {s} : call'[t] = call[t]
    /\ DOMAIN call'[s] = CallFields
    /\ call'[s].number = call[s].number /\ call'[s].try = call[s].try

LEMMA GoesOnKeeps ==
    ASSUME Numbered, Unlogged, NEW s \in Surface, GoesOn(s), Still, asked' = asked,
           ~HasActed(call[s])
    PROVE  Numbered' /\ Unlogged'
<1>1. Numbered'
  BY SMTT(30) DEF Numbered, GoesOn, Still
<1>2. Unlogged'
  BY DEF Unlogged, GoesOn, Still, HasActed
<1>3. QED BY <1>1, <1>2

\* A call ends.
LEMMA EndKeeps ==
    ASSUME Numbered, Unlogged, NEW s \in Surface, Still, asked' = asked,
           call' = [call EXCEPT ![s] = None]
    PROVE  Numbered' /\ Unlogged'
<1>1. DOMAIN call' = Surface /\ call'[s] = None /\ \A t \in Surface \ {s} : call'[t] = call[t]
  BY DEF Numbered
<1>2. Numbered'
  BY <1>1 DEF Numbered, Still
<1>3. Unlogged'
  BY <1>1 DEF Unlogged, Still, HasActed
<1>4. QED BY <1>2, <1>3

LEMMA AskKeeps ==
    ASSUME Effects, NEW s \in Surface, NEW op, NEW a, Ask(s, op, a)
    PROVE  Effects'
<1>1. Still /\ asked \in Nat /\ asked' = asked + 1
  BY DEF Ask, Still, Effects, Numbered
<1>2. DOMAIN call' = Surface /\ \A t \in Surface \ {s} : call'[t] = call[t]
  BY DEF Ask, Effects, Numbered
<1>3. call'[s] = [number |-> asked + 1, try |-> 1, op |-> op, args |-> a,
                  phase |-> "asked", task |-> None, error |-> None, request |-> None]
  BY DEF Ask, Effects, Numbered
<1>4. DOMAIN call'[s] = CallFields /\ call'[s].number = asked + 1 /\ call'[s].try = 1
  BY <1>3 DEF CallFields
<1>5. Numbered'
  BY <1>1, <1>2, <1>4 DEF Effects, Numbered, Still
<1>6. Unlogged'
  BY <1>1, <1>2, <1>4, SMTT(30) DEF Effects, Numbered, Unlogged, Still, HasActed
<1>7. QED BY <1>1, <1>5, <1>6, StillKeeps DEF Effects

LEMMA LoseKeeps ==
    ASSUME Effects, NEW s \in Surface, LoseAnswer(s)
    PROVE  Effects'
<1>1. Still /\ asked' = asked /\ call[s] # None /\ DOMAIN call[s] = CallFields
  BY DEF LoseAnswer, Still, Effects, Numbered
<1>2. CASE call' = [call EXCEPT ![s] = None]
  BY <1>1, <1>2, EndKeeps, StillKeeps DEF Effects
<1>3. CASE call' = [call EXCEPT ![s].try = @ + 1, ![s].phase = "asked",
                                ![s].task = None, ![s].error = None, ![s].request = None]
  <2>1. /\ DOMAIN call' = Surface /\ \A t \in Surface \ {s} : call'[t] = call[t]
        /\ DOMAIN call'[s] = CallFields /\ call'[s].number = call[s].number
        /\ call'[s].try = call[s].try + 1
    BY <1>1, <1>3 DEF Effects, Numbered, CallFields
  <2>2. Numbered'
    BY <1>1, <2>1, SMTT(30) DEF Effects, Numbered, Still
  <2>3. Unlogged'
    BY <1>1, <2>1, SMTT(30) DEF Effects, Numbered, Unlogged, Still, HasActed
  <2>4. QED BY <1>1, <2>2, <2>3, StillKeeps DEF Effects
<1>4. QED BY <1>2, <1>3 DEF LoseAnswer

LEMMA SettleGoesOn ==
    ASSUME Numbered, NEW s \in Surface, call[s] # None, NEW translated, Settle(s, translated)
    PROVE  GoesOn(s)
BY DEF Numbered, Settle, GoesOn, CallFields

LEMMA TranslateKeeps ==
    ASSUME Effects, TranslateCli \/ TranslateMcp \/ QueueTask \/ TranslateNode
    PROVE  Effects'
<1>1. Still /\ asked' = asked
  BY DEF TranslateCli, TranslateMcp, QueueTask, TranslateNode, Still
<1>2. \E s \in Surface : GoesOn(s) /\ call[s].phase \in {"asked", "queued"}
  <2>1. CASE TranslateCli
    BY <2>1, SettleGoesOn DEF TranslateCli, Surface, Effects
  <2>2. CASE TranslateMcp
    BY <2>2, SettleGoesOn DEF TranslateMcp, Surface, Effects
  <2>3. CASE TranslateNode
    BY <2>3, SettleGoesOn DEF TranslateNode, Surface, Effects
  <2>4. CASE QueueTask
    BY <2>4 DEF QueueTask, Surface, Effects, Numbered, GoesOn, CallFields
  <2>5. QED BY <2>1, <2>2, <2>3, <2>4
<1>3. QED BY <1>1, <1>2, GoesOnKeeps, StillKeeps DEF Effects, HasActed

\* What a call does to the store.
Did(s) == IF StoreError(s, call[s].request) = None THEN Changes(call[s].request) ELSE {}
Entry(s) == [by |-> s, number |-> call[s].number, try |-> call[s].try, did |-> Did(s)]

\* A call that changes the store leaves an entry, and what it changed stands.
LEMMA Acts ==
    ASSUME Effects, NEW s \in Surface, Execute(s), Did(s) # {}
    PROVE  /\ log' = Append(log, Entry(s)) /\ ~read_only[s] /\ HasActed(call'[s])
           /\ Did(s) = Changes(call[s].request)
           /\ \A key : IsOpen(key)' <=>
                 \/ << "open", key >> \in Did(s)
                 \/ IsOpen(key) /\ << "close", key >> \notin Did(s)
           /\ \A d \in Did(s) : d[1] = "move" => item_scope' = d[2]
           /\ (\A d \in Did(s) : d[1] # "move") => item_scope' = item_scope
<1> DEFINE r == call[s].request
<1>1. StoreError(s, r) = None /\ Did(s) = Changes(r)
  BY DEF Did
<1>2. log' = Append(log, Entry(s))
  BY <1>1 DEF Execute, Did, Entry
<1>3. r.method \in OnFacts \cup {"ingest", "set_scope"}
  <2> SUFFICES ASSUME r.method \notin OnFacts \cup {"ingest", "set_scope"} PROVE FALSE
    OBVIOUS
  <2>1. Changes(r) = {}
    BY DEF Changes, OnFacts
  <2>2. QED BY <1>1, <2>1
<1>4. ~read_only[s]
  <2>1. read_only[s] => StoreError(s, r) = "ReadOnly"
    BY <1>3 DEF StoreError
  <2>2. None # "ReadOnly"
    BY SurfacesAssumption DEF ErrorName
  <2>3. QED BY <1>1, <2>1, <2>2
<1>5. HasActed(call'[s])
  BY <1>1 DEF Execute, Did, HasActed, Effects, Numbered, CallFields
<1>6. open' = {fact \in open : << "close", fact[1] >> \notin Did(s)}
              \cup {<< c[2], Window(s, r) >> : c \in {d \in Did(s) : d[1] = "open"}}
  BY <1>1 DEF Execute, Did
<1>7. ASSUME NEW key
      PROVE  IsOpen(key)' <=> \/ << "open", key >> \in Did(s)
                              \/ IsOpen(key) /\ << "close", key >> \notin Did(s)
  <2>1. ASSUME << "open", key >> \in Did(s) PROVE IsOpen(key)'
    <3>1. << "open", key >> \in {d \in Did(s) : d[1] = "open"}
      BY <2>1
    <3>2. << key, Window(s, r) >> \in open'
      BY <1>6, <3>1
    <3>3. << key, Window(s, r) >>[1] = key
      OBVIOUS
    <3>4. QED BY <3>2, <3>3, Zenon DEF IsOpen, Heads
  <2>2. ASSUME IsOpen(key), << "close", key >> \notin Did(s) PROVE IsOpen(key)'
    BY <1>6, <2>2 DEF IsOpen, Heads
  <2>3. ASSUME IsOpen(key)'
        PROVE  << "open", key >> \in Did(s) \/ (IsOpen(key) /\ << "close", key >> \notin Did(s))
    <3>1. PICK fact \in open' : fact[1] = key
      BY <2>3 DEF IsOpen, Heads
    <3>2. CASE fact \in open /\ << "close", fact[1] >> \notin Did(s)
      BY <3>1, <3>2 DEF IsOpen, Heads
    <3>3. CASE fact \in {<< c[2], Window(s, r) >> : c \in {d \in Did(s) : d[1] = "open"}}
      <4>1. PICK c \in Did(s) : c[1] = "open" /\ fact = << c[2], Window(s, r) >>
        BY <3>3
      <4>2. c = << "open", key >>
        BY <1>1, <3>1, <4>1, ChangesAre
      <4>3. QED BY <4>1, <4>2
    <3>4. QED BY <1>6, <3>1, <3>2, <3>3
  <2>4. QED BY <2>1, <2>2, <2>3
<1>8. /\ \A d \in Did(s) : d[1] = "move" => item_scope' = d[2]
      /\ (\A d \in Did(s) : d[1] # "move") => item_scope' = item_scope
  <2>1. item_scope' = IF \E c \in Did(s) : c[1] = "move" THEN r.scope ELSE item_scope
    BY <1>1 DEF Execute, Did
  <2>2. \A d \in Did(s) : d[1] = "move" => d[2] = r.scope
    BY <1>1, ChangesAre
  <2>3. QED BY <2>1, <2>2
<1>9. QED BY <1>1, <1>2, <1>4, <1>5, <1>7, <1>8

LEMMA ExecuteKeeps ==
    ASSUME Effects, NEW s \in Surface, Execute(s)
    PROVE  Effects'
<1> DEFINE e == Entry(s)
           last == Len(log) + 1
<1>1. asked' = asked /\ read_only' = read_only /\ call[s] # None /\ call[s].phase = "ready"
  BY DEF Execute
<1>2. GoesOn(s)
  BY DEF Execute, GoesOn, Effects, Numbered, CallFields
<1>3. CASE Did(s) = {}
  <2>1. log' = log
    BY <1>3 DEF Execute, Did
  <2>2. open' = open /\ item_scope' = item_scope
    BY <1>3 DEF Execute, Did
  <2>3. Still
    BY <1>1, <2>1, <2>2 DEF Still, Execute
  <2>4. QED BY <1>1, <1>2, <2>3, GoesOnKeeps, StillKeeps DEF Effects, HasActed
<1>4. CASE Did(s) # {}
  <2>1. /\ log' = Append(log, e) /\ ~read_only[s] /\ HasActed(call'[s])
        /\ Did(s) = Changes(call[s].request)
    BY <1>4, Acts
  <2>2. /\ \A key : IsOpen(key)' <=> \/ << "open", key >> \in Did(s)
                                     \/ IsOpen(key) /\ << "close", key >> \notin Did(s)
        /\ \A d \in Did(s) : d[1] = "move" => item_scope' = d[2]
        /\ (\A d \in Did(s) : d[1] # "move") => item_scope' = item_scope
    BY <1>4, Acts
  <2>3. PICK Any : log \in Seq(Any)
    BY DEF Effects, Numbered
  <2>4. /\ log' \in Seq(Any \cup {e}) /\ Len(log') = last /\ log'[last] = e
        /\ \A n \in 1 .. Len(log) : log'[n] = log[n]
        /\ DOMAIN log = 1 .. Len(log) /\ Len(log) \in Nat /\ DOMAIN log' = 1 .. last
    BY <2>1, <2>3, Logged, LenProperties
  <2>5. e.by = s /\ e.number = call[s].number /\ e.try = call[s].try /\ e.did = Did(s)
    BY DEF Entry
  <2> HIDE DEF e
  <2>6. Numbered'
    <3>1. \A n \in DOMAIN log' : /\ log'[n].number \in Nat /\ log'[n].number <= asked'
                                 /\ log'[n].try \in Nat
      BY <1>1, <2>4, <2>5, SMTT(30) DEF Effects, Numbered
    <3>2. asked' \in Nat
      BY <1>1 DEF Effects, Numbered
    <3>3. DOMAIN call' = Surface
      BY <1>2 DEF GoesOn
    <3>4. \E E : log' \in Seq(E)
      BY <2>4, Zenon
    <3>5. ASSUME NEW t \in Surface, call'[t] # None
          PROVE  /\ DOMAIN call'[t] = CallFields
                 /\ call'[t].number = call[t].number /\ call'[t].try = call[t].try
                 /\ call[t] # None
      <4>1. CASE t = s
        BY <1>2, <4>1 DEF GoesOn
      <4>2. CASE t # s
        BY <1>2, <3>5, <4>2 DEF GoesOn, Effects, Numbered
      <4>3. QED BY <4>1, <4>2
    <3>6. ASSUME NEW t \in Surface, call'[t] # None
          PROVE  /\ DOMAIN call'[t] = CallFields
                 /\ call'[t].number \in Nat /\ call'[t].number <= asked'
                 /\ call'[t].try \in Nat
                 /\ \A u \in Surface \ {t} : call'[u] # None => call'[t].number # call'[u].number
      BY <1>1, <3>5, <3>6 DEF Effects, Numbered
    <3>7. QED BY <3>1, <3>2, <3>3, <3>4, <3>6 DEF Numbered
  <2>7. Unlogged'
    BY <1>1, <1>2, <2>1, <2>4, <2>5 DEF Effects, Numbered, Unlogged, GoesOn, HasActed
  <2>8. WritableOnly'
    BY <1>1, <2>1, <2>4, <2>5 DEF Effects, WritableOnly
  <2>9. \A n \in DOMAIN log : \A change :
            LaterIn(n, change) \/ change \in Did(s) => LaterIn(n, change)'
    BY <2>4, <2>5 DEF LaterIn
  <2>10. Stands'
    <3> SUFFICES ASSUME NEW n \in DOMAIN log', NEW change \in log'[n].did
                 PROVE  /\ change[1] \in {"row", "item", "open", "close", "move"}
                        /\ change = << change[1], change[2] >>
                        /\ change[1] = "open" =>
                              IsOpen(change[2])' \/ LaterIn(n, << "close", change[2] >>)'
                        /\ change[1] = "close" =>
                              \/ << "open", change[2] >> \in log'[n].did
                              \/ ~IsOpen(change[2])' \/ LaterIn(n, << "open", change[2] >>)'
                        /\ change[1] = "move" =>
                              \/ item_scope' = change[2]
                              \/ \E k \in n + 1 .. Len(log') : \E other \in log'[k].did :
                                    other # change /\ other[1] = "move"
      BY DEF Stands
    <3>1. CASE n = last
      <4>1. change \in Changes(call[s].request) /\ change \in Did(s) /\ log'[n].did = Did(s)
        BY <2>1, <2>4, <2>5, <3>1
      <4>2. /\ change[1] \in {"row", "item", "open", "close", "move"}
            /\ change = << change[1], change[2] >>
        BY <4>1, ChangesAre
      <4>3. QED BY <2>2, <4>1, <4>2
    <3>2. CASE n \in DOMAIN log
      <4>1. change \in log[n].did /\ log'[n] = log[n]
        BY <2>4, <3>2
      <4>2. change[1] = "move" =>
              \/ item_scope' = change[2]
              \/ \E k \in n + 1 .. Len(log') : \E other \in log'[k].did :
                    other # change /\ other[1] = "move"
        <5> SUFFICES ASSUME change[1] = "move", item_scope' # change[2]
                     PROVE  \E k \in n + 1 .. Len(log') : \E other \in log'[k].did :
                               other # change /\ other[1] = "move"
          OBVIOUS
        <5>1. CASE \E k \in n + 1 .. Len(log) : \E other \in log[k].did :
                      other # change /\ other[1] = "move"
          BY <2>4, <3>2, <5>1
        <5>2. CASE item_scope = change[2]
          <6>1. PICK d \in Did(s) : d[1] = "move"
            BY <2>2, <5>2
          <6>2. d[2] # item_scope
            <7>1. d \in Changes(call[s].request)
              BY <2>1
            <7>2. QED BY <6>1, <7>1, ChangesAre
          <6>3. last \in n + 1 .. Len(log') /\ log'[last].did = Did(s) /\ d # change
            <7>1. last \in n + 1 .. Len(log') /\ log'[last].did = Did(s)
              BY <2>4, <2>5, <3>2
            <7>2. QED BY <5>2, <6>2, <7>1
          <6>4. QED BY <6>1, <6>3
        <5>3. QED BY <4>1, <3>2, <5>1, <5>2 DEF Effects, Stands
      <4>3. QED BY <2>2, <2>9, <3>2, <4>1, <4>2 DEF Effects, Stands
    <3>3. QED BY <2>4, <3>1, <3>2
  <2>11. NoneRepeats'
    <3> SUFFICES ASSUME NEW n \in DOMAIN log', NEW m \in n + 1 .. Len(log')
                 PROVE  Repeats(n, m)'
      BY DEF NoneRepeats
    <3>1. n \in DOMAIN log /\ log'[n] = log[n]
      BY <2>4
    <3>2. \A k \in n + 1 .. m - 1 : log'[k] = log[k]
      BY <2>4
    <3>3. CASE m \in 1 .. Len(log)
      <4>1. m \in DOMAIN log /\ log'[m] = log[m] /\ Repeats(n, m)
        BY <2>4, <3>1, <3>3 DEF Effects, NoneRepeats
      <4>2. QED BY <3>1, <3>2, <4>1, ZenonT(40) DEF Repeats, Renews
    <3>4. CASE m = last
      <4> SUFFICES ASSUME NEW change \in log'[n].did \cap log'[m].did,
                          change[1] \notin {"row", "item"},
                          ~Renews(log'[n], change[2]), ~Renews(log'[m], change[2])
                   PROVE  \E k \in n + 1 .. m - 1 : \E other \in log'[k].did :
                             /\ other # change
                             /\ IF change[1] = "move" THEN other[1] = "move"
                                ELSE other[2] = change[2]
        BY DEF Repeats
      <4>1. /\ change \in log[n].did /\ change \in Did(s) /\ change \in Changes(call[s].request)
            /\ log'[m].did = Did(s) /\ m - 1 = Len(log)
        BY <2>1, <2>4, <2>5, <3>1, <3>4
      <4>2. change = << change[1], change[2] >> /\ change[1] \in {"open", "close", "move"}
        BY <4>1, ChangesAre
      <4>3. CASE change[1] = "open"
        <5>1. ~IsOpen(change[2])
          <6>1. << "close", change[2] >> \notin Did(s)
            BY <4>1, <4>2, <4>3 DEF Renews
          <6>2. QED BY <2>1, <4>1, <4>3, <6>1, ChangesAre
        <5>2. LaterIn(n, << "close", change[2] >>)
          BY <3>1, <4>1, <4>3, <5>1 DEF Effects, Stands
        <5>3. << "close", change[2] >> # change /\ << "close", change[2] >>[2] = change[2]
          BY <4>3
        <5>4. QED BY <3>2, <4>1, <4>3, <5>2, <5>3 DEF LaterIn
      <4>4. CASE change[1] = "close"
        <5>1. IsOpen(change[2])
          BY <4>1, <4>4, ChangesAre
        <5>2. << "open", change[2] >> \notin log[n].did
          BY <3>1, <4>1, <4>2, <4>4 DEF Renews
        <5>3. LaterIn(n, << "open", change[2] >>)
          BY <3>1, <4>1, <4>4, <5>1, <5>2 DEF Effects, Stands
        <5>4. << "open", change[2] >> # change /\ << "open", change[2] >>[2] = change[2]
          BY <4>4
        <5>5. QED BY <3>2, <4>1, <4>4, <5>3, <5>4, SMTT(30) DEF LaterIn
      <4>5. CASE change[1] = "move"
        <5>1. change[2] # item_scope
          BY <4>1, <4>5, ChangesAre
        <5>2. PICK k \in n + 1 .. Len(log) : \E other \in log[k].did :
                      other # change /\ other[1] = "move"
          BY <3>1, <4>1, <4>5, <5>1 DEF Effects, Stands
        <5>3. QED BY <3>2, <4>1, <4>5, <5>2
      <4>6. QED BY <4>2, <4>3, <4>4, <4>5
    <3>5. QED BY <2>4, <3>1, <3>3, <3>4
  <2>12. QED BY <2>6, <2>7, <2>8, <2>10, <2>11 DEF Effects
<1>5. QED BY <1>3, <1>4

LEMMA EffectsStep ==
    ASSUME Effects, [SurfacesNext]_surface_vars
    PROVE  Effects'
<1>1. CASE UNCHANGED surface_vars
  <2>1. Still /\ asked' = asked /\ call' = call
    BY <1>1 DEF surface_vars, Still
  <2>2. Numbered' /\ Unlogged'
    BY <2>1 DEF Still, Effects, Numbered, Unlogged, HasActed
  <2>3. QED BY <2>1, <2>2, StillKeeps DEF Effects
<1>2. ASSUME NEW s \in Surface, Execute(s) PROVE Effects'
  BY <1>2, ExecuteKeeps
<1>3. ASSUME NEW s \in Surface, Answer(s) PROVE Effects'
  <2>1. Still /\ asked' = asked /\ call' = [call EXCEPT ![s] = None]
    BY <1>3 DEF Answer, Still
  <2>2. QED BY <2>1, EndKeeps, StillKeeps DEF Effects
<1>4. ASSUME NEW s \in Surface, LoseAnswer(s) PROVE Effects'
  BY <1>4, LoseKeeps
<1>5. CASE TranslateCli \/ TranslateMcp \/ QueueTask \/ TranslateNode
  BY <1>5, TranslateKeeps
<1>6. ASSUME NEW s \in Surface, NEW op, NEW a, Ask(s, op, a) PROVE Effects'
  BY <1>6, AskKeeps
<1>7. QED BY <1>1, <1>2, <1>3, <1>4, <1>5, <1>6 DEF SurfacesNext

\* On every surface, for any calls, however often their answers are lost: a call
\* that is refused has changed nothing, a read-only surface changes nothing, and
\* a call asked again changes a fact or a scope a second time only if another
\* change undid the first (add_fact, supersede_fact, invalidate_fact, set_scope).
THEOREM EffectsOnce == SurfacesSpec => []CallsTakeEffectOnce
<1>1. Effects => CallsTakeEffectOnce
  <2> SUFFICES ASSUME Effects PROVE CallsTakeEffectOnce
    OBVIOUS
  <2>1. ASSUME NEW s \in Surface, call[s] # None, call[s].phase = "done", call[s].error # None,
               NEW n \in DOMAIN log
        PROVE  ~(log[n].number = call[s].number /\ log[n].try = call[s].try)
    BY <2>1 DEF Effects, Unlogged, HasActed
  <2>2. QED BY <2>1 DEF Effects, WritableOnly, NoneRepeats, Repeats, CallsTakeEffectOnce
<1>2. QED BY <1>1, EffectsInit, EffectsStep, PTL DEF SurfacesSpec

(***************************************************************************)
(* One meaning for three surfaces.                                         *)
(***************************************************************************)
SurfaceErrors ==
    {"Usage", "Json", "InvalidId", "InvalidFactId", "UnknownAdapter", "InvalidProject"}

\* Malformed requests that a surface passes on.
StoreRefuses(r) ==
    \/ r.method \in OnFacts \cup {"ingest", "set_scope"} /\ r.scope = "a//b"
    \/ r.method = "retrieve" /\ r.text = ""

LEMMA NoneIsNoWord ==
    None \notin Wrong \cup ErrorName \cup {""} /\ None \notin Int /\ None \notin BOOLEAN
BY SurfacesAssumption

WakeupLimit(a) == Given(a.limit, 20)
WakeupBytes(a) == Given(a.max_bytes, 8192)

\* The arguments of each operation, what is malformed among them, and what of
\* it is left to the store.
LEMMA AddMeans ==
    ASSUME NEW a
    PROVE  Meant("add", a) =
               AddFact(a.subject_kind,
                   (IF a.value = TRUE THEN Value(a.object) ELSE Entity(a.object, a.object_kind)),
                   a.from, a.to, Given(a.confidence, "full"), a.source, a.scope)
BY DEF Meant

LEMMA AddCall ==
    ASSUME NEW a \in Args["add"]
    PROVE  /\ DOMAIN a = {"object", "value", "subject_kind", "object_kind", "from",
                          "to", "confidence", "source", "scope"}
           /\ a = [name \in DOMAIN a |-> a[name]]
           /\ a.object \in {"db"} /\ a.value \in Flags
              /\ a.subject_kind \in {None, "person"} /\ a.object_kind \in {None, "tool"}
              /\ a.from \in Times /\ a.to \in Times /\ a.confidence \in {None, "low"}
              /\ a.source \in Ids \cup {None, ""} /\ a.scope \in Scopes
           /\ Malformed("add", a) <=>
                 \/ a.from = "no time"
                 \/ a.to = "no time"
                 \/ a.source = "no id"
                 \/ a.scope = "a//b"
           /\ a.scope = "a//b" => StoreRefuses(Meant("add", a))
<1>1. a \in [object : {"db"}, value : Flags, subject_kind : {None, "person"},
             object_kind : {None, "tool"}, from : Times, to : Times,
             confidence : {None, "low"}, source : Ids \cup {None, ""}, scope : Scopes]
  BY DEF Args
<1>2. /\ DOMAIN a = {"object", "value", "subject_kind", "object_kind", "from", "to",
                     "confidence", "source", "scope"}
      /\ a = [name \in DOMAIN a |-> a[name]]
      /\ a.object \in {"db"} /\ a.value \in Flags /\ a.subject_kind \in {None, "person"}
         /\ a.object_kind \in {None, "tool"} /\ a.from \in Times /\ a.to \in Times
         /\ a.confidence \in {None, "low"} /\ a.source \in Ids \cup {None, ""}
         /\ a.scope \in Scopes
  BY <1>1
<1>3. Malformed("add", a) <=>
        \E name \in {"object", "subject_kind", "object_kind", "from", "to",
                    "confidence", "source", "scope"} : a[name] \in Wrong
  BY <1>2 DEF Malformed, NotWords
<1>4. (\E name \in {"object", "subject_kind", "object_kind", "from", "to",
                    "confidence", "source", "scope"} : a[name] \in Wrong)
      <=> a.object \in Wrong \/ a.subject_kind \in Wrong \/ a.object_kind \in Wrong
          \/ a.from \in Wrong \/ a.to \in Wrong \/ a.confidence \in Wrong
          \/ a.source \in Wrong \/ a.scope \in Wrong
  OBVIOUS
<1>5. /\ a.object \notin Wrong
      /\ a.subject_kind \notin Wrong
      /\ a.object_kind \notin Wrong
      /\ (a.from \in Wrong <=> a.from = "no time")
      /\ (a.to \in Wrong <=> a.to = "no time")
      /\ a.confidence \notin Wrong
      /\ (a.source \in Wrong <=> a.source = "no id")
      /\ (a.scope \in Wrong <=> a.scope = "a//b")
  BY <1>2, NoneIsNoWord, ZenonT(40) DEF Wrong, Ids, Scopes, Times
<1> DEFINE request == AddFact(a.subject_kind,
                     (IF a.value = TRUE THEN Value(a.object) ELSE Entity(a.object, a.object_kind)),
                     a.from, a.to, Given(a.confidence, "full"), a.source, a.scope)
<1>6. a.scope = "a//b" => StoreRefuses(request)
  BY DEF StoreRefuses, OnFacts, AddFact
<1>7. Meant("add", a) = request
  BY AddMeans
<1> HIDE DEF request
<1>8. QED BY <1>2, <1>3, <1>4, <1>5, <1>6, <1>7

LEMMA QueryMeans ==
    ASSUME NEW a
    PROVE  /\ a.entity # None => Meant("query", a) =
                  QueryEntity(a.entity, GraphQuery(ScopeFilter(a.scope, a.exact = TRUE), a.as_of, a.recorded_at,
                      Given(a.direction, "both")))
           /\ a.entity = None => Meant("query", a) =
                  QueryPredicate(a.predicate, GraphQuery(ScopeFilter(a.scope, a.exact = TRUE), a.as_of, a.recorded_at,
                      Given(a.direction, "both")))
BY DEF Meant

LEMMA QueryCall ==
    ASSUME NEW a \in Args["query"]
    PROVE  /\ DOMAIN a = {"entity", "predicate", "direction", "as_of", "recorded_at",
                          "scope", "exact"}
           /\ a = [name \in DOMAIN a |-> a[name]]
           /\ a.entity \in {None, "ada"} /\ a.predicate \in {None, "uses"}
              /\ a.direction \in Directions /\ a.as_of \in Times
              /\ a.recorded_at \in Times /\ a.scope \in Scopes /\ a.exact \in Flags
           /\ Malformed("query", a) <=>
                 \/ a.direction = "sideways"
                 \/ a.as_of = "no time"
                 \/ a.recorded_at = "no time"
                 \/ a.scope = "a//b"
                 \/ (a.entity = None) = (a.predicate = None)
<1>1. a \in [entity : {None, "ada"}, predicate : {None, "uses"},
             direction : Directions, as_of : Times, recorded_at : Times,
             scope : Scopes, exact : Flags]
  BY DEF Args
<1>2. /\ DOMAIN a = {"entity", "predicate", "direction", "as_of", "recorded_at",
                     "scope", "exact"}
      /\ a = [name \in DOMAIN a |-> a[name]]
      /\ a.entity \in {None, "ada"} /\ a.predicate \in {None, "uses"}
         /\ a.direction \in Directions /\ a.as_of \in Times /\ a.recorded_at \in Times
         /\ a.scope \in Scopes /\ a.exact \in Flags
  BY <1>1
<1>3. Malformed("query", a) <=>
        \/ \E name \in {"entity", "predicate", "direction", "as_of", "recorded_at",
                       "scope"} : a[name] \in Wrong
        \/ (a.entity = None) = (a.predicate = None)
  BY <1>2 DEF Malformed, NotWords
<1>4. (\E name \in {"entity", "predicate", "direction", "as_of", "recorded_at", "scope"} : a[name] \in Wrong)
      <=> a.entity \in Wrong \/ a.predicate \in Wrong \/ a.direction \in Wrong
          \/ a.as_of \in Wrong \/ a.recorded_at \in Wrong \/ a.scope \in Wrong
  OBVIOUS
<1>5. /\ a.entity \notin Wrong
      /\ a.predicate \notin Wrong
      /\ (a.direction \in Wrong <=> a.direction = "sideways")
      /\ (a.as_of \in Wrong <=> a.as_of = "no time")
      /\ (a.recorded_at \in Wrong <=> a.recorded_at = "no time")
      /\ (a.scope \in Wrong <=> a.scope = "a//b")
  BY <1>2, NoneIsNoWord, ZenonT(40) DEF Wrong, Directions, Scopes, Times
<1>6. QED BY <1>2, <1>3, <1>4, <1>5

LEMMA InvalidateMeans ==
    ASSUME NEW a
    PROVE  Meant("invalidate", a) =
               InvalidateFact((IF a.value = TRUE THEN Value(a.object) ELSE Entity(a.object, None)),
                   a.scope, a.at)
BY DEF Meant

LEMMA InvalidateCall ==
    ASSUME NEW a \in Args["invalidate"]
    PROVE  /\ DOMAIN a = {"object", "value", "at", "scope"}
           /\ a = [name \in DOMAIN a |-> a[name]]
           /\ a.object \in {"db"} /\ a.value \in Flags /\ a.at \in Times
              /\ a.scope \in Scopes
           /\ Malformed("invalidate", a) <=>
                 \/ a.at = "no time"
                 \/ a.scope = "a//b"
           /\ a.scope = "a//b" => StoreRefuses(Meant("invalidate", a))
<1>1. a \in [object : {"db"}, value : Flags, at : Times, scope : Scopes]
  BY DEF Args
<1>2. /\ DOMAIN a = {"object", "value", "at", "scope"}
      /\ a = [name \in DOMAIN a |-> a[name]]
      /\ a.object \in {"db"} /\ a.value \in Flags /\ a.at \in Times
         /\ a.scope \in Scopes
  BY <1>1
<1>3. Malformed("invalidate", a) <=>
        \E name \in {"object", "at", "scope"} : a[name] \in Wrong
  BY <1>2 DEF Malformed, NotWords
<1>4. (\E name \in {"object", "at", "scope"} : a[name] \in Wrong)
      <=> a.object \in Wrong \/ a.at \in Wrong \/ a.scope \in Wrong
  OBVIOUS
<1>5. /\ a.object \notin Wrong
      /\ (a.at \in Wrong <=> a.at = "no time")
      /\ (a.scope \in Wrong <=> a.scope = "a//b")
  BY <1>2, NoneIsNoWord DEF Wrong, Scopes, Times
<1> DEFINE request == InvalidateFact((IF a.value = TRUE THEN Value(a.object) ELSE Entity(a.object, None)),
                     a.scope, a.at)
<1>6. a.scope = "a//b" => StoreRefuses(request)
  BY DEF StoreRefuses, OnFacts, InvalidateFact
<1>7. Meant("invalidate", a) = request
  BY InvalidateMeans
<1> HIDE DEF request
<1>8. QED BY <1>2, <1>3, <1>4, <1>5, <1>6, <1>7

LEMMA SupersedeMeans ==
    ASSUME NEW a
    PROVE  Meant("supersede", a) =
               SupersedeFact((IF a.value = TRUE THEN Value(a.object) ELSE Entity(a.object, None)),
                   (IF a.value = TRUE THEN Value(a.new) ELSE Entity(a.new, None)), a.scope, a.at)
BY DEF Meant

LEMMA SupersedeCall ==
    ASSUME NEW a \in Args["supersede"]
    PROVE  /\ DOMAIN a = {"object", "new", "value", "at", "scope"}
           /\ a = [name \in DOMAIN a |-> a[name]]
           /\ a.object \in Names /\ a.new \in Names /\ a.value \in Flags
              /\ a.at \in Times /\ a.scope \in Scopes
           /\ Malformed("supersede", a) <=>
                 \/ a.at = "no time"
                 \/ a.scope = "a//b"
           /\ a.scope = "a//b" => StoreRefuses(Meant("supersede", a))
<1>1. a \in [object : Names, new : Names, value : Flags, at : Times, scope : Scopes]
  BY DEF Args
<1>2. /\ DOMAIN a = {"object", "new", "value", "at", "scope"}
      /\ a = [name \in DOMAIN a |-> a[name]]
      /\ a.object \in Names /\ a.new \in Names /\ a.value \in Flags /\ a.at \in Times
         /\ a.scope \in Scopes
  BY <1>1
<1>3. Malformed("supersede", a) <=>
        \E name \in {"object", "new", "at", "scope"} : a[name] \in Wrong
  BY <1>2 DEF Malformed, NotWords
<1>4. (\E name \in {"object", "new", "at", "scope"} : a[name] \in Wrong)
      <=> a.object \in Wrong \/ a.new \in Wrong \/ a.at \in Wrong \/ a.scope \in Wrong
  OBVIOUS
<1>5. /\ a.object \notin Wrong
      /\ a.new \notin Wrong
      /\ (a.at \in Wrong <=> a.at = "no time")
      /\ (a.scope \in Wrong <=> a.scope = "a//b")
  BY <1>2, NoneIsNoWord DEF Wrong, Names, Scopes, Times
<1> DEFINE request == SupersedeFact((IF a.value = TRUE THEN Value(a.object) ELSE Entity(a.object, None)),
                     (IF a.value = TRUE THEN Value(a.new) ELSE Entity(a.new, None)), a.scope, a.at)
<1>6. a.scope = "a//b" => StoreRefuses(request)
  BY DEF StoreRefuses, OnFacts, SupersedeFact
<1>7. Meant("supersede", a) = request
  BY SupersedeMeans
<1> HIDE DEF request
<1>8. QED BY <1>2, <1>3, <1>4, <1>5, <1>6, <1>7

LEMMA TimelineMeans ==
    ASSUME NEW a
    PROVE  Meant("timeline", a) =
               Read("timeline", ScopeFilter(a.scope, a.exact = TRUE), a.entity)
BY DEF Meant

LEMMA TimelineCall ==
    ASSUME NEW a \in Args["timeline"]
    PROVE  /\ DOMAIN a = {"entity", "scope", "exact"}
           /\ a = [name \in DOMAIN a |-> a[name]]
           /\ a.entity \in {None, "ada"} /\ a.scope \in Scopes /\ a.exact \in Flags
           /\ Malformed("timeline", a) <=> a.scope = "a//b"
<1>1. a \in [entity : {None, "ada"}, scope : Scopes, exact : Flags]
  BY DEF Args
<1>2. /\ DOMAIN a = {"entity", "scope", "exact"}
      /\ a = [name \in DOMAIN a |-> a[name]]
      /\ a.entity \in {None, "ada"} /\ a.scope \in Scopes /\ a.exact \in Flags
  BY <1>1
<1>3. Malformed("timeline", a) <=>
        \E name \in {"entity", "scope"} : a[name] \in Wrong
  BY <1>2 DEF Malformed, NotWords
<1>4. (\E name \in {"entity", "scope"} : a[name] \in Wrong)
      <=> a.entity \in Wrong \/ a.scope \in Wrong
  OBVIOUS
<1>5. /\ a.entity \notin Wrong
      /\ (a.scope \in Wrong <=> a.scope = "a//b")
  BY <1>2, NoneIsNoWord DEF Wrong, Scopes
<1>6. QED BY <1>2, <1>3, <1>4, <1>5

LEMMA StatsMeans ==
    ASSUME NEW a
    PROVE  Meant("stats", a) =
               Read("graph_stats", ScopeFilter(a.scope, a.exact = TRUE), None)
BY DEF Meant

LEMMA StatsCall ==
    ASSUME NEW a \in Args["stats"]
    PROVE  /\ DOMAIN a = {"scope", "exact"}
           /\ a = [name \in DOMAIN a |-> a[name]]
           /\ a.scope \in Scopes /\ a.exact \in Flags
           /\ Malformed("stats", a) <=> a.scope = "a//b"
<1>1. a \in [scope : Scopes, exact : Flags]
  BY DEF Args
<1>2. /\ DOMAIN a = {"scope", "exact"}
      /\ a = [name \in DOMAIN a |-> a[name]]
      /\ a.scope \in Scopes /\ a.exact \in Flags
  BY <1>1
<1>3. Malformed("stats", a) <=>
        \E name \in {"scope"} : a[name] \in Wrong
  BY <1>2 DEF Malformed, NotWords
<1>4. (\E name \in {"scope"} : a[name] \in Wrong)
      <=> a.scope \in Wrong
  OBVIOUS
<1>5. /\ (a.scope \in Wrong <=> a.scope = "a//b")
  BY <1>2, NoneIsNoWord DEF Wrong, Scopes
<1>6. QED BY <1>2, <1>3, <1>4, <1>5

LEMMA EntitiesMeans ==
    ASSUME NEW a
    PROVE  Meant("entities", a) =
               Read("entities", ScopeFilter(a.scope, a.exact = TRUE), a.kind)
BY DEF Meant

LEMMA EntitiesCall ==
    ASSUME NEW a \in Args["entities"]
    PROVE  /\ DOMAIN a = {"kind", "scope", "exact"}
           /\ a = [name \in DOMAIN a |-> a[name]]
           /\ a.kind \in {None, "tool"} /\ a.scope \in Scopes /\ a.exact \in Flags
           /\ Malformed("entities", a) <=> a.scope = "a//b"
<1>1. a \in [kind : {None, "tool"}, scope : Scopes, exact : Flags]
  BY DEF Args
<1>2. /\ DOMAIN a = {"kind", "scope", "exact"}
      /\ a = [name \in DOMAIN a |-> a[name]]
      /\ a.kind \in {None, "tool"} /\ a.scope \in Scopes /\ a.exact \in Flags
  BY <1>1
<1>3. Malformed("entities", a) <=>
        \E name \in {"kind", "scope"} : a[name] \in Wrong
  BY <1>2 DEF Malformed, NotWords
<1>4. (\E name \in {"kind", "scope"} : a[name] \in Wrong)
      <=> a.kind \in Wrong \/ a.scope \in Wrong
  OBVIOUS
<1>5. /\ a.kind \notin Wrong
      /\ (a.scope \in Wrong <=> a.scope = "a//b")
  BY <1>2, NoneIsNoWord DEF Wrong, Scopes
<1>6. QED BY <1>2, <1>3, <1>4, <1>5

LEMMA HistoryMeans ==
    ASSUME NEW a
    PROVE  Meant("history", a) =
               ById("fact_history", a.id)
BY DEF Meant

LEMMA HistoryCall ==
    ASSUME NEW a \in Args["history"]
    PROVE  /\ DOMAIN a = {"id"}
           /\ a = [name \in DOMAIN a |-> a[name]]
           /\ a.id \in Ids
           /\ Malformed("history", a) <=> a.id = "no id"
<1>1. a \in [id : Ids]
  BY DEF Args
<1>2. /\ DOMAIN a = {"id"}
      /\ a = [name \in DOMAIN a |-> a[name]]
      /\ a.id \in Ids
  BY <1>1
<1>3. Malformed("history", a) <=>
        \E name \in {"id"} : a[name] \in Wrong
  BY <1>2 DEF Malformed, NotWords
<1>4. (\E name \in {"id"} : a[name] \in Wrong)
      <=> a.id \in Wrong
  OBVIOUS
<1>5. /\ (a.id \in Wrong <=> a.id = "no id")
  BY <1>2, NoneIsNoWord DEF Wrong, Ids
<1>6. QED BY <1>2, <1>3, <1>4, <1>5

LEMMA GetMeans ==
    ASSUME NEW a
    PROVE  Meant("get", a) =
               ById("get", a.id)
BY DEF Meant

LEMMA GetCall ==
    ASSUME NEW a \in Args["get"]
    PROVE  /\ DOMAIN a = {"id"}
           /\ a = [name \in DOMAIN a |-> a[name]]
           /\ a.id \in Ids
           /\ Malformed("get", a) <=> a.id = "no id"
<1>1. a \in [id : Ids]
  BY DEF Args
<1>2. /\ DOMAIN a = {"id"}
      /\ a = [name \in DOMAIN a |-> a[name]]
      /\ a.id \in Ids
  BY <1>1
<1>3. Malformed("get", a) <=>
        \E name \in {"id"} : a[name] \in Wrong
  BY <1>2 DEF Malformed, NotWords
<1>4. (\E name \in {"id"} : a[name] \in Wrong)
      <=> a.id \in Wrong
  OBVIOUS
<1>5. /\ (a.id \in Wrong <=> a.id = "no id")
  BY <1>2, NoneIsNoWord DEF Wrong, Ids
<1>6. QED BY <1>2, <1>3, <1>4, <1>5

LEMMA RevisionsMeans ==
    ASSUME NEW a
    PROVE  Meant("revisions", a) =
               ById("revision_history", a.id)
BY DEF Meant

LEMMA RevisionsCall ==
    ASSUME NEW a \in Args["revisions"]
    PROVE  /\ DOMAIN a = {"id"}
           /\ a = [name \in DOMAIN a |-> a[name]]
           /\ a.id \in Ids
           /\ Malformed("revisions", a) <=> a.id = "no id"
<1>1. a \in [id : Ids]
  BY DEF Args
<1>2. /\ DOMAIN a = {"id"}
      /\ a = [name \in DOMAIN a |-> a[name]]
      /\ a.id \in Ids
  BY <1>1
<1>3. Malformed("revisions", a) <=>
        \E name \in {"id"} : a[name] \in Wrong
  BY <1>2 DEF Malformed, NotWords
<1>4. (\E name \in {"id"} : a[name] \in Wrong)
      <=> a.id \in Wrong
  OBVIOUS
<1>5. /\ (a.id \in Wrong <=> a.id = "no id")
  BY <1>2, NoneIsNoWord DEF Wrong, Ids
<1>6. QED BY <1>2, <1>3, <1>4, <1>5

LEMMA ListMeans ==
    ASSUME NEW a
    PROVE  Meant("list", a) =
               ListByTags(a.tags, ScopeFilter(a.scope, a.exact = TRUE), a.limit)
BY DEF Meant

LEMMA ListCall ==
    ASSUME NEW a \in Args["list"]
    PROVE  /\ DOMAIN a = {"tags", "limit", "scope", "exact"}
           /\ a = [name \in DOMAIN a |-> a[name]]
           /\ a.tags \in {None, "tag"} /\ a.limit \in Limits /\ a.scope \in Scopes
              /\ a.exact \in Flags
           /\ Malformed("list", a) <=> a.scope = "a//b"
<1>1. a \in [tags : {None, "tag"}, limit : Limits, scope : Scopes, exact : Flags]
  BY DEF Args
<1>2. /\ DOMAIN a = {"tags", "limit", "scope", "exact"}
      /\ a = [name \in DOMAIN a |-> a[name]]
      /\ a.tags \in {None, "tag"} /\ a.limit \in Limits /\ a.scope \in Scopes
         /\ a.exact \in Flags
  BY <1>1
<1>3. Malformed("list", a) <=>
        \E name \in {"tags", "scope"} : a[name] \in Wrong
  BY <1>2 DEF Malformed, NotWords
<1>4. (\E name \in {"tags", "scope"} : a[name] \in Wrong)
      <=> a.tags \in Wrong \/ a.scope \in Wrong
  OBVIOUS
<1>5. /\ a.tags \notin Wrong
      /\ (a.scope \in Wrong <=> a.scope = "a//b")
  BY <1>2, NoneIsNoWord DEF Wrong, Scopes
<1>6. QED BY <1>2, <1>3, <1>4, <1>5

LEMMA ScopesMeans ==
    ASSUME NEW a
    PROVE  Meant("scopes", a) =
               Read("scopes", None, None)
BY DEF Meant

LEMMA ScopesCall ==
    ASSUME NEW a \in Args["scopes"]
    PROVE  /\ DOMAIN a = {"nothing"}
           /\ a = [name \in DOMAIN a |-> a[name]]
           /\ a.nothing \in {None}
           /\ ~Malformed("scopes", a)
<1>1. a \in [nothing : {None}]
  BY DEF Args
<1>2. /\ DOMAIN a = {"nothing"}
      /\ a = [name \in DOMAIN a |-> a[name]]
      /\ a.nothing \in {None}
  BY <1>1
<1>3. Malformed("scopes", a) <=>
        \E name \in {"nothing"} : a[name] \in Wrong
  BY <1>2 DEF Malformed, NotWords
<1>4. (\E name \in {"nothing"} : a[name] \in Wrong)
      <=> a.nothing \in Wrong
  OBVIOUS
<1>5. /\ a.nothing \notin Wrong
  BY <1>2, NoneIsNoWord DEF Wrong
<1>6. QED BY <1>2, <1>3, <1>4, <1>5

LEMMA ExportMeans ==
    ASSUME NEW a
    PROVE  Meant("export", a) =
               Read("export", None, None)
BY DEF Meant

LEMMA ExportCall ==
    ASSUME NEW a \in Args["export"]
    PROVE  /\ DOMAIN a = {"nothing"}
           /\ a = [name \in DOMAIN a |-> a[name]]
           /\ a.nothing \in {None}
           /\ ~Malformed("export", a)
<1>1. a \in [nothing : {None}]
  BY DEF Args
<1>2. /\ DOMAIN a = {"nothing"}
      /\ a = [name \in DOMAIN a |-> a[name]]
      /\ a.nothing \in {None}
  BY <1>1
<1>3. Malformed("export", a) <=>
        \E name \in {"nothing"} : a[name] \in Wrong
  BY <1>2 DEF Malformed, NotWords
<1>4. (\E name \in {"nothing"} : a[name] \in Wrong)
      <=> a.nothing \in Wrong
  OBVIOUS
<1>5. /\ a.nothing \notin Wrong
  BY <1>2, NoneIsNoWord DEF Wrong
<1>6. QED BY <1>2, <1>3, <1>4, <1>5

LEMMA IngestMeans ==
    ASSUME NEW a
    PROVE  Meant("ingest", a) =
               IngestItem(a.tags, a.source, a.supersedes, Given(a.metadata, "{}"), a.scope)
BY DEF Meant

LEMMA IngestCall ==
    ASSUME NEW a \in Args["ingest"]
    PROVE  /\ DOMAIN a = {"contents", "tags", "source", "supersedes", "metadata",
                          "scope"}
           /\ a = [name \in DOMAIN a |-> a[name]]
           /\ a.contents \in 0 .. 2 /\ a.tags \in {None, "tag"}
              /\ a.source \in {None, "mail"} /\ a.supersedes \in Ids \cup {None, ""}
              /\ a.metadata \in {None, "json", "{"} /\ a.scope \in Scopes
           /\ Malformed("ingest", a) <=>
                 \/ a.supersedes = "no id"
                 \/ a.metadata = "{"
                 \/ a.scope = "a//b"
                 \/ a.contents # 1
           /\ a.scope = "a//b" => StoreRefuses(Meant("ingest", a))
<1>1. a \in [contents : 0 .. 2, tags : {None, "tag"}, source : {None, "mail"},
             supersedes : Ids \cup {None, ""}, metadata : {None, "json", "{"},
             scope : Scopes]
  BY DEF Args
<1>2. /\ DOMAIN a = {"contents", "tags", "source", "supersedes", "metadata", "scope"}
      /\ a = [name \in DOMAIN a |-> a[name]]
      /\ a.contents \in 0 .. 2 /\ a.tags \in {None, "tag"}
         /\ a.source \in {None, "mail"} /\ a.supersedes \in Ids \cup {None, ""}
         /\ a.metadata \in {None, "json", "{"} /\ a.scope \in Scopes
  BY <1>1
<1>3. Malformed("ingest", a) <=>
        \/ \E name \in {"tags", "source", "supersedes", "metadata", "scope"} : a[name] \in Wrong
        \/ a.contents # 1
  BY <1>2 DEF Malformed, NotWords
<1>4. (\E name \in {"tags", "source", "supersedes", "metadata", "scope"} : a[name] \in Wrong)
      <=> a.tags \in Wrong \/ a.source \in Wrong \/ a.supersedes \in Wrong
          \/ a.metadata \in Wrong \/ a.scope \in Wrong
  OBVIOUS
<1>5. /\ a.tags \notin Wrong
      /\ a.source \notin Wrong
      /\ (a.supersedes \in Wrong <=> a.supersedes = "no id")
      /\ (a.metadata \in Wrong <=> a.metadata = "{")
      /\ (a.scope \in Wrong <=> a.scope = "a//b")
  BY <1>2, NoneIsNoWord, ZenonT(40) DEF Wrong, Ids, Scopes
<1> DEFINE request == IngestItem(a.tags, a.source, a.supersedes, Given(a.metadata, "{}"), a.scope)
<1>6. a.scope = "a//b" => StoreRefuses(request)
  BY DEF StoreRefuses, OnFacts, IngestItem
<1>7. Meant("ingest", a) = request
  BY IngestMeans
<1> HIDE DEF request
<1>8. QED BY <1>2, <1>3, <1>4, <1>5, <1>6, <1>7

LEMMA SetScopeMeans ==
    ASSUME NEW a
    PROVE  Meant("set_scope", a) =
               SetItemScope(a.id, a.scope)
BY DEF Meant

LEMMA SetScopeCall ==
    ASSUME NEW a \in Args["set_scope"]
    PROVE  /\ DOMAIN a = {"id", "scope"}
           /\ a = [name \in DOMAIN a |-> a[name]]
           /\ a.id \in Ids /\ a.scope \in Scopes
           /\ Malformed("set_scope", a) <=>
                 \/ a.id = "no id"
                 \/ a.scope = "a//b"
           /\ a.scope = "a//b" => StoreRefuses(Meant("set_scope", a))
<1>1. a \in [id : Ids, scope : Scopes]
  BY DEF Args
<1>2. /\ DOMAIN a = {"id", "scope"}
      /\ a = [name \in DOMAIN a |-> a[name]]
      /\ a.id \in Ids /\ a.scope \in Scopes
  BY <1>1
<1>3. Malformed("set_scope", a) <=>
        \E name \in {"id", "scope"} : a[name] \in Wrong
  BY <1>2 DEF Malformed, NotWords
<1>4. (\E name \in {"id", "scope"} : a[name] \in Wrong)
      <=> a.id \in Wrong \/ a.scope \in Wrong
  OBVIOUS
<1>5. /\ (a.id \in Wrong <=> a.id = "no id")
      /\ (a.scope \in Wrong <=> a.scope = "a//b")
  BY <1>2, NoneIsNoWord DEF Wrong, Ids, Scopes
<1> DEFINE request == SetItemScope(a.id, a.scope)
<1>6. a.scope = "a//b" => StoreRefuses(request)
  BY DEF StoreRefuses, OnFacts, SetItemScope
<1>7. Meant("set_scope", a) = request
  BY SetScopeMeans
<1> HIDE DEF request
<1>8. QED BY <1>2, <1>3, <1>4, <1>5, <1>6, <1>7

LEMMA SearchMeans ==
    ASSUME NEW a
    PROVE  Meant("search", a) =
               Search(a.text, Given(a.mode, "auto"), Given(a.limit, 10),
                      ScopeFilter(a.scope, a.exact = TRUE))
BY DEF Meant

LEMMA SearchCall ==
    ASSUME NEW a \in Args["search"]
    PROVE  /\ DOMAIN a = {"text", "mode", "limit", "scope", "exact"}
           /\ a = [name \in DOMAIN a |-> a[name]]
           /\ a.text \in {"words"} /\ a.mode \in Modes /\ a.limit \in Limits
              /\ a.scope \in Scopes /\ a.exact \in Flags
           /\ Malformed("search", a) <=>
                 \/ a.mode = "no mode"
                 \/ a.scope = "a//b"
<1>1. a \in [text : {"words"}, mode : Modes, limit : Limits, scope : Scopes,
             exact : Flags]
  BY DEF Args
<1>2. /\ DOMAIN a = {"text", "mode", "limit", "scope", "exact"}
      /\ a = [name \in DOMAIN a |-> a[name]]
      /\ a.text \in {"words"} /\ a.mode \in Modes /\ a.limit \in Limits
         /\ a.scope \in Scopes /\ a.exact \in Flags
  BY <1>1
<1>3. Malformed("search", a) <=>
        \E name \in {"text", "mode", "scope"} : a[name] \in Wrong
  BY <1>2 DEF Malformed, NotWords
<1>4. (\E name \in {"text", "mode", "scope"} : a[name] \in Wrong)
      <=> a.text \in Wrong \/ a.mode \in Wrong \/ a.scope \in Wrong
  OBVIOUS
<1>5. /\ a.text \notin Wrong
      /\ (a.mode \in Wrong <=> a.mode = "no mode")
      /\ (a.scope \in Wrong <=> a.scope = "a//b")
  BY <1>2, NoneIsNoWord DEF Wrong, Modes, Scopes
<1>6. QED BY <1>2, <1>3, <1>4, <1>5

LEMMA RetrieveMeans ==
    ASSUME NEW a
    PROVE  Meant("retrieve", a) =
               Retrieve(a.text, Given(a.mode, "auto"), Given(a.limit, 10),
                        Given(a.fetch, 3), Given(a.limit, 10),
                        ScopeFilter(a.scope, a.exact = TRUE))
BY DEF Meant

\* A search that goes deeper is still the retrieval that is meant.
LEMMA DeeperFits ==
    ASSUME NEW a, NEW hits, hits >= Given(a.limit, 10)
    PROVE  Fits(Retrieve(a.text, Given(a.mode, "auto"), hits, Given(a.fetch, 3),
                         Given(a.limit, 10), ScopeFilter(a.scope, a.exact = TRUE)),
                Meant("retrieve", a))
<1> DEFINE meant == Meant("retrieve", a)
           request == Retrieve(a.text, Given(a.mode, "auto"), hits, Given(a.fetch, 3),
                               Given(a.limit, 10), ScopeFilter(a.scope, a.exact = TRUE))
<1>1. /\ meant.method = "retrieve" /\ meant.text = a.text
      /\ meant.mode = Given(a.mode, "auto") /\ meant.fetch = Given(a.fetch, 3)
      /\ meant.blocks = Given(a.limit, 10)
      /\ meant.scope = ScopeFilter(a.scope, a.exact = TRUE)
  <2>1. meant = Retrieve(a.text, Given(a.mode, "auto"), Given(a.limit, 10),
                         Given(a.fetch, 3), Given(a.limit, 10),
                         ScopeFilter(a.scope, a.exact = TRUE))
    BY RetrieveMeans, Zenon
  <2> HIDE DEF meant
  <2>2. QED BY <2>1 DEF Retrieve
<1>2. request.method = "retrieve" /\ request.hits = hits
  BY DEF Retrieve
<1> HIDE DEF meant
<1>3. QED BY <1>1, <1>2 DEF Fits, meant

LEMMA FitsRefused ==
    ASSUME NEW request, NEW meant, Fits(request, meant), StoreRefuses(meant)
    PROVE  StoreRefuses(request)
<1>1. CASE request = meant
  BY <1>1
<1>2. CASE /\ request.method = "retrieve" /\ meant.method = "retrieve"
           /\ request = Retrieve(meant.text, meant.mode, request.hits, meant.fetch,
                                 meant.blocks, meant.scope)
  <2>1. request.text = meant.text
    BY <1>2 DEF Retrieve
  <2>2. meant.text = ""
    BY <1>2 DEF StoreRefuses, OnFacts
  <2>3. QED BY <1>2, <2>1, <2>2 DEF StoreRefuses
<1>3. QED BY <1>1, <1>2 DEF Fits

LEMMA RetrieveCall ==
    ASSUME NEW a \in Args["retrieve"]
    PROVE  /\ DOMAIN a = {"text", "mode", "adapter", "limit", "fetch", "scope", "exact"}
           /\ a = [name \in DOMAIN a |-> a[name]]
           /\ a.text \in {"words", ""} /\ a.mode \in Modes /\ a.adapter \in Adapters
              /\ a.limit \in Limits /\ a.fetch \in {None, 0} /\ a.scope \in Scopes
              /\ a.exact \in Flags
           /\ Malformed("retrieve", a) <=>
                 \/ a.mode = "no mode"
                 \/ a.adapter = "no adapter"
                 \/ a.scope = "a//b"
                 \/ a.text = ""
           /\ a.text = "" => StoreRefuses(Meant("retrieve", a))
<1>1. a \in [text : {"words", ""}, mode : Modes, adapter : Adapters, limit : Limits,
             fetch : {None, 0}, scope : Scopes, exact : Flags]
  BY DEF Args
<1>2. /\ DOMAIN a = {"text", "mode", "adapter", "limit", "fetch", "scope", "exact"}
      /\ a = [name \in DOMAIN a |-> a[name]]
      /\ a.text \in {"words", ""} /\ a.mode \in Modes /\ a.adapter \in Adapters
         /\ a.limit \in Limits /\ a.fetch \in {None, 0} /\ a.scope \in Scopes
         /\ a.exact \in Flags
  BY <1>1
<1>3. Malformed("retrieve", a) <=>
        \/ \E name \in {"text", "mode", "adapter", "scope"} : a[name] \in Wrong
        \/ a.text = ""
  BY <1>2 DEF Malformed, NotWords
<1>4. (\E name \in {"text", "mode", "adapter", "scope"} : a[name] \in Wrong)
      <=> a.text \in Wrong \/ a.mode \in Wrong \/ a.adapter \in Wrong
          \/ a.scope \in Wrong
  OBVIOUS
<1>5. /\ a.text \notin Wrong
      /\ (a.mode \in Wrong <=> a.mode = "no mode")
      /\ (a.adapter \in Wrong <=> a.adapter = "no adapter")
      /\ (a.scope \in Wrong <=> a.scope = "a//b")
  BY <1>2, NoneIsNoWord DEF Wrong, Adapters, Modes, Scopes
<1> DEFINE request == Retrieve(a.text, Given(a.mode, "auto"), Given(a.limit, 10),
                               Given(a.fetch, 3), Given(a.limit, 10),
                               ScopeFilter(a.scope, a.exact = TRUE))
<1>6. a.text = "" => StoreRefuses(request)
  BY DEF StoreRefuses, OnFacts, Retrieve
<1>7. Meant("retrieve", a) = request
  BY RetrieveMeans
<1> HIDE DEF request
<1>8. QED BY <1>2, <1>3, <1>4, <1>5, <1>6, <1>7

LEMMA WakeupMeans ==
    ASSUME NEW a
    PROVE  /\ a.only # None => Meant("wakeup", a) =
                  BuildWakeup(<<a.only>>, WakeupLimit(a), WakeupBytes(a))
           /\ a.only = None => Meant("wakeup", a) =
                  BuildWakeup(ProjectScopes(Given(a.project, "here"), a.files = TRUE),
                      WakeupLimit(a), WakeupBytes(a))
BY DEF Meant, WakeupLimit, WakeupBytes

LEMMA WakeupCall ==
    ASSUME NEW a \in Args["wakeup"]
    PROVE  /\ DOMAIN a = {"project", "only", "files", "limit", "max_bytes", "adapter"}
           /\ a = [name \in DOMAIN a |-> a[name]]
           /\ a.project \in {None, "dir", "no dir"} /\ a.only \in Scopes
              /\ a.files \in Flags /\ a.adapter \in Adapters
           /\ Malformed("wakeup", a) <=>
                 \/ a.project = "no dir"
                 \/ a.only = "a//b"
                 \/ a.adapter = "no adapter"
<1>1. a \in [project : {None, "dir", "no dir"}, only : Scopes, files : Flags,
             limit : {None, 5}, max_bytes : {None, 256}, adapter : Adapters]
  BY DEF Args
<1>2. /\ DOMAIN a = {"project", "only", "files", "limit", "max_bytes", "adapter"}
      /\ a = [name \in DOMAIN a |-> a[name]]
      /\ a.project \in {None, "dir", "no dir"} /\ a.only \in Scopes /\ a.files \in Flags
         /\ a.adapter \in Adapters
  BY <1>1, ZenonT(40)
<1>3. Malformed("wakeup", a) <=>
        \E name \in {"project", "only", "adapter"} : a[name] \in Wrong
  BY <1>2 DEF Malformed, NotWords
<1>4. (\E name \in {"project", "only", "adapter"} : a[name] \in Wrong)
      <=> a.project \in Wrong \/ a.only \in Wrong \/ a.adapter \in Wrong
  OBVIOUS
<1>5. /\ (a.project \in Wrong <=> a.project = "no dir")
      /\ (a.only \in Wrong <=> a.only = "a//b")
      /\ (a.adapter \in Wrong <=> a.adapter = "no adapter")
  BY <1>2, NoneIsNoWord DEF Wrong, Adapters, Scopes
<1>6. QED BY <1>2, <1>3, <1>4, <1>5

(***************************************************************************)
(* What a surface makes of a call: one of some errors, or a request.        *)
(***************************************************************************)
LEMMA Joined == \A w, x, y, z : << w >> \o << x, y, z >> = << w, x, y, z >>
<1> SUFFICES ASSUME NEW w, NEW x, NEW y, NEW z
             PROVE  << w >> \o << x, y, z >> = << w, x, y, z >>
  OBVIOUS
<1> DEFINE S == {w, x, y, z}
           one == << w >>
           three == << x, y, z >>
           four == << w, x, y, z >>
<1>1. /\ one \in Seq(S) /\ Len(one) = 1 /\ one[1] = w
      /\ three \in Seq(S) /\ Len(three) = 3 /\ three[1] = x /\ three[2] = y /\ three[3] = z
      /\ four \in Seq(S) /\ Len(four) = 4 /\ four[1] = w /\ four[2] = x /\ four[3] = y /\ four[4] = z
  OBVIOUS
<1> HIDE DEF S, one, three, four
<1>2. /\ one \o three \in Seq(S) /\ Len(one \o three) = Len(one) + Len(three)
      /\ \A i \in 1 .. Len(one) + Len(three) :
            (one \o three)[i] = IF i <= Len(one) THEN one[i] ELSE three[i - Len(one)]
  BY <1>1, ConcatProperties
<1>3. \A i \in 1 .. 4 : (one \o three)[i] = four[i]
  <2>1. \A i \in 1 .. 4 : i = 1 \/ i = 2 \/ i = 3 \/ i = 4
    OBVIOUS
  <2>2. (one \o three)[1] = w /\ (one \o three)[2] = x /\ (one \o three)[3] = y /\ (one \o three)[4] = z
    BY <1>1, <1>2
  <2>3. QED BY <1>1, <2>1, <2>2
<1>4. one \o three = four
  BY <1>1, <1>2, <1>3, SeqEqual, SMTT(30)
<1>5. QED BY <1>4 DEF one, three, four

LEMMA FirstErrors ==
    /\ FirstError(<< >>) = None
    /\ \A x : FirstError(<< x >>) = x
    /\ \A x, y : FirstError(<< x, y >>) = IF x # None THEN x ELSE y
    /\ \A x, y, z : FirstError(<< x, y, z >>) =
           IF x # None THEN x ELSE IF y # None THEN y ELSE z
    /\ \A w, x, y, z : FirstError(<< w, x, y, z >>) =
           IF w # None THEN w ELSE IF x # None THEN x ELSE IF y # None THEN y ELSE z
    /\ \A v, w, x, y, z : FirstError(<< v, w, x, y, z >>) =
           IF v # None THEN v ELSE IF w # None THEN w ELSE IF x # None THEN x
           ELSE IF y # None THEN y ELSE z
<1>1. \A errors : \A n \in DOMAIN errors :
         /\ errors[n] # None /\ DOMAIN errors \subseteq Nat
         /\ \A k \in DOMAIN errors : k < n => errors[k] = None
         => FirstError(errors) = errors[n]
  BY DEF FirstError
<1>2. \A errors : (\A n \in DOMAIN errors : errors[n] = None) => FirstError(errors) = None
  BY DEF FirstError
<1>3. FirstError(<< >>) = None
  BY <1>2
<1>4. ASSUME NEW x PROVE FirstError(<< x >>) = x
  BY <1>1, <1>2
<1>5. ASSUME NEW x, NEW y PROVE FirstError(<< x, y >>) = IF x # None THEN x ELSE y
  BY <1>1, <1>2
<1>6. ASSUME NEW x, NEW y, NEW z
      PROVE  FirstError(<< x, y, z >>) = IF x # None THEN x ELSE IF y # None THEN y ELSE z
  BY <1>1, <1>2
<1>7. ASSUME NEW w, NEW x, NEW y, NEW z
      PROVE  FirstError(<< w, x, y, z >>) =
               IF w # None THEN w ELSE IF x # None THEN x ELSE IF y # None THEN y ELSE z
  BY <1>1, <1>2
<1>8. ASSUME NEW v, NEW w, NEW x, NEW y, NEW z
      PROVE  FirstError(<< v, w, x, y, z >>) =
               IF v # None THEN v ELSE IF w # None THEN w ELSE IF x # None THEN x
               ELSE IF y # None THEN y ELSE z
  BY <1>1, <1>2
<1>9. QED BY <1>3, <1>4, <1>5, <1>6, <1>7, <1>8

\* The errors of a translation are about malformed arguments, and it leaves none
\* of these but what the store refuses.
Sorted(op, a, errors) ==
    ~Disputed(op, a) =>
        /\ \A error \in errors \cap SurfaceErrors : Malformed(op, a)
        /\ Malformed(op, a) /\ errors \subseteq {None} => StoreRefuses(Meant(op, a))

\* It asks for what was meant.
Asks(op, a, errors, request) ==
    ~Disputed(op, a) /\ errors \subseteq {None} => Fits(request, Meant(op, a))

Agrees(op, a, t) ==
    ~Disputed(op, a) =>
        /\ t.error = None => Fits(t.request, Meant(op, a))
        /\ t.error \in SurfaceErrors => Malformed(op, a)
        /\ Malformed(op, a) /\ t.error = None => StoreRefuses(t.request)

LEMMA Judged ==
    ASSUME NEW op, NEW a, NEW list, NEW errors, NEW request, Sorted(op, a, errors),
           Asks(op, a, errors, request),
           FirstError(list) \in errors \cup {None},
           FirstError(list) = None => errors \subseteq {None}
    PROVE  Agrees(op, a, Translated(list, request))
<1> DEFINE t == Translated(list, request)
<1>1. t.error = FirstError(list) /\ (t.error = None => t.request = request)
  BY DEF Translated
<1>2. None \notin SurfaceErrors
  BY NoneIsNoWord DEF SurfaceErrors, ErrorName
<1> HIDE DEF t
<1>3. QED BY <1>1, <1>2, FitsRefused DEF Agrees, Sorted, Asks, t

\* The command line (the cmd_ functions).
LEMMA CliAgrees ==
    ASSUME NEW op \in DOMAIN Args, NEW a \in Args[op], CliMayAsk(op, a)
    PROVE  Agrees(op, a, CliTranslate(op, a))
<1>1. CASE op = "add"
  <2> DEFINE x == BadTime(a.from, "Usage")
             y == BadTime(a.to, "Usage")
             z == BadId(a.source, "InvalidId")
             request == Meant(op, a)
  <2>1. CliTranslate(op, a) = CliAdd(a)
    BY <1>1 DEF CliTranslate
  <2>2. CliAdd(a) = Translated(<< x, y, z >>, request)
    BY <1>1, AddMeans DEF CliAdd, CliObject
  <2>3. Sorted(op, a, {x, y, z})
    BY <1>1, AddCall, NoneIsNoWord
    DEF Sorted, SurfaceErrors, ErrorName, Disputed, BadId, BadTime
  <2>4. Asks(op, a, {x, y, z}, request)
    BY <1>1, AddMeans DEF Asks, Fits
  <2> HIDE DEF x, y, z, request
  <2>5. /\ FirstError(<< x, y, z >>) \in {x, y, z} \cup {None}
        /\ FirstError(<< x, y, z >>) = None => {x, y, z} \subseteq {None}
    BY FirstErrors
  <2>6. QED BY <2>1, <2>2, <2>3, <2>4, <2>5, Judged
<1>2. CASE op = "query" /\ a.entity # None
  <2> DEFINE x == CliBadChoice(a.direction, "sideways")
             y == CliBadScope(a)
             z == BadTime(a.as_of, "Usage")
             w == BadTime(a.recorded_at, "Usage")
             request == QueryEntity(a.entity, GraphQuery(CliScope(a), a.as_of, a.recorded_at,
                                               Given(a.direction, "both")))
  <2>1. CliTranslate(op, a) = CliQuery(a)
    BY <1>2 DEF CliTranslate
  <2>2. CliQuery(a) = Translated(<< x >> \o << y, z, w >>, request)
    BY DEF CliQuery, CliBadWindow
  <2>3. CliQuery(a) = Translated(<< x, y, z, w >>, request)
    BY <2>2, Joined
  <2>4. Sorted(op, a, {x, y, z, w})
    BY <1>2, QueryCall, NoneIsNoWord, ZenonT(40)
    DEF Sorted, SurfaceErrors, ErrorName, Disputed, BadPath, BadTime, CliBadChoice,
        CliBadScope, Wrong, CliMayAsk
  <2>5. Asks(op, a, {x, y, z, w}, request)
    BY <1>2, QueryCall, QueryMeans, NoneIsNoWord DEF Asks, Fits, Disputed, CliScope
  <2> HIDE DEF x, y, z, w, request
  <2>6. /\ FirstError(<< x, y, z, w >>) \in {x, y, z, w} \cup {None}
        /\ FirstError(<< x, y, z, w >>) = None => {x, y, z, w} \subseteq {None}
    BY FirstErrors
  <2>7. QED BY <2>1, <2>3, <2>4, <2>5, <2>6, Judged
<1>3. CASE op = "query" /\ a.entity = None
  <2> DEFINE x == CliBadScope(a)
             y == BadTime(a.as_of, "Usage")
             z == BadTime(a.recorded_at, "Usage")
             request == QueryPredicate(a.predicate,
                                       GraphQuery(CliScope(a), a.as_of, a.recorded_at, "both"))
  <2>1. CliTranslate(op, a) = CliPredicate(a)
    BY <1>3 DEF CliTranslate
  <2>2. CliPredicate(a) = Translated(<< x, y, z >>, request)
    BY DEF CliPredicate, CliBadWindow
  <2>3. Sorted(op, a, {x, y, z})
    BY <1>3, QueryCall, NoneIsNoWord, ZenonT(40)
    DEF Sorted, SurfaceErrors, ErrorName, Disputed, BadPath, BadTime, CliBadScope,
        CliMayAsk, Wrong
  <2>4. Asks(op, a, {x, y, z}, request)
    BY <1>3, QueryCall, QueryMeans, NoneIsNoWord
    DEF Asks, Fits, Disputed, CliScope, CliMayAsk, Given
  <2> HIDE DEF x, y, z, request
  <2>5. /\ FirstError(<< x, y, z >>) \in {x, y, z} \cup {None}
        /\ FirstError(<< x, y, z >>) = None => {x, y, z} \subseteq {None}
    BY FirstErrors
  <2>6. QED BY <2>1, <2>2, <2>3, <2>4, <2>5, Judged
<1>4. CASE op = "invalidate"
  <2> DEFINE x == BadTime(a.at, "Usage")
             request == Meant(op, a)
  <2>1. CliTranslate(op, a) = CliInvalidate(a)
    BY <1>4 DEF CliTranslate
  <2>2. CliInvalidate(a) = Translated(<< x >>, request)
    BY <1>4, InvalidateMeans DEF CliInvalidate, CliObject
  <2>3. Sorted(op, a, {x})
    BY <1>4, InvalidateCall, NoneIsNoWord
    DEF Sorted, SurfaceErrors, ErrorName, Disputed, BadTime
  <2>4. Asks(op, a, {x}, request)
    BY <1>4, InvalidateMeans DEF Asks, Fits
  <2> HIDE DEF x, request
  <2>5. /\ FirstError(<< x >>) \in {x} \cup {None}
        /\ FirstError(<< x >>) = None => {x} \subseteq {None}
    BY FirstErrors
  <2>6. QED BY <2>1, <2>2, <2>3, <2>4, <2>5, Judged
<1>5. CASE op = "supersede"
  <2> DEFINE x == BadTime(a.at, "Usage")
             request == Meant(op, a)
  <2>1. CliTranslate(op, a) = CliSupersede(a)
    BY <1>5 DEF CliTranslate
  <2>2. CliSupersede(a) = Translated(<< x >>, request)
    BY <1>5, SupersedeMeans DEF CliSupersede, CliObject
  <2>3. Sorted(op, a, {x})
    BY <1>5, SupersedeCall, NoneIsNoWord
    DEF Sorted, SurfaceErrors, ErrorName, Disputed, BadTime
  <2>4. Asks(op, a, {x}, request)
    BY <1>5, SupersedeMeans DEF Asks, Fits
  <2> HIDE DEF x, request
  <2>5. /\ FirstError(<< x >>) \in {x} \cup {None}
        /\ FirstError(<< x >>) = None => {x} \subseteq {None}
    BY FirstErrors
  <2>6. QED BY <2>1, <2>2, <2>3, <2>4, <2>5, Judged
<1>6. CASE op = "timeline"
  <2> DEFINE x == CliBadScope(a)
             request == Meant(op, a)
  <2>1. CliTranslate(op, a) = CliTimeline(a)
    BY <1>6 DEF CliTranslate
  <2>2. CliTimeline(a) = Translated(<< x >>, request)
    BY <1>6, TimelineMeans DEF CliTimeline, CliScope
  <2>3. Sorted(op, a, {x})
    BY <1>6, TimelineCall, NoneIsNoWord, ZenonT(40)
    DEF Sorted, SurfaceErrors, ErrorName, Disputed, BadPath, CliBadScope
  <2>4. Asks(op, a, {x}, request)
    BY <1>6, TimelineMeans DEF Asks, Fits
  <2> HIDE DEF x, request
  <2>5. /\ FirstError(<< x >>) \in {x} \cup {None}
        /\ FirstError(<< x >>) = None => {x} \subseteq {None}
    BY FirstErrors
  <2>6. QED BY <2>1, <2>2, <2>3, <2>4, <2>5, Judged
<1>7. CASE op = "stats"
  <2> DEFINE x == CliBadScope(a)
             request == Meant(op, a)
  <2>1. CliTranslate(op, a) = CliStats(a)
    BY <1>7 DEF CliTranslate
  <2>2. CliStats(a) = Translated(<< x >>, request)
    BY <1>7, StatsMeans DEF CliStats, CliScope
  <2>3. Sorted(op, a, {x})
    BY <1>7, StatsCall, NoneIsNoWord
    DEF Sorted, SurfaceErrors, ErrorName, Disputed, BadPath, CliBadScope
  <2>4. Asks(op, a, {x}, request)
    BY <1>7, StatsMeans DEF Asks, Fits
  <2> HIDE DEF x, request
  <2>5. /\ FirstError(<< x >>) \in {x} \cup {None}
        /\ FirstError(<< x >>) = None => {x} \subseteq {None}
    BY FirstErrors
  <2>6. QED BY <2>1, <2>2, <2>3, <2>4, <2>5, Judged
<1>8. CASE op = "entities"
  <2> DEFINE x == CliBadScope(a)
             request == Meant(op, a)
  <2>1. CliTranslate(op, a) = CliEntities(a)
    BY <1>8 DEF CliTranslate
  <2>2. CliEntities(a) = Translated(<< x >>, request)
    BY <1>8, EntitiesMeans DEF CliEntities, CliScope
  <2>3. Sorted(op, a, {x})
    BY <1>8, EntitiesCall, NoneIsNoWord
    DEF Sorted, SurfaceErrors, ErrorName, Disputed, BadPath, CliBadScope
  <2>4. Asks(op, a, {x}, request)
    BY <1>8, EntitiesMeans DEF Asks, Fits
  <2> HIDE DEF x, request
  <2>5. /\ FirstError(<< x >>) \in {x} \cup {None}
        /\ FirstError(<< x >>) = None => {x} \subseteq {None}
    BY FirstErrors
  <2>6. QED BY <2>1, <2>2, <2>3, <2>4, <2>5, Judged
<1>9. CASE op = "history"
  <2> DEFINE x == BadId(a.id, "InvalidId")
             request == Meant(op, a)
  <2>1. CliTranslate(op, a) = CliHistory(a)
    BY <1>9 DEF CliTranslate
  <2>2. CliHistory(a) = Translated(<< x >>, request)
    BY <1>9, HistoryMeans DEF CliHistory
  <2>3. Sorted(op, a, {x})
    BY <1>9, HistoryCall, NoneIsNoWord
    DEF Sorted, SurfaceErrors, ErrorName, Disputed, BadId, Ids
  <2>4. Asks(op, a, {x}, request)
    BY <1>9, HistoryMeans DEF Asks, Fits
  <2> HIDE DEF x, request
  <2>5. /\ FirstError(<< x >>) \in {x} \cup {None}
        /\ FirstError(<< x >>) = None => {x} \subseteq {None}
    BY FirstErrors
  <2>6. QED BY <2>1, <2>2, <2>3, <2>4, <2>5, Judged
<1>10. CASE op = "get"
  <2> DEFINE x == BadId(a.id, "InvalidId")
             request == Meant(op, a)
  <2>1. CliTranslate(op, a) = CliGet(a)
    BY <1>10 DEF CliTranslate
  <2>2. CliGet(a) = Translated(<< x >>, request)
    BY <1>10, GetMeans DEF CliGet
  <2>3. Sorted(op, a, {x})
    BY <1>10, GetCall, NoneIsNoWord
    DEF Sorted, SurfaceErrors, ErrorName, Disputed, BadId, Ids
  <2>4. Asks(op, a, {x}, request)
    BY <1>10, GetMeans DEF Asks, Fits
  <2> HIDE DEF x, request
  <2>5. /\ FirstError(<< x >>) \in {x} \cup {None}
        /\ FirstError(<< x >>) = None => {x} \subseteq {None}
    BY FirstErrors
  <2>6. QED BY <2>1, <2>2, <2>3, <2>4, <2>5, Judged
<1>11. CASE op = "revisions"
  <2> DEFINE x == BadId(a.id, "InvalidId")
             request == Meant(op, a)
  <2>1. CliTranslate(op, a) = CliRevisions(a)
    BY <1>11 DEF CliTranslate
  <2>2. CliRevisions(a) = Translated(<< x >>, request)
    BY <1>11, RevisionsMeans DEF CliRevisions
  <2>3. Sorted(op, a, {x})
    BY <1>11, RevisionsCall, NoneIsNoWord
    DEF Sorted, SurfaceErrors, ErrorName, Disputed, BadId, Ids
  <2>4. Asks(op, a, {x}, request)
    BY <1>11, RevisionsMeans DEF Asks, Fits
  <2> HIDE DEF x, request
  <2>5. /\ FirstError(<< x >>) \in {x} \cup {None}
        /\ FirstError(<< x >>) = None => {x} \subseteq {None}
    BY FirstErrors
  <2>6. QED BY <2>1, <2>2, <2>3, <2>4, <2>5, Judged
<1>12. CASE op = "list"
  <2> DEFINE x == CliBadScope(a)
             request == Meant(op, a)
  <2>1. CliTranslate(op, a) = CliList(a)
    BY <1>12 DEF CliTranslate
  <2>2. CliList(a) = Translated(<< x >>, request)
    BY <1>12, ListMeans DEF CliList, CliScope
  <2>3. Sorted(op, a, {x})
    BY <1>12, ListCall, NoneIsNoWord
    DEF Sorted, SurfaceErrors, ErrorName, Disputed, BadPath, CliBadScope
  <2>4. Asks(op, a, {x}, request)
    BY <1>12, ListMeans DEF Asks, Fits
  <2> HIDE DEF x, request
  <2>5. /\ FirstError(<< x >>) \in {x} \cup {None}
        /\ FirstError(<< x >>) = None => {x} \subseteq {None}
    BY FirstErrors
  <2>6. QED BY <2>1, <2>2, <2>3, <2>4, <2>5, Judged
<1>13. CASE op = "scopes"
  <2> DEFINE request == Meant(op, a)
  <2>1. CliTranslate(op, a) = CliScopes(a)
    BY <1>13 DEF CliTranslate
  <2>2. CliScopes(a) = Translated(<< >>, request)
    BY <1>13, ScopesMeans DEF CliScopes
  <2>3. Sorted(op, a, {})
    BY <1>13, ScopesCall, NoneIsNoWord DEF Sorted, SurfaceErrors, ErrorName, Disputed
  <2>4. Asks(op, a, {}, request)
    BY <1>13, ScopesMeans DEF Asks, Fits
  <2> HIDE DEF request
  <2>5. /\ FirstError(<< >>) \in {} \cup {None}
        /\ FirstError(<< >>) = None => {} \subseteq {None}
    BY FirstErrors
  <2>6. QED BY <2>1, <2>2, <2>3, <2>4, <2>5, Judged
<1>14. CASE op = "export"
  <2> DEFINE request == Meant(op, a)
  <2>1. CliTranslate(op, a) = CliExport(a)
    BY <1>14 DEF CliTranslate
  <2>2. CliExport(a) = Translated(<< >>, request)
    BY <1>14, ExportMeans DEF CliExport
  <2>3. Sorted(op, a, {})
    BY <1>14, ExportCall, NoneIsNoWord DEF Sorted, SurfaceErrors, ErrorName, Disputed
  <2>4. Asks(op, a, {}, request)
    BY <1>14, ExportMeans DEF Asks, Fits
  <2> HIDE DEF request
  <2>5. /\ FirstError(<< >>) \in {} \cup {None}
        /\ FirstError(<< >>) = None => {} \subseteq {None}
    BY FirstErrors
  <2>6. QED BY <2>1, <2>2, <2>3, <2>4, <2>5, Judged
<1>15. CASE op = "ingest"
  <2> DEFINE x == IF a.contents # 1 THEN "Usage" ELSE None
             y == BadId(a.supersedes, "InvalidId")
             z == IF a.metadata = "{" THEN "Json" ELSE None
             request == Meant(op, a)
  <2>1. CliTranslate(op, a) = CliIngest(a)
    BY <1>15 DEF CliTranslate
  <2>2. CliIngest(a) = Translated(<< x, y, z >>, request)
    BY <1>15, IngestMeans DEF CliIngest
  <2>3. Sorted(op, a, {x, y, z})
    BY <1>15, IngestCall, NoneIsNoWord
    DEF Sorted, SurfaceErrors, ErrorName, Disputed, BadId
  <2>4. Asks(op, a, {x, y, z}, request)
    BY <1>15, IngestMeans DEF Asks, Fits
  <2> HIDE DEF x, y, z, request
  <2>5. /\ FirstError(<< x, y, z >>) \in {x, y, z} \cup {None}
        /\ FirstError(<< x, y, z >>) = None => {x, y, z} \subseteq {None}
    BY FirstErrors
  <2>6. QED BY <2>1, <2>2, <2>3, <2>4, <2>5, Judged
<1>16. CASE op = "set_scope"
  <2> DEFINE x == BadId(a.id, "InvalidId")
             request == Meant(op, a)
  <2>1. CliTranslate(op, a) = CliSetScope(a)
    BY <1>16 DEF CliTranslate
  <2>2. CliSetScope(a) = Translated(<< x >>, request)
    BY <1>16, SetScopeMeans DEF CliSetScope
  <2>3. Sorted(op, a, {x})
    BY <1>16, SetScopeCall, NoneIsNoWord
    DEF Sorted, SurfaceErrors, ErrorName, Disputed, BadId, Ids
  <2>4. Asks(op, a, {x}, request)
    BY <1>16, SetScopeMeans DEF Asks, Fits
  <2> HIDE DEF x, request
  <2>5. /\ FirstError(<< x >>) \in {x} \cup {None}
        /\ FirstError(<< x >>) = None => {x} \subseteq {None}
    BY FirstErrors
  <2>6. QED BY <2>1, <2>2, <2>3, <2>4, <2>5, Judged
<1>17. CASE op = "search"
  <2> DEFINE x == CliBadChoice(a.mode, "no mode")
             y == CliBadScope(a)
             request == Search(a.text, Given(a.mode, "auto"), Given(a.limit, 20), CliScope(a))
  <2>1. CliTranslate(op, a) = CliSearch(a)
    BY <1>17 DEF CliTranslate
  <2>2. CliSearch(a) = Translated(<< x, y >>, request)
    BY DEF CliSearch
  <2>3. Sorted(op, a, {x, y})
    BY <1>17, SearchCall, NoneIsNoWord
    DEF Sorted, SurfaceErrors, ErrorName, Disputed, BadPath, CliBadChoice, CliBadScope
  <2>4. Asks(op, a, {x, y}, request)
    BY <1>17, SearchCall, SearchMeans, NoneIsNoWord DEF Asks, Fits, Disputed, Given, CliScope
  <2> HIDE DEF x, y, request
  <2>5. /\ FirstError(<< x, y >>) \in {x, y} \cup {None}
        /\ FirstError(<< x, y >>) = None => {x, y} \subseteq {None}
    BY FirstErrors
  <2>6. QED BY <2>1, <2>2, <2>3, <2>4, <2>5, Judged
<1>18. CASE op = "retrieve"
  <2> DEFINE x == CliBadChoice(a.mode, "no mode")
             y == CliBadAdapter(a)
             z == CliBadScope(a)
             hits == CliHits(Given(a.limit, 10), Given(a.fetch, 3))
             request == Retrieve(a.text, Given(a.mode, "auto"), hits, Given(a.fetch, 3),
                                 Given(a.limit, 10), CliScope(a))
  <2>1. CliTranslate(op, a) = CliRetrieve(a)
    BY <1>18 DEF CliTranslate
  <2>2. CliRetrieve(a) = Translated(<< x, y, z >>, request)
    BY DEF CliRetrieve
  <2>3. Sorted(op, a, {x, y, z})
    BY <1>18, RetrieveCall, NoneIsNoWord
    DEF Sorted, SurfaceErrors, ErrorName, Disputed, BadPath, CliBadAdapter,
        CliBadChoice, CliBadScope
  <2>4. Asks(op, a, {x, y, z}, request)
    <3>1. Given(a.limit, 10) \in Int /\ Given(a.fetch, 3) \in Int
      <4>1. a.limit \in Limits /\ a.fetch \in {None, 0}
        BY <1>18, RetrieveCall, Zenon
      <4>2. QED BY <4>1 DEF Given, Limits
    <3>2. hits >= Given(a.limit, 10)
      BY <3>1 DEF CliHits
    <3> HIDE DEF hits
    <3>3. Fits(request, Meant(op, a))
      BY <1>18, <3>2, DeeperFits DEF CliScope
    <3>4. QED BY <3>3 DEF Asks
  <2> HIDE DEF x, y, z, request
  <2>5. /\ FirstError(<< x, y, z >>) \in {x, y, z} \cup {None}
        /\ FirstError(<< x, y, z >>) = None => {x, y, z} \subseteq {None}
    BY FirstErrors
  <2>6. QED BY <2>1, <2>2, <2>3, <2>4, <2>5, Judged
<1>19. CASE op = "wakeup" /\ a.only # None
  <2> DEFINE x == BadPath(a.only)
             y == CliBadAdapter(a)
             request == BuildWakeup(<<a.only>>, WakeupLimit(a), WakeupBytes(a))
  <2>1. CliTranslate(op, a) = CliWakeup(a)
    BY <1>19 DEF CliTranslate
  <2>2. CliWakeup(a) = Translated(<< x, y >>, request)
    BY <1>19 DEF CliWakeup, WakeupLimit, WakeupBytes
  <2>3. Sorted(op, a, {x, y})
    BY <1>19, WakeupCall, NoneIsNoWord
    DEF Sorted, SurfaceErrors, ErrorName, Disputed, BadPath, CliBadAdapter
  <2>4. Meant(op, a) = request
    BY <1>19, WakeupMeans, Zenon
  <2> HIDE DEF request
  <2>5. Asks(op, a, {x, y}, request)
    BY <2>4 DEF Asks, Fits
  <2> HIDE DEF x, y, request
  <2>6. /\ FirstError(<< x, y >>) \in {x, y} \cup {None}
        /\ FirstError(<< x, y >>) = None => {x, y} \subseteq {None}
    BY FirstErrors
  <2>7. QED BY <2>1, <2>2, <2>3, <2>5, <2>6, Judged
<1>20. CASE op = "wakeup" /\ a.only = None
  <2> DEFINE x == BadPath(a.only)
             y == CliBadAdapter(a)
             request == BuildWakeup(ProjectScopes(Given(a.project, "here"), a.files = TRUE),
                                    WakeupLimit(a), WakeupBytes(a))
  <2>1. CliTranslate(op, a) = CliWakeup(a)
    BY <1>20 DEF CliTranslate
  <2>2. CliWakeup(a) = Translated(<< x, y >>, request)
    BY <1>20 DEF CliWakeup, WakeupLimit, WakeupBytes
  <2>3. Sorted(op, a, {x, y})
    BY <1>20, WakeupCall, NoneIsNoWord
    DEF Sorted, SurfaceErrors, ErrorName, Disputed, BadPath, CliBadAdapter
  <2>4. Meant(op, a) = request
    BY <1>20, WakeupMeans, Zenon
  <2> HIDE DEF request
  <2>5. Asks(op, a, {x, y}, request)
    BY <2>4 DEF Asks, Fits
  <2> HIDE DEF x, y, request
  <2>6. /\ FirstError(<< x, y >>) \in {x, y} \cup {None}
        /\ FirstError(<< x, y >>) = None => {x, y} \subseteq {None}
    BY FirstErrors
  <2>7. QED BY <2>1, <2>2, <2>3, <2>5, <2>6, Judged
<1>21. QED
  BY <1>1, <1>2, <1>3, <1>4, <1>5, <1>6, <1>7, <1>8, <1>9, <1>10, <1>11, <1>12, <1>13,
      <1>14, <1>15, <1>16, <1>17, <1>18, <1>19, <1>20, ZenonT(40)
  DEF Args

\* What a client may send is all that a tool's struct has (parse_call_args).
LEMMA McpParsed ==
    ASSUME NEW op \in DOMAIN Args, NEW a \in Args[op], McpMayAsk(op, a)
    PROVE  McpParse(op, a) = a
<1>1. CASE op \notin DOMAIN McpGraphFields
  BY <1>1 DEF McpParse
<1>2. CASE op \in DOMAIN McpGraphFields
  <2>1. McpToolArgs(op) = McpGraphFields[op]
    BY <1>2, SMTT(30) DEF McpGraphFields, McpToolArgs, McpGraphWriters, McpGraphReaders
  <2>2. \A name \in DOMAIN a : name \notin McpGraphFields[op] => a[name] = None
    BY <2>1 DEF McpMayAsk, GivenOnly
  <2>3. a = [name \in DOMAIN a |-> a[name]]
    BY <1>2, AddCall, QueryCall, InvalidateCall, SupersedeCall, TimelineCall, StatsCall,
       EntitiesCall, HistoryCall, ZenonT(40) DEF McpGraphFields
  <2>4. McpParse(op, a) = [name \in DOMAIN a |-> a[name]]
    BY <1>2, <2>2 DEF McpParse
  <2>5. QED BY <2>3, <2>4
<1>3. QED BY <1>1, <1>2

\* What the store can have against a request.
StoreFaults(method) ==
    IF method \in OnFacts THEN {"ReadOnly", "Validation", "FactNotFound"}
    ELSE IF method = "ingest" THEN {"ReadOnly", "Validation", "SupersedesNotFound"}
    ELSE IF method = "set_scope" THEN {"ReadOnly", "Validation", "NotFound"}
    ELSE IF method \in {"get", "revision_history"} THEN {"NotFound"}
    ELSE IF method = "fact_history" THEN {"FactIdNotFound"}
    ELSE IF method = "retrieve" THEN {"EmptyQuery"}
    ELSE {}

\* The fault of a refusal is in the request.
Blames(op, errors, request) ==
    \A error \in (errors \ {None}) \cup StoreFaults(request.method) :
        McpFault(op, error) = "invalid_params"

Blamed(op, t) ==
    /\ t.error # None => McpFault(op, t.error) = "invalid_params"
    /\ t.error = None =>
          \A error \in StoreFaults(t.request.method) : McpFault(op, error) = "invalid_params"

LEMMA ToBlame ==
    ASSUME NEW op, NEW list, NEW errors, NEW request, Blames(op, errors, request),
           FirstError(list) \in errors \cup {None}
    PROVE  Blamed(op, Translated(list, request))
<1> DEFINE t == Translated(list, request)
<1>1. t.error = FirstError(list) /\ (t.error = None => t.request = request)
  BY DEF Translated
<1> HIDE DEF t
<1>2. QED BY <1>1 DEF Blamed, Blames, t

LEMMA Wakeups == \A s, l, m : BuildWakeup(s, l, m).method = "wakeup"
BY DEF BuildWakeup

LEMMA Clamped ==
    /\ \A n \in 1 .. 50 : Clamp(Given(n, 50), 1, 100) = n
    /\ \A n \in {None} \cup 1 .. DefaultHits :
          Clamp(Given(n, 10), 1, 50) = Given(n, 10) /\ DefaultHits >= Given(n, 10)
<1>1. \A n \in 1 .. 50 : Given(n, 50) = n /\ Given(n, 10) = n
  <2>1. 1 .. 50 \subseteq Int
    OBVIOUS
  <2>2. \A n \in 1 .. 50 : n # None
    BY <2>1, NoneIsNoWord, Zenon
  <2>3. QED BY <2>2, Zenon DEF Given
<1>2. \A n \in 1 .. 50 : Clamp(n, 1, 100) = n /\ Clamp(n, 1, 50) = n
  BY DEF Clamp
<1>3. Given(None, 10) = 10 /\ Clamp(10, 1, 50) = 10
  BY DEF Given, Clamp
<1>4. QED BY <1>1, <1>2, <1>3 DEF DefaultHits

\* The MCP server (the handlers of the tools, map_graph_write_error,
\* map_graph_read_error).
LEMMA McpAgrees ==
    ASSUME NEW op \in DOMAIN Args, NEW a \in Args[op], McpMayAsk(op, a)
    PROVE  LET t == McpTranslate(op, McpParse(op, a)) IN Agrees(op, a, t) /\ Blamed(op, t)
<1>0. McpParse(op, a) = a /\ op \in McpTools
  BY McpParsed DEF McpMayAsk
<1>1. CASE op = "add"
  <2> DEFINE x == McpBadTime(a.from)
             y == McpBadTime(a.to)
             z == BadId(a.source, "InvalidId")
             request == AddFact(a.subject_kind, McpObject(a.object, a.value, a.object_kind),
                                a.from, a.to, Given(a.confidence, "full"), a.source, a.scope)
  <2>1. McpTranslate(op, McpParse(op, a)) = McpAdd(a)
    BY <1>1, <1>0 DEF McpTranslate
  <2>2. McpAdd(a) = Translated(<< x, y, z >>, request)
    BY DEF McpAdd
  <2>3. Sorted(op, a, {x, y, z})
    BY <1>1, AddCall, NoneIsNoWord
    DEF Sorted, SurfaceErrors, ErrorName, Disputed, BadId, BadTime, McpBadTime
  <2>4. Asks(op, a, {x, y, z}, request)
    BY <1>1, AddCall, AddMeans, NoneIsNoWord DEF Asks, Fits, Disputed, McpObject
  <2>5. Blames(op, {x, y, z}, request)
    BY <1>1
    DEF Blames, StoreFaults, OnFacts, McpFault, McpWriteFault, AddFact, BadId, BadTime,
        McpBadTime
  <2> HIDE DEF x, y, z, request
  <2>6. /\ FirstError(<< x, y, z >>) \in {x, y, z} \cup {None}
        /\ FirstError(<< x, y, z >>) = None => {x, y, z} \subseteq {None}
    BY FirstErrors
  <2>7. Agrees(op, a, McpTranslate(op, McpParse(op, a)))
    BY <2>1, <2>2, <2>3, <2>4, <2>6, Judged
  <2>8. Blamed(op, McpTranslate(op, McpParse(op, a)))
    BY <2>1, <2>2, <2>5, <2>6, ToBlame
  <2>9. QED BY <2>7, <2>8
<1>2. CASE op = "query"
  <2> DEFINE v == IF (a.entity = None) = (a.predicate = None) THEN "Validation" ELSE None
             w == BadPath(a.scope)
             x == McpBadTime(a.as_of)
             y == McpBadTime(a.recorded_at)
             z == McpBadDirection(a.direction)
             request == IF a.entity # None
                        THEN QueryEntity(a.entity, GraphQuery(McpScope(a), a.as_of, a.recorded_at,
                                                              Given(a.direction, "both")))
                        ELSE QueryPredicate(a.predicate,
                                            GraphQuery(McpScope(a), a.as_of, a.recorded_at,
                                                       Given(a.direction, "both")))
  <2>1. McpTranslate(op, McpParse(op, a)) = McpQuery(a)
    BY <1>2, <1>0 DEF McpTranslate
  <2>2. McpQuery(a) = Translated(<< v, w, x, y, z >>, request)
    BY DEF McpQuery
  <2>3. Sorted(op, a, {v, w, x, y, z})
    BY <1>2, QueryCall, NoneIsNoWord, ZenonT(40)
    DEF Sorted, SurfaceErrors, ErrorName, Disputed, BadPath, BadTime, McpBadDirection,
        McpBadTime, Wrong
  <2>4. Asks(op, a, {v, w, x, y, z}, request)
    BY <1>2, QueryCall, QueryMeans, NoneIsNoWord DEF Asks, Fits, Disputed, McpScope
  <2>5. Blames(op, {v, w, x, y, z}, request)
    BY <1>2, QueryCall, NoneIsNoWord, ZenonT(40)
    DEF Blames, StoreFaults, OnFacts, McpFault, McpReadFault, QueryEntity,
        QueryPredicate, BadPath, BadTime, McpBadDirection, McpBadTime, Wrong
  <2> HIDE DEF v, w, x, y, z, request
  <2>6. /\ FirstError(<< v, w, x, y, z >>) \in {v, w, x, y, z} \cup {None}
        /\ FirstError(<< v, w, x, y, z >>) = None => {v, w, x, y, z} \subseteq {None}
    BY FirstErrors
  <2>7. Agrees(op, a, McpTranslate(op, McpParse(op, a)))
    BY <2>1, <2>2, <2>3, <2>4, <2>6, Judged
  <2>8. Blamed(op, McpTranslate(op, McpParse(op, a)))
    BY <2>1, <2>2, <2>5, <2>6, ToBlame
  <2>9. QED BY <2>7, <2>8
<1>3. CASE op = "invalidate"
  <2> DEFINE x == McpBadTime(a.at)
             request == InvalidateFact(McpObject(a.object, a.value, None), a.scope, a.at)
  <2>1. McpTranslate(op, McpParse(op, a)) = McpInvalidate(a)
    BY <1>3, <1>0 DEF McpTranslate
  <2>2. McpInvalidate(a) = Translated(<< x >>, request)
    BY DEF McpInvalidate
  <2>3. Sorted(op, a, {x})
    BY <1>3, InvalidateCall, NoneIsNoWord
    DEF Sorted, SurfaceErrors, ErrorName, Disputed, BadTime, McpBadTime
  <2>4. Asks(op, a, {x}, request)
    BY <1>3, InvalidateCall, InvalidateMeans, NoneIsNoWord DEF Asks, Fits, Disputed, McpObject
  <2>5. Blames(op, {x}, request)
    BY <1>3
    DEF Blames, StoreFaults, OnFacts, McpFault, McpWriteFault, InvalidateFact, BadTime,
        McpBadTime
  <2> HIDE DEF x, request
  <2>6. /\ FirstError(<< x >>) \in {x} \cup {None}
        /\ FirstError(<< x >>) = None => {x} \subseteq {None}
    BY FirstErrors
  <2>7. Agrees(op, a, McpTranslate(op, McpParse(op, a)))
    BY <2>1, <2>2, <2>3, <2>4, <2>6, Judged
  <2>8. Blamed(op, McpTranslate(op, McpParse(op, a)))
    BY <2>1, <2>2, <2>5, <2>6, ToBlame
  <2>9. QED BY <2>7, <2>8
<1>4. CASE op = "supersede"
  <2> DEFINE x == McpBadTime(a.at)
             request == SupersedeFact(McpObject(a.object, a.value, None),
                                      McpObject(a.new, a.value, None), a.scope, a.at)
  <2>1. McpTranslate(op, McpParse(op, a)) = McpSupersede(a)
    BY <1>4, <1>0 DEF McpTranslate
  <2>2. McpSupersede(a) = Translated(<< x >>, request)
    BY DEF McpSupersede
  <2>3. Sorted(op, a, {x})
    BY <1>4, SupersedeCall, NoneIsNoWord
    DEF Sorted, SurfaceErrors, ErrorName, Disputed, BadTime, McpBadTime
  <2>4. Asks(op, a, {x}, request)
    BY <1>4, SupersedeCall, SupersedeMeans, NoneIsNoWord DEF Asks, Fits, Disputed, McpObject
  <2>5. Blames(op, {x}, request)
    BY <1>4
    DEF Blames, StoreFaults, OnFacts, McpFault, McpWriteFault, SupersedeFact, BadTime,
        McpBadTime
  <2> HIDE DEF x, request
  <2>6. /\ FirstError(<< x >>) \in {x} \cup {None}
        /\ FirstError(<< x >>) = None => {x} \subseteq {None}
    BY FirstErrors
  <2>7. Agrees(op, a, McpTranslate(op, McpParse(op, a)))
    BY <2>1, <2>2, <2>3, <2>4, <2>6, Judged
  <2>8. Blamed(op, McpTranslate(op, McpParse(op, a)))
    BY <2>1, <2>2, <2>5, <2>6, ToBlame
  <2>9. QED BY <2>7, <2>8
<1>5. CASE op = "timeline"
  <2> DEFINE x == BadPath(a.scope)
             request == Read("timeline", McpScope(a), a.entity)
  <2>1. McpTranslate(op, McpParse(op, a)) = McpTimeline(a)
    BY <1>5, <1>0 DEF McpTranslate
  <2>2. McpTimeline(a) = Translated(<< x >>, request)
    BY DEF McpTimeline
  <2>3. Sorted(op, a, {x})
    BY <1>5, TimelineCall, NoneIsNoWord
    DEF Sorted, SurfaceErrors, ErrorName, Disputed, BadPath
  <2>4. Asks(op, a, {x}, request)
    BY <1>5, TimelineCall, TimelineMeans, NoneIsNoWord DEF Asks, Fits, Disputed, McpScope
  <2>5. Blames(op, {x}, request)
    BY <1>5 DEF Blames, StoreFaults, OnFacts, McpFault, McpReadFault, Read, BadPath
  <2> HIDE DEF x, request
  <2>6. /\ FirstError(<< x >>) \in {x} \cup {None}
        /\ FirstError(<< x >>) = None => {x} \subseteq {None}
    BY FirstErrors
  <2>7. Agrees(op, a, McpTranslate(op, McpParse(op, a)))
    BY <2>1, <2>2, <2>3, <2>4, <2>6, Judged
  <2>8. Blamed(op, McpTranslate(op, McpParse(op, a)))
    BY <2>1, <2>2, <2>5, <2>6, ToBlame
  <2>9. QED BY <2>7, <2>8
<1>6. CASE op = "stats"
  <2> DEFINE x == BadPath(a.scope)
             request == Read("graph_stats", ScopeFilter(a.scope, FALSE), None)
  <2>1. McpTranslate(op, McpParse(op, a)) = McpStats(a)
    BY <1>6, <1>0 DEF McpTranslate
  <2>2. McpStats(a) = Translated(<< x >>, request)
    BY DEF McpStats
  <2>3. Sorted(op, a, {x})
    BY <1>6, StatsCall, NoneIsNoWord
    DEF Sorted, SurfaceErrors, ErrorName, Disputed, BadPath
  <2>4. Asks(op, a, {x}, request)
    BY <1>6, StatsCall, StatsMeans, NoneIsNoWord, ZenonT(40)
    DEF Asks, Fits, Disputed, GivenOnly, McpMayAsk, McpToolArgs, McpGraphReaders,
        McpGraphWriters, Flags
  <2>5. Blames(op, {x}, request)
    BY <1>6 DEF Blames, StoreFaults, OnFacts, McpFault, McpReadFault, Read, BadPath
  <2> HIDE DEF x, request
  <2>6. /\ FirstError(<< x >>) \in {x} \cup {None}
        /\ FirstError(<< x >>) = None => {x} \subseteq {None}
    BY FirstErrors
  <2>7. Agrees(op, a, McpTranslate(op, McpParse(op, a)))
    BY <2>1, <2>2, <2>3, <2>4, <2>6, Judged
  <2>8. Blamed(op, McpTranslate(op, McpParse(op, a)))
    BY <2>1, <2>2, <2>5, <2>6, ToBlame
  <2>9. QED BY <2>7, <2>8
<1>7. CASE op = "entities"
  <2> DEFINE x == BadPath(a.scope)
             request == Read("entities", McpScope(a), a.kind)
  <2>1. McpTranslate(op, McpParse(op, a)) = McpEntities(a)
    BY <1>7, <1>0 DEF McpTranslate
  <2>2. McpEntities(a) = Translated(<< x >>, request)
    BY DEF McpEntities
  <2>3. Sorted(op, a, {x})
    BY <1>7, EntitiesCall, NoneIsNoWord
    DEF Sorted, SurfaceErrors, ErrorName, Disputed, BadPath
  <2>4. Asks(op, a, {x}, request)
    BY <1>7, EntitiesCall, EntitiesMeans, NoneIsNoWord DEF Asks, Fits, Disputed, McpScope
  <2>5. Blames(op, {x}, request)
    BY <1>7 DEF Blames, StoreFaults, OnFacts, McpFault, McpReadFault, Read, BadPath
  <2> HIDE DEF x, request
  <2>6. /\ FirstError(<< x >>) \in {x} \cup {None}
        /\ FirstError(<< x >>) = None => {x} \subseteq {None}
    BY FirstErrors
  <2>7. Agrees(op, a, McpTranslate(op, McpParse(op, a)))
    BY <2>1, <2>2, <2>3, <2>4, <2>6, Judged
  <2>8. Blamed(op, McpTranslate(op, McpParse(op, a)))
    BY <2>1, <2>2, <2>5, <2>6, ToBlame
  <2>9. QED BY <2>7, <2>8
<1>8. CASE op = "history"
  <2> DEFINE x == BadId(a.id, "InvalidFactId")
             request == ById("fact_history", a.id)
  <2>1. McpTranslate(op, McpParse(op, a)) = McpHistory(a)
    BY <1>8, <1>0 DEF McpTranslate
  <2>2. McpHistory(a) = Translated(<< x >>, request)
    BY DEF McpHistory
  <2>3. Sorted(op, a, {x})
    BY <1>8, HistoryCall, NoneIsNoWord
    DEF Sorted, SurfaceErrors, ErrorName, Disputed, BadId, Ids
  <2>4. Asks(op, a, {x}, request)
    BY <1>8, HistoryMeans DEF Asks, Fits
  <2>5. Blames(op, {x}, request)
    BY <1>8 DEF Blames, StoreFaults, OnFacts, McpFault, McpReadFault, ById, BadId, Ids
  <2> HIDE DEF x, request
  <2>6. /\ FirstError(<< x >>) \in {x} \cup {None}
        /\ FirstError(<< x >>) = None => {x} \subseteq {None}
    BY FirstErrors
  <2>7. Agrees(op, a, McpTranslate(op, McpParse(op, a)))
    BY <2>1, <2>2, <2>3, <2>4, <2>6, Judged
  <2>8. Blamed(op, McpTranslate(op, McpParse(op, a)))
    BY <2>1, <2>2, <2>5, <2>6, ToBlame
  <2>9. QED BY <2>7, <2>8
<1>9. CASE op = "get"
  <2> DEFINE x == BadId(a.id, "InvalidId")
             request == ById("get", a.id)
  <2>1. McpTranslate(op, McpParse(op, a)) = McpGet(a)
    BY <1>9, <1>0 DEF McpTranslate
  <2>2. McpGet(a) = Translated(<< x >>, request)
    BY DEF McpGet
  <2>3. Sorted(op, a, {x})
    BY <1>9, GetCall, NoneIsNoWord
    DEF Sorted, SurfaceErrors, ErrorName, Disputed, BadId, Ids
  <2>4. Asks(op, a, {x}, request)
    BY <1>9, GetMeans DEF Asks, Fits
  <2>5. Blames(op, {x}, request)
    BY <1>9 DEF Blames, StoreFaults, OnFacts, McpFault, McpItemFault, ById, BadId, Ids
  <2> HIDE DEF x, request
  <2>6. /\ FirstError(<< x >>) \in {x} \cup {None}
        /\ FirstError(<< x >>) = None => {x} \subseteq {None}
    BY FirstErrors
  <2>7. Agrees(op, a, McpTranslate(op, McpParse(op, a)))
    BY <2>1, <2>2, <2>3, <2>4, <2>6, Judged
  <2>8. Blamed(op, McpTranslate(op, McpParse(op, a)))
    BY <2>1, <2>2, <2>5, <2>6, ToBlame
  <2>9. QED BY <2>7, <2>8
<1>10. CASE op = "revisions"
  <2> DEFINE x == BadId(a.id, "InvalidId")
             request == ById("revision_history", a.id)
  <2>1. McpTranslate(op, McpParse(op, a)) = McpRevisions(a)
    BY <1>10, <1>0 DEF McpTranslate
  <2>2. McpRevisions(a) = Translated(<< x >>, request)
    BY DEF McpRevisions
  <2>3. Sorted(op, a, {x})
    BY <1>10, RevisionsCall, NoneIsNoWord
    DEF Sorted, SurfaceErrors, ErrorName, Disputed, BadId, Ids
  <2>4. Asks(op, a, {x}, request)
    BY <1>10, RevisionsMeans DEF Asks, Fits
  <2>5. Blames(op, {x}, request)
    BY <1>10 DEF Blames, StoreFaults, OnFacts, McpFault, McpItemFault, ById, BadId, Ids
  <2> HIDE DEF x, request
  <2>6. /\ FirstError(<< x >>) \in {x} \cup {None}
        /\ FirstError(<< x >>) = None => {x} \subseteq {None}
    BY FirstErrors
  <2>7. Agrees(op, a, McpTranslate(op, McpParse(op, a)))
    BY <2>1, <2>2, <2>3, <2>4, <2>6, Judged
  <2>8. Blamed(op, McpTranslate(op, McpParse(op, a)))
    BY <2>1, <2>2, <2>5, <2>6, ToBlame
  <2>9. QED BY <2>7, <2>8
<1>11. CASE op = "list"
  <2> DEFINE x == BadPath(a.scope)
             request == ListByTags(a.tags, McpScope(a), Clamp(Given(a.limit, 50), 1, 100))
  <2>1. ~Disputed(op, a) => a.limit \in 1 .. 50
    BY <1>11 DEF Disputed
  <2>2. ~Disputed(op, a) => Clamp(Given(a.limit, 50), 1, 100) = a.limit
    BY <2>1, Clamped
  <2>3. McpTranslate(op, McpParse(op, a)) = McpList(a)
    BY <1>11, <1>0 DEF McpTranslate
  <2>4. McpList(a) = Translated(<< x >>, request)
    BY DEF McpList
  <2>5. Sorted(op, a, {x})
    BY <1>11, ListCall, NoneIsNoWord
    DEF Sorted, SurfaceErrors, ErrorName, Disputed, BadPath
  <2>6. Asks(op, a, {x}, request)
    BY <1>11, <2>2, ListCall, ListMeans, NoneIsNoWord, ZenonT(40) DEF Asks, Fits, Disputed, McpScope
  <2>7. Blames(op, {x}, request)
    BY <1>11
    DEF Blames, StoreFaults, OnFacts, McpFault, McpItemFault, ListByTags, BadPath
  <2> HIDE DEF x, request
  <2>8. /\ FirstError(<< x >>) \in {x} \cup {None}
        /\ FirstError(<< x >>) = None => {x} \subseteq {None}
    BY FirstErrors
  <2>9. Agrees(op, a, McpTranslate(op, McpParse(op, a)))
    BY <2>3, <2>4, <2>5, <2>6, <2>8, Judged
  <2>10. Blamed(op, McpTranslate(op, McpParse(op, a)))
    BY <2>3, <2>4, <2>7, <2>8, ToBlame
  <2>11. QED BY <2>9, <2>10
<1>12. CASE op = "scopes"
  <2> DEFINE request == Read("scopes", None, None)
  <2>1. McpTranslate(op, McpParse(op, a)) = McpScopes(a)
    BY <1>12, <1>0 DEF McpTranslate
  <2>2. McpScopes(a) = Translated(<< >>, request)
    BY DEF McpScopes
  <2>3. Sorted(op, a, {})
    BY <1>12, ScopesCall, NoneIsNoWord DEF Sorted, SurfaceErrors, ErrorName, Disputed
  <2>4. Asks(op, a, {}, request)
    BY <1>12, ScopesMeans DEF Asks, Fits
  <2>5. Blames(op, {}, request)
    BY <1>12 DEF Blames, StoreFaults, OnFacts, McpFault, McpItemFault, Read
  <2> HIDE DEF request
  <2>6. /\ FirstError(<< >>) \in {} \cup {None}
        /\ FirstError(<< >>) = None => {} \subseteq {None}
    BY FirstErrors
  <2>7. Agrees(op, a, McpTranslate(op, McpParse(op, a)))
    BY <2>1, <2>2, <2>3, <2>4, <2>6, Judged
  <2>8. Blamed(op, McpTranslate(op, McpParse(op, a)))
    BY <2>1, <2>2, <2>5, <2>6, ToBlame
  <2>9. QED BY <2>7, <2>8
<1>13. CASE op = "ingest"
  <2> DEFINE x == BadId(a.supersedes, "InvalidId")
             request == IngestItem(a.tags, a.source, a.supersedes, Given(a.metadata, "{}"), a.scope)
  <2>1. McpTranslate(op, McpParse(op, a)) = McpIngest(a)
    BY <1>13, <1>0 DEF McpTranslate
  <2>2. McpIngest(a) = Translated(<< x >>, request)
    BY DEF McpIngest
  <2>3. Sorted(op, a, {x})
    BY <1>13, IngestCall, NoneIsNoWord
    DEF Sorted, SurfaceErrors, ErrorName, Disputed, BadId, McpMayAsk
  <2>4. Asks(op, a, {x}, request)
    BY <1>13, IngestMeans DEF Asks, Fits
  <2>5. Blames(op, {x}, request)
    BY <1>13 DEF Blames, StoreFaults, OnFacts, McpFault, McpItemFault, IngestItem, BadId
  <2> HIDE DEF x, request
  <2>6. /\ FirstError(<< x >>) \in {x} \cup {None}
        /\ FirstError(<< x >>) = None => {x} \subseteq {None}
    BY FirstErrors
  <2>7. Agrees(op, a, McpTranslate(op, McpParse(op, a)))
    BY <2>1, <2>2, <2>3, <2>4, <2>6, Judged
  <2>8. Blamed(op, McpTranslate(op, McpParse(op, a)))
    BY <2>1, <2>2, <2>5, <2>6, ToBlame
  <2>9. QED BY <2>7, <2>8
<1>14. CASE op = "retrieve"
  <2> DEFINE x == McpBadAdapter(a)
             y == BadPath(a.scope)
             blocks == Clamp(Given(a.limit, 10), 1, 50)
             request == Retrieve(a.text, "auto", DefaultHits, 3, blocks, McpScope(a))
  <2>1. McpToolArgs(op) = McpRetrieveTool
    BY <1>14 DEF McpToolArgs, McpGraphWriters, McpGraphReaders
  <2>2. a.mode = None /\ a.fetch = None
    BY <1>14, RetrieveCall, <2>1 DEF McpMayAsk, GivenOnly, McpRetrieveTool
  <2>3. ~Disputed(op, a) => a.limit \in {None} \cup 1 .. DefaultHits
    BY <1>14 DEF Disputed
  <2>4. ~Disputed(op, a) => blocks = Given(a.limit, 10) /\ DefaultHits >= Given(a.limit, 10)
    BY <2>3, Clamped
  <2>5. Given(a.mode, "auto") = "auto" /\ Given(a.fetch, 3) = 3
    BY <2>2 DEF Given
  <2>6. McpTranslate(op, McpParse(op, a)) = McpRetrieve(a)
    BY <1>14, <1>0 DEF McpTranslate
  <2>7. McpRetrieve(a) = Translated(<< x, y >>, request)
    BY DEF McpRetrieve
  <2>8. Sorted(op, a, {x, y})
    BY <1>14, <2>2, RetrieveCall, NoneIsNoWord
    DEF Sorted, SurfaceErrors, ErrorName, BadPath, McpBadAdapter, Wrong
  <2>9. Asks(op, a, {x, y}, request)
    <3>1. ~Disputed(op, a) => Fits(request, Meant(op, a))
      BY <1>14, <2>4, <2>5, DeeperFits DEF McpScope
    <3>2. QED BY <3>1 DEF Asks
  <2>10. Blames(op, {x, y}, request)
    BY <1>14
    DEF Blames, StoreFaults, OnFacts, McpFault, McpItemFault, Retrieve, BadPath,
        McpBadAdapter
  <2> HIDE DEF x, y, request
  <2>11. /\ FirstError(<< x, y >>) \in {x, y} \cup {None}
         /\ FirstError(<< x, y >>) = None => {x, y} \subseteq {None}
    BY FirstErrors
  <2>12. Agrees(op, a, McpTranslate(op, McpParse(op, a)))
    BY <2>6, <2>7, <2>8, <2>9, <2>11, Judged
  <2>13. Blamed(op, McpTranslate(op, McpParse(op, a)))
    BY <2>6, <2>7, <2>10, <2>11, ToBlame
  <2>14. QED BY <2>12, <2>13
<1>15. CASE op = "wakeup"
  <2> DEFINE x == IF McpProject(a.project) = "no dir" THEN "InvalidProject" ELSE None
             y == McpBadAdapter(a)
             request == BuildWakeup(ProjectScopes(McpProject(a.project), a.files = TRUE),
                                    WakeupLimit(a), WakeupBytes(a))
  <2>1. McpToolArgs(op) = McpWakeupTool
    BY <1>15 DEF McpToolArgs, McpGraphWriters, McpGraphReaders
  <2>2. a.only = None
    BY <1>15, WakeupCall, <2>1 DEF McpMayAsk, GivenOnly, McpWakeupTool
  <2>3. McpProject(a.project) = "no dir" <=> a.project = "no dir"
    BY <1>15, WakeupCall, NoneIsNoWord DEF McpProject, Given, Wrong
  <2>4. McpTranslate(op, McpParse(op, a)) = McpWakeup(a)
    BY <1>15, <1>0 DEF McpTranslate
  <2>5. McpWakeup(a) = Translated(<< x, y >>, request)
    BY <1>15 DEF McpWakeup, WakeupLimit, WakeupBytes
  <2>6. Sorted(op, a, {x, y})
    BY <1>15, <2>2, <2>3, WakeupCall, NoneIsNoWord
    DEF Sorted, SurfaceErrors, ErrorName, McpBadAdapter, Wrong
  <2>7. Meant(op, a) = request
    BY <1>15, <2>2, WakeupMeans, Zenon DEF McpProject
  <2>8. request.method = "wakeup"
    BY Wakeups
  <2> HIDE DEF request
  <2>9. Asks(op, a, {x, y}, request)
    BY <2>7 DEF Asks, Fits
  <2>10. Blames(op, {x, y}, request)
    BY <1>15, <2>8
    DEF Blames, StoreFaults, OnFacts, McpFault, McpWakeupFault, McpBadAdapter
  <2> HIDE DEF x, y, request
  <2>11. /\ FirstError(<< x, y >>) \in {x, y} \cup {None}
         /\ FirstError(<< x, y >>) = None => {x, y} \subseteq {None}
    BY FirstErrors
  <2>12. Agrees(op, a, McpTranslate(op, McpParse(op, a)))
    BY <2>4, <2>5, <2>6, <2>9, <2>11, Judged
  <2>13. Blamed(op, McpTranslate(op, McpParse(op, a)))
    BY <2>4, <2>5, <2>10, <2>11, ToBlame
  <2>14. QED BY <2>12, <2>13
<1>16. QED
  BY <1>0, <1>1, <1>2, <1>3, <1>4, <1>5, <1>6, <1>7, <1>8, <1>9, <1>10, <1>11, <1>12,
      <1>13, <1>14, <1>15
  DEF McpTools

LEMMA TaskFields == \A errors, fields : Task(errors, fields).fields = fields
BY DEF Task

LEMMA NewItems == \A item : [new_item |-> item].new_item = item
OBVIOUS

LEMMA ShortCircuits ==
    \A errors, fields, request :
        ShortCircuit(Task(errors, fields), request) = Translated(errors, request)
BY DEF ShortCircuit, Task, Translated

\* What a Node method puts in its task is what it was given, unless it also
\* put an error there.
LEMMA NodeFields ==
    ASSUME NEW a
    PROVE  /\ BadPath(a.scope) = None => NodeScope(a) = ScopeFilter(a.scope, a.exact = TRUE)
           /\ NodeBadMode(a) = None => NodeMode(a) = Given(a.mode, "auto")
BY NoneIsNoWord, ZenonT(40) DEF NodeScope, NodeBadMode, NodeMode, ErrorName

LEMMA NodeTimes == \A time : NodeBadTime(time) = None => Parsed(time) = time
BY NoneIsNoWord DEF NodeBadTime, BadTime, Parsed, ErrorName

\* The Node bindings (the methods of Store and the compute of their tasks).
LEMMA NodeAgrees ==
    ASSUME NEW op \in DOMAIN Args, NEW a \in Args[op], NodeMayAsk(op, a)
    PROVE  Agrees(op, a, NodeCompute(op, NodeMethod(op, a)))
<1>1. CASE op = "add"
  <2> DEFINE x == BadId(NodeIdOrNone(a.source), "InvalidId")
             y == NodeBadTime(a.from)
             z == NodeBadTime(a.to)
             fields == [input |-> NewFactToCore(a)]
             request == NewFactToCore(a)
  <2>1. NodeMethod(op, a) = NodeAdd(a)
    BY <1>1 DEF NodeMethod
  <2>2. NodeAdd(a) = Task(<< x, y, z >>, fields)
    BY DEF NodeAdd
  <2>3. NodeMethod(op, a).fields = fields
    BY <2>1, <2>2, TaskFields
  <2>4. NodeCompute(op, NodeMethod(op, a)) = AddFactTask(NodeMethod(op, a))
    BY <1>1 DEF NodeCompute
  <2>5. AddFactTask(NodeMethod(op, a)) = ShortCircuit(NodeMethod(op, a), request)
    BY <2>3 DEF AddFactTask
  <2>6. NodeCompute(op, NodeMethod(op, a)) = Translated(<< x, y, z >>, request)
    BY <2>1, <2>2, <2>4, <2>5, ShortCircuits
  <2>7. Sorted(op, a, {x, y, z})
    BY <1>1, AddCall, NoneIsNoWord
    DEF Sorted, SurfaceErrors, ErrorName, Disputed, BadId, BadTime, NodeBadTime,
        NodeIdOrNone
  <2>8. Asks(op, a, {x, y, z}, request)
    BY <1>1, AddCall, AddMeans, NoneIsNoWord
    DEF Asks, Fits, Disputed, NewFactToCore, NodeObject, NodeIdOrNone
  <2> HIDE DEF x, y, z, request
  <2>9. /\ FirstError(<< x, y, z >>) \in {x, y, z} \cup {None}
        /\ FirstError(<< x, y, z >>) = None => {x, y, z} \subseteq {None}
    BY FirstErrors
  <2>10. QED BY <2>6, <2>7, <2>8, <2>9, Judged
<1>2. CASE op = "query" /\ a.entity # None
  <2> DEFINE x == BadPath(a.scope)
             y == NodeBadTime(a.as_of)
             z == NodeBadTime(a.recorded_at)
             w == NodeBadDirection(a.direction)
             fields == [name |-> a.entity, query |-> GraphQueryFrom(a)]
             request == QueryEntity(a.entity, GraphQueryFrom(a))
  <2>1. BadPath(a.scope) = None => NodeScope(a) = ScopeFilter(a.scope, a.exact = TRUE)
    BY NodeFields
  <2>2. NodeBadTime(a.as_of) = None => Parsed(a.as_of) = a.as_of
    BY NodeTimes
  <2>3. NodeBadTime(a.recorded_at) = None => Parsed(a.recorded_at) = a.recorded_at
    BY NodeTimes
  <2>4. NodeBadDirection(a.direction) = None => a.direction # "sideways"
    BY NoneIsNoWord DEF NodeBadDirection, ErrorName
  <2>5. NodeMethod(op, a) = NodeQueryEntity(a)
    BY <1>2 DEF NodeMethod
  <2>6. NodeQueryEntity(a) = Task(<< x, y, z, w >>, fields)
    BY DEF NodeQueryEntity, NodeBadQuery
  <2>7. NodeMethod(op, a).fields = fields
    BY <2>5, <2>6, TaskFields
  <2>8. NodeCompute(op, NodeMethod(op, a)) = QueryEntityTask(NodeMethod(op, a))
    BY <1>2, <2>7 DEF NodeCompute
  <2>9. QueryEntityTask(NodeMethod(op, a)) = ShortCircuit(NodeMethod(op, a), request)
    BY <2>7 DEF QueryEntityTask
  <2>10. NodeCompute(op, NodeMethod(op, a)) = Translated(<< x, y, z, w >>, request)
    BY <2>5, <2>6, <2>8, <2>9, ShortCircuits
  <2>11. Sorted(op, a, {x, y, z, w})
    BY <1>2, QueryCall, NoneIsNoWord, ZenonT(40)
    DEF Sorted, SurfaceErrors, ErrorName, Disputed, BadPath, BadTime, NodeBadDirection,
        NodeBadTime, Wrong, NodeMayAsk
  <2>12. Asks(op, a, {x, y, z, w}, request)
    BY <1>2, <2>1, <2>2, <2>3, <2>4, QueryCall, QueryMeans, NoneIsNoWord
    DEF Asks, Fits, Disputed, GraphQueryFrom
  <2> HIDE DEF x, y, z, w, request
  <2>13. /\ FirstError(<< x, y, z, w >>) \in {x, y, z, w} \cup {None}
         /\ FirstError(<< x, y, z, w >>) = None => {x, y, z, w} \subseteq {None}
    BY FirstErrors
  <2>14. QED BY <2>10, <2>11, <2>12, <2>13, Judged
<1>3. CASE op = "query" /\ a.entity = None
  <2> DEFINE x == BadPath(a.scope)
             y == NodeBadTime(a.as_of)
             z == NodeBadTime(a.recorded_at)
             w == NodeBadDirection(a.direction)
             fields == [predicate |-> a.predicate, query |-> GraphQueryFrom(a)]
             request == QueryPredicate(a.predicate, GraphQueryFrom(a))
  <2>1. BadPath(a.scope) = None => NodeScope(a) = ScopeFilter(a.scope, a.exact = TRUE)
    BY NodeFields
  <2>2. NodeBadTime(a.as_of) = None => Parsed(a.as_of) = a.as_of
    BY NodeTimes
  <2>3. NodeBadTime(a.recorded_at) = None => Parsed(a.recorded_at) = a.recorded_at
    BY NodeTimes
  <2>4. NodeBadDirection(a.direction) = None => a.direction # "sideways"
    BY NoneIsNoWord DEF NodeBadDirection, ErrorName
  <2>5. NodeMethod(op, a) = NodeQueryPredicate(a)
    BY <1>3 DEF NodeMethod
  <2>6. NodeQueryPredicate(a) = Task(<< x, y, z, w >>, fields)
    BY DEF NodeQueryPredicate, NodeBadQuery
  <2>7. NodeMethod(op, a).fields = fields
    BY <2>5, <2>6, TaskFields
  <2>8. NodeCompute(op, NodeMethod(op, a)) = QueryPredicateTask(NodeMethod(op, a))
    BY <1>3, <2>7 DEF NodeCompute
  <2>9. QueryPredicateTask(NodeMethod(op, a)) = ShortCircuit(NodeMethod(op, a), request)
    BY <2>7 DEF QueryPredicateTask
  <2>10. NodeCompute(op, NodeMethod(op, a)) = Translated(<< x, y, z, w >>, request)
    BY <2>5, <2>6, <2>8, <2>9, ShortCircuits
  <2>11. Sorted(op, a, {x, y, z, w})
    BY <1>3, QueryCall, NoneIsNoWord, ZenonT(40)
    DEF Sorted, SurfaceErrors, ErrorName, Disputed, BadPath, BadTime, NodeBadDirection,
        NodeBadTime, Wrong, NodeMayAsk
  <2>12. Asks(op, a, {x, y, z, w}, request)
    BY <1>3, <2>1, <2>2, <2>3, <2>4, QueryCall, QueryMeans, NoneIsNoWord, ZenonT(40)
    DEF Asks, Fits, Disputed, GraphQueryFrom
  <2> HIDE DEF x, y, z, w, request
  <2>13. /\ FirstError(<< x, y, z, w >>) \in {x, y, z, w} \cup {None}
         /\ FirstError(<< x, y, z, w >>) = None => {x, y, z, w} \subseteq {None}
    BY FirstErrors
  <2>14. QED BY <2>10, <2>11, <2>12, <2>13, Judged
<1>4. CASE op = "invalidate"
  <2> DEFINE x == NodeBadTime(a.at)
             fields == [object |-> NodeObject(a.object, a.value, None), scope |-> a.scope,
                          at |-> Parsed(a.at)]
             request == InvalidateFact(NodeObject(a.object, a.value, None), a.scope, Parsed(a.at))
  <2>1. NodeBadTime(a.at) = None => Parsed(a.at) = a.at
    BY NodeTimes
  <2>2. NodeMethod(op, a) = NodeInvalidate(a)
    BY <1>4 DEF NodeMethod
  <2>3. NodeInvalidate(a) = Task(<< x >>, fields)
    BY DEF NodeInvalidate
  <2>4. NodeMethod(op, a).fields = fields
    BY <2>2, <2>3, TaskFields
  <2>5. NodeCompute(op, NodeMethod(op, a)) = InvalidateFactTask(NodeMethod(op, a))
    BY <1>4 DEF NodeCompute
  <2>6. InvalidateFactTask(NodeMethod(op, a)) = ShortCircuit(NodeMethod(op, a), request)
    BY <2>4 DEF InvalidateFactTask
  <2>7. NodeCompute(op, NodeMethod(op, a)) = Translated(<< x >>, request)
    BY <2>2, <2>3, <2>5, <2>6, ShortCircuits
  <2>8. Sorted(op, a, {x})
    BY <1>4, InvalidateCall, NoneIsNoWord
    DEF Sorted, SurfaceErrors, ErrorName, Disputed, BadTime, NodeBadTime
  <2>9. Asks(op, a, {x}, request)
    BY <1>4, <2>1, InvalidateCall, InvalidateMeans, NoneIsNoWord
    DEF Asks, Fits, Disputed, NodeObject
  <2> HIDE DEF x, request
  <2>10. /\ FirstError(<< x >>) \in {x} \cup {None}
         /\ FirstError(<< x >>) = None => {x} \subseteq {None}
    BY FirstErrors
  <2>11. QED BY <2>7, <2>8, <2>9, <2>10, Judged
<1>5. CASE op = "supersede"
  <2> DEFINE x == NodeBadTime(a.at)
             fields == [old |-> NodeObject(a.object, a.value, None),
                          new |-> NodeObject(a.new, a.value, None), scope |-> a.scope,
                          at |-> Parsed(a.at)]
             request == SupersedeFact(NodeObject(a.object, a.value, None),
                                      NodeObject(a.new, a.value, None), a.scope, Parsed(a.at))
  <2>1. NodeBadTime(a.at) = None => Parsed(a.at) = a.at
    BY NodeTimes
  <2>2. NodeMethod(op, a) = NodeSupersede(a)
    BY <1>5 DEF NodeMethod
  <2>3. NodeSupersede(a) = Task(<< x >>, fields)
    BY DEF NodeSupersede
  <2>4. NodeMethod(op, a).fields = fields
    BY <2>2, <2>3, TaskFields
  <2>5. NodeCompute(op, NodeMethod(op, a)) = SupersedeFactTask(NodeMethod(op, a))
    BY <1>5 DEF NodeCompute
  <2>6. SupersedeFactTask(NodeMethod(op, a)) = ShortCircuit(NodeMethod(op, a), request)
    BY <2>4 DEF SupersedeFactTask
  <2>7. NodeCompute(op, NodeMethod(op, a)) = Translated(<< x >>, request)
    BY <2>2, <2>3, <2>5, <2>6, ShortCircuits
  <2>8. Sorted(op, a, {x})
    BY <1>5, SupersedeCall, NoneIsNoWord
    DEF Sorted, SurfaceErrors, ErrorName, Disputed, BadTime, NodeBadTime
  <2>9. Asks(op, a, {x}, request)
    BY <1>5, <2>1, SupersedeCall, SupersedeMeans, NoneIsNoWord
    DEF Asks, Fits, Disputed, NodeObject
  <2> HIDE DEF x, request
  <2>10. /\ FirstError(<< x >>) \in {x} \cup {None}
         /\ FirstError(<< x >>) = None => {x} \subseteq {None}
    BY FirstErrors
  <2>11. QED BY <2>7, <2>8, <2>9, <2>10, Judged
<1>6. CASE op = "timeline"
  <2> DEFINE x == BadPath(a.scope)
             fields == [entity |-> a.entity, scope |-> NodeScope(a)]
             request == Read("timeline", NodeScope(a), a.entity)
  <2>1. BadPath(a.scope) = None => NodeScope(a) = ScopeFilter(a.scope, a.exact = TRUE)
    BY NodeFields
  <2>2. NodeMethod(op, a) = NodeTimeline(a)
    BY <1>6 DEF NodeMethod
  <2>3. NodeTimeline(a) = Task(<< x >>, fields)
    BY DEF NodeTimeline
  <2>4. NodeMethod(op, a).fields = fields
    BY <2>2, <2>3, TaskFields
  <2>5. NodeCompute(op, NodeMethod(op, a)) = TimelineTask(NodeMethod(op, a))
    BY <1>6 DEF NodeCompute
  <2>6. TimelineTask(NodeMethod(op, a)) = ShortCircuit(NodeMethod(op, a), request)
    BY <2>4 DEF TimelineTask
  <2>7. NodeCompute(op, NodeMethod(op, a)) = Translated(<< x >>, request)
    BY <2>2, <2>3, <2>5, <2>6, ShortCircuits
  <2>8. Sorted(op, a, {x})
    BY <1>6, TimelineCall, NoneIsNoWord
    DEF Sorted, SurfaceErrors, ErrorName, Disputed, BadPath
  <2>9. Asks(op, a, {x}, request)
    BY <1>6, <2>1, TimelineCall, TimelineMeans, NoneIsNoWord DEF Asks, Fits, Disputed
  <2> HIDE DEF x, request
  <2>10. /\ FirstError(<< x >>) \in {x} \cup {None}
         /\ FirstError(<< x >>) = None => {x} \subseteq {None}
    BY FirstErrors
  <2>11. QED BY <2>7, <2>8, <2>9, <2>10, Judged
<1>7. CASE op = "stats"
  <2> DEFINE x == BadPath(a.scope)
             fields == [scope |-> NodeScope(a)]
             request == Read("graph_stats", NodeScope(a), None)
  <2>1. BadPath(a.scope) = None => NodeScope(a) = ScopeFilter(a.scope, a.exact = TRUE)
    BY NodeFields
  <2>2. NodeMethod(op, a) = NodeGraphStats(a)
    BY <1>7 DEF NodeMethod
  <2>3. NodeGraphStats(a) = Task(<< x >>, fields)
    BY DEF NodeGraphStats
  <2>4. NodeMethod(op, a).fields = fields
    BY <2>2, <2>3, TaskFields
  <2>5. NodeCompute(op, NodeMethod(op, a)) = GraphStatsTask(NodeMethod(op, a))
    BY <1>7 DEF NodeCompute
  <2>6. GraphStatsTask(NodeMethod(op, a)) = ShortCircuit(NodeMethod(op, a), request)
    BY <2>4 DEF GraphStatsTask
  <2>7. NodeCompute(op, NodeMethod(op, a)) = Translated(<< x >>, request)
    BY <2>2, <2>3, <2>5, <2>6, ShortCircuits
  <2>8. Sorted(op, a, {x})
    BY <1>7, StatsCall, NoneIsNoWord
    DEF Sorted, SurfaceErrors, ErrorName, Disputed, BadPath
  <2>9. Asks(op, a, {x}, request)
    BY <1>7, <2>1, StatsCall, StatsMeans, NoneIsNoWord DEF Asks, Fits, Disputed
  <2> HIDE DEF x, request
  <2>10. /\ FirstError(<< x >>) \in {x} \cup {None}
         /\ FirstError(<< x >>) = None => {x} \subseteq {None}
    BY FirstErrors
  <2>11. QED BY <2>7, <2>8, <2>9, <2>10, Judged
<1>8. CASE op = "entities"
  <2> DEFINE x == BadPath(a.scope)
             fields == [scope |-> NodeScope(a), kind |-> a.kind]
             request == Read("entities", NodeScope(a), a.kind)
  <2>1. BadPath(a.scope) = None => NodeScope(a) = ScopeFilter(a.scope, a.exact = TRUE)
    BY NodeFields
  <2>2. NodeMethod(op, a) = NodeEntities(a)
    BY <1>8 DEF NodeMethod
  <2>3. NodeEntities(a) = Task(<< x >>, fields)
    BY DEF NodeEntities
  <2>4. NodeMethod(op, a).fields = fields
    BY <2>2, <2>3, TaskFields
  <2>5. NodeCompute(op, NodeMethod(op, a)) = EntitiesTask(NodeMethod(op, a))
    BY <1>8 DEF NodeCompute
  <2>6. EntitiesTask(NodeMethod(op, a)) = ShortCircuit(NodeMethod(op, a), request)
    BY <2>4 DEF EntitiesTask
  <2>7. NodeCompute(op, NodeMethod(op, a)) = Translated(<< x >>, request)
    BY <2>2, <2>3, <2>5, <2>6, ShortCircuits
  <2>8. Sorted(op, a, {x})
    BY <1>8, EntitiesCall, NoneIsNoWord
    DEF Sorted, SurfaceErrors, ErrorName, Disputed, BadPath
  <2>9. Asks(op, a, {x}, request)
    BY <1>8, <2>1, EntitiesCall, EntitiesMeans, NoneIsNoWord DEF Asks, Fits, Disputed
  <2> HIDE DEF x, request
  <2>10. /\ FirstError(<< x >>) \in {x} \cup {None}
         /\ FirstError(<< x >>) = None => {x} \subseteq {None}
    BY FirstErrors
  <2>11. QED BY <2>7, <2>8, <2>9, <2>10, Judged
<1>9. CASE op = "history"
  <2> DEFINE x == BadId(a.id, "InvalidId")
             fields == [id |-> a.id]
             request == ById("fact_history", a.id)
  <2>1. NodeMethod(op, a) = NodeFactHistory(a)
    BY <1>9 DEF NodeMethod
  <2>2. NodeFactHistory(a) = Task(<< x >>, fields)
    BY DEF NodeFactHistory
  <2>3. NodeMethod(op, a).fields = fields
    BY <2>1, <2>2, TaskFields
  <2>4. NodeCompute(op, NodeMethod(op, a)) = FactHistoryTask(NodeMethod(op, a))
    BY <1>9 DEF NodeCompute
  <2>5. FactHistoryTask(NodeMethod(op, a)) = ShortCircuit(NodeMethod(op, a), request)
    BY <2>3 DEF FactHistoryTask
  <2>6. NodeCompute(op, NodeMethod(op, a)) = Translated(<< x >>, request)
    BY <2>1, <2>2, <2>4, <2>5, ShortCircuits
  <2>7. Sorted(op, a, {x})
    BY <1>9, HistoryCall, NoneIsNoWord
    DEF Sorted, SurfaceErrors, ErrorName, Disputed, BadId, Ids
  <2>8. Asks(op, a, {x}, request)
    BY <1>9, HistoryCall, HistoryMeans, NoneIsNoWord DEF Asks, Fits, Disputed
  <2> HIDE DEF x, request
  <2>9. /\ FirstError(<< x >>) \in {x} \cup {None}
        /\ FirstError(<< x >>) = None => {x} \subseteq {None}
    BY FirstErrors
  <2>10. QED BY <2>6, <2>7, <2>8, <2>9, Judged
<1>10. CASE op = "get"
  <2> DEFINE x == BadId(a.id, "InvalidId")
             fields == [id |-> a.id]
             request == ById("get", a.id)
  <2>1. NodeMethod(op, a) = NodeGet(a)
    BY <1>10 DEF NodeMethod
  <2>2. NodeGet(a) = Task(<< x >>, fields)
    BY DEF NodeGet
  <2>3. NodeMethod(op, a).fields = fields
    BY <2>1, <2>2, TaskFields
  <2>4. NodeCompute(op, NodeMethod(op, a)) = GetTask(NodeMethod(op, a))
    BY <1>10 DEF NodeCompute
  <2>5. GetTask(NodeMethod(op, a)) = ShortCircuit(NodeMethod(op, a), request)
    BY <2>3 DEF GetTask
  <2>6. NodeCompute(op, NodeMethod(op, a)) = Translated(<< x >>, request)
    BY <2>1, <2>2, <2>4, <2>5, ShortCircuits
  <2>7. Sorted(op, a, {x})
    BY <1>10, GetCall, NoneIsNoWord
    DEF Sorted, SurfaceErrors, ErrorName, Disputed, BadId, Ids
  <2>8. Asks(op, a, {x}, request)
    BY <1>10, GetCall, GetMeans, NoneIsNoWord DEF Asks, Fits, Disputed
  <2> HIDE DEF x, request
  <2>9. /\ FirstError(<< x >>) \in {x} \cup {None}
        /\ FirstError(<< x >>) = None => {x} \subseteq {None}
    BY FirstErrors
  <2>10. QED BY <2>6, <2>7, <2>8, <2>9, Judged
<1>11. CASE op = "revisions"
  <2> DEFINE x == BadId(a.id, "InvalidId")
             fields == [id |-> a.id]
             request == ById("revision_history", a.id)
  <2>1. NodeMethod(op, a) = NodeRevisions(a)
    BY <1>11 DEF NodeMethod
  <2>2. NodeRevisions(a) = Task(<< x >>, fields)
    BY DEF NodeRevisions
  <2>3. NodeMethod(op, a).fields = fields
    BY <2>1, <2>2, TaskFields
  <2>4. NodeCompute(op, NodeMethod(op, a)) = RevisionsTask(NodeMethod(op, a))
    BY <1>11 DEF NodeCompute
  <2>5. RevisionsTask(NodeMethod(op, a)) = ShortCircuit(NodeMethod(op, a), request)
    BY <2>3 DEF RevisionsTask
  <2>6. NodeCompute(op, NodeMethod(op, a)) = Translated(<< x >>, request)
    BY <2>1, <2>2, <2>4, <2>5, ShortCircuits
  <2>7. Sorted(op, a, {x})
    BY <1>11, RevisionsCall, NoneIsNoWord
    DEF Sorted, SurfaceErrors, ErrorName, Disputed, BadId, Ids
  <2>8. Asks(op, a, {x}, request)
    BY <1>11, RevisionsCall, RevisionsMeans, NoneIsNoWord DEF Asks, Fits, Disputed
  <2> HIDE DEF x, request
  <2>9. /\ FirstError(<< x >>) \in {x} \cup {None}
        /\ FirstError(<< x >>) = None => {x} \subseteq {None}
    BY FirstErrors
  <2>10. QED BY <2>6, <2>7, <2>8, <2>9, Judged
<1>12. CASE op = "list"
  <2> DEFINE x == BadPath(a.scope)
             fields == [tags |-> a.tags, limit |-> a.limit, filter |-> NodeScope(a)]
             request == ListByTags(a.tags, NodeScope(a), IF a.limit = 0 THEN 1 ELSE a.limit)
  <2>1. BadPath(a.scope) = None => NodeScope(a) = ScopeFilter(a.scope, a.exact = TRUE)
    BY NodeFields
  <2>2. ~Disputed(op, a) => a.limit \in 1 .. 50
    BY <1>12 DEF Disputed
  <2>3. ~Disputed(op, a) => (IF a.limit = 0 THEN 1 ELSE a.limit) = a.limit
    BY <2>2
  <2>4. NodeMethod(op, a) = NodeList(a)
    BY <1>12 DEF NodeMethod
  <2>5. NodeList(a) = Task(<< x >>, fields)
    BY DEF NodeList
  <2>6. NodeMethod(op, a).fields = fields
    BY <2>4, <2>5, TaskFields
  <2>7. NodeCompute(op, NodeMethod(op, a)) = ListTask(NodeMethod(op, a))
    BY <1>12 DEF NodeCompute
  <2>8. ListTask(NodeMethod(op, a)) = ShortCircuit(NodeMethod(op, a), request)
    BY <2>6 DEF ListTask
  <2>9. NodeCompute(op, NodeMethod(op, a)) = Translated(<< x >>, request)
    BY <2>4, <2>5, <2>7, <2>8, ShortCircuits
  <2>10. Sorted(op, a, {x})
    BY <1>12, ListCall, NoneIsNoWord
    DEF Sorted, SurfaceErrors, ErrorName, Disputed, BadPath
  <2>11. Asks(op, a, {x}, request)
    BY <1>12, <2>1, <2>3, ListCall, ListMeans, NoneIsNoWord, ZenonT(40) DEF Asks, Fits, Disputed
  <2> HIDE DEF x, request
  <2>12. /\ FirstError(<< x >>) \in {x} \cup {None}
         /\ FirstError(<< x >>) = None => {x} \subseteq {None}
    BY FirstErrors
  <2>13. QED BY <2>9, <2>10, <2>11, <2>12, Judged
<1>13. CASE op = "scopes"
  <2> DEFINE fields == << >>
             request == Read("scopes", None, None)
  <2>1. NodeMethod(op, a) = Task(<< >>, << >>)
    BY <1>13 DEF NodeMethod
  <2>2. NodeMethod(op, a).fields = fields
    BY <2>1, <2>1, TaskFields
  <2>3. NodeCompute(op, NodeMethod(op, a)) = ScopesTask(NodeMethod(op, a))
    BY <1>13 DEF NodeCompute
  <2>4. ScopesTask(NodeMethod(op, a)) = ShortCircuit(NodeMethod(op, a), request)
    BY <2>2 DEF ScopesTask
  <2>5. NodeCompute(op, NodeMethod(op, a)) = Translated(<< >>, request)
    BY <2>1, <2>3, <2>4, ShortCircuits
  <2>6. Sorted(op, a, {})
    BY <1>13, ScopesCall, NoneIsNoWord DEF Sorted, SurfaceErrors, ErrorName, Disputed
  <2>7. Asks(op, a, {}, request)
    BY <1>13, ScopesCall, ScopesMeans, NoneIsNoWord DEF Asks, Fits, Disputed
  <2> HIDE DEF request
  <2>8. /\ FirstError(<< >>) \in {} \cup {None}
        /\ FirstError(<< >>) = None => {} \subseteq {None}
    BY FirstErrors
  <2>9. QED BY <2>5, <2>6, <2>7, <2>8, Judged
<1>14. CASE op = "export"
  <2> DEFINE fields == << >>
             request == Read("export", None, None)
  <2>1. NodeMethod(op, a) = Task(<< >>, << >>)
    BY <1>14 DEF NodeMethod
  <2>2. NodeMethod(op, a).fields = fields
    BY <2>1, <2>1, TaskFields
  <2>3. NodeCompute(op, NodeMethod(op, a)) = ExportTask(NodeMethod(op, a))
    BY <1>14 DEF NodeCompute
  <2>4. ExportTask(NodeMethod(op, a)) = ShortCircuit(NodeMethod(op, a), request)
    BY <2>2 DEF ExportTask
  <2>5. NodeCompute(op, NodeMethod(op, a)) = Translated(<< >>, request)
    BY <2>1, <2>3, <2>4, ShortCircuits
  <2>6. Sorted(op, a, {})
    BY <1>14, ExportCall, NoneIsNoWord DEF Sorted, SurfaceErrors, ErrorName, Disputed
  <2>7. Asks(op, a, {}, request)
    BY <1>14, ExportCall, ExportMeans, NoneIsNoWord DEF Asks, Fits, Disputed
  <2> HIDE DEF request
  <2>8. /\ FirstError(<< >>) \in {} \cup {None}
        /\ FirstError(<< >>) = None => {} \subseteq {None}
    BY FirstErrors
  <2>9. QED BY <2>5, <2>6, <2>7, <2>8, Judged
<1>15. CASE op = "ingest"
  <2> DEFINE x == BadId(NodeIdOrNone(a.supersedes), "InvalidId")
             fields == [new_item |-> IngestItem(a.tags, a.source, NodeIdOrNone(a.supersedes),
                                                    Given(a.metadata, "{}"), a.scope)]
             request == IngestItem(a.tags, a.source, NodeIdOrNone(a.supersedes),
                                   Given(a.metadata, "{}"), a.scope)
  <2>1. NodeMethod(op, a) = NodeIngest(a)
    BY <1>15 DEF NodeMethod
  <2>2. NodeIngest(a) = Task(<< x >>, fields)
    BY DEF NodeIngest
  <2>3. NodeMethod(op, a).fields = fields
    <3> HIDE DEF x, fields
    <3>1. QED BY <2>1, <2>2, TaskFields
  <2>4. NodeCompute(op, NodeMethod(op, a)) = IngestTask(NodeMethod(op, a))
    BY <1>15 DEF NodeCompute
  <2>5. IngestTask(NodeMethod(op, a)) = ShortCircuit(NodeMethod(op, a), request)
    BY <2>3, NewItems DEF IngestTask
  <2>6. NodeCompute(op, NodeMethod(op, a)) = Translated(<< x >>, request)
    BY <2>1, <2>2, <2>4, <2>5, ShortCircuits
  <2>7. Sorted(op, a, {x})
    BY <1>15, IngestCall, NoneIsNoWord, ZenonT(40)
    DEF Sorted, SurfaceErrors, ErrorName, Disputed, BadId, NodeIdOrNone, NodeMayAsk
  <2>8. Asks(op, a, {x}, request)
    BY <1>15, IngestCall, IngestMeans, NoneIsNoWord DEF Asks, Fits, Disputed, NodeIdOrNone
  <2> HIDE DEF x, request
  <2>9. /\ FirstError(<< x >>) \in {x} \cup {None}
        /\ FirstError(<< x >>) = None => {x} \subseteq {None}
    BY FirstErrors
  <2>10. QED BY <2>6, <2>7, <2>8, <2>9, Judged
<1>16. CASE op = "set_scope"
  <2> DEFINE x == BadId(a.id, "InvalidId")
             fields == [id |-> a.id, scope |-> a.scope]
             request == SetItemScope(a.id, a.scope)
  <2>1. NodeMethod(op, a) = NodeSetScope(a)
    BY <1>16 DEF NodeMethod
  <2>2. NodeSetScope(a) = Task(<< x >>, fields)
    BY DEF NodeSetScope
  <2>3. NodeMethod(op, a).fields = fields
    BY <2>1, <2>2, TaskFields
  <2>4. NodeCompute(op, NodeMethod(op, a)) = SetScopeTask(NodeMethod(op, a))
    BY <1>16 DEF NodeCompute
  <2>5. SetScopeTask(NodeMethod(op, a)) = ShortCircuit(NodeMethod(op, a), request)
    BY <2>3 DEF SetScopeTask
  <2>6. NodeCompute(op, NodeMethod(op, a)) = Translated(<< x >>, request)
    BY <2>1, <2>2, <2>4, <2>5, ShortCircuits
  <2>7. Sorted(op, a, {x})
    BY <1>16, SetScopeCall, NoneIsNoWord
    DEF Sorted, SurfaceErrors, ErrorName, Disputed, BadId, Ids
  <2>8. Asks(op, a, {x}, request)
    BY <1>16, SetScopeCall, SetScopeMeans, NoneIsNoWord DEF Asks, Fits, Disputed
  <2> HIDE DEF x, request
  <2>9. /\ FirstError(<< x >>) \in {x} \cup {None}
        /\ FirstError(<< x >>) = None => {x} \subseteq {None}
    BY FirstErrors
  <2>10. QED BY <2>6, <2>7, <2>8, <2>9, Judged
<1>17. CASE op = "search"
  <2> DEFINE x == NodeBadMode(a)
             y == BadPath(a.scope)
             fields == [query |-> a.text, mode |-> NodeMode(a), limit |-> Given(a.limit, 10),
                          scope |-> NodeScope(a)]
             request == Search(a.text, NodeMode(a), Given(a.limit, 10), NodeScope(a))
  <2>1. BadPath(a.scope) = None => NodeScope(a) = ScopeFilter(a.scope, a.exact = TRUE)
    BY NodeFields
  <2>2. NodeBadMode(a) = None => NodeMode(a) = Given(a.mode, "auto")
    BY NodeFields
  <2>3. NodeMethod(op, a) = NodeSearch(a)
    BY <1>17 DEF NodeMethod
  <2>4. NodeSearch(a) = Task(<< x, y >>, fields)
    BY DEF NodeSearch
  <2>5. NodeMethod(op, a).fields = fields
    BY <2>3, <2>4, TaskFields
  <2>6. NodeCompute(op, NodeMethod(op, a)) = SearchTask(NodeMethod(op, a))
    BY <1>17 DEF NodeCompute
  <2>7. SearchTask(NodeMethod(op, a)) = ShortCircuit(NodeMethod(op, a), request)
    BY <2>5 DEF SearchTask
  <2>8. NodeCompute(op, NodeMethod(op, a)) = Translated(<< x, y >>, request)
    BY <2>3, <2>4, <2>6, <2>7, ShortCircuits
  <2>9. Sorted(op, a, {x, y})
    BY <1>17, SearchCall, NoneIsNoWord
    DEF Sorted, SurfaceErrors, ErrorName, Disputed, BadPath, NodeBadMode
  <2>10. Asks(op, a, {x, y}, request)
    BY <1>17, <2>1, <2>2, SearchCall, SearchMeans, NoneIsNoWord DEF Asks, Fits, Disputed
  <2> HIDE DEF x, y, request
  <2>11. /\ FirstError(<< x, y >>) \in {x, y} \cup {None}
         /\ FirstError(<< x, y >>) = None => {x, y} \subseteq {None}
    BY FirstErrors
  <2>12. QED BY <2>8, <2>9, <2>10, <2>11, Judged
<1>18. CASE op = "retrieve"
  <2> DEFINE x == NodeBadMode(a)
             y == BadPath(a.scope)
             fields == [query |-> a.text, mode |-> NodeMode(a), limit |-> Given(a.limit, 10),
                        fetch |-> Given(a.fetch, 3), scope |-> NodeScope(a)]
             request == Retrieve(a.text, NodeMode(a), Given(a.limit, 10), Given(a.fetch, 3),
                                 Given(a.limit, 10), NodeScope(a))
  <2>1. BadPath(a.scope) = None => NodeScope(a) = ScopeFilter(a.scope, a.exact = TRUE)
    BY NodeFields
  <2>2. NodeBadMode(a) = None => NodeMode(a) = Given(a.mode, "auto")
    BY NodeFields
  <2>3. NodeMethod(op, a) = NodeRetrieve(a)
    BY <1>18 DEF NodeMethod
  <2>4. NodeRetrieve(a) = Task(<< x, y >>, fields)
    BY DEF NodeRetrieve
  <2>5. NodeMethod(op, a).fields = fields
    BY <2>3, <2>4, TaskFields
  <2>6. NodeCompute(op, NodeMethod(op, a)) = RetrieveTask(NodeMethod(op, a))
    BY <1>18 DEF NodeCompute
  <2>7. RetrieveTask(NodeMethod(op, a)) = ShortCircuit(NodeMethod(op, a), request)
    BY <2>5 DEF RetrieveTask
  <2>8. NodeCompute(op, NodeMethod(op, a)) = Translated(<< x, y >>, request)
    BY <2>3, <2>4, <2>6, <2>7, ShortCircuits
  <2>9. Sorted(op, a, {x, y})
    BY <1>18, RetrieveCall, NoneIsNoWord, ZenonT(40)
    DEF Sorted, SurfaceErrors, ErrorName, BadPath, NodeBadMode, NodeMayAsk, Wrong
  <2>10. Asks(op, a, {x, y}, request)
    BY <1>18, <2>1, <2>2, RetrieveCall, RetrieveMeans, NoneIsNoWord DEF Asks, Fits, Disputed
  <2> HIDE DEF x, y, request
  <2>11. /\ FirstError(<< x, y >>) \in {x, y} \cup {None}
         /\ FirstError(<< x, y >>) = None => {x, y} \subseteq {None}
    BY FirstErrors
  <2>12. QED BY <2>8, <2>9, <2>10, <2>11, Judged
<1>19. CASE op = "wakeup"
  <2> DEFINE x == NodeBadProject(a.project)
             y == NodeBadAdapter(a.adapter)
             fields == [project |-> NodeProject(a.project), files |-> a.files = TRUE,
                          limit |-> WakeupLimit(a), max_bytes |-> WakeupBytes(a)]
             request == BuildWakeup(ProjectScopes(NodeProject(a.project), a.files = TRUE),
                                    WakeupLimit(a), WakeupBytes(a))
  <2>1. a.only = None
    BY <1>19 DEF NodeMayAsk
  <2>2. NodeProject(a.project) = "no dir" <=> a.project = "no dir"
    BY <1>19, WakeupCall, NoneIsNoWord DEF NodeProject, Given, Wrong
  <2>3. NodeMethod(op, a) = NodeWakeup(a)
    BY <1>19 DEF NodeMethod
  <2>4. NodeWakeup(a) = Task(<< x, y >>, fields)
    BY DEF NodeWakeup, WakeupLimit, WakeupBytes
  <2>5. NodeMethod(op, a).fields = fields
    BY <2>3, <2>4, TaskFields
  <2>6. NodeCompute(op, NodeMethod(op, a)) = WakeupTask(NodeMethod(op, a))
    BY <1>19 DEF NodeCompute
  <2>7. WakeupTask(NodeMethod(op, a)) = ShortCircuit(NodeMethod(op, a), request)
    BY <2>5 DEF WakeupTask
  <2>8. NodeCompute(op, NodeMethod(op, a)) = Translated(<< x, y >>, request)
    BY <2>3, <2>4, <2>6, <2>7, ShortCircuits
  <2>9. Sorted(op, a, {x, y})
    BY <1>19, <2>1, <2>2, WakeupCall, NoneIsNoWord
    DEF Sorted, SurfaceErrors, ErrorName, NodeBadAdapter, NodeBadProject, Wrong
  <2>10. Meant(op, a) = request
    BY <1>19, <2>1, WakeupMeans, Zenon DEF NodeProject
  <2> HIDE DEF request
  <2>11. Asks(op, a, {x, y}, request)
    BY <2>10 DEF Asks, Fits
  <2> HIDE DEF x, y, request
  <2>12. /\ FirstError(<< x, y >>) \in {x, y} \cup {None}
         /\ FirstError(<< x, y >>) = None => {x, y} \subseteq {None}
    BY FirstErrors
  <2>13. QED BY <2>8, <2>9, <2>11, <2>12, Judged
<1>20. QED
  BY <1>1, <1>2, <1>3, <1>4, <1>5, <1>6, <1>7, <1>8, <1>9, <1>10, <1>11, <1>12, <1>13,
      <1>14, <1>15, <1>16, <1>17, <1>18, <1>19, ZenonT(40)
  DEF Args

(***************************************************************************)
(* A call on its way: what a surface passes on, and what it answers.        *)
(***************************************************************************)
LEMMA StoreErrors ==
    ASSUME NEW s, NEW r
    PROVE  /\ StoreError(s, r) \in StoreFaults(r.method) \cup {None}
           /\ StoreRefuses(r) => StoreError(s, r) # None
<1>1. CASE read_only[s] /\ r.method \in OnFacts \cup {"ingest", "set_scope"}
  <2>1. StoreError(s, r) = "ReadOnly"
    BY <1>1 DEF StoreError
  <2>2. "ReadOnly" \in StoreFaults(r.method)
    BY <1>1 DEF StoreFaults, OnFacts
  <2>3. QED BY <2>1, <2>2, NoneIsNoWord DEF ErrorName
<1>2. CASE /\ ~(read_only[s] /\ r.method \in OnFacts \cup {"ingest", "set_scope"})
           /\ r.method \in {"ingest", "set_scope"} /\ r.scope = "a//b"
  <2>1. StoreError(s, r) = "Validation"
    BY <1>2 DEF StoreError
  <2>2. "Validation" \in StoreFaults(r.method)
    BY <1>2 DEF StoreFaults, OnFacts
  <2>3. QED BY <2>1, <2>2, NoneIsNoWord DEF ErrorName
<1>3. CASE /\ ~(read_only[s] /\ r.method \in OnFacts \cup {"ingest", "set_scope"})
           /\ ~(r.method \in {"ingest", "set_scope"} /\ r.scope = "a//b")
  <2>1. CASE r.method \in OnFacts
    <3>1. StoreError(s, r) = FactError(s, r)
      BY <1>3, <2>1 DEF StoreError, OnFacts
    <3>2. FactError(s, r) \in {None, "Validation", "FactNotFound"}
      BY <2>1 DEF FactError, OnFacts
    <3>3. r.scope = "a//b" => FactError(s, r) = "Validation"
      BY DEF FactError
    <3>4. StoreRefuses(r) => r.scope = "a//b"
      BY <2>1 DEF StoreRefuses, OnFacts
    <3>5. "Validation" # None
      BY NoneIsNoWord DEF ErrorName
    <3>6. QED BY <2>1, <3>1, <3>2, <3>3, <3>4, <3>5 DEF StoreFaults
  <2>2. CASE r.method = "ingest"
    BY <1>3, <2>2 DEF StoreError, StoreFaults, StoreRefuses, OnFacts
  <2>3. CASE r.method \in {"get", "revision_history", "set_scope"}
    BY <1>3, <2>3 DEF StoreError, StoreFaults, StoreRefuses, OnFacts
  <2>4. CASE r.method = "fact_history"
    BY <1>3, <2>4 DEF StoreError, StoreFaults, StoreRefuses, OnFacts
  <2>5. CASE r.method = "retrieve"
    BY <1>3, <2>5, NoneIsNoWord DEF StoreError, StoreFaults, StoreRefuses, OnFacts, ErrorName
  <2>6. CASE r.method \notin OnFacts \cup {"ingest", "get", "revision_history", "set_scope",
                                           "fact_history", "retrieve"}
    BY <1>3, <2>6 DEF StoreError, StoreFaults, StoreRefuses, OnFacts
  <2>7. QED BY <2>1, <2>2, <2>3, <2>4, <2>5, <2>6
<1>4. QED BY <1>1, <1>2, <1>3

Passes(s, ro, c) ==
    /\ Agrees(c.op, c.args, c)
    /\ s = "mcp" => Blamed(c.op, c) /\ c.op \in McpOffered(ro)

Answers(s, c) ==
    /\ ~Disputed(c.op, c.args) =>
          /\ Malformed(c.op, c.args) => c.error # None
          /\ c.error \in SurfaceErrors => Malformed(c.op, c.args)
    /\ s = "mcp" /\ c.error # None => McpFault(c.op, c.error) = "invalid_params"

\* A call on a surface.
Stage(s, ro, c) ==
    /\ c.op \in DOMAIN Args /\ c.args \in Args[c.op] /\ MayAsk(s, c.op, c.args)
    /\ c.phase \in {"asked", "queued", "ready", "done"}
    /\ c.phase = "queued" => s = "node" /\ c.task = NodeMethod(c.op, c.args)
    /\ c.phase = "ready" => c.error = None /\ Passes(s, ro, c)
    /\ c.phase = "done" => Answers(s, c)

Stages == \A s \in Surface : call[s] # None => Stage(s, read_only[s], call[s])

\* What a surface settles is passed on, or is answered.
LEMMA SettleStages ==
    ASSUME Numbered, Stages, NEW s \in Surface, call[s] # None, NEW t, Settle(s, t),
           read_only' = read_only,
           t.error = None => Passes(s, read_only[s], [op |-> call[s].op, args |-> call[s].args,
                                                      error |-> t.error, request |-> t.request]),
           t.error # None => Answers(s, [op |-> call[s].op, args |-> call[s].args,
                                         error |-> t.error, request |-> t.request])
    PROVE  Stages'
<1> DEFINE c == call[s]
           d == call'[s]
           settled == [op |-> c.op, args |-> c.args, error |-> t.error, request |-> t.request]
<1>1. /\ d.op = c.op /\ d.args = c.args /\ d.error = t.error /\ d.request = t.request
      /\ d.phase = IF t.error = None THEN "ready" ELSE "done"
      /\ \A u \in Surface \ {s} : call'[u] = call[u]
  BY DEF Numbered, Settle, CallFields
<1>2. /\ settled.op = c.op /\ settled.args = c.args /\ settled.error = t.error
      /\ settled.request = t.request
  OBVIOUS
<1>3. Stage(s, read_only[s], c)
  BY DEF Stages
<1> DEFINE ro == read_only[s]
<1>4. t.error = None => Passes(s, ro, d)
  <2>1. t.error = None => Passes(s, ro, settled)
    OBVIOUS
  <2> HIDE DEF c, d, settled, ro
  <2>2. QED BY <1>1, <1>2, <2>1 DEF Passes, Agrees, Blamed
<1>5. t.error # None => Answers(s, d)
  <2>1. t.error # None => Answers(s, settled)
    OBVIOUS
  <2> HIDE DEF c, d, settled
  <2>2. QED BY <1>1, <1>2, <2>1 DEF Answers
<1>6. Stage(s, ro, d)
  <2> HIDE DEF c, d, settled
  <2>1. QED BY <1>1, <1>3, <1>4, <1>5 DEF Stage
<1>7. QED BY <1>1, <1>6 DEF Stages

\* A surface whose call is not touched stays where it was.
LEMMA OthersStay ==
    ASSUME Stages, NEW s \in Surface, read_only' = read_only,
           \A u \in Surface \ {s} : call'[u] = call[u],
           call'[s] # None => Stage(s, read_only[s], call'[s])
    PROVE  Stages'
BY DEF Stages

LEMMA TranslateStages ==
    ASSUME Numbered, Stages, TranslateCli \/ TranslateMcp \/ QueueTask \/ TranslateNode
    PROVE  Stages'
<1>1. CASE TranslateCli
  <2> DEFINE c == call["cli"]
             refused == read_only["cli"] /\ c.op \in CliGate
             t == IF refused THEN RefusedWith("StoreReadOnly") ELSE CliTranslate(c.op, c.args)
  <2>1. Settle("cli", t) /\ read_only' = read_only /\ c # None
    BY <1>1 DEF TranslateCli
  <2>2. c.op \in DOMAIN Args /\ c.args \in Args[c.op] /\ CliMayAsk(c.op, c.args)
    BY <2>1 DEF Stages, Stage, Surface, MayAsk
  <2>3. CASE refused
    <3>1. t.error = "StoreReadOnly"
      BY <2>3 DEF RefusedWith
    <3>2. "StoreReadOnly" # None /\ "StoreReadOnly" \notin SurfaceErrors
      BY NoneIsNoWord DEF ErrorName, SurfaceErrors
    <3> HIDE DEF t
    <3>3. Answers("cli", [op |-> c.op, args |-> c.args, error |-> t.error,
                          request |-> t.request])
      BY <3>1, <3>2 DEF Answers
    <3>4. QED BY <2>1, <3>1, <3>2, <3>3, SettleStages DEF Surface
  <2>4. CASE ~refused
    <3>1. Agrees(c.op, c.args, t)
      BY <2>2, <2>4, CliAgrees
    <3> HIDE DEF t
    <3>2. t.error = None => Passes("cli", read_only["cli"],
                                   [op |-> c.op, args |-> c.args, error |-> t.error,
                                    request |-> t.request])
      BY <3>1 DEF Passes, Agrees
    <3>3. t.error # None => Answers("cli", [op |-> c.op, args |-> c.args, error |-> t.error,
                                            request |-> t.request])
      BY <3>1 DEF Answers, Agrees
    <3>4. QED BY <2>1, <3>2, <3>3, SettleStages DEF Surface
  <2>5. QED BY <2>3, <2>4
<1>2. CASE TranslateMcp
  <2> DEFINE c == call["mcp"]
             refused == read_only["mcp"] /\ c.op \in Writers
             t == IF refused THEN RefusedWith("ReadOnly")
                  ELSE McpTranslate(c.op, McpParse(c.op, c.args))
  <2>1. Settle("mcp", t) /\ read_only' = read_only /\ c # None
    BY <1>2 DEF TranslateMcp
  <2>2. /\ c.op \in DOMAIN Args /\ c.args \in Args[c.op] /\ McpMayAsk(c.op, c.args)
        /\ c.op \in McpTools
    BY <2>1 DEF Stages, Stage, Surface, MayAsk, McpMayAsk
  <2>3. CASE refused
    <3>1. t.error = "ReadOnly"
      BY <2>3 DEF RefusedWith
    <3>2. "ReadOnly" # None /\ "ReadOnly" \notin SurfaceErrors
      BY NoneIsNoWord DEF ErrorName, SurfaceErrors
    <3>3. McpFault(c.op, "ReadOnly") = "invalid_params"
      BY <2>2, <2>3 DEF Writers, McpTools, McpFault, McpWriteFault, McpItemFault
    <3> HIDE DEF t
    <3>4. Answers("mcp", [op |-> c.op, args |-> c.args, error |-> t.error,
                          request |-> t.request])
      BY <3>1, <3>2, <3>3 DEF Answers
    <3>5. QED BY <2>1, <3>1, <3>2, <3>4, SettleStages DEF Surface
  <2>4. CASE ~refused
    <3>1. Agrees(c.op, c.args, t) /\ Blamed(c.op, t)
      BY <2>2, <2>4, McpAgrees
    <3>2. c.op \in McpOffered(read_only["mcp"])
      BY <2>2, <2>4 DEF McpOffered, Writers
    <3> HIDE DEF t
    <3>3. t.error = None => Passes("mcp", read_only["mcp"],
                                   [op |-> c.op, args |-> c.args, error |-> t.error,
                                    request |-> t.request])
      BY <3>1, <3>2 DEF Passes, Agrees, Blamed
    <3>4. t.error # None => Answers("mcp", [op |-> c.op, args |-> c.args, error |-> t.error,
                                            request |-> t.request])
      BY <3>1 DEF Answers, Agrees, Blamed
    <3>5. QED BY <2>1, <3>3, <3>4, SettleStages DEF Surface
  <2>5. QED BY <2>3, <2>4
<1>3. CASE QueueTask
  <2> DEFINE c == call["node"]
             d == call'["node"]
  <2>1. /\ c # None /\ read_only' = read_only /\ d.op = c.op /\ d.args = c.args
        /\ d.phase = "queued" /\ d.task = NodeMethod(c.op, c.args)
        /\ \A u \in Surface \ {"node"} : call'[u] = call[u]
    BY <1>3 DEF QueueTask, Numbered, Surface, CallFields
  <2>2. Stage("node", read_only["node"], c)
    BY <2>1 DEF Stages, Surface
  <2> HIDE DEF c, d
  <2>3. Stage("node", read_only["node"], d)
    BY <2>1, <2>2 DEF Stage
  <2>4. QED BY <2>1, <2>3, OthersStay DEF Surface, d
<1>4. CASE TranslateNode
  <2> DEFINE c == call["node"]
             t == NodeCompute(c.op, NodeMethod(c.op, c.args))
  <2>1. c # None /\ c.phase = "queued" /\ read_only' = read_only
    BY <1>4 DEF TranslateNode
  <2>2. /\ c.op \in DOMAIN Args /\ c.args \in Args[c.op] /\ NodeMayAsk(c.op, c.args)
        /\ c.task = NodeMethod(c.op, c.args)
    BY <2>1 DEF Stages, Stage, Surface, MayAsk
  <2>3. Settle("node", t)
    BY <1>4, <2>2 DEF TranslateNode
  <2>4. Agrees(c.op, c.args, t)
    BY <2>2, NodeAgrees
  <2> HIDE DEF t
  <2>5. t.error = None => Passes("node", read_only["node"],
                                 [op |-> c.op, args |-> c.args, error |-> t.error,
                                  request |-> t.request])
    BY <2>4 DEF Passes, Agrees
  <2>6. t.error # None => Answers("node", [op |-> c.op, args |-> c.args, error |-> t.error,
                                           request |-> t.request])
    BY <2>4 DEF Answers, Agrees
  <2>7. QED BY <2>1, <2>3, <2>5, <2>6, SettleStages DEF Surface
<1>5. QED BY <1>1, <1>2, <1>3, <1>4

LEMMA ExecuteStages ==
    ASSUME Numbered, Stages, NEW s \in Surface, Execute(s)
    PROVE  Stages'
<1> DEFINE c == call[s]
           d == call'[s]
           error == StoreError(s, c.request)
<1>1. /\ c # None /\ c.phase = "ready" /\ read_only' = read_only /\ d.op = c.op
      /\ d.args = c.args /\ d.phase = "done" /\ d.error = error
      /\ \A u \in Surface \ {s} : call'[u] = call[u]
  BY DEF Execute, Numbered, CallFields
<1>2. Stage(s, read_only[s], c)
  BY <1>1 DEF Stages
<1>3. /\ error \in StoreFaults(c.request.method) \cup {None}
      /\ StoreRefuses(c.request) => error # None
  BY StoreErrors
<1>4. \A method : StoreFaults(method) \cap SurfaceErrors = {} /\ None \notin SurfaceErrors
  BY NoneIsNoWord, ZenonT(40) DEF StoreFaults, SurfaceErrors, ErrorName
<1> HIDE DEF c, d, error
<1>5. c.error = None /\ Agrees(c.op, c.args, c) /\ (s = "mcp" => Blamed(c.op, c))
  BY <1>1, <1>2 DEF Stage, Passes
<1>6. Answers(s, d)
  <2>1. ~Disputed(c.op, c.args) => (Malformed(c.op, c.args) => error # None)
    BY <1>3, <1>5 DEF Agrees
  <2>2. error \notin SurfaceErrors
    BY <1>3, <1>4
  <2>3. s = "mcp" /\ error # None => McpFault(c.op, error) = "invalid_params"
    BY <1>3, <1>5 DEF Blamed
  <2>4. QED BY <1>1, <2>1, <2>2, <2>3 DEF Answers
<1>7. Stage(s, read_only[s], d)
  BY <1>1, <1>2, <1>6 DEF Stage
<1>8. QED BY <1>1, <1>7, OthersStay DEF d

LEMMA AskStages ==
    ASSUME Numbered, Stages, NEW s \in Surface, NEW op \in DOMAIN Args, NEW a \in Args[op],
           Ask(s, op, a)
    PROVE  Stages'
<1> DEFINE d == call'[s]
<1>1. /\ d.op = op /\ d.args = a /\ d.phase = "asked" /\ MayAsk(s, op, a)
      /\ read_only' = read_only /\ \A u \in Surface \ {s} : call'[u] = call[u]
  BY DEF Ask, Numbered
<1> HIDE DEF d
<1>2. Stage(s, read_only[s], d)
  BY <1>1 DEF Stage
<1>3. QED BY <1>1, <1>2, OthersStay DEF d

LEMMA LoseStages ==
    ASSUME Numbered, Stages, NEW s \in Surface, LoseAnswer(s)
    PROVE  Stages'
<1>1. CASE call' = [call EXCEPT ![s] = None]
  <2>1. read_only' = read_only /\ call'[s] = None /\ \A u \in Surface \ {s} : call'[u] = call[u]
    BY <1>1 DEF LoseAnswer, Numbered
  <2>2. QED BY <2>1, OthersStay
<1>2. CASE call' = [call EXCEPT ![s].try = @ + 1, ![s].phase = "asked",
                                ![s].task = None, ![s].error = None, ![s].request = None]
  <2> DEFINE c == call[s]
             d == call'[s]
  <2>1. /\ c # None /\ read_only' = read_only /\ d.op = c.op /\ d.args = c.args
        /\ d.phase = "asked" /\ \A u \in Surface \ {s} : call'[u] = call[u]
    BY <1>2 DEF LoseAnswer, Numbered, CallFields
  <2>2. Stage(s, read_only[s], c)
    BY <2>1 DEF Stages
  <2> HIDE DEF c, d
  <2>3. Stage(s, read_only[s], d)
    BY <2>1, <2>2 DEF Stage
  <2>4. QED BY <2>1, <2>3, OthersStay DEF d
<1>3. QED BY <1>1, <1>2 DEF LoseAnswer

LEMMA StagesStep ==
    ASSUME Effects, Stages, [SurfacesNext]_surface_vars
    PROVE  Stages'
<1>0. Numbered
  BY DEF Effects
<1>1. CASE UNCHANGED surface_vars
  BY <1>1 DEF surface_vars, Stages
<1>2. ASSUME NEW s \in Surface, Execute(s) PROVE Stages'
  BY <1>0, <1>2, ExecuteStages
<1>3. ASSUME NEW s \in Surface, Answer(s) PROVE Stages'
  <2>1. read_only' = read_only /\ call'[s] = None /\ \A u \in Surface \ {s} : call'[u] = call[u]
    BY <1>0, <1>3 DEF Answer, Numbered
  <2>2. QED BY <2>1, OthersStay
<1>4. ASSUME NEW s \in Surface, LoseAnswer(s) PROVE Stages'
  BY <1>0, <1>4, LoseStages
<1>5. CASE TranslateCli \/ TranslateMcp \/ QueueTask \/ TranslateNode
  BY <1>0, <1>5, TranslateStages
<1>6. ASSUME NEW s \in Surface, NEW k \in Shared, Ask(s, k[1], k[2]) PROVE Stages'
  <2>1. k[1] \in DOMAIN Args /\ k[2] \in Args[k[1]]
    BY SurfacesAssumption
  <2>2. QED BY <1>0, <1>6, <2>1, AskStages
<1>7. ASSUME NEW s \in Surface, NEW op \in DOMAIN Args, NEW a \in Args[op], Ask(s, op, a)
      PROVE  Stages'
  BY <1>0, <1>7, AskStages
<1>8. QED BY <1>1, <1>2, <1>3, <1>4, <1>5, <1>6, <1>7 DEF SurfacesNext

\* Whatever a client asks of the command line, of the MCP server or of the Node
\* bindings, with any arguments: the store is asked for what the arguments mean,
\* what is malformed is refused before anything changes and nothing else is, and
\* an MCP client is told that the fault is its own (the cmd_ functions, the
\* handlers of the tools, the methods of the Node Store and their tasks).
THEOREM SurfacesAgreed == SurfacesSpec => []SurfacesAgree
<1>1. SurfacesInit => Stages
  BY DEF SurfacesInit, Stages
<1>2. Stages => SurfacesAgree
  BY DEF Stages, Stage, Passes, Agrees, Answers, SurfacesAgree, SurfaceErrors
<1>3. QED BY <1>1, <1>2, StagesStep, EffectsInit, EffectsStep, PTL DEF SurfacesSpec
=============================================================================
