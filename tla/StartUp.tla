------------------------------- MODULE StartUp -------------------------------
(***************************************************************************)
(* What the process does before its first worker serves, and what requests *)
(* then read of it: main.rs loads the configuration, builds a chain from   *)
(* every input file over one shared interner (inputs.rs), checks the       *)
(* templates and loads the spicy payloads (nailspicy); a page draws a      *)
(* chain (nailstate) and walks it (nailkov), reading texts back from the   *)
(* interner by token.                                                      *)
(*                                                                         *)
(* The words of a file come to be known as they are fed.                   *)
(***************************************************************************)
EXTENDS Interner, NailKov, SequencesExt

CONSTANTS
  Paths,         \* how many paths the glob yields
  TemplateFiles, \* what a template file may hold, as in PageTemplate
  Missing,       \* a file that cannot be read
  PayloadLists,  \* the lists of payload files a configuration may name
  NoPayloads,    \* None: no spicy mode, or payloads that failed to load
  MaxWords,      \* bound: the words of all files together
  MaxTrail,      \* bound: the texts of a walk
  NoWalk

ASSUME BoundsAssumption == Paths \in Nat /\ MaxWords \in Nat /\ MaxTrail \in Nat \ {0, 1}

\* A payload file as get_spicy_payload meets it: "other" is the ending of no kind.
PayloadFiles == [name : STRING, kind : {"Gz", "Brotli", "other"}, readable : BOOLEAN]

ASSUME PayloadsAssumption ==
  \A list \in PayloadLists : list = NoPayloads \/ list \in Seq(PayloadFiles)

T == INSTANCE PageTemplate

VARIABLES
  phase,     \* how far main has come
  path,      \* the path the glob is at
  window,    \* the last tokens fed, for tuple_windows
  builder,   \* NailBuilder.chain of the file that is being fed
  chains,    \* the MarkovGens, each with the path it was built from
  payloads,  \* the payload file of each kind
  walk,      \* a NailKovIter of a page: its chain and its prev
  words,     \* history: the words of each file
  listed,    \* history: the payload files of the configuration
  trail      \* history: the texts of the first pair of the walk and after it

loading == <<phase, path, window, builder, chains, payloads>>
vars == <<interner, loading, walk, words, listed, trail>>

Phases == {"config", "inputs", "templates", "payloads", "serving", "exited"}
IsChain(chain) ==
  /\ DOMAIN chain \subseteq Tokens \X Tokens
  /\ \A pair \in DOMAIN chain :
       /\ DOMAIN chain[pair] \subseteq Tokens
       /\ \A token \in DOMAIN chain[pair] : chain[pair][token] \in 0 .. CountSpan - 1

TypeOK ==
  /\ InternerTypeOK
  /\ phase \in Phases
  /\ path \in 1 .. Paths + 1
  /\ window \in Seq(Tokens) /\ Len(window) <= 2
  /\ IsChain(builder)
  /\ \A k \in DOMAIN chains : chains[k].path < path /\ IsChain(chains[k].chain)
  /\ walk # NoWalk => walk.chain \in DOMAIN chains /\ walk.prev \in Tokens \X Tokens
  /\ words \in [1 .. Paths -> Seq(Texts)]
  /\ trail \in Seq(Texts) /\ Len(trail) <= MaxTrail

Init ==
  /\ InternerInit
  /\ phase = "config" /\ path = 1
  /\ window = <<>> /\ builder = << >> /\ chains = <<>>
  /\ payloads = NoPayloads
  /\ walk = NoWalk
  /\ words = [p \in 1 .. Paths |-> <<>>]
  /\ listed = NoPayloads
  /\ trail = <<>>

-----------------------------------------------------------------------------
(***************************************************************************)
(* main.                                                                   *)
(***************************************************************************)

\* get_configuration, and the glob pattern it names, which is parsed first.
ReadConfig ==
  /\ phase = "config" /\ phase' \in {"inputs", "exited"}
  /\ UNCHANGED <<interner, path, window, builder, chains, payloads, walk, words, listed, trail>>

\* Slip: one bad path ends the process, as a `?` would.
SkipPathExits ==
  /\ phase = "inputs" /\ path <= Paths /\ words[path] = <<>>
  /\ phase' = "exited" /\ path' = path + 1
  /\ UNCHANGED <<interner, window, builder, chains, payloads, walk, words, listed, trail>>

\* A path that cannot be listed or read, or is no UTF-8, is logged and passed
\* over; the interner has not been touched.
SkipPath ==
  /\ phase = "inputs" /\ path <= Paths /\ words[path] = <<>>
  /\ path' = path + 1
  /\ UNCHANGED <<interner, phase, window, builder, chains, payloads, walk, words, listed, trail>>

WordsRead == Len(FlattenSeq(words))

\* tuple_windows keeps the last two tokens for the next one.
Slide(token) == Append(IF Len(window) = 2 THEN Tail(window) ELSE window, token)

\* feed_str and feed_tokens: the next word of the file is interned, and the
\* third of every three counted after the two before it.
FeedWord(text) ==
  /\ phase = "inputs" /\ path <= Paths
  /\ WordsRead < MaxWords
  /\ Intern(text)
  /\ LET token == TokenOf(text)
     IN  /\ window' = Slide(token)
         /\ builder' = IF Len(window) = 2 THEN AddTokenPair(builder, window, token)
                       ELSE builder
  /\ words' = [words EXCEPT ![path] = Append(@, text)]
  /\ UNCHANGED <<phase, path, chains, payloads, walk, listed, trail>>

\* Slip: the window is kept from one file to the next.
FinishFileKeepsWindow ==
  /\ phase = "inputs" /\ path <= Paths
  /\ chains' = IF DOMAIN Build(builder) = {} THEN chains
               ELSE Append(chains, [path |-> path, chain |-> Build(builder)])
  /\ builder' = << >>
  /\ path' = path + 1
  /\ UNCHANGED <<interner, phase, window, payloads, walk, words, listed, trail>>

\* build at the end of the file.  A chain without a pair is an error that is
\* logged, and the file passed over; what it interned stays.
FinishFile ==
  /\ phase = "inputs" /\ path <= Paths
  /\ chains' = IF DOMAIN Build(builder) = {} THEN chains
               ELSE Append(chains, [path |-> path, chain |-> Build(builder)])
  /\ window' = <<>> /\ builder' = << >>
  /\ path' = path + 1
  /\ UNCHANGED <<interner, phase, payloads, walk, words, listed, trail>>

\* "No input files found! Exiting..."
InputsRead ==
  /\ phase = "inputs" /\ path > Paths
  /\ phase' = IF chains = <<>> THEN "exited" ELSE "templates"
  /\ UNCHANGED <<interner, path, window, builder, chains, payloads, walk, words, listed, trail>>

\* get_template_files: both templates and the message have to be there, and
\* the templates to be valid.
ReadTemplates ==
  /\ phase = "templates"
  /\ \E warning, generated \in TemplateFiles \cup {Missing}, message \in BOOLEAN :
       phase' = IF /\ Missing \notin {warning, generated} /\ message
                   /\ T!Validate(warning, T!Allowed("warning"))
                   /\ T!Validate(generated, T!Allowed("generated"))
                THEN "payloads" ELSE "exited"
  /\ UNCHANGED <<interner, path, window, builder, chains, payloads, walk, words, listed, trail>>

WithPayload(loaded, file) ==
  [kind \in DOMAIN loaded \cup {file.kind} |->
     IF kind = file.kind THEN file.name ELSE loaded[kind]]

\* Slip: a file that cannot be read is passed over.
LoadPayloadIfReadable(loaded, file) ==
  IF file.kind = "other" \/ ~ file.readable THEN loaded ELSE WithPayload(loaded, file)

\* file_kind passes over files of no kind; the others are read in order, the
\* last of a kind counts, and one that cannot be read leaves no payloads.
LoadPayload(loaded, file) ==
  IF file.kind = "other" \/ loaded = NoPayloads THEN loaded
  ELSE IF file.readable THEN WithPayload(loaded, file)
  ELSE NoPayloads

PayloadsOf(list) ==
  LET loaded[n \in 0 .. Len(list)] ==
        IF n = 0 THEN << >> ELSE LoadPayload(loaded[n - 1], list[n])
  IN  loaded[Len(list)]

\* get_spicy_payload; then nailrt::start runs the workers.
LoadPayloads ==
  /\ phase = "payloads" /\ phase' = "serving"
  /\ listed' \in PayloadLists
  /\ payloads' = IF listed' = NoPayloads THEN NoPayloads ELSE PayloadsOf(listed')
  /\ UNCHANGED <<interner, path, window, builder, chains, walk, words, trail>>

-----------------------------------------------------------------------------
(***************************************************************************)
(* A page: MarkovGen is one of the chains, and generate_tokens walks it.   *)
(***************************************************************************)

\* get_random_input and generate_tokens.  The first pair is not emitted.
StartWalk ==
  /\ phase = "serving" /\ walk = NoWalk
  /\ \E k \in DOMAIN chains : \E pair \in DOMAIN chains[k].chain :
       /\ walk' = [chain |-> k, prev |-> pair]
       /\ trail' = <<Lookup(pair[1]), Lookup(pair[2])>>
  /\ UNCHANGED <<interner, loading, words, listed>>

\* Slip: the new token takes the place of the right one only.
TakeTokenBeside ==
  /\ walk # NoWalk /\ Len(trail) < MaxTrail
  /\ \E token \in Successors(chains[walk.chain].chain, walk.prev) :
       /\ walk' = [walk EXCEPT !.prev = <<@[1], token>>]
       /\ trail' = Append(trail, Lookup(token))
  /\ UNCHANGED <<interner, loading, words, listed>>

\* NailKovIter::next, as long as the pair has a successor.
TakeToken ==
  /\ walk # NoWalk /\ Len(trail) < MaxTrail
  /\ \E token \in Successors(chains[walk.chain].chain, walk.prev) :
       /\ walk' = [walk EXCEPT !.prev = <<@[2], token>>]
       /\ trail' = Append(trail, Lookup(token))
  /\ UNCHANGED <<interner, loading, words, listed>>

\* The page takes no more, or next has returned None.
EndWalk ==
  /\ walk # NoWalk /\ walk' = NoWalk /\ trail' = <<>>
  /\ UNCHANGED <<interner, loading, words, listed>>

Next ==
  \/ ReadConfig \/ SkipPath \/ FinishFile \/ InputsRead
  \/ \E text \in Texts : FeedWord(text)
  \/ ReadTemplates \/ LoadPayloads
  \/ StartWalk \/ TakeToken \/ EndWalk

Spec == Init /\ [][Next]_vars

-----------------------------------------------------------------------------
(***************************************************************************)
(* Properties.                                                             *)
(***************************************************************************)

\* How often a, b and c follow each other in a text.
Occurrences(text, a, b, c) ==
  Cardinality({i \in 1 .. Len(text) - 2 : SubSeq(text, i, i + 2) = <<a, b, c>>})

\* The same, for all the words that follow a and b, as u32s.
CountsAfter(text, a, b) ==
  [c \in {text[i + 2] : i \in {j \in 1 .. Len(text) - 2 : SubSeq(text, j, j + 1) = <<a, b>>}}
     |-> Occurrences(text, a, b, c) % CountSpan]

\* A chain says of its own file, read back through the interner all files
\* share, how often each word follows two others, up to the width of a count;
\* it is silent on exactly the pairs whose counts the sampler refuses.
ChainsFollowText ==
  \A k \in DOMAIN chains :
    LET chain == chains[k].chain
        text  == words[chains[k].path]
    IN  /\ \A pair \in DOMAIN chain :
             LET counts == CountsAfter(text, Lookup(pair[1]), Lookup(pair[2]))
             IN  /\ {Lookup(token) : token \in DOMAIN chain[pair]} = DOMAIN counts
                 /\ \A token \in DOMAIN chain[pair] : chain[pair][token] = counts[Lookup(token)]
        /\ \A i \in 1 .. Len(text) - 2 :
             <<TokenOf(text[i]), TokenOf(text[i + 1])>> \in DOMAIN chain
               <=> Accepted(CountsAfter(text, text[i], text[i + 1]))

\* The unsafe contract of lookup: every token of a chain, and of one that is
\* being built, is one the interner of the process handed out.
TokensResolve ==
  LET Resolves(chain) == \A pair \in DOMAIN chain :
        {pair[1], pair[2]} \cup DOMAIN chain[pair] \subseteq 0 .. Len(index) - 1
  IN  /\ \A k \in DOMAIN chains : Resolves(chains[k].chain)
      /\ Resolves(builder)

\* What the unwraps of get_random_input and generate_tokens rely on: a process
\* that serves has a chain to draw, a pair to start with, and for each pair a
\* word to go on with.
ServingIsReady ==
  phase = "serving" =>
    /\ chains # <<>>
    /\ \A k \in DOMAIN chains :
         /\ DOMAIN chains[k].chain # {}
         /\ \A pair \in DOMAIN chains[k].chain : Successors(chains[k].chain, pair) # {}

\* The files so far that have three words in a row whose weights can be sampled.
GoodFiles ==
  {p \in 1 .. path - 1 : \E i \in 1 .. Len(words[p]) - 2 :
     Accepted(CountsAfter(words[p], words[p][i], words[p][i + 1]))}

\* One bad file is no harm: each good file gets its chain and no other does,
\* and the process is done with its inputs only when it has tried every path,
\* to go on if there was a good file and to exit if there was none.
GoodFilesServe ==
  /\ []({chains[k].path : k \in DOMAIN chains} = GoodFiles)
  /\ [][phase = "inputs" /\ phase' # "inputs" =>
          /\ path > Paths
          /\ phase' = IF GoodFiles = {} THEN "exited" ELSE "templates"]_vars

\* Every three words of a walk follow each other somewhere in the file its
\* chain was built from, never across two files.
WalkFollowsText ==
  walk # NoWalk =>
    \A i \in 1 .. Len(trail) - 2 :
      Occurrences(words[chains[walk.chain].path], trail[i], trail[i + 1], trail[i + 2]) > 0

\* The payloads are all that were asked for or none: each kind is served by
\* the last of its files, and no file of a kind was left out for not being
\* readable.
PayloadsWholeOrNone ==
  phase = "serving" /\ payloads # NoPayloads =>
    LET known == {i \in DOMAIN listed : listed[i].kind # "other"}
    IN  /\ \A i \in known : listed[i].readable
        /\ DOMAIN payloads = {listed[i].kind : i \in known}
        /\ \A i \in known : \/ payloads[listed[i].kind] = listed[i].name
                            \/ \E j \in known : j > i /\ listed[j].kind = listed[i].kind
=============================================================================
