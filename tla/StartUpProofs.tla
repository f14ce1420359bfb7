---------------------------- MODULE StartUpProofs ----------------------------
(***************************************************************************)
(* Proofs about StartUp, for any texts, any number of files of any length, *)
(* any templates and payloads, and counts of any width.                    *)
(***************************************************************************)
EXTENDS StartUp, InternerProofs, WellFoundedInduction

\* The tokens handed out so far, and the chains over some tokens.
Below(n) == 0 .. n - 1
Counts == 0 .. CountSpan - 1
CountsOver(n) == UNION {[S -> Counts] : S \in SUBSET Below(n)}
ChainsOver(n) == UNION {[P -> CountsOver(n)] : P \in SUBSET (Below(n) \X Below(n))}

-----------------------------------------------------------------------------
(***************************************************************************)
(* The chain.                                                              *)
(***************************************************************************)

\* What it is to be a chain over some tokens.
LEMMA ChainsOverElim ==
  ASSUME NEW n \in Nat, NEW c \in ChainsOver(n)
  PROVE  /\ DOMAIN c \subseteq Below(n) \X Below(n)
         /\ \A p \in DOMAIN c : c[p] \in CountsOver(n)
         /\ c = [p \in DOMAIN c |-> c[p]]
BY DEF ChainsOver

\* What is needed for a chain over some tokens.
LEMMA ChainsOverIntro ==
  ASSUME NEW n \in Nat, NEW c, c = [p \in DOMAIN c |-> c[p]],
         DOMAIN c \subseteq Below(n) \X Below(n),
         \A p \in DOMAIN c : c[p] \in CountsOver(n)
  PROVE  c \in ChainsOver(n)
<1>1. c \in [DOMAIN c -> CountsOver(n)]
      OBVIOUS
<1> QED BY <1>1 DEF ChainsOver

\* The chain that was fed nothing is one over any tokens.
LEMMA EmptyChain ==
  ASSUME NEW n \in Nat
  PROVE  << >> \in ChainsOver(n)
<1>1. << >> \in [{} -> CountsOver(n)]
      OBVIOUS
<1> QED BY <1>1 DEF ChainsOver

\* Counts over some tokens, likewise.
LEMMA CountsOverElim ==
  ASSUME NEW n \in Nat, NEW c \in CountsOver(n)
  PROVE  DOMAIN c \subseteq Below(n) /\ \A t \in DOMAIN c : c[t] \in Counts
BY DEF CountsOver

\* What is needed for counts over some tokens.
LEMMA CountsOverIntro ==
  ASSUME NEW n \in Nat, NEW c, c = [t \in DOMAIN c |-> c[t]],
         DOMAIN c \subseteq Below(n), \A t \in DOMAIN c : c[t] \in Counts
  PROVE  c \in CountsOver(n)
<1>1. c \in [DOMAIN c -> Counts]
      OBVIOUS
<1> QED BY <1>1 DEF CountsOver

\* A chain stays one when more tokens are handed out.
LEMMA ChainsGrow ==
  ASSUME NEW m \in Nat, NEW n \in Nat, m <= n, NEW c \in ChainsOver(m)
  PROVE  c \in ChainsOver(n)
<1>1. Below(m) \subseteq Below(n)
      BY DEF Below
<1>2. ASSUME NEW p \in DOMAIN c PROVE c[p] \in CountsOver(n)
      BY <1>1, ChainsOverElim DEF CountsOver
<1>3. DOMAIN c \subseteq Below(n) \X Below(n)
      BY <1>1, ChainsOverElim
<1> QED BY <1>2, <1>3, ChainsOverElim, ChainsOverIntro

\* A remainder is below the modulus.
LEMMA RemainderBelow ==
  ASSUME NEW n \in Nat, NEW k \in Nat \ {0}
  PROVE  n % k \in 0 .. k - 1
OBVIOUS

\* Another triple makes a chain of a chain.
LEMMA AddTokenPairChain ==
  ASSUME NEW n \in Nat, NEW c \in ChainsOver(n),
         NEW pair \in Below(n) \X Below(n), NEW next \in Below(n)
  PROVE  AddTokenPair(c, pair, next) \in ChainsOver(n)
<1> DEFINE old == CountsOf(c, pair)
           new == AddOccurrence(old, next)
           d   == AddTokenPair(c, pair, next)
<1>1. DOMAIN old \subseteq Below(n) /\ \A t \in DOMAIN old : old[t] \in Counts
  <2>1. CASE pair \in DOMAIN c
        BY <2>1, ChainsOverElim, CountsOverElim DEF CountsOf
  <2>2. CASE pair \notin DOMAIN c
        BY <2>2 DEF CountsOf
  <2> QED BY <2>1, <2>2
<1>2. new \in CountsOver(n)
  <2>1. DOMAIN new = DOMAIN old \cup {next} /\ new = [t \in DOMAIN new |-> new[t]]
        BY DEF AddOccurrence
  <2>2. ASSUME NEW t \in DOMAIN new PROVE new[t] \in Counts
    <3>1. CASE t # next
          BY <1>1, <2>1, <3>1 DEF AddOccurrence
    <3>2. CASE t = next /\ t \in DOMAIN old
      <4>1. PICK m \in Nat : new[t] = (m + 1) % CountSpan
            BY <1>1, <3>2 DEF AddOccurrence, Counts
      <4>2. (m + 1) % CountSpan \in 0 .. CountSpan - 1
        <5> HIDE DEF new
        <5> QED BY CountsAssumption, RemainderBelow
      <4> QED BY <4>1, <4>2 DEF Counts
    <3>3. CASE t = next /\ t \notin DOMAIN old
          BY <3>3, CountsAssumption DEF AddOccurrence, Counts
    <3> QED BY <3>1, <3>2, <3>3
  <2>3. DOMAIN new \subseteq Below(n)
        BY <1>1, <2>1
  <2> HIDE DEF new
  <2> QED BY <2>1, <2>2, <2>3, CountsOverIntro
<1>3. DOMAIN d = DOMAIN c \cup {pair} /\ d = [p \in DOMAIN d |-> d[p]]
      BY DEF AddTokenPair
<1>4. ASSUME NEW p \in DOMAIN d PROVE d[p] \in CountsOver(n)
      BY <1>2, <1>3, ChainsOverElim DEF AddTokenPair
<1>5. DOMAIN d \subseteq Below(n) \X Below(n)
      BY <1>3, ChainsOverElim
<1>6. d \in ChainsOver(n)
  <2> HIDE DEF d
  <2> QED BY <1>3, <1>4, <1>5, ChainsOverIntro
<1> QED BY <1>6

\* A built chain has only weights the sampler took, and some successor for
\* each of its pairs.
LEMMA BuildChain ==
  ASSUME NEW n \in Nat, NEW c \in ChainsOver(n)
  PROVE  /\ Build(c) \in ChainsOver(n)
         /\ \A pair \in DOMAIN Build(c) : Successors(Build(c), pair) # {}
<1> DEFINE d == Build(c)
<1>1. /\ DOMAIN d = {p \in DOMAIN c : Accepted(c[p])}
      /\ \A p \in DOMAIN d : d[p] = c[p]
      /\ d = [p \in DOMAIN d |-> d[p]]
      BY DEF Build, Restrict
<1> HIDE DEF d
<1>2. d \in ChainsOver(n)
      BY <1>1, ChainsOverElim, ChainsOverIntro
<1>3. ASSUME NEW p \in DOMAIN d PROVE Successors(d, p) # {}
  <2>1. d[p] = c[p] /\ Accepted(c[p])
        BY <1>1
  <2>2. PICK t \in DOMAIN d[p] : d[p][t] # 0
        BY <2>1 DEF Accepted
  <2>3. d[p][t] \in Nat
        BY <1>2, ChainsOverElim, CountsOverElim DEF Counts
  <2> QED BY <2>2, <2>3 DEF Successors
<1> QED BY <1>2, <1>3 DEF d

-----------------------------------------------------------------------------
(***************************************************************************)
(* The invariant.                                                          *)
(***************************************************************************)
Given == 0 .. Len(index) - 1
GoodChains == [path : 1 .. Paths, chain : ChainsOver(Len(index))]

LoadingOK ==
  /\ phase \in Phases /\ path \in 1 .. Paths + 1
  /\ window \in Seq(Given) /\ Len(window) <= 2
  /\ builder \in ChainsOver(Len(index))
  /\ words \in [1 .. Paths -> Seq(Texts)]

ChainsOK ==
  /\ chains \in Seq(GoodChains)
  /\ \A k \in DOMAIN chains :
       /\ chains[k].path < path
       /\ DOMAIN chains[k].chain # {}
       /\ \A pair \in DOMAIN chains[k].chain : Successors(chains[k].chain, pair) # {}
  /\ phase \in {"templates", "payloads", "serving"} => chains # <<>>

WalkOK ==
  /\ walk \in {NoWalk} \cup [chain : DOMAIN chains, prev : Given \X Given]
  /\ trail \in Seq(Texts) /\ Len(trail) <= MaxTrail

StartUpInv == Sound /\ LoadingOK /\ ChainsOK /\ WalkOK

\* What the code's text calls a token and a chain, in terms of those handed out.
LEMMA GivenTokens ==
  ASSUME Sound
  PROVE  /\ Len(index) \in Nat /\ Given = Below(Len(index)) /\ Given \subseteq Tokens
         /\ \A token \in Given : Lookup(token) \in Texts
<1>1. index \in Seq(StringPtrs) /\ Len(index) \in Nat /\ DOMAIN index = 1 .. Len(index)
      BY DEF Sound, InternerTypeOK
<1>2. ASSUME NEW token \in Given PROVE token \in Tokens /\ Lookup(token) \in Texts
  <2>1. token + 1 \in DOMAIN index /\ (token + 1) - 1 = token
        BY <1>1 DEF Given
  <2>2. index[token + 1] \in DOMAIN collected /\ collected[index[token + 1]] = token
        BY <2>1 DEF Sound, Agree
  <2>3. token \in Tokens
        BY <2>2 DEF Sound, InternerTypeOK
  <2>4. Live(index[token + 1])
        BY <2>1 DEF Sound, PointersStayValid
  <2> QED BY <2>3, <2>4, LiveReadsText DEF Sound, Lookup
<1> QED BY <1>1, <1>2 DEF Given, Below

\* A chain of the list.
LEMMA ChainListed ==
  ASSUME ChainsOK, NEW k \in DOMAIN chains
  PROVE  /\ chains[k].path \in Nat
         /\ chains[k].chain \in ChainsOver(Len(index))
<1>1. chains[k] \in GoodChains
      BY DEF ChainsOK
<1> QED BY <1>1, BoundsAssumption DEF GoodChains

\* A word that is interned gets a token that has been handed out, and those
\* handed out before stay so.
LEMMA InternGives ==
  ASSUME Sound, NEW text \in Texts, Intern(text)
  PROVE  /\ Sound'
         /\ Len(index) \in Nat /\ Len(index') \in Nat /\ Len(index) <= Len(index')
         /\ TokenOf(text) \in Below(Len(index'))
<1>1. Sound'
      BY SoundNext
<1>2. Len(index) \in Nat /\ Len(index') \in Nat /\ DOMAIN index = 1 .. Len(index)
      BY <1>1 DEF Sound, InternerTypeOK
<1>3. CASE Known(text) = {}
      BY <1>1, <1>2, <1>3, InternNew, TokenLeft DEF Below
<1>4. CASE Known(text) # {}
  <2>1. index' = index
        BY <1>4 DEF Intern, interner
  <2>2. TokenOf(text) + 1 \in DOMAIN index
        BY <1>4, SoundNames DEF TokensNameTexts
  <2>3. TokenOf(text) \in Nat
    <3>1. PICK p \in DOMAIN collected : TokenOf(text) = collected[p]
          BY <1>4 DEF TokenOf, Known
    <3> QED BY <3>1 DEF Sound, InternerTypeOK, Tokens
  <2> QED BY <1>1, <1>2, <2>1, <2>2, <2>3 DEF Below
<1> QED BY <1>3, <1>4

\* Every step of StartUp is a call of intern or leaves the interner alone.
LEMMA StepsIntern == [Next]_vars => [\E text \in Texts : Intern(text)]_interner
BY DEF Next, vars, interner, ReadConfig, SkipPath, FeedWord, FinishFile, InputsRead,
   ReadTemplates, LoadPayloads, StartWalk, TakeToken, EndWalk

\* Whatever the process does, its interner is one that Interner specifies.
THEOREM UsesInterner == Spec => InternerSpec
<1>1. Init => InternerInit
      BY DEF Init
<1> QED BY <1>1, StepsIntern, PTL DEF Spec, InternerSpec

\* So no pointer dangles and no token changes its text, from the first file to
\* the last page.
THEOREM ServesInternedTexts ==
  Spec => []PointersStayValid /\ []TokensNameTexts /\ ImplementsTextTable
BY UsesInterner, PointersValid, TokensName, ImplementsTable, PTL

-----------------------------------------------------------------------------
(***************************************************************************)
(* The invariant is one.                                                   *)
(***************************************************************************)
LEMMA StartUpInvInit == Init => StartUpInv
<1> SUFFICES ASSUME Init PROVE StartUpInv
    OBVIOUS
<1>1. Sound
      BY SoundInit DEF Init
<1>2. Len(index) = 0 /\ builder = << >>
      BY DEF Init, InternerInit
<1>3. builder \in ChainsOver(Len(index))
      BY <1>2, EmptyChain
<1>4. LoadingOK
      BY <1>3, BoundsAssumption DEF Init, LoadingOK, Phases
<1>5. ChainsOK /\ WalkOK
      BY BoundsAssumption DEF Init, ChainsOK, WalkOK
<1> QED BY <1>1, <1>4, <1>5 DEF StartUpInv

\* The window makes room for the next token.
LEMMA WindowRoom ==
  ASSUME NEW S, NEW w \in Seq(S), Len(w) <= 2
  PROVE  LET last == IF Len(w) = 2 THEN Tail(w) ELSE w
         IN  last \in Seq(S) /\ Len(last) <= 1
<1>1. Len(w) = 2 => Tail(w) \in Seq(S) /\ Len(Tail(w)) = 1
      OBVIOUS
<1>2. Len(w) \in Nat
      OBVIOUS
<1>3. \A m \in Nat : m <= 2 => m = 2 \/ m <= 1
      OBVIOUS
<1>4. Len(w) = 2 \/ Len(w) <= 1
      BY <1>2, <1>3
<1>5. Len(w) # 2 => w \in Seq(S) /\ Len(w) <= 1
      BY <1>4
<1> QED BY <1>1, <1>5

\* Two tokens of the window are a pair.
LEMMA WindowPair ==
  ASSUME NEW S, NEW w \in Seq(S), Len(w) = 2
  PROVE  w = <<w[1], w[2]>> /\ w \in S \X S
<1>1. w = <<w[1], w[2]>> /\ w[1] \in S /\ w[2] \in S
      OBVIOUS
<1> QED BY <1>1

\* The next word of a file.
LEMMA FeedWordInv ==
  ASSUME StartUpInv, NEW text \in Texts, FeedWord(text)
  PROVE  StartUpInv'
<1> DEFINE n == Len(index)
           token == TokenOf(text)
<1>1. /\ Sound' /\ n \in Nat /\ n' \in Nat /\ n <= n' /\ token \in Below(n')
      BY InternGives DEF FeedWord, StartUpInv
<1>2. LoadingOK /\ ChainsOK /\ WalkOK
      BY DEF StartUpInv
<1>3. Given \subseteq Given' /\ Given' = Below(n') /\ Given = Below(n)
      BY <1>1 DEF Given, Below
<1>4. window \in Seq(Below(n')) /\ Len(window) <= 2
  <2>1. window \in Seq(Below(n)) /\ Below(n) \subseteq Below(n')
        BY <1>2, <1>3 DEF LoadingOK
  <2> QED BY <1>2, <2>1 DEF LoadingOK
<1>5. window' \in Seq(Given') /\ Len(window') <= 2
  <2> DEFINE last == IF Len(window) = 2 THEN Tail(window) ELSE window
  <2>1. last \in Seq(Below(n')) /\ Len(last) <= 1
        BY <1>4, WindowRoom
  <2>2. window' = Append(last, token)
        BY DEF FeedWord, Slide
  <2> HIDE DEF last
  <2> QED BY <1>1, <1>3, <2>1, <2>2
<1>6. builder' \in ChainsOver(n')
  <2>1. builder \in ChainsOver(n')
        BY <1>1, <1>2, ChainsGrow DEF LoadingOK
  <2>2. CASE Len(window) = 2
    <3>1. window \in Below(n') \X Below(n')
          BY <1>4, <2>2, WindowPair
    <3> QED BY <1>1, <2>1, <2>2, <3>1, AddTokenPairChain DEF FeedWord
  <2>3. CASE Len(window) # 2
        BY <2>1, <2>3 DEF FeedWord
  <2> QED BY <2>2, <2>3
<1>7. words' \in [1 .. Paths -> Seq(Texts)]
      BY <1>2 DEF FeedWord, LoadingOK
<1>8. LoadingOK'
      BY <1>2, <1>5, <1>6, <1>7 DEF LoadingOK, FeedWord
<1>9. ChainsOK'
  <2>1. GoodChains \subseteq GoodChains'
        BY <1>1, ChainsGrow DEF GoodChains
  <2>2. chains \in Seq(GoodChains')
        BY <1>2, <2>1 DEF ChainsOK
  <2> QED BY <1>2, <2>2 DEF ChainsOK, FeedWord
<1>10. WalkOK'
      BY <1>2, <1>3 DEF WalkOK, FeedWord
<1> QED BY <1>1, <1>8, <1>9, <1>10 DEF StartUpInv

\* The end of a file.
LEMMA FinishFileInv ==
  ASSUME StartUpInv, FinishFile
  PROVE  StartUpInv'
<1> DEFINE built == Build(builder)
           entry == [path |-> path, chain |-> built]
<1>1. Sound' /\ index' = index /\ Len(index) \in Nat
      BY StepsIntern, SoundNext DEF StartUpInv, FinishFile, interner, Sound, InternerTypeOK, Next
<1>2. LoadingOK /\ ChainsOK /\ WalkOK
      BY DEF StartUpInv
<1>3. built \in ChainsOver(Len(index)) /\ \A pair \in DOMAIN built : Successors(built, pair) # {}
      BY <1>1, <1>2, BuildChain DEF LoadingOK
<1>4. path \in 1 .. Paths /\ path' = path + 1 /\ path' \in 1 .. Paths + 1
      BY <1>2, BoundsAssumption DEF FinishFile, LoadingOK
<1>5. LoadingOK'
  <2>1. builder' \in ChainsOver(Len(index))
        BY <1>1, EmptyChain DEF FinishFile
  <2> QED BY <1>1, <1>2, <1>4, <2>1 DEF LoadingOK, FinishFile
<1>6. GoodChains' = GoodChains /\ Given' = Given
      BY <1>1 DEF GoodChains, Given
<1>7. entry \in GoodChains
      BY <1>3, <1>4 DEF GoodChains
<1>8. CASE DOMAIN built = {}
  <2>1. chains' = chains
        BY <1>8 DEF FinishFile
  <2>2. \A k \in DOMAIN chains : chains[k].path \in Nat
        BY <1>2, ChainListed
  <2>3. \A k \in DOMAIN chains : chains[k].path < path'
        BY <1>2, <1>4, <2>2 DEF ChainsOK
  <2>4. ChainsOK'
        BY <1>2, <1>6, <2>1, <2>3 DEF ChainsOK, FinishFile
  <2> QED BY <1>1, <1>2, <1>5, <1>6, <2>1, <2>4 DEF StartUpInv, WalkOK, FinishFile
<1>9. CASE DOMAIN built # {}
  <2> HIDE DEF built
  <2>1. chains' = Append(chains, entry) /\ chains \in Seq(GoodChains)
        BY <1>2, <1>9 DEF FinishFile, ChainsOK, built
  <2>2. /\ chains' \in Seq(GoodChains) /\ chains' # <<>>
        /\ DOMAIN chains' = DOMAIN chains \cup {Len(chains) + 1}
        /\ \A k \in DOMAIN chains : chains'[k] = chains[k]
        /\ chains'[Len(chains) + 1] = entry
        BY <1>7, <2>1
  <2>3. ASSUME NEW k \in DOMAIN chains'
        PROVE  /\ chains'[k].path < path'
               /\ DOMAIN chains'[k].chain # {}
               /\ \A pair \in DOMAIN chains'[k].chain : Successors(chains'[k].chain, pair) # {}
    <3>1. CASE k \in DOMAIN chains
      <4>1. chains[k].path \in Nat
            BY <1>2, <3>1, ChainListed
      <4>2. chains'[k] = chains[k]
            BY <2>2, <3>1
      <4>3. /\ chains[k].path < path
            /\ DOMAIN chains[k].chain # {}
            /\ \A pair \in DOMAIN chains[k].chain : Successors(chains[k].chain, pair) # {}
            BY <1>2, <3>1 DEF ChainsOK
      <4>4. chains[k].path < path'
            BY <1>4, <4>1, <4>3
      <4> QED BY <4>2, <4>3, <4>4
    <3>2. CASE k = Len(chains) + 1
      <4>1. chains'[k].path = path /\ chains'[k].chain = built
            BY <2>2, <3>2
      <4>2. path < path'
            BY <1>4
      <4> QED BY <1>3, <1>9, <4>1, <4>2
    <3> QED BY <2>2, <3>1, <3>2
  <2>4. ChainsOK'
        BY <1>6, <2>2, <2>3 DEF ChainsOK
  <2>5. WalkOK'
        BY <1>2, <1>6, <2>2 DEF WalkOK, FinishFile
  <2> QED BY <1>1, <1>5, <2>4, <2>5 DEF StartUpInv
<1> QED BY <1>8, <1>9

\* What does not touch the interner keeps it sound and its tokens.
LEMMA InternerKept ==
  ASSUME Sound, UNCHANGED interner
  PROVE  Sound' /\ index' = index /\ Given' = Given /\ GoodChains' = GoodChains
<1>1. Sound'
      BY SoundNext
<1> QED BY <1>1 DEF interner, Given, GoodChains

\* The steps of main between files, before them and after them.
LEMMA PhaseInv ==
  ASSUME StartUpInv, ReadConfig \/ SkipPath \/ InputsRead \/ ReadTemplates \/ LoadPayloads
  PROVE  StartUpInv'
<1>1. UNCHANGED <<interner, window, builder, chains, words, walk, trail>>
      BY DEF ReadConfig, SkipPath, InputsRead, ReadTemplates, LoadPayloads
<1>2. Sound' /\ index' = index /\ Given' = Given /\ GoodChains' = GoodChains
      BY <1>1, InternerKept DEF StartUpInv
<1>3. LoadingOK /\ ChainsOK /\ WalkOK
      BY DEF StartUpInv
<1>4. phase' \in Phases /\ path' \in 1 .. Paths + 1 /\ path <= path'
  <2>1. Paths \in Nat /\ phase \in Phases /\ path \in 1 .. Paths + 1
        BY <1>3, BoundsAssumption DEF LoadingOK
  <2>2. phase' = phase \/ phase' \in {"inputs", "templates", "payloads", "serving", "exited"}
        BY DEF ReadConfig, SkipPath, InputsRead, ReadTemplates, LoadPayloads
  <2>3. path' = path \/ (path <= Paths /\ path' = path + 1)
        BY DEF ReadConfig, SkipPath, InputsRead, ReadTemplates, LoadPayloads
  <2>4. phase' \in Phases
        BY <2>1, <2>2 DEF Phases
  <2> QED BY <2>1, <2>3, <2>4
<1>5. phase' \in {"templates", "payloads", "serving"} => chains # <<>>
      BY <1>3 DEF ChainsOK, ReadConfig, SkipPath, InputsRead, ReadTemplates, LoadPayloads
<1>6. LoadingOK'
      BY <1>1, <1>2, <1>3, <1>4 DEF LoadingOK
<1>7. \A k \in DOMAIN chains : chains[k].path < path'
  <2>1. ASSUME NEW k \in DOMAIN chains PROVE chains[k].path < path'
    <3>1. chains[k].path \in Nat /\ chains[k].path < path
          BY <1>3, ChainListed DEF ChainsOK
    <3>2. path \in Nat /\ path' \in Nat
          BY <1>3, <1>4, BoundsAssumption DEF LoadingOK
    <3> QED BY <1>4, <3>1, <3>2
  <2> QED BY <2>1
<1>8. ChainsOK' /\ WalkOK'
      BY <1>1, <1>2, <1>3, <1>5, <1>7 DEF ChainsOK, WalkOK
<1> QED BY <1>2, <1>6, <1>8 DEF StartUpInv

\* The tokens of a pair, and those that follow it, have texts.
LEMMA ChainTokens ==
  ASSUME Sound, ChainsOK, NEW k \in DOMAIN chains, NEW pair \in DOMAIN chains[k].chain
  PROVE  /\ pair \in Given \X Given
         /\ \A token \in Successors(chains[k].chain, pair) : token \in Given
<1>1. chains[k].chain \in ChainsOver(Len(index)) /\ Len(index) \in Nat /\ Given = Below(Len(index))
      BY ChainListed, GivenTokens
<1>2. pair \in Given \X Given /\ chains[k].chain[pair] \in CountsOver(Len(index))
      BY <1>1, ChainsOverElim
<1>3. DOMAIN chains[k].chain[pair] \subseteq Given
      BY <1>1, <1>2, CountsOverElim
<1> QED BY <1>2, <1>3 DEF Successors

\* The steps of a walk.
LEMMA WalkInv ==
  ASSUME StartUpInv, StartWalk \/ TakeToken \/ EndWalk
  PROVE  StartUpInv'
<1>1. UNCHANGED <<interner, loading>> /\ words' = words
      BY DEF StartWalk, TakeToken, EndWalk
<1>2. Sound' /\ index' = index /\ Given' = Given /\ GoodChains' = GoodChains
      BY <1>1, InternerKept DEF StartUpInv
<1>3. Sound /\ LoadingOK /\ ChainsOK /\ WalkOK
      BY DEF StartUpInv
<1>4. LoadingOK' /\ ChainsOK'
      BY <1>1, <1>2, <1>3 DEF LoadingOK, ChainsOK, loading
<1>5. chains' = chains
      BY <1>1 DEF loading
<1>6. ASSUME StartWalk PROVE WalkOK'
  <2>0. PICK k \in DOMAIN chains : \E pair \in DOMAIN chains[k].chain :
          /\ walk' = [chain |-> k, prev |-> pair]
          /\ trail' = <<Lookup(pair[1]), Lookup(pair[2])>>
        BY <1>6 DEF StartWalk
  <2>1. PICK pair \in DOMAIN chains[k].chain :
          /\ walk' = [chain |-> k, prev |-> pair]
          /\ trail' = <<Lookup(pair[1]), Lookup(pair[2])>>
        BY <2>0
  <2>2. pair \in Given \X Given
        BY <1>3, ChainTokens
  <2>3. Lookup(pair[1]) \in Texts /\ Lookup(pair[2]) \in Texts
        BY <1>3, <2>2, GivenTokens
  <2>4. trail' \in Seq(Texts) /\ Len(trail') = 2
        BY <2>1, <2>3
  <2> QED BY <1>2, <1>5, <2>1, <2>2, <2>4, BoundsAssumption DEF WalkOK
<1>7. ASSUME TakeToken PROVE WalkOK'
  <2>1. walk \in [chain : DOMAIN chains, prev : Given \X Given]
        BY <1>3, <1>7 DEF TakeToken, WalkOK
  <2>2. PICK token \in Successors(chains[walk.chain].chain, walk.prev) :
          /\ walk' = [walk EXCEPT !.prev = <<@[2], token>>]
          /\ trail' = Append(trail, Lookup(token))
        BY <1>7 DEF TakeToken
  <2>3. walk.prev \in DOMAIN chains[walk.chain].chain
        BY <2>2 DEF Successors
  <2>4. token \in Given /\ Lookup(token) \in Texts
        BY <1>3, <2>1, <2>2, <2>3, ChainTokens, GivenTokens
  <2>5. walk' \in [chain : DOMAIN chains, prev : Given \X Given]
        BY <2>1, <2>2, <2>4
  <2>6. trail' \in Seq(Texts) /\ Len(trail') <= MaxTrail
        BY <1>3, <1>7, <2>2, <2>4, BoundsAssumption DEF WalkOK, TakeToken
  <2> QED BY <1>2, <1>5, <2>5, <2>6 DEF WalkOK
<1>8. ASSUME EndWalk PROVE WalkOK'
      BY <1>8, BoundsAssumption DEF EndWalk, WalkOK
<1> QED BY <1>2, <1>4, <1>6, <1>7, <1>8 DEF StartUpInv

\* The invariant holds throughout.
LEMMA StartUpInvNext == StartUpInv /\ [Next]_vars => StartUpInv'
<1> SUFFICES ASSUME StartUpInv, [Next]_vars PROVE StartUpInv'
    OBVIOUS
<1>1. CASE UNCHANGED vars
  <2>1. UNCHANGED <<interner, loading, words, walk, trail>>
        BY <1>1 DEF vars
  <2>2. Sound' /\ index' = index /\ Given' = Given /\ GoodChains' = GoodChains
        BY <2>1, InternerKept DEF StartUpInv
  <2> QED BY <2>1, <2>2 DEF StartUpInv, LoadingOK, ChainsOK, WalkOK, loading
<1>2. CASE Next
      BY <1>2, FeedWordInv, FinishFileInv, PhaseInv, WalkInv DEF Next
<1> QED BY <1>1, <1>2

\* What start-up keeps true of its files, chains and walk, at every step.
LEMMA StartUpInvariant == Spec => []StartUpInv
BY StartUpInvInit, StartUpInvNext, PTL DEF Spec

-----------------------------------------------------------------------------
(***************************************************************************)
(* What follows from it.                                                   *)
(***************************************************************************)

\* A chain over tokens that were handed out is a chain.
LEMMA GivenChain ==
  ASSUME Sound, NEW c \in ChainsOver(Len(index))
  PROVE  IsChain(c)
<1>1. Len(index) \in Nat /\ Below(Len(index)) \subseteq Tokens
      BY GivenTokens
<1>2. ASSUME NEW pair \in DOMAIN c
      PROVE  /\ DOMAIN c[pair] \subseteq Tokens
             /\ \A token \in DOMAIN c[pair] : c[pair][token] \in 0 .. CountSpan - 1
  <2>1. c[pair] \in CountsOver(Len(index))
        BY <1>1, ChainsOverElim
  <2> QED BY <1>1, <2>1, CountsOverElim DEF Counts
<1>3. DOMAIN c \subseteq Tokens \X Tokens
      BY <1>1, ChainsOverElim
<1> QED BY <1>2, <1>3 DEF IsChain

\* The start of the process and its pages are well typed; in particular a page
\* is made of texts, whatever tokens it was drawn from.
THEOREM StartUpTyped == Spec => []TypeOK
<1>1. StartUpInv => TypeOK
  <2> SUFFICES ASSUME StartUpInv PROVE TypeOK
      OBVIOUS
  <2>1. Sound /\ LoadingOK /\ ChainsOK /\ WalkOK
        BY DEF StartUpInv
  <2>2. Given \subseteq Tokens
        BY <2>1, GivenTokens
  <2>3. IsChain(builder)
        BY <2>1, GivenChain DEF LoadingOK
  <2>4. \A k \in DOMAIN chains : chains[k].path < path /\ IsChain(chains[k].chain)
        BY <2>1, ChainListed, GivenChain DEF ChainsOK
  <2>5. window \in Seq(Tokens) /\ Len(window) <= 2
        BY <2>1, <2>2 DEF LoadingOK
  <2>6. walk # NoWalk => walk.chain \in DOMAIN chains /\ walk.prev \in Tokens \X Tokens
        BY <2>1, <2>2 DEF WalkOK
  <2> QED BY <2>1, <2>3, <2>4, <2>5, <2>6 DEF TypeOK, Sound, LoadingOK, WalkOK
<1> QED BY <1>1, StartUpInvariant, PTL

\* Every token of every chain is one the interner handed out.
THEOREM TokensAlwaysResolve == Spec => []TokensResolve
<1>1. StartUpInv => TokensResolve
  <2> SUFFICES ASSUME StartUpInv PROVE TokensResolve
      OBVIOUS
  <2>1. ASSUME NEW c \in ChainsOver(Len(index)), NEW pair \in DOMAIN c
        PROVE  {pair[1], pair[2]} \cup DOMAIN c[pair] \subseteq 0 .. Len(index) - 1
    <3>1. Len(index) \in Nat
          BY GivenTokens DEF StartUpInv
    <3>2. pair \in Below(Len(index)) \X Below(Len(index)) /\ c[pair] \in CountsOver(Len(index))
          BY <3>1, ChainsOverElim
    <3> QED BY <3>1, <3>2, CountsOverElim DEF Below
  <2>2. \A k \in DOMAIN chains : chains[k].chain \in ChainsOver(Len(index))
        BY ChainListed DEF StartUpInv
  <2>3. builder \in ChainsOver(Len(index))
        BY DEF StartUpInv, LoadingOK
  <2> QED BY <2>1, <2>2, <2>3 DEF TokensResolve
<1> QED BY <1>1, StartUpInvariant, PTL

\* A process that serves can draw a chain, start in it and go on from each of
\* its pairs.
THEOREM ServesWhatItCan == Spec => []ServingIsReady
<1>1. StartUpInv => ServingIsReady
      BY DEF StartUpInv, ChainsOK, ServingIsReady
<1> QED BY <1>1, StartUpInvariant, PTL

-----------------------------------------------------------------------------
(***************************************************************************)
(* What a chain says of a text.  The chain that is being built is, at any  *)
(* time, the one the tokens fed so far define.                             *)
(***************************************************************************)
Starts(s) == 1 .. Len(s) - 2
PairAt(s, i) == <<s[i], s[i + 1]>>
Nexts(s, pair) == {s[i + 2] : i \in {j \in Starts(s) : PairAt(s, j) = pair}}
Places(s, pair, t) == {i \in Starts(s) : PairAt(s, i) = pair /\ s[i + 2] = t}

\* The counts of a pair, and the chain, of a sequence of tokens.
CountsIn(s, pair) ==
  [t \in Nexts(s, pair) |-> Cardinality(Places(s, pair, t)) % CountSpan]
ChainOf(s) == [pair \in {PairAt(s, i) : i \in Starts(s)} |-> CountsIn(s, pair)]

\* Division leaves one remainder.
LEMMA RemainderUnique ==
  ASSUME NEW q \in Nat, NEW r \in Nat, NEW k \in Nat \ {0}, r < k
  PROVE  (k * q + r) % k = r
OBVIOUS

\* Counting on in a u32 is counting on.
LEMMA RemainderSucc ==
  ASSUME NEW n \in Nat, NEW k \in Nat \ {0}
  PROVE  ((n % k) + 1) % k = (n + 1) % k
<1> DEFINE q == n \div k
           r == n % k
<1>1. n = k * q + r /\ r \in 0 .. k - 1 /\ q \in Nat
      OBVIOUS
<1> HIDE DEF q, r
<1>2. CASE r + 1 < k
  <2>1. (k * q + (r + 1)) % k = r + 1
        BY <1>1, <1>2, RemainderUnique
  <2>2. k * q + (r + 1) = n + 1
        BY <1>1
  <2>3. (r + 1) % k = r + 1
        BY <1>1, <1>2, SmallRemainder
  <2> QED BY <2>1, <2>2, <2>3 DEF r
<1>3. CASE r + 1 = k
  <2>1. (k * (q + 1) + 0) % k = 0 /\ (k * 1 + 0) % k = 0
        BY <1>1, RemainderUnique
  <2>2. k * (q + 1) + 0 = n + 1 /\ k * 1 + 0 = r + 1
        BY <1>1, <1>3
  <2> QED BY <2>1, <2>2 DEF r
<1> QED BY <1>1, <1>2, <1>3

\* The places of a triple are finitely many.
LEMMA PlacesFinite ==
  ASSUME NEW S, NEW s \in Seq(S), NEW pair, NEW t
  PROVE  IsFiniteSet(Places(s, pair, t)) /\ Cardinality(Places(s, pair, t)) \in Nat
<1>1. Len(s) \in Nat /\ Len(s) - 2 \in Int
      OBVIOUS
<1>2. IsFiniteSet(Starts(s))
      BY <1>1, FS_Interval DEF Starts
<1>3. Places(s, pair, t) \in SUBSET Starts(s)
      BY DEF Places
<1> QED BY <1>2, <1>3, FS_Subset, FS_CardinalityType

\* add_token_pair takes the chain of a text to the chain of the text with the
\* next word.
LEMMA ChainOfAppend ==
  ASSUME NEW S, NEW s \in Seq(S), NEW t \in S, Len(s) >= 2
  PROVE  ChainOf(Append(s, t)) = AddTokenPair(ChainOf(s), <<s[Len(s) - 1], s[Len(s)]>>, t)
<1> DEFINE n  == Len(s)
           s2 == Append(s, t)
           last == <<s[n - 1], s[n]>>
           d  == AddTokenPair(ChainOf(s), last, t)
           pairs == {PairAt(s, i) : i \in Starts(s)}
<1>1. s2 = Append(s, t) /\ n = Len(s) /\ n >= 2 /\ last = <<s[n - 1], s[n]>>
      OBVIOUS
<1> HIDE DEF s2, n, last, d
<1>2. /\ n - 1 \notin Starts(s)
      /\ Starts(s2) = Starts(s) \cup {n - 1}
      /\ \A i \in Starts(s) : PairAt(s2, i) = PairAt(s, i) /\ s2[i + 2] = s[i + 2]
      /\ PairAt(s2, n - 1) = last /\ s2[n - 1 + 2] = t
  <2>1. n \in Nat /\ Len(s2) = n + 1 /\ s2[n + 1] = t /\ \A i \in 1 .. n : s2[i] = s[i]
        BY <1>1
  <2>2. Starts(s) = 1 .. n - 2 /\ Starts(s2) = 1 .. n - 1
        BY <1>1, <2>1 DEF Starts
  <2>3. n - 1 \notin Starts(s) /\ Starts(s2) = Starts(s) \cup {n - 1}
        BY <1>1, <2>1, <2>2
  <2>4. \A i \in Starts(s) : i \in 1 .. n /\ i + 1 \in 1 .. n /\ i + 2 \in 1 .. n
        BY <1>1, <2>1, <2>2
  <2>5. \A i \in Starts(s) : PairAt(s2, i) = PairAt(s, i) /\ s2[i + 2] = s[i + 2]
        BY <2>1, <2>4 DEF PairAt
  <2>6. n - 1 \in 1 .. n /\ n \in 1 .. n /\ (n - 1) + 1 = n /\ (n - 1) + 2 = n + 1
        BY <1>1, <2>1
  <2>7. PairAt(s2, n - 1) = last /\ s2[n - 1 + 2] = t
        BY <1>1, <2>1, <2>6 DEF PairAt
  <2> QED BY <2>3, <2>5, <2>7
<1>3. {PairAt(s2, i) : i \in Starts(s2)} = pairs \cup {last}
      BY <1>2
<1>4. /\ \A pair : pair # last => Nexts(s2, pair) = Nexts(s, pair)
      /\ Nexts(s2, last) = Nexts(s, last) \cup {t}
      BY <1>2 DEF Nexts
<1>5. /\ \A pair, x : pair # last \/ x # t => Places(s2, pair, x) = Places(s, pair, x)
      /\ Places(s2, last, t) = Places(s, last, t) \cup {n - 1}
  <2>1. ASSUME NEW pair, NEW x, pair # last \/ x # t
        PROVE  Places(s2, pair, x) = Places(s, pair, x)
        BY <1>2, <2>1 DEF Places
  <2>2. Places(s2, last, t) = Places(s, last, t) \cup {n - 1}
        BY <1>2 DEF Places
  <2> QED BY <2>1, <2>2
<1>6. ASSUME NEW pair, pair # last PROVE CountsIn(s2, pair) = CountsIn(s, pair)
  <2>1. Nexts(s2, pair) = Nexts(s, pair)
        BY <1>4, <1>6
  <2>2. \A x : Places(s2, pair, x) = Places(s, pair, x)
        BY <1>5, <1>6
  <2> QED BY <2>1, <2>2 DEF CountsIn
<1>7. CountsIn(s2, last) = AddOccurrence(CountsIn(s, last), t)
  <2> DEFINE old  == CountsIn(s, last)
             new  == CountsIn(s2, last)
             more == AddOccurrence(old, t)
  <2>1. /\ DOMAIN old = Nexts(s, last) /\ DOMAIN new = Nexts(s, last) \cup {t}
        /\ new = [x \in DOMAIN new |-> new[x]]
        /\ \A x \in DOMAIN new : new[x] = Cardinality(Places(s2, last, x)) % CountSpan
        /\ \A x \in DOMAIN old : old[x] = Cardinality(Places(s, last, x)) % CountSpan
        BY <1>4 DEF CountsIn
  <2> HIDE DEF old, new, more
  <2>2. /\ DOMAIN more = DOMAIN old \cup {t} /\ more = [x \in DOMAIN more |-> more[x]]
        /\ \A x \in DOMAIN old : x # t => more[x] = old[x]
        /\ t \in DOMAIN old => more[t] = (old[t] + 1) % CountSpan
        /\ t \notin DOMAIN old => more[t] = 1
        BY DEF AddOccurrence, more
  <2>3. ASSUME NEW x \in DOMAIN old, x # t PROVE new[x] = more[x]
        BY <1>5, <2>1, <2>2, <2>3
  <2>4. Cardinality(Places(s2, last, t)) = Cardinality(Places(s, last, t)) + 1
    <3>1. n - 1 \notin Places(s, last, t)
          BY <1>2 DEF Places
    <3> QED BY <1>5, <3>1, PlacesFinite, FS_AddElement
  <2>5. new[t] = more[t]
    <3>1. CASE t \in DOMAIN old
      <4>1. Cardinality(Places(s, last, t)) \in Nat
            BY PlacesFinite
      <4>2. new[t] = (Cardinality(Places(s, last, t)) + 1) % CountSpan
            BY <2>1, <2>4
      <4>3. more[t] = ((Cardinality(Places(s, last, t)) % CountSpan) + 1) % CountSpan
            BY <2>1, <2>2, <3>1
      <4> QED BY <4>1, <4>2, <4>3, CountsAssumption, RemainderSucc
    <3>2. CASE t \notin DOMAIN old
      <4>1. Places(s, last, t) = {}
            BY <2>1, <3>2 DEF Places, Nexts
      <4>2. Cardinality(Places(s2, last, t)) = 1
            BY <2>4, <4>1, FS_EmptySet
      <4>3. 1 % CountSpan = 1
            BY CountsAssumption, SmallRemainder
      <4> QED BY <2>1, <2>2, <3>2, <4>2, <4>3
    <3> QED BY <3>1, <3>2
  <2>6. \A x \in DOMAIN new : new[x] = more[x]
        BY <2>1, <2>3, <2>5
  <2>7. new = more
        BY <2>1, <2>2, <2>6
  <2> QED BY <2>7 DEF old, new, more
<1>8. CountsOf(ChainOf(s), last) = CountsIn(s, last)
  <2>1. CASE last \in pairs
        BY <2>1 DEF CountsOf, ChainOf
  <2>2. CASE last \notin pairs
    <3>1. Nexts(s, last) = {}
          BY <2>2 DEF Nexts
    <3>2. CountsIn(s, last) = << >>
          BY <3>1 DEF CountsIn
    <3> QED BY <2>2, <3>2 DEF CountsOf, ChainOf
  <2> QED BY <2>1, <2>2
<1>9. DOMAIN ChainOf(s) = pairs /\ \A pair \in pairs : ChainOf(s)[pair] = CountsIn(s, pair)
      BY DEF ChainOf
<1>10. d = [pair \in pairs \cup {last} |-> CountsIn(s2, pair)]
      BY <1>6, <1>7, <1>8, <1>9 DEF AddTokenPair, d
<1> QED BY <1>3, <1>10 DEF ChainOf, d, s2, last, n

\* A text of two words or less has no chain.
LEMMA ChainOfShort ==
  ASSUME NEW S, NEW s \in Seq(S), Len(s) <= 2
  PROVE  ChainOf(s) = << >>
<1>1. Starts(s) = {}
      BY DEF Starts
<1> QED BY <1>1 DEF ChainOf

-----------------------------------------------------------------------------
(***************************************************************************)
(* Texts for tokens.  A token and its text are exchanged for each other    *)
(* without a change of what a chain says.                                  *)
(***************************************************************************)

\* What a slice of two or three texts holds.
LEMMA Slices ==
  ASSUME NEW S, NEW text \in Seq(S), NEW i \in Starts(text)
  PROVE  /\ SubSeq(text, i, i + 1) = PairAt(text, i)
         /\ SubSeq(text, i, i + 2) = <<text[i], text[i + 1], text[i + 2]>>
<1>1. i \in Nat /\ Len(text) \in Nat /\ i + 2 <= Len(text) /\ i >= 1
      BY DEF Starts
<1>2. \A m, n \in 1 .. Len(text) : m <= n =>
        /\ SubSeq(text, m, n) \in Seq(S) /\ Len(SubSeq(text, m, n)) = n - m + 1
        /\ \A k \in 1 .. n - m + 1 : SubSeq(text, m, n)[k] = text[m + k - 1]
      OBVIOUS
<1> DEFINE two   == SubSeq(text, i, i + 1)
           three == SubSeq(text, i, i + 2)
<1>3. /\ two \in Seq(S) /\ Len(two) = 2 /\ two[1] = text[i] /\ two[2] = text[i + 1]
      /\ three \in Seq(S) /\ Len(three) = 3
      /\ three[1] = text[i] /\ three[2] = text[i + 1] /\ three[3] = text[i + 2]
  <2>1. i \in 1 .. Len(text) /\ i + 1 \in 1 .. Len(text) /\ i + 2 \in 1 .. Len(text)
        BY <1>1
  <2>2. (i + 1) - i + 1 = 2 /\ (i + 2) - i + 1 = 3 /\ i + 1 - 1 = i /\ i + 2 - 1 = i + 1
        /\ i + 3 - 1 = i + 2
        BY <1>1
  <2>3. 1 \in 1 .. 2 /\ 2 \in 1 .. 2 /\ 1 \in 1 .. 3 /\ 2 \in 1 .. 3 /\ 3 \in 1 .. 3
        OBVIOUS
  <2>4. i <= i + 1 /\ i <= i + 2
        BY <1>1
  <2>5. /\ two \in Seq(S) /\ Len(two) = 2 
        /\ \A k \in 1 .. 2 : two[k] = text[i + k - 1]
        BY <1>2, <2>1, <2>2, <2>4
  <2>6. /\ three \in Seq(S) /\ Len(three) = 3 
        /\ \A k \in 1 .. 3 : three[k] = text[i + k - 1]
        BY <1>2, <2>1, <2>2, <2>4
  <2> HIDE DEF two, three
  <2> QED BY <2>2, <2>3, <2>5, <2>6
<1> HIDE DEF two, three
<1>4. two = <<text[i], text[i + 1]>> /\ three = <<text[i], text[i + 1], text[i + 2]>>
      BY <1>3
<1> QED BY <1>4 DEF PairAt, two, three

\* Counts of tokens and of the texts that f reads them as, with the sampler's
\* verdict on them.
SameCounts(own, counts, f) ==
  /\ DOMAIN own \subseteq DOMAIN f
  /\ {f[t] : t \in DOMAIN own} = DOMAIN counts
  /\ \A t \in DOMAIN own : own[t] = counts[f[t]]
  /\ Accepted(own) <=> Accepted(counts)

\* Counting texts is counting tokens, as long as no two tokens share a text,
\* and the sampler takes the one count whenever it takes the other.
LEMMA CountsAgree ==
  ASSUME NEW G, NEW S, NEW f \in [G -> S], \A x, y \in G : f[x] = f[y] => x = y,
         NEW s \in Seq(G), NEW text \in Seq(S), Len(text) = Len(s),
         \A i \in 1 .. Len(s) : text[i] = f[s[i]],
         NEW a \in G, NEW b \in G
  PROVE  SameCounts(CountsIn(s, <<a, b>>), CountsAfter(text, f[a], f[b]), f)
<1> DEFINE pair   == <<a, b>>
           own    == CountsIn(s, pair)
           counts == CountsAfter(text, f[a], f[b])
           at     == {i \in Starts(s) : PairAt(s, i) = pair}
<1>1. /\ Starts(text) = Starts(s) /\ Starts(s) = 1 .. Len(text) - 2
      /\ \A i \in Starts(s) :
           /\ s[i] \in G /\ s[i + 1] \in G /\ s[i + 2] \in G
           /\ text[i] = f[s[i]] /\ text[i + 1] = f[s[i + 1]] /\ text[i + 2] = f[s[i + 2]]
  <2>1. Len(s) \in Nat /\ Starts(text) = Starts(s) /\ Starts(s) = 1 .. Len(s) - 2
        BY DEF Starts
  <2>2. \A i \in Starts(s) : i \in 1 .. Len(s) /\ i + 1 \in 1 .. Len(s) /\ i + 2 \in 1 .. Len(s)
        BY <2>1
  <2>3. \A i \in 1 .. Len(s) : s[i] \in G /\ text[i] = f[s[i]]
        OBVIOUS
  <2> QED BY <2>1, <2>2, <2>3
<1>2. ASSUME NEW i \in Starts(s)
      PROVE  /\ PairAt(text, i) = <<f[a], f[b]>> <=> PairAt(s, i) = pair
             /\ \A t \in G : text[i + 2] = f[t] <=> s[i + 2] = t
  <2>1. f[s[i]] = f[a] <=> s[i] = a
        BY <1>1
  <2>2. f[s[i + 1]] = f[b] <=> s[i + 1] = b
        BY <1>1
  <2> QED BY <1>1, <2>1, <2>2 DEF PairAt
<1>3. {j \in 1 .. Len(text) - 2 : SubSeq(text, j, j + 1) = <<f[a], f[b]>>} = at
  <2>1. ASSUME NEW j \in Starts(s)
        PROVE  SubSeq(text, j, j + 1) = <<f[a], f[b]>> <=> PairAt(s, j) = pair
    <3>1. j \in Starts(text)
          BY <1>1
    <3>2. SubSeq(text, j, j + 1) = PairAt(text, j)
          BY <3>1, Slices
    <3> QED BY <1>2, <3>2
  <2>2. Starts(s) = 1 .. Len(text) - 2
        BY <1>1
  <2> HIDE DEF pair
  <2> QED BY <2>1, <2>2
<1>4. ASSUME NEW t \in G
      PROVE  Occurrences(text, f[a], f[b], f[t]) = Cardinality(Places(s, pair, t))
  <2>1. ASSUME NEW j \in Starts(s)
        PROVE  SubSeq(text, j, j + 2) = <<f[a], f[b], f[t]>> <=> PairAt(s, j) = pair /\ s[j + 2] = t
    <3>1. j \in Starts(text)
          BY <1>1
    <3>2. SubSeq(text, j, j + 2) = <<text[j], text[j + 1], text[j + 2]>>
          BY <3>1, Slices
    <3> QED BY <1>2, <3>2 DEF PairAt
  <2>2. Starts(s) = 1 .. Len(text) - 2
        BY <1>1
  <2> DEFINE triple == <<f[a], f[b], f[t]>>
  <2>3. \A j \in Starts(s) : SubSeq(text, j, j + 2) = triple <=> PairAt(s, j) = pair /\ s[j + 2] = t
        BY <2>1
  <2>4. Occurrences(text, f[a], f[b], f[t])
          = Cardinality({j \in 1 .. Len(text) - 2 : SubSeq(text, j, j + 2) = triple})
        BY DEF Occurrences
  <2> HIDE DEF pair, triple
  <2>5. {j \in 1 .. Len(text) - 2 : SubSeq(text, j, j + 2) = triple} = Places(s, pair, t)
        BY <2>2, <2>3 DEF Places
  <2> QED BY <2>4, <2>5
<1>5. /\ DOMAIN own = {s[i + 2] : i \in at} /\ DOMAIN own \subseteq G
      /\ \A t \in DOMAIN own : own[t] = Cardinality(Places(s, pair, t)) % CountSpan
      BY <1>1 DEF CountsIn, Nexts
<1>6. /\ DOMAIN counts = {text[i + 2] : i \in at}
      /\ \A c \in DOMAIN counts : counts[c] = Occurrences(text, f[a], f[b], c) % CountSpan
      BY <1>3 DEF CountsAfter
<1> HIDE DEF own, counts
<1>7. {f[t] : t \in DOMAIN own} = DOMAIN counts
  <2>1. \A i \in at : text[i + 2] = f[s[i + 2]]
        BY <1>1
  <2> HIDE DEF at
  <2>2. ASSUME NEW t \in DOMAIN own PROVE f[t] \in DOMAIN counts
    <3>1. PICK i \in at : t = s[i + 2]
          BY <1>5
    <3>2. f[t] = text[i + 2]
          BY <2>1, <3>1
    <3> QED BY <1>6, <3>2
  <2>3. ASSUME NEW c \in DOMAIN counts PROVE \E t \in DOMAIN own : c = f[t]
    <3>1. PICK i \in at : c = text[i + 2]
          BY <1>6
    <3>2. s[i + 2] \in DOMAIN own
          BY <1>5
    <3> QED BY <2>1, <3>1, <3>2
  <2>4. {f[t] : t \in DOMAIN own} \subseteq DOMAIN counts
        BY <2>2
  <2>5. DOMAIN counts \subseteq {f[t] : t \in DOMAIN own}
        BY <2>3
  <2> QED BY <2>4, <2>5
<1>8. ASSUME NEW t \in DOMAIN own
      PROVE  f[t] \in DOMAIN counts /\ own[t] = counts[f[t]]
  <2>1. f[t] \in DOMAIN counts
        BY <1>7
  <2>2. own[t] = Cardinality(Places(s, pair, t)) % CountSpan
        BY <1>5
  <2>3. counts[f[t]] = Occurrences(text, f[a], f[b], f[t]) % CountSpan
        BY <1>6, <2>1
  <2>4. t \in G
        BY <1>5
  <2>5. Occurrences(text, f[a], f[b], f[t]) = Cardinality(Places(s, pair, t))
        BY <1>4, <2>4
  <2> QED BY <2>1, <2>2, <2>3, <2>5
<1>9. Cardinality(DOMAIN own) = Cardinality(DOMAIN counts)
  <2>1. IsFiniteSet(at)
    <3>1. Len(s) \in Nat /\ IsFiniteSet(Starts(s))
          BY FS_Interval DEF Starts
    <3>2. at \in SUBSET Starts(s)
          OBVIOUS
    <3> QED BY <3>1, <3>2, FS_Subset
  <2>2. IsFiniteSet(DOMAIN own)
    <3> DEFINE g == [i \in at |-> s[i + 2]]
    <3>1. g \in Surjection(at, DOMAIN own)
          BY <1>5 DEF Surjection
    <3> QED BY <2>1, <3>1, FS_Surjection
  <2>3. ExistsBijection(DOMAIN own, DOMAIN counts)
    <3> DEFINE g == [t \in DOMAIN own |-> f[t]]
    <3>1. /\ g \in [DOMAIN own -> DOMAIN counts]
          /\ \A c \in DOMAIN counts : \E t \in DOMAIN own : g[t] = c
          BY <1>7
    <3>2. \A x, y \in DOMAIN own : g[x] = g[y] => x = y
          BY <1>5
    <3>3. g \in Bijection(DOMAIN own, DOMAIN counts)
          BY <3>1, <3>2 DEF Bijection, Injection, Surjection, IsInjective
    <3> QED BY <3>3 DEF ExistsBijection
  <2> QED BY <2>2, <2>3, FS_Bijection
<1>10. Accepted(own) <=> Accepted(counts)
  <2> DEFINE top == (CountSpan - 1) \div Cardinality(DOMAIN own)
  <2>1. (\A t \in DOMAIN own : own[t] <= top) <=> (\A c \in DOMAIN counts : counts[c] <= top)
        BY <1>7, <1>8
  <2>2. (\E t \in DOMAIN own : own[t] # 0) <=> (\E c \in DOMAIN counts : counts[c] # 0)
        BY <1>7, <1>8
  <2> QED BY <1>9, <2>1, <2>2 DEF Accepted
<1> QED BY <1>5, <1>7, <1>8, <1>10 DEF own, counts, SameCounts

-----------------------------------------------------------------------------
(***************************************************************************)
(* The tokens of a text, while others are handed out.                      *)
(***************************************************************************)
Reader == [token \in Given |-> Lookup(token)]
Numbered(text, i) == Known(text) # {} /\ TokenOf(text) = i - 1

\* The texts that have tokens are those the table reads, at the token's place.
TextsNumbered ==
  /\ Names \in Seq(Texts) /\ Len(Names) = Len(index)
  /\ \A text \in Texts : Known(text) # {} => \E i \in 1 .. Len(Names) : Names[i] = text
  /\ \A i \in 1 .. Len(Names) : \A text \in Texts : Names[i] = text => Numbered(text, i)

\* A sound interner numbers its texts.
LEMMA SoundNumbers == Sound => TextsNumbered
<1> SUFFICES ASSUME Sound PROVE TextsNumbered
    OBVIOUS
<1>1. index \in Seq(StringPtrs) /\ Len(index) \in Nat /\ DOMAIN index = 1 .. Len(index)
      BY DEF Sound, InternerTypeOK
<1>2. \A i \in 1 .. Len(index) : Read(index[i]) \in Texts
      BY <1>1, LiveReadsText DEF Sound, PointersStayValid
<1>3. Names \in Seq(Texts) /\ Len(Names) = Len(index)
      BY <1>1, <1>2 DEF Names
<1>4. \A i \in 1 .. Len(index) : Names[i] = Read(index[i])
      BY <1>1 DEF Names
<1>5. ASSUME NEW text \in Texts, Known(text) # {}
      PROVE  \E i \in 1 .. Len(Names) : Names[i] = text
  <2>1. PICK p \in DOMAIN collected : Read(p) = text
        BY <1>5 DEF Known
  <2>2. PICK i \in DOMAIN index : p = index[i]
        BY <2>1 DEF Sound, Agree
  <2> QED BY <1>1, <1>3, <1>4, <2>1, <2>2
<1>6. ASSUME NEW i \in 1 .. Len(Names), NEW text \in Texts, Names[i] = text
      PROVE  Known(text) # {} /\ TokenOf(text) = i - 1
  <2>1. i \in DOMAIN index /\ Read(index[i]) = text
        BY <1>1, <1>3, <1>4, <1>6
  <2>2. index[i] \in DOMAIN collected
        BY <2>1 DEF Sound, Agree
  <2>3. TokenOf(text) = i - 1
        BY <2>1, SoundNames DEF TokensNameTexts
  <2> QED BY <2>1, <2>2, <2>3 DEF Known
<1> QED BY <1>3, <1>5, <1>6 DEF TextsNumbered, Numbered

\* Interning a text leaves the texts of all tokens and gives it one of its own.
LEMMA NamesGrow ==
  ASSUME Sound, NEW text \in Texts, Intern(text)
  PROVE  /\ Len(Names) <= Len(Names')
         /\ \A i \in 1 .. Len(Names) : Names'[i] = Names[i]
         /\ \E i \in 1 .. Len(Names') : Names'[i] = text /\ TokenOf(text) = i - 1
<1>1. Sound'
      BY SoundNext
<1>2. TextsNumbered /\ TextsNumbered'
      BY <1>1, SoundNumbers, PTL
<1>3. /\ Len(Names) = Len(index) /\ Len(Names') = Len(index') /\ Len(index) \in Nat
      /\ DOMAIN index = 1 .. Len(index) /\ DOMAIN index' = 1 .. Len(index')
      BY <1>1, <1>2 DEF TextsNumbered, Sound, InternerTypeOK
<1>4. CASE Known(text) # {}
  <2>1. UNCHANGED interner
        BY <1>4 DEF Intern
  <2>2. Names' = Names
        BY <2>1 DEF interner, Names, Read, Live, AllStrings
  <2>3. PICK i \in 1 .. Len(Names) : Names[i] = text
        BY <1>2, <1>4 DEF TextsNumbered
  <2>4. TokenOf(text) = i - 1
        BY <1>2, <2>3 DEF TextsNumbered, Numbered
  <2> QED BY <1>3, <2>2, <2>3, <2>4
<1>5. CASE Known(text) = {}
  <2>1. /\ Len(index') = Len(index) + 1 /\ Read(index[Len(index)])' = text
        /\ \A i \in DOMAIN index : Read(index[i])' = Read(index[i])
        BY <1>5, InternNew
  <2>2. TokenOf(text) = Len(index)
        BY <1>5, TokenLeft
  <2>3. \A i \in 1 .. Len(index) : Names'[i] = Names[i]
        BY <1>3, <2>1 DEF Names
  <2>4. Names'[Len(index')] = text
        BY <1>3, <2>1 DEF Names
  <2> QED BY <1>3, <2>1, <2>2, <2>3, <2>4
<1> QED BY <1>4, <1>5

\* A text that has a token keeps it.
LEMMA TokenKept ==
  ASSUME Sound, NEW text \in Texts, Intern(text)
  PROVE  /\ \A x \in Texts : Known(x) # {} => Known(x)' # {} /\ TokenOf(x)' = TokenOf(x)
         /\ Known(text)' # {} /\ TokenOf(text)' = TokenOf(text)
<1>1. Sound'
      BY SoundNext
<1>2. TextsNumbered /\ TextsNumbered'
      BY <1>1, SoundNumbers, PTL
<1>3. Len(Names) \in Nat /\ Len(Names') \in Nat
      BY <1>2 DEF TextsNumbered
<1>4. \A i \in 1 .. Len(Names'), x \in Texts :
        Names'[i] = x => Known(x)' # {} /\ TokenOf(x)' = i - 1
      BY <1>2 DEF TextsNumbered, Numbered
<1>5. ASSUME NEW x \in Texts, Known(x) # {}
      PROVE  Known(x)' # {} /\ TokenOf(x)' = TokenOf(x)
  <2>1. PICK i \in 1 .. Len(Names) : Names[i] = x
        BY <1>2, <1>5 DEF TextsNumbered
  <2>2. TokenOf(x) = i - 1
        BY <1>2, <2>1 DEF TextsNumbered, Numbered
  <2>3. i \in 1 .. Len(Names') /\ Names'[i] = x
        BY <1>3, <2>1, NamesGrow
  <2> QED BY <1>4, <2>2, <2>3
<1>6. Known(text)' # {} /\ TokenOf(text)' = TokenOf(text)
      BY <1>4, NamesGrow
<1> QED BY <1>5, <1>6

\* What reads tokens tells all those handed out apart.
LEMMA ReaderInjective ==
  ASSUME Sound
  PROVE  Reader \in [Given -> Texts] /\ \A x, y \in Given : Reader[x] = Reader[y] => x = y
<1>1. Reader \in [Given -> Texts]
      BY GivenTokens DEF Reader
<1>2. ASSUME NEW x \in Given, NEW y \in Given, Reader[x] = Reader[y] PROVE x = y
  <2>1. x \in Nat /\ y \in Nat /\ x + 1 \in DOMAIN index /\ y + 1 \in DOMAIN index
        BY DEF Given, Sound, InternerTypeOK
  <2>2. Read(index[x + 1]) = Read(index[y + 1])
        BY <1>2 DEF Reader, Lookup
  <2>3. x + 1 = y + 1
        BY <2>1, <2>2 DEF Sound, Agree
  <2> QED BY <2>1, <2>3
<1> QED BY <1>1, <1>2

-----------------------------------------------------------------------------
(***************************************************************************)
(* What has been fed.                                                      *)
(***************************************************************************)
Fed(p) == [i \in DOMAIN words[p] |-> TokenOf(words[p][i])]
LastTwo(s) == IF Len(s) <= 2 THEN s ELSE <<s[Len(s) - 1], s[Len(s)]>>

\* The words of a file are known, and those of files to come unread.
Recorded(p) == \A i \in DOMAIN words[p], x \in Texts : words[p][i] = x => Known(x) # {}
FilesFed == \A p \in 1 .. Paths : Recorded(p) /\ (p > path => words[p] = <<>>)

\* The file that is being fed.
BuilderFed == \A p \in 1 .. Paths :
  p = path => builder = ChainOf(Fed(p)) /\ window = LastTwo(Fed(p))

\* The files that were fed before it.
ChainsFed == \A k \in DOMAIN chains, p \in 1 .. Paths :
  chains[k].path = p => chains[k].chain = Build(ChainOf(Fed(p)))
PathsFed ==
  {chains[k].path : k \in DOMAIN chains} =
    {p \in 1 .. Paths : p < path /\ DOMAIN Build(ChainOf(Fed(p))) # {}}

FedOK == FilesFed /\ BuilderFed /\ ChainsFed /\ PathsFed

\* The tokens of a file, read back, are its words.
LEMMA FedReads ==
  ASSUME Sound, LoadingOK, NEW p \in 1 .. Paths, Recorded(p)
  PROVE  /\ words[p] \in Seq(Texts) /\ Fed(p) \in Seq(Given) /\ Len(Fed(p)) = Len(words[p])
         /\ \A i \in 1 .. Len(Fed(p)) : words[p][i] = Reader[Fed(p)[i]]
<1>1. words[p] \in Seq(Texts) /\ DOMAIN words[p] = 1 .. Len(words[p]) /\ Len(words[p]) \in Nat
      BY DEF LoadingOK
<1>2. ASSUME NEW i \in DOMAIN words[p]
      PROVE  TokenOf(words[p][i]) \in Given /\ Reader[TokenOf(words[p][i])] = words[p][i]
  <2> DEFINE x == words[p][i]
  <2>1. x \in Texts /\ Known(x) # {}
        BY <1>1 DEF Recorded
  <2>2. TokenOf(x) + 1 \in DOMAIN index /\ Lookup(TokenOf(x)) = x
        BY <2>1, SoundNames DEF TokensNameTexts
  <2>3. PICK j \in 1 .. Len(Names) : TokenOf(x) = j - 1
        BY <2>1, SoundNumbers DEF TextsNumbered, Numbered
  <2>4. Len(Names) = Len(index) /\ Len(index) \in Nat
        BY SoundNumbers DEF TextsNumbered, Sound, InternerTypeOK
  <2>5. TokenOf(x) \in Given
        BY <2>3, <2>4 DEF Given
  <2> QED BY <2>2, <2>5 DEF Reader
<1>3. Fed(p) \in [1 .. Len(words[p]) -> Given]
      BY <1>1, <1>2 DEF Fed
<1>4. Fed(p) \in Seq(Given) /\ Len(Fed(p)) = Len(words[p])
      BY <1>1, <1>3
<1>5. \A i \in 1 .. Len(words[p]) : words[p][i] = Reader[Fed(p)[i]]
      BY <1>1, <1>2 DEF Fed
<1> QED BY <1>1, <1>4, <1>5

\* What Append makes of a sequence.
LEMMA Appended ==
  ASSUME NEW S, NEW v \in Seq(S), NEW t \in S
  PROVE  /\ Append(v, t) \in Seq(S) /\ Len(Append(v, t)) = Len(v) + 1
         /\ Append(v, t)[Len(v) + 1] = t
         /\ \A i \in 1 .. Len(v) : Append(v, t)[i] = v[i]
OBVIOUS

\* A pair makes way for the next token.
LEMMA PairSlides ==
  ASSUME NEW S, NEW w \in Seq(S), NEW t \in S, Len(w) = 2
  PROVE  Append(Tail(w), t) = <<w[2], t>>
<1>1. Tail(w) \in Seq(S) /\ Len(Tail(w)) = 1 /\ Tail(w)[1] = w[2] /\ w[2] \in S
      OBVIOUS
<1>2. PICK v \in Seq(S) : v = Tail(w)
      BY <1>1
<1>3. PICK u : u = Append(v, t)
      OBVIOUS
<1>4. u \in Seq(S) /\ Len(u) = Len(v) + 1 /\ u[Len(v) + 1] = t /\ \A i \in 1 .. Len(v) : u[i] = v[i]
      BY <1>3, Appended
<1>5. Len(v) = 1 /\ v[1] = w[2]
      BY <1>1, <1>2
<1>6. u \in Seq(S) /\ Len(u) = 2 /\ u[1] = w[2] /\ u[2] = t
      BY <1>4, <1>5
<1>7. u = <<w[2], t>>
      BY <1>6, WindowPair
<1> QED BY <1>2, <1>3, <1>7

\* The window holds the last two tokens, and makes way for the next.
LEMMA LastTwoSlides ==
  ASSUME NEW S, NEW s \in Seq(S), NEW t \in S
  PROVE  LET w == LastTwo(s)
         IN  /\ LastTwo(Append(s, t)) = Append(IF Len(w) = 2 THEN Tail(w) ELSE w, t)
             /\ Len(w) = 2 <=> Len(s) >= 2
             /\ Len(s) >= 2 => w = <<s[Len(s) - 1], s[Len(s)]>>
<1> DEFINE n  == Len(s)
           w  == LastTwo(s)
           s2 == Append(s, t)
           z  == LastTwo(s2)
           m  == Append(IF Len(w) = 2 THEN Tail(w) ELSE w, t)
<1>1. /\ n \in Nat /\ n = Len(s) /\ Len(s2) = n + 1 /\ s2[n + 1] = t
      /\ \A i \in 1 .. n : s2[i] = s[i]
      OBVIOUS
<1>2. /\ n <= 2 => w = s
      /\ n > 2 => w = <<s[n - 1], s[n]>>
      BY DEF LastTwo
<1>3. /\ n + 1 <= 2 => z = s2
      /\ n + 1 > 2 => z = <<s2[n + 1 - 1], s2[n + 1]>>
      BY <1>1 DEF LastTwo
<1>4. /\ s2 = Append(s, t)
      /\ Len(w) = 2 => m = Append(Tail(w), t)
      /\ Len(w) # 2 => m = Append(w, t)
      OBVIOUS
<1> HIDE DEF n, w, s2, z, m
<1>5. CASE n <= 1
  <2>1. w = s /\ z = s2
        BY <1>1, <1>2, <1>3, <1>5
  <2>2. m = s2 /\ Len(w) # 2 /\ ~ (n >= 2)
        BY <1>1, <1>4, <1>5, <2>1
  <2> QED BY <2>1, <2>2 DEF n, w, s2, z, m
<1>6. CASE n >= 2
  <2>1. n - 1 \in 1 .. n /\ n \in 1 .. n /\ n + 1 - 1 = n
        BY <1>1, <1>6
  <2>2. s[n - 1] \in S /\ s[n] \in S
        BY <1>1, <2>1
  <2>3. w = <<s[n - 1], s[n]>>
    <3>1. CASE n = 2
      <4>1. s = <<s[1], s[2]>>
            BY <1>1, <3>1, WindowPair
      <4> QED BY <1>2, <3>1, <4>1
    <3>2. CASE n > 2
          BY <1>2, <3>2
    <3> QED BY <1>1, <1>6, <3>1, <3>2
  <2>4. z = <<s[n], t>>
        BY <1>1, <1>3, <1>6, <2>1
  <2>5. ASSUME NEW x \in S, NEW y \in S, w = <<x, y>>
        PROVE  Len(w) = 2 /\ Append(Tail(w), t) = <<y, t>>
    <3>1. w \in Seq(S) /\ Len(w) = 2 /\ w[2] = y
          BY <2>5
    <3> QED BY <3>1, PairSlides
  <2>6. Len(w) = 2 /\ m = z
        BY <1>4, <2>2, <2>3, <2>4, <2>5
  <2> QED BY <1>6, <2>3, <2>6 DEF n, w, s2, z, m
<1>7. n <= 1 \/ n >= 2
      BY <1>1
<1> QED BY <1>5, <1>6, <1>7

\* The chain of no words is empty, and so is the one built from it.
LEMMA NothingFed ==
  ASSUME NEW p \in 1 .. Paths, words[p] = <<>>
  PROVE  /\ ChainOf(Fed(p)) = << >> /\ LastTwo(Fed(p)) = <<>>
         /\ DOMAIN Build(ChainOf(Fed(p))) = {}
<1>1. Fed(p) = <<>>
      BY DEF Fed
<1>2. ChainOf(Fed(p)) = << >>
  <2>1. <<>> \in Seq({}) /\ Len(<<>>) <= 2
        OBVIOUS
  <2>2. ChainOf(<<>>) = << >>
        BY <2>1, ChainOfShort
  <2> QED BY <1>1, <2>2
<1>3. LastTwo(Fed(p)) = <<>>
      BY <1>1 DEF LastTwo
<1>4. Build(<< >>) = [x \in {} |-> << >>[x]]
      BY DEF Build, Restrict
<1>5. DOMAIN Build(<< >>) = {}
      BY <1>4
<1> QED BY <1>2, <1>3, <1>5

\* While neither the interner nor the words change, neither do the tokens fed.
LEMMA FedUnchanged ==
  ASSUME UNCHANGED <<interner, words>>
  PROVE  \A p : Fed(p)' = Fed(p) /\ Recorded(p)' = Recorded(p)
BY DEF Fed, Recorded, TokenOf, Known, Read, Live, AllStrings, interner

\* A start-up that has loaded nothing has fed its chain nothing.
LEMMA FedOKInit == Init /\ StartUpInv => FedOK
<1> SUFFICES ASSUME Init, StartUpInv PROVE FedOK
    OBVIOUS
<1>1. \A p \in 1 .. Paths : words[p] = <<>>
      BY DEF Init
<1>2. FilesFed
      BY <1>1 DEF FilesFed, Recorded
<1>3. BuilderFed
      BY <1>1, NothingFed DEF BuilderFed, Init
<1>4. ChainsFed
      BY DEF ChainsFed, Init
<1>5. PathsFed
      BY <1>1, NothingFed DEF PathsFed, Init
<1> QED BY <1>2, <1>3, <1>4, <1>5 DEF FedOK

\* A word that is fed leaves the tokens of the other files and adds its own to
\* those of its file.
LEMMA FeedWordFeeds ==
  ASSUME StartUpInv, FilesFed, NEW text \in Texts, FeedWord(text), NEW p \in 1 .. Paths
  PROVE  /\ p # path => Fed(p)' = Fed(p) /\ words'[p] = words[p]
         /\ p = path => Fed(p)' = Append(Fed(p), TokenOf(text))
         /\ Recorded(p)'
<1>1. Sound /\ LoadingOK /\ Intern(text)
      BY DEF StartUpInv, FeedWord
<1>2. /\ \A x \in Texts : Known(x) # {} => Known(x)' # {} /\ TokenOf(x)' = TokenOf(x)
      /\ Known(text)' # {} /\ TokenOf(text)' = TokenOf(text)
      BY <1>1, TokenKept
<1>3. words[p] \in Seq(Texts) /\ \A i \in DOMAIN words[p], x \in Texts : words[p][i] = x => Known(x) # {}
      BY <1>1 DEF LoadingOK, FilesFed, Recorded
<1>4. ASSUME NEW i \in DOMAIN words[p], NEW x, x = words[p][i]
      PROVE  x \in Texts /\ Known(x)' # {} /\ TokenOf(x)' = TokenOf(x)
      BY <1>2, <1>3, <1>4
<1>5. CASE p # path
  <2>1. words'[p] = words[p]
        BY <1>1, <1>5 DEF FeedWord, LoadingOK
  <2>2. ASSUME NEW i \in DOMAIN words[p]
        PROVE  TokenOf(words[p][i])' = TokenOf(words[p][i]) /\ Known(words[p][i])' # {}
    <3>1. PICK x : x = words[p][i] /\ x = words'[p][i]
          BY <2>1
    <3>2. TokenOf(x)' = TokenOf(x) /\ Known(x)' # {}
          BY <1>4, <3>1
    <3> QED BY <3>1, <3>2
  <2>3. Fed(p)' = Fed(p)
        BY <2>1, <2>2 DEF Fed
  <2>4. Recorded(p)'
        BY <1>4, <2>1 DEF Recorded
  <2> QED BY <1>5, <2>1, <2>3, <2>4
<1>6. CASE p = path
  <2>1. words'[p] = Append(words[p], text)
        BY <1>1, <1>6 DEF FeedWord, LoadingOK
  <2> DEFINE n == Len(words[p])
  <2>2. /\ n \in Nat /\ DOMAIN words[p] = 1 .. n /\ DOMAIN words'[p] = 1 .. n + 1
        /\ \A i \in 1 .. n : words'[p][i] = words[p][i]
        /\ words'[p][n + 1] = text
        BY <1>3, <2>1
  <2>3. ASSUME NEW i \in 1 .. n
        PROVE  TokenOf(words[p][i])' = TokenOf(words[p][i]) /\ Known(words[p][i])' # {}
    <3>1. PICK x : x = words[p][i] /\ x = words'[p][i]
          BY <2>2
    <3>2. TokenOf(x)' = TokenOf(x) /\ Known(x)' # {}
          BY <1>4, <2>2, <3>1
    <3> QED BY <3>1, <3>2
  <2>4. PICK x : x = text /\ x = words'[p][n + 1]
        BY <2>2
  <2>5. TokenOf(x)' = TokenOf(text) /\ Known(x)' # {}
        BY <1>2, <2>4
  <2>6. Recorded(p)'
    <3> SUFFICES ASSUME NEW i \in 1 .. n + 1, NEW y \in Texts, words'[p][i] = y
                 PROVE  Known(y)' # {}
        BY <2>2 DEF Recorded
    <3>1. CASE i \in 1 .. n
          BY <1>4, <2>2, <3>1
    <3>2. CASE i = n + 1
          BY <1>2, <2>2, <3>2
    <3> QED BY <2>2, <3>1, <3>2
  <2>7. Fed(p)' = Append(Fed(p), TokenOf(text))
        BY <2>2, <2>3, <2>4, <2>5 DEF Fed
  <2> QED BY <1>6, <2>6, <2>7
<1> QED BY <1>5, <1>6

\* The next word of a file.
LEMMA FeedWordFedOK ==
  ASSUME StartUpInv, FedOK, NEW text \in Texts, FeedWord(text)
  PROVE  FedOK'
<1>1. Sound /\ LoadingOK /\ ChainsOK /\ FilesFed /\ BuilderFed /\ ChainsFed /\ PathsFed
      BY DEF StartUpInv, FedOK
<1>2. path' = path /\ chains' = chains /\ path \in 1 .. Paths
      BY <1>1, BoundsAssumption DEF FeedWord, LoadingOK
<1>3. \A p \in 1 .. Paths :
        /\ p # path => Fed(p)' = Fed(p) /\ words'[p] = words[p]
        /\ p = path => Fed(p)' = Append(Fed(p), TokenOf(text))
        /\ Recorded(p)'
      BY <1>1, FeedWordFeeds
<1>4. FilesFed'
      BY <1>1, <1>2, <1>3 DEF FilesFed
<1>5. ASSUME NEW p \in 1 .. Paths, p = path
      PROVE  builder' = ChainOf(Fed(p)') /\ window' = LastTwo(Fed(p)')
  <2> DEFINE token == TokenOf(text)
  <2>1. PICK s : s = Fed(p)
        OBVIOUS
  <2>2. Fed(p)' = Append(s, token) /\ builder = ChainOf(s) /\ window = LastTwo(s)
        BY <1>1, <1>3, <1>5, <2>1 DEF BuilderFed
  <2>3. PICK S : s \in Seq(S) /\ token \in S
    <3>1. Fed(p) \in Seq(Given) /\ Len(index) \in Nat /\ Len(index') \in Nat
            /\ Len(index) <= Len(index') /\ token \in Below(Len(index'))
          BY <1>1, FedReads, InternGives DEF FilesFed, FeedWord
    <3>2. Given \subseteq Below(Len(index'))
          BY <3>1 DEF Given, Below
    <3>3. Fed(p) \in Seq(Below(Len(index')))
          BY <3>1, <3>2
    <3> QED BY <2>1, <3>1, <3>3
  <2> HIDE DEF token
  <2>4. /\ LastTwo(Append(s, token)) = Append(IF Len(window) = 2 THEN Tail(window) ELSE window, token)
        /\ Len(window) = 2 <=> Len(s) >= 2
        /\ Len(s) >= 2 => window = <<s[Len(s) - 1], s[Len(s)]>>
        BY <2>2, <2>3, LastTwoSlides
  <2>5. window' = LastTwo(Append(s, token))
        BY <2>4 DEF FeedWord, Slide, token
  <2>6. builder' = ChainOf(Append(s, token))
    <3>1. CASE Len(s) >= 2
      <4>1. ChainOf(Append(s, token)) = AddTokenPair(builder, window, token)
            BY <2>2, <2>3, <2>4, <3>1, ChainOfAppend
      <4> QED BY <2>4, <3>1, <4>1 DEF FeedWord, token
    <3>2. CASE ~ (Len(s) >= 2)
      <4>1. Append(s, token) \in Seq(S) /\ Len(Append(s, token)) = Len(s) + 1 /\ Len(s) \in Nat
            BY <2>3
      <4>2. Len(Append(s, token)) <= 2 /\ Len(s) <= 2
            BY <3>2, <4>1
      <4>3. ChainOf(Append(s, token)) = << >> /\ ChainOf(s) = << >>
            BY <2>3, <4>1, <4>2, ChainOfShort
      <4> QED BY <2>2, <2>4, <3>2, <4>3 DEF FeedWord
    <3> QED BY <3>1, <3>2
  <2> QED BY <2>2, <2>5, <2>6
<1>6. BuilderFed'
      BY <1>2, <1>5 DEF BuilderFed
<1>7. ASSUME NEW k \in DOMAIN chains, NEW p \in 1 .. Paths, chains[k].path = p
      PROVE  chains[k].chain = Build(ChainOf(Fed(p)'))
  <2>1. p # path
        BY <1>1, <1>7, ChainListed, BoundsAssumption DEF ChainsOK, LoadingOK
  <2> QED BY <1>1, <1>3, <1>7, <2>1 DEF ChainsFed
<1>8. ChainsFed'
      BY <1>2, <1>7 DEF ChainsFed
<1>9. PathsFed'
  <2>1. \A p \in 1 .. Paths : p < path => Fed(p)' = Fed(p)
        BY <1>2, <1>3
  <2> QED BY <1>1, <1>2, <2>1 DEF PathsFed
<1> QED BY <1>4, <1>6, <1>8, <1>9 DEF FedOK

\* The end of a file, and a file that is passed over.
LEMMA FileEndFedOK ==
  ASSUME StartUpInv, FedOK, FinishFile \/ SkipPath
  PROVE  FedOK'
<1>1. Sound /\ LoadingOK /\ ChainsOK /\ FilesFed /\ BuilderFed /\ ChainsFed /\ PathsFed
      BY DEF StartUpInv, FedOK
<1>2. path' = path + 1 /\ path \in 1 .. Paths /\ UNCHANGED <<interner, words>>
      BY <1>1, BoundsAssumption DEF FinishFile, SkipPath, LoadingOK
<1>3. \A p : Fed(p)' = Fed(p) /\ Recorded(p)' = Recorded(p)
      BY <1>2, FedUnchanged
<1>4. PICK here \in 1 .. Paths : here = path
      BY <1>2
<1>5. builder = ChainOf(Fed(here))
      BY <1>1, <1>4 DEF BuilderFed
<1>6. FilesFed'
      BY <1>1, <1>2, <1>3 DEF FilesFed
<1>7. ASSUME NEW p \in 1 .. Paths, p = path'
      PROVE  builder' = ChainOf(Fed(p)) /\ window' = LastTwo(Fed(p))
  <2>1. words[p] = <<>>
        BY <1>1, <1>2, <1>7 DEF FilesFed
  <2>2. ChainOf(Fed(p)) = << >> /\ LastTwo(Fed(p)) = <<>>
        BY <2>1, NothingFed
  <2>3. CASE FinishFile
        BY <2>2, <2>3 DEF FinishFile
  <2>4. CASE SkipPath
    <3>1. words[here] = <<>> /\ window = LastTwo(Fed(here)) /\ window' = window /\ builder' = builder
          BY <1>1, <1>4, <2>4 DEF SkipPath, BuilderFed
    <3>2. ChainOf(Fed(here)) = << >> /\ LastTwo(Fed(here)) = <<>>
          BY <3>1, NothingFed
    <3> QED BY <1>5, <2>2, <3>1, <3>2
  <2> QED BY <2>3, <2>4
<1>8. BuilderFed'
      BY <1>3, <1>7 DEF BuilderFed
<1> DEFINE built == Build(ChainOf(Fed(here)))
           entry == [path |-> here, chain |-> built]
           fed   == {p \in 1 .. Paths : p < path /\ DOMAIN Build(ChainOf(Fed(p))) # {}}
           fed2  == {p \in 1 .. Paths : p < path' /\ DOMAIN Build(ChainOf(Fed(p))) # {}}
<1>9. fed2 = fed \cup (IF DOMAIN built = {} THEN {} ELSE {here})
  <2>1. \A p \in 1 .. Paths : p < path' <=> p < path \/ p = here
        BY <1>2, <1>4, BoundsAssumption
  <2>2. ~ (here < path)
        BY <1>2, <1>4
  <2> QED BY <2>1, <2>2
<1>10. \/ chains' = chains /\ DOMAIN built = {}
       \/ chains' = Append(chains, entry) /\ DOMAIN built # {}
  <2>1. CASE FinishFile
        BY <1>4, <1>5, <2>1 DEF FinishFile
  <2>2. CASE SkipPath
    <3>1. words[here] = <<>> /\ chains' = chains
          BY <1>4, <2>2 DEF SkipPath
    <3> QED BY <3>1, NothingFed
  <2> QED BY <2>1, <2>2
<1>11. chains \in Seq(GoodChains)
       BY <1>1 DEF ChainsOK
<1> HIDE DEF built, fed, fed2
<1>12. ASSUME DOMAIN built # {}, chains' = Append(chains, entry)
       PROVE  /\ DOMAIN chains' = DOMAIN chains \cup {Len(chains) + 1}
              /\ \A k \in DOMAIN chains : chains'[k] = chains[k]
              /\ chains'[Len(chains) + 1] = entry
  <2>1. entry \in [path : 1 .. Paths, chain : {built}]
        OBVIOUS
  <2>2. PICK S : entry \in S /\ chains \in Seq(S)
    <3>1. GoodChains \subseteq GoodChains \cup {entry}
          OBVIOUS
    <3>2. chains \in Seq(GoodChains \cup {entry})
          BY <1>11, <3>1
    <3> QED BY <3>2
  <2>3. /\ Len(Append(chains, entry)) = Len(chains) + 1 /\ Len(chains) \in Nat
        /\ Append(chains, entry) \in Seq(S)
        /\ Append(chains, entry)[Len(chains) + 1] = entry
        /\ \A i \in 1 .. Len(chains) : Append(chains, entry)[i] = chains[i]
        BY <2>2, Appended
  <2> HIDE DEF entry
  <2> QED BY <1>11, <1>12, <2>3
<1>13. ASSUME NEW k \in DOMAIN chains', NEW p \in 1 .. Paths, chains'[k].path = p
       PROVE  chains'[k].chain = Build(ChainOf(Fed(p)))
  <2>1. CASE k \in DOMAIN chains /\ chains'[k] = chains[k]
        BY <1>1, <1>13, <2>1 DEF ChainsFed
  <2>2. CASE chains'[k] = entry
        BY <1>13, <2>2 DEF built
  <2> QED BY <1>10, <1>12, <2>1, <2>2
<1>14. ChainsFed'
       BY <1>3, <1>13 DEF ChainsFed
<1>15. {chains'[k].path : k \in DOMAIN chains'} = fed2
  <2>1. {chains[k].path : k \in DOMAIN chains} = fed
        BY <1>1 DEF PathsFed, fed
  <2>2. CASE chains' = chains /\ DOMAIN built = {}
        BY <1>9, <2>1, <2>2
  <2>3. CASE chains' = Append(chains, entry) /\ DOMAIN built # {}
    <3>1. {chains'[k].path : k \in DOMAIN chains'}
            = {chains[k].path : k \in DOMAIN chains} \cup {here}
          BY <1>12, <2>3
    <3> QED BY <1>9, <2>1, <2>3, <3>1
  <2> QED BY <1>10, <2>2, <2>3
<1>16. PathsFed'
       BY <1>3, <1>15 DEF PathsFed, fed2
<1> QED BY <1>6, <1>8, <1>14, <1>16 DEF FedOK

\* What is no part of reading a file leaves what was fed.
LEMMA FedKept ==
  ASSUME FedOK, UNCHANGED <<interner, path, window, builder, chains, words>>
  PROVE  FedOK'
<1>1. \A p : Fed(p)' = Fed(p) /\ Recorded(p)' = Recorded(p)
      BY FedUnchanged
<1> QED BY <1>1 DEF FedOK, FilesFed, BuilderFed, ChainsFed, PathsFed

\* The chains are at any time those of the texts.
LEMMA FedOKNext == StartUpInv /\ FedOK /\ [Next]_vars => FedOK'
<1> SUFFICES ASSUME StartUpInv, FedOK, [Next]_vars PROVE FedOK'
    OBVIOUS
<1>1. CASE ReadConfig \/ InputsRead \/ ReadTemplates \/ LoadPayloads
  <2>1. UNCHANGED <<interner, path, window, builder, chains, words>>
        BY <1>1 DEF ReadConfig, InputsRead, ReadTemplates, LoadPayloads
  <2> QED BY <2>1, FedKept
<1>2. CASE StartWalk \/ TakeToken \/ EndWalk
  <2>1. UNCHANGED <<interner, path, window, builder, chains, words>>
        BY <1>2 DEF StartWalk, TakeToken, EndWalk, loading
  <2> QED BY <2>1, FedKept
<1>3. CASE UNCHANGED vars
  <2>1. UNCHANGED <<interner, path, window, builder, chains, words>>
        BY <1>3 DEF vars, loading
  <2> QED BY <2>1, FedKept
<1>4. CASE FinishFile \/ SkipPath
      BY <1>4, FileEndFedOK
<1>5. CASE \E text \in Texts : FeedWord(text)
      BY <1>5, FeedWordFedOK
<1> QED BY <1>1, <1>2, <1>3, <1>4, <1>5 DEF Next

\* What the chain has counted is what it was fed, at every step.
LEMMA FedInvariant == Spec => [](StartUpInv /\ FedOK)
<1>1. Init => StartUpInv /\ FedOK
      BY StartUpInvInit, FedOKInit
<1>2. StartUpInv /\ FedOK /\ [Next]_vars => (StartUpInv /\ FedOK)'
      BY StartUpInvNext, FedOKNext
<1> QED BY <1>1, <1>2, PTL DEF Spec

-----------------------------------------------------------------------------
(***************************************************************************)
(* What follows from it.                                                   *)
(***************************************************************************)

\* What is built of a chain.
LEMMA Built ==
  ASSUME NEW s
  PROVE  LET chain == Build(ChainOf(s))
         IN  /\ DOMAIN chain = {pair \in {PairAt(s, i) : i \in Starts(s)} : Accepted(CountsIn(s, pair))}
             /\ \A pair \in DOMAIN chain : chain[pair] = CountsIn(s, pair)
BY DEF Build, Restrict, ChainOf

\* The words of a file, counted, and its tokens.
LEMMA FileCounts ==
  ASSUME Sound, LoadingOK, NEW p \in 1 .. Paths, Recorded(p), NEW pair \in Given \X Given
  PROVE  SameCounts(CountsIn(Fed(p), pair),
                    CountsAfter(words[p], Lookup(pair[1]), Lookup(pair[2])), Reader)
<1>1. PICK s : s = Fed(p)
      OBVIOUS
<1>2. PICK text : text = words[p]
      OBVIOUS
<1>3. PICK f : f = Reader
      OBVIOUS
<1>4. /\ text \in Seq(Texts) /\ s \in Seq(Given) /\ Len(text) = Len(s)
      /\ \A i \in 1 .. Len(s) : text[i] = f[s[i]]
      BY <1>1, <1>2, <1>3, FedReads
<1>5. f \in [Given -> Texts] /\ \A x, y \in Given : f[x] = f[y] => x = y
      BY <1>3, ReaderInjective
<1>6. PICK a \in Given, b \in Given : pair = <<a, b>>
      OBVIOUS
<1>7. SameCounts(CountsIn(s, <<a, b>>), CountsAfter(text, f[a], f[b]), f)
      BY <1>4, <1>5, CountsAgree
<1>8. f[a] = Lookup(pair[1]) /\ f[b] = Lookup(pair[2])
      BY <1>3, <1>6 DEF Reader
<1> QED BY <1>1, <1>2, <1>3, <1>6, <1>7, <1>8

\* Two tokens in a row are those of two words in a row.
LEMMA FilePairs ==
  ASSUME Sound, LoadingOK, NEW p \in 1 .. Paths, Recorded(p), NEW i \in Starts(Fed(p))
  PROVE  LET pair == PairAt(Fed(p), i)
         IN  /\ pair \in Given \X Given
             /\ pair = <<TokenOf(words[p][i]), TokenOf(words[p][i + 1])>>
             /\ Lookup(pair[1]) = words[p][i] /\ Lookup(pair[2]) = words[p][i + 1]
             /\ Fed(p)[i + 2] \in Given /\ Lookup(Fed(p)[i + 2]) = words[p][i + 2]
             /\ i \in 1 .. Len(words[p]) - 2
<1>1. PICK s : s = Fed(p)
      OBVIOUS
<1>2. /\ words[p] \in Seq(Texts) /\ s \in Seq(Given) /\ Len(s) = Len(words[p])
      /\ \A j \in 1 .. Len(s) : words[p][j] = Reader[s[j]]
      BY <1>1, FedReads
<1>3. i \in 1 .. Len(s) - 2 /\ Len(s) \in Nat
      BY <1>1, <1>2 DEF Starts
<1>4. i \in 1 .. Len(s) /\ i + 1 \in 1 .. Len(s) /\ i + 2 \in 1 .. Len(s)
      BY <1>3
<1>5. ASSUME NEW j \in 1 .. Len(s) PROVE s[j] \in Given /\ Lookup(s[j]) = words[p][j]
  <2>1. s[j] \in Given
        BY <1>2
  <2>2. Reader[s[j]] = Lookup(s[j])
        BY <2>1 DEF Reader
  <2> QED BY <1>2, <2>1, <2>2
<1>6. \A j \in 1 .. Len(s) : s[j] = TokenOf(words[p][j])
      BY <1>1, <1>2 DEF Fed
<1> QED BY <1>1, <1>2, <1>3, <1>4, <1>5, <1>6 DEF PairAt

\* A chain says of its own file how often each word follows two others, and is
\* silent on exactly the pairs whose counts the sampler refuses.
THEOREM ChainsAlwaysFollowText == Spec => []ChainsFollowText
<1>1. StartUpInv /\ FedOK => ChainsFollowText
  <2> SUFFICES ASSUME StartUpInv, FedOK, NEW k \in DOMAIN chains
               PROVE  LET chain == chains[k].chain
                          text  == words[chains[k].path]
                      IN  /\ \A pair \in DOMAIN chain :
                               LET counts == CountsAfter(text, Lookup(pair[1]), Lookup(pair[2]))
                               IN  /\ {Lookup(token) : token \in DOMAIN chain[pair]} = DOMAIN counts
                                   /\ \A token \in DOMAIN chain[pair] : chain[pair][token] = counts[Lookup(token)]
                          /\ \A i \in 1 .. Len(text) - 2 :
                               <<TokenOf(text[i]), TokenOf(text[i + 1])>> \in DOMAIN chain
                                 <=> Accepted(CountsAfter(text, text[i], text[i + 1]))
      BY DEF ChainsFollowText
  <2>1. Sound /\ LoadingOK /\ ChainsOK /\ FilesFed /\ ChainsFed
        BY DEF StartUpInv, FedOK
  <2>2. PICK p \in 1 .. Paths : p = chains[k].path
    <3>1. chains[k] \in GoodChains
          BY <2>1 DEF ChainsOK
    <3> QED BY <3>1 DEF GoodChains
  <2>3. PICK chain : chain = chains[k].chain
        OBVIOUS
  <2>4. PICK s : s = Fed(p)
        OBVIOUS
  <2>5. Recorded(p) /\ chain = Build(ChainOf(s))
        BY <2>1, <2>2, <2>3, <2>4 DEF FilesFed, ChainsFed
  <2>6. /\ DOMAIN chain = {pair \in {PairAt(s, i) : i \in Starts(s)} : Accepted(CountsIn(s, pair))}
        /\ \A pair \in DOMAIN chain : chain[pair] = CountsIn(s, pair)
        BY <2>5, Built
  <2>7. ASSUME NEW pair \in DOMAIN chain
        PROVE  LET counts == CountsAfter(words[p], Lookup(pair[1]), Lookup(pair[2]))
               IN  /\ {Lookup(token) : token \in DOMAIN chain[pair]} = DOMAIN counts
                   /\ \A token \in DOMAIN chain[pair] : chain[pair][token] = counts[Lookup(token)]
    <3>1. chain[pair] = CountsIn(Fed(p), pair)
          BY <2>4, <2>6
    <3>2. PICK i \in Starts(Fed(p)) : pair = PairAt(Fed(p), i)
          BY <2>4, <2>6
    <3>3. pair \in Given \X Given
          BY <2>1, <2>5, <3>2, FilePairs
    <3>4. SameCounts(chain[pair], CountsAfter(words[p], Lookup(pair[1]), Lookup(pair[2])), Reader)
          BY <2>1, <2>5, <3>1, <3>3, FileCounts
    <3>5. DOMAIN Reader = Given /\ \A token \in Given : Reader[token] = Lookup(token)
          BY DEF Reader
    <3> QED BY <3>4, <3>5 DEF SameCounts
  <2>8. ASSUME NEW i \in 1 .. Len(words[p]) - 2
        PROVE  <<TokenOf(words[p][i]), TokenOf(words[p][i + 1])>> \in DOMAIN chain
                 <=> Accepted(CountsAfter(words[p], words[p][i], words[p][i + 1]))
    <3>1. Len(words[p]) = Len(Fed(p))
          BY <2>1, <2>5, FedReads
    <3>2. i \in Starts(Fed(p))
          BY <3>1 DEF Starts
    <3>3. PICK pair \in Given \X Given : 
             /\ pair = PairAt(Fed(p), i)
             /\ pair = <<TokenOf(words[p][i]), TokenOf(words[p][i + 1])>>
             /\ Lookup(pair[1]) = words[p][i] /\ Lookup(pair[2]) = words[p][i + 1]
          BY <2>1, <2>5, <3>2, FilePairs
    <3>4. Accepted(CountsIn(s, pair)) <=> Accepted(CountsAfter(words[p], words[p][i], words[p][i + 1]))
          BY <2>1, <2>4, <2>5, <3>3, FileCounts DEF SameCounts
    <3> QED BY <2>4, <2>6, <3>2, <3>3, <3>4
  <2> QED BY <2>2, <2>3, <2>7, <2>8
<1> QED BY <1>1, FedInvariant, PTL

\* A file gets a chain exactly if two of its words in a row have counts that
\* can be sampled.
LEMMA FileHasChain ==
  ASSUME Sound, LoadingOK, NEW p \in 1 .. Paths, Recorded(p)
  PROVE  DOMAIN Build(ChainOf(Fed(p))) # {}
           <=> \E i \in 1 .. Len(words[p]) - 2 :
                 Accepted(CountsAfter(words[p], words[p][i], words[p][i + 1]))
<1>1. Starts(Fed(p)) = 1 .. Len(words[p]) - 2
      BY FedReads DEF Starts
<1>2. ASSUME NEW i \in Starts(Fed(p))
      PROVE  Accepted(CountsIn(Fed(p), PairAt(Fed(p), i)))
               <=> Accepted(CountsAfter(words[p], words[p][i], words[p][i + 1]))
  <2>1. PICK pair \in Given \X Given :
          /\ pair = PairAt(Fed(p), i)
          /\ Lookup(pair[1]) = words[p][i] /\ Lookup(pair[2]) = words[p][i + 1]
        BY FilePairs
  <2> QED BY <2>1, FileCounts DEF SameCounts
<1>3. DOMAIN Build(ChainOf(Fed(p))) # {}
        <=> \E i \in Starts(Fed(p)) : Accepted(CountsIn(Fed(p), PairAt(Fed(p), i)))
      BY Built
<1> QED BY <1>1, <1>2, <1>3

\* Each file with words that can be sampled has its chain and no other has one.
LEMMA ChainsOfGoodFiles ==
  ASSUME StartUpInv, FedOK
  PROVE  {chains[k].path : k \in DOMAIN chains} = GoodFiles
<1> DEFINE Samples(p) == \E i \in 1 .. Len(words[p]) - 2 :
             Accepted(CountsAfter(words[p], words[p][i], words[p][i + 1]))
<1>1. Sound /\ LoadingOK /\ FilesFed /\ PathsFed
      BY DEF StartUpInv, FedOK
<1>2. \A p \in 1 .. Paths : DOMAIN Build(ChainOf(Fed(p))) # {} <=> Samples(p)
      BY <1>1, FileHasChain DEF FilesFed
<1>3. \A p : p \in 1 .. path - 1 <=> p \in 1 .. Paths /\ p < path
      BY <1>1, BoundsAssumption DEF LoadingOK
<1>4. GoodFiles = {p \in 1 .. path - 1 : Samples(p)}
      BY DEF GoodFiles
<1> HIDE DEF Samples
<1> QED BY <1>1, <1>2, <1>3, <1>4 DEF PathsFed

\* Only InputsRead leaves the inputs.
LEMMA LeavesInputs ==
  ASSUME [Next]_vars, phase = "inputs", phase' # "inputs"
  PROVE  InputsRead
<1>1. ASSUME NEW text \in Texts, FeedWord(text) PROVE FALSE
      BY <1>1 DEF FeedWord
<1>2. CASE ReadConfig \/ SkipPath \/ FinishFile
      BY <1>2 DEF ReadConfig, SkipPath, FinishFile
<1>3. CASE ReadTemplates \/ LoadPayloads
      BY <1>3 DEF ReadTemplates, LoadPayloads
<1>4. CASE StartWalk \/ TakeToken \/ EndWalk
      BY <1>4 DEF StartWalk, TakeToken, EndWalk, loading
<1>5. CASE UNCHANGED vars
      BY <1>5 DEF vars, loading
<1> QED BY <1>1, <1>2, <1>3, <1>4, <1>5 DEF Next

\* Each good file has its chain, and the process leaves its inputs when all
\* paths were tried, for the templates exactly if there is a good file.
THEOREM GoodFilesAlwaysServe == Spec => GoodFilesServe
<1>1. StartUpInv /\ FedOK => {chains[k].path : k \in DOMAIN chains} = GoodFiles
      BY ChainsOfGoodFiles
<1>2. ASSUME StartUpInv, FedOK, [Next]_vars, phase = "inputs", phase' # "inputs"
      PROVE  path > Paths /\ phase' = IF GoodFiles = {} THEN "exited" ELSE "templates"
  <2>1. path > Paths /\ phase' = IF chains = <<>> THEN "exited" ELSE "templates"
        BY <1>2, LeavesInputs DEF InputsRead
  <2>2. chains = <<>> <=> DOMAIN chains = {}
        BY <1>2 DEF StartUpInv, ChainsOK
  <2>3. DOMAIN chains = {} <=> GoodFiles = {}
        BY <1>2, ChainsOfGoodFiles
  <2> QED BY <2>1, <2>2, <2>3
<1>3. StartUpInv /\ FedOK /\ [Next]_vars =>
        [phase = "inputs" /\ phase' # "inputs" =>
           /\ path > Paths
           /\ phase' = IF GoodFiles = {} THEN "exited" ELSE "templates"]_vars
      BY <1>2
<1> QED BY <1>1, <1>3, FedInvariant, PTL DEF Spec, GoodFilesServe

-----------------------------------------------------------------------------
(***************************************************************************)
(* The walk.                                                               *)
(***************************************************************************)
Seen(text, a, b, c) ==
  \E j \in Starts(text) : text[j] = a /\ text[j + 1] = b /\ text[j + 2] = c

\* What a walk has yielded ends with the texts of its pair, and every three
\* texts of it are three words in a row of its file.
TrailOK == walk # NoWalk =>
  /\ phase = "serving"
  /\ Len(trail) >= 2
  /\ trail[Len(trail) - 1] = Lookup(walk.prev[1]) /\ trail[Len(trail)] = Lookup(walk.prev[2])
  /\ \A i \in 1 .. Len(trail) - 2 :
       Seen(words[chains[walk.chain].path], trail[i], trail[i + 1], trail[i + 2])

\* What may follow a pair follows it in the file.
LEMMA SuccessorSeen ==
  ASSUME StartUpInv, FedOK, NEW k \in DOMAIN chains,
         NEW a, NEW b, NEW token \in Successors(chains[k].chain, <<a, b>>)
  PROVE  Seen(words[chains[k].path], Lookup(a), Lookup(b), Lookup(token))
<1> DEFINE pair == <<a, b>>
<1>1. Sound /\ LoadingOK /\ ChainsOK /\ FilesFed /\ ChainsFed
      BY DEF StartUpInv, FedOK
<1>2. PICK p \in 1 .. Paths : p = chains[k].path
  <2>1. chains[k] \in GoodChains
        BY <1>1 DEF ChainsOK
  <2> QED BY <2>1 DEF GoodChains
<1>3. Recorded(p) /\ chains[k].chain = Build(ChainOf(Fed(p)))
      BY <1>1, <1>2 DEF FilesFed, ChainsFed
<1>4. pair \in DOMAIN chains[k].chain /\ token \in DOMAIN chains[k].chain[pair]
      BY DEF Successors
<1>5. token \in Nexts(Fed(p), pair)
  <2>1. chains[k].chain[pair] = CountsIn(Fed(p), pair)
        BY <1>3, <1>4, Built
  <2> QED BY <1>4, <2>1 DEF CountsIn
<1>6. PICK i \in Starts(Fed(p)) : PairAt(Fed(p), i) = pair /\ Fed(p)[i + 2] = token
      BY <1>5 DEF Nexts
<1>7. /\ Lookup(a) = words[p][i] /\ Lookup(b) = words[p][i + 1]
      /\ Lookup(token) = words[p][i + 2] /\ i \in 1 .. Len(words[p]) - 2
      BY <1>1, <1>3, <1>6, FilePairs
<1> QED BY <1>2, <1>7 DEF Seen, Starts

\* The steps of a walk keep to the file, and no other step takes part in one.
LEMMA TrailOKNext ==
  (StartUpInv /\ FedOK) /\ TrailOK /\ [Next]_vars => TrailOK'
<1> SUFFICES ASSUME StartUpInv, FedOK, TrailOK, [Next]_vars PROVE TrailOK'
    OBVIOUS
<1>1. Sound /\ LoadingOK /\ ChainsOK /\ WalkOK
      BY DEF StartUpInv
<1>2. ASSUME UNCHANGED interner PROVE \A token : Lookup(token)' = Lookup(token)
      BY <1>2 DEF interner, Lookup, Read, Live, AllStrings
<1>3. CASE ReadConfig \/ SkipPath \/ FinishFile \/ InputsRead \/ ReadTemplates \/ LoadPayloads
             \/ \E text \in Texts : FeedWord(text)
  <2>1. phase # "serving" /\ walk' = walk
        BY <1>3 DEF ReadConfig, SkipPath, FinishFile, InputsRead, ReadTemplates, LoadPayloads, FeedWord
  <2> QED BY <2>1 DEF TrailOK
<1>4. CASE UNCHANGED vars
  <2>1. UNCHANGED <<interner, phase, chains, words, walk, trail>>
        BY <1>4 DEF vars, loading
  <2> QED BY <1>2, <2>1 DEF TrailOK
<1>5. CASE EndWalk
      BY <1>5 DEF EndWalk, TrailOK
<1>6. CASE StartWalk
  <2>1. UNCHANGED <<interner, phase>> /\ phase = "serving"
        BY <1>6 DEF StartWalk, loading
  <2>2. PICK k \in DOMAIN chains : \E pair \in DOMAIN chains[k].chain :
          /\ walk' = [chain |-> k, prev |-> pair]
          /\ trail' = <<Lookup(pair[1]), Lookup(pair[2])>>
        BY <1>6 DEF StartWalk
  <2>3. PICK pair \in DOMAIN chains[k].chain :
          /\ walk' = [chain |-> k, prev |-> pair]
          /\ trail' = <<Lookup(pair[1]), Lookup(pair[2])>>
        BY <2>2
  <2>4. Len(trail') = 2 /\ trail'[1] = Lookup(pair[1]) /\ trail'[2] = Lookup(pair[2])
        BY <2>3
  <2>5. walk'.prev = pair /\ \A token : Lookup(token)' = Lookup(token)
        BY <1>2, <2>1, <2>3
  <2>6. PICK a, b : a = pair[1] /\ b = pair[2] /\ walk'.prev[1] = a /\ walk'.prev[2] = b
        BY <2>5
  <2>7. trail'[1] = Lookup(a)' /\ trail'[2] = Lookup(b)'
        BY <2>4, <2>5, <2>6
  <2> QED BY <2>1, <2>4, <2>6, <2>7 DEF TrailOK
<1>7. CASE TakeToken
  <2>1. UNCHANGED <<interner, phase, chains, words>> /\ walk # NoWalk
        BY <1>7 DEF TakeToken, loading
  <2>2. PICK token \in Successors(chains[walk.chain].chain, walk.prev) :
          /\ walk' = [walk EXCEPT !.prev = <<@[2], token>>]
          /\ trail' = Append(trail, Lookup(token))
        BY <1>7 DEF TakeToken
  <2>3. walk \in [chain : DOMAIN chains, prev : Given \X Given] /\ trail \in Seq(Texts)
        BY <1>1, <2>1 DEF WalkOK
  <2>4. PICK k \in DOMAIN chains : k = walk.chain
        BY <2>3
  <2>5. PICK a \in Given, b \in Given : walk.prev = <<a, b>>
        BY <2>3
  <2>6. walk'.chain = k /\ walk'.prev = <<b, token>>
        BY <2>2, <2>3, <2>4, <2>5
  <2>7. PICK text : text = words[chains[k].path] /\ text = words'[chains'[k].path]
        BY <2>1
  <2>8. Seen(text, Lookup(a), Lookup(b), Lookup(token))
    <3>1. token \in Successors(chains[k].chain, <<a, b>>)
          BY <2>2, <2>4, <2>5
    <3> QED BY <2>7, <3>1, SuccessorSeen
  <2>9. PICK new \in Texts : new = Lookup(token)
    <3>1. <<a, b>> \in DOMAIN chains[k].chain /\ token \in Successors(chains[k].chain, <<a, b>>)
          BY <2>2, <2>4, <2>5 DEF Successors
    <3> QED BY <1>1, <3>1, ChainTokens, GivenTokens
  <2> DEFINE n == Len(trail)
  <2>10. /\ n \in Nat /\ n >= 2 /\ trail[n - 1] = Lookup(a) /\ trail[n] = Lookup(b)
         /\ \A i \in 1 .. n - 2 : Seen(text, trail[i], trail[i + 1], trail[i + 2])
         BY <2>1, <2>3, <2>4, <2>5, <2>7 DEF TrailOK
  <2>11. /\ Len(trail') = n + 1 /\ trail'[n + 1] = new
         /\ \A i \in 1 .. n : trail'[i] = trail[i]
         BY <2>2, <2>3, <2>9, Appended
  <2> HIDE DEF n
  <2>12. ASSUME NEW i \in 1 .. n - 1
         PROVE  Seen(text, trail'[i], trail'[i + 1], trail'[i + 2])
    <3>1. CASE i \in 1 .. n - 2
      <4>1. i \in 1 .. n /\ i + 1 \in 1 .. n /\ i + 2 \in 1 .. n
            BY <2>10, <3>1
      <4> QED BY <2>10, <2>11, <3>1, <4>1
    <3>2. CASE i = n - 1
      <4>1. n - 1 \in 1 .. n /\ n \in 1 .. n /\ (n - 1) + 1 = n /\ (n - 1) + 2 = n + 1
            BY <2>10
      <4> QED BY <2>8, <2>9, <2>10, <2>11, <3>2, <4>1
    <3> QED BY <2>10, <3>1, <3>2
  <2>13. trail'[n] = Lookup(b)' /\ trail'[n + 1] = Lookup(token)'
    <3>1. Lookup(b)' = Lookup(b) /\ Lookup(token)' = Lookup(token)
          BY <1>2, <2>1
    <3> QED BY <2>9, <2>10, <2>11, <3>1
  <2>14. phase' = "serving" /\ Len(trail') >= 2 /\ Len(trail') - 1 = n /\ Len(trail') - 2 = n - 1
         BY <2>1, <2>10, <2>11 DEF TrailOK
  <2>15. PICK c : c = walk'.prev[1] /\ c = b
         BY <2>6
  <2>16. PICK d : d = walk'.prev[2] /\ d = token
         BY <2>6
  <2>17. trail'[Len(trail') - 1] = Lookup(c)' /\ trail'[Len(trail')] = Lookup(d)'
         BY <2>11, <2>13, <2>14, <2>15, <2>16
  <2>18. \A i \in 1 .. Len(trail') - 2 :
           Seen(words'[chains'[walk'.chain].path], trail'[i], trail'[i + 1], trail'[i + 2])
         BY <2>6, <2>7, <2>12, <2>14
  <2> QED BY <2>14, <2>15, <2>16, <2>17, <2>18 DEF TrailOK
<1> QED BY <1>3, <1>4, <1>5, <1>6, <1>7 DEF Next

\* Every three words of a page are three words in a row of one file.
THEOREM WalkAlwaysFollowsText == Spec => []WalkFollowsText
<1>1. Init => TrailOK
      BY DEF Init, TrailOK
<1>2. Spec => []TrailOK
      BY <1>1, FedInvariant, TrailOKNext, PTL DEF Spec
<1>3. StartUpInv /\ FedOK /\ TrailOK => WalkFollowsText
  <2> SUFFICES ASSUME StartUpInv, FedOK, TrailOK, walk # NoWalk,
                      NEW i \in 1 .. Len(trail) - 2
               PROVE  Occurrences(words[chains[walk.chain].path], trail[i], trail[i + 1], trail[i + 2]) > 0
      BY DEF WalkFollowsText
  <2>1. PICK text : text = words[chains[walk.chain].path]
        OBVIOUS
  <2>2. text \in Seq(Texts)
    <3>1. chains[walk.chain] \in GoodChains
          BY DEF StartUpInv, ChainsOK, WalkOK
    <3> QED BY <2>1, <3>1 DEF StartUpInv, LoadingOK, GoodChains
  <2>3. PICK j \in Starts(text) :
          text[j] = trail[i] /\ text[j + 1] = trail[i + 1] /\ text[j + 2] = trail[i + 2]
        BY <2>1 DEF TrailOK, Seen
  <2> DEFINE all == {m \in 1 .. Len(text) - 2 :
                       SubSeq(text, m, m + 2) = <<trail[i], trail[i + 1], trail[i + 2]>>}
  <2>4. SubSeq(text, j, j + 2) = <<text[j], text[j + 1], text[j + 2]>>
        BY <2>2, Slices
  <2>5. j \in all
        BY <2>3, <2>4 DEF Starts
  <2>6. IsFiniteSet(all)
    <3>1. Len(text) - 2 \in Int
          BY <2>2
    <3>2. IsFiniteSet(1 .. Len(text) - 2)
          BY <3>1, FS_Interval
    <3> QED BY <3>2, FS_Subset
  <2> HIDE DEF all
  <2>7. Cardinality(all) \in Nat /\ Cardinality(all) # 0
        BY <2>5, <2>6, FS_CardinalityType, FS_EmptySet
  <2>8. Cardinality(all) > 0
        BY <2>7
  <2> QED BY <2>1, <2>8 DEF Occurrences, all
<1> QED BY <1>2, <1>3, FedInvariant, PTL

-----------------------------------------------------------------------------
(***************************************************************************)
(* Payloads.                                                               *)
(***************************************************************************)

\* Every set of naturals but the empty one has a least element.
LEMMA HasLeast ==
  ASSUME NEW N \in SUBSET Nat, N # {}
  PROVE  \E x \in N : \A y \in N : x <= y
<1>1. PICK x \in N : \A y \in N : ~ (<<y, x>> \in OpToRel(<, Nat))
      BY NatLessThanWellFounded, WFMin
<1>2. ASSUME NEW y \in N PROVE x <= y
  <2>1. <<y, x>> \in Nat \X Nat /\ <<y, x>>[1] = y /\ <<y, x>>[2] = x
        OBVIOUS
  <2>2. ~ (y < x)
        BY <1>1, <2>1 DEF OpToRel
  <2> QED BY <2>1, <2>2
<1> QED BY <1>2

\* What holds of 0 and passes from each natural to the next holds of all.
LEMMA Inductive ==
  ASSUME NEW A \in SUBSET Nat, 0 \in A, \A n \in A : n + 1 \in A
  PROVE  A = Nat
<1> SUFFICES ASSUME Nat \ A # {} PROVE FALSE
    OBVIOUS
<1>1. PICK x \in Nat \ A : \A y \in Nat \ A : x <= y
      BY HasLeast
<1>2. x - 1 \in Nat /\ x - 1 < x
      BY <1>1
<1>3. x - 1 \in A
      BY <1>1, <1>2
<1> QED BY <1>1, <1>2, <1>3

\* What has been loaded after each file of a list.
LoadedBy(list, f) ==
  /\ DOMAIN f = 0 .. Len(list) /\ f[0] = << >>
  /\ \A n \in 1 .. Len(list) : f[n] = LoadPayload(f[n - 1], list[n])

\* That is what PayloadsOf computes: a function of that kind exists, since one
\* for the first n files extends to one for the first n + 1.
LEMMA PayloadsAreLoaded ==
  ASSUME NEW list, Len(list) \in Nat
  PROVE  \E f : LoadedBy(list, f) /\ PayloadsOf(list) = f[Len(list)]
<1> DEFINE F(m, g) == [n \in 0 .. m |-> IF n = 0 THEN << >>
                                        ELSE LoadPayload(g[n - 1], list[n])]
           A == {m \in Nat : \E g : g = F(m, g)}
           c == CHOOSE g : g = F(Len(list), g)
<1>1. 0 \in A
  <2>1. [n \in 0 .. 0 |-> << >>] = F(0, [n \in 0 .. 0 |-> << >>])
        OBVIOUS
  <2> QED BY <2>1
<1>2. ASSUME NEW m \in A PROVE m + 1 \in A
  <2>1. PICK g : g = F(m, g)
        OBVIOUS
  <2> DEFINE h == [n \in 0 .. m + 1 |-> IF n <= m THEN g[n] ELSE LoadPayload(g[m], list[n])]
  <2>2. m \in Nat
        OBVIOUS
  <2>3. ASSUME NEW n \in 0 .. m + 1
        PROVE  h[n] = IF n = 0 THEN << >> ELSE LoadPayload(h[n - 1], list[n])
    <3>1. CASE n = 0
      <4>1. g[0] = << >>
            BY <2>1, <2>2
      <4> QED BY <2>2, <3>1, <4>1
    <3>2. CASE n \in 1 .. m
      <4>1. h[n] = g[n] /\ h[n - 1] = g[n - 1]
            BY <2>2, <3>2
      <4>2. n \in 0 .. m /\ n # 0
            BY <2>2, <3>2
      <4>3. g[n] = LoadPayload(g[n - 1], list[n])
            BY <2>1, <4>2
      <4> QED BY <4>1, <4>2, <4>3
    <3>3. CASE n = m + 1
      <4>1. h[n] = LoadPayload(g[m], list[n]) /\ h[n - 1] = g[m]
            BY <2>2, <3>3
      <4> QED BY <2>2, <3>3, <4>1
    <3> QED BY <2>2, <3>1, <3>2, <3>3
  <2>4. h = F(m + 1, h)
        BY <2>3
  <2> HIDE DEF h, F
  <2> QED BY <2>2, <2>4
<1>3. Len(list) \in A
  <2>1. A \in SUBSET Nat
        OBVIOUS
  <2> HIDE DEF A
  <2>2. A = Nat
        BY <1>1, <1>2, <2>1, Inductive
  <2> QED BY <2>2
<1>4. c = F(Len(list), c)
  <2> HIDE DEF F
  <2> QED BY <1>3
<1>5. PayloadsOf(list) = c[Len(list)]
      BY DEF PayloadsOf
<1> HIDE DEF c
<1>6. LoadedBy(list, c)
  <2>1. DOMAIN c = 0 .. Len(list) /\ c[0] = << >>
        BY <1>4
  <2>2. ASSUME NEW n \in 1 .. Len(list) PROVE c[n] = LoadPayload(c[n - 1], list[n])
    <3>1. n \in 0 .. Len(list) /\ n # 0
          OBVIOUS
    <3> QED BY <1>4, <3>1
  <2> QED BY <2>1, <2>2 DEF LoadedBy
<1> QED BY <1>5, <1>6

\* What some payloads are of the first n files of a list: all or none.
KnownBy(list, n) == {i \in 1 .. n : list[i].kind # "other"}
Whole(list, n, loaded) ==
  /\ \A i \in KnownBy(list, n) : list[i].readable
  /\ DOMAIN loaded = {list[i].kind : i \in KnownBy(list, n)}
  /\ \A i \in KnownBy(list, n) :
       \/ loaded[list[i].kind] = list[i].name
       \/ \E j \in KnownBy(list, n) : j > i /\ list[j].kind = list[i].kind

\* One more file keeps them whole.
LEMMA LoadsWhole ==
  ASSUME NEW list, NEW n \in Nat, NEW loaded, Whole(list, n, loaded),
         LoadPayload(loaded, list[n + 1]) # NoPayloads, loaded # NoPayloads
  PROVE  Whole(list, n + 1, LoadPayload(loaded, list[n + 1]))
<1> DEFINE file == list[n + 1]
           known == KnownBy(list, n)
           next == LoadPayload(loaded, list[n + 1])
<1>1. 1 .. n + 1 = (1 .. n) \cup {n + 1}
      OBVIOUS
<1>2. CASE file.kind = "other"
  <2>1. KnownBy(list, n + 1) = known
        BY <1>1, <1>2 DEF KnownBy
  <2>2. next = loaded
        BY <1>2 DEF LoadPayload
  <2> QED BY <2>1, <2>2 DEF Whole
<1>3. CASE file.kind # "other"
  <2>1. KnownBy(list, n + 1) = known \cup {n + 1}
        BY <1>1, <1>3 DEF KnownBy
  <2>2. file.readable /\ next = WithPayload(loaded, file)
        BY <1>3 DEF LoadPayload
  <2> HIDE DEF next
  <2>3. /\ DOMAIN next = DOMAIN loaded \cup {file.kind} /\ next[file.kind] = file.name
        /\ \A kind \in DOMAIN loaded : kind # file.kind => next[kind] = loaded[kind]
        BY <2>2 DEF WithPayload
  <2>4. \A i \in known : i \in 1 .. n /\ n + 1 > i
        BY DEF KnownBy
  <2>5. \A i \in KnownBy(list, n + 1) : list[i].readable
        BY <2>1, <2>2 DEF Whole
  <2>6. DOMAIN next = {list[i].kind : i \in KnownBy(list, n + 1)}
        BY <2>1, <2>3 DEF Whole
  <2>7. ASSUME NEW i \in KnownBy(list, n + 1)
        PROVE  \/ next[list[i].kind] = list[i].name
               \/ \E j \in KnownBy(list, n + 1) : j > i /\ list[j].kind = list[i].kind
    <3>1. CASE i = n + 1
          BY <2>3, <3>1
    <3>2. CASE i \in known /\ list[i].kind = file.kind
          BY <2>1, <2>4, <3>2
    <3>3. CASE i \in known /\ list[i].kind # file.kind
      <4>1. list[i].kind \in DOMAIN loaded
            BY <3>3 DEF Whole
      <4>2. next[list[i].kind] = loaded[list[i].kind]
            BY <2>3, <3>3, <4>1
      <4> QED BY <2>1, <3>3, <4>2 DEF Whole
    <3> QED BY <2>1, <3>1, <3>2, <3>3
  <2> QED BY <2>5, <2>6, <2>7 DEF Whole, next
<1> QED BY <1>2, <1>3

\* The payloads of a list are those of all its files, unless there are none.
LEMMA PayloadsWhole ==
  ASSUME NEW list, Len(list) \in Nat, PayloadsOf(list) # NoPayloads
  PROVE  Whole(list, Len(list), PayloadsOf(list))
<1>1. PICK f : LoadedBy(list, f) /\ PayloadsOf(list) = f[Len(list)]
      BY PayloadsAreLoaded
<1> DEFINE A == {n \in Nat : n \in 0 .. Len(list) /\ f[n] # NoPayloads => Whole(list, n, f[n])}
<1>2. 0 \in A
  <2>1. f[0] = << >> /\ KnownBy(list, 0) = {}
        BY <1>1 DEF LoadedBy, KnownBy
  <2> QED BY <2>1 DEF Whole
<1>3. ASSUME NEW n \in A PROVE n + 1 \in A
  <2> SUFFICES ASSUME n + 1 \in 0 .. Len(list), f[n + 1] # NoPayloads
               PROVE  Whole(list, n + 1, f[n + 1])
      OBVIOUS
  <2>1. n \in Nat /\ n \in 0 .. Len(list) /\ n + 1 \in 1 .. Len(list) /\ n + 1 - 1 = n
        OBVIOUS
  <2>2. f[n + 1] = LoadPayload(f[n], list[n + 1])
        BY <1>1, <2>1 DEF LoadedBy
  <2>3. f[n] # NoPayloads
        BY <2>2 DEF LoadPayload
  <2>4. Whole(list, n, f[n])
        BY <2>1, <2>3
  <2> QED BY <2>1, <2>2, <2>3, <2>4, LoadsWhole
<1>4. A \in SUBSET Nat
      OBVIOUS
<1> HIDE DEF A
<1>5. Len(list) \in A
      BY <1>2, <1>3, <1>4, Inductive
<1> QED BY <1>1, <1>5 DEF A

\* What is served was loaded from what is listed.
ServedAsListed ==
  /\ phase = "serving" => \/ payloads = NoPayloads
                          \/ listed \in Seq(PayloadFiles) /\ payloads = PayloadsOf(listed)

\* Every step keeps that.
LEMMA ServedNext == ServedAsListed /\ [Next]_vars => ServedAsListed'
<1> SUFFICES ASSUME ServedAsListed, [Next]_vars PROVE ServedAsListed'
    OBVIOUS
<1>1. CASE LoadPayloads
      BY <1>1, PayloadsAssumption DEF LoadPayloads, ServedAsListed
<1>2. CASE ReadConfig \/ InputsRead \/ ReadTemplates
      BY <1>2 DEF ReadConfig, InputsRead, ReadTemplates, ServedAsListed
<1>3. CASE SkipPath \/ FinishFile \/ \E text \in Texts : FeedWord(text)
      BY <1>3 DEF SkipPath, FinishFile, FeedWord, ServedAsListed
<1>4. CASE StartWalk \/ TakeToken \/ EndWalk
      BY <1>4 DEF StartWalk, TakeToken, EndWalk, loading, ServedAsListed
<1>5. CASE UNCHANGED vars
      BY <1>5 DEF vars, loading, ServedAsListed
<1> QED BY <1>1, <1>2, <1>3, <1>4, <1>5 DEF Next

\* A process that serves payloads serves, of each kind that was listed, the last
\* file, and read every file of a kind: get_spicy_payload loads all or none.
THEOREM PayloadsAreWholeOrNone == Spec => []PayloadsWholeOrNone
<1>1. Init => ServedAsListed
      BY DEF Init, ServedAsListed
<1>2. Spec => []ServedAsListed
      BY <1>1, ServedNext, PTL DEF Spec
<1>3. ServedAsListed => PayloadsWholeOrNone
  <2> SUFFICES ASSUME ServedAsListed, phase = "serving", payloads # NoPayloads
               PROVE  LET known == {i \in DOMAIN listed : listed[i].kind # "other"}
                      IN  /\ \A i \in known : listed[i].readable
                          /\ DOMAIN payloads = {listed[i].kind : i \in known}
                          /\ \A i \in known :
                               \/ payloads[listed[i].kind] = listed[i].name
                               \/ \E j \in known : j > i /\ listed[j].kind = listed[i].kind
      BY DEF PayloadsWholeOrNone
  <2>1. Len(listed) \in Nat /\ DOMAIN listed = 1 .. Len(listed) /\ payloads = PayloadsOf(listed)
        BY DEF ServedAsListed
  <2>2. Whole(listed, Len(listed), payloads)
        BY <2>1, PayloadsWhole
  <2> QED BY <2>1, <2>2 DEF Whole, KnownBy
<1> QED BY <1>2, <1>3, PTL
=============================================================================
