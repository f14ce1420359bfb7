--------------------------- MODULE InternerProofs ---------------------------
(***************************************************************************)
(* Proofs about Interner, for any texts of any sizes, any capacity and any *)
(* number of Strings.                                                      *)
(***************************************************************************)
EXTENDS Interner, FiniteSetTheorems, TLAPS

NeverMoved ==
  /\ buffer.moved = 0
  /\ \A k \in DOMAIN stored : stored[k].moved = 0

\* The hash map is the inverse of the table, and no text is in it twice.
Agree ==
  /\ DOMAIN collected = {index[i] : i \in DOMAIN index}
  /\ \A i \in DOMAIN index : collected[index[i]] = i - 1
  /\ \A i, j \in DOMAIN index : Read(index[i]) = Read(index[j]) => i = j

Sound ==
  /\ InternerTypeOK
  /\ NeverMoved
  /\ PointersStayValid
  /\ Agree

\* What there is of Strings, written out.
LEMMA StringsListed ==
  ASSUME InternerTypeOK
  PROVE  /\ AllStrings \in Seq(Strings) /\ Len(AllStrings) = Len(stored) + 1
         /\ \A k \in DOMAIN stored : AllStrings[k] = stored[k]
         /\ AllStrings[Len(stored) + 1] = buffer
BY DEF InternerTypeOK, AllStrings

\* A live pointer reads a text.
LEMMA LiveReadsText ==
  ASSUME InternerTypeOK, NEW p, Live(p)
  PROVE  Read(p) \in Texts
<1>1. AllStrings[p.string] \in Strings
      BY StringsListed DEF Live
<1>2. AllStrings[p.string].texts \in Seq(Texts)
      BY <1>1 DEF Strings
<1> QED BY <1>2 DEF Live, Read

\* A String that has room keeps its bytes where they are.
LEMMA PushStrFits ==
  ASSUME NEW s \in Strings, NEW text \in Texts, s.len + SizeOf[text] <= s.cap
  PROVE  /\ PushStr(s, text) \in Strings
         /\ PushStr(s, text).moved = s.moved
         /\ PushStr(s, text).texts = Append(s.texts, text)
BY SizesAssumption DEF PushStr, Strings

\* The String alloc writes to has room for the text.
LEMMA FillableFits ==
  ASSUME InternerTypeOK, NEW text \in Texts, NEW s \in Fillable(text)
  PROVE  /\ s \in Strings /\ s.len + SizeOf[text] <= s.cap
         /\ HasRoom(text) => s = buffer
         /\ ~ HasRoom(text) => s.texts = <<>> /\ s.moved = 0
<1>1. SizeOf[text] \in Nat /\ buffer.cap \in Nat /\ Powers \subseteq Nat
      BY SizesAssumption, PowersAssumption DEF InternerTypeOK, Strings
<1>2. CASE HasRoom(text)
      BY <1>2 DEF Fillable, HasRoom, InternerTypeOK
<1>3. CASE ~ HasRoom(text)
  <2>1. PICK cap \in Powers : s = NewString(cap) /\ SizeOf[text] <= cap
        BY <1>1, <1>3 DEF Fillable, NextPowerOfTwo
  <2>2. NewString(cap) \in Strings
        BY <1>1, <2>1 DEF NewString, Strings
  <2> QED BY <1>1, <1>3, <2>1, <2>2 DEF NewString
<1> QED BY <1>2, <1>3

\* alloc copies the text to where the new pointer reads it, and no pointer
\* that was live reads anything else than before.
LEMMA AllocKeeps ==
  ASSUME InternerTypeOK, NeverMoved, NEW text \in Texts, Alloc(text)
  PROVE  /\ buffer' \in Strings /\ stored' \in Seq(Strings)
         /\ NeverMoved'
         /\ LastCopied' \in StringPtrs /\ Live(LastCopied)' /\ Read(LastCopied)' = text
         /\ ~ Live(LastCopied')
         /\ \A p : Live(p) => Live(p)' /\ Read(p)' = Read(p)
<1>1. PICK s \in Fillable(text) : buffer' = PushStr(s, text)
      BY DEF Alloc
<1>2. /\ s \in Strings /\ s.len + SizeOf[text] <= s.cap
      /\ HasRoom(text) => s = buffer
      /\ ~ HasRoom(text) => s.texts = <<>> /\ s.moved = 0
      BY FillableFits
<1>3. buffer' \in Strings /\ buffer'.moved = s.moved /\ buffer'.texts = Append(s.texts, text)
      BY <1>1, <1>2, PushStrFits
<1>4. stored' = IF HasRoom(text) THEN stored ELSE Append(stored, buffer)
      BY DEF Alloc
<1>5. stored \in Seq(Strings) /\ buffer \in Strings
      BY DEF InternerTypeOK
<1>6. stored' \in Seq(Strings) /\ buffer'.moved = 0 /\ NeverMoved'
      BY <1>2, <1>3, <1>4, <1>5 DEF NeverMoved
<1>7. buffer'.texts \in Seq(Texts) /\ buffer.texts \in Seq(Texts) /\ s.texts \in Seq(Texts)
      BY <1>2, <1>3, <1>5 DEF Strings
<1>8. AllStrings = Append(stored, buffer) /\ AllStrings' = Append(stored', buffer')
      BY DEF AllStrings
<1>9. /\ Len(AllStrings') = Len(stored') + 1 /\ AllStrings'[Len(stored') + 1] = buffer'
      /\ \A k \in 1 .. Len(stored') : AllStrings'[k] = stored'[k]
      /\ AllStrings' \in Seq(Strings) /\ DOMAIN AllStrings' = 1 .. Len(stored') + 1
      BY <1>3, <1>6, <1>8
<1>10. LastCopied' = [string |-> Len(stored') + 1, nth |-> Len(buffer'.texts), moved |-> 0]
      BY <1>6 DEF LastCopied
<1>11. /\ LastCopied' \in StringPtrs
       /\ Live(LastCopied)' /\ Read(LastCopied)' = text
  <2>1. Len(buffer'.texts) = Len(s.texts) + 1 /\ buffer'.texts[Len(s.texts) + 1] = text
        BY <1>3, <1>7
  <2>2. LastCopied' \in StringPtrs
        BY <1>6, <1>7, <1>10 DEF StringPtrs
  <2>3. Live(LastCopied)'
        BY <1>6, <1>7, <1>9, <1>10, <2>1 DEF Live
  <2> QED BY <1>9, <1>10, <2>1, <2>2, <2>3 DEF Read
<1>12. ~ Live(LastCopied')
  <2>1. CASE HasRoom(text)
    <3>1. stored' = stored /\ s = buffer
          BY <1>2, <1>4, <2>1
    <3>2. Len(buffer'.texts) = Len(buffer.texts) + 1
          BY <1>3, <1>7, <3>1
    <3> QED BY <1>5, <1>7, <1>8, <1>10, <3>1, <3>2, StringsListed DEF Live
  <2>2. CASE ~ HasRoom(text)
        BY <1>4, <1>5, <1>8, <1>10, <2>2, StringsListed DEF Live
  <2> QED BY <2>1, <2>2
<1>13. ASSUME NEW p, Live(p) PROVE Live(p)' /\ Read(p)' = Read(p)
  <2>1. p.string \in 1 .. Len(stored) + 1
        BY <1>13, StringsListed DEF Live
  <2>2. CASE HasRoom(text) /\ p.string = Len(stored) + 1
    <3>1. AllStrings[p.string] = buffer /\ AllStrings'[p.string] = buffer'
          BY <1>4, <1>9, <2>2, StringsListed
    <3>2. p.nth \in DOMAIN buffer.texts /\ s = buffer
          BY <1>2, <1>13, <2>2, <3>1 DEF Live
    <3>3. p.nth \in DOMAIN buffer'.texts /\ buffer'.texts[p.nth] = buffer.texts[p.nth]
          BY <1>3, <1>7, <3>2
    <3> QED BY <1>3, <1>4, <1>9, <1>13, <2>1, <2>2, <3>1, <3>2, <3>3, <1>5 DEF Live, Read
  <2>3. CASE ~ (HasRoom(text) /\ p.string = Len(stored) + 1)
    <3>1. p.string \in 1 .. Len(stored') /\ stored'[p.string] = AllStrings[p.string]
          BY <1>4, <1>5, <2>1, <2>3, StringsListed
    <3>2. AllStrings'[p.string] = AllStrings[p.string] /\ p.string \in DOMAIN AllStrings'
          BY <1>9, <3>1
    <3> QED BY <1>13, <3>2 DEF Live, Read
  <2> QED BY <2>2, <2>3
<1> QED BY <1>3, <1>6, <1>11, <1>12, <1>13

\* A number below the modulus is its own remainder.
LEMMA SmallRemainder ==
  ASSUME NEW n \in Nat, NEW k \in Nat, n < k
  PROVE  n % k = n
OBVIOUS

\* The numbers up to n are n.
LEMMA IntervalSize ==
  ASSUME NEW n \in Nat
  PROVE  Cardinality(1 .. n) = n
<1>1. Cardinality(1 .. n) = IF 1 > n THEN 0 ELSE n - 1 + 1
      BY FS_Interval
<1> QED BY <1>1

\* While a text has no token there is one left for it.
LEMMA TokenLeft ==
  ASSUME Sound, NEW text \in Texts, Known(text) = {}
  PROVE  Len(index) < TokenSpan /\ TokenOf(text) = Len(index)
<1> DEFINE Rest == Texts \ {text}
           names == [i \in 1 .. Len(index) |-> Read(index[i])]
<1>1. index \in Seq(StringPtrs) /\ Len(index) \in Nat /\ DOMAIN index = 1 .. Len(index)
      BY DEF Sound, InternerTypeOK
<1>2. \A i \in 1 .. Len(index) : Read(index[i]) \in Texts
      BY <1>1, LiveReadsText DEF Sound, PointersStayValid
<1>3. \A i \in 1 .. Len(index) : Read(index[i]) # text
      BY <1>1 DEF Known, Sound, Agree
<1>4. names \in Injection(1 .. Len(index), Rest)
      BY <1>1, <1>2, <1>3 DEF Sound, Agree, Injection, IsInjective
<1>5. IsFiniteSet(Rest) /\ Cardinality(Rest) = Cardinality(Texts) - 1
      BY TokensAssumption, FS_RemoveElement
<1>6. Cardinality(1 .. Len(index)) <= Cardinality(Rest)
      BY <1>4, <1>5, FS_Injection
<1>7. Cardinality(1 .. Len(index)) = Len(index)
      BY <1>1, IntervalSize
<1>8. Cardinality(Texts) \in Nat
      BY TokensAssumption, FS_CardinalityType
<1>9. Len(index) < TokenSpan
      BY <1>1, <1>5, <1>6, <1>7, <1>8, TokensAssumption
<1>10. Len(index) % TokenSpan = Len(index)
      BY <1>1, <1>9, TokensAssumption, SmallRemainder
<1> QED BY <1>9, <1>10 DEF TokenOf

-----------------------------------------------------------------------------
(***************************************************************************)
(* One call of intern.                                                     *)
(***************************************************************************)
Names == [i \in DOMAIN index |-> Read(index[i])]

\* A new text comes to be the last of the table, and the rest stays.
LEMMA InternNew ==
  ASSUME Sound, NEW text \in Texts, Known(text) = {}, Intern(text)
  PROVE  /\ Sound'
         /\ Len(index') = Len(index) + 1 /\ Read(index[Len(index)])' = text
         /\ \A i \in DOMAIN index : Read(index[i])' = Read(index[i])
<1> DEFINE n == Len(index)
           new == LastCopied'
<1>1. /\ Alloc(text) /\ index' = Append(index, new)
      /\ collected' = [p \in DOMAIN collected \cup {new} |->
                         IF p = new THEN TokenOf(text) ELSE collected[p]]
      BY DEF Intern
<1>2. InternerTypeOK /\ NeverMoved /\ PointersStayValid /\ Agree
      BY DEF Sound
<1>3. /\ buffer' \in Strings /\ stored' \in Seq(Strings) /\ NeverMoved'
      /\ new \in StringPtrs /\ Live(LastCopied)' /\ Read(LastCopied)' = text
      /\ ~ Live(new)
      /\ \A p : Live(p) => Live(p)' /\ Read(p)' = Read(p)
      BY <1>1, <1>2, AllocKeeps
<1>4. TokenOf(text) = n /\ n < TokenSpan
      BY TokenLeft
<1>5. index \in Seq(StringPtrs) /\ n \in Nat /\ DOMAIN index = 1 .. n
      BY <1>2 DEF InternerTypeOK
<1>6. /\ DOMAIN index' = 1 .. n + 1 /\ index'[n + 1] = new
      /\ \A i \in 1 .. n : index'[i] = index[i]
      /\ index' \in Seq(StringPtrs) /\ Len(index') = n + 1
      BY <1>1, <1>3, <1>5
<1>7. \A i \in 1 .. n : Live(index[i]) /\ index[i] # new
      BY <1>2, <1>3, <1>5 DEF PointersStayValid
<1>8. \A i \in 1 .. n : Live(index[i])' /\ Read(index[i])' = Read(index[i])
  <2> SUFFICES ASSUME NEW i \in 1 .. n
               PROVE  Live(index[i])' /\ Read(index[i])' = Read(index[i])
      OBVIOUS
  <2> DEFINE q == index[i]
  <2>1. index'[i] = q /\ Live(q)
        BY <1>6, <1>7
  <2>2. Live(q) => /\ q.string \in DOMAIN AllStrings' /\ q.moved = AllStrings'[q.string].moved
                   /\ q.nth \in DOMAIN AllStrings'[q.string].texts
                   /\ Read(q) = AllStrings'[q.string].texts[q.nth]
    <3>1. \A p : Live(p) => /\ p.string \in DOMAIN AllStrings' /\ p.moved = AllStrings'[p.string].moved
                            /\ p.nth \in DOMAIN AllStrings'[p.string].texts
                            /\ Read(p) = AllStrings'[p.string].texts[p.nth]
          BY <1>3 DEF Live, Read
    <3> QED BY <3>1
  <2> QED BY <2>1, <2>2 DEF Live, Read
<1>9. Read(index[Len(index)])' = text /\ Live(index[Len(index)])'
  <2>1. index'[Len(index')] = LastCopied'
        BY <1>6
  <2> QED BY <1>3, <2>1 DEF Live, Read
<1>10. PointersStayValid'
  <2>1. \A i \in DOMAIN index' : Live(index[i])'
        BY <1>5, <1>6, <1>8, <1>9
  <2>2. ASSUME NEW p \in DOMAIN collected' PROVE \E i \in DOMAIN index' : index'[i] = p
    <3>1. CASE p = new
          BY <1>5, <1>6, <3>1
    <3>2. CASE p # new
      <4>1. p \in DOMAIN collected
            BY <1>1, <3>2
      <4>2. PICK i \in 1 .. n : index[i] = p
            BY <1>2, <1>5, <4>1 DEF Agree
      <4> QED BY <1>5, <1>6, <4>2
    <3> QED BY <3>1, <3>2
  <2>3. \A p \in DOMAIN collected' : Live(p)'
        BY <2>1, <2>2 DEF Live
  <2> QED BY <2>1, <2>3 DEF PointersStayValid
<1>11. Agree'
  <2>1. DOMAIN collected' = {index'[i] : i \in DOMAIN index'}
    <3>1. DOMAIN collected' = {index[i] : i \in 1 .. n} \cup {new}
          BY <1>1, <1>2, <1>5 DEF Agree
    <3> QED BY <1>5, <1>6, <3>1
  <2>2. \A i \in DOMAIN index' : collected'[index'[i]] = i - 1
    <3>1. collected'[new] = n
          BY <1>1, <1>4
    <3>2. ASSUME NEW i \in 1 .. n PROVE collected'[index[i]] = i - 1
      <4>1. index[i] \in DOMAIN collected /\ index[i] # new /\ collected[index[i]] = i - 1
            BY <1>2, <1>5, <1>7 DEF Agree
      <4> QED BY <1>1, <4>1
    <3> QED BY <1>5, <1>6, <3>1, <3>2
  <2>3. \A i \in 1 .. n : Read(index[i]) # text
        BY <1>2, <1>5 DEF Known, Agree
  <2>4. \A i, j \in 1 .. n : Read(index[i]) = Read(index[j]) => i = j
        BY <1>2, <1>5 DEF Agree
  <2>5. \A i, j \in 1 .. n + 1 : Read(index[i])' = Read(index[j])' => i = j
    <3> SUFFICES ASSUME NEW i \in 1 .. n + 1, NEW j \in 1 .. n + 1, Read(index[i])' = Read(index[j])'
                 PROVE  i = j
        OBVIOUS
    <3>1. i \in 1 .. n \/ i = n + 1
          BY <1>5
    <3>2. j \in 1 .. n \/ j = n + 1
          BY <1>5
    <3>3. \A k : k = Len(index') => Read(index[k])' = text
          BY <1>9 DEF Live, Read
    <3> QED BY <1>6, <1>8, <2>3, <2>4, <3>1, <3>2, <3>3
  <2> QED BY <1>6, <2>1, <2>2, <2>5 DEF Agree
<1>12. InternerTypeOK'
  <2>1. DOMAIN collected' \subseteq StringPtrs
        BY <1>1, <1>2, <1>3 DEF InternerTypeOK
  <2>2. \A p \in DOMAIN collected' : collected'[p] \in Tokens
        BY <1>1, <1>2, <1>4, <1>5, TokensAssumption DEF InternerTypeOK, Tokens
  <2>3. collected' \in [DOMAIN collected' -> Tokens]
        BY <1>1, <2>2
  <2> QED BY <1>3, <1>6, <2>1, <2>3 DEF InternerTypeOK
<1> QED BY <1>3, <1>5, <1>6, <1>8, <1>9, <1>10, <1>11, <1>12 DEF Sound

\* Every step keeps the interner sound.
LEMMA SoundNext == Sound /\ [\E text \in Texts : Intern(text)]_interner => Sound'
<1> SUFFICES ASSUME Sound, [\E text \in Texts : Intern(text)]_interner PROVE Sound'
    OBVIOUS
<1>1. CASE UNCHANGED interner
  <2> USE <1>1 DEF interner
  <2>1. InternerTypeOK' /\ NeverMoved'
        BY DEF Sound, InternerTypeOK, NeverMoved
  <2>2. \A p : Live(p)' = Live(p) /\ Read(p)' = Read(p)
        BY DEF Live, Read, AllStrings
  <2>3. PointersStayValid'
        BY <2>2 DEF Sound, PointersStayValid
  <2>4. Agree'
        BY <2>2 DEF Sound, Agree
  <2> QED BY <2>1, <2>3, <2>4 DEF Sound
<1>2. ASSUME NEW text \in Texts, Intern(text) PROVE Sound'
      BY <1>1, <1>2, InternNew DEF Intern
<1> QED BY <1>1, <1>2

\* An interner starts sound.
LEMMA SoundInit == InternerInit => Sound
<1> SUFFICES ASSUME InternerInit PROVE Sound
    OBVIOUS
<1>1. PICK cap \in Powers : buffer = NewString(cap)
      BY DEF InternerInit, NextPowerOfTwo
<1>2. buffer \in Strings /\ buffer.moved = 0
      BY <1>1, PowersAssumption DEF NewString, Strings
<1>3. DOMAIN collected = {} /\ collected \in [{} -> Tokens]
      BY DEF InternerInit
<1> QED BY <1>2, <1>3 DEF InternerInit, Sound, InternerTypeOK, NeverMoved, PointersStayValid, Agree

\* What soundness says of texts and tokens.
LEMMA SoundNames == Sound => TokensNameTexts
<1> SUFFICES ASSUME Sound PROVE TokensNameTexts
    OBVIOUS
<1>1. ASSUME NEW text, Known(text) # {}
      PROVE  \E i \in DOMAIN index : TokenOf(text) = i - 1 /\ Read(index[i]) = text
  <2> DEFINE p == CHOOSE p \in Known(text) : TRUE
  <2>1. p \in Known(text)
        BY <1>1
  <2>2. PICK i \in DOMAIN index : p = index[i]
        BY <2>1 DEF Known, Sound, Agree
  <2>3. TokenOf(text) = collected[p]
        BY <1>1 DEF TokenOf
  <2> QED BY <2>1, <2>2, <2>3 DEF Known, Sound, Agree
<1>2. DOMAIN index \subseteq Nat
      BY DEF Sound, InternerTypeOK
<1>3. ASSUME NEW i \in DOMAIN index PROVE TokenOf(Read(index[i])) = i - 1
  <2>1. Known(Read(index[i])) # {}
        BY DEF Known, Sound, Agree
  <2> QED BY <1>1, <2>1 DEF Sound, Agree
<1>4. ASSUME NEW text \in Texts, Known(text) # {}
      PROVE  TokenOf(text) + 1 \in DOMAIN index /\ Lookup(TokenOf(text)) = text
  <2>1. PICK i \in DOMAIN index : TokenOf(text) = i - 1 /\ Read(index[i]) = text
        BY <1>1, <1>4
  <2>2. TokenOf(text) + 1 = i
        BY <1>2, <2>1
  <2> QED BY <2>1, <2>2 DEF Lookup
<1> QED BY <1>3, <1>4 DEF TokensNameTexts

\* Soundness is an invariant.
LEMMA SoundInvariant == InternerSpec => []Sound
BY SoundInit, SoundNext, PTL DEF InternerSpec

\* No pointer the interner keeps ever dangles.
THEOREM PointersValid == InternerSpec => []PointersStayValid
BY SoundInvariant, PTL DEF Sound

\* Equal texts have equal tokens, and lookup takes a token to its text.
THEOREM TokensName == InternerSpec => []TokensNameTexts
BY SoundInvariant, SoundNames, PTL

-----------------------------------------------------------------------------
(***************************************************************************)
(* The interner implements the table of texts.                             *)
(***************************************************************************)

\* The table starts empty.
LEMMA TableInit == InternerInit => Table!Init
BY DEF InternerInit, Table!Init

\* A call of intern adds its text to the table, or leaves it alone.
LEMMA TableNext ==
  Sound /\ [\E text \in Texts : Intern(text)]_interner => [Table!Next]_Names
<1> SUFFICES ASSUME Sound, [\E text \in Texts : Intern(text)]_interner
             PROVE  [Table!Next]_Names
    OBVIOUS
<1>1. CASE UNCHANGED interner
      BY <1>1 DEF interner, Names, Live, Read, AllStrings
<1>2. ASSUME NEW text \in Texts, Intern(text), Known(text) = {} PROVE Table!Add(text)
  <2>1. /\ Sound'
        /\ Len(index') = Len(index) + 1 /\ Read(index[Len(index)])' = text
        /\ \A i \in DOMAIN index : Read(index[i])' = Read(index[i])
        BY <1>2, InternNew
  <2>2. index \in Seq(StringPtrs) /\ index' \in Seq(StringPtrs)
        BY <2>1 DEF Sound, InternerTypeOK
  <2>3. Names \in Seq({Read(index[i]) : i \in DOMAIN index}) /\ Len(Names) = Len(index)
        BY <2>2 DEF Names
  <2>4. Names' = [i \in 1 .. Len(index) + 1 |-> Read(index[i])']
        BY <2>1, <2>2 DEF Names
  <2>5. Names' = Append(Names, text)
        BY <2>1, <2>2, <2>3, <2>4 DEF Names
  <2>6. \A i \in DOMAIN Names : Names[i] # text
        BY <1>2, <2>2 DEF Names, Known, Sound, Agree
  <2> QED BY <2>5, <2>6 DEF Table!Add, Names
<1> QED BY <1>1, <1>2 DEF Intern, Table!Next

\* Whatever a token is read as stays, and texts get their tokens in order.
THEOREM ImplementsTable == InternerSpec => ImplementsTextTable
BY TableInit, TableNext, SoundInvariant, PTL DEF InternerSpec, ImplementsTextTable, Table!Spec, Names
=============================================================================
