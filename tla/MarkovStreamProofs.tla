------------------------- MODULE MarkovStreamProofs -------------------------
(***************************************************************************)
(* Proofs about PageTemplate and MarkovStream, for templates and texts of  *)
(* any length, pages and chunks of any size, any timeout and any delays.   *)
(***************************************************************************)
EXTENDS MarkovStream, FiniteSetTheorems, WellFoundedInduction, TLAPS

-----------------------------------------------------------------------------
(***************************************************************************)
(* Numbers.                                                                *)
(***************************************************************************)

\* Every set of naturals but the empty one has a least element.
LEMMA Least ==
  ASSUME NEW N \in SUBSET Nat, N # {}
  PROVE  Min(N) \in N /\ \A y \in N : Min(N) <= y
<1>1. PICK x \in N : \A y \in N : ~ (<<y, x>> \in OpToRel(<, Nat))
      BY NatLessThanWellFounded, WFMin
<1>2. ASSUME NEW y \in N PROVE x <= y
  <2>1. <<y, x>> \in Nat \X Nat /\ <<y, x>>[1] = y /\ <<y, x>>[2] = x
        OBVIOUS
  <2>2. ~ (y < x)
        BY <1>1, <2>1 DEF OpToRel
  <2> QED BY <2>1, <2>2
<1> QED BY <1>2 DEF Min

\* Every bounded set of naturals but the empty one has a greatest element.
LEMMA Greatest ==
  ASSUME NEW N \in SUBSET Nat, N # {}, NEW b \in Nat, \A y \in N : y <= b
  PROVE  Max(N) \in N /\ \A y \in N : y <= Max(N)
<1> DEFINE D == {b - y : y \in N}
<1>1. D \in SUBSET Nat /\ D # {}
  <2>1. \A y \in N : b - y \in Nat
        OBVIOUS
  <2>2. PICK y \in N : TRUE
        OBVIOUS
  <2>3. b - y \in D
        OBVIOUS
  <2> QED BY <2>1, <2>3
<1>2. PICK d \in D : \A x \in D : d <= x
      BY <1>1, Least
<1>3. PICK m \in N : d = b - m
      OBVIOUS
<1>4. ASSUME NEW y \in N PROVE y <= m
  <2>1. b - y \in D
        OBVIOUS
  <2> QED BY <1>2, <1>3, <2>1
<1>5. \A y \in N : m >= y
      BY <1>4
<1> QED BY <1>3, <1>5 DEF Max

\* What holds of 0 and passes from each natural to the next holds of all.
LEMMA Inductive ==
  ASSUME NEW A \in SUBSET Nat, 0 \in A, \A n \in A : n + 1 \in A
  PROVE  A = Nat
<1> SUFFICES ASSUME Nat \ A # {} PROVE FALSE
    OBVIOUS
<1>1. PICK x \in Nat \ A : \A y \in Nat \ A : x <= y
      BY Least
<1>2. x - 1 \in Nat /\ x - 1 < x
      BY <1>1
<1>3. x - 1 \in A
      BY <1>1, <1>2
<1> QED BY <1>1, <1>2, <1>3

-----------------------------------------------------------------------------
(***************************************************************************)
(* The cursor.                                                             *)
(***************************************************************************)

\* The tokens of a placeholder differ from each other and from its names.
LEMMA TokensDiffer ==
  /\ Opening # Closing /\ Opening # Blank /\ Closing # Blank
  /\ Opening \notin Placeholders /\ Closing \notin Placeholders
  /\ Blank \notin Placeholders
<1>1. Opening # Closing
      BY Zenon DEF Opening, Closing
<1>2. Opening # Blank
      BY Zenon DEF Opening, Blank
<1>3. Closing # Blank
      BY Zenon DEF Closing, Blank
<1>4. Opening \notin Placeholders
      BY Zenon DEF Opening, Placeholders
<1>5. Closing \notin Placeholders
      BY Zenon DEF Closing, Placeholders
<1>6. Blank \notin Placeholders
      BY Zenon DEF Blank, Placeholders
<1> QED BY <1>1, <1>2, <1>3, <1>4, <1>5, <1>6

\* White space is skipped up to what is none, or to the end.
LEMMA Skipped ==
  ASSUME NEW S, NEW t \in Seq(S), NEW j \in 1 .. Len(t) + 2
  PROVE  LET k == SkipSpace(t, j)
         IN  /\ k \in j .. Len(t) + 2 /\ (j <= Len(t) + 1 => k <= Len(t) + 1)
             /\ \A x \in j .. k - 1 : x <= Len(t) /\ t[x] = Blank
             /\ k <= Len(t) => t[k] # Blank
<1> DEFINE n == Len(t)
           N == {k \in j .. n + 2 : k > n \/ t[k] # Blank}
           k == SkipSpace(t, j)
<1>1. n \in Nat /\ j \in Nat /\ j <= n + 2
      OBVIOUS
<1>2. N \in SUBSET Nat /\ n + 2 \in N /\ (j <= n + 1 => n + 1 \in N)
      BY <1>1
<1>3. k = Min(N)
      BY DEF SkipSpace
<1> HIDE DEF k
<1>4. k \in N /\ \A y \in N : k <= y
  <2> HIDE DEF N
  <2>1. Min(N) \in N /\ \A y \in N : Min(N) <= y
        BY <1>2, Least
  <2> QED BY <1>3, <2>1
<1>5. k \in j .. n + 2 /\ (j <= n + 1 => k <= n + 1) /\ (k <= n => t[k] # Blank)
  <2>1. k \in j .. n + 2 /\ (k > n \/ t[k] # Blank)
        BY <1>4
  <2>2. j <= n + 1 => k <= n + 1
        BY <1>2, <1>4
  <2> HIDE DEF N
  <2> QED BY <1>1, <2>1, <2>2
<1>6. ASSUME NEW x \in j .. k - 1 PROVE x <= n /\ t[x] = Blank
  <2>1. x \in j .. n + 2 /\ x \notin N
        BY <1>1, <1>4, <1>5
  <2> QED BY <1>1, <2>1
<1> QED BY <1>5, <1>6 DEF k

\* The first of what is no white space is where it is skipped to.
LEMMA SkipsTo ==
  ASSUME NEW S, NEW t \in Seq(S), NEW j \in 1 .. Len(t), NEW k \in j .. Len(t),
         t[k] # Blank, \A x \in j .. k - 1 : t[x] = Blank
  PROVE  SkipSpace(t, j) = k
<1>1. PICK s : s = SkipSpace(t, j)
      OBVIOUS
<1>2. /\ s \in j .. Len(t) + 2
      /\ \A x \in j .. s - 1 : x <= Len(t) /\ t[x] = Blank
      /\ s <= Len(t) => t[s] # Blank
  <2>1. j \in 1 .. Len(t) + 2
        OBVIOUS
  <2> QED BY <1>1, <2>1, Skipped
<1>3. ~ (s < k)
      BY <1>2
<1>4. ~ (k < s)
      BY <1>2
<1> QED BY <1>1, <1>2, <1>3, <1>4

\* The first "{{" from a position on, and a placeholder that begins and ends
\* somewhere, around a word.
OpenAt(t, i, o) == o \in i .. Len(t) /\ t[o] = Opening /\ \A k \in i .. o - 1 : t[k] # Opening
SlotAt(t, o, w, e) ==
  /\ w \in o + 1 .. Len(t) /\ e \in w + 1 .. Len(t)
  /\ t[o] = Opening /\ t[w] \in Placeholders /\ t[e] = Closing
  /\ \A x \in (o + 1 .. e - 1) \ {w} : t[x] = Blank

\* process_template finds the next "{{", and a placeholder exactly if there is
\* one at it.
LEMMA Processed ==
  ASSUME NEW S, NEW t \in Seq(S), NEW i \in 1 .. Len(t) + 1
  PROVE  LET p == Process(t, i)
         IN  \/ /\ p = [state |-> "finished", at |-> Len(t) + 1, next |-> i]
                /\ \A k \in i .. Len(t) : t[k] # Opening
             \/ \E o, w, e \in 1 .. Len(t) :
                  /\ OpenAt(t, i, o) /\ SlotAt(t, o, w, e)
                  /\ p = [state |-> t[w], at |-> o, next |-> e + 1]
             \/ \E o \in 1 .. Len(t) :
                  /\ OpenAt(t, i, o) /\ \A w, e : ~ SlotAt(t, o, w, e)
                  /\ p = [state |-> "error", at |-> i, next |-> i]
<1> DEFINE n     == Len(t)
           opens == {k \in i .. n : t[k] = Opening}
           open  == Min(opens)
           word  == SkipSpace(t, open + 1)
           close == SkipSpace(t, word + 1)
           here  == close <= n /\ t[word] \in Placeholders /\ t[close] = Closing
           p     == Process(t, i)
<1>1. n \in Nat /\ i \in Nat /\ i >= 1 /\ i <= n + 1
      OBVIOUS
<1>2. /\ opens = {} => p = [state |-> "finished", at |-> n + 1, next |-> i]
      /\ opens # {} /\ here => p = [state |-> t[word], at |-> open, next |-> close + 1]
      /\ opens # {} /\ ~ here => p = [state |-> "error", at |-> i, next |-> i]
      BY DEF Process
<1>3. opens # {} => open \in opens /\ \A y \in opens : open <= y
  <2>1. opens \in SUBSET Nat
        BY <1>1
  <2> QED BY <2>1, Least
<1>4. word = SkipSpace(t, open + 1) /\ close = SkipSpace(t, word + 1)
      OBVIOUS
<1>5. \A k \in i .. n : t[k] = Opening <=> k \in opens
      OBVIOUS
<1>6. opens \subseteq i .. n
      OBVIOUS
<1> HIDE DEF p, open, word, close, opens
<1>7. CASE opens = {}
      BY <1>2, <1>5, <1>7 DEF p
<1>8. ASSUME opens # {} PROVE open \in 1 .. n /\ OpenAt(t, i, open)
  <2>1. open \in i .. n /\ t[open] = Opening
        BY <1>3, <1>5, <1>6, <1>8
  <2>2. ASSUME NEW k \in i .. open - 1 PROVE t[k] # Opening
        BY <1>1, <1>3, <1>5, <1>8, <2>1
  <2> QED BY <1>1, <2>1, <2>2 DEF OpenAt
<1>9. ASSUME opens # {}
      PROVE  /\ word \in open + 1 .. n + 1 /\ close \in word + 1 .. n + 2
             /\ \A x \in open + 1 .. word - 1 : t[x] = Blank
             /\ \A x \in word + 1 .. close - 1 : t[x] = Blank
  <2>1. open \in Nat /\ open + 1 \in 1 .. n + 2 /\ open + 1 <= n + 1
        BY <1>1, <1>8, <1>9
  <2>2. word \in open + 1 .. n + 1 /\ \A x \in open + 1 .. word - 1 : t[x] = Blank
        BY <1>1, <1>4, <2>1, Skipped
  <2>3. word + 1 \in 1 .. n + 2
        BY <1>1, <2>1, <2>2
  <2>4. close \in word + 1 .. n + 2 /\ \A x \in word + 1 .. close - 1 : t[x] = Blank
        BY <1>4, <2>3, Skipped
  <2> QED BY <2>2, <2>4
<1>10. CASE opens # {} /\ here
  <2>1. word \in 1 .. n /\ close \in 1 .. n
        BY <1>1, <1>8, <1>9, <1>10
  <2>2. SlotAt(t, open, word, close)
    <3>1. word \in open + 1 .. n /\ close \in word + 1 .. n
          BY <1>1, <1>8, <1>9, <1>10
    <3>2. t[open] = Opening /\ t[word] \in Placeholders /\ t[close] = Closing
          BY <1>8, <1>10 DEF OpenAt
    <3>3. ASSUME NEW x \in (open + 1 .. close - 1) \ {word} PROVE t[x] = Blank
      <4>1. x \in open + 1 .. word - 1 \/ x \in word + 1 .. close - 1
            BY <1>8, <3>1
      <4> QED BY <1>9, <1>10, <4>1
    <3> QED BY <3>1, <3>2, <3>3 DEF SlotAt
  <2>3. p = [state |-> t[word], at |-> open, next |-> close + 1]
        BY <1>2, <1>10
  <2> QED BY <1>8, <1>10, <2>1, <2>2, <2>3 DEF p
<1>11. CASE opens # {} /\ ~ here
  <2>1. ASSUME NEW w, NEW e, SlotAt(t, open, w, e) PROVE FALSE
    <3>1. /\ open \in 1 .. n /\ w \in open + 1 .. n /\ e \in w + 1 .. n
          /\ t[w] \in Placeholders /\ t[e] = Closing
          /\ \A x \in (open + 1 .. e - 1) \ {w} : t[x] = Blank
          BY <1>8, <1>11, <2>1 DEF SlotAt
    <3>2. open + 1 \in 1 .. n /\ w \in open + 1 .. n /\ t[w] # Blank
          BY <1>1, <3>1, TokensDiffer
    <3>3. \A x \in open + 1 .. w - 1 : t[x] = Blank
          BY <1>1, <3>1
    <3>4. word = w
          BY <1>4, <3>2, <3>3, SkipsTo
    <3>5. w + 1 \in 1 .. n /\ e \in w + 1 .. n /\ t[e] # Blank
          BY <1>1, <3>1, TokensDiffer
    <3>6. \A x \in w + 1 .. e - 1 : t[x] = Blank
          BY <1>1, <3>1
    <3>7. close = e
          BY <1>4, <3>4, <3>5, <3>6, SkipsTo
    <3> QED BY <1>1, <1>11, <3>1, <3>4, <3>7
  <2>2. p = [state |-> "error", at |-> i, next |-> i]
        BY <1>2, <1>11
  <2> QED BY <1>8, <1>11, <2>1, <2>2 DEF p
<1> QED BY <1>7, <1>10, <1>11

\* Of two words at a "{{" one is not the first.
LEMMA OneSlot ==
  ASSUME NEW S, NEW t \in Seq(S), NEW o \in 1 .. Len(t), NEW w, NEW e, NEW v, NEW f,
         SlotAt(t, o, w, e), SlotAt(t, o, v, f)
  PROVE  v = w /\ f = e
<1>1. /\ w \in o + 1 .. Len(t) /\ e \in w + 1 .. Len(t)
      /\ v \in o + 1 .. Len(t) /\ f \in v + 1 .. Len(t)
      /\ t[w] # Blank /\ t[v] # Blank /\ t[e] # Blank /\ t[f] # Blank
      BY TokensDiffer DEF SlotAt
<1>2. /\ \A x \in (o + 1 .. e - 1) \ {w} : t[x] = Blank
      /\ \A x \in (o + 1 .. f - 1) \ {v} : t[x] = Blank
      BY DEF SlotAt
<1>3. v = w
  <2>1. ~ (v < w)
    <3> SUFFICES ASSUME v < w PROVE FALSE
        OBVIOUS
    <3>1. v \in (o + 1 .. e - 1) \ {w}
          BY <1>1
    <3> QED BY <1>1, <1>2, <3>1
  <2>2. ~ (w < v)
    <3> SUFFICES ASSUME w < v PROVE FALSE
        OBVIOUS
    <3>1. w \in (o + 1 .. f - 1) \ {v}
          BY <1>1
    <3> QED BY <1>1, <1>2, <3>1
  <2> QED BY <1>1, <2>1, <2>2
<1>4. f = e
  <2>1. ~ (f < e)
    <3> SUFFICES ASSUME f < e PROVE FALSE
        OBVIOUS
    <3>1. f \in (o + 1 .. e - 1) \ {w}
          BY <1>1, <1>3
    <3> QED BY <1>1, <1>2, <3>1
  <2>2. ~ (e < f)
    <3> SUFFICES ASSUME e < f PROVE FALSE
        OBVIOUS
    <3>1. e \in (o + 1 .. f - 1) \ {v}
          BY <1>1, <1>3
    <3> QED BY <1>1, <1>2, <3>1
  <2> QED BY <1>1, <2>1, <2>2
<1> QED BY <1>3, <1>4

\* WellFormed, of what is behind a position.
FormedFrom(t, allowed, i) ==
  \A k \in Slots(t) : k >= i => \E w, e : SlotAt(t, k, w, e) /\ t[w] \in allowed

\* A template is well formed if it is from its beginning on.
LEMMA FormedThroughout ==
  ASSUME NEW S, NEW t \in Seq(S), NEW allowed \in SUBSET Placeholders
  PROVE  WellFormed(t, allowed) <=> FormedFrom(t, allowed, 1)
<1>1. ASSUME NEW k \in Slots(t)
      PROVE  (\E w, e : SlotAt(t, k, w, e) /\ t[w] \in allowed)
               <=> \E e \in k + 2 .. Len(t) :
                     /\ t[e] = Closing
                     /\ \E w \in k + 1 .. e - 1 :
                          /\ t[w] \in allowed
                          /\ \A x \in (k + 1 .. e - 1) \ {w} : t[x] = Blank
  <2>1. k \in 1 .. Len(t) /\ t[k] = Opening
        BY DEF Slots
  <2>2. ASSUME NEW w, NEW e, SlotAt(t, k, w, e), t[w] \in allowed
        PROVE  /\ e \in k + 2 .. Len(t) /\ t[e] = Closing
               /\ w \in k + 1 .. e - 1
               /\ \A x \in (k + 1 .. e - 1) \ {w} : t[x] = Blank
        BY <2>1, <2>2 DEF SlotAt
  <2>3. ASSUME NEW e \in k + 2 .. Len(t), NEW w \in k + 1 .. e - 1,
               t[e] = Closing, t[w] \in allowed,
               \A x \in (k + 1 .. e - 1) \ {w} : t[x] = Blank
        PROVE  SlotAt(t, k, w, e)
        BY <2>1, <2>3 DEF SlotAt
  <2> QED BY <2>2, <2>3
<1>2. \A k \in Slots(t) : k >= 1
      BY DEF Slots
<1> QED BY <1>1, <1>2 DEF WellFormed, FormedFrom

\* No state of the cursor is the name of a placeholder but those of its slots.
LEMMA StatesDiffer ==
  /\ "finished" # "error"
  /\ "finished" \notin Placeholders /\ "error" \notin Placeholders
BY DEF Placeholders

\* One step of the walk over a template.
WalkStep(t, included, g, i) ==
  \/ Process(t, i).state = "finished"
  \/ Process(t, i).state \in included /\ g[Process(t, i).next]

\* What is left of the template is well formed exactly if the next placeholder
\* is, and what is behind it.
LEMMA FormedStepwise ==
  ASSUME NEW S, NEW t \in Seq(S), NEW included \in SUBSET Placeholders,
         NEW i \in 1 .. Len(t) + 1
  PROVE  LET p == Process(t, i)
         IN  /\ p.state \in included => p.next \in i + 1 .. Len(t) + 1
             /\ FormedFrom(t, included, i)
                  <=> \/ p.state = "finished"
                      \/ p.state \in included /\ FormedFrom(t, included, p.next)
<1> DEFINE n == Len(t)
<1>1. PICK p : p = Process(t, i)
      OBVIOUS
<1>2. n \in Nat /\ i \in 1 .. n + 1
      OBVIOUS
<1>3. \/ /\ p = [state |-> "finished", at |-> n + 1, next |-> i]
         /\ \A k \in i .. n : t[k] # Opening
      \/ \E o, w, e \in 1 .. n :
           /\ OpenAt(t, i, o) /\ SlotAt(t, o, w, e)
           /\ p = [state |-> t[w], at |-> o, next |-> e + 1]
      \/ \E o \in 1 .. n :
           /\ OpenAt(t, i, o) /\ \A w, e : ~ SlotAt(t, o, w, e)
           /\ p = [state |-> "error", at |-> i, next |-> i]
      BY <1>1, Processed
<1>4. CASE /\ p = [state |-> "finished", at |-> n + 1, next |-> i]
           /\ \A k \in i .. n : t[k] # Opening
  <2>1. p.state = "finished" /\ p.state \notin included
        BY <1>4, StatesDiffer
  <2>2. FormedFrom(t, included, i)
        BY <1>2, <1>4 DEF FormedFrom, Slots
  <2> QED BY <1>1, <2>1, <2>2
<1>5. ASSUME NEW o \in 1 .. n, NEW w \in 1 .. n, NEW e \in 1 .. n,
             OpenAt(t, i, o), SlotAt(t, o, w, e),
             p = [state |-> t[w], at |-> o, next |-> e + 1]
      PROVE  /\ p.state \in included => p.next \in i + 1 .. n + 1
             /\ FormedFrom(t, included, i)
                  <=> \/ p.state = "finished"
                      \/ p.state \in included /\ FormedFrom(t, included, p.next)
  <2>1. p.state = t[w] /\ p.next = e + 1 /\ t[w] # "finished"
    <3>1. t[w] \in Placeholders
          BY <1>5 DEF SlotAt
    <3> QED BY <1>5, <3>1, StatesDiffer
  <2>2. o \in i .. n /\ t[o] = Opening /\ (\A k \in i .. o - 1 : t[k] # Opening)
        BY <1>5 DEF OpenAt
  <2>3. /\ w \in o + 1 .. n /\ e \in w + 1 .. n /\ t[w] # Opening /\ t[e] # Opening
        /\ \A x \in (o + 1 .. e - 1) \ {w} : t[x] # Opening
        BY <1>5, TokensDiffer DEF SlotAt
  <2>4. e + 1 \in i + 1 .. n + 1
        BY <1>2, <2>2, <2>3
  <2>5. ASSUME FormedFrom(t, included, i)
        PROVE  t[w] \in included /\ FormedFrom(t, included, e + 1)
    <3>1. o \in Slots(t) /\ o >= i
          BY <1>2, <2>2 DEF Slots
    <3>2. PICK v, f : SlotAt(t, o, v, f) /\ t[v] \in included
          BY <2>5, <3>1 DEF FormedFrom
    <3>3. v = w
          BY <1>5, <3>2, OneSlot
    <3>4. FormedFrom(t, included, e + 1)
          BY <1>2, <2>4, <2>5 DEF FormedFrom, Slots
    <3> QED BY <3>2, <3>3, <3>4
  <2>6. ASSUME t[w] \in included, FormedFrom(t, included, e + 1)
        PROVE  FormedFrom(t, included, i)
    <3> SUFFICES ASSUME NEW k \in Slots(t), k >= i
                 PROVE  \E v, f : SlotAt(t, k, v, f) /\ t[v] \in included
        BY DEF FormedFrom
    <3>1. k \in 1 .. n /\ t[k] = Opening
          BY DEF Slots
    <3>2. k = o \/ k >= e + 1
          BY <1>2, <2>2, <2>3, <3>1
    <3>3. CASE k = o
          BY <1>5, <2>6, <3>3
    <3>4. CASE k >= e + 1
          BY <2>6, <3>4 DEF FormedFrom
    <3> QED BY <3>2, <3>3, <3>4
  <2> QED BY <2>1, <2>4, <2>5, <2>6
<1>6. ASSUME NEW o \in 1 .. n, OpenAt(t, i, o), \A w, e : ~ SlotAt(t, o, w, e),
             p = [state |-> "error", at |-> i, next |-> i]
      PROVE  /\ p.state \in included => p.next \in i + 1 .. n + 1
             /\ FormedFrom(t, included, i)
                  <=> \/ p.state = "finished"
                      \/ p.state \in included /\ FormedFrom(t, included, p.next)
  <2>1. p.state = "error" /\ p.state # "finished" /\ p.state \notin included
        BY <1>6, StatesDiffer
  <2>2. o \in Slots(t) /\ o >= i
        BY <1>2, <1>6 DEF Slots, OpenAt
  <2>3. ~ FormedFrom(t, included, i)
        BY <1>6, <2>2 DEF FormedFrom
  <2> QED BY <2>1, <2>3
<1> QED BY <1>1, <1>3, <1>4, <1>5, <1>6

\* validate accepts exactly the well-formed templates.  The walk has one
\* outcome at each position, since it only goes on to later ones.
LEMMA ValidatesWellFormed ==
  ASSUME NEW S, NEW t \in Seq(S), NEW included \in SUBSET Placeholders
  PROVE  Validate(t, included) <=> WellFormed(t, included)
<1> DEFINE n == Len(t)
           W(g) == [i \in 1 .. n + 1 |-> WalkStep(t, included, g, i)]
           formed == [i \in 1 .. n + 1 |-> FormedFrom(t, included, i)]
           c == CHOOSE g : g = W(g)
<1>1. n \in Nat
      OBVIOUS
<1>2. Validate(t, included) <=> c[1]
      BY DEF Validate, WalkStep
<1>3. \A i \in 1 .. n + 1 :
        /\ Process(t, i).state \in included => Process(t, i).next \in i + 1 .. n + 1
        /\ FormedFrom(t, included, i)
             <=> \/ Process(t, i).state = "finished"
                 \/ /\ Process(t, i).state \in included
                    /\ FormedFrom(t, included, Process(t, i).next)
      BY FormedStepwise
<1>4. formed = W(formed)
  <2>1. ASSUME NEW i \in 1 .. n + 1
        PROVE  FormedFrom(t, included, i) <=> WalkStep(t, included, formed, i)
    <3>1. CASE Process(t, i).state \in included
      <4>1. Process(t, i).next \in 1 .. n + 1
            BY <1>1, <1>3, <3>1
      <4>2. formed[Process(t, i).next] = FormedFrom(t, included, Process(t, i).next)
            BY <4>1
      <4> QED BY <1>3, <4>2 DEF WalkStep
    <3>2. CASE Process(t, i).state \notin included
          BY <1>3, <3>2 DEF WalkStep
    <3> QED BY <3>1, <3>2
  <2>2. ASSUME NEW i \in 1 .. n + 1
        PROVE  FormedFrom(t, included, i) = WalkStep(t, included, formed, i)
    <3>1. FormedFrom(t, included, i) \in BOOLEAN
          BY DEF FormedFrom
    <3>2. WalkStep(t, included, formed, i) \in BOOLEAN
          BY DEF WalkStep
    <3> QED BY <2>1, <3>1, <3>2
  <2> QED BY <2>2
<1>5. c = W(c)
      BY <1>4
<1> HIDE DEF c
<1>6. \A i \in 1 .. n + 1 : c[i] = WalkStep(t, included, c, i)
      BY <1>5
<1>7. \A i \in 1 .. n + 1 : c[i] <=> FormedFrom(t, included, i)
  <2> DEFINE Bad == {d \in 0 .. n : ~ (c[n + 1 - d] <=> FormedFrom(t, included, n + 1 - d))}
  <2> SUFFICES ASSUME Bad # {} PROVE FALSE
    <3>1. ASSUME NEW i \in 1 .. n + 1, Bad = {} PROVE c[i] <=> FormedFrom(t, included, i)
      <4>1. n + 1 - i \in 0 .. n /\ n + 1 - (n + 1 - i) = i
            BY <1>1
      <4>2. n + 1 - i \notin Bad
            BY <3>1
      <4> QED BY <4>1, <4>2
    <3> QED BY <3>1
  <2>1. Bad \in SUBSET Nat
        BY <1>1
  <2>2. PICK d \in Bad : \A y \in Bad : d <= y
        BY <2>1, Least
  <2>3. PICK i : i = n + 1 - d
        OBVIOUS
  <2>4. d \in 0 .. n /\ i \in 1 .. n + 1 /\ ~ (c[i] <=> FormedFrom(t, included, i))
        BY <1>1, <2>2, <2>3
  <2>5. ASSUME NEW j \in i + 1 .. n + 1 PROVE c[j] <=> FormedFrom(t, included, j)
    <3>1. n + 1 - j \in 0 .. n /\ n + 1 - j < d /\ n + 1 - (n + 1 - j) = j
          BY <1>1, <2>3, <2>4
    <3>2. n + 1 - j \notin Bad
          BY <2>1, <2>2, <3>1
    <3> QED BY <3>1, <3>2
  <2>6. c[i] = WalkStep(t, included, c, i)
        BY <1>6, <2>4
  <2>7. CASE Process(t, i).state \in included
    <3>1. Process(t, i).next \in i + 1 .. n + 1
          BY <1>3, <2>4, <2>7
    <3>2. c[Process(t, i).next] <=> FormedFrom(t, included, Process(t, i).next)
          BY <2>5, <3>1
    <3> QED BY <1>3, <2>4, <2>6, <3>2 DEF WalkStep
  <2>8. CASE Process(t, i).state \notin included
        BY <1>3, <2>4, <2>6, <2>8 DEF WalkStep
  <2> QED BY <2>7, <2>8
<1>8. c[1] <=> FormedFrom(t, included, 1)
      BY <1>1, <1>7
<1> QED BY <1>2, <1>8, FormedThroughout

\* Start-up accepts the well-formed templates, whatever they are.
THEOREM AlwaysAcceptsWellFormed == Spec => []AcceptsWellFormed
<1>1. \A t \in Templates : Validate(t, Allowed(kind)) <=> WellFormed(t, Allowed(kind))
  <2> TAKE t \in Templates
  <2>1. t \in Seq(STRING)
        BY TemplatesAreTexts
  <2>2. Allowed(kind) \in SUBSET Placeholders
        BY DEF Allowed, Placeholders
  <2> QED BY <2>1, <2>2, ValidatesWellFormed
<1>2. AcceptsWellFormed
      BY <1>1 DEF AcceptsWellFormed
<1> QED BY <1>2, PTL

-----------------------------------------------------------------------------
(***************************************************************************)
(* Bytes.                                                                  *)
(***************************************************************************)

\* What a mark counts, and the sums of the first marks of a sequence.
Counts(parts, m) == IF m.what \in parts THEN m.size ELSE 0
Summed(parts, marks, f) ==
  /\ f \in [0 .. Len(marks) -> Nat] /\ f[0] = 0
  /\ \A n \in 1 .. Len(marks) : f[n] = f[n - 1] + Counts(parts, marks[n])

\* A mark counts a natural number.
LEMMA CountsNatural ==
  ASSUME NEW parts, NEW marks \in Seq(Marks), NEW n \in 1 .. Len(marks)
  PROVE  Counts(parts, marks[n]) \in Nat
<1>1. marks[n] \in Marks
      OBVIOUS
<1> QED BY <1>1 DEF Counts, Marks

\* The sums are what BytesOf computes: a function of that kind exists, since
\* one over the first n marks extends to one over the first n + 1.
LEMMA BytesAreSummed ==
  ASSUME NEW parts, NEW marks \in Seq(Marks)
  PROVE  \E f : Summed(parts, marks, f) /\ BytesOf(parts, marks) = f[Len(marks)]
<1> DEFINE V(n) == IF marks[n].what \in parts THEN marks[n].size ELSE 0
           F(m, g) == [n \in 0 .. m |-> IF n = 0 THEN 0 ELSE g[n - 1] + V(n)]
           A == {m \in Nat : \E g : g = F(m, g)}
           c == CHOOSE g : g = F(Len(marks), g)
<1>1. 0 \in A
  <2>1. [n \in 0 .. 0 |-> 0] = F(0, [n \in 0 .. 0 |-> 0])
        OBVIOUS
  <2> QED BY <2>1
<1>2. ASSUME NEW m \in A PROVE m + 1 \in A
  <2>1. PICK g : g = F(m, g)
        OBVIOUS
  <2> DEFINE h == [n \in 0 .. m + 1 |-> IF n <= m THEN g[n] ELSE g[m] + V(n)]
  <2>2. m \in Nat
        OBVIOUS
  <2>3. ASSUME NEW n \in 0 .. m + 1
        PROVE  h[n] = IF n = 0 THEN 0 ELSE h[n - 1] + V(n)
    <3> HIDE DEF V
    <3>1. CASE n = 0
      <4>1. g[0] = 0
            BY <2>1, <2>2
      <4> QED BY <2>2, <3>1, <4>1
    <3>2. CASE n \in 1 .. m
      <4>1. h[n] = g[n] /\ h[n - 1] = g[n - 1]
            BY <2>2, <3>2
      <4>2. n \in 0 .. m /\ n # 0
            BY <2>2, <3>2
      <4>3. g[n] = g[n - 1] + V(n)
            BY <2>1, <4>2
      <4> QED BY <4>1, <4>2, <4>3
    <3>3. CASE n = m + 1
      <4>1. h[n] = g[m] + V(n) /\ h[n - 1] = g[m]
            BY <2>2, <3>3
      <4> QED BY <2>2, <3>3, <4>1
    <3> QED BY <2>2, <3>1, <3>2, <3>3
  <2>4. h = F(m + 1, h)
    <3> HIDE DEF V
    <3> QED BY <2>3
  <2> HIDE DEF h, F
  <2> QED BY <2>2, <2>4
<1>3. Len(marks) \in A
  <2>1. A \in SUBSET Nat /\ Len(marks) \in Nat
        OBVIOUS
  <2> HIDE DEF A
  <2>2. A = Nat
        BY <1>1, <1>2, <2>1, Inductive
  <2> QED BY <2>1, <2>2
<1>4. c = F(Len(marks), c)
  <2> HIDE DEF F
  <2> QED BY <1>3
<1>5. BytesOf(parts, marks) = c[Len(marks)]
      BY DEF BytesOf
<1> HIDE DEF c
<1>6. Len(marks) \in Nat /\ DOMAIN c = 0 .. Len(marks) /\ c[0] = 0
      BY <1>4
<1>7. ASSUME NEW n \in 1 .. Len(marks)
      PROVE  c[n] = c[n - 1] + Counts(parts, marks[n])
  <2>1. n \in 0 .. Len(marks) /\ n # 0
        OBVIOUS
  <2> QED BY <1>4, <2>1 DEF Counts
<1>8. \A n \in 0 .. Len(marks) : c[n] \in Nat
  <2> DEFINE N == {n \in Nat : n \in 0 .. Len(marks) => c[n] \in Nat}
  <2>1. 0 \in N
        BY <1>6
  <2>2. ASSUME NEW n \in N PROVE n + 1 \in N
    <3> SUFFICES ASSUME n + 1 \in 0 .. Len(marks) PROVE c[n + 1] \in Nat
        OBVIOUS
    <3>1. n + 1 \in 1 .. Len(marks) /\ n \in 0 .. Len(marks) /\ n + 1 - 1 = n
          BY <1>6
    <3>2. c[n + 1] = c[n] + Counts(parts, marks[n + 1])
          BY <1>7, <3>1
    <3>3. Counts(parts, marks[n + 1]) \in Nat
          BY <3>1, CountsNatural
    <3> QED BY <3>1, <3>2, <3>3
  <2>3. N \in SUBSET Nat
        OBVIOUS
  <2> HIDE DEF N
  <2>4. N = Nat
        BY <2>1, <2>2, <2>3, Inductive
  <2> QED BY <2>4 DEF N
<1>9. c \in [0 .. Len(marks) -> Nat]
  <2>1. c = [n \in 0 .. Len(marks) |-> c[n]]
        BY <1>4
  <2> QED BY <1>8, <2>1
<1> QED BY <1>5, <1>6, <1>7, <1>9 DEF Summed

\* There is only one way to sum up the marks.
LEMMA SumsAgree ==
  ASSUME NEW parts, NEW marks \in Seq(Marks), NEW f, Summed(parts, marks, f)
  PROVE  BytesOf(parts, marks) = f[Len(marks)] /\ BytesOf(parts, marks) \in Nat
<1>1. PICK g : Summed(parts, marks, g) /\ BytesOf(parts, marks) = g[Len(marks)]
      BY BytesAreSummed
<1> DEFINE A == {n \in Nat : n \in 0 .. Len(marks) => f[n] = g[n]}
<1>2. 0 \in A
      BY <1>1 DEF Summed
<1>3. ASSUME NEW n \in A PROVE n + 1 \in A
  <2> SUFFICES ASSUME n + 1 \in 0 .. Len(marks) PROVE f[n + 1] = g[n + 1]
      OBVIOUS
  <2>1. n + 1 \in 1 .. Len(marks) /\ n \in 0 .. Len(marks) /\ n + 1 - 1 = n
        OBVIOUS
  <2>2. f[n + 1] = f[n] + Counts(parts, marks[n + 1])
        BY <2>1 DEF Summed
  <2>3. g[n + 1] = g[n] + Counts(parts, marks[n + 1])
        BY <1>1, <2>1 DEF Summed
  <2> QED BY <2>1, <2>2, <2>3
<1>4. A \in SUBSET Nat
      OBVIOUS
<1> HIDE DEF A
<1>5. A = Nat
      BY <1>2, <1>3, <1>4, Inductive
<1>6. Len(marks) \in 0 .. Len(marks) /\ Len(marks) \in A
      BY <1>5
<1>7. f[Len(marks)] = g[Len(marks)]
      BY <1>6 DEF A
<1> QED BY <1>1, <1>6, <1>7 DEF Summed

\* Bytes are counted by natural numbers.
LEMMA BytesNatural ==
  ASSUME NEW parts, NEW marks \in Seq(Marks)
  PROVE  BytesOf(parts, marks) \in Nat
BY BytesAreSummed, SumsAgree

\* Marks of other parts do not count, nor does an empty sequence.
LEMMA BytesOfNone ==
  ASSUME NEW parts, NEW marks \in Seq(Marks),
         \A i \in 1 .. Len(marks) : marks[i].what \notin parts
  PROVE  BytesOf(parts, marks) = 0
<1> DEFINE f == [n \in 0 .. Len(marks) |-> 0]
<1>1. Summed(parts, marks, f)
      BY DEF Summed, Counts
<1>2. Len(marks) \in 0 .. Len(marks)
      OBVIOUS
<1> HIDE DEF f
<1>3. BytesOf(parts, marks) = f[Len(marks)]
      BY <1>1, SumsAgree
<1> QED BY <1>2, <1>3 DEF f

\* A single mark counts by itself.
LEMMA BytesOfOne ==
  ASSUME NEW parts, NEW m \in Marks
  PROVE  BytesOf(parts, <<m>>) = Counts(parts, m)
<1> DEFINE u == <<m>>
           f == [n \in 0 .. 1 |-> IF n = 0 THEN 0 ELSE Counts(parts, m)]
<1>1. u \in Seq(Marks) /\ Len(u) = 1 /\ u[1] = m
      OBVIOUS
<1>2. Counts(parts, m) \in Nat
      BY DEF Counts, Marks
<1>3. Summed(parts, u, f)
  <2>1. f \in [0 .. 1 -> Nat] /\ f[0] = 0 /\ f[1] = Counts(parts, m)
        BY <1>2
  <2> HIDE DEF f, u
  <2>2. \A n \in 1 .. 1 : n = 1 /\ n - 1 = 0
        OBVIOUS
  <2> QED BY <1>1, <1>2, <2>1, <2>2 DEF Summed
<1> HIDE DEF u
<1>4. BytesOf(parts, u) = f[1]
      BY <1>1, <1>3, SumsAgree
<1> QED BY <1>4 DEF u

\* Bytes of two sequences add up.
LEMMA BytesJoined ==
  ASSUME NEW parts, NEW s \in Seq(Marks), NEW u \in Seq(Marks)
  PROVE  BytesOf(parts, s \o u) = BytesOf(parts, s) + BytesOf(parts, u)
<1> DEFINE a == Len(s)
           b == Len(u)
           r == s \o u
<1>1. PICK f : Summed(parts, s, f) /\ BytesOf(parts, s) = f[a]
      BY BytesAreSummed
<1>2. PICK g : Summed(parts, u, g) /\ BytesOf(parts, u) = g[b]
      BY BytesAreSummed
<1> DEFINE h == [n \in 0 .. a + b |-> IF n <= a THEN f[n] ELSE f[a] + g[n - a]]
<1>3. /\ a \in Nat /\ b \in Nat /\ r \in Seq(Marks) /\ Len(r) = a + b
      /\ \A n \in 1 .. a : r[n] = s[n]
      /\ \A n \in a + 1 .. a + b : r[n] = u[n - a]
      OBVIOUS
<1>4. /\ f \in [0 .. a -> Nat] /\ f[0] = 0 /\ g \in [0 .. b -> Nat] /\ g[0] = 0
      /\ \A n \in 1 .. a : f[n] = f[n - 1] + Counts(parts, s[n])
      /\ \A n \in 1 .. b : g[n] = g[n - 1] + Counts(parts, u[n])
      BY <1>1, <1>2 DEF Summed
<1> HIDE DEF a, b, r
<1>5. h \in [0 .. a + b -> Nat] /\ h[0] = 0 /\ h[a + b] = f[a] + g[b]
  <2>1. ASSUME NEW n \in 0 .. a + b PROVE h[n] \in Nat
    <3>1. CASE n <= a
          BY <1>3, <1>4, <3>1
    <3>2. CASE ~ (n <= a)
      <4>1. n - a \in 0 .. b /\ a \in 0 .. a
            BY <1>3, <3>2
      <4>2. g[n - a] \in Nat /\ f[a] \in Nat
            BY <1>4, <4>1
      <4> QED BY <3>2, <4>2
    <3> QED BY <3>1, <3>2
  <2>2. h[a + b] = f[a] + g[b]
    <3>1. CASE b = 0
      <4>1. f[a] \in Nat /\ a + b = a
            BY <1>3, <1>4, <3>1
      <4>2. h[a + b] = f[a]
            BY <1>3, <4>1
      <4> QED BY <1>4, <3>1, <4>1, <4>2
    <3>2. CASE b > 0
      <4>1. PICK m : m = a + b
            OBVIOUS
      <4>2. ~ (m <= a) /\ m \in 0 .. a + b /\ m - a = b
            BY <1>3, <3>2, <4>1
      <4>3. h[m] = f[a] + g[m - a]
            BY <4>2
      <4> QED BY <4>1, <4>2, <4>3
    <3> QED BY <1>3, <3>1, <3>2
  <2>3. h \in [0 .. a + b -> Nat]
    <3> DEFINE value(n) == IF n <= a THEN f[n] ELSE f[a] + g[n - a]
    <3>1. \A n \in 0 .. a + b : h[n] = value(n)
          OBVIOUS
    <3>2. \A n \in 0 .. a + b : value(n) \in Nat
          BY <2>1, <3>1
    <3> HIDE DEF value
    <3>3. h = [n \in 0 .. a + b |-> value(n)]
          BY DEF value
    <3> HIDE DEF h
    <3> QED BY <3>2, <3>3
  <2>4. h[0] = 0
        BY <1>3, <1>4
  <2> QED BY <2>2, <2>3, <2>4
<1>6. ASSUME NEW n \in 1 .. a + b
      PROVE  h[n] = h[n - 1] + Counts(parts, r[n])
  <2>1. CASE n <= a
    <3>1. n \in 1 .. a /\ n - 1 <= a /\ n \in 0 .. a + b /\ n - 1 \in 0 .. a + b
          BY <1>3, <2>1
    <3>2. h[n] = f[n] /\ h[n - 1] = f[n - 1]
          BY <3>1
    <3> QED BY <1>3, <1>4, <3>1, <3>2
  <2>2. CASE ~ (n <= a)
    <3>1. n - a \in 1 .. b /\ n \in a + 1 .. a + b /\ n - a - 1 = n - 1 - a
          BY <1>3, <2>2
    <3>2. h[n] = f[a] + g[n - a]
          BY <1>3, <2>2
    <3>3. h[n - 1] = f[a] + g[n - 1 - a]
      <4>1. PICK m \in 0 .. a + b : m = n - 1
            BY <1>3
      <4>2. h[m] = IF m <= a THEN f[m] ELSE f[a] + g[m - a]
            OBVIOUS
      <4>3. f[a] \in Nat /\ g[0] = 0
            BY <1>3, <1>4
      <4> HIDE DEF h
      <4>4. CASE m = a
        <5>1. h[m] = f[a] /\ m - a = 0
              BY <1>3, <4>2, <4>4
        <5>2. h[m] = f[a] + g[m - a]
              BY <4>3, <5>1
        <5> QED BY <4>1, <5>2
      <4>5. CASE m # a
        <5>1. ~ (m <= a)
              BY <1>3, <2>2, <4>1, <4>5
        <5>2. h[m] = f[a] + g[m - a]
              BY <4>2, <5>1
        <5> QED BY <4>1, <5>2
      <4> QED BY <4>4, <4>5
    <3>4. r[n] = u[n - a] /\ g[n - a] = g[n - 1 - a] + Counts(parts, u[n - a])
          BY <1>3, <1>4, <3>1
    <3>5. f[a] \in Nat /\ g[n - 1 - a] \in Nat /\ Counts(parts, u[n - a]) \in Nat
      <4>1. a \in 0 .. a /\ n - 1 - a \in 0 .. b
            BY <1>3, <3>1
      <4>2. Counts(parts, u[n - a]) \in Nat
            BY <3>1, CountsNatural DEF b
      <4> QED BY <1>4, <4>1, <4>2
    <3> HIDE DEF h
    <3> QED BY <3>2, <3>3, <3>4, <3>5
  <2> QED BY <2>1, <2>2
<1> HIDE DEF h
<1>7. Summed(parts, r, h)
      BY <1>3, <1>5, <1>6 DEF Summed
<1>8. BytesOf(parts, r) = h[a + b]
  <2>1. BytesOf(parts, r) = h[Len(r)]
        BY <1>3, <1>7, SumsAgree
  <2> QED BY <1>3, <2>1
<1> QED BY <1>1, <1>2, <1>5, <1>8 DEF r

-----------------------------------------------------------------------------
(***************************************************************************)
(* Sizes, delays and what a sequence of marks holds.                       *)
(***************************************************************************)

\* A range to draw from holds natural numbers, and no end of it is too far.
LEMMA SpanNatural ==
  ASSUME NEW min \in Nat, NEW max \in Nat \cup {NotSet}
  PROVE  /\ Span(min, max) \in SUBSET Nat
         /\ \A x \in Span(min, max) : x >= min
         /\ \E b \in Nat : \A x \in Span(min, max) : x <= b
<1>1. CASE max = NotSet
      BY <1>1 DEF Span
<1>2. CASE max # NotSet
      BY <1>2 DEF Span
<1> QED BY <1>1, <1>2

\* Paragraphs have natural sizes, and a greatest one.
LEMMA ParagraphsNatural ==
  ASSUME NEW n \in Nat
  PROVE  /\ Paragraphs(n) \in SUBSET Nat
         /\ \E b \in Nat : \A x \in Paragraphs(n) : x <= b
<1>1. PICK words : words = Span(MinParagraph, MaxParagraph)
      OBVIOUS
<1>2. words \in SUBSET Nat /\ \E b \in Nat : \A x \in words : x <= b
      BY <1>1, SpanNatural, SizesAreNaturals
<1>3. Paragraphs(n) = IF words = {} THEN {}
                      ELSE UNION {k .. k * (1 + Max(words)) : k \in 1 .. n}
      BY <1>1 DEF Paragraphs
<1>4. CASE words = {}
      BY <1>3, <1>4
<1>5. CASE words # {}
  <2>1. PICK b \in Nat : \A x \in words : x <= b
        BY <1>2
  <2>2. PICK c \in Nat : c = 1 + Max(words)
    <3>1. Max(words) \in Nat
          BY <1>2, <1>5, <2>1, Greatest
    <3> QED BY <3>1
  <2>3. \A k \in 1 .. n : k * c \in Nat /\ k * c <= n * c /\ n * c \in Nat
        BY <2>2
  <2>4. ASSUME NEW x \in Paragraphs(n) PROVE x \in Nat /\ x <= n * c
    <3>1. PICK k \in 1 .. n : x \in k .. k * c
          BY <1>3, <1>5, <2>2
    <3>2. k \in Nat /\ k * c \in Nat /\ k * c <= n * c /\ n * c \in Nat
          BY <2>3
    <3> QED BY <3>1, <3>2
  <2>5. n * c \in Nat
        BY <2>2
  <2> QED BY <2>4, <2>5
<1> QED BY <1>4, <1>5

\* What the generators write, and how long the stream sleeps.
LEMMA SizesNatural ==
  /\ InitialSizes \in SUBSET Nat /\ FooterSizes \in SUBSET Nat
  /\ Sections \in SUBSET Nat /\ Delays \in SUBSET Nat
  /\ \A d \in Delays : d >= MinDelay
<1>1. InitialSizes \in SUBSET Nat
      BY ParagraphsNatural, SizesAreNaturals DEF InitialSizes
<1>2. FooterSizes \in SUBSET Nat
      BY SizesAreNaturals DEF FooterSizes
<1>3. Sections \in SUBSET Nat
      BY ParagraphsNatural, SizesAreNaturals DEF Sections
<1>4. Delays \in SUBSET Nat /\ \A d \in Delays : d >= MinDelay
      BY SpanNatural, SizesAreNaturals DEF Delays
<1> QED BY <1>1, <1>2, <1>3, <1>4

\* No section is longer than the longest.
LEMMA SectionsBounded ==
  /\ Max(Sections \cup {0}) \in Nat
  /\ \A size \in Sections : size <= Max(Sections \cup {0})
<1>1. PICK b \in Nat : \A x \in Paragraphs(SectionParagraphs) : x <= b
      BY ParagraphsNatural, SizesAreNaturals
<1>2. PICK N : N = Sections \cup {0}
      OBVIOUS
<1>3. N \in SUBSET Nat /\ N # {} /\ \A x \in N : x <= b + 1
      BY <1>1, <1>2, ParagraphsNatural, SizesAreNaturals DEF Sections
<1>4. b + 1 \in Nat
      BY <1>1
<1>5. Max(N) \in N /\ \A x \in N : x <= Max(N)
      BY <1>3, <1>4, Greatest
<1> QED BY <1>2, <1>3, <1>5

\* The empty sequence has no marks.
LEMMA RangeOfNone == Range(<<>>) = {}
BY DEF Range

\* One mark is the mark of its sequence.
LEMMA RangeOfOne == ASSUME NEW m PROVE Range(<<m>>) = {m}
<1> DEFINE u == <<m>>
<1>1. DOMAIN u = 1 .. 1 /\ u[1] = m
      OBVIOUS
<1> HIDE DEF u
<1>2. Range(u) = {m}
  <2>1. \A i \in DOMAIN u : i = 1
        BY <1>1
  <2>2. 1 \in DOMAIN u
        BY <1>1
  <2> QED BY <1>1, <2>1, <2>2 DEF Range
<1> QED BY <1>2 DEF u

\* What two sequences hold is what they hold when they are joined.
LEMMA RangeJoined ==
  ASSUME NEW S, NEW s \in Seq(S), NEW u \in Seq(S)
  PROVE  Range(s \o u) = Range(s) \cup Range(u)
<1> DEFINE r == s \o u
<1>1. /\ DOMAIN s = 1 .. Len(s) /\ DOMAIN u = 1 .. Len(u)
      /\ DOMAIN r = 1 .. Len(s) + Len(u) /\ Len(s) \in Nat /\ Len(u) \in Nat
      /\ \A i \in 1 .. Len(s) : r[i] = s[i]
      /\ \A i \in 1 .. Len(u) : r[Len(s) + i] = u[i]
      OBVIOUS
<1> HIDE DEF r
<1>2. ASSUME NEW x \in Range(r) PROVE x \in Range(s) \cup Range(u)
  <2>1. PICK i \in DOMAIN r : x = r[i]
        BY DEF Range
  <2>2. CASE i \in 1 .. Len(s)
        BY <1>1, <2>1, <2>2 DEF Range
  <2>3. CASE i \notin 1 .. Len(s)
    <3>1. i - Len(s) \in 1 .. Len(u) /\ Len(s) + (i - Len(s)) = i
          BY <1>1, <2>3
    <3>2. x = u[i - Len(s)]
          BY <1>1, <2>1, <3>1
    <3> QED BY <1>1, <3>1, <3>2 DEF Range
  <2> QED BY <2>2, <2>3
<1>3. ASSUME NEW x \in Range(s) PROVE x \in Range(r)
  <2>1. PICK i \in 1 .. Len(s) : x = s[i]
        BY <1>1 DEF Range
  <2>2. i \in DOMAIN r /\ x = r[i]
        BY <1>1, <2>1
  <2> QED BY <2>2 DEF Range
<1>4. ASSUME NEW x \in Range(u) PROVE x \in Range(r)
  <2>1. PICK i \in 1 .. Len(u) : x = u[i]
        BY <1>1 DEF Range
  <2>2. Len(s) + i \in DOMAIN r /\ x = r[Len(s) + i]
        BY <1>1, <2>1
  <2> QED BY <2>2 DEF Range
<1> QED BY <1>2, <1>3, <1>4 DEF r

\* A mark is appended as the sequence of it alone is.
LEMMA AppendJoins ==
  ASSUME NEW S, NEW s \in Seq(S), NEW m \in S
  PROVE  /\ Append(s, m) = s \o <<m>> /\ Append(s, m) \in Seq(S)
         /\ Range(Append(s, m)) = Range(s) \cup {m}
<1>1. <<m>> \in Seq(S) /\ Append(s, m) = s \o <<m>> /\ Append(s, m) \in Seq(S)
      OBVIOUS
<1>2. PICK u \in Seq(S) : u = <<m>>
      BY <1>1
<1>3. Range(s \o u) = Range(s) \cup Range(u)
      BY RangeJoined
<1>4. Range(u) = {m}
      BY <1>2, RangeOfOne
<1>5. PICK r : r = Append(s, m)
      OBVIOUS
<1>6. r = s \o u
      BY <1>1, <1>2, <1>5
<1>7. Range(r) = Range(s) \cup {m}
      BY <1>3, <1>4, <1>6
<1> QED BY <1>1, <1>5, <1>7

\* The marks of a sequence of marks are marks.
LEMMA RangeOfMarks == ASSUME NEW s \in Seq(Marks) PROVE Range(s) \in SUBSET Marks
BY DEF Range

-----------------------------------------------------------------------------
(***************************************************************************)
(* Types.                                                                  *)
(***************************************************************************)

\* What write_template returns at the cursor: the end of the page, or a
\* placeholder.
EndHere ==
  Here.state = "finished" /\ Here.next = cursor /\ Here.at \in cursor .. Len(template) + 1
SlotHere(o, w, e) ==
  /\ OpenAt(template, cursor, o) /\ SlotAt(template, o, w, e)
  /\ Here = [state |-> template[w], at |-> o, next |-> e + 1]

\* The text up to what it returns, as marks.
TextHere == [k \in 1 .. Here.at - cursor |-> Mark("text", cursor + k - 1, 1, 0)]

\* A mark of a part at a place.
LEMMA MarkTyped ==
  ASSUME NEW what \in Parts, NEW at \in Nat, NEW size \in Nat, NEW tag \in Nat
  PROVE  /\ Mark(what, at, size, tag) \in Marks
         /\ Mark(what, at, size, tag).what = what
         /\ Mark(what, at, size, tag).at = at
         /\ Mark(what, at, size, tag).size = size
         /\ Mark(what, at, size, tag).tag = tag
BY DEF Mark, Marks

\* The cursor finds the one or the other.
LEMMA HereFinds ==
  ASSUME TypeOK
  PROVE  EndHere \/ \E o, w, e \in 1 .. Len(template) : SlotHere(o, w, e)
<1>1. PICK t : t = template
      OBVIOUS
<1>2. PICK i : i = cursor
      OBVIOUS
<1>3. t \in Seq(STRING) /\ i \in 1 .. Len(t) + 1
      BY <1>1, <1>2, TemplatesAreTexts DEF TypeOK
<1>4. PICK p : p = Process(t, i)
      OBVIOUS
<1>5. Here = IF p.state = "error" THEN [p EXCEPT !.state = "finished"] ELSE p
      BY <1>1, <1>2, <1>4 DEF Here, WriteTemplate
<1>6. \/ p = [state |-> "finished", at |-> Len(t) + 1, next |-> i]
      \/ \E o, w, e \in 1 .. Len(t) :
           /\ OpenAt(t, i, o) /\ SlotAt(t, o, w, e)
           /\ p = [state |-> t[w], at |-> o, next |-> e + 1]
      \/ p = [state |-> "error", at |-> i, next |-> i]
      BY <1>3, <1>4, Processed
<1>7. CASE p = [state |-> "finished", at |-> Len(t) + 1, next |-> i]
  <2>1. Here = p
        BY <1>5, <1>7, StatesDiffer
  <2> QED BY <1>1, <1>2, <1>3, <1>7, <2>1 DEF EndHere
<1>8. ASSUME NEW o \in 1 .. Len(t), NEW w \in 1 .. Len(t), NEW e \in 1 .. Len(t),
             OpenAt(t, i, o), SlotAt(t, o, w, e),
             p = [state |-> t[w], at |-> o, next |-> e + 1]
      PROVE  SlotHere(o, w, e)
  <2>1. t[w] # "error"
        BY <1>8, StatesDiffer DEF SlotAt
  <2>2. Here = p
        BY <1>5, <1>8, <2>1
  <2> QED BY <1>1, <1>2, <1>8, <2>2 DEF SlotHere
<1>9. CASE p = [state |-> "error", at |-> i, next |-> i]
  <2>1. Here = [state |-> "finished", at |-> i, next |-> i]
        BY <1>5, <1>9
  <2> QED BY <1>1, <1>2, <1>3, <2>1 DEF EndHere
<1> QED BY <1>1, <1>6, <1>7, <1>8, <1>9

\* Where that is: a placeholder lies behind the cursor, and the next cursor
\* behind the placeholder.
LEMMA HereBehind ==
  ASSUME TypeOK
  PROVE  /\ Here.at \in cursor .. Len(template) + 1
         /\ Here.next \in 1 .. Len(template) + 1
         /\ Here.state # "finished" =>
              Slot \in Nat /\ Here.at < Slot /\ Slot = Here.next - 1
<1>1. cursor \in 1 .. Len(template) + 1 /\ Len(template) \in Nat
      BY TemplatesAreTexts DEF TypeOK
<1>2. CASE EndHere
      BY <1>1, <1>2 DEF EndHere
<1>3. ASSUME NEW o \in 1 .. Len(template), NEW w \in 1 .. Len(template),
             NEW e \in 1 .. Len(template), SlotHere(o, w, e)
      PROVE  /\ Here.at \in cursor .. Len(template) + 1
             /\ Here.next \in 1 .. Len(template) + 1
             /\ Slot \in Nat /\ Here.at < Slot /\ Slot = Here.next - 1
  <2>1. Here.at = o /\ Here.next = e + 1
        BY <1>3 DEF SlotHere
  <2>2. o \in cursor .. Len(template) /\ w \in o + 1 .. Len(template) /\ e \in w + 1 .. Len(template)
        BY <1>3 DEF SlotHere, OpenAt, SlotAt
  <2> QED BY <1>1, <2>1, <2>2 DEF Slot
<1> QED BY <1>2, <1>3, HereFinds

\* The text before it is marked by positions.
LEMMA WrittenTyped ==
  ASSUME TypeOK
  PROVE  /\ TextHere \in Seq(Marks) /\ Len(TextHere) = Here.at - cursor
         /\ \A k \in 1 .. Len(TextHere) : TextHere[k] = Mark("text", cursor + k - 1, 1, 0)
         /\ Range(TextHere) = {Mark("text", x, 1, 0) : x \in cursor .. Here.at - 1}
         /\ Written = buffer \o TextHere /\ Written \in Seq(Marks)
         /\ Range(Written) = Range(buffer) \cup Range(TextHere)
<1> DEFINE u == TextHere
           a == Here.at
<1>1. /\ cursor \in Nat \ {0} /\ a \in Nat /\ cursor <= a /\ buffer \in Seq(Marks)
  <2>1. a \in cursor .. Len(template) + 1
        BY HereBehind
  <2> QED BY <2>1 DEF TypeOK
<1>2. u = [k \in 1 .. a - cursor |-> Mark("text", cursor + k - 1, 1, 0)]
      BY DEF TextHere
<1> HIDE DEF a, u
<1>3. ASSUME NEW x \in cursor .. a - 1 PROVE Mark("text", x, 1, 0) \in Marks
  <2>1. "text" \in Parts /\ x \in Nat
        BY <1>1 DEF Parts
  <2> QED BY <2>1, MarkTyped
<1>4. \A k \in 1 .. a - cursor : cursor + k - 1 \in cursor .. a - 1
      BY <1>1
<1>5. a - cursor \in Nat
      BY <1>1
<1>6. u \in Seq(Marks) /\ Len(u) = a - cursor
  <2>1. PICK n \in Nat : n = a - cursor
        BY <1>5
  <2>2. u = [k \in 1 .. n |-> Mark("text", cursor + k - 1, 1, 0)]
        BY <1>2, <2>1
  <2>3. u \in [1 .. n -> Marks]
        BY <1>3, <1>4, <2>1, <2>2
  <2> QED BY <2>1, <2>3
<1>7. \A k \in 1 .. Len(u) : u[k] = Mark("text", cursor + k - 1, 1, 0)
      BY <1>2, <1>6
<1>8. Range(u) = {Mark("text", x, 1, 0) : x \in cursor .. a - 1}
  <2>1. DOMAIN u = 1 .. a - cursor
        BY <1>2
  <2>2. ASSUME NEW m \in Range(u) PROVE \E x \in cursor .. a - 1 : m = Mark("text", x, 1, 0)
        BY <1>2, <1>4, <2>1 DEF Range
  <2>3. ASSUME NEW x \in cursor .. a - 1 PROVE Mark("text", x, 1, 0) \in Range(u)
    <3>1. x - cursor + 1 \in 1 .. a - cursor /\ cursor + (x - cursor + 1) - 1 = x
          BY <1>1
    <3>2. u[x - cursor + 1] = Mark("text", x, 1, 0)
          BY <1>2, <3>1
    <3> QED BY <2>1, <3>1, <3>2 DEF Range
  <2> QED BY <2>2, <2>3
<1>9. Written = buffer \o u
      BY <1>2 DEF Written, a
<1>10. Written \in Seq(Marks) /\ Range(Written) = Range(buffer) \cup Range(u)
  <2>1. buffer \o u \in Seq(Marks)
        BY <1>1, <1>6
  <2>2. Range(buffer \o u) = Range(buffer) \cup Range(u)
        BY <1>1, <1>6, RangeJoined
  <2> QED BY <1>9, <2>1, <2>2
<1> QED BY <1>6, <1>7, <1>8, <1>9, <1>10 DEF a, u

\* Appending a mark of a part to what is written.
LEMMA WrittenAppended ==
  ASSUME TypeOK, Here.state # "finished", NEW what \in Parts, NEW size \in Nat, NEW tag \in Nat
  PROVE  LET m == Mark(what, Slot, size, tag)
         IN  /\ m \in Marks /\ Append(Written, m) \in Seq(Marks)
             /\ Append(Written, m) = Written \o <<m>>
             /\ Range(Append(Written, m)) = Range(buffer) \cup Range(TextHere) \cup {m}
<1>1. PICK m : m = Mark(what, Slot, size, tag)
      OBVIOUS
<1>2. Slot \in Nat
      BY HereBehind
<1>3. m \in Marks
      BY <1>1, <1>2, MarkTyped
<1>4. Written \in Seq(Marks) /\ Range(Written) = Range(buffer) \cup Range(TextHere)
      BY WrittenTyped
<1>5. PICK s \in Seq(Marks) : s = Written
      BY <1>4
<1>6. /\ Append(s, m) = s \o <<m>> /\ Append(s, m) \in Seq(Marks)
      /\ Range(Append(s, m)) = Range(s) \cup {m}
      BY <1>3, AppendJoins
<1> QED BY <1>1, <1>3, <1>4, <1>5, <1>6

\* A title that is taken is one the page may have, and so is the one it keeps.
LEMMA TitlesTyped ==
  ASSUME TypeOK, NEW text \in TitleTexts
  PROVE  LET mine == IF title = NoTitle THEN text ELSE title
         IN  mine \in Titles \cup {MessageTitle} /\ mine \in Nat /\ mine # NoTitle
BY TitlesAreNumbered DEF TypeOK, TitleTexts

\* A future is one of those of Jobs.
LEMMA JobTyped ==
  ASSUME NEW what \in {"initial", "main", "footer"}, NEW at \in Nat,
         NEW buf \in Seq(Marks), NEW keep \in BOOLEAN
  PROVE  LET j == [what |-> what, at |-> at, buf |-> buf, keep |-> keep]
         IN  j \in Jobs /\ j # NoJob
BY NoJobIsNone DEF Jobs

\* Placeholders are parts, and their names differ.
LEMMA PartsNamed ==
  /\ {"title", "initial", "main", "extra", "footer", "text"} \subseteq Parts
  /\ Placeholders \subseteq Parts /\ "text" \notin Placeholders
BY DEF Parts, Placeholders

\* What a future that is done hands over: its buffer and one mark.
LEMMA JobHandsOver ==
  ASSUME TypeOK, state = "GeneratingContent", NEW size \in Nat
  PROVE  LET m == Mark(job.what, job.at, size, 0)
         IN  /\ job \in Jobs /\ m \in Marks /\ Append(job.buf, m) \in Seq(Marks)
             /\ Append(job.buf, m) = job.buf \o <<m>>
             /\ Range(Append(job.buf, m)) = Range(job.buf) \cup {m}
<1>1. job \in Jobs
      BY DEF TypeOK
<1>2. PICK m : m = Mark(job.what, job.at, size, 0)
      OBVIOUS
<1>3. /\ job.what \in Parts /\ job.at \in Nat
      /\ job.buf \in Seq(Marks)
      BY <1>1, PartsNamed DEF Jobs
<1>4. m \in Marks
      BY <1>2, <1>3, MarkTyped
<1>5. PICK s \in Seq(Marks) : s = job.buf
      BY <1>3
<1>6. /\ Append(s, m) = s \o <<m>> /\ Append(s, m) \in Seq(Marks)
      /\ Range(Append(s, m)) = Range(s) \cup {m}
      BY <1>4, AppendJoins
<1> QED BY <1>1, <1>2, <1>4, <1>5, <1>6

\* What is handed over comes behind what was sent.
LEMMA Delivered ==
  ASSUME TypeOK, NEW buf \in Seq(Marks), output' = output \o buf
  PROVE  output' \in Seq(Marks) /\ Range(output') = Range(output) \cup Range(buf)
<1>1. PICK s \in Seq(Marks) : s = output
      BY DEF TypeOK
<1>2. s \o buf \in Seq(Marks) /\ Range(s \o buf) = Range(s) \cup Range(buf)
      BY RangeJoined
<1> QED BY <1>1, <1>2

\* The page starts well typed.
LEMMA TypeInit == Init => TypeOK
<1> SUFFICES ASSUME Init PROVE TypeOK
    OBVIOUS
<1>1. template \in Seq(STRING)
      BY TemplatesAreTexts DEF Init
<1>2. <<>> \in Seq(Marks) /\ cursor \in 1 .. Len(template) + 1
      BY <1>1 DEF Init
<1>3. MaxTime \in Nat
      BY SizesAreNaturals
<1>4. /\ template \in Templates /\ 0 \in 0 .. MaxTime /\ MaxTime \in 0 .. MaxTime
      /\ title \in Titles \cup {MessageTitle, NoTitle} /\ FALSE \in BOOLEAN
      BY <1>3 DEF Init
<1>5. kind \in Kinds /\ timeout \in Timeouts
      BY DEF Init
<1>6. buffer = <<>> /\ output = <<>> /\ job = NoJob /\ state = "Template" /\ ended = FALSE
      BY DEF Init
<1>7. total = 0 /\ left = 0 /\ now = 0 /\ gap = MaxTime
      BY DEF Init
<1> QED BY <1>2, <1>3, <1>4, <1>5, <1>6, <1>7 DEF TypeOK, States

\* The smaller of two naturals.
LEMMA Smaller ==
  ASSUME NEW a \in Nat, NEW b \in Nat
  PROVE  Min({a, b}) = IF a <= b THEN a ELSE b
<1>1. PICK N : N = {a, b}
      OBVIOUS
<1>2. N \in SUBSET Nat /\ N # {}
      BY <1>1
<1>3. Min(N) \in N /\ \A y \in N : Min(N) <= y
      BY <1>2, Least
<1> QED BY <1>1, <1>3

\* Every step leaves the page well typed.
LEMMA TypeNext == TypeOK /\ [Next]_vars => TypeOK'
<1> SUFFICES ASSUME TypeOK, [Next]_vars PROVE TypeOK'
    OBVIOUS
<1>1. /\ kind \in Kinds /\ template \in Templates /\ timeout \in Timeouts
      /\ cursor \in 1 .. Len(template) + 1 /\ buffer \in Seq(Marks)
      /\ title \in Titles \cup {MessageTitle, NoTitle} /\ total \in Nat /\ state \in States
      /\ job \in Jobs \cup {NoJob} /\ (state = "GeneratingContent" <=> job # NoJob)
      /\ left \in Nat /\ now \in 0 .. MaxTime /\ output \in Seq(Marks)
      /\ ended \in BOOLEAN /\ gap \in 0 .. MaxTime
      BY DEF TypeOK
<1>2. Here.next \in 1 .. Len(template) + 1 /\ (Here.state # "finished" => Slot \in Nat)
      BY HereBehind
<1>3. Written \in Seq(Marks)
      BY WrittenTyped
<1>4. <<>> \in Seq(Marks) /\ MaxTime \in Nat /\ PayloadSize \in Nat /\ ContentSize \in Nat
      BY SizesAreNaturals
<1>5. ASSUME WriteTitle PROVE TypeOK'
  <2>1. PICK text \in TitleTexts :
          LET mine == IF title = NoTitle THEN text ELSE title
          IN  title' = mine /\ buffer' = Append(Written, Mark("title", Slot, 1, mine))
        BY <1>5 DEF WriteTitle
  <2>2. PICK mine : mine = IF title = NoTitle THEN text ELSE title
        OBVIOUS
  <2>3. mine \in Titles \cup {MessageTitle} /\ mine \in Nat
        BY <2>2, TitlesTyped
  <2>4. title' = mine /\ buffer' = Append(Written, Mark("title", Slot, 1, mine))
        BY <2>1, <2>2
  <2>5. buffer' \in Seq(Marks)
    <3>1. Here.state # "finished" /\ "title" \in Parts /\ 1 \in Nat
          BY <1>5, PartsNamed DEF WriteTitle, Reach
    <3> QED BY <2>3, <2>4, <3>1, WrittenAppended
  <2> QED BY <1>1, <1>2, <1>5, <2>3, <2>4, <2>5 DEF WriteTitle, Reach, page, TypeOK, States
<1>6. ASSUME WriteInitial PROVE TypeOK'
  <2>1. /\ job' = [what |-> "initial", at |-> Slot, buf |-> Written, keep |-> FALSE]
        /\ buffer' = <<>> /\ state' = "GeneratingContent"
        /\ Here.state # "finished"
        BY <1>6 DEF WriteInitial, Reach, StartJob
  <2>2. job' \in Jobs /\ job' # NoJob
        BY <1>2, <1>3, <2>1, JobTyped
  <2> QED BY <1>1, <1>2, <1>4, <1>6, <2>1, <2>2
          DEF WriteInitial, Reach, StartJob, page, TypeOK, States
<1>7. ASSUME WriteMessage PROVE TypeOK'
  <2>1. buffer' = Append(Written, Mark("main", Slot, ContentSize, 0)) /\ Here.state # "finished"
        BY <1>7 DEF WriteMessage, Reach
  <2>2. buffer' \in Seq(Marks)
    <3>1. "main" \in Parts /\ ContentSize \in Nat /\ 0 \in Nat
          BY <1>4, PartsNamed
    <3> QED BY <2>1, <3>1, WrittenAppended
  <2>3. total' \in Nat
        BY <1>1, <1>4, <1>7 DEF WriteMessage
  <2> QED BY <1>1, <1>2, <1>7, <2>2, <2>3 DEF WriteMessage, Reach, page, TypeOK, States
<1>8. ASSUME EnterContent PROVE TypeOK'
      BY <1>1, <1>2, <1>4, <1>8 DEF EnterContent, Reach, page, TypeOK, States
<1>9. ASSUME WriteExtra PROVE TypeOK'
  <2>1. CASE PromptSizes = {} /\ buffer' = Written /\ UNCHANGED total
        BY <1>1, <1>2, <1>3, <1>9, <2>1 DEF WriteExtra, Reach, page, TypeOK, States
  <2>2. ASSUME NEW size \in PromptSizes,
               buffer' = Append(Written, Mark("extra", Slot, size, 0)),
               total' = total + size
        PROVE  TypeOK'
    <3>1. "extra" \in Parts /\ size \in Nat /\ 0 \in Nat /\ Here.state # "finished"
          BY <1>9, PartsNamed, SizesAreNaturals DEF WriteExtra, Reach
    <3>2. buffer' \in Seq(Marks)
          BY <2>2, <3>1, WrittenAppended
    <3>3. total' \in Nat
          BY <1>1, <2>2, <3>1
    <3> QED BY <1>1, <1>2, <1>9, <3>2, <3>3 DEF WriteExtra, Reach, page, TypeOK, States
  <2> QED BY <1>9, <2>1, <2>2 DEF WriteExtra
<1>10. ASSUME WriteFooter PROVE TypeOK'
  <2>1. /\ job' = [what |-> "footer", at |-> Slot, buf |-> Written, keep |-> FALSE]
        /\ buffer' = <<>> /\ state' = "GeneratingContent"
        /\ Here.state # "finished"
        BY <1>10 DEF WriteFooter, Reach, StartJob
  <2>2. job' \in Jobs /\ job' # NoJob
        BY <1>2, <1>3, <2>1, JobTyped
  <2> QED BY <1>1, <1>2, <1>4, <1>10, <2>1, <2>2
          DEF WriteFooter, Reach, StartJob, page, TypeOK, States
<1>11. ASSUME FinishPage PROVE TypeOK'
  <2>1. output' \in Seq(Marks)
        BY <1>3, <1>11, Delivered DEF FinishPage
  <2> QED BY <1>1, <1>2, <1>4, <1>11, <2>1 DEF FinishPage, Reach, page, TypeOK, States
<1>12. ASSUME LeaveContent PROVE TypeOK'
       BY <1>1, <1>12 DEF LeaveContent, page, TypeOK, States
<1>13. ASSUME StartChunk PROVE TypeOK'
  <2>1. cursor - 1 \in Nat
        BY <1>1
  <2>2. job' = [what |-> "main", at |-> cursor - 1, buf |-> <<>>, keep |-> TRUE]
        BY <1>13 DEF StartChunk, StartJob
  <2>3. job' \in Jobs /\ job' # NoJob
        BY <1>4, <2>1, <2>2, JobTyped
  <2> QED BY <1>1, <1>4, <1>13, <2>3 DEF StartChunk, StartJob, page, TypeOK, States
<1>14. ASSUME Panic PROVE TypeOK'
       BY <1>1, <1>14 DEF Panic, page, TypeOK, States
<1>15. ASSUME NEW buf \in Seq(Marks), HandOver(buf)
       PROVE  output' \in Seq(Marks) /\ total' \in Nat
  <2>1. output' \in Seq(Marks)
        BY <1>15, Delivered DEF HandOver
  <2>2. Bytes(buf) \in Nat
        BY BytesNatural DEF Bytes
  <2> QED BY <1>1, <1>15, <2>1, <2>2 DEF HandOver
<1>16. ASSUME FinishJob PROVE TypeOK'
  <2>1. PICK sizes : sizes = IF job.what = "initial" THEN InitialSizes ELSE FooterSizes
        OBVIOUS
  <2>2. sizes \in SUBSET Nat
        BY <2>1, SizesNatural
  <2>3. CASE sizes = {}
        BY <1>14, <1>16, <2>1, <2>3 DEF FinishJob
  <2>4. ASSUME NEW size \in sizes,
               HandOver(Append(job.buf, Mark(job.what, job.at, size, 0))),
               state' = "Template", UNCHANGED <<left, gap>>
        PROVE  TypeOK'
    <3>1. PICK buf : buf = Append(job.buf, Mark(job.what, job.at, size, 0))
          OBVIOUS
    <3>2. buf \in Seq(Marks) /\ state = "GeneratingContent"
          BY <1>16, <2>2, <3>1, JobHandsOver DEF FinishJob
    <3>3. HandOver(buf)
          BY <2>4, <3>1
    <3>4. output' \in Seq(Marks) /\ total' \in Nat
          BY <1>15, <3>2, <3>3
    <3> QED BY <1>1, <2>4, <3>3, <3>4 DEF HandOver, page, TypeOK, States
  <2> QED BY <1>16, <2>1, <2>3, <2>4 DEF FinishJob
<1>17. ASSUME GrowChunk PROVE TypeOK'
  <2>1. PICK size \in Sections :
          job' = [job EXCEPT !.buf = <<Mark("main", job.at, Bytes(job.buf) + size, 0)>>]
        BY <1>17 DEF GrowChunk
  <2>2. job \in Jobs /\ job.buf \in Seq(Marks) /\ job.at \in Nat
        BY <1>1, <1>17 DEF GrowChunk, Jobs
  <2>3. Bytes(job.buf) \in Nat /\ size \in Nat
        BY <2>2, BytesNatural, SizesNatural DEF Bytes
  <2>4. PICK m \in Marks : m = Mark("main", job.at, Bytes(job.buf) + size, 0)
    <3>1. PICK made \in Nat : made = Bytes(job.buf) + size
          BY <2>3
    <3>2. PICK at \in Nat : at = job.at
          BY <2>2
    <3>3. Mark("main", at, made, 0) \in Marks
          BY MarkTyped, PartsNamed
    <3> QED BY <3>1, <3>2, <3>3
  <2>5. <<m>> \in Seq(Marks)
        OBVIOUS
  <2>6. job' = [job EXCEPT !.buf = <<m>>]
        BY <2>1, <2>4
  <2>7. job' \in Jobs
        BY <2>2, <2>5, <2>6 DEF Jobs
  <2> QED BY <1>1, <1>17, <2>7, NoJobIsNone DEF GrowChunk, page, TypeOK, States
<1>18. ASSUME FinishChunk PROVE TypeOK'
  <2>1. CASE Sections = {} \/ Delays = {}
        BY <1>14, <1>18, <2>1 DEF FinishChunk
  <2>2. ASSUME NEW size \in Sections, NEW delay \in Delays,
               HandOver(<<Mark("main", job.at, Bytes(job.buf) + size, now)>>),
               left' = delay, state' = IF delay > 0 THEN "Delay" ELSE "Content",
               gap' = 0
        PROVE  TypeOK'
    <3>1. job \in Jobs /\ job.buf \in Seq(Marks) /\ job.at \in Nat
          BY <1>1, <1>18 DEF FinishChunk, Jobs
    <3>2. Bytes(job.buf) \in Nat /\ size \in Nat /\ delay \in Nat
          BY <3>1, BytesNatural, SizesNatural DEF Bytes
    <3>3. PICK m \in Marks : m = Mark("main", job.at, Bytes(job.buf) + size, now)
      <4>1. PICK made \in Nat : made = Bytes(job.buf) + size
            BY <3>2
      <4>2. PICK at \in Nat : at = job.at
            BY <3>1
      <4>3. PICK time \in Nat : time = now
            BY <1>1
      <4>4. Mark("main", at, made, time) \in Marks
            BY MarkTyped, PartsNamed
      <4> QED BY <4>1, <4>2, <4>3, <4>4
    <3>4. PICK buf \in Seq(Marks) : buf = <<m>>
      <4>1. <<m>> \in Seq(Marks)
            OBVIOUS
      <4> QED BY <4>1
    <3>5. HandOver(buf)
          BY <2>2, <3>3, <3>4
    <3>6. output' \in Seq(Marks) /\ total' \in Nat
          BY <1>15, <3>5
    <3> QED BY <1>1, <1>4, <2>2, <3>2, <3>5, <3>6 DEF HandOver, page, TypeOK, States
  <2> QED BY <1>18, <2>1, <2>2 DEF FinishChunk
<1>19. ASSUME DelayOver PROVE TypeOK'
       BY <1>1, <1>19 DEF DelayOver, page, TypeOK, States
<1>20. ASSUME EndOfBody PROVE TypeOK'
       BY <1>1, <1>20 DEF EndOfBody, page, TypeOK, States
<1>21. ASSUME Tick PROVE TypeOK'
  <2>1. now' \in 0 .. MaxTime /\ gap' \in 0 .. MaxTime
    <3>1. ASSUME NEW a \in 0 .. MaxTime PROVE Min({a + 1, MaxTime}) \in 0 .. MaxTime
      <4>1. a + 1 \in Nat
            BY <1>4
      <4> QED BY <1>4, <4>1, Smaller
    <3> QED BY <1>1, <1>21, <3>1 DEF Tick
  <2>2. left' \in Nat
        BY <1>1, <1>21 DEF Tick
  <2> QED BY <1>1, <1>21, <2>1, <2>2 DEF Tick, page, TypeOK
<1>22. CASE UNCHANGED vars
       BY <1>1, <1>22 DEF vars, page, TypeOK
<1> QED BY <1>5, <1>6, <1>7, <1>8, <1>9, <1>10, <1>11, <1>12, <1>13, <1>16, <1>17,
           <1>18, <1>19, <1>20, <1>21, <1>22 DEF Next, Poll

\* The page stays well typed.
THEOREM TypeCorrect == Spec => []TypeOK
BY TypeInit, TypeNext, PTL DEF Spec

-----------------------------------------------------------------------------
(***************************************************************************)
(* Where the stream stands in each of its states.                          *)
(***************************************************************************)

\* A future belongs to the placeholder before the cursor.  That of a MAIN is
\* one of a generated page, and holds a chunk that is not yet full.
JobStaged ==
  /\ job.at = cursor - 1
  /\ job.keep <=> job.what = "main"
  /\ job.keep =>
       /\ ~Static
       /\ \/ job.buf = <<>>
          \/ \E made \in Nat :
               made < ChunkSize /\ job.buf = <<Mark("main", job.at, made, 0)>>

\* The template is one that start-up accepts, and the buffer is in use only in
\* the Template state; a Sleep is pending only in Delay.
Staged ==
  /\ WellFormed(template, Allowed(kind))
  /\ state # "Template" => buffer = <<>>
  /\ state \in {"Content", "Delay"} => ~Static
  /\ state # "Delay" => left = 0
  /\ state = "GeneratingContent" => JobStaged

\* A page starts with an accepted template and an empty buffer.
LEMMA StagedInit == Init => Staged
<1> SUFFICES ASSUME Init PROVE Staged
    OBVIOUS
<1>1. template \in Templates /\ Validate(template, Allowed(kind))
      BY DEF Init
<1>2. template \in Seq(STRING) /\ Allowed(kind) \in SUBSET Placeholders
      BY <1>1, TemplatesAreTexts DEF Allowed, Placeholders
<1>3. PICK t \in Seq(STRING) : t = template
      BY <1>2
<1>4. PICK A \in SUBSET Placeholders : A = Allowed(kind)
      BY <1>2
<1>5. Validate(t, A) <=> WellFormed(t, A)
      BY ValidatesWellFormed
<1>6. WellFormed(template, Allowed(kind))
      BY <1>1, <1>3, <1>4, <1>5
<1>7. state = "Template" /\ left = 0
      BY DEF Init
<1> QED BY <1>6, <1>7 DEF Staged

\* The states of the stream are not confused.
LEMMA StagedNext == TypeOK /\ Staged /\ [Next]_vars => Staged'
<1> SUFFICES ASSUME TypeOK, Staged, [Next]_vars PROVE Staged'
    OBVIOUS
<1>1. page' = page
      BY DEF Next, Poll, vars, WriteTitle, WriteInitial, WriteMessage, EnterContent,
             WriteExtra, WriteFooter, FinishPage, Reach, LeaveContent, StartChunk,
             FinishJob, HandOver, Panic, GrowChunk, FinishChunk, DelayOver, EndOfBody, Tick
<1>2. template' = template /\ kind' = kind
      BY <1>1 DEF page
<1>3. WellFormed(template', Allowed(kind'))
      BY <1>2 DEF Staged
<1>4. Static' = Static
      BY <1>2 DEF Static
<1>5. /\ state # "Template" => buffer = <<>>
      /\ state \in {"Content", "Delay"} => ~Static
      /\ state # "Delay" => left = 0
      /\ state = "GeneratingContent" => JobStaged
      /\ cursor \in Nat /\ left \in Nat
      BY DEF Staged, TypeOK
<1> DEFINE Kept ==
             /\ state' # "Template" => buffer' = <<>>
             /\ state' \in {"Content", "Delay"} => ~Static
             /\ state' # "Delay" => left' = 0
             /\ state' = "GeneratingContent" => JobStaged'
<1>6. SUFFICES Kept
      BY <1>3, <1>4 DEF Staged
<1>7. CASE WriteTitle \/ WriteMessage \/ WriteExtra
      BY <1>5, <1>7 DEF WriteTitle, WriteMessage, WriteExtra, Reach
<1>8. ASSUME NEW what \in {"initial", "footer"}, Reach(what),
             StartJob(what, Slot, Written, FALSE)
      PROVE  Kept
  <2>1. /\ state = "Template" /\ state' = "GeneratingContent" /\ buffer' = <<>>
        /\ job' = [what |-> what, at |-> Slot, buf |-> Written, keep |-> FALSE]
        /\ left' = left /\ cursor' = Here.next
        BY <1>8 DEF Reach, StartJob
  <2>2. job'.at = Slot /\ ~ job'.keep /\ job'.what # "main"
        BY <2>1
  <2>3. JobStaged'
        BY <2>1, <2>2 DEF JobStaged, Slot
  <2> QED BY <1>5, <2>1, <2>3
<1>9. CASE WriteInitial \/ WriteFooter
      BY <1>8, <1>9 DEF WriteInitial, WriteFooter
<1>10. CASE EnterContent
       BY <1>5, <1>10 DEF EnterContent, Reach
<1>11. CASE FinishPage
       BY <1>5, <1>11 DEF FinishPage, Reach
<1>12. CASE LeaveContent
       BY <1>5, <1>12 DEF LeaveContent
<1>13. CASE StartChunk
  <2>1. /\ state = "Content" /\ state' = "GeneratingContent" /\ buffer' = <<>>
        /\ job' = [what |-> "main", at |-> cursor - 1, buf |-> <<>>, keep |-> TRUE]
        /\ left' = left /\ cursor' = cursor
        BY <1>13 DEF StartChunk, StartJob
  <2>2. JobStaged'
        BY <1>4, <1>5, <2>1 DEF JobStaged
  <2> QED BY <1>5, <2>1, <2>2
<1>14. CASE FinishJob
  <2>1. state = "GeneratingContent" /\ buffer = <<>> /\ left = 0
        BY <1>5, <1>14 DEF FinishJob
  <2>2. /\ buffer' = buffer /\ left' = left
        /\ state' \in {"Template", "Panicked"}
        BY <1>14 DEF FinishJob, HandOver, Panic
  <2> QED BY <2>1, <2>2
<1>15. CASE GrowChunk
  <2>1. PICK size \in Sections :
          /\ Bytes(job.buf) + size < ChunkSize
          /\ job' = [job EXCEPT !.buf = <<Mark("main", job.at, Bytes(job.buf) + size, 0)>>]
        BY <1>15 DEF GrowChunk
  <2>2. /\ state = "GeneratingContent" /\ job.keep /\ JobStaged /\ job \in Jobs
        /\ UNCHANGED <<cursor, buffer, state, left>>
        BY <1>5, <1>15 DEF GrowChunk, TypeOK
  <2>3. PICK made \in Nat : made = Bytes(job.buf) + size
    <3>1. job.buf \in Seq(Marks)
          BY <2>2 DEF Jobs
    <3>2. Bytes(job.buf) \in Nat /\ size \in Nat
          BY <3>1, BytesNatural, SizesNatural DEF Bytes
    <3> QED BY <3>2
  <2>4. PICK m : m = Mark("main", job.at, made, 0)
        OBVIOUS
  <2>5. job' = [job EXCEPT !.buf = <<m>>]
        BY <2>1, <2>3, <2>4
  <2>6. /\ job'.buf = <<m>> /\ job'.at = job.at /\ job'.keep = job.keep
        /\ job'.what = job.what
        BY <2>2, <2>5 DEF Jobs
  <2>7. job'.buf = <<Mark("main", job'.at, made, 0)>> /\ made < ChunkSize
        BY <2>1, <2>3, <2>4, <2>6
  <2>8. JobStaged'
        BY <1>4, <2>2, <2>6, <2>7 DEF JobStaged
  <2> QED BY <1>5, <2>2, <2>8
<1>16. CASE FinishChunk
  <2>1. /\ state = "GeneratingContent" /\ job.keep /\ ~Static /\ buffer = <<>>
        /\ left = 0
        BY <1>5, <1>16 DEF FinishChunk, JobStaged
  <2>2. CASE Panic
        BY <2>1, <2>2 DEF Panic
  <2>3. ASSUME NEW delay \in Delays, buffer' = buffer, left' = delay,
               state' = IF delay > 0 THEN "Delay" ELSE "Content"
        PROVE  Kept
    <3>1. delay \in Nat
          BY SizesNatural
    <3> QED BY <2>1, <2>3, <3>1
  <2> QED BY <1>16, <2>2, <2>3 DEF FinishChunk, HandOver
<1>17. CASE DelayOver
       BY <1>5, <1>17 DEF DelayOver
<1>18. CASE EndOfBody
  <2>1. JobStaged => JobStaged'
        BY <1>4, <1>18 DEF EndOfBody, JobStaged
  <2> QED BY <1>5, <1>18, <2>1 DEF EndOfBody
<1>19. CASE Tick
  <2>1. JobStaged => JobStaged'
        BY <1>4, <1>19 DEF Tick, JobStaged
  <2> QED BY <1>5, <1>19, <2>1 DEF Tick
<1>20. CASE UNCHANGED vars
  <2>1. JobStaged => JobStaged'
        BY <1>4, <1>20 DEF vars, JobStaged
  <2> QED BY <1>5, <1>20, <2>1 DEF vars
<1> HIDE DEF Kept
<1> QED BY <1>7, <1>9, <1>10, <1>11, <1>12, <1>13, <1>14, <1>15, <1>16, <1>17, <1>18,
           <1>19, <1>20 DEF Next, Poll

-----------------------------------------------------------------------------
(***************************************************************************)
(* What a step does to the marks that are sent, and to those that are held *)
(* back in the buffer or in the future it has moved into.                  *)
(***************************************************************************)
Held == IF state = "GeneratingContent" THEN job.buf ELSE buffer

\* Nothing is written or sent, though MAIN and a panic lose what is held.
Quiet ==
  /\ output' = output /\ title' = title /\ total' = total
  /\ \/ Held' = Held /\ cursor' = cursor
     \/ Held' = <<>> /\ EnterContent
     \/ Held' = <<>> /\ state' = "Panicked" /\ cursor' = cursor
  /\ state' = "Finished" <=> state = "Finished"
  /\ state = "GeneratingContent" => state' = "Panicked" \/ (state' = state /\ job' = job)
  /\ state' = "GeneratingContent" => job'.keep \/ (state' = state /\ job' = job)
  /\ state = "Panicked" => state' = "Panicked"

\* Text is written, with the placeholder left to a future or to nothing.
WritesText ==
  /\ state = "Template" /\ Here.state \in Placeholders \ {"main"}
  /\ \/ Here.state \in {"initial", "footer"} /\ state' = "GeneratingContent"
        /\ job'.what = Here.state /\ job'.at = Slot /\ ~job'.keep
     \/ Here.state = "extra" /\ PromptSizes = {} /\ state' = "Template"
  /\ cursor' = Here.next
  /\ output' = output /\ title' = title /\ total' = total
  /\ Held' = Written

\* Text is written, and a mark for the placeholder.
WritesMark(what, size, tag) ==
  /\ state = "Template" /\ state' = "Template"
  /\ Here.state = what /\ what \in {"title", "main", "extra"}
  /\ size \in Nat /\ tag \in Nat /\ cursor' = Here.next
  /\ what = "main" => Static
  /\ what = "title" => title' # NoTitle /\ tag = title' /\ (title = NoTitle \/ title' = title)
  /\ what # "title" => title' = title
  /\ output' = output /\ total' = total + size
  /\ Held' = Written \o <<Mark(what, Slot, size, tag)>>

\* The rest of the page is sent.
SendsRest ==
  /\ state = "Template" /\ state' = "Finished" /\ Here.state = "finished"
  /\ cursor' = Here.next
  /\ output' = output \o Written /\ title' = title /\ total' = total
  /\ Held' = <<>>

\* A future that is done with its first poll is sent.
SendsJob(size) ==
  /\ state = "GeneratingContent" /\ state' = "Template" /\ ~job.keep /\ size \in Nat
  /\ cursor' = cursor
  /\ output' = output \o (job.buf \o <<Mark(job.what, job.at, size, 0)>>)
  /\ title' = title
  /\ total' = total + Bytes(job.buf \o <<Mark(job.what, job.at, size, 0)>>)
  /\ Held' = <<>>

\* A chunk of MAIN grows, or is sent.
Grows(made) ==
  /\ state = "GeneratingContent" /\ state' = state /\ job.keep /\ made \in Nat
  /\ job'.keep /\ cursor' = cursor
  /\ output' = output /\ title' = title /\ total' = total
  /\ Held' = <<Mark("main", job.at, made, 0)>>

SendsChunk(size) ==
  /\ state = "GeneratingContent" /\ state' \in {"Content", "Delay"}
  /\ job.keep /\ size \in Sections /\ cursor' = cursor
  /\ LET made == Bytes(job.buf) + size
     IN  /\ made \in Nat
         /\ output' = output \o <<Mark("main", job.at, made, now)>>
         /\ total' = total + Bytes(<<Mark("main", job.at, made, now)>>)
  /\ title' = title
  /\ Held' = <<>>

\* Every step is one of these.
LEMMA Moves ==
  ASSUME TypeOK, Staged, [Next]_vars
  PROVE  \/ Quiet \/ WritesText \/ SendsRest
         \/ \E what, size, tag : WritesMark(what, size, tag)
         \/ \E size : SendsJob(size) \/ Grows(size) \/ SendsChunk(size)
<1>1. /\ state # "Template" => buffer = <<>>
      /\ state = "GeneratingContent" => JobStaged
      BY DEF Staged
<1>2. {"title", "initial", "main", "extra", "footer"} = Placeholders
      BY DEF Placeholders
<1>3. ASSUME WriteTitle PROVE \E what, size, tag : WritesMark(what, size, tag)
  <2>1. PICK text \in TitleTexts :
          LET mine == IF title = NoTitle THEN text ELSE title
          IN  title' = mine /\ buffer' = Append(Written, Mark("title", Slot, 1, mine))
        BY <1>3 DEF WriteTitle
  <2>2. PICK mine : mine = IF title = NoTitle THEN text ELSE title
        OBVIOUS
  <2>3. mine \in Nat /\ mine # NoTitle
        BY <2>2, TitlesTyped
  <2>4. title' = mine /\ buffer' = Append(Written, Mark("title", Slot, 1, mine))
        BY <2>1, <2>2
  <2>5. /\ state = "Template" /\ state' = state /\ Here.state = "title"
        /\ output' = output /\ total' = total + 1 /\ cursor' = Here.next
        BY <1>3 DEF WriteTitle, Reach
  <2>6. buffer' = Written \o <<Mark("title", Slot, 1, mine)>>
    <3>1. "title" \in Parts /\ 1 \in Nat /\ Here.state # "finished"
          BY <2>5, PartsNamed
    <3> QED BY <2>3, <2>4, <3>1, WrittenAppended
  <2>7. Held' = buffer'
        BY <2>5 DEF Held
  <2>8. WritesMark("title", 1, mine)
        BY <1>2, <2>2, <2>3, <2>4, <2>5, <2>6, <2>7 DEF WritesMark
  <2> QED BY <2>8
<1>4. ASSUME WriteMessage PROVE \E what, size, tag : WritesMark(what, size, tag)
  <2>1. /\ state = "Template" /\ state' = state /\ Here.state = "main" /\ Static
        /\ output' = output /\ title' = title /\ total' = total + ContentSize
        /\ buffer' = Append(Written, Mark("main", Slot, ContentSize, 0))
        /\ cursor' = Here.next
        BY <1>4 DEF WriteMessage, Reach
  <2>2. buffer' = Written \o <<Mark("main", Slot, ContentSize, 0)>>
    <3>1. "main" \in Parts /\ ContentSize \in Nat /\ 0 \in Nat /\ Here.state # "finished"
          BY <2>1, PartsNamed, SizesAreNaturals
    <3> QED BY <2>1, <3>1, WrittenAppended
  <2>3. Held' = buffer' /\ ContentSize \in Nat
        BY <2>1, SizesAreNaturals DEF Held
  <2>4. WritesMark("main", ContentSize, 0)
        BY <1>2, <2>1, <2>2, <2>3 DEF WritesMark
  <2> QED BY <2>4
<1>5. ASSUME WriteExtra
      PROVE  WritesText \/ \E what, size, tag : WritesMark(what, size, tag)
  <2>1. /\ state = "Template" /\ state' = state /\ Here.state = "extra"
        /\ output' = output /\ title' = title /\ Held' = buffer' /\ cursor' = Here.next
        BY <1>5 DEF WriteExtra, Reach, Held
  <2>2. CASE PromptSizes = {} /\ buffer' = Written /\ total' = total
    <3>1. WritesText
          BY <1>2, <2>1, <2>2 DEF WritesText
    <3> QED BY <3>1
  <2>3. ASSUME NEW size \in PromptSizes,
               buffer' = Append(Written, Mark("extra", Slot, size, 0)),
               total' = total + size
        PROVE  \E what, s, tag : WritesMark(what, s, tag)
    <3>1. "extra" \in Parts /\ size \in Nat /\ 0 \in Nat /\ Here.state # "finished"
          BY <2>1, PartsNamed, SizesAreNaturals
    <3>2. buffer' = Written \o <<Mark("extra", Slot, size, 0)>>
          BY <2>3, <3>1, WrittenAppended
    <3>3. WritesMark("extra", size, 0)
          BY <1>2, <2>1, <2>3, <3>1, <3>2 DEF WritesMark
    <3> QED BY <3>3
  <2> QED BY <1>5, <2>2, <2>3 DEF WriteExtra
<1>6. ASSUME WriteInitial \/ WriteFooter PROVE WritesText
  <2>1. /\ state = "Template" /\ state' = "GeneratingContent"
        /\ Here.state \in {"initial", "footer"}
        /\ job'.buf = Written /\ job'.what = Here.state /\ job'.at = Slot /\ ~job'.keep
        /\ cursor' = Here.next /\ UNCHANGED <<output, title, total>>
        BY <1>6 DEF WriteInitial, WriteFooter, Reach, StartJob
  <2>2. Held' = Written
        BY <2>1 DEF Held
  <2> QED BY <1>2, <2>1, <2>2 DEF WritesText
<1>7. ASSUME EnterContent PROVE Quiet
  <2>1. /\ state = "Template" /\ state' = "Content" /\ buffer' = <<>>
        /\ UNCHANGED <<output, title, total>>
        BY <1>7 DEF EnterContent, Reach
  <2> QED BY <1>7, <2>1 DEF Quiet, Held
<1>8. ASSUME FinishPage PROVE SendsRest
      BY <1>8 DEF FinishPage, Reach, SendsRest, Held
<1>9. ASSUME LeaveContent \/ DelayOver PROVE Quiet
  <2>1. /\ state \in {"Content", "Delay"} /\ state' \in {"Content", "Template"}
        /\ UNCHANGED <<buffer, cursor, output, title, total>>
        BY <1>9 DEF LeaveContent, DelayOver
  <2> QED BY <2>1 DEF Quiet, Held
<1>10. ASSUME StartChunk PROVE Quiet
  <2>1. /\ state = "Content" /\ state' = "GeneratingContent" /\ job'.buf = <<>> /\ job'.keep
        /\ UNCHANGED <<cursor, output, title, total>>
        BY <1>10 DEF StartChunk, StartJob
  <2> QED BY <1>1, <2>1 DEF Quiet, Held
<1>11. ASSUME Panic, state = "GeneratingContent" PROVE Quiet
  <2>1. /\ state' = "Panicked" /\ buffer' = buffer /\ buffer = <<>>
        /\ UNCHANGED <<cursor, output, title, total>>
        BY <1>1, <1>11 DEF Panic
  <2> QED BY <1>11, <2>1 DEF Quiet, Held
<1>12. ASSUME FinishJob PROVE Quiet \/ \E size : SendsJob(size)
  <2>1. PICK sizes : sizes = IF job.what = "initial" THEN InitialSizes ELSE FooterSizes
        OBVIOUS
  <2>2. sizes \in SUBSET Nat /\ state = "GeneratingContent" /\ ~job.keep /\ buffer = <<>>
        BY <1>1, <1>12, <2>1, SizesNatural DEF FinishJob
  <2>3. CASE sizes = {}
        BY <1>11, <1>12, <2>1, <2>2, <2>3 DEF FinishJob
  <2>4. ASSUME NEW size \in sizes,
               HandOver(Append(job.buf, Mark(job.what, job.at, size, 0))),
               state' = "Template"
        PROVE  SendsJob(size)
    <3>1. size \in Nat
          BY <2>2
    <3>2. Append(job.buf, Mark(job.what, job.at, size, 0))
            = job.buf \o <<Mark(job.what, job.at, size, 0)>>
          BY <2>2, <3>1, JobHandsOver
    <3>3. /\ output' = output \o Append(job.buf, Mark(job.what, job.at, size, 0))
          /\ total' = total + Bytes(Append(job.buf, Mark(job.what, job.at, size, 0)))
          /\ title' = title /\ buffer' = buffer /\ cursor' = cursor
          BY <2>4 DEF HandOver
    <3>4. Held' = <<>>
          BY <2>2, <2>4, <3>3 DEF Held
    <3> QED BY <2>2, <2>4, <3>1, <3>2, <3>3, <3>4 DEF SendsJob
  <2> QED BY <1>12, <2>1, <2>3, <2>4 DEF FinishJob
<1>13. ASSUME GrowChunk PROVE \E size : Grows(size)
  <2>1. PICK size \in Sections :
          job' = [job EXCEPT !.buf = <<Mark("main", job.at, Bytes(job.buf) + size, 0)>>]
        BY <1>13 DEF GrowChunk
  <2>2. /\ state = "GeneratingContent" /\ state' = state /\ job.keep /\ job \in Jobs
        /\ UNCHANGED <<cursor, output, title, total>>
        BY <1>13 DEF GrowChunk, TypeOK
  <2>3. PICK made \in Nat : made = Bytes(job.buf) + size
    <3>1. job.buf \in Seq(Marks)
          BY <2>2 DEF Jobs
    <3>2. Bytes(job.buf) \in Nat /\ size \in Nat
          BY <3>1, BytesNatural, SizesNatural DEF Bytes
    <3> QED BY <3>2
  <2>4. PICK m : m = Mark("main", job.at, made, 0)
        OBVIOUS
  <2>5. job' = [job EXCEPT !.buf = <<m>>]
        BY <2>1, <2>3, <2>4
  <2>6. job'.buf = <<m>> /\ job'.keep
        BY <2>2, <2>5 DEF Jobs
  <2>7. Held' = <<Mark("main", job.at, made, 0)>>
        BY <2>2, <2>4, <2>6 DEF Held
  <2> QED BY <2>2, <2>6, <2>7 DEF Grows
<1>14. ASSUME FinishChunk PROVE Quiet \/ \E size : SendsChunk(size)
  <2>1. state = "GeneratingContent" /\ job.keep /\ buffer = <<>> /\ job \in Jobs
        BY <1>1, <1>14 DEF FinishChunk, TypeOK
  <2>2. CASE Panic
        BY <1>11, <2>1, <2>2
  <2>3. ASSUME NEW size \in Sections, NEW delay \in Delays,
               HandOver(<<Mark("main", job.at, Bytes(job.buf) + size, now)>>),
               state' = IF delay > 0 THEN "Delay" ELSE "Content"
        PROVE  SendsChunk(size)
    <3>1. PICK made \in Nat : made = Bytes(job.buf) + size
      <4>1. job.buf \in Seq(Marks)
            BY <2>1 DEF Jobs
      <4>2. Bytes(job.buf) \in Nat /\ size \in Nat
            BY <4>1, BytesNatural, SizesNatural DEF Bytes
      <4> QED BY <4>2
    <3>2. /\ output' = output \o <<Mark("main", job.at, made, now)>>
          /\ total' = total + Bytes(<<Mark("main", job.at, made, now)>>)
          /\ title' = title /\ buffer' = buffer /\ cursor' = cursor
          BY <2>3, <3>1 DEF HandOver
    <3>3. state' \in {"Content", "Delay"} /\ Held' = <<>>
          BY <2>1, <2>3, <3>2 DEF Held
    <3> QED BY <2>1, <3>1, <3>2, <3>3 DEF SendsChunk
  <2> QED BY <1>14, <2>2, <2>3 DEF FinishChunk
<1>15. ASSUME EndOfBody \/ Tick \/ UNCHANGED vars PROVE Quiet
  <2>1. UNCHANGED <<state, job, buffer, cursor, output, title, total>>
        BY <1>15 DEF EndOfBody, Tick, vars
  <2> QED BY <2>1 DEF Quiet, Held
<1> QED BY <1>3, <1>4, <1>5, <1>6, <1>7, <1>8, <1>9, <1>10, <1>12, <1>13, <1>14, <1>15
        DEF Next, Poll

\* What is held is a sequence of marks: in the Template state the buffer.
LEMMA HeldTyped ==
  ASSUME TypeOK
  PROVE  Held \in Seq(Marks) /\ (state = "Template" => Held = buffer)
BY DEF TypeOK, Held, Jobs

\* The marks that the page has after a step, from those it had.
LEMMA TextWritten ==
  ASSUME TypeOK, WritesText
  PROVE  Range(Held') = Range(Held) \cup Range(TextHere)
<1>1. Held' = Written /\ Held = buffer
      BY HeldTyped DEF WritesText
<1>2. Range(Written) = Range(buffer) \cup Range(TextHere)
      BY WrittenTyped
<1> QED BY <1>1, <1>2

\* A mark is written behind the text before its placeholder.
LEMMA MarkWritten ==
  ASSUME TypeOK, NEW what, NEW size, NEW tag, WritesMark(what, size, tag)
  PROVE  LET m == Mark(what, Slot, size, tag)
         IN  /\ m \in Marks /\ Written \o <<m>> \in Seq(Marks)
             /\ Range(Held') = Range(Held) \cup Range(TextHere) \cup {m}
<1>1. PICK m : m = Mark(what, Slot, size, tag)
      OBVIOUS
<1>2. Held' = Written \o <<m>> /\ Held = buffer
      BY <1>1, HeldTyped DEF WritesMark
<1>3. what \in Parts /\ size \in Nat /\ tag \in Nat /\ Here.state # "finished"
      BY PartsNamed, StatesDiffer DEF WritesMark
<1>4. /\ m \in Marks /\ Append(Written, m) \in Seq(Marks)
      /\ Append(Written, m) = Written \o <<m>>
      /\ Range(Append(Written, m)) = Range(buffer) \cup Range(TextHere) \cup {m}
      BY <1>1, <1>3, WrittenAppended
<1>5. Range(Held') = Range(Append(Written, m))
      BY <1>2, <1>4
<1> QED BY <1>1, <1>2, <1>4, <1>5

\* The buffer goes out with the rest of the text.
LEMMA RestSent ==
  ASSUME TypeOK, SendsRest
  PROVE  Range(output') = Range(output) \cup Range(Held) \cup Range(TextHere)
<1>1. output' = output \o Written /\ Held = buffer
      BY HeldTyped DEF SendsRest
<1>2. Written \in Seq(Marks) /\ Range(Written) = Range(buffer) \cup Range(TextHere)
      BY WrittenTyped
<1>3. PICK s \in Seq(Marks) : s = Written
      BY <1>2
<1>4. Range(output') = Range(output) \cup Range(s)
      BY <1>1, <1>3, Delivered
<1> QED BY <1>1, <1>2, <1>3, <1>4

\* A future that is done sends its buffer, and its own mark behind it.
LEMMA JobSent ==
  ASSUME TypeOK, NEW size, SendsJob(size)
  PROVE  LET m == Mark(job.what, job.at, size, 0)
         IN  /\ m \in Marks /\ job.buf \o <<m>> \in Seq(Marks) /\ Held = job.buf
             /\ Range(output') = Range(output) \cup Range(Held) \cup {m}
<1>1. PICK m : m = Mark(job.what, job.at, size, 0)
      OBVIOUS
<1>2. /\ state = "GeneratingContent" /\ size \in Nat /\ Held = job.buf
      /\ output' = output \o (job.buf \o <<m>>)
      BY <1>1 DEF SendsJob, Held
<1>3. /\ m \in Marks /\ Append(job.buf, m) \in Seq(Marks)
      /\ Append(job.buf, m) = job.buf \o <<m>>
      /\ Range(Append(job.buf, m)) = Range(job.buf) \cup {m}
      BY <1>1, <1>2, JobHandsOver
<1>4. PICK s \in Seq(Marks) : s = Append(job.buf, m)
      BY <1>3
<1>5. Range(output') = Range(output) \cup Range(s)
      BY <1>2, <1>3, <1>4, Delivered
<1>6. Range(s) = Range(Held) \cup {m}
      BY <1>2, <1>3, <1>4
<1> QED BY <1>1, <1>2, <1>3, <1>4, <1>5, <1>6

\* A chunk goes out as one mark.
LEMMA ChunkSent ==
  ASSUME TypeOK, NEW size, SendsChunk(size)
  PROVE  LET m == Mark("main", job.at, Bytes(job.buf) + size, now)
         IN  /\ m \in Marks /\ <<m>> \in Seq(Marks) /\ job \in Jobs
             /\ Range(output') = Range(output) \cup {m}
<1>1. PICK made \in Nat : made = Bytes(job.buf) + size
      BY DEF SendsChunk
<1>2. job \in Jobs
      BY DEF TypeOK, SendsChunk
<1>3. PICK at \in Nat : at = job.at
      BY <1>2 DEF Jobs
<1>4. PICK time \in Nat : time = now
      BY SizesAreNaturals DEF TypeOK
<1>5. PICK m : m = Mark("main", at, made, time)
      OBVIOUS
<1>6. m \in Marks
      BY <1>5, MarkTyped, PartsNamed
<1>7. PICK s : s = <<m>>
      OBVIOUS
<1>8. s \in Seq(Marks)
      BY <1>6, <1>7
<1>9. output' = output \o s
      BY <1>1, <1>3, <1>4, <1>5, <1>7 DEF SendsChunk
<1>10. Range(output') = Range(output) \cup Range(s)
       BY <1>8, <1>9, Delivered
<1>11. Range(s) = {m}
       BY <1>7, RangeOfOne
<1> QED BY <1>1, <1>2, <1>3, <1>4, <1>5, <1>6, <1>7, <1>8, <1>10, <1>11

\* A chunk that grows is one mark of MAIN.
LEMMA ChunkHeld ==
  ASSUME TypeOK, NEW made, Grows(made)
  PROVE  LET m == Mark("main", job.at, made, 0)
         IN  m \in Marks /\ <<m>> \in Seq(Marks) /\ Range(Held') = {m}
<1>1. job \in Jobs /\ made \in Nat
      BY DEF TypeOK, Grows
<1>2. PICK at \in Nat : at = job.at
      BY <1>1 DEF Jobs
<1>3. PICK m : m = Mark("main", at, made, 0)
      OBVIOUS
<1>4. m \in Marks
      BY <1>1, <1>3, MarkTyped, PartsNamed
<1>5. <<m>> \in Seq(Marks) /\ Range(<<m>>) = {m}
      BY <1>4, RangeOfOne
<1>6. Held' = <<m>>
      BY <1>2, <1>3 DEF Grows
<1> QED BY <1>2, <1>3, <1>4, <1>5, <1>6

\* Text is no placeholder.
LEMMA TextMarks ==
  ASSUME TypeOK, NEW m \in Range(TextHere)
  PROVE  m.what = "text" /\ m.at \in cursor .. Here.at - 1 /\ m.tag = 0
<1>1. Range(TextHere) = {Mark("text", x, 1, 0) : x \in cursor .. Here.at - 1}
      BY WrittenTyped
<1>2. PICK x \in cursor .. Here.at - 1 : m = Mark("text", x, 1, 0)
      BY <1>1
<1>3. x \in Nat
  <2>1. cursor \in Nat /\ Here.at \in Nat
        BY HereBehind DEF TypeOK
  <2> QED BY <1>2, <2>1
<1>4. m.what = "text" /\ m.at = x /\ m.tag = 0
      BY <1>2, <1>3, MarkTyped, PartsNamed
<1> QED BY <1>2, <1>4

-----------------------------------------------------------------------------
(***************************************************************************)
(* One title.                                                              *)
(***************************************************************************)

\* Every title that is sent or held is the title of the page.
TitlesMatch ==
  \A m \in Range(output) \cup Range(Held) :
    m.what = "title" => title # NoTitle /\ m.tag = title

\* No step writes another title.
LEMMA TitlesMatchNext ==
  ASSUME TypeOK, Staged, TitlesMatch, [Next]_vars
  PROVE  TitlesMatch'
<1>1. CASE Quiet
  <2>1. Range(Held') \subseteq Range(Held)
        BY <1>1, RangeOfNone DEF Quiet
  <2> QED BY <1>1, <2>1 DEF Quiet, TitlesMatch
<1>2. CASE WritesText
  <2>1. /\ Range(Held') = Range(Held) \cup Range(TextHere)
        /\ output' = output /\ title' = title
        BY <1>2, TextWritten DEF WritesText
  <2>2. \A m \in Range(TextHere) : m.what # "title"
        BY TextMarks
  <2> QED BY <2>1, <2>2 DEF TitlesMatch
<1>3. CASE SendsRest
  <2>1. /\ Range(output') = Range(output) \cup Range(Held) \cup Range(TextHere)
        /\ Range(Held') = {} /\ title' = title
        BY <1>3, RestSent, RangeOfNone DEF SendsRest
  <2>2. \A m \in Range(TextHere) : m.what # "title"
        BY TextMarks
  <2> QED BY <2>1, <2>2 DEF TitlesMatch
<1>4. ASSUME NEW what, NEW size, NEW tag, WritesMark(what, size, tag) PROVE TitlesMatch'
  <2>1. PICK n : n = Mark(what, Slot, size, tag)
        OBVIOUS
  <2>2. Range(Held') = Range(Held) \cup Range(TextHere) \cup {n}
        BY <1>4, <2>1, MarkWritten
  <2>3. n.what = what /\ n.tag = tag
    <3>1. what \in Parts /\ size \in Nat /\ tag \in Nat /\ Slot \in Nat
          BY <1>4, PartsNamed, StatesDiffer, HereBehind DEF WritesMark
    <3> QED BY <2>1, <3>1, MarkTyped
  <2>4. \A m \in Range(TextHere) : m.what # "title"
        BY TextMarks
  <2>5. ASSUME NEW m \in Range(output) \cup Range(Held), m.what = "title"
        PROVE  title' # NoTitle /\ m.tag = title'
    <3>1. title # NoTitle /\ m.tag = title
          BY <2>5 DEF TitlesMatch
    <3> QED BY <1>4, <3>1 DEF WritesMark
  <2>6. what = "title" => title' # NoTitle /\ tag = title'
        BY <1>4 DEF WritesMark
  <2>7. output' = output
        BY <1>4 DEF WritesMark
  <2> QED BY <2>2, <2>3, <2>4, <2>5, <2>6, <2>7 DEF TitlesMatch
<1>5. ASSUME NEW size, SendsJob(size) PROVE TitlesMatch'
  <2>1. PICK n : n = Mark(job.what, job.at, size, 0)
        OBVIOUS
  <2>2. /\ Range(output') = Range(output) \cup Range(Held) \cup {n}
        /\ Range(Held') = {} /\ title' = title
        BY <1>5, <2>1, JobSent, RangeOfNone DEF SendsJob
  <2>3. n.what # "title"
    <3>1. job \in Jobs /\ size \in Nat
          BY <1>5 DEF SendsJob, TypeOK
    <3>2. job.what \in {"initial", "main", "footer"} /\ job.what \in Parts /\ job.at \in Nat
          BY <3>1, PartsNamed DEF Jobs
    <3> QED BY <2>1, <3>1, <3>2, MarkTyped
  <2> QED BY <2>2, <2>3 DEF TitlesMatch
<1>6. ASSUME NEW made, Grows(made) PROVE TitlesMatch'
  <2>1. PICK n : n = Mark("main", job.at, made, 0)
        OBVIOUS
  <2>2. Range(Held') = {n} /\ output' = output /\ title' = title
        BY <1>6, <2>1, ChunkHeld DEF Grows
  <2>3. n.what # "title"
    <3>1. made \in Nat /\ job.at \in Nat
          BY <1>6 DEF Grows, TypeOK, Jobs
    <3> QED BY <2>1, <3>1, MarkTyped, PartsNamed
  <2> QED BY <2>2, <2>3 DEF TitlesMatch
<1>7. ASSUME NEW size, SendsChunk(size) PROVE TitlesMatch'
  <2>1. PICK n : n = Mark("main", job.at, Bytes(job.buf) + size, now)
        OBVIOUS
  <2>2. /\ Range(output') = Range(output) \cup {n}
        /\ Range(Held') = {} /\ title' = title
        BY <1>7, <2>1, ChunkSent, RangeOfNone DEF SendsChunk
  <2>3. n.what # "title"
        BY <2>1 DEF Mark
  <2> QED BY <2>2, <2>3 DEF TitlesMatch
<1> QED BY <1>1, <1>2, <1>3, <1>4, <1>5, <1>6, <1>7, Moves

\* All TITLEs of a page agree: the first one that is reached decides, and it is
\* kept until the page ends.
THEOREM TitleIsOne == Spec => []OneTitle
<1>1. Init => TitlesMatch
  <2>1. Init => Held = <<>> /\ output = <<>>
        BY DEF Init, Held
  <2> QED BY <2>1, RangeOfNone DEF TitlesMatch
<1>2. TitlesMatch => OneTitle
      BY DEF TitlesMatch, OneTitle
<1> QED BY <1>1, <1>2, TypeInit, TypeNext, StagedInit, StagedNext, TitlesMatchNext, PTL DEF Spec

-----------------------------------------------------------------------------
(***************************************************************************)
(* One chunk after the timeout.                                            *)
(***************************************************************************)

\* A chunk of MAIN that was handed over after the timeout, and where they are.
IsLate(m) == m.what = "main" /\ m.tag > timeout
LateIn(s) == {i \in 1 .. Len(s) : IsLate(s[i])}

\* A chunk is being made.
Making == state = "GeneratingContent" /\ job.keep

\* Nothing that is held is late, at most one chunk that was sent is, and after
\* that no other is made.
LateInv ==
  ~Static /\ timeout > 0 =>
    /\ \A m \in Range(Held) : ~IsLate(m)
    /\ \A i, j \in LateIn(output) : i = j
    /\ LateIn(output) # {} => now > timeout /\ ~Making

\* Time goes on, and a chunk is only begun before the timeout.
LEMMA TimeGoesOn ==
  ASSUME TypeOK, Staged, [Next]_vars
  PROVE  /\ page' = page /\ timeout' = timeout /\ Static' = Static
         /\ now > timeout => now' > timeout
         /\ Making' => Making \/ timeout = 0 \/ now < timeout
<1>1. page' = page
      BY DEF Next, Poll, vars, WriteTitle, WriteInitial, WriteMessage, EnterContent,
             WriteExtra, WriteFooter, FinishPage, Reach, LeaveContent, StartChunk,
             FinishJob, HandOver, Panic, GrowChunk, FinishChunk, DelayOver, EndOfBody, Tick
<1>2. timeout' = timeout /\ Static' = Static
      BY <1>1 DEF page, Static
<1>3. /\ now \in 0 .. MaxTime /\ MaxTime \in Nat /\ timeout \in Nat /\ timeout < MaxTime
      BY SizesAreNaturals, ClockOutlivesDelays DEF TypeOK
<1>4. now > timeout => now' > timeout
  <2>1. CASE Tick
    <3>1. now' = Min({now + 1, MaxTime})
          BY <2>1 DEF Tick
    <3>2. now + 1 \in Nat
          BY <1>3
    <3>3. now' = IF now + 1 <= MaxTime THEN now + 1 ELSE MaxTime
          BY <1>3, <3>1, <3>2, Smaller
    <3> QED BY <1>3, <3>3
  <2>2. CASE ~Tick
    <3>1. now' = now
          BY <2>2 DEF Next, Poll, vars, WriteTitle, WriteInitial, WriteMessage,
             EnterContent, WriteExtra, WriteFooter, FinishPage, Reach, LeaveContent,
             StartChunk, FinishJob, HandOver, Panic, GrowChunk, FinishChunk, DelayOver,
             EndOfBody
    <3> QED BY <3>1
  <2> QED BY <2>1, <2>2
<1>5. Making' => Making \/ timeout = 0 \/ now < timeout
  <2>1. CASE StartChunk
        BY <1>3, <2>1 DEF StartChunk, TimedOut
  <2>2. CASE WriteInitial \/ WriteFooter
    <3>1. job'.keep = FALSE
          BY <2>2 DEF WriteInitial, WriteFooter, StartJob
    <3> QED BY <3>1 DEF Making
  <2>3. CASE WriteTitle \/ WriteMessage \/ EnterContent \/ WriteExtra \/ FinishPage
             \/ LeaveContent \/ DelayOver
        BY <2>3 DEF Making, WriteTitle, WriteMessage, EnterContent, WriteExtra, FinishPage,
                    Reach, LeaveContent, DelayOver
  <2>4. CASE FinishJob
        BY <2>4 DEF Making, FinishJob, Panic
  <2>5. CASE FinishChunk \/ GrowChunk
        BY <2>5 DEF Making, FinishChunk, GrowChunk
  <2>6. CASE EndOfBody \/ Tick \/ UNCHANGED vars
        BY <2>6 DEF Making, EndOfBody, Tick, vars
  <2> QED BY <2>1, <2>2, <2>3, <2>4, <2>5, <2>6 DEF Next, Poll
<1> QED BY <1>1, <1>2, <1>4, <1>5

\* What is sent behind other marks, none of them late, adds nothing late.
LEMMA LateJoined ==
  ASSUME NEW s \in Seq(Marks), NEW u \in Seq(Marks), \A m \in Range(u) : ~IsLate(m)
  PROVE  LateIn(s \o u) = LateIn(s)
<1> DEFINE r == s \o u
<1>1. /\ Len(s) \in Nat /\ Len(u) \in Nat /\ Len(r) = Len(s) + Len(u)
      /\ \A i \in 1 .. Len(s) : r[i] = s[i]
      /\ \A i \in Len(s) + 1 .. Len(s) + Len(u) : r[i] = u[i - Len(s)]
      /\ DOMAIN u = 1 .. Len(u)
      OBVIOUS
<1> HIDE DEF r
<1>2. ASSUME NEW i \in LateIn(r) PROVE i \in LateIn(s)
  <2>1. i \in 1 .. Len(s) + Len(u) /\ IsLate(r[i])
        BY <1>1 DEF LateIn
  <2>2. i \in 1 .. Len(s)
    <3> SUFFICES ASSUME i \notin 1 .. Len(s) PROVE FALSE
        OBVIOUS
    <3>1. i \in Len(s) + 1 .. Len(s) + Len(u) /\ i - Len(s) \in 1 .. Len(u)
          BY <1>1, <2>1
    <3>2. r[i] = u[i - Len(s)] /\ u[i - Len(s)] \in Range(u)
          BY <1>1, <3>1 DEF Range
    <3> QED BY <2>1, <3>2
  <2> QED BY <1>1, <2>1, <2>2 DEF LateIn
<1>3. ASSUME NEW i \in LateIn(s) PROVE i \in LateIn(r)
  <2>1. i \in 1 .. Len(s) /\ IsLate(s[i])
        BY DEF LateIn
  <2>2. i \in 1 .. Len(r) /\ r[i] = s[i]
        BY <1>1, <2>1
  <2> QED BY <2>1, <2>2 DEF LateIn
<1> QED BY <1>2, <1>3 DEF r

\* Of one mark behind others that are not late, only that one may be.
LEMMA LateAppended ==
  ASSUME NEW s \in Seq(Marks), NEW m \in Marks, LateIn(s) = {}
  PROVE  LateIn(s \o <<m>>) \subseteq {Len(s) + 1}
<1> DEFINE r == s \o <<m>>
<1>1. Len(s) \in Nat /\ Len(r) = Len(s) + 1 /\ \A i \in 1 .. Len(s) : r[i] = s[i]
      OBVIOUS
<1> HIDE DEF r
<1>2. ASSUME NEW i \in LateIn(r), i # Len(s) + 1 PROVE FALSE
  <2>1. i \in 1 .. Len(s) /\ IsLate(s[i])
        BY <1>1, <1>2 DEF LateIn
  <2> QED BY <2>1 DEF LateIn
<1> QED BY <1>2 DEF r

\* No step sends a second chunk after the timeout.
LEMMA LateNext ==
  ASSUME TypeOK, Staged, LateInv, [Next]_vars
  PROVE  LateInv'
<1> SUFFICES ASSUME (~Static)', (timeout > 0)'
             PROVE  /\ \A m \in Range(Held') : ~IsLate(m)'
                    /\ \A i, j \in LateIn(output)' : i = j
                    /\ LateIn(output)' # {} => now' > timeout' /\ ~Making'
    BY DEF LateInv
<1>1. /\ timeout' = timeout /\ ~Static /\ timeout \in Nat /\ timeout > 0
      /\ now > timeout => now' > timeout
      /\ Making' => Making \/ timeout = 0 \/ now < timeout
      /\ now \in Nat /\ output \in Seq(Marks) /\ Held \in Seq(Marks)
      BY TimeGoesOn, HeldTyped, SizesAreNaturals DEF TypeOK
<1>2. \A m : IsLate(m)' <=> IsLate(m)
      BY <1>1 DEF IsLate
<1>3. LateIn(output)' = LateIn(output')
      BY <1>1 DEF LateIn, IsLate
<1>4. /\ \A m \in Range(Held) : ~IsLate(m)
      /\ \A i, j \in LateIn(output) : i = j
      /\ LateIn(output) # {} => now > timeout /\ ~Making
      BY <1>1 DEF LateInv
<1>5. ASSUME LateIn(output') = LateIn(output), \A m \in Range(Held') : ~IsLate(m)
      PROVE  /\ \A m \in Range(Held') : ~IsLate(m)'
             /\ \A i, j \in LateIn(output)' : i = j
             /\ LateIn(output)' # {} => now' > timeout' /\ ~Making'
      BY <1>1, <1>2, <1>3, <1>4, <1>5
<1>6. \A m \in Range(TextHere) : ~IsLate(m)
      BY <1>1, TextMarks, PartsNamed DEF IsLate
<1>7. CASE Quiet
  <2>1. Range(Held') \subseteq Range(Held) /\ output' = output
        BY <1>7, RangeOfNone DEF Quiet
  <2> QED BY <1>4, <1>5, <2>1
<1>8. CASE WritesText
  <2>1. Range(Held') = Range(Held) \cup Range(TextHere) /\ output' = output
        BY <1>8, TextWritten DEF WritesText
  <2> QED BY <1>4, <1>5, <1>6, <2>1
<1>9. CASE SendsRest
  <2>1. output' = output \o Written /\ Range(Held') = {} /\ Held = buffer
        BY <1>9, RangeOfNone, HeldTyped DEF SendsRest
  <2>2. Written \in Seq(Marks) /\ Range(Written) = Range(Held) \cup Range(TextHere)
        BY <2>1, WrittenTyped
  <2>3. \A m \in Range(Written) : ~IsLate(m)
        BY <1>4, <1>6, <2>2
  <2>4. LateIn(output') = LateIn(output)
        BY <1>1, <2>1, <2>2, <2>3, LateJoined
  <2> QED BY <1>5, <2>1, <2>4
<1>10. ASSUME NEW what, NEW size, NEW tag, WritesMark(what, size, tag)
       PROVE  /\ \A m \in Range(Held') : ~IsLate(m)'
              /\ \A i, j \in LateIn(output)' : i = j
              /\ LateIn(output)' # {} => now' > timeout' /\ ~Making'
  <2>1. PICK n : n = Mark(what, Slot, size, tag)
        OBVIOUS
  <2>2. Range(Held') = Range(Held) \cup Range(TextHere) \cup {n} /\ output' = output
        BY <1>10, <2>1, MarkWritten DEF WritesMark
  <2>3. n.what = what /\ what # "main"
        BY <1>1, <1>10, <2>1 DEF WritesMark, Mark
  <2>4. ~IsLate(n)
        BY <2>3 DEF IsLate
  <2> QED BY <1>4, <1>5, <1>6, <2>2, <2>4
<1>11. ASSUME NEW size, SendsJob(size)
       PROVE  /\ \A m \in Range(Held') : ~IsLate(m)'
              /\ \A i, j \in LateIn(output)' : i = j
              /\ LateIn(output)' # {} => now' > timeout' /\ ~Making'
  <2>1. PICK n : n = Mark(job.what, job.at, size, 0)
        OBVIOUS
  <2>2. PICK u : u = job.buf \o <<n>>
        OBVIOUS
  <2>3. /\ n \in Marks /\ u \in Seq(Marks) /\ Held = job.buf
        BY <1>11, <2>1, <2>2, JobSent
  <2>4. output' = output \o u /\ Range(Held') = {}
        BY <1>11, <2>1, <2>2, RangeOfNone DEF SendsJob
  <2>5. Range(u) = Range(Held) \cup {n}
    <3>1. <<n>> \in Seq(Marks) /\ Range(<<n>>) = {n}
          BY <2>3, RangeOfOne
    <3>2. PICK one \in Seq(Marks) : one = <<n>>
          BY <3>1
    <3>3. Range(Held \o one) = Range(Held) \cup Range(one)
          BY <1>1, RangeJoined
    <3> QED BY <2>2, <2>3, <3>1, <3>2, <3>3
  <2>6. ~IsLate(n)
    <3>1. n.tag = 0
          BY <2>1 DEF Mark
    <3> QED BY <1>1, <3>1 DEF IsLate
  <2>7. LateIn(output') = LateIn(output)
    <3>1. \A m \in Range(u) : ~IsLate(m)
          BY <1>4, <2>5, <2>6
    <3> QED BY <1>1, <2>3, <2>4, <3>1, LateJoined
  <2> QED BY <1>5, <2>4, <2>7
<1>12. ASSUME NEW made, Grows(made)
       PROVE  /\ \A m \in Range(Held') : ~IsLate(m)'
              /\ \A i, j \in LateIn(output)' : i = j
              /\ LateIn(output)' # {} => now' > timeout' /\ ~Making'
  <2>1. PICK n : n = Mark("main", job.at, made, 0)
        OBVIOUS
  <2>2. Range(Held') = {n} /\ output' = output
        BY <1>12, <2>1, ChunkHeld DEF Grows
  <2>3. n.tag = 0
        BY <2>1 DEF Mark
  <2>4. ~IsLate(n)
        BY <1>1, <2>3 DEF IsLate
  <2> QED BY <1>5, <2>2, <2>4
<1>13. ASSUME NEW size, SendsChunk(size)
       PROVE  /\ \A m \in Range(Held') : ~IsLate(m)'
              /\ \A i, j \in LateIn(output)' : i = j
              /\ LateIn(output)' # {} => now' > timeout' /\ ~Making'
  <2>1. PICK n : n = Mark("main", job.at, Bytes(job.buf) + size, now)
        OBVIOUS
  <2>2. n \in Marks /\ output' = output \o <<n>> /\ Range(Held') = {}
        BY <1>13, <2>1, ChunkSent, RangeOfNone DEF SendsChunk
  <2>3. LateIn(output) = {}
        BY <1>4, <1>13 DEF SendsChunk, Making
  <2>4. LateIn(output') \subseteq {Len(output) + 1}
        BY <1>1, <2>2, <2>3, LateAppended
  <2>5. ~Making'
        BY <1>13 DEF SendsChunk, Making
  <2>6. LateIn(output') # {} => now > timeout
    <3> SUFFICES ASSUME now <= timeout PROVE LateIn(output') = {}
        BY <1>1
    <3>1. n.tag = now
          BY <2>1 DEF Mark
    <3>2. ~IsLate(n)
          BY <1>1, <3>1 DEF IsLate
    <3>3. <<n>> \in Seq(Marks) /\ Range(<<n>>) = {n}
          BY <2>2, RangeOfOne
    <3>4. PICK one \in Seq(Marks) : one = <<n>>
          BY <3>3
    <3>5. LateIn(output \o one) = LateIn(output)
          BY <1>1, <3>2, <3>3, <3>4, LateJoined
    <3> QED BY <2>2, <2>3, <3>4, <3>5
  <2>7. \A m \in Range(Held') : ~IsLate(m)
        BY <2>2
  <2> QED BY <1>1, <1>2, <1>3, <2>4, <2>5, <2>6, <2>7
<1> QED BY <1>7, <1>8, <1>9, <1>10, <1>11, <1>12, <1>13, Moves

\* At most the chunk that was being made at the timeout is sent after it: none
\* is begun then, and the clock of the page never falls behind the timeout.
THEOREM LateChunkIsOne == Spec => []OneLateChunk
<1>1. Init => LateInv
  <2>1. Init => Held = <<>> /\ output = <<>>
        BY DEF Init, Held
  <2>2. Init => LateIn(output) = {}
        BY <2>1 DEF LateIn
  <2> QED BY <2>1, <2>2, RangeOfNone DEF LateInv
<1>2. TypeOK /\ LateInv => OneLateChunk
  <2> SUFFICES ASSUME TypeOK, LateInv, timeout > 0 PROVE OneLateChunk
      BY DEF OneLateChunk
  <2>1. PICK L : L = {i \in 1 .. Len(output) :
                        output[i].what = "main" /\ ~Static /\ output[i].tag > timeout}
        OBVIOUS
  <2>2. L = {} \/ \E i : L = {i}
    <3>1. CASE Static
          BY <2>1, <3>1
    <3>2. CASE ~Static
      <4>1. L = LateIn(output)
            BY <2>1, <3>2 DEF LateIn, IsLate
      <4>2. \A i, j \in L : i = j
            BY <3>2, <4>1 DEF LateInv
      <4> QED BY <4>2
    <3> QED BY <3>1, <3>2
  <2>3. Cardinality(L) <= 1
    <3>1. CASE L = {}
      <4>1. Cardinality(L) = 0
            BY <3>1, FS_EmptySet
      <4> QED BY <4>1
    <3>2. ASSUME NEW i, L = {i} PROVE Cardinality(L) <= 1
      <4>1. Cardinality({i}) = 1
            BY FS_Singleton
      <4> QED BY <3>2, <4>1
    <3> QED BY <2>2, <3>1, <3>2
  <2> QED BY <2>1, <2>3 DEF OneLateChunk
<1> QED BY <1>1, <1>2, TypeInit, TypeNext, StagedInit, StagedNext, LateNext, PTL DEF Spec

-----------------------------------------------------------------------------
(***************************************************************************)
(* How much of MAIN, and how fast.                                         *)
(***************************************************************************)

\* Marks of which none is of the parts have no bytes of them.
LEMMA BytesOfOthers ==
  ASSUME NEW parts, NEW s \in Seq(Marks), \A m \in Range(s) : m.what \notin parts
  PROVE  BytesOf(parts, s) = 0
<1>1. \A i \in 1 .. Len(s) : s[i] \in Range(s)
      BY DEF Range
<1> QED BY <1>1, BytesOfNone

\* On a generated page, bytes of MAIN are only held while a chunk is made.
MainHeld == ~Static => \A m \in Range(Held) : m.what = "main" => Making

\* A chunk that is made goes on being made, or is no longer held; it is begun
\* below the size of the page, and total_bytes stay what they are until it is
\* sent.
LEMMA ChunkGoesOn ==
  ASSUME TypeOK, Staged, [Next]_vars
  PROVE  /\ Making => Making' \/ Held' = <<>>
         /\ Making' => (Making /\ total' = total) \/ total' < PayloadSize
<1>1. state # "Template" => buffer = <<>>
      BY DEF Staged
<1>2. CASE WriteTitle \/ WriteMessage \/ EnterContent \/ WriteExtra \/ FinishPage
             \/ LeaveContent \/ DelayOver
      BY <1>2 DEF Making, WriteTitle, WriteMessage, EnterContent, WriteExtra, FinishPage,
                  Reach, LeaveContent, DelayOver
<1>3. CASE WriteInitial \/ WriteFooter
  <2>1. job'.keep = FALSE /\ state = "Template"
        BY <1>3 DEF WriteInitial, WriteFooter, StartJob, Reach
  <2> QED BY <2>1 DEF Making
<1>4. CASE StartChunk
  <2>1. state = "Content" /\ total' = total /\ total < PayloadSize
        BY <1>4 DEF StartChunk, StartJob
  <2> QED BY <2>1 DEF Making
<1>5. CASE FinishJob
  <2>1. ~job.keep /\ state' \in {"Template", "Panicked"}
        BY <1>5 DEF FinishJob, Panic
  <2> QED BY <2>1 DEF Making
<1>6. CASE GrowChunk
  <2>1. /\ Making /\ state' = state /\ total' = total /\ job \in Jobs
        /\ \E m : job' = [job EXCEPT !.buf = m]
        BY <1>6 DEF GrowChunk, Making, TypeOK
  <2>2. job'.keep = job.keep
        BY <2>1 DEF Jobs
  <2> QED BY <2>1, <2>2 DEF Making
<1>7. CASE FinishChunk
  <2>1. state = "GeneratingContent" /\ buffer' = buffer /\ state' # "GeneratingContent"
        BY <1>7 DEF FinishChunk, HandOver, Panic
  <2>2. Held' = <<>>
        BY <1>1, <2>1 DEF Held
  <2> QED BY <2>1, <2>2 DEF Making
<1>8. CASE EndOfBody \/ Tick \/ UNCHANGED vars
      BY <1>8 DEF Making, EndOfBody, Tick, vars
<1> QED BY <1>2, <1>3, <1>4, <1>5, <1>6, <1>7, <1>8 DEF Next, Poll

\* A chunk that grows goes on being made.
LEMMA GrowsOn ==
  ASSUME TypeOK, Staged, [Next]_vars, NEW made, Grows(made)
  PROVE  Making'
<1>1. Making /\ Range(Held') # {}
      BY ChunkHeld DEF Making, Grows
<1> QED BY <1>1, ChunkGoesOn, RangeOfNone

\* No step leaves bytes of MAIN in the buffer of a generated page.
LEMMA MainHeldNext ==
  ASSUME TypeOK, Staged, MainHeld, [Next]_vars
  PROVE  MainHeld'
<1> SUFFICES ASSUME ~Static', NEW m \in Range(Held'), m.what = "main"
             PROVE  Making'
    BY DEF MainHeld
<1>1. ~Static
      BY TimeGoesOn
<1>2. ASSUME m \in Range(Held) PROVE Making'
  <2>1. Making
        BY <1>1, <1>2 DEF MainHeld
  <2> QED BY <2>1, ChunkGoesOn, RangeOfNone
<1>3. m \notin Range(TextHere)
      BY TextMarks, PartsNamed
<1>4. CASE Quiet
      BY <1>2, <1>4, RangeOfNone DEF Quiet
<1>5. CASE WritesText
      BY <1>2, <1>3, <1>5, TextWritten
<1>6. CASE SendsRest
      BY <1>6, RangeOfNone DEF SendsRest
<1>7. ASSUME NEW what, NEW size, NEW tag, WritesMark(what, size, tag) PROVE Making'
  <2>1. PICK n : n = Mark(what, Slot, size, tag)
        OBVIOUS
  <2>2. Range(Held') = Range(Held) \cup Range(TextHere) \cup {n}
        BY <1>7, <2>1, MarkWritten
  <2>3. n.what # "main"
        BY <1>1, <1>7, <2>1 DEF WritesMark, Mark
  <2> QED BY <1>2, <1>3, <2>2, <2>3
<1>8. ASSUME NEW size, SendsJob(size) \/ SendsChunk(size) PROVE Making'
      BY <1>8, RangeOfNone DEF SendsJob, SendsChunk
<1>9. ASSUME NEW made, Grows(made) PROVE Making'
      BY <1>9, GrowsOn
<1> QED BY <1>4, <1>5, <1>6, <1>7, <1>8, <1>9, Moves

\* The chunk that is being made is not yet full.
LEMMA ChunkShort ==
  ASSUME TypeOK, Staged, Making
  PROVE  Bytes(job.buf) \in Nat /\ (Bytes(job.buf) = 0 \/ Bytes(job.buf) < ChunkSize)
<1>1. job \in Jobs /\ JobStaged /\ job.keep
      BY DEF TypeOK, Staged, Making
<1>2. job.buf \in Seq(Marks) /\ job.at \in Nat
      BY <1>1 DEF Jobs
<1>3. Bytes(job.buf) \in Nat
      BY <1>2, BytesNatural DEF Bytes
<1>4. CASE job.buf = <<>>
  <2>1. \A i \in 1 .. Len(job.buf) : job.buf[i].what \notin Parts
        BY <1>4
  <2>2. BytesOf(Parts, job.buf) = 0
        BY <1>2, <2>1, BytesOfNone
  <2> QED BY <1>3, <2>2 DEF Bytes
<1>5. ASSUME NEW made \in Nat, made < ChunkSize,
             job.buf = <<Mark("main", job.at, made, 0)>>
      PROVE  Bytes(job.buf) < ChunkSize
  <2>1. PICK m \in Marks : m = Mark("main", job.at, made, 0) /\ m.what = "main" /\ m.size = made
    <3>1. PICK at \in Nat : at = job.at
          BY <1>2
    <3>2. Mark("main", at, made, 0) \in Marks
          BY MarkTyped, PartsNamed
    <3>3. Mark("main", at, made, 0).what = "main" /\ Mark("main", at, made, 0).size = made
          BY DEF Mark
    <3> QED BY <3>1, <3>2, <3>3
  <2>2. BytesOf(Parts, <<m>>) = Counts(Parts, m)
        BY BytesOfOne
  <2>3. Counts(Parts, m) = made
        BY <2>1, PartsNamed DEF Counts
  <2> QED BY <1>5, <2>1, <2>2, <2>3 DEF Bytes
<1> QED BY <1>1, <1>3, <1>4, <1>5 DEF JobStaged

\* On a generated page, bytes of MAIN are sent with a chunk that is full, and
\* total_bytes never falls.
LEMMA MainGrows ==
  ASSUME TypeOK, Staged, MainHeld, [Next]_vars, ~Static
  PROVE  /\ MainBytes \in Nat /\ MainBytes' \in Nat /\ total' >= total
         /\ \/ MainBytes' = MainBytes
            \/ /\ Making
               /\ \E size \in Sections :
                    /\ MainBytes' = MainBytes + (Bytes(job.buf) + size)
                    /\ total' = total + (Bytes(job.buf) + size)
<1>1. output \in Seq(Marks) /\ total \in Nat /\ Held \in Seq(Marks)
      BY HeldTyped DEF TypeOK
<1>2. MainBytes \in Nat /\ MainBytes' = BytesOf({"main"}, output')
      BY <1>1, BytesNatural DEF MainBytes
<1>3. ASSUME NEW u \in Seq(Marks), output' = output \o u,
             \A m \in Range(u) : m.what # "main"
      PROVE  MainBytes' = MainBytes
  <2>1. BytesOf({"main"}, u) = 0
        BY <1>3, BytesOfOthers
  <2>2. BytesOf({"main"}, output \o u) = BytesOf({"main"}, output) + BytesOf({"main"}, u)
        BY <1>1, BytesJoined
  <2> QED BY <1>2, <1>3, <2>1, <2>2 DEF MainBytes
<1>4. \A m \in Range(TextHere) : m.what # "main"
      BY TextMarks, PartsNamed
<1>5. ASSUME output' = output, total' >= total
      PROVE  MainBytes' = MainBytes /\ MainBytes' \in Nat /\ total' >= total
      BY <1>2, <1>5 DEF MainBytes
<1>6. CASE Quiet
      BY <1>1, <1>2, <1>5, <1>6 DEF Quiet
<1>7. CASE WritesText
      BY <1>1, <1>2, <1>5, <1>7 DEF WritesText
<1>8. CASE SendsRest
  <2>1. /\ output' = output \o Written /\ total' = total /\ state = "Template"
        /\ Held = buffer
        BY <1>8, HeldTyped DEF SendsRest
  <2>2. Written \in Seq(Marks) /\ Range(Written) = Range(Held) \cup Range(TextHere)
        BY <2>1, WrittenTyped
  <2>3. \A m \in Range(Held) : m.what # "main"
        BY <2>1 DEF MainHeld, Making
  <2>4. MainBytes' = MainBytes
        BY <1>3, <1>4, <2>1, <2>2, <2>3
  <2> QED BY <1>1, <1>2, <2>1, <2>4
<1>9. ASSUME NEW what, NEW size, NEW tag, WritesMark(what, size, tag)
      PROVE  MainBytes' = MainBytes /\ MainBytes' \in Nat /\ total' >= total
      BY <1>1, <1>2, <1>5, <1>9 DEF WritesMark
<1>10. ASSUME NEW size, SendsJob(size)
       PROVE  MainBytes' = MainBytes /\ MainBytes' \in Nat /\ total' >= total
  <2>1. PICK n : n = Mark(job.what, job.at, size, 0)
        OBVIOUS
  <2>2. PICK u : u = job.buf \o <<n>>
        OBVIOUS
  <2>3. n \in Marks /\ u \in Seq(Marks) /\ Held = job.buf
        BY <1>10, <2>1, <2>2, JobSent
  <2>4. output' = output \o u /\ total' = total + Bytes(u)
        BY <1>10, <2>1, <2>2 DEF SendsJob
  <2>5. Range(u) = Range(Held) \cup {n}
    <3>1. <<n>> \in Seq(Marks) /\ Range(<<n>>) = {n}
          BY <2>3, RangeOfOne
    <3>2. PICK one \in Seq(Marks) : one = <<n>>
          BY <3>1
    <3>3. Range(Held \o one) = Range(Held) \cup Range(one)
          BY <1>1, RangeJoined
    <3> QED BY <2>2, <2>3, <3>1, <3>2, <3>3
  <2>6. state = "GeneratingContent" /\ ~job.keep /\ JobStaged
        BY <1>10 DEF SendsJob, Staged
  <2>7. \A m \in Range(u) : m.what # "main"
    <3>1. n.what # "main"
          BY <2>1, <2>6 DEF Mark, JobStaged
    <3>2. \A m \in Range(Held) : m.what # "main"
          BY <2>6 DEF MainHeld, Making
    <3> QED BY <2>5, <3>1, <3>2
  <2>8. MainBytes' = MainBytes
        BY <1>3, <2>3, <2>4, <2>7
  <2>9. Bytes(u) \in Nat
        BY <2>3, BytesNatural DEF Bytes
  <2> QED BY <1>1, <1>2, <2>4, <2>8, <2>9
<1>11. ASSUME NEW made, Grows(made)
       PROVE  MainBytes' = MainBytes /\ MainBytes' \in Nat /\ total' >= total
       BY <1>1, <1>2, <1>5, <1>11 DEF Grows
<1>12. ASSUME NEW size, SendsChunk(size)
       PROVE  /\ MainBytes' \in Nat /\ total' >= total /\ Making /\ size \in Sections
              /\ MainBytes' = MainBytes + (Bytes(job.buf) + size)
              /\ total' = total + (Bytes(job.buf) + size)
  <2>1. PICK made \in Nat : made = Bytes(job.buf) + size
        BY <1>12 DEF SendsChunk
  <2>2. PICK n : n = Mark("main", job.at, made, now)
        OBVIOUS
  <2>3. /\ n \in Marks /\ n.what = "main" /\ n.size = made
        BY <1>12, <2>1, <2>2, ChunkSent DEF Mark
  <2>4. PICK u \in Seq(Marks) : u = <<n>>
        BY <1>12, <2>1, <2>2, ChunkSent
  <2>5. /\ output' = output \o u /\ total' = total + Bytes(u)
        /\ Making /\ size \in Sections
        BY <1>12, <2>1, <2>2, <2>4 DEF SendsChunk, Making
  <2>6. BytesOf({"main"}, u) = made /\ BytesOf(Parts, u) = made
    <3>1. BytesOf({"main"}, u) = Counts({"main"}, n) /\ BytesOf(Parts, u) = Counts(Parts, n)
          BY <2>3, <2>4, BytesOfOne
    <3> QED BY <2>3, <3>1, PartsNamed DEF Counts
  <2>7. BytesOf({"main"}, output \o u) = BytesOf({"main"}, output) + BytesOf({"main"}, u)
        BY <1>1, BytesJoined
  <2> QED BY <1>1, <1>2, <2>1, <2>5, <2>6, <2>7 DEF MainBytes, Bytes
<1> QED BY <1>2, <1>6, <1>7, <1>8, <1>9, <1>10, <1>11, <1>12, Moves

\* What was spent on MAIN is counted in total_bytes, which are below the size
\* of the page while a chunk is made.
Spent ==
  ~Static =>
    /\ MainBytes <= total
    /\ Making => total < PayloadSize
    /\ MainBytes > 0 => MainBytes < PayloadSize + ChunkSize + Max(Sections \cup {0})

\* No step spends more.
LEMMA SpentNext ==
  ASSUME TypeOK, Staged, MainHeld, Spent, [Next]_vars
  PROVE  Spent'
<1> DEFINE bound == PayloadSize + ChunkSize + Max(Sections \cup {0})
<1> SUFFICES ASSUME ~Static'
             PROVE  /\ MainBytes' <= total'
                    /\ Making' => total' < PayloadSize
                    /\ MainBytes' > 0 => MainBytes' < bound
    BY DEF Spent
<1>1. /\ ~Static /\ MainBytes <= total /\ (Making => total < PayloadSize)
      /\ MainBytes > 0 => MainBytes < bound
      BY TimeGoesOn DEF Spent
<1>2. /\ MainBytes \in Nat /\ MainBytes' \in Nat /\ total' >= total
      /\ \/ MainBytes' = MainBytes
         \/ /\ Making
            /\ \E size \in Sections :
                 /\ MainBytes' = MainBytes + (Bytes(job.buf) + size)
                 /\ total' = total + (Bytes(job.buf) + size)
      BY <1>1, MainGrows
<1>3. total \in Nat /\ total' \in Nat /\ PayloadSize \in Nat /\ ChunkSize \in Nat
      BY TypeNext, SizesAreNaturals DEF TypeOK
<1>4. Making' => total' < PayloadSize
      BY <1>1, ChunkGoesOn
<1>5. PICK most \in Nat : most = Max(Sections \cup {0}) /\ \A size \in Sections : size <= most
      BY SectionsBounded
<1>6. CASE MainBytes' = MainBytes
      BY <1>1, <1>2, <1>3, <1>4, <1>6
<1>7. ASSUME Making, NEW size \in Sections,
             MainBytes' = MainBytes + (Bytes(job.buf) + size),
             total' = total + (Bytes(job.buf) + size)
      PROVE  MainBytes' <= total' /\ MainBytes' < bound
  <2>1. PICK had \in Nat : had = Bytes(job.buf) /\ (had = 0 \/ had < ChunkSize)
        BY <1>7, ChunkShort
  <2>2. size \in Nat /\ size <= most
        BY <1>5, SizesNatural
  <2>3. MainBytes <= total /\ total < PayloadSize
        BY <1>1, <1>7
  <2>4. MainBytes' = MainBytes + (had + size) /\ total' = total + (had + size)
        BY <1>7, <2>1
  <2>5. bound = PayloadSize + ChunkSize + most
        BY <1>5
  <2> QED BY <1>2, <1>3, <2>1, <2>2, <2>3, <2>4, <2>5
<1> QED BY <1>2, <1>4, <1>6, <1>7

\* At the beginning nothing is spent.
LEMMA SpentInit == Init => MainHeld /\ Spent
<1> SUFFICES ASSUME Init PROVE MainHeld /\ Spent
    OBVIOUS
<1>1. output = <<>> /\ Held = <<>> /\ total = 0 /\ state = "Template"
      BY DEF Init, Held
<1>2. MainBytes = 0
  <2>1. output \in Seq(Marks) /\ \A i \in 1 .. Len(output) : output[i].what \notin {"main"}
        BY <1>1
  <2> QED BY <2>1, BytesOfNone DEF MainBytes
<1> QED BY <1>1, <1>2, RangeOfNone DEF MainHeld, Spent, Making

\* MAIN overshoots the size of the page by less than a chunk and a section: a
\* chunk is only begun below it, and is sent as soon as it is full.
THEOREM MainStaysWithinPayload == Spec => []MainWithinPayload
<1>1. Spent => MainWithinPayload
      BY DEF Spent, MainWithinPayload
<1> QED BY <1>1, TypeInit, TypeNext, StagedInit, StagedNext, SpentInit, MainHeldNext,
           SpentNext, PTL DEF Spec

\* The time since the last chunk and the rest of the Sleep are min_delay or more.
Paced == gap + left >= MinDelay

\* No step shortens the delay.
LEMMA PacedNext ==
  ASSUME TypeOK, Staged, Paced, [Next]_vars
  PROVE  Paced'
<1>1. /\ gap \in 0 .. MaxTime /\ left \in Nat /\ MaxTime \in Nat /\ MinDelay \in Nat
      /\ MinDelay <= MaxTime
      BY SizesAreNaturals, ClockOutlivesDelays DEF TypeOK
<1>2. CASE Tick
  <2>1. gap' = Min({gap + 1, MaxTime}) /\ left' = IF left > 0 THEN left - 1 ELSE 0
        BY <1>2 DEF Tick
  <2>2. gap + 1 \in Nat
        BY <1>1
  <2>3. gap' = IF gap + 1 <= MaxTime THEN gap + 1 ELSE MaxTime
        BY <1>1, <2>1, <2>2, Smaller
  <2> QED BY <1>1, <2>1, <2>3 DEF Paced
<1>3. CASE FinishChunk
  <2>1. CASE Panic
        BY <1>3, <2>1 DEF FinishChunk, Panic, Paced, HandOver
  <2>2. ASSUME NEW delay \in Delays, left' = delay, gap' = 0 PROVE Paced'
    <3>1. delay \in Nat /\ delay >= MinDelay
          BY SizesNatural
    <3> QED BY <2>2, <3>1 DEF Paced
  <2> QED BY <1>3, <2>1, <2>2 DEF FinishChunk
<1>4. CASE ~Tick /\ ~FinishChunk
  <2>1. UNCHANGED <<gap, left>>
        BY <1>4 DEF Next, Poll, vars, WriteTitle, WriteInitial, WriteMessage,
           EnterContent, WriteExtra, WriteFooter, FinishPage, Reach, StartJob,
           LeaveContent, StartChunk, FinishJob, HandOver, Panic, GrowChunk, DelayOver,
           EndOfBody
  <2> QED BY <2>1 DEF Paced
<1> QED BY <1>2, <1>3, <1>4

\* Two chunks of MAIN are at least min_delay apart: the Sleep that follows one
\* has elapsed before another is begun.
THEOREM ChunksAreSpaced == Spec => ChunksSpaced
<1>1. Init => Paced
      BY SizesAreNaturals, ClockOutlivesDelays DEF Init, Paced
<1>2. TypeOK /\ Staged /\ MainHeld /\ Paced /\ [Next]_vars
        => [MainBytes' > MainBytes => Static \/ gap >= MinDelay]_vars
  <2> SUFFICES ASSUME TypeOK, Staged, MainHeld, Paced, [Next]_vars,
                      MainBytes' > MainBytes, ~Static
               PROVE  gap >= MinDelay
      OBVIOUS
  <2>1. Making
        BY MainGrows
  <2>2. left = 0
        BY <2>1 DEF Staged, Making
  <2>3. gap \in Nat /\ MinDelay \in Nat
        BY SizesAreNaturals DEF TypeOK
  <2> QED BY <2>2, <2>3 DEF Paced
<1> QED BY <1>1, <1>2, TypeInit, TypeNext, StagedInit, StagedNext, SpentInit, MainHeldNext,
           PacedNext, PTL DEF Spec, ChunksSpaced

-----------------------------------------------------------------------------
(***************************************************************************)
(* The order of the page.                                                  *)
(***************************************************************************)

\* A mark may come before another, all of some before all of others, and those
\* of a sequence in its order.
Precedes(x, y) == x.at < y.at \/ (x.at = y.at /\ y.what = "main" /\ ~Static)
AllPrecede(S, U) == \A x \in S, y \in U : Precedes(x, y)
Ordered(s) == \A i, j \in 1 .. Len(s) : i < j => Precedes(s[i], s[j])

\* Two sequences in order, of which one may come before the other, are in order.
LEMMA OrderJoined ==
  ASSUME NEW s \in Seq(Marks), NEW u \in Seq(Marks), Ordered(s), Ordered(u),
         AllPrecede(Range(s), Range(u))
  PROVE  Ordered(s \o u)
<1> DEFINE r == s \o u
<1>1. /\ Len(s) \in Nat /\ Len(u) \in Nat /\ Len(r) = Len(s) + Len(u)
      /\ \A i \in 1 .. Len(s) : r[i] = s[i]
      /\ \A i \in Len(s) + 1 .. Len(s) + Len(u) : r[i] = u[i - Len(s)]
      /\ DOMAIN u = 1 .. Len(u) /\ DOMAIN s = 1 .. Len(s)
      OBVIOUS
<1> HIDE DEF r
<1>2. ASSUME NEW i \in 1 .. Len(r), NEW j \in 1 .. Len(r), i < j
      PROVE  Precedes(r[i], r[j])
  <2>1. CASE i \in 1 .. Len(s) /\ j \in 1 .. Len(s)
        BY <1>1, <1>2, <2>1 DEF Ordered
  <2>2. CASE i \in 1 .. Len(s) /\ j \notin 1 .. Len(s)
    <3>1. j \in Len(s) + 1 .. Len(s) + Len(u) /\ j - Len(s) \in 1 .. Len(u)
          BY <1>1, <2>2
    <3>2. r[i] \in Range(s) /\ r[j] \in Range(u)
          BY <1>1, <2>2, <3>1 DEF Range
    <3> QED BY <3>2 DEF AllPrecede
  <2>3. CASE i \notin 1 .. Len(s)
    <3>1. /\ i \in Len(s) + 1 .. Len(s) + Len(u) /\ i - Len(s) \in 1 .. Len(u)
          /\ j \in Len(s) + 1 .. Len(s) + Len(u) /\ j - Len(s) \in 1 .. Len(u)
          /\ i - Len(s) < j - Len(s)
          BY <1>1, <1>2, <2>3
    <3>2. r[i] = u[i - Len(s)] /\ r[j] = u[j - Len(s)]
          BY <1>1, <3>1
    <3> QED BY <3>1, <3>2 DEF Ordered
  <2> QED BY <2>1, <2>2, <2>3
<1> QED BY <1>2 DEF Ordered, r

\* A mark alone is in order, as is no mark.
LEMMA OrderOfFew == Ordered(<<>>) /\ \A m : Ordered(<<m>>)
<1>1. Ordered(<<>>)
      BY DEF Ordered
<1>2. ASSUME NEW m PROVE Ordered(<<m>>)
  <2>1. Len(<<m>>) = 1 /\ \A i, j \in 1 .. 1 : ~ (i < j)
        OBVIOUS
  <2> QED BY <2>1 DEF Ordered
<1> QED BY <1>1, <1>2

\* The text before a placeholder is in the order of its template.
LEMMA OrderOfText == ASSUME TypeOK PROVE Ordered(TextHere)
<1>1. PICK n : n = Len(TextHere)
      OBVIOUS
<1>2. /\ \A k \in 1 .. n : TextHere[k] = Mark("text", cursor + k - 1, 1, 0)
      /\ cursor \in Nat
      BY <1>1, WrittenTyped, TemplatesAreTexts DEF TypeOK
<1>3. ASSUME NEW i \in 1 .. n, NEW j \in 1 .. n, i < j
      PROVE  Precedes(TextHere[i], TextHere[j])
  <2>1. TextHere[i].at = cursor + i - 1 /\ TextHere[j].at = cursor + j - 1
    <3>1. \A x : Mark("text", x, 1, 0).at = x
          BY DEF Mark
    <3> QED BY <1>2, <3>1
  <2>2. cursor + i - 1 < cursor + j - 1
        BY <1>2, <1>3
  <2> QED BY <2>1, <2>2 DEF Precedes
<1> QED BY <1>1, <1>3 DEF Ordered

\* What is sent and held is in order, and behind the cursor only when the page
\* is finished; the mark that a future is going to write comes last.
InOrder ==
  /\ Ordered(output) /\ Ordered(Held) /\ AllPrecede(Range(output), Range(Held))
  /\ state # "Finished" => \A x \in Range(output) \cup Range(Held) : x.at < cursor
  /\ state = "GeneratingContent" /\ ~job.keep =>
       \A x \in Range(output) \cup Range(Held) : x.at < job.at

\* What the cursor writes comes behind all that was written before.
LEMMA WrittenInOrder ==
  ASSUME TypeOK, InOrder, state = "Template"
  PROVE  /\ Ordered(Written) /\ AllPrecede(Range(output), Range(Written))
         /\ \A x \in Range(output) \cup Range(Written) : x.at < Here.at
<1>1. /\ Held = buffer /\ buffer \in Seq(Marks) /\ output \in Seq(Marks)
      /\ cursor \in Nat /\ Here.at \in Nat /\ cursor <= Here.at
  <2>1. Here.at \in cursor .. Len(template) + 1 /\ cursor \in 1 .. Len(template) + 1
        BY HereBehind DEF TypeOK
  <2> QED BY <2>1, HeldTyped DEF TypeOK
<1>2. /\ TextHere \in Seq(Marks) /\ Written = buffer \o TextHere
      /\ Range(Written) = Range(buffer) \cup Range(TextHere)
      BY WrittenTyped
<1>3. \A x \in Range(TextHere) : x.at \in Nat /\ cursor <= x.at /\ x.at < Here.at
  <2>1. \A x \in Range(TextHere) : x.at \in cursor .. Here.at - 1
        BY TextMarks
  <2> QED BY <1>1, <2>1
<1>4. /\ \A x \in Range(output) \cup Range(buffer) : x.at < cursor
      /\ Ordered(buffer) /\ AllPrecede(Range(output), Range(buffer))
      BY <1>1 DEF InOrder
<1>5. \A x \in Range(output) \cup Range(buffer) : x.at \in Nat
      BY <1>1, RangeOfMarks DEF Marks
<1>6. \A x \in Range(output) \cup Range(buffer), y \in Range(TextHere) : x.at < y.at
      BY <1>1, <1>3, <1>4, <1>5
<1>7. Ordered(Written)
  <2>1. AllPrecede(Range(buffer), Range(TextHere))
        BY <1>6 DEF AllPrecede, Precedes
  <2> QED BY <1>1, <1>2, <1>4, <2>1, OrderOfText, OrderJoined
<1>8. AllPrecede(Range(output), Range(Written))
      BY <1>2, <1>4, <1>6 DEF AllPrecede, Precedes
<1>9. \A x \in Range(output) \cup Range(Written) : x.at < Here.at
      BY <1>1, <1>2, <1>3, <1>4, <1>5
<1> QED BY <1>7, <1>8, <1>9

\* No step writes or sends out of order.
LEMMA InOrderNext ==
  ASSUME TypeOK, Staged, InOrder, [Next]_vars
  PROVE  InOrder'
<1>1. /\ output \in Seq(Marks) /\ Held \in Seq(Marks) /\ Static' = Static
      /\ cursor \in Nat /\ \A x \in Range(output) \cup Range(Held) : x.at \in Nat
  <2>1. /\ output \in Seq(Marks) /\ Held \in Seq(Marks) /\ Static' = Static
        /\ cursor \in Nat
        BY HeldTyped, TimeGoesOn, TemplatesAreTexts DEF TypeOK
  <2>2. Range(output) \in SUBSET Marks /\ Range(Held) \in SUBSET Marks
        BY <2>1, RangeOfMarks
  <2>3. \A x \in Marks : x.at \in Nat
        BY DEF Marks
  <2> QED BY <2>1, <2>2, <2>3
<1>2. /\ \A s : Ordered(s)' <=> Ordered(s)
          BY <1>1 DEF Ordered, AllPrecede, Precedes
<1>3. Ordered(output) /\ Ordered(Held) /\ AllPrecede(Range(output), Range(Held))
      BY DEF InOrder
<1>4. ASSUME Ordered(output'), Ordered(Held'), AllPrecede(Range(output'), Range(Held')),
             state' # "Finished" => \A x \in Range(output') \cup Range(Held') : x.at < cursor',
             state' = "GeneratingContent" /\ ~job'.keep =>
               \A x \in Range(output') \cup Range(Held') : x.at < job'.at
      PROVE  InOrder'
  <2>1. Ordered(output)' <=> Ordered(output')
        BY <1>1 DEF Ordered, Precedes
  <2>2. Ordered(Held)' <=> Ordered(Held')
        BY <1>1 DEF Ordered, Precedes
  <2>3. AllPrecede(Range(output), Range(Held))' <=> AllPrecede(Range(output'), Range(Held'))
        BY <1>1 DEF AllPrecede, Precedes
  <2> QED BY <1>4, <2>1, <2>2, <2>3 DEF InOrder
<1>5. ASSUME state = "Template"
      PROVE  /\ cursor <= Here.at /\ Here.at \in Nat /\ Here.next \in Nat
             /\ Here.state # "finished" => Slot \in Nat /\ Here.at < Slot /\ Slot < Here.next
  <2>1. /\ Here.at \in cursor .. Len(template) + 1 /\ Here.next \in 1 .. Len(template) + 1
        /\ Here.state # "finished" => Slot \in Nat /\ Here.at < Slot /\ Slot = Here.next - 1
        BY HereBehind
  <2> QED BY <1>1, <2>1
<1>6. ASSUME state = "Template"
      PROVE  /\ Ordered(Written) /\ AllPrecede(Range(output), Range(Written))
             /\ \A x \in Range(output) \cup Range(Written) : x.at < Here.at /\ x.at \in Nat
  <2>1. Range(Written) \in SUBSET Marks
        BY WrittenTyped, RangeOfMarks
  <2> QED BY <1>1, <1>6, <2>1, WrittenInOrder DEF Marks
<1>7. Ordered(<<>>) /\ AllPrecede(Range(output), Range(<<>>))
      BY OrderOfFew, RangeOfNone DEF AllPrecede
<1>8. ASSUME NEW m \in Marks, \A x \in Range(output) : Precedes(x, m)
      PROVE  AllPrecede(Range(output), Range(<<m>>))
      BY <1>8, RangeOfOne DEF AllPrecede
<1>9. CASE Quiet
  <2>1. CASE Held' = Held /\ cursor' = cursor
        BY <1>3, <1>4, <1>9, <2>1 DEF Quiet, InOrder
  <2>2. CASE Held' = <<>> /\ EnterContent
    <3>1. /\ state = "Template" /\ state' = "Content" /\ cursor' = Here.next
          /\ Here.state # "finished" /\ output' = output
          BY <2>2 DEF EnterContent, Reach
    <3>2. \A x \in Range(output) : x.at < Here.next
          BY <1>5, <1>6, <3>1
    <3> QED BY <1>3, <1>4, <1>7, <2>2, <3>1, <3>2, RangeOfNone
  <2>3. CASE Held' = <<>> /\ state' = "Panicked" /\ cursor' = cursor
    <3>1. state # "Finished" /\ output' = output
          BY <1>9, <2>3 DEF Quiet
    <3>2. \A x \in Range(output) : x.at < cursor
          BY <3>1 DEF InOrder
    <3> QED BY <1>3, <1>4, <1>7, <2>3, <3>1, <3>2, RangeOfNone
  <2> QED BY <1>9, <2>1, <2>2, <2>3 DEF Quiet
<1>10. CASE WritesText
  <2>1. /\ state = "Template" /\ Held' = Written /\ output' = output /\ cursor' = Here.next
        /\ state' = "GeneratingContent" => job'.at = Slot
        BY <1>10 DEF WritesText
  <2>2. Here.state # "finished"
        BY <1>10, StatesDiffer DEF WritesText
  <2>3. \A x \in Range(output) \cup Range(Written) : x.at < Slot /\ x.at < Here.next
        BY <1>5, <1>6, <2>1, <2>2
  <2> QED BY <1>3, <1>4, <1>6, <2>1, <2>3
<1>11. ASSUME NEW what, NEW size, NEW tag, WritesMark(what, size, tag) PROVE InOrder'
  <2>1. PICK n : n = Mark(what, Slot, size, tag)
        OBVIOUS
  <2>2. /\ state = "Template" /\ state' = "Template" /\ Held' = Written \o <<n>>
        /\ output' = output /\ cursor' = Here.next /\ Here.state # "finished"
        BY <1>11, <2>1, StatesDiffer DEF WritesMark
  <2>3. n \in Marks /\ n.at = Slot
        BY <1>11, <2>1, MarkWritten DEF Mark
  <2>4. PICK one \in Seq(Marks) : one = <<n>> /\ Range(one) = {n}
    <3>1. <<n>> \in Seq(Marks) /\ Range(<<n>>) = {n}
          BY <2>3, RangeOfOne
    <3> QED BY <3>1
  <2>5. \A x \in Range(output) \cup Range(Written) : x.at < n.at /\ x.at < Here.next
        BY <1>5, <1>6, <2>2, <2>3
  <2>6. n.at < Here.next
        BY <1>5, <2>2, <2>3
  <2>7. Written \in Seq(Marks)
        BY WrittenTyped
  <2>8. Ordered(Written \o one)
    <3>1. AllPrecede(Range(Written), Range(one))
          BY <2>4, <2>5 DEF AllPrecede, Precedes
    <3>2. Ordered(one)
          BY <2>4, OrderOfFew
    <3> QED BY <1>6, <2>2, <2>7, <3>1, <3>2, OrderJoined
  <2>9. Range(Written \o one) = Range(Written) \cup {n}
    <3>1. PICK s \in Seq(Marks) : s = Written
          BY <2>7
    <3>2. Range(s \o one) = Range(s) \cup Range(one)
          BY RangeJoined
    <3> QED BY <2>4, <3>1, <3>2
  <2>10. AllPrecede(Range(output), Range(Written \o one))
        BY <1>6, <2>2, <2>5, <2>9 DEF AllPrecede, Precedes
  <2>11. Held' = Written \o one
        BY <2>2, <2>4
  <2> QED BY <1>3, <1>4, <2>2, <2>5, <2>6, <2>8, <2>9, <2>10, <2>11
<1>12. CASE SendsRest
  <2>1. state = "Template" /\ output' = output \o Written /\ Held' = <<>> /\ state' = "Finished"
        BY <1>12 DEF SendsRest
  <2>2. Ordered(output')
        BY <1>1, <1>3, <1>6, <2>1, WrittenTyped, OrderJoined
  <2> QED BY <1>4, <2>1, <2>2, OrderOfFew, RangeOfNone DEF AllPrecede
<1>13. ASSUME NEW size, SendsJob(size) PROVE InOrder'
  <2>1. PICK n : n = Mark(job.what, job.at, size, 0)
        OBVIOUS
  <2>2. PICK u : u = job.buf \o <<n>>
        OBVIOUS
  <2>3. /\ n \in Marks /\ u \in Seq(Marks) /\ Held = job.buf
        /\ Range(output') = Range(output) \cup Range(Held) \cup {n}
        BY <1>13, <2>1, <2>2, JobSent
  <2>4. /\ output' = output \o u /\ Held' = <<>> /\ cursor' = cursor
        /\ state = "GeneratingContent" /\ ~job.keep /\ state' = "Template"
        BY <1>13, <2>1, <2>2 DEF SendsJob
  <2>5. n.at = job.at /\ job.at = cursor - 1
        BY <2>1, <2>4 DEF Mark, Staged, JobStaged
  <2>6. \A x \in Range(output) \cup Range(Held) : x.at < n.at /\ x.at < cursor
        BY <1>1, <2>4, <2>5 DEF InOrder
  <2>7. PICK one \in Seq(Marks) : one = <<n>> /\ Range(one) = {n}
    <3>1. <<n>> \in Seq(Marks) /\ Range(<<n>>) = {n}
          BY <2>3, RangeOfOne
    <3> QED BY <3>1
  <2>8. u = Held \o one /\ Range(u) = Range(Held) \cup {n}
    <3>1. PICK s \in Seq(Marks) : s = Held
          BY <1>1
    <3>2. Range(s \o one) = Range(s) \cup Range(one)
          BY RangeJoined
    <3> QED BY <2>2, <2>3, <2>7, <3>1, <3>2
  <2>9. Ordered(u)
    <3>1. AllPrecede(Range(Held), Range(one))
          BY <2>6, <2>7 DEF AllPrecede, Precedes
    <3>2. Ordered(one)
          BY <2>7, OrderOfFew
    <3> QED BY <1>1, <1>3, <2>8, <3>1, <3>2, OrderJoined
  <2>10. Ordered(output \o u)
    <3>1. AllPrecede(Range(output), Range(u))
          BY <1>3, <2>6, <2>8 DEF AllPrecede, Precedes
    <3> QED BY <1>1, <1>3, <2>3, <2>9, <3>1, OrderJoined
  <2>11. \A x \in Range(output') : x.at < cursor'
    <3>1. n.at < cursor
          BY <1>1, <2>5
    <3> QED BY <2>3, <2>4, <2>6, <3>1
  <2> QED BY <1>4, <2>4, <2>10, <2>11, OrderOfFew, RangeOfNone DEF AllPrecede
<1>14. ASSUME Making
       PROVE  /\ ~Static /\ job.at = cursor - 1 /\ job.at \in Nat
              /\ \A x \in Range(output) : x.at <= job.at
  <2>1. ~Static /\ job.at = cursor - 1 /\ job \in Jobs /\ state # "Finished"
        BY <1>14 DEF Making, Staged, JobStaged, TypeOK
  <2>2. job.at \in Nat /\ \A x \in Range(output) : x.at < cursor
        BY <2>1 DEF Jobs, InOrder
  <2> QED BY <1>1, <2>1, <2>2
<1>15. ASSUME NEW made, Grows(made) PROVE InOrder'
  <2>1. PICK n : n = Mark("main", job.at, made, 0)
        OBVIOUS
  <2>2. /\ n \in Marks /\ Range(Held') = {n} /\ Held' = <<n>>
        /\ output' = output /\ cursor' = cursor /\ Making /\ job'.keep
        BY <1>15, <2>1, ChunkHeld DEF Grows, Making
  <2>3. n.at = job.at /\ n.what = "main"
        BY <2>1 DEF Mark
  <2>4. AllPrecede(Range(output'), Range(Held'))
        BY <1>1, <1>14, <2>2, <2>3 DEF AllPrecede, Precedes
  <2>5. \A x \in Range(output') \cup Range(Held') : x.at < cursor'
        BY <1>1, <1>14, <2>2, <2>3
  <2> QED BY <1>3, <1>4, <2>2, <2>4, <2>5, OrderOfFew
<1>16. ASSUME NEW size, SendsChunk(size) PROVE InOrder'
  <2>1. PICK n : n = Mark("main", job.at, Bytes(job.buf) + size, now)
        OBVIOUS
  <2>2. /\ n \in Marks /\ output' = output \o <<n>> /\ Held' = <<>> /\ cursor' = cursor
        /\ Making /\ state' \in {"Content", "Delay"}
        /\ Range(output') = Range(output) \cup {n}
        BY <1>16, <2>1, ChunkSent DEF SendsChunk, Making
  <2>3. n.at = job.at /\ n.what = "main"
        BY <2>1 DEF Mark
  <2>4. PICK one \in Seq(Marks) : one = <<n>> /\ Range(one) = {n}
    <3>1. <<n>> \in Seq(Marks) /\ Range(<<n>>) = {n}
          BY <2>2, RangeOfOne
    <3> QED BY <3>1
  <2>5. Ordered(output \o one)
    <3>1. AllPrecede(Range(output), Range(one))
          BY <1>1, <1>14, <2>2, <2>3, <2>4 DEF AllPrecede, Precedes
    <3>2. Ordered(one)
          BY <2>4, OrderOfFew
    <3> QED BY <1>1, <1>3, <3>1, <3>2, OrderJoined
  <2>6. ASSUME NEW x \in Range(output') PROVE x.at < cursor'
    <3>1. x \in Range(output) \/ x = n
          BY <2>2
    <3>2. cursor' = cursor
          BY <2>2
    <3> QED BY <1>1, <1>14, <2>2, <2>3, <3>1, <3>2
  <2> QED BY <1>4, <2>2, <2>4, <2>5, <2>6, OrderOfFew, RangeOfNone DEF AllPrecede
<1> QED BY <1>9, <1>10, <1>11, <1>12, <1>13, <1>15, <1>16, Moves

\* Nothing is sent twice or out of the template's order: the cursor is behind
\* all that was written, in the buffer, in a future or to the client.
THEOREM OutputStaysInOrder == Spec => []OutputInOrder
<1>1. Init => InOrder
  <2>1. Init => Held = <<>> /\ output = <<>>
        BY DEF Init, Held
  <2> QED BY <2>1, RangeOfNone, OrderOfFew DEF InOrder, AllPrecede
<1>2. TypeOK /\ InOrder => OutputInOrder
  <2> SUFFICES ASSUME TypeOK, InOrder, NEW i \in 1 .. Len(output), NEW j \in 1 .. Len(output),
                      i < j
               PROVE  \/ output[i].at < output[j].at
                      \/ output[i].at = output[j].at /\ output[j].what = "main" /\ ~Static
      BY DEF OutputInOrder
  <2> QED BY DEF InOrder, Ordered, Precedes
<1> QED BY <1>1, <1>2, TypeInit, TypeNext, StagedInit, StagedNext, InOrderNext, PTL DEF Spec

-----------------------------------------------------------------------------
(***************************************************************************)
(* What the page has of its template.                                      *)
(***************************************************************************)

\* Where a placeholder ends, and what its word is.
LEMMA SlotsPlaced ==
  ASSUME NEW S, NEW t \in Seq(S), NEW k \in 1 .. Len(t), NEW w, NEW e, SlotAt(t, k, w, e)
  PROVE  k \in Slots(t) /\ SlotEnd(t, k) = e /\ SlotWord(t, k) = t[w]
<1>1. /\ w \in k + 1 .. Len(t) /\ e \in w + 1 .. Len(t)
      /\ t[k] = Opening /\ t[w] \in Placeholders /\ t[e] = Closing
      /\ \A x \in (k + 1 .. e - 1) \ {w} : t[x] = Blank
      BY DEF SlotAt
<1>2. SlotEnd(t, k) = e
  <2>1. PICK N : N = {x \in k .. Len(t) : t[x] = Closing}
        OBVIOUS
  <2>2. N \in SUBSET Nat /\ e \in N
        BY <1>1, <2>1
  <2>3. Min(N) \in N /\ Min(N) <= e
        BY <2>2, Least
  <2>4. ASSUME NEW x \in N, x < e PROVE FALSE
    <3>1. x \in k .. e - 1 /\ t[x] = Closing
          BY <1>1, <2>1, <2>4
    <3>2. x = k \/ x = w \/ x \in (k + 1 .. e - 1) \ {w}
          BY <3>1
    <3> QED BY <1>1, <3>1, <3>2, TokensDiffer
  <2>5. Min(N) = e
    <3>1. PICK n \in N : n = Min(N)
          BY <2>3
    <3>2. n \in Nat /\ e \in Nat /\ n <= e /\ ~ (n < e)
          BY <2>2, <2>3, <2>4, <3>1
    <3>3. n = e
          BY <3>2
    <3> QED BY <3>1, <3>3
  <2> QED BY <2>1, <2>5 DEF SlotEnd
<1>3. SlotWord(t, k) = t[w]
  <2>1. PICK N : N = {x \in k + 1 .. Len(t) : t[x] # Blank}
        OBVIOUS
  <2>2. N \in SUBSET Nat /\ w \in N
        BY <1>1, <2>1, TokensDiffer
  <2>3. Min(N) \in N /\ Min(N) <= w
        BY <2>2, Least
  <2>4. ASSUME NEW x \in N, x < w PROVE FALSE
    <3>1. x \in (k + 1 .. e - 1) \ {w} /\ t[x] # Blank
          BY <1>1, <2>1, <2>4
    <3> QED BY <1>1, <3>1
  <2>5. Min(N) = w
    <3>1. PICK n \in N : n = Min(N)
          BY <2>3
    <3>2. n \in Nat /\ w \in Nat /\ n <= w /\ ~ (n < w)
          BY <2>2, <2>3, <2>4, <3>1
    <3>3. n = w
          BY <3>2
    <3> QED BY <3>1, <3>3
  <2> QED BY <2>1, <2>5 DEF SlotWord
<1> QED BY <1>1, <1>2, <1>3 DEF Slots

\* The cursor finds the end of the text, with no placeholder left, or the next
\* placeholder of it.
EndFound ==
  /\ Here.state = "finished" /\ Here.at = Len(template) + 1 /\ Here.next = cursor
  /\ \A k \in Slots(template) : k < cursor
SlotFound ==
  /\ Here.state \in Placeholders /\ Here.state # "finished"
  /\ Here.at \in Slots(template) /\ cursor <= Here.at /\ Here.at < Slot /\ Slot < Here.next
  /\ SlotEnd(template, Here.at) = Slot /\ SlotWord(template, Here.at) = Here.state
  /\ \A k \in Slots(template) : k < Here.next => k < cursor \/ k = Here.at
  /\ \A x \in TextOf(template) : x < Here.next => x < Here.at

\* No accepted template has anything else for the cursor to find.
LEMMA Found ==
  ASSUME TypeOK, Staged
  PROVE  EndFound \/ SlotFound
<1>1. PICK t : t = template
      OBVIOUS
<1>2. PICK i : i = cursor
      OBVIOUS
<1>3. t \in Seq(STRING) /\ i \in 1 .. Len(t) + 1 /\ Len(t) \in Nat
      BY <1>1, <1>2, TemplatesAreTexts DEF TypeOK
<1>4. PICK allowed \in SUBSET Placeholders : allowed = Allowed(kind)
      BY DEF Allowed, Placeholders
<1>5. FormedFrom(t, allowed, 1)
      BY <1>1, <1>3, <1>4, FormedThroughout DEF Staged
<1>6. PICK p : p = Process(t, i)
      OBVIOUS
<1>7. Here = IF p.state = "error" THEN [p EXCEPT !.state = "finished"] ELSE p
      BY <1>1, <1>2, <1>6 DEF Here, WriteTemplate
<1>8. \/ /\ p = [state |-> "finished", at |-> Len(t) + 1, next |-> i]
         /\ \A k \in i .. Len(t) : t[k] # Opening
      \/ \E o, w, e \in 1 .. Len(t) :
           /\ OpenAt(t, i, o) /\ SlotAt(t, o, w, e)
           /\ p = [state |-> t[w], at |-> o, next |-> e + 1]
      \/ \E o \in 1 .. Len(t) : OpenAt(t, i, o) /\ \A w, e : ~ SlotAt(t, o, w, e)
      BY <1>3, <1>6, Processed
<1>9. ASSUME p = [state |-> "finished", at |-> Len(t) + 1, next |-> i],
             \A k \in i .. Len(t) : t[k] # Opening
      PROVE  EndFound
  <2>1. Here = p
        BY <1>7, <1>9, StatesDiffer
  <2>2. \A k \in Slots(t) : k < i
        BY <1>3, <1>9 DEF Slots
  <2> QED BY <1>1, <1>2, <1>9, <2>1, <2>2 DEF EndFound
<1>10. ASSUME NEW o \in 1 .. Len(t), NEW w \in 1 .. Len(t), NEW e \in 1 .. Len(t),
              OpenAt(t, i, o), SlotAt(t, o, w, e),
              p = [state |-> t[w], at |-> o, next |-> e + 1]
       PROVE  SlotFound
  <2>1. /\ o \in i .. Len(t) /\ w \in o + 1 .. Len(t) /\ e \in w + 1 .. Len(t)
        /\ t[o] = Opening /\ t[w] \in Placeholders /\ t[e] = Closing
        /\ \A k \in i .. o - 1 : t[k] # Opening
        /\ \A x \in (o + 1 .. e - 1) \ {w} : t[x] = Blank
        BY <1>10 DEF OpenAt, SlotAt
  <2>2. t[w] # "error" /\ t[w] # "finished"
        BY <2>1, StatesDiffer
  <2>3. Here = p
        BY <1>7, <1>10, <2>2
  <2>4. Here.state = t[w] /\ Here.at = o /\ Here.next = e + 1 /\ Slot = e
        BY <1>10, <2>1, <2>3 DEF Slot
  <2>5. o \in Slots(t) /\ SlotEnd(t, o) = e /\ SlotWord(t, o) = t[w]
        BY <1>3, <1>10, SlotsPlaced
  <2>6. ASSUME NEW k \in Slots(t), k < e + 1, ~ (k < i), k # o PROVE FALSE
    <3>1. k \in i .. e /\ t[k] = Opening
          BY <1>3, <2>1, <2>6 DEF Slots
    <3>2. k \in i .. o - 1 \/ k = w \/ k = e \/ k \in (o + 1 .. e - 1) \ {w}
          BY <1>3, <2>1, <2>6, <3>1
    <3> QED BY <2>1, <3>1, <3>2, TokensDiffer
  <2>7. ASSUME NEW x \in TextOf(t), x < e + 1 PROVE x < o
    <3>1. x \in 1 .. Len(t) /\ x \notin o .. SlotEnd(t, o)
          BY <2>5 DEF TextOf
    <3> QED BY <2>1, <2>5, <2>7, <3>1
  <2>8. \A k \in Slots(t) : k < e + 1 => k < i \/ k = o
        BY <2>6
  <2>9. i <= o /\ o < e /\ e < e + 1
        BY <1>3, <2>1
  <2> QED BY <1>1, <1>2, <2>1, <2>2, <2>4, <2>5, <2>7, <2>8, <2>9 DEF SlotFound
<1>11. ASSUME NEW o \in 1 .. Len(t), OpenAt(t, i, o), \A w, e : ~ SlotAt(t, o, w, e)
       PROVE  FALSE
  <2>1. o \in Slots(t) /\ o >= 1
        BY <1>11 DEF OpenAt, Slots
  <2> QED BY <1>5, <1>11, <2>1 DEF FormedFrom
<1> QED BY <1>8, <1>9, <1>10, <1>11

\* The page has a mark, or a future is going to write it.
Has(what, at) == \E m \in Range(output) \cup Range(Held) : m.what = what /\ m.at = at
Pending(what, at) ==
  state = "GeneratingContent" /\ ~job.keep /\ job.what = what /\ job.at = at

\* It has lost what a MAIN has thrown away.
LostAt(x) ==
  /\ ~Static
  /\ \E m \in Slots(template) :
       /\ m > x /\ m < cursor /\ SlotWord(template, m) = "main"
       /\ \A k \in Slots(template) :
            x <= k /\ k < m => SlotWord(template, k) \notin {"initial", "footer"}

\* Where the page has come to.
Reached == IF state = "Finished" THEN Len(template) + 1 ELSE cursor

\* The cursor is in no placeholder, and behind all of them in the end; what is
\* before it is there, or lost; and no INITIAL or FOOTER comes after a mark that
\* is still in the buffer.
SlotsBehind ==
  /\ \A k \in Slots(template) : k < cursor => SlotEnd(template, k) < cursor
  /\ state = "Finished" => \A k \in Slots(template) : k < cursor
TextKept ==
  \A x \in TextOf(template) : x < Reached => Has("text", x) \/ LostAt(x)
SlotsKept ==
  \A k \in MustFill : k < cursor =>
    LET what == SlotWord(template, k)
        at   == SlotEnd(template, k)
    IN  Has(what, at) \/ Pending(what, at) \/ LostAt(k)
BufferRecent ==
  state = "Template" =>
    \A y \in Range(Held), k \in Slots(template) :
      y.at <= SlotEnd(template, k) /\ k < cursor =>
        SlotWord(template, k) \notin {"initial", "footer"}
Covered == state # "Panicked" => SlotsBehind /\ TextKept /\ SlotsKept /\ BufferRecent

\* The slots of an accepted template, in their order.
LEMMA SlotsTyped ==
  ASSUME TypeOK, Staged
  PROVE  /\ \A k \in Slots(template) : k \in Nat /\ SlotEnd(template, k) \in Nat
         /\ \A k \in Slots(template) : k < SlotEnd(template, k)
         /\ \A k, j \in Slots(template) : k < j => SlotEnd(template, k) < j
<1>1. PICK t \in Seq(STRING) : t = template
      BY TemplatesAreTexts DEF TypeOK
<1>2. PICK allowed \in SUBSET Placeholders : allowed = Allowed(kind)
      BY DEF Allowed, Placeholders
<1>3. FormedFrom(t, allowed, 1) /\ Len(t) \in Nat
      BY <1>1, <1>2, FormedThroughout DEF Staged
<1>4. ASSUME NEW k \in Slots(t)
      PROVE  \E e \in Nat :
               /\ SlotEnd(t, k) = e /\ k \in Nat /\ k < e
               /\ \A j \in Slots(t) : k < j => e < j
  <2>1. k \in 1 .. Len(t)
        BY DEF Slots
  <2>2. PICK w, e : SlotAt(t, k, w, e)
        BY <1>3, <2>1, <1>4 DEF FormedFrom
  <2>3. /\ w \in k + 1 .. Len(t) /\ e \in w + 1 .. Len(t)
        /\ t[w] \in Placeholders /\ t[e] = Closing
        /\ \A x \in (k + 1 .. e - 1) \ {w} : t[x] = Blank
        BY <2>2 DEF SlotAt
  <2>4. SlotEnd(t, k) = e
        BY <2>1, <2>2, SlotsPlaced
  <2>5. ASSUME NEW j \in Slots(t), k < j, ~ (e < j) PROVE FALSE
    <3>1. j \in 1 .. Len(t) /\ t[j] = Opening
          BY DEF Slots
    <3>2. j = w \/ j = e \/ j \in (k + 1 .. e - 1) \ {w}
          BY <1>3, <2>1, <2>3, <2>5, <3>1
    <3> QED BY <2>3, <3>1, <3>2, TokensDiffer
  <2>6. e \in Nat /\ k \in Nat /\ k < e
        BY <1>3, <2>1, <2>3
  <2> QED BY <2>4, <2>5, <2>6
<1> QED BY <1>1, <1>4

\* No step but that of a MAIN takes away a mark that is sent or held, save for
\* the chunk that grows.
LEMMA MarksStay ==
  ASSUME TypeOK, Staged, [Next]_vars, ~EnterContent, state' # "Panicked",
         NEW m \in Range(output) \cup Range(Held), m.what = "main" => Static
  PROVE  m \in Range(output') \cup Range(Held')
<1>1. CASE Quiet
      BY <1>1 DEF Quiet
<1>2. CASE WritesText
      BY <1>2, TextWritten DEF WritesText
<1>3. CASE SendsRest
      BY <1>3, RestSent
<1>4. ASSUME NEW what, NEW size, NEW tag, WritesMark(what, size, tag)
      PROVE  m \in Range(output') \cup Range(Held')
  <2>1. Range(Held) \subseteq Range(Held') /\ output' = output
        BY <1>4, MarkWritten DEF WritesMark
  <2> QED BY <2>1
<1>5. ASSUME NEW size, SendsJob(size) PROVE m \in Range(output') \cup Range(Held')
  <2>1. Range(output) \cup Range(Held) \subseteq Range(output')
        BY <1>5, JobSent
  <2> QED BY <2>1
<1>6. ASSUME Making PROVE m \in Range(output)
  <2>1. ~Static /\ Held = job.buf
        BY <1>6 DEF Making, Staged, JobStaged, Held
  <2>2. \/ Held = <<>>
        \/ \E made \in Nat : Held = <<Mark("main", job.at, made, 0)>>
        BY <1>6, <2>1 DEF Making, Staged, JobStaged
  <2>3. \A x \in Range(Held) : x.what = "main"
    <3>1. ASSUME NEW made \in Nat, Held = <<Mark("main", job.at, made, 0)>>,
                 NEW x \in Range(Held)
          PROVE  x.what = "main"
      <4>1. x = Mark("main", job.at, made, 0)
            BY <3>1, RangeOfOne
      <4> QED BY <4>1 DEF Mark
    <3> QED BY <2>2, <3>1, RangeOfNone
  <2> QED BY <2>1, <2>3
<1>7. ASSUME NEW made, Grows(made) PROVE m \in Range(output')
      BY <1>6, <1>7 DEF Grows, Making
<1>8. ASSUME NEW size, SendsChunk(size) PROVE m \in Range(output')
  <2>1. Range(output) \subseteq Range(output') /\ Making
        BY <1>8, ChunkSent DEF SendsChunk, Making
  <2> QED BY <1>6, <2>1
<1> QED BY <1>1, <1>2, <1>3, <1>4, <1>5, <1>7, <1>8, Moves

\* What is lost is lost for good.
LEMMA LostStays ==
  ASSUME TypeOK, Staged, [Next]_vars, cursor' \in Nat, cursor <= cursor', NEW x, LostAt(x)
  PROVE  LostAt(x)'
<1>1. template' = template /\ Static' = Static /\ cursor \in Nat
      BY TimeGoesOn DEF page, TypeOK
<1>2. PICK m \in Slots(template) :
        /\ m > x /\ m < cursor /\ SlotWord(template, m) = "main"
        /\ \A k \in Slots(template) :
             x <= k /\ k < m => SlotWord(template, k) \notin {"initial", "footer"}
      BY DEF LostAt
<1>3. m < cursor'
      BY <1>1, <1>2, SlotsTyped
<1> QED BY <1>1, <1>2, <1>3 DEF LostAt

\* A step that leaves the cursor where it is, and writes what a future owes.
LEMMA CoveredStays ==
  ASSUME TypeOK, Staged, Covered, [Next]_vars, state # "Panicked", state' # "Panicked",
         cursor' = cursor, state' = "Finished" <=> state = "Finished", ~EnterContent,
         \A what, at : Pending(what, at) => Pending(what, at)' \/ Has(what, at)',
         state' = "Template" => Range(Held') = {} \/ (state = "Template" /\ Held' = Held)
  PROVE  Covered'
<1>1. /\ template' = template /\ Static' = Static /\ Reached' = Reached
      /\ MustFill' = MustFill /\ cursor \in Nat
      BY TimeGoesOn DEF page, TypeOK, Reached, MustFill
<1>2. SlotsBehind /\ TextKept /\ SlotsKept /\ BufferRecent
      BY DEF Covered
<1>3. ASSUME NEW what, NEW at, Has(what, at), what = "main" => Static
      PROVE  Has(what, at)'
      BY <1>3, MarksStay DEF Has
<1>4. ASSUME NEW x, LostAt(x) PROVE LostAt(x)'
      BY <1>1, <1>4, LostStays
<1>5. SlotsBehind'
      BY <1>1, <1>2 DEF SlotsBehind
<1>6. TextKept'
  <2> SUFFICES ASSUME NEW x \in TextOf(template), x < Reached
               PROVE  Has("text", x)' \/ LostAt(x)'
      BY <1>1 DEF TextKept
  <2>1. Has("text", x) \/ LostAt(x)
        BY <1>2 DEF TextKept
  <2> QED BY <1>3, <1>4, <2>1
<1>7. SlotsKept'
  <2> SUFFICES ASSUME NEW k \in MustFill, k < cursor,
                      NEW what, what = SlotWord(template, k),
                      NEW at, at = SlotEnd(template, k)
               PROVE  Has(what, at)' \/ Pending(what, at)' \/ LostAt(k)'
      BY <1>1 DEF SlotsKept
  <2>1. Has(what, at) \/ Pending(what, at) \/ LostAt(k)
        BY <1>2 DEF SlotsKept
  <2>2. what = "main" => Static
        BY DEF MustFill
  <2> QED BY <1>3, <1>4, <2>1, <2>2
<1>8. BufferRecent'
      BY <1>1, <1>2 DEF BufferRecent
<1> QED BY <1>5, <1>6, <1>7, <1>8 DEF Covered

\* A MAIN takes away what is behind the last INITIAL or FOOTER.
LEMMA CoveredByMain ==
  ASSUME TypeOK, Staged, Covered, [Next]_vars, EnterContent
  PROVE  Covered'
<1>1. /\ state = "Template" /\ state' = "Content" /\ Here.state = "main" /\ ~Static
      /\ cursor' = Here.next /\ output' = output
      BY DEF EnterContent, Reach
<1>2. /\ template' = template /\ Static' = Static /\ MustFill' = MustFill
      /\ cursor \in Nat /\ Reached' = Here.next /\ Reached = cursor
      BY <1>1, TimeGoesOn DEF page, TypeOK, Reached, MustFill
<1>3. SlotFound /\ Here.at \in Nat /\ Here.next \in Nat
  <2>1. SlotFound
        BY <1>1, Found, StatesDiffer DEF EndFound, Placeholders
  <2>2. Here.at \in cursor .. Len(template) + 1 /\ Here.next \in 1 .. Len(template) + 1
        BY HereBehind
  <2> QED BY <1>2, <2>1, <2>2
<1>4. /\ Here.at \in Slots(template) /\ cursor <= Here.at /\ Here.at < Here.next
      /\ SlotWord(template, Here.at) = "main"
      /\ \A k \in Slots(template) : k < Here.next => k < cursor \/ k = Here.at
      /\ SlotEnd(template, Here.at) < Here.next
      /\ \A x \in TextOf(template) : x < Here.next => x < Here.at
  <2>1. Slot \in Nat /\ Here.at < Slot /\ Slot < Here.next
        BY <1>1, <1>3, HereBehind, StatesDiffer DEF SlotFound
  <2> QED BY <1>1, <1>3, <2>1 DEF SlotFound
<1>5. SlotsBehind /\ TextKept /\ SlotsKept /\ BufferRecent
      BY <1>1 DEF Covered
<1>6. /\ \A k \in Slots(template) : k \in Nat /\ SlotEnd(template, k) \in Nat
      /\ \A k \in Slots(template) : k < SlotEnd(template, k)
      /\ \A k, j \in Slots(template) : k < j => SlotEnd(template, k) < j
      BY SlotsTyped
<1>7. ASSUME NEW x, LostAt(x) PROVE LostAt(x)'
      BY <1>1, <1>2, <1>3, <1>4, <1>7, LostStays
<1>8. ASSUME NEW x \in Nat, x < Here.at,
             \A k \in Slots(template) :
               x <= k /\ k < cursor => SlotWord(template, k) \notin {"initial", "footer"}
      PROVE  LostAt(x)'
  <2>1. \A k \in Slots(template) : x <= k /\ k < Here.at => k < cursor
        BY <1>3, <1>4, <1>6
  <2> QED BY <1>1, <1>2, <1>3, <1>4, <1>8, <2>1 DEF LostAt
<1>9. ASSUME NEW what, NEW at, Has(what, at), NEW x \in Nat, x <= at, x < cursor, at \in Nat,
             \A k \in Slots(template) : x <= k => at <= SlotEnd(template, k)
      PROVE  Has(what, at)' \/ LostAt(x)'
  <2>1. PICK m \in Range(output) \cup Range(Held) : m.what = what /\ m.at = at
        BY <1>9 DEF Has
  <2>2. CASE m \in Range(output)
        BY <1>1, <2>1, <2>2 DEF Has
  <2>3. CASE m \in Range(Held)
    <3>1. \A k \in Slots(template) :
            x <= k /\ k < cursor => SlotWord(template, k) \notin {"initial", "footer"}
          BY <1>1, <1>5, <1>9, <2>1, <2>3 DEF BufferRecent
    <3>2. x < Here.at
          BY <1>2, <1>3, <1>4, <1>9
    <3> QED BY <1>8, <3>1, <3>2
  <2> QED BY <2>1, <2>2, <2>3
<1>10. SlotsBehind'
  <2>1. ASSUME NEW k \in Slots(template), k < Here.next PROVE SlotEnd(template, k) < Here.next
    <3>1. CASE k < cursor
      <4>1. SlotEnd(template, k) < cursor
            BY <1>5, <3>1 DEF SlotsBehind
      <4> QED BY <1>2, <1>3, <1>4, <1>6, <4>1
    <3> QED BY <1>4, <2>1, <3>1
  <2> QED BY <1>1, <1>2, <2>1 DEF SlotsBehind
<1>11. TextKept'
  <2> SUFFICES ASSUME NEW x \in TextOf(template), x < Here.next
               PROVE  Has("text", x)' \/ LostAt(x)'
      BY <1>2 DEF TextKept
  <2>1. x \in Nat /\ x < Here.at
        BY <1>4, TemplatesAreTexts DEF TextOf, TypeOK
  <2>2. CASE x < cursor
    <3>1. Has("text", x) \/ LostAt(x)
          BY <1>2, <1>5, <2>2 DEF TextKept
    <3>2. \A k \in Slots(template) : x <= k => x <= SlotEnd(template, k)
          BY <1>6, <2>1
    <3> QED BY <1>7, <1>9, <2>1, <2>2, <3>1, <3>2
  <2>3. CASE ~ (x < cursor)
    <3>1. \A k \in Slots(template) : ~ (x <= k /\ k < cursor)
          BY <1>2, <1>6, <2>1, <2>3
    <3> QED BY <1>8, <2>1, <3>1
  <2> QED BY <2>2, <2>3
<1>12. SlotsKept'
  <2> SUFFICES ASSUME NEW k \in MustFill, k < Here.next,
                      NEW what, what = SlotWord(template, k),
                      NEW at, at = SlotEnd(template, k)
               PROVE  Has(what, at)' \/ Pending(what, at)' \/ LostAt(k)'
      BY <1>1, <1>2 DEF SlotsKept
  <2>1. k \in Slots(template) /\ k < cursor
        BY <1>1, <1>4 DEF MustFill
  <2>2. Has(what, at) \/ LostAt(k)
        BY <1>1, <1>5, <2>1 DEF SlotsKept, Pending
  <2>3. /\ k \in Nat /\ at \in Nat /\ k <= at
        /\ \A j \in Slots(template) : k <= j => at <= SlotEnd(template, j)
    <3>1. k \in Nat /\ at \in Nat /\ k <= at
          BY <1>6, <2>1
    <3>2. ASSUME NEW j \in Slots(template), k <= j PROVE at <= SlotEnd(template, j)
      <4>1. CASE k = j
            BY <3>1, <4>1
      <4>2. CASE k < j
        <5>1. at < j /\ j < SlotEnd(template, j) /\ j \in Nat /\ SlotEnd(template, j) \in Nat
              BY <1>6, <2>1, <4>2
        <5> QED BY <3>1, <5>1
      <4> QED BY <1>6, <3>1, <3>2, <4>1, <4>2
    <3> QED BY <3>1, <3>2
  <2> QED BY <1>7, <1>9, <2>1, <2>2, <2>3
<1>13. BufferRecent'
      BY <1>1 DEF BufferRecent
<1> QED BY <1>10, <1>11, <1>12, <1>13 DEF Covered

\* A placeholder that is written, or left to a future.
LEMMA CoveredAhead ==
  ASSUME TypeOK, Staged, Covered, [Next]_vars, ~EnterContent,
         state = "Template", state' \notin {"Finished", "Panicked"},
         Here.state # "finished", cursor' = Here.next,
         Range(Held) \cup Range(TextHere) \subseteq Range(Held'),
         NEW word, word = Here.state, NEW end, end = Slot,
         Here.at \in MustFill => Has(word, end)' \/ Pending(word, end)',
         state' = "Template" =>
           /\ Here.state \notin {"initial", "footer"}
           /\ \A y \in Range(Held') : y \in Range(Held) \/ (y.at \in Nat /\ cursor <= y.at)
  PROVE  Covered'
<1>1. /\ template' = template /\ Static' = Static /\ MustFill' = MustFill
      /\ cursor \in Nat /\ Reached' = Here.next /\ Reached = cursor
      BY TimeGoesOn DEF page, TypeOK, Reached, MustFill
<1>2. SlotFound /\ Here.at \in Nat /\ Here.next \in Nat
  <2>1. SlotFound
        BY Found DEF EndFound
  <2>2. Here.at \in cursor .. Len(template) + 1 /\ Here.next \in 1 .. Len(template) + 1
        BY HereBehind
  <2> QED BY <1>1, <2>1, <2>2
<1>3. /\ Here.at \in Slots(template) /\ cursor <= Here.at /\ Here.at < Here.next
      /\ SlotWord(template, Here.at) = Here.state /\ SlotEnd(template, Here.at) = Slot
      /\ \A k \in Slots(template) : k < Here.next => k < cursor \/ k = Here.at
      /\ Slot < Here.next
      /\ \A x \in TextOf(template) : x < Here.next => x < Here.at
  <2>1. Slot \in Nat /\ Here.at < Slot /\ Slot < Here.next
        BY <1>2, HereBehind DEF SlotFound
  <2> QED BY <1>2, <2>1 DEF SlotFound
<1>4. SlotsBehind /\ TextKept /\ SlotsKept /\ BufferRecent
      BY DEF Covered
<1>5. \A k \in Slots(template) : k \in Nat /\ SlotEnd(template, k) \in Nat
      BY SlotsTyped
<1>6. ASSUME NEW x, LostAt(x) PROVE LostAt(x)'
      BY <1>1, <1>2, <1>3, <1>6, LostStays
<1>7. ASSUME NEW what, NEW at, Has(what, at), what = "main" => Static
      PROVE  Has(what, at)'
      BY <1>7, MarksStay DEF Has
<1>8. SlotsBehind'
  <2>1. ASSUME NEW k \in Slots(template), k < Here.next PROVE SlotEnd(template, k) < Here.next
    <3>1. CASE k < cursor
      <4>1. SlotEnd(template, k) < cursor
            BY <1>4, <3>1 DEF SlotsBehind
      <4> QED BY <1>1, <1>2, <1>3, <1>5, <4>1
    <3> QED BY <1>3, <2>1, <3>1
  <2> QED BY <1>1, <2>1 DEF SlotsBehind
<1>9. TextKept'
  <2> SUFFICES ASSUME NEW x \in TextOf(template), x < Here.next
               PROVE  Has("text", x)' \/ LostAt(x)'
      BY <1>1 DEF TextKept
  <2>1. x \in Nat /\ x < Here.at
        BY <1>3, TemplatesAreTexts DEF TextOf, TypeOK
  <2>2. CASE x < cursor
    <3>1. Has("text", x) \/ LostAt(x)
          BY <1>1, <1>4, <2>2 DEF TextKept
    <3> QED BY <1>6, <1>7, <3>1
  <2>3. CASE ~ (x < cursor)
    <3>1. x \in cursor .. Here.at - 1
          BY <1>1, <1>2, <2>1, <2>3
    <3>2. PICK m : m = Mark("text", x, 1, 0)
          OBVIOUS
    <3>3. m \in Range(TextHere) /\ m.what = "text" /\ m.at = x
          BY <3>1, <3>2, WrittenTyped DEF Mark
    <3> QED BY <3>3 DEF Has
  <2> QED BY <2>2, <2>3
<1>10. SlotsKept'
  <2> SUFFICES ASSUME NEW k \in MustFill, k < Here.next,
                      NEW what, what = SlotWord(template, k),
                      NEW at, at = SlotEnd(template, k)
               PROVE  Has(what, at)' \/ Pending(what, at)' \/ LostAt(k)'
      BY <1>1 DEF SlotsKept
  <2>1. k \in Slots(template)
        BY DEF MustFill
  <2>2. CASE k < cursor
    <3>1. Has(what, at) \/ LostAt(k)
          BY <1>4, <2>2 DEF SlotsKept, Pending
    <3>2. what = "main" => Static
          BY DEF MustFill
    <3> QED BY <1>6, <1>7, <3>1, <3>2
  <2>3. CASE k = Here.at
    <3>1. what = word /\ at = end
          BY <1>3, <2>3
    <3>2. Has(word, end)' \/ Pending(word, end)'
          BY <2>3
    <3> QED BY <3>1, <3>2
  <2> QED BY <1>3, <2>1, <2>2, <2>3
<1>11. BufferRecent'
  <2> SUFFICES ASSUME state' = "Template",
                      NEW y \in Range(Held'), NEW k \in Slots(template),
                      y.at <= SlotEnd(template, k), k < Here.next
               PROVE  SlotWord(template, k) \notin {"initial", "footer"}
      BY <1>1 DEF BufferRecent
  <2>1. CASE k = Here.at
        BY <1>3, <2>1
  <2>2. CASE k < cursor
    <3>1. SlotEnd(template, k) < cursor
          BY <1>4, <2>2 DEF SlotsBehind
    <3>2. y \in Range(Held)
          BY <1>1, <1>5, <3>1
    <3> QED BY <1>4, <2>2, <3>2 DEF BufferRecent
  <2> QED BY <1>3, <2>1, <2>2
<1> QED BY <1>8, <1>9, <1>10, <1>11 DEF Covered

\* The rest of the page: no placeholder is left in it.
LEMMA CoveredToEnd ==
  ASSUME TypeOK, Staged, Covered, [Next]_vars, SendsRest
  PROVE  Covered'
<1>1. /\ state = "Template" /\ state' = "Finished" /\ Here.state = "finished"
      /\ cursor' = Here.next /\ Range(Held') = {} /\ ~EnterContent
      BY RangeOfNone DEF SendsRest, EnterContent
<1>2. EndFound
      BY <1>1, Found DEF SlotFound
<1>3. cursor' = cursor /\ Here.at = Len(template) + 1 /\ \A k \in Slots(template) : k < cursor
      BY <1>1, <1>2 DEF EndFound
<1>4. /\ template' = template /\ Static' = Static /\ MustFill' = MustFill
      /\ cursor \in Nat /\ Reached' = Len(template) + 1 /\ Reached = cursor
      /\ Len(template) \in Nat
      BY <1>1, TimeGoesOn, TemplatesAreTexts DEF page, TypeOK, Reached, MustFill
<1>5. SlotsBehind /\ TextKept /\ SlotsKept /\ BufferRecent
      BY <1>1 DEF Covered
<1>6. ASSUME NEW x, LostAt(x) PROVE LostAt(x)'
      BY <1>3, <1>4, <1>6, LostStays
<1>7. ASSUME NEW what, NEW at, Has(what, at) PROVE Has(what, at)'
      BY <1>7, RestSent DEF Has
<1>8. SlotsBehind'
      BY <1>3, <1>4, <1>5 DEF SlotsBehind
<1>9. TextKept'
  <2> SUFFICES ASSUME NEW x \in TextOf(template)
               PROVE  Has("text", x)' \/ LostAt(x)'
      BY <1>4 DEF TextKept
  <2>1. x \in Nat /\ x < Here.at
        BY <1>3, <1>4 DEF TextOf
  <2>2. CASE x < cursor
    <3>1. Has("text", x) \/ LostAt(x)
          BY <1>4, <1>5, <2>2 DEF TextKept
    <3> QED BY <1>6, <1>7, <3>1
  <2>3. CASE ~ (x < cursor)
    <3>1. x \in cursor .. Here.at - 1
          BY <1>3, <1>4, <2>1, <2>3
    <3>2. PICK m : m = Mark("text", x, 1, 0)
          OBVIOUS
    <3>3. m \in Range(TextHere) /\ m.what = "text" /\ m.at = x
          BY <3>1, <3>2, WrittenTyped DEF Mark
    <3>4. m \in Range(output')
          BY <3>3, RestSent
    <3> QED BY <3>3, <3>4 DEF Has
  <2> QED BY <2>2, <2>3
<1>10. SlotsKept'
  <2> SUFFICES ASSUME NEW k \in MustFill, k < cursor,
                      NEW what, what = SlotWord(template, k),
                      NEW at, at = SlotEnd(template, k)
               PROVE  Has(what, at)' \/ Pending(what, at)' \/ LostAt(k)'
      BY <1>3, <1>4 DEF SlotsKept
  <2>1. Has(what, at) \/ LostAt(k)
        BY <1>1, <1>5 DEF SlotsKept, Pending
  <2> QED BY <1>6, <1>7, <2>1
<1>11. BufferRecent'
      BY <1>1 DEF BufferRecent
<1> QED BY <1>8, <1>9, <1>10, <1>11 DEF Covered

\* No step takes anything from the page but a MAIN.
LEMMA CoveredNext ==
  ASSUME TypeOK, Staged, Covered, [Next]_vars
  PROVE  Covered'
<1> SUFFICES ASSUME state' # "Panicked" PROVE Covered'
    BY DEF Covered
<1>1. CASE Quiet
  <2>1. CASE EnterContent
        BY <2>1, CoveredByMain
  <2>2. CASE ~EnterContent
    <3>1. /\ Held' = Held /\ cursor' = cursor /\ state # "Panicked"
          /\ state' = "Finished" <=> state = "Finished"
          /\ state = "GeneratingContent" => state' = state /\ job' = job
          BY <1>1, <2>2 DEF Quiet
    <3>2. \A what, at : Pending(what, at) => Pending(what, at)'
          BY <3>1 DEF Pending
    <3>3. state' = "Template" => Range(Held') = {} \/ state = "Template"
      <4>1. CASE state = "Template"
            BY <4>1
      <4>2. CASE state = "GeneratingContent"
            BY <3>1, <4>2
      <4>3. CASE state \notin {"Template", "GeneratingContent"}
            BY <3>1, <4>3, RangeOfNone DEF Staged, Held
      <4> QED BY <4>1, <4>2, <4>3
    <3> QED BY <2>2, <3>1, <3>2, <3>3, CoveredStays
  <2> QED BY <2>1, <2>2
<1>2. CASE WritesText
  <2>1. PICK word, end : word = Here.state /\ end = Slot
        OBVIOUS
  <2>2. /\ state = "Template" /\ state' \in {"Template", "GeneratingContent"}
        /\ Here.state # "main" /\ Here.state # "finished" /\ cursor' = Here.next
        /\ state' = "Template" => Here.state = "extra" /\ PromptSizes = {}
        /\ state' = "GeneratingContent" => Pending(word, end)'
    <3>1. /\ state = "Template" /\ Here.state \in Placeholders \ {"main"}
          /\ \/ Here.state \in {"initial", "footer"} /\ state' = "GeneratingContent"
                /\ job'.what = word /\ job'.at = end /\ ~job'.keep
             \/ Here.state = "extra" /\ PromptSizes = {} /\ state' = "Template"
          /\ cursor' = Here.next
          BY <1>2, <2>1 DEF WritesText
    <3> QED BY <3>1, StatesDiffer DEF Pending
  <2>3. ~EnterContent
        BY <2>2 DEF EnterContent, Reach
  <2>4. Range(Held') = Range(Held) \cup Range(TextHere)
        BY <1>2, TextWritten
  <2>5. \A y \in Range(TextHere) : y.at \in Nat /\ cursor <= y.at
    <3>1. cursor \in Nat /\ Here.at \in Nat
          BY HereBehind, TemplatesAreTexts DEF TypeOK
    <3> QED BY <3>1, TextMarks
  <2>6. Here.at \in MustFill => Pending(word, end)'
    <3>1. SlotWord(template, Here.at) = Here.state
          BY <2>2, Found DEF EndFound, SlotFound
    <3> QED BY <2>2, <3>1 DEF MustFill
  <2> QED BY <2>2, <2>1, <2>3, <2>4, <2>5, <2>6, CoveredAhead
<1>3. CASE SendsRest
      BY <1>3, CoveredToEnd
<1>4. ASSUME NEW what, NEW size, NEW tag, WritesMark(what, size, tag) PROVE Covered'
  <2>1. /\ state = "Template" /\ state' = "Template" /\ Here.state = what
        /\ what \in {"title", "main", "extra"}
        /\ cursor' = Here.next /\ Here.state # "finished"
        BY <1>4, StatesDiffer DEF WritesMark, Placeholders
  <2>2. ~EnterContent
        BY <2>1 DEF EnterContent, Reach
  <2>3. PICK n : n = Mark(what, Slot, size, tag)
        OBVIOUS
  <2>4. Range(Held') = Range(Held) \cup Range(TextHere) \cup {n}
        BY <1>4, <2>3, MarkWritten
  <2>5. n.what = what /\ n.at = Slot
        BY <2>3 DEF Mark
  <2>6. PICK end : end = Slot /\ Has(what, end)'
    <3>1. PICK end : end = n.at
          OBVIOUS
    <3> QED BY <2>4, <2>5, <3>1 DEF Has
  <2>7. \A y \in Range(TextHere) \cup {n} : y.at \in Nat /\ cursor <= y.at
    <3>1. /\ cursor \in Nat /\ Here.at \in Nat /\ cursor <= Here.at
          /\ Slot \in Nat /\ Here.at < Slot
      <4>1. cursor \in Nat
            BY TemplatesAreTexts DEF TypeOK
      <4>2. /\ Here.at \in cursor .. Len(template) + 1
            /\ Slot \in Nat /\ Here.at < Slot
            BY <2>1, HereBehind
      <4> QED BY <4>1, <4>2
    <3>2. \A y \in Range(TextHere) : y.at \in Nat /\ cursor <= y.at
          BY <3>1, TextMarks
    <3> QED BY <2>5, <3>1, <3>2
  <2> QED BY <2>1, <2>2, <2>4, <2>6, <2>7, CoveredAhead
<1>5. ASSUME NEW size, SendsJob(size) PROVE Covered'
  <2>1. PICK n : n = Mark(job.what, job.at, size, 0)
        OBVIOUS
  <2>2. /\ Range(output') = Range(output) \cup Range(Held) \cup {n}
        /\ n.what = job.what /\ n.at = job.at
        BY <1>5, <2>1, JobSent DEF Mark
  <2>3. /\ state = "GeneratingContent" /\ state' = "Template" /\ cursor' = cursor
        /\ Range(Held') = {} /\ ~EnterContent
        BY <1>5, RangeOfNone DEF SendsJob, EnterContent, Reach
  <2>4. \A what, at : Pending(what, at) => Has(what, at)'
        BY <2>2 DEF Pending, Has
  <2> QED BY <2>3, <2>4, CoveredStays
<1>6. ASSUME NEW made, Grows(made) PROVE Covered'
  <2>1. /\ state = "GeneratingContent" /\ state' = state /\ cursor' = cursor /\ job.keep
        /\ ~EnterContent
        BY <1>6 DEF Grows, EnterContent, Reach
  <2>2. \A what, at : ~Pending(what, at)
        BY <2>1 DEF Pending
  <2> QED BY <2>1, <2>2, CoveredStays
<1>7. ASSUME NEW size, SendsChunk(size) PROVE Covered'
  <2>1. /\ state = "GeneratingContent" /\ state' \in {"Content", "Delay"}
        /\ cursor' = cursor /\ job.keep /\ ~EnterContent
        BY <1>7 DEF SendsChunk, EnterContent, Reach
  <2>2. \A what, at : ~Pending(what, at)
        BY <2>1 DEF Pending
  <2> QED BY <2>1, <2>2, CoveredStays
<1> QED BY <1>1, <1>2, <1>3, <1>4, <1>5, <1>6, <1>7, Moves

\* A page starts with nothing, and nothing is before the cursor.
LEMMA CoveredInit == Init => Covered
<1> SUFFICES ASSUME Init PROVE Covered
    OBVIOUS
<1>1. state = "Template" /\ cursor = 1 /\ template \in Seq(STRING) /\ Range(Held) = {}
      BY TemplatesAreTexts, RangeOfNone DEF Init, Held
<1>2. /\ \A k \in Slots(template) : ~ (k < cursor)
      /\ \A x \in TextOf(template) : ~ (x < Reached)
      BY <1>1 DEF Slots, TextOf, Reached
<1>3. SlotsBehind
      BY <1>1, <1>2 DEF SlotsBehind
<1>4. TextKept /\ SlotsKept /\ BufferRecent
      BY <1>1, <1>2 DEF TextKept, SlotsKept, BufferRecent, MustFill
<1> QED BY <1>3, <1>4 DEF Covered

\* Whatever a page that is finished does not have, a MAIN has thrown away.
LEMMA MissingIsLost ==
  ASSUME TypeOK, Staged, Covered, Finished, NEW x \in Missing
  PROVE  LostAt(x)
<1>1. /\ state = "Finished" /\ Held = <<>> /\ Reached = Len(template) + 1
      /\ SlotsBehind /\ TextKept /\ SlotsKept
      BY DEF Finished, Staged, Held, Reached, Covered
<1>2. \A what, at : Has(what, at) => at \in Present(what)
      BY <1>1, RangeOfNone DEF Has, Present
<1>3. CASE x \in TextOf(template) \ Present("text")
  <2>1. x < Reached
        BY <1>1, <1>3, TemplatesAreTexts DEF TextOf, TypeOK
  <2> QED BY <1>1, <1>2, <1>3, <2>1 DEF TextKept
<1>4. CASE x \in MustFill /\ SlotEnd(template, x) \notin Present(SlotWord(template, x))
  <2>1. x < cursor
        BY <1>1, <1>4 DEF SlotsBehind, MustFill
  <2>2. \/ Has(SlotWord(template, x), SlotEnd(template, x)) \/ LostAt(x)
        BY <1>1, <1>4, <2>1 DEF SlotsKept, Pending
  <2> QED BY <1>2, <1>4, <2>2
<1> QED BY <1>3, <1>4 DEF Missing

\* A warning page is complete when it ends: only the MAIN of a generated page
\* throws anything away.  (poll_next, warning arm)
THEOREM WarningPagesAreComplete == Spec => []WarningPageComplete
<1>1. TypeOK /\ Staged /\ Covered => WarningPageComplete
      BY MissingIsLost DEF WarningPageComplete, LostAt
<1> QED BY <1>1, TypeInit, TypeNext, StagedInit, StagedNext, CoveredInit, CoveredNext, PTL
        DEF Spec

\* What a generated page loses, it loses to a MAIN with no INITIAL or FOOTER in
\* between.  (lib.rs, the Main arm)
THEOREM OnlyMainEverDiscards == Spec => []OnlyMainDiscards
<1>1. ASSUME TypeOK, Staged, Covered PROVE OnlyMainDiscards
      BY <1>1, MissingIsLost DEF OnlyMainDiscards, LostAt
<1> QED BY <1>1, TypeInit, TypeNext, StagedInit, StagedNext, CoveredInit, CoveredNext, PTL
        DEF Spec
=============================================================================
