------------------------------- MODULE NailKov -------------------------------
(***************************************************************************)
(* The Markov chain of crates/nailkov: what is counted while a text is fed *)
(* to it, which pairs the finished chain keeps, and which token may follow *)
(* a pair.  A chain is a function from pairs of tokens to counts, and the  *)
(* counts of a pair a function from the tokens that followed it.           *)
(***************************************************************************)
EXTENDS Naturals, Sequences, FiniteSets, Functions

CONSTANT CountSpan  \* 2^32 in the code: the values of a count

ASSUME CountsAssumption == CountSpan \in Nat \ {0, 1}

\* TokenWeightsBuilder::add: a count wraps in a release build.
AddOccurrence(counts, token) ==
  [t \in DOMAIN counts \cup {token} |->
     IF t # token THEN counts[t]
     ELSE IF t \in DOMAIN counts THEN (counts[t] + 1) % CountSpan ELSE 1]

CountsOf(chain, pair) == IF pair \in DOMAIN chain THEN chain[pair] ELSE << >>

\* Slip: the pair is entered when it is first seen, but its successor is not.
AddTokenPairLate(chain, pair, next) ==
  [p \in DOMAIN chain \cup {pair} |->
     IF p # pair THEN chain[p]
     ELSE IF p \in DOMAIN chain THEN AddOccurrence(chain[p], next) ELSE << >>]

AddTokenPair(chain, pair, next) ==
  [p \in DOMAIN chain \cup {pair} |->
     IF p = pair THEN AddOccurrence(CountsOf(chain, pair), next) ELSE chain[p]]

\* What WeightedAliasIndex::new accepts: no weight above its share of the
\* largest u32, and not all of them zero.
Accepted(counts) ==
  /\ \A token \in DOMAIN counts :
       counts[token] <= (CountSpan - 1) \div Cardinality(DOMAIN counts)
  /\ \E token \in DOMAIN counts : counts[token] # 0

\* build: pairs whose weights are refused are left out.
Build(chain) == Restrict(chain, {pair \in DOMAIN chain : Accepted(chain[pair])})

\* What sampling the weights of a pair may yield.
Successors(chain, pair) ==
  IF pair \in DOMAIN chain THEN {token \in DOMAIN chain[pair] : chain[pair][token] > 0}
  ELSE {}
=============================================================================
