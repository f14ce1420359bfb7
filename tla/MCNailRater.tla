---------------------------- MODULE MCNailRater ----------------------------
(***************************************************************************)
(* Small instances of NailRater: peers p1 and p2, in one bucket or in one  *)
(* each.                                                                   *)
(***************************************************************************)
EXTENDS NailRater, TLC

CONSTANTS p1, p2, b1, b2

OneBucket  == [p \in Peers |-> b1]
TwoBuckets == [p \in Peers |-> IF p = p1 THEN b1 ELSE b2]

\* Limits small enough that three visits of one peer meet all of them.
SoftHardSpicy ==
  [type |-> "soft_with_hard_limit", soft_limit |-> 2, hard_limit |-> 3,
   soft_delay |-> 1, drop_behavior |-> "spicy"]
SoftHardNormal ==
  [type |-> "soft_with_hard_limit", soft_limit |-> 2, hard_limit |-> 3,
   soft_delay |-> 1, drop_behavior |-> "normal"]
SoftOnly == [type |-> "soft_limit", soft_limit |-> 2, soft_delay |-> 1]

NoHeader == {{}}
SomeHeaders == {{}, {"gzip"}, {"gzip", "br"}}

Symmetry == Permutations(Requests) \cup Permutations(Workers)
=============================================================================
