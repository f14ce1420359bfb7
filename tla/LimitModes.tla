----------------------------- MODULE LimitModes -----------------------------
(***************************************************************************)
(* The rate limiting policy of crates/nailrater/src/modes.rs: how a        *)
(* [rate_limiting] configuration becomes a limiting mode, and which state  *)
(* a peer is put in by its n-th visit.                                     *)
(*                                                                         *)
(* Delays are in ticks of the model clock (milliseconds in the code).      *)
(* Visit counts are u64 in the code and unbounded here: a peer would have  *)
(* to visit 2^64 times inside one record's life to wrap.                   *)
(***************************************************************************)
EXTENDS Naturals

DropBehaviors == {"normal", "spicy"}

\* RateLimitingConfig.
RateLimitingConfigs ==
        [type : {"no_limit"}]
  \cup  [type : {"soft_limit"}, soft_limit : Nat, soft_delay : Nat]
  \cup  [type : {"hard_limit"}, hard_limit : Nat, drop_behavior : DropBehaviors]
  \cup  [type : {"soft_with_hard_limit"}, soft_limit : Nat, hard_limit : Nat,
         soft_delay : Nat, drop_behavior : DropBehaviors]

\* LimitModes: every variant in one record shape, with the two guards that
\* tell the variants apart.  "soft" modes delay, "hard" modes drop.
Modes == [soft : BOOLEAN, hard : BOOLEAN, soft_limit : Nat,
          hard_limit : Nat, delay : Nat, spicy : BOOLEAN]

\* From<&RateLimitingConfig> for LimitModes.
ModeOf(config) ==
  LET soft == config.type \in {"soft_limit", "soft_with_hard_limit"}
      hard == config.type \in {"hard_limit", "soft_with_hard_limit"}
  IN  [soft       |-> soft,
       hard       |-> hard,
       soft_limit |-> IF soft THEN config.soft_limit ELSE 0,
       hard_limit |-> IF hard THEN config.hard_limit ELSE 0,
       delay      |-> IF soft THEN config.soft_delay ELSE 0,
       spicy      |-> hard /\ config.drop_behavior = "spicy"]

\* PeerState; the duration a "Delay" carries is the mode's delay.
PeerStates == {"Ready", "Delay", "Drop", "SpicyDrop"}

ReachesHardLimit(mode, visits) == mode.hard /\ visits >= mode.hard_limit

ReachesSoftLimit(mode, visits) ==
  /\ mode.soft
  /\ visits >= mode.soft_limit
  /\ ~ ReachesHardLimit(mode, visits)

\* LimitModes::limit: the state a peer is in once it has made `visits` visits.
Limit(mode, visits) ==
  IF ReachesHardLimit(mode, visits) THEN IF mode.spicy THEN "SpicyDrop" ELSE "Drop"
  ELSE IF ReachesSoftLimit(mode, visits) THEN "Delay" ELSE "Ready"
=============================================================================
