----------------------------- MODULE PeerLedger -----------------------------
(***************************************************************************)
(* What the rate limiter promises, without table, locks, futures or        *)
(* workers: a ledger that counts the visits of each peer one at a time,    *)
(* answers every visit by its own number, and forgets a peer only when it  *)
(* has been idle for PeerTimeout.                                          *)
(***************************************************************************)
EXTENDS Naturals, LimitModes

CONSTANTS Requests, Peers, PeerTimeout, Config

VARIABLES
  now,
  count,   \* the visits of each peer since it was last forgotten
  seen,    \* when a peer with visits was last seen
  ticket,  \* the number a request was given, 0 before its visit
  at,      \* when it was
  answer   \* what became of it

vars == <<now, count, seen, ticket, at, answer>>

Answers == {"None", "Admitted", "Refused", "Error", "Abandoned"}

Init ==
  /\ now = 0
  /\ count = [p \in Peers |-> 0]
  /\ seen = [p \in Peers |-> 0]
  /\ ticket = [r \in Requests |-> 0]
  /\ at = [r \in Requests |-> 0]
  /\ answer = [r \in Requests |-> "None"]

Verdict(r) == Limit(ModeOf(Config), ticket[r])

Pass == now' = now + 1 /\ UNCHANGED <<count, seen, ticket, at, answer>>

\* r is the next visit of p: it takes the next number.
Visit(r, p) ==
  /\ answer[r] = "None" /\ ticket[r] = 0
  /\ count' = [count EXCEPT ![p] = @ + 1]
  /\ seen' = [seen EXCEPT ![p] = now]
  /\ ticket' = [ticket EXCEPT ![r] = count[p] + 1]
  /\ at' = [at EXCEPT ![r] = now]
  /\ UNCHANGED <<now, answer>>

\* A rated request gets the answer its number calls for, a delayed one not
\* before its delay is over.
MayAnswer(r, a) ==
  CASE a = "Admitted"  -> /\ ticket[r] > 0
                          /\ \/ Verdict(r) = "Ready"
                             \/ Verdict(r) = "Delay" /\ now >= at[r] + ModeOf(Config).delay
    [] a = "Refused"   -> ticket[r] > 0 /\ Verdict(r) \in {"Drop", "SpicyDrop"}
    [] a = "Abandoned" -> ticket[r] = 0 \/ Verdict(r) \in {"Ready", "Delay"}
    [] a = "Error"     -> ticket[r] = 0

Answer(r, a) ==
  /\ answer[r] = "None" /\ a # "None" /\ MayAnswer(r, a)
  /\ answer' = [answer EXCEPT ![r] = a]
  /\ UNCHANGED <<now, count, seen, ticket, at>>

\* Peers idle for PeerTimeout start over.
Forget(idle) ==
  /\ \A p \in idle : count[p] > 0 /\ now - seen[p] >= PeerTimeout
  /\ count' = [p \in Peers |-> IF p \in idle THEN 0 ELSE count[p]]
  /\ seen' = [p \in Peers |-> IF p \in idle THEN 0 ELSE seen[p]]
  /\ UNCHANGED <<now, ticket, at, answer>>

Next ==
  \/ Pass
  \/ \E r \in Requests, p \in Peers : Visit(r, p)
  \/ \E r \in Requests, a \in Answers : Answer(r, a)
  \/ \E idle \in SUBSET Peers : Forget(idle)

Spec == Init /\ [][Next]_vars
=============================================================================
