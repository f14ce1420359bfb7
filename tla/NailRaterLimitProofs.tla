------------------------ MODULE NailRaterLimitProofs ------------------------
(***************************************************************************)
(* What the rate limiter guarantees, proved from the core invariant: when  *)
(* a peer may be forgotten, how prunes are spaced and what they leave      *)
(* behind, how visits are counted, and how many get past a hard limit.     *)
(***************************************************************************)
EXTENDS NailRaterProofs, FiniteSetTheorems

\* The only steps that touch the table are a rating and a prune of one
\* bucket; no step changes what a request is, and time never runs back.
Rating == \E r \in Requests : ModifyPeer(r) \/ InsertPeer(r)
Pruning == \E r \in Requests, b \in Buckets : PruneBucket(r, b)

\* Only rating and pruning change the table.
LEMMA TableFrame ==
  ASSUME [Next]_vars
  PROVE  \/ Rating
         \/ Pruning
         \/ UNCHANGED <<peers, visits, ticket, ratedAt>>
<1>1. ASSUME NEW r \in Requests, Step(r)
      PROVE  Rating \/ Pruning \/ UNCHANGED <<peers, visits, ticket, ratedAt>>
      BY <1>1 DEF Step, Rating, Pruning, AcquireEntry, EntryPending, DropRequest, AdmitRequest,
         LockScheduler, Schedule, Forward, PrunePending, DelayElapsed, DelayPending, Respond,
         InnerPending, history
<1>2. ASSUME NEW r \in Requests, Call(r) \/ CallUnidentified(r) \/ Cancel(r)
      PROVE  UNCHANGED <<peers, visits, ticket, ratedAt>>
      BY <1>2 DEF Call, CallUnidentified, Cancel, history
<1> QED BY <1>1, <1>2 DEF Next, Tick, vars, history

\* Nobody changes what a request asks.
LEMMA RequestFrame == ASSUME [Next]_vars PROVE UNCHANGED request
<1>1. ASSUME NEW r \in Requests, Step(r) PROVE UNCHANGED request
      BY <1>1 DEF Step, AcquireEntry, EntryPending, ModifyPeer, InsertPeer, DropRequest,
         AdmitRequest, LockScheduler, Schedule, Forward, PruneBucket, PrunePending,
         DelayElapsed, DelayPending, Respond, InnerPending
<1>2. ASSUME NEW r \in Requests, Call(r) \/ CallUnidentified(r) \/ Cancel(r)
      PROVE  UNCHANGED request
      BY <1>2 DEF Call, CallUnidentified, Cancel
<1> QED BY <1>1, <1>2 DEF Next, Tick, vars

\* The clock does not go back.
LEMMA ClockFrame == ASSUME now \in Nat, [Next]_vars PROVE now' \in Nat /\ now <= now'
<1>1. ASSUME NEW r \in Requests, Step(r) PROVE now' = now
      BY <1>1 DEF Step, AcquireEntry, EntryPending, ModifyPeer, InsertPeer, DropRequest,
         AdmitRequest, LockScheduler, Schedule, Forward, PruneBucket, PrunePending,
         DelayElapsed, DelayPending, Respond, InnerPending
<1>2. ASSUME NEW r \in Requests, Call(r) \/ CallUnidentified(r) \/ Cancel(r)
      PROVE  now' = now
      BY <1>2 DEF Call, CallUnidentified, Cancel
<1>3. Tick \/ now' = now
      BY <1>1, <1>2 DEF Next, vars
<1> QED BY <1>3 DEF Tick

-----------------------------------------------------------------------------
(***************************************************************************)
(* Forgetting.                                                             *)
(***************************************************************************)

\* A record is as young as the youngest visit it counts.
SeenLast ==
  \A p \in Peers :
    /\ Known(p) => peers[p].last_seen <= now
    /\ \A r \in visits[p] : /\ Known(p) /\ peer[r] = p
                            /\ ratedAt[r] <= peers[p].last_seen

\* Initially no peer was seen.
LEMMA SeenInit == Init => SeenLast
BY DEF Init, SeenLast, Known

\* Every step keeps last_seen at or after the visits it stands for.
LEMMA SeenNext == Core /\ SeenLast /\ [Next]_vars => SeenLast'
<1> SUFFICES ASSUME Core, SeenLast, [Next]_vars PROVE SeenLast'
    OBVIOUS
<1> USE DEF SeenLast, Known
<1>1. TypeOK /\ TypeOK' /\ EntryMatchesTable
      BY TypeOKNext DEF Core
<1>2. peer' = peer /\ now <= now'
      BY <1>1, RequestFrame, ClockFrame DEF request, TypeOK
<1>3. CASE UNCHANGED <<peers, visits, ticket, ratedAt>>
      BY <1>1, <1>2, <1>3 DEF TypeOK, Records
<1>4. ASSUME NEW r \in Requests, ModifyPeer(r) \/ InsertPeer(r) PROVE SeenLast'
  <2>1. /\ peers'[peer[r]] \in Records
        /\ \A p \in Peers : p # peer[r] => peers'[p] = peers[p]
        BY <1>1, <1>4, RatingType
  <2>2. peers'[peer[r]].last_seen = now /\ now' = now
        BY <1>1, <1>4 DEF TypeOK, ModifyPeer, InsertPeer
  <2>3. /\ ratedAt' = [ratedAt EXCEPT ![r] = now]
        /\ visits' = [visits EXCEPT ![peer[r]] = @ \cup {r}]
        BY <1>4 DEF ModifyPeer, InsertPeer, Rated
  <2>4. \A p \in Peers : peers[p] # NoRecord => peers[p].last_seen \in Nat
        BY <1>1 DEF TypeOK, Records
  <2> QED BY <1>1, <1>2, <2>1, <2>2, <2>3, <2>4, NoRecordIsNone DEF TypeOK
<1>5. ASSUME NEW r \in Requests, NEW b \in Buckets, PruneBucket(r, b) PROVE SeenLast'
      BY <1>1, <1>2, <1>5 DEF TypeOK, PruneBucket
<1> QED BY <1>3, <1>4, <1>5, TableFrame DEF Rating, Pruning

\* A peer is forgotten only when none of the visits it counts is younger
\* than PeerTimeout.
LEMMA IdleStep ==
  ASSUME Core, SeenLast, [Next]_vars, NEW p \in Peers, Known(p), peers'[p] = NoRecord,
         NEW r \in visits[p]
  PROVE  now - ratedAt[r] >= PeerTimeout
<1>1. TypeOK /\ EntryMatchesTable
      BY DEF Core
<1>2. ~ Rating
      BY <1>1, RatingType, NoRecordIsNone DEF Rating, Known
<1>3. Pruning
      BY <1>2, TableFrame DEF Known
<1>4. now - peers[p].last_seen >= PeerTimeout
      BY <1>1, <1>3 DEF Pruning, PruneBucket, Stale, Known
<1>5. ratedAt[r] \in Nat /\ now \in Nat /\ peers[p].last_seen \in Nat /\ PeerTimeout \in Nat
      BY <1>1, TimeoutAssumption DEF TypeOK, Known, Records
<1>6. ratedAt[r] <= peers[p].last_seen
      BY DEF SeenLast
<1> QED BY <1>4, <1>5, <1>6

\* A client that keeps coming is never forgotten, for any number of workers,
\* requests and peers.
THEOREM OnlyIdleForgotten == Spec => ForgetsOnlyIdle
<1>1. Init => Core /\ SeenLast
      BY SeenInit, TypeOKInit, LocksInit, EntryInit DEF Core
<1>2. Core /\ SeenLast /\ [Next]_vars => (Core /\ SeenLast)'
      BY SeenNext, TypeOKNext, LocksNext, EntryNext DEF Core
<1>3. Core /\ SeenLast /\ [Next]_vars
        => [\A p \in Peers : (Known(p) /\ peers'[p] = NoRecord)
              => \A r \in visits[p] : now - ratedAt[r] >= PeerTimeout]_vars
      BY IdleStep
<1> QED BY <1>1, <1>2, <1>3, PTL DEF Spec, ForgetsOnlyIdle

-----------------------------------------------------------------------------
(***************************************************************************)
(* Pruning.                                                                *)
(***************************************************************************)

\* An open window was opened after every prune that was handed out.
WindowAfterPrunes ==
  /\ window # NoInstant => window <= now
  /\ \A r \in Requests : pruneAt[r] # NoInstant =>
       /\ pruneAt[r] <= now
       /\ window # NoInstant => pruneAt[r] <= window

\* Only Schedule moves the window and hands out prunes.
LEMMA WindowFrame ==
  ASSUME [Next]_vars
  PROVE  \/ \E r \in Requests : Schedule(r)
         \/ UNCHANGED <<window, pruneAt>>
<1> USE DEF history
<1>1. CASE Tick \/ UNCHANGED vars
      BY <1>1 DEF Tick, vars
<1>2. ASSUME NEW r \in Requests, Call(r) \/ CallUnidentified(r) \/ Cancel(r)
      PROVE  UNCHANGED <<window, pruneAt>>
      BY <1>2 DEF Call, CallUnidentified, Cancel
<1>3. ASSUME NEW r \in Requests, Step(r)
      PROVE  Schedule(r) \/ UNCHANGED <<window, pruneAt>>
  <2>1. CASE AcquireEntry(r) \/ EntryPending(r)
        BY <2>1 DEF AcquireEntry, EntryPending
  <2>2. CASE ModifyPeer(r) \/ InsertPeer(r)
        BY <2>2 DEF ModifyPeer, InsertPeer, Rated
  <2>3. CASE DropRequest(r) \/ AdmitRequest(r)
        BY <2>3 DEF DropRequest, AdmitRequest
  <2>4. CASE LockScheduler(r) \/ Forward(r)
        BY <2>4 DEF LockScheduler, Forward
  <2>5. CASE PrunePending(r) \/ \E b \in Buckets : PruneBucket(r, b)
        BY <2>5 DEF PrunePending, PruneBucket
  <2>6. CASE DelayElapsed(r) \/ DelayPending(r)
        BY <2>6 DEF DelayElapsed, DelayPending
  <2>7. CASE Respond(r) \/ InnerPending(r)
        BY <2>7 DEF Respond, InnerPending
  <2> QED BY <1>3, <2>1, <2>2, <2>3, <2>4, <2>5, <2>6, <2>7 DEF Step
<1> QED BY <1>1, <1>2, <1>3 DEF Next

\* Initially there is no window and no prune.
LEMMA WindowInit == Init => WindowAfterPrunes
BY DEF Init, WindowAfterPrunes

\* Every step keeps the window at or after the prunes handed out.
LEMMA WindowNext == TypeOK /\ WindowAfterPrunes /\ [Next]_vars => WindowAfterPrunes'
<1> SUFFICES ASSUME TypeOK, WindowAfterPrunes, [Next]_vars PROVE WindowAfterPrunes'
    OBVIOUS
<1> USE AbsentAssumption DEF WindowAfterPrunes
<1>1. now \in Nat /\ now' \in Nat /\ now <= now'
      BY ClockFrame DEF TypeOK
<1>2. /\ window \in Nat \cup {NoInstant}
      /\ pruneAt \in [Requests -> Nat \cup {NoInstant}]
      BY DEF TypeOK
<1>3. ASSUME NEW r \in Requests, Schedule(r) PROVE WindowAfterPrunes'
      BY <1>1, <1>2, <1>3, TimeoutAssumption DEF Schedule
<1>4. CASE UNCHANGED <<window, pruneAt>>
      BY <1>1, <1>2, <1>4
<1> QED BY <1>3, <1>4, WindowFrame

\* A step hands out a prune only PeerTimeout after the last one.
LEMMA SpacingStep ==
  ASSUME TypeOK, WindowAfterPrunes, [Next]_vars, NEW r \in Requests, NEW q \in Requests,
         pruneAt[r] = NoInstant, pruneAt'[r] # NoInstant, pruneAt[q] # NoInstant
  PROVE  pruneAt'[r] - pruneAt[q] >= PeerTimeout
<1>1. Schedule(r)
      BY WindowFrame DEF TypeOK, Schedule
<1>2. /\ now \in Nat /\ window \in Nat \cup {NoInstant} /\ pruneAt[q] \in Nat
      /\ pruneAt \in [Requests -> Nat \cup {NoInstant}]
      BY DEF TypeOK
<1>3. window # NoInstant /\ pruneAt'[r] = now /\ now - window >= PeerTimeout
      BY <1>1, <1>2, TimeoutAssumption DEF Schedule
<1> QED BY <1>2, <1>3, TimeoutAssumption DEF WindowAfterPrunes

\* Prunes are PeerTimeout apart, however many workers ask for one.
THEOREM PrunesSpaced == Spec => PruneSpacing
<1>1. Init => Core /\ WindowAfterPrunes
      BY WindowInit, TypeOKInit, LocksInit, EntryInit DEF Core
<1>2. Core /\ WindowAfterPrunes /\ [Next]_vars => (Core /\ WindowAfterPrunes)'
      BY WindowNext, TypeOKNext, LocksNext, EntryNext DEF Core
<1>3. Core /\ WindowAfterPrunes /\ [Next]_vars
        => [\A r, q \in Requests : (pruneAt[r] = NoInstant /\ pruneAt'[r] # NoInstant
                                    /\ pruneAt[q] # NoInstant)
              => pruneAt'[r] - pruneAt[q] >= PeerTimeout]_vars
      BY SpacingStep DEF Core
<1> QED BY <1>1, <1>2, <1>3, PTL DEF Spec, PruneSpacing

\* Initially nothing is swept.
LEMMA SweepInit == Init => SweepForgetsStale
BY DEF Init, SweepForgetsStale

\* Every step keeps a swept bucket free of peers stale at the prune.
LEMMA SweepNext ==
  Core /\ SeenLast /\ WindowAfterPrunes /\ SweepForgetsStale /\ [Next]_vars
    => SweepForgetsStale'
<1> SUFFICES ASSUME Core, SeenLast, WindowAfterPrunes, SweepForgetsStale, [Next]_vars
             PROVE  SweepForgetsStale'
    OBVIOUS
<1> USE DEF SweepForgetsStale, Known
<1>1. TypeOK /\ EntryMatchesTable
      BY DEF Core
<1>2. /\ now \in Nat /\ PeerTimeout \in Nat \ {0}
      /\ \A r \in Requests : pruneAt[r] # NoInstant => pruneAt[r] \in Nat /\ pruneAt[r] <= now
      BY <1>1, TimeoutAssumption DEF TypeOK, WindowAfterPrunes
<1>3. ASSUME NEW r \in Requests, ModifyPeer(r) \/ InsertPeer(r) PROVE SweepForgetsStale'
  <2>1. /\ peers'[peer[r]].last_seen = now
        /\ \A p \in Peers : p # peer[r] => peers'[p] = peers[p]
        BY <1>1, <1>3 DEF TypeOK, ModifyPeer, InsertPeer
  <2>2. UNCHANGED <<pruneAt, sweep>>
        BY <1>3 DEF ModifyPeer, InsertPeer, Rated
  <2> QED BY <1>2, <2>1, <2>2
<1>4. ASSUME NEW r \in Requests, NEW b \in Buckets, PruneBucket(r, b)
      PROVE  SweepForgetsStale'
  <2>1. /\ \A p \in Peers : peers'[p] # NoRecord =>
             /\ peers'[p] = peers[p]
             /\ BucketOf[p] = b => ~ (now - peers[p].last_seen >= PeerTimeout)
        /\ sweep' = [sweep EXCEPT ![r] = @ \ {b}] /\ pruneAt' = pruneAt
        BY <1>1, <1>4 DEF TypeOK, PruneBucket, Stale
  <2>2. \A p \in Peers : peers[p] # NoRecord => peers[p].last_seen \in Nat
        BY <1>1 DEF TypeOK, Records
  <2>3. sweep \in [Requests -> SUBSET Buckets]
        BY <1>1 DEF TypeOK
  <2> QED BY <1>2, <2>1, <2>2, <2>3
<1>5. ASSUME NEW r \in Requests, Schedule(r) PROVE SweepForgetsStale'
  <2>1. /\ UNCHANGED peers
        /\ \A q \in Requests : q # r => sweep'[q] = sweep[q] /\ pruneAt'[q] = pruneAt[q]
        /\ pruneAt'[r] = NoInstant \/ sweep'[r] = Buckets
        BY <1>1, <1>5 DEF TypeOK, Schedule
  <2> QED BY <2>1, TableAssumption
<1>6. CASE UNCHANGED <<peers, pruneAt, sweep>>
      BY <1>6
<1> QED BY <1>3, <1>4, <1>5, <1>6
        DEF Next, Step, vars, Tick, Call, CallUnidentified, AcquireEntry, EntryPending,
            DropRequest, AdmitRequest, LockScheduler, Forward, PrunePending,
            DelayElapsed, DelayPending, Respond, InnerPending, Cancel, history

\* Wherever a prune has been, no peer is left that was already stale when it
\* started.
THEOREM SweepsComplete == Spec => []SweepForgetsStale
<1> DEFINE Inv == Core /\ SeenLast /\ WindowAfterPrunes /\ SweepForgetsStale
<1>1. Init => Inv
      BY SweepInit, SeenInit, WindowInit, TypeOKInit, LocksInit, EntryInit DEF Core
<1>2. Inv /\ [Next]_vars => Inv'
      BY SweepNext, SeenNext, WindowNext, TypeOKNext, LocksNext, EntryNext DEF Core
<1> QED BY <1>1, <1>2, PTL DEF Spec
=============================================================================
