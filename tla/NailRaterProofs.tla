--------------------------- MODULE NailRaterProofs ---------------------------
(***************************************************************************)
(* Proofs about NailRater, for any workers, requests, peers, buckets,      *)
(* limits and timeout.                                                     *)
(***************************************************************************)
EXTENDS NailRater, TLAPS

\* Every mode the configuration can ask for is well formed.
LEMMA ModeType == Mode \in Modes
BY ConfigAssumption DEF Mode, ModeOf, Modes, RateLimitingConfigs, DropBehaviors

\* A visit always puts the peer in one of the four states.
LEMMA LimitType == ASSUME NEW n \in Nat PROVE Limit(Mode, n) \in PeerStates
BY ModeType DEF Limit, PeerStates, Modes, ReachesHardLimit, ReachesSoftLimit

Severity(state) == IF state = "Ready" THEN 0 ELSE IF state = "Delay" THEN 1 ELSE 2

\* More visits never earn a peer a milder state: once refused it stays
\* refused, once delayed it is never again served at once.
THEOREM LimitMonotone ==
  ASSUME NEW m \in Nat, NEW n \in Nat, m <= n
  PROVE  Severity(Limit(Mode, m)) <= Severity(Limit(Mode, n))
BY ModeType DEF Limit, Severity, Modes, ReachesHardLimit, ReachesSoftLimit

-----------------------------------------------------------------------------
(***************************************************************************)
(* Type correctness.                                                       *)
(***************************************************************************)
LEMMA ReplyTypes ==
  /\ \A code \in {"None", "Inner", "Dropped", "Error"} : Reply(code) \in Replies
  /\ \A record \in Records : SpicyReply(record) \in Replies
BY PayloadAssumption DEF Reply, Replies, Records, SpicyReply, Kinds

\* A header asks for a known kind or for none.
LEMMA AcceptedTypes ==
  \A S \in SUBSET {"gzip", "br"} : AcceptsEncoding(S) \in Kinds \cup {NoKind}
BY DEF AcceptsEncoding, Kinds

\* Initially the types are right.
LEMMA TypeOKInit == Init => TypeOK
<1> SUFFICES ASSUME Init PROVE TypeOK
    OBVIOUS
<1>1. NoReply \in Replies
      BY ReplyTypes DEF NoReply
<1>2. codings \in [Requests -> SUBSET {"gzip", "br"}]
      BY RequestAssumption DEF Init
<1> QED BY <1>1, <1>2 DEF Init, TypeOK, Places

\* Rating a request leaves a record under its key, touches no other record,
\* and gives the request the record's count.
LEMMA RatingType ==
  ASSUME TypeOK, EntryMatchesTable, NEW r \in Requests, ModifyPeer(r) \/ InsertPeer(r)
  PROVE  /\ peers'[peer[r]] \in Records
         /\ peers' \in [Peers -> Records \cup {NoRecord}]
         /\ \A p \in Peers : p # peer[r] => peers'[p] = peers[p]
         /\ ticket' \in [Requests -> Nat]
<1> USE DEF TypeOK
<1>1. CASE ModifyPeer(r)
  <2> DEFINE count == peers[peer[r]].count + 1
             record == [count |-> count, state |-> Limit(Mode, count), last_seen |-> now,
                        supports_spicy |-> peers[peer[r]].supports_spicy]
  <2>1. peers[peer[r]] \in Records /\ count \in Nat
        BY <1>1 DEF ModifyPeer, EntryMatchesTable, InCriticalSection, Known, Records
  <2>2. Limit(Mode, count) \in PeerStates
        BY <2>1, LimitType
  <2>3. record \in Records
        BY <2>1, <2>2 DEF Records
  <2>4. peers' = [peers EXCEPT ![peer[r]] = record]
        BY <1>1 DEF ModifyPeer
  <2> QED BY <1>1, <2>1, <2>3, <2>4 DEF ModifyPeer, Rated
<1>2. CASE InsertPeer(r)
  <2> DEFINE record == [count |-> 1, state |-> Limit(Mode, 1), last_seen |-> now,
                        supports_spicy |-> AcceptsEncoding(codings[r])]
  <2>1. Limit(Mode, 1) \in PeerStates
        BY LimitType
  <2>2. AcceptsEncoding(codings[r]) \in Kinds \cup {NoKind}
        BY AcceptedTypes, RequestAssumption
  <2>3. record \in Records
        BY <2>1, <2>2 DEF Records
  <2>4. peers' = [peers EXCEPT ![peer[r]] = record]
        BY <1>2 DEF InsertPeer
  <2> QED BY <1>2, <2>3, <2>4 DEF InsertPeer, Rated
<1> QED BY <1>1, <1>2

\* Every step keeps the types.
LEMMA TypeOKNext == TypeOK /\ EntryMatchesTable /\ [Next]_vars => TypeOK'
<1> SUFFICES ASSUME TypeOK, EntryMatchesTable, [Next]_vars PROVE TypeOK'
    OBVIOUS
<1> USE DEF TypeOK, request, history
<1>1. CASE Tick
      BY <1>1 DEF Tick
<1>2. ASSUME NEW r \in Requests, CallUnidentified(r) PROVE TypeOK'
  <2>1. Reply("Error") \in Replies
        BY ReplyTypes
  <2> QED BY <1>2, <2>1 DEF CallUnidentified, Goto, Places
<1>3. ASSUME NEW r \in Requests, Call(r) PROVE TypeOK'
      BY <1>3 DEF Call, Poll, Goto, Places
<1>4. ASSUME NEW r \in Requests, AcquireEntry(r) PROVE TypeOK'
  <2>1. Bucket(r) \in Buckets
        BY TableAssumption DEF Bucket
  <2> QED BY <1>4, <2>1 DEF AcquireEntry, Poll, Goto, Places, InCriticalSection
<1>5. ASSUME NEW r \in Requests, EntryPending(r) PROVE TypeOK'
      BY <1>5 DEF EntryPending, Return
<1>6. ASSUME NEW r \in Requests, ModifyPeer(r) PROVE TypeOK'
  <2>1. peers' \in [Peers -> Records \cup {NoRecord}] /\ ticket' \in [Requests -> Nat]
        BY <1>6, RatingType
  <2>2. /\ ratedAt' \in [Requests -> Nat] /\ visits' \in [Peers -> SUBSET Requests]
        /\ pc' \in [Requests -> Places]
        BY <1>6 DEF ModifyPeer, Rated, Goto, Places, InCriticalSection
  <2> QED BY <1>6, <2>1, <2>2 DEF ModifyPeer, Rated
<1>7. ASSUME NEW r \in Requests, InsertPeer(r) PROVE TypeOK'
  <2>1. peers' \in [Peers -> Records \cup {NoRecord}] /\ ticket' \in [Requests -> Nat]
        BY <1>7, RatingType
  <2>2. /\ ratedAt' \in [Requests -> Nat] /\ visits' \in [Peers -> SUBSET Requests]
        /\ pc' \in [Requests -> Places]
        BY <1>7 DEF InsertPeer, Rated, Goto, Places, InCriticalSection
  <2> QED BY <1>7, <2>1, <2>2 DEF InsertPeer, Rated
<1>8. ASSUME NEW r \in Requests, DropRequest(r) PROVE TypeOK'
  <2>0. peers[peer[r]] \in Records
        BY <1>8 DEF DropRequest, EntryMatchesTable, InCriticalSection, Known
  <2>1. SpicyReply(peers[peer[r]]) \in Replies
        BY <2>0, ReplyTypes
  <2>2. Bucket(r) \in Buckets
        BY TableAssumption DEF Bucket
  <2> QED BY <1>8, <2>1, <2>2 DEF DropRequest, ReleaseBucket, Return, Goto, Places
<1>9. ASSUME NEW r \in Requests, AdmitRequest(r) PROVE TypeOK'
  <2>1. Mode.delay \in Nat
        BY ModeType DEF Modes
  <2> QED BY <1>9, <2>1 DEF AdmitRequest, Goto, Places, InCriticalSection
<1>10. ASSUME NEW r \in Requests, LockScheduler(r) PROVE TypeOK'
      BY <1>10 DEF LockScheduler, Goto, Places, InCriticalSection
<1>11. ASSUME NEW r \in Requests, Schedule(r) PROVE TypeOK'
      BY <1>11 DEF Schedule, Goto, Places, InCriticalSection
<1>12. ASSUME NEW r \in Requests, Forward(r) PROVE TypeOK'
  <2>1. Bucket(r) \in Buckets
        BY TableAssumption DEF Bucket
  <2> QED BY <1>12, <2>1 DEF Forward, ReleaseBucket, AfterPrune, Goto, Places
<1>13. ASSUME NEW r \in Requests, NEW b \in Buckets, PruneBucket(r, b) PROVE TypeOK'
      BY <1>13 DEF PruneBucket, Poll, AfterPrune, Goto, Places
<1>14. ASSUME NEW r \in Requests, PrunePending(r) PROVE TypeOK'
      BY <1>14 DEF PrunePending, Return
<1>15. ASSUME NEW r \in Requests, DelayElapsed(r) PROVE TypeOK'
      BY <1>15 DEF DelayElapsed, Poll, Goto, Places
<1>16. ASSUME NEW r \in Requests, DelayPending(r) PROVE TypeOK'
      BY <1>16 DEF DelayPending, Return
<1>17. ASSUME NEW r \in Requests, Respond(r) PROVE TypeOK'
  <2>1. Reply("Inner") \in Replies
        BY ReplyTypes
  <2> QED BY <1>17, <2>1 DEF Respond, Return, Goto, Places
<1>18. ASSUME NEW r \in Requests, InnerPending(r) PROVE TypeOK'
      BY <1>18 DEF InnerPending, Return
<1>19. ASSUME NEW r \in Requests, Cancel(r) PROVE TypeOK'
      BY <1>19 DEF Cancel, Goto, Places
<1>20. CASE UNCHANGED vars
      BY <1>20 DEF vars
<1> QED BY <1>1, <1>2, <1>3, <1>4, <1>5, <1>6, <1>7, <1>8, <1>9, <1>10, <1>11,
           <1>12, <1>13, <1>14, <1>15, <1>16, <1>17, <1>18, <1>19, <1>20
        DEF Next, Step

-----------------------------------------------------------------------------
(***************************************************************************)
(* Locks.  A request that leaves the critical section releases its bucket, *)
(* and one that enters found it free: so a bucket has at most one request  *)
(* inside.                                                                 *)
(***************************************************************************)
LEMMA LocksInit == Init => LocksReleasedOnAwait
BY AbsentAssumption DEF Init, LocksReleasedOnAwait, InCriticalSection

\* Every step keeps the lock discipline.
LEMMA LocksNext == TypeOK /\ LocksReleasedOnAwait /\ [Next]_vars => LocksReleasedOnAwait'
<1> SUFFICES ASSUME TypeOK, LocksReleasedOnAwait, [Next]_vars
             PROVE  LocksReleasedOnAwait'
    OBVIOUS
<1>0. \A r \in Requests : Bucket(r) \in Buckets
      BY TableAssumption DEF TypeOK, Bucket
<1> USE AbsentAssumption DEF TypeOK, LocksReleasedOnAwait, InCriticalSection, Polling, Bucket
<1>1. CASE Tick
      BY <1>1 DEF Tick, request
<1>2. ASSUME NEW r \in Requests, CallUnidentified(r) PROVE LocksReleasedOnAwait'
      BY <1>2 DEF CallUnidentified, Goto, request
<1>3. ASSUME NEW r \in Requests, Call(r) PROVE LocksReleasedOnAwait'
      BY <1>3 DEF Call, Poll, Idle, Goto, request
<1>4. ASSUME NEW r \in Requests, AcquireEntry(r) PROVE LocksReleasedOnAwait'
      BY <1>0, <1>4 DEF AcquireEntry, Poll, Idle, Goto, request
<1>5. ASSUME NEW r \in Requests, EntryPending(r) PROVE LocksReleasedOnAwait'
      BY <1>5 DEF EntryPending, Return, request
<1>6. ASSUME NEW r \in Requests, ModifyPeer(r) PROVE LocksReleasedOnAwait'
      BY <1>6 DEF ModifyPeer, Goto, request
<1>7. ASSUME NEW r \in Requests, InsertPeer(r) PROVE LocksReleasedOnAwait'
      BY <1>7 DEF InsertPeer, Goto, request
<1>8. ASSUME NEW r \in Requests, DropRequest(r) PROVE LocksReleasedOnAwait'
      BY <1>0, <1>8 DEF DropRequest, ReleaseBucket, Return, Goto, request
<1>9. ASSUME NEW r \in Requests, AdmitRequest(r) PROVE LocksReleasedOnAwait'
      BY <1>9 DEF AdmitRequest, Goto, request
<1>10. ASSUME NEW r \in Requests, LockScheduler(r) PROVE LocksReleasedOnAwait'
      BY <1>10 DEF LockScheduler, Goto, request
<1>11. ASSUME NEW r \in Requests, Schedule(r) PROVE LocksReleasedOnAwait'
      BY <1>11 DEF Schedule, Goto, request
<1>12. ASSUME NEW r \in Requests, Forward(r) PROVE LocksReleasedOnAwait'
      BY <1>0, <1>12 DEF Forward, ReleaseBucket, AfterPrune, Goto, request
<1>13. ASSUME NEW r \in Requests, NEW b \in Buckets, PruneBucket(r, b)
       PROVE  LocksReleasedOnAwait'
      BY <1>13 DEF PruneBucket, Poll, Idle, AfterPrune, Goto, request
<1>14. ASSUME NEW r \in Requests, PrunePending(r) PROVE LocksReleasedOnAwait'
      BY <1>14 DEF PrunePending, Return, request
<1>15. ASSUME NEW r \in Requests, DelayElapsed(r) PROVE LocksReleasedOnAwait'
      BY <1>15 DEF DelayElapsed, Poll, Idle, Goto, request
<1>16. ASSUME NEW r \in Requests, DelayPending(r) PROVE LocksReleasedOnAwait'
      BY <1>16 DEF DelayPending, Return, request
<1>17. ASSUME NEW r \in Requests, Respond(r) PROVE LocksReleasedOnAwait'
      BY <1>17 DEF Respond, Idle, Return, Goto, request
<1>18. ASSUME NEW r \in Requests, InnerPending(r) PROVE LocksReleasedOnAwait'
      BY <1>18 DEF InnerPending, Return, request
<1>19. ASSUME NEW r \in Requests, Cancel(r) PROVE LocksReleasedOnAwait'
      BY <1>19 DEF Cancel, Idle, Goto, request
<1>20. CASE UNCHANGED vars
      BY <1>20 DEF vars, request
<1> QED BY <1>1, <1>2, <1>3, <1>4, <1>5, <1>6, <1>7, <1>8, <1>9, <1>10, <1>11,
           <1>12, <1>13, <1>14, <1>15, <1>16, <1>17, <1>18, <1>19, <1>20
        DEF Next, Step

-----------------------------------------------------------------------------
(***************************************************************************)
(* Entries.  Two requests inside the critical section of one bucket are    *)
(* the same request, and a prune does not enter a locked bucket: so what a *)
(* request saw in the table is still there.                                *)
(***************************************************************************)
LEMMA OneInside ==
  ASSUME LocksReleasedOnAwait, NEW r \in Requests, NEW q \in Requests,
         pc[r] \in InCriticalSection, pc[q] \in InCriticalSection, Bucket(r) = Bucket(q)
  PROVE  r = q
BY DEF LocksReleasedOnAwait

\* The absent record is no record.
LEMMA NoRecordIsNone == NoRecord \notin Records
BY AbsentAssumption DEF Records

\* Initially no entry is held.
LEMMA EntryInit == Init => EntryMatchesTable
BY DEF Init, EntryMatchesTable, InCriticalSection

\* Every step keeps the entries held in agreement with the table.
LEMMA EntryNext ==
  TypeOK /\ LocksReleasedOnAwait /\ EntryMatchesTable /\ [Next]_vars => EntryMatchesTable'
<1> SUFFICES ASSUME TypeOK, LocksReleasedOnAwait, EntryMatchesTable, [Next]_vars
             PROVE  EntryMatchesTable'
    OBVIOUS
<1> USE DEF EntryMatchesTable, Known, request
<1>1. CASE UNCHANGED <<peers, peer, pc>>
      BY <1>1 DEF InCriticalSection
<1>2. ASSUME NEW r \in Requests, UNCHANGED <<peers, peer>>,
             \E place \in Places \ InCriticalSection : Goto(r, place)
      PROVE  EntryMatchesTable'
      BY <1>2 DEF TypeOK, Goto, InCriticalSection
<1>3. ASSUME NEW r \in Requests, UNCHANGED <<peers, peer>>,
             pc[r] \in InCriticalSection \ {"vacant"},
             \E place \in InCriticalSection \ {"vacant"} : Goto(r, place)
      PROVE  EntryMatchesTable'
      BY <1>3 DEF TypeOK, Goto, InCriticalSection
<1>4. ASSUME NEW r \in Requests, AcquireEntry(r) PROVE EntryMatchesTable'
      BY <1>4 DEF TypeOK, AcquireEntry, Goto, InCriticalSection
<1>5. ASSUME NEW r \in Requests, ModifyPeer(r) \/ InsertPeer(r) PROVE EntryMatchesTable'
  <2>1. \A q \in Requests : pc[q] \in InCriticalSection /\ peer[q] = peer[r] => q = r
        BY <1>5, OneInside DEF ModifyPeer, InsertPeer, InCriticalSection, Bucket
  <2>2. peers'[peer[r]] # NoRecord
        BY <1>5, RatingType, NoRecordIsNone
  <2>3. \A p \in Peers : p # peer[r] => peers'[p] = peers[p]
        BY <1>5, RatingType
  <2>4. pc' = [pc EXCEPT ![r] = "decide"] /\ peer' = peer
        BY <1>5 DEF ModifyPeer, InsertPeer, Goto
  <2> QED BY <2>1, <2>2, <2>3, <2>4 DEF TypeOK, InCriticalSection
<1>6. ASSUME NEW r \in Requests, NEW b \in Buckets, PruneBucket(r, b)
      PROVE  EntryMatchesTable'
  <2>1. \A q \in Requests : pc[q] \in InCriticalSection => BucketOf[peer[q]] # b
        BY <1>6, AbsentAssumption DEF PruneBucket, LocksReleasedOnAwait, Bucket
  <2>2. \A p \in Peers : BucketOf[p] # b => peers'[p] = peers[p]
        BY <1>6 DEF PruneBucket
  <2>3. peer' = peer /\ \E place \in {"prune", "delay", "pass"} : pc' = [pc EXCEPT ![r] = place]
        BY <1>6 DEF PruneBucket, Goto, AfterPrune
  <2> QED BY <2>1, <2>2, <2>3 DEF TypeOK, InCriticalSection
<1> QED
  <2> USE DEF Places, InCriticalSection
  <2>1. CASE Tick
        BY <2>1, <1>1 DEF Tick
  <2>2. CASE \E r \in Requests : Call(r) \/ CallUnidentified(r) \/ Cancel(r)
        BY <2>2, <1>2 DEF Call, CallUnidentified, Cancel
  <2>3. ASSUME NEW r \in Requests, Step(r) PROVE EntryMatchesTable'
    <3>1. CASE AcquireEntry(r) \/ ModifyPeer(r) \/ InsertPeer(r)
          BY <3>1, <1>4, <1>5
    <3>2. CASE EntryPending(r) \/ PrunePending(r) \/ DelayPending(r) \/ InnerPending(r)
          BY <3>2, <1>1 DEF EntryPending, PrunePending, DelayPending, InnerPending
    <3>3. CASE DropRequest(r) \/ Forward(r) \/ DelayElapsed(r) \/ Respond(r)
          BY <3>3, <1>2 DEF DropRequest, Forward, DelayElapsed, Respond, AfterPrune
    <3>4. CASE AdmitRequest(r) \/ LockScheduler(r) \/ Schedule(r)
          BY <3>4, <1>3 DEF AdmitRequest, LockScheduler, Schedule
    <3> QED BY <2>3, <3>1, <3>2, <3>3, <3>4, <1>6 DEF Step
  <2>4. CASE UNCHANGED vars
        BY <2>4, <1>1 DEF vars
  <2> QED BY <2>1, <2>2, <2>3, <2>4 DEF Next

-----------------------------------------------------------------------------
(***************************************************************************)
(* The core invariant: types, locks and entries, each needing the others.  *)
(***************************************************************************)
Core == TypeOK /\ LocksReleasedOnAwait /\ EntryMatchesTable

\* Every reachable state is well typed, no lock is held across an await, and
\* the entry a request holds is the one in the table.
THEOREM CoreInvariant == Spec => []Core
<1>1. Init => Core
      BY TypeOKInit, LocksInit, EntryInit DEF Core
<1>2. Core /\ [Next]_vars => Core'
      BY TypeOKNext, LocksNext, EntryNext DEF Core
<1> QED BY <1>1, <1>2, PTL DEF Spec

\* Every reachable state is well typed.
THEOREM TypesHold == Spec => []TypeOK
BY CoreInvariant, PTL DEF Core

\* No bucket and no mutex is held by a request that is waiting for something
\* else, and a bucket admits one request at a time.
THEOREM LocksHeldBriefly == Spec => []LocksReleasedOnAwait
BY CoreInvariant, PTL DEF Core

\* The entry a request has locked is the record in the table, prunes or not.
THEOREM EntriesValid == Spec => []EntryMatchesTable
BY CoreInvariant, PTL DEF Core
=============================================================================
