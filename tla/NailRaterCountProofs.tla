------------------------ MODULE NailRaterCountProofs ------------------------
(***************************************************************************)
(* Counting and answering, proved for any number of workers and requests:  *)
(* no visit is lost, every answer is the one the visit's number calls for, *)
(* a hard limit is never exceeded, and the limiter implements the ledger   *)
(* of PeerLedger.                                                          *)
(***************************************************************************)
EXTENDS NailRaterLimitProofs

(***************************************************************************)
(* Tickets.  A request is rated once, and the requests counted for a peer  *)
(* hold the different numbers 1 .. count.                                  *)
(***************************************************************************)
Unrated == {"new", "entry", "vacant", "occupied"}

TicketOnce == \A r \in Requests : pc[r] \in Unrated => ticket[r] = 0

TicketsCount ==
  \A p \in Peers :
    /\ IsFiniteSet(visits[p])
    /\ IF Known(p) THEN peers[p].count = Cardinality(visits[p]) ELSE visits[p] = {}
    /\ \A r \in visits[p] : ticket[r] \in 1 .. peers[p].count
    /\ \A r, q \in visits[p] : ticket[r] = ticket[q] => r = q

\* Places change only in a step of the request they belong to.
LEMMA PlaceFrame ==
  ASSUME [Next]_vars
  PROVE  \/ UNCHANGED pc
         \/ \E r \in Requests, place \in Places \ Unrated : Goto(r, place)
         \/ \E r \in Requests : pc[r] = "new" /\ Goto(r, "entry")
         \/ \E r \in Requests :
              pc[r] = "entry" /\ (Goto(r, "vacant") \/ Goto(r, "occupied"))
<1> USE DEF Places, InCriticalSection, Unrated
<1>1. CASE UNCHANGED vars \/ Tick
      BY <1>1 DEF vars, Tick
<1>2. ASSUME NEW r \in Requests, Call(r) \/ CallUnidentified(r) \/ Cancel(r)
      PROVE  \/ \E place \in Places \ Unrated : Goto(r, place)
             \/ pc[r] = "new" /\ Goto(r, "entry")
      BY <1>2 DEF Call, CallUnidentified, Cancel
<1>3. ASSUME NEW r \in Requests, AcquireEntry(r)
      PROVE  pc[r] = "entry" /\ (Goto(r, "vacant") \/ Goto(r, "occupied"))
      BY <1>3 DEF AcquireEntry, Goto
<1>4. ASSUME NEW r \in Requests, Step(r), ~ AcquireEntry(r)
      PROVE  UNCHANGED pc \/ \E place \in Places \ Unrated : Goto(r, place)
  <2>1. CASE EntryPending(r) \/ PrunePending(r) \/ DelayPending(r) \/ InnerPending(r)
        BY <2>1 DEF EntryPending, PrunePending, DelayPending, InnerPending
  <2>2. CASE ModifyPeer(r) \/ InsertPeer(r) \/ DropRequest(r) \/ AdmitRequest(r)
             \/ LockScheduler(r) \/ Schedule(r) \/ DelayElapsed(r) \/ Respond(r)
        BY <2>2 DEF ModifyPeer, InsertPeer, DropRequest, AdmitRequest, LockScheduler,
                    Schedule, DelayElapsed, Respond
  <2>3. ASSUME \/ Forward(r)
               \/ \E b \in Buckets : PruneBucket(r, b)
        PROVE  \E place \in {"prune", "delay", "pass"} : Goto(r, place)
        BY <2>3 DEF Forward, PruneBucket, AfterPrune
  <2> QED BY <1>4, <2>1, <2>2, <2>3 DEF Step
<1> QED BY <1>1, <1>2, <1>3, <1>4 DEF Next

\* Initially nobody has a ticket.
LEMMA OnceInit == Init => TicketOnce
BY DEF Init, TicketOnce

\* No step gives one ticket twice.
LEMMA OnceNext == TypeOK /\ TicketOnce /\ [Next]_vars => TicketOnce'
<1> SUFFICES ASSUME TypeOK, TicketOnce, [Next]_vars PROVE TicketOnce'
    OBVIOUS
<1> USE DEF TicketOnce, Unrated, TypeOK
<1>1. CASE Rating
  <2>1. PICK r \in Requests : ModifyPeer(r) \/ InsertPeer(r)
        BY <1>1 DEF Rating
  <2>2. Goto(r, "decide") /\ \E count : ticket' = [ticket EXCEPT ![r] = count]
        BY <2>1 DEF ModifyPeer, InsertPeer, Rated
  <2> QED BY <2>2 DEF Goto
<1>2. CASE UNCHANGED ticket
      BY <1>2, PlaceFrame DEF Goto
<1> QED BY <1>1, <1>2, TableFrame DEF Pruning, PruneBucket

\* Initially no visit is counted.
LEMMA CountInit == Init => TicketsCount
BY FS_EmptySet DEF Init, TicketsCount, Known

\* Every step keeps the tickets of a known peer the numbers up to its count.
LEMMA CountNext ==
  Core /\ SeenLast /\ TicketOnce /\ TicketsCount /\ [Next]_vars => TicketsCount'
<1> SUFFICES ASSUME Core, SeenLast, TicketOnce, TicketsCount, [Next]_vars
             PROVE  TicketsCount'
    OBVIOUS
<1>1. TypeOK /\ EntryMatchesTable
      BY DEF Core
<1>2. CASE UNCHANGED <<peers, visits, ticket, ratedAt>>
      BY <1>2 DEF TicketsCount, Known
<1>3. CASE Pruning
      BY <1>1, <1>3, FS_EmptySet DEF Pruning, PruneBucket, TicketsCount, Known, TypeOK
<1>4. ASSUME NEW r \in Requests, ModifyPeer(r) \/ InsertPeer(r) PROVE TicketsCount'
  <2> DEFINE p == peer[r]
             n == IF Known(p) THEN peers[p].count ELSE 0
  <2>1. p \in Peers /\ visits \in [Peers -> SUBSET Requests] /\ ticket \in [Requests -> Nat]
        BY <1>1 DEF TypeOK
  <2>2. \/ pc[r] = "occupied" /\ Known(p) /\ ModifyPeer(r)
        \/ pc[r] = "vacant" /\ ~ Known(p) /\ InsertPeer(r)
    <3>1. \/ ModifyPeer(r) /\ pc[r] = "occupied"
          \/ InsertPeer(r) /\ pc[r] = "vacant"
          BY <1>4 DEF ModifyPeer, InsertPeer
    <3>2. /\ pc[r] = "occupied" => Known(p)
          /\ pc[r] = "vacant" => ~ Known(p)
          BY <1>1 DEF EntryMatchesTable, InCriticalSection
    <3> QED BY <3>1, <3>2
  <2>3. /\ IsFiniteSet(visits[p]) /\ n = Cardinality(visits[p]) /\ n \in Nat
        /\ \A q \in visits[p] : ticket[q] \in 1 .. n
        /\ \A q, s \in visits[p] : ticket[q] = ticket[s] => q = s
        BY <2>1, FS_EmptySet, FS_CardinalityType DEF TicketsCount
  <2>4. ticket[r] = 0 /\ r \notin visits[p]
        BY <2>1, <2>2, <2>3 DEF TicketOnce, Unrated
  <2>5. \A q \in Peers : q # p => r \notin visits[q] /\ peers'[q] = peers[q]
        BY <1>1, <1>4, RatingType DEF SeenLast
  <2>6. /\ peers'[p] # NoRecord /\ peers'[p].count = n + 1
        /\ ticket' = [ticket EXCEPT ![r] = n + 1]
        /\ visits' = [visits EXCEPT ![p] = @ \cup {r}]
    <3>1. peers'[p] # NoRecord
          BY <1>1, <1>4, RatingType, NoRecordIsNone
    <3>2. peers \in [Peers -> Records \cup {NoRecord}]
          BY <1>1 DEF TypeOK
    <3>3. CASE Known(p) /\ ModifyPeer(r)
          BY <2>1, <3>1, <3>2, <3>3 DEF ModifyPeer, Rated
    <3>4. CASE ~ Known(p) /\ InsertPeer(r)
          BY <2>1, <3>1, <3>2, <3>4 DEF InsertPeer, Rated
    <3> QED BY <2>2, <3>3, <3>4
  <2>7. IsFiniteSet(visits'[p]) /\ Cardinality(visits'[p]) = n + 1
    <3>1. visits'[p] = visits[p] \cup {r}
          BY <2>1, <2>6
    <3>2. /\ IsFiniteSet(visits[p] \cup {r})
          /\ Cardinality(visits[p] \cup {r}) = Cardinality(visits[p]) + 1
      <4>1. IsFiniteSet(visits[peer[r]]) /\ r \notin visits[peer[r]]
            BY <2>3, <2>4
      <4> QED BY <4>1, FS_AddElement
    <3> QED BY <2>3, <3>1, <3>2
  <2>8. /\ \A q \in visits'[p] : ticket'[q] \in 1 .. n + 1
        /\ \A q, s \in visits'[p] : ticket'[q] = ticket'[s] => q = s
        BY <2>1, <2>3, <2>4, <2>6
  <2>9. ASSUME NEW q \in Peers, q # p
        PROVE  /\ visits'[q] = visits[q] /\ peers'[q] = peers[q]
               /\ \A s \in visits[q] : ticket'[s] = ticket[s]
        BY <2>1, <2>5, <2>6, <2>9
  <2>10. ASSUME NEW q \in Peers
         PROVE  /\ IsFiniteSet(visits'[q])
                /\ IF peers'[q] # NoRecord THEN peers'[q].count = Cardinality(visits'[q])
                                           ELSE visits'[q] = {}
                /\ \A s \in visits'[q] : ticket'[s] \in 1 .. peers'[q].count
                /\ \A s, t \in visits'[q] : ticket'[s] = ticket'[t] => s = t
    <3>1. CASE q = p
          BY <2>6, <2>7, <2>8, <3>1
    <3>2. CASE q # p
          BY <2>9, <3>2 DEF TicketsCount, Known
    <3> QED BY <3>1, <3>2
  <2> QED BY <2>10 DEF TicketsCount, Known
<1> QED BY <1>2, <1>3, <1>4, TableFrame DEF Rating

Counting == Core /\ SeenLast /\ TicketOnce /\ TicketsCount

\* The inductive invariant behind the count.
LEMMA CountingInvariant == Spec => []Counting
<1>1. Init => Counting
      BY TypeOKInit, LocksInit, EntryInit, SeenInit, OnceInit, CountInit
      DEF Core, Counting
<1>2. Counting /\ [Next]_vars => Counting'
      BY TypeOKNext, LocksNext, EntryNext, SeenNext, OnceNext, CountNext
      DEF Core, Counting
<1> QED BY <1>1, <1>2, PTL DEF Spec

\* No visit is lost and none is counted twice, whichever workers they are on.
THEOREM NoVisitLost == Spec => []CountsEveryVisit
<1>1. Counting => CountsEveryVisit
      BY DEF Counting, TicketsCount, CountsEveryVisit
<1> QED BY <1>1, CountingInvariant, PTL

-----------------------------------------------------------------------------
(***************************************************************************)
(* Answers.  The verdict a request reads from the record is the one its    *)
(* own visit put there, because the bucket stays locked in between.        *)
(***************************************************************************)
Past == {"schedule", "locked", "forward", "prune", "delay", "pass"}

Decided == \A r \in Requests : pc[r] = "decide" =>
  ticket[r] > 0 /\ peers[peer[r]].state = Limit(Mode, ticket[r])

LetThrough == \A r \in Requests :
  (pc[r] \in Past \/ (pc[r] = "gone" /\ ticket[r] > 0)) =>
     ticket[r] > 0 /\ Limit(Mode, ticket[r]) \in {"Ready", "Delay"}

Unanswered == \A r \in Requests : pc[r] # "done" => reply[r] = NoReply

\* A record's coding is what the peer's first visit asked for.
FirstRemembered == \A p \in Peers : Known(p) => peers[p].supports_spicy \in FirstKinds(p)

\* A record that stays keeps what it remembers of the first request.
LEMMA EntryStable ==
  ASSUME Core, [Next]_vars, NEW r \in Requests, pc[r] \in InCriticalSection,
         ~ ModifyPeer(r), ~ InsertPeer(r)
  PROVE  peers'[peer[r]] = peers[peer[r]]
<1>1. TypeOK /\ LocksReleasedOnAwait /\ EntryMatchesTable
      BY DEF Core
<1>2. CASE Rating
  <2>1. PICK q \in Requests : ModifyPeer(q) \/ InsertPeer(q)
        BY <1>2 DEF Rating
  <2>2. q # r /\ pc[q] \in InCriticalSection
        BY <2>1 DEF ModifyPeer, InsertPeer, InCriticalSection
  <2>3. peer[q] # peer[r]
        BY <1>1, <2>2, OneInside DEF Bucket
  <2> QED BY <1>1, <2>1, <2>3, RatingType DEF TypeOK
<1>3. CASE Pruning
  <2>1. PICK q \in Requests, b \in Buckets : PruneBucket(q, b)
        BY <1>3 DEF Pruning
  <2>2. BucketOf[peer[r]] # b
        BY <1>1, <2>1, AbsentAssumption DEF PruneBucket, LocksReleasedOnAwait, Bucket
  <2> QED BY <1>1, <2>1, <2>2 DEF PruneBucket, TypeOK
<1> QED BY <1>2, <1>3, TableFrame

\* A ticket that was given is kept, and the request with it.
LEMMA TicketStable ==
  ASSUME TypeOK, TicketOnce, [Next]_vars, NEW r \in Requests, ticket[r] # 0
  PROVE  ticket'[r] = ticket[r]
<1>1. CASE Rating
  <2>1. PICK q \in Requests : ModifyPeer(q) \/ InsertPeer(q)
        BY <1>1 DEF Rating
  <2>2. q # r
        BY <2>1 DEF ModifyPeer, InsertPeer, TicketOnce, Unrated
  <2>3. PICK n : ticket' = [ticket EXCEPT ![q] = n]
        BY <2>1 DEF ModifyPeer, InsertPeer, Rated
  <2> QED BY <2>2, <2>3 DEF TypeOK
<1> QED BY <1>1, TableFrame DEF Pruning, PruneBucket

\* What a first visit asked for stays asked for.
LEMMA FirstKindsGrow ==
  ASSUME TypeOK, TicketOnce, [Next]_vars, NEW p
  PROVE  FirstKinds(p) \subseteq FirstKinds(p)'
<1>1. peer' = peer /\ codings' = codings
      BY RequestFrame DEF request
<1> QED BY <1>1, TicketStable DEF FirstKinds

\* A record goes on remembering the coding of a first visit.
LEMMA FirstRememberedNext ==
  Core /\ TicketOnce /\ FirstRemembered /\ [Next]_vars => FirstRemembered'
<1> SUFFICES ASSUME Core, TicketOnce, FirstRemembered, [Next]_vars,
                    NEW p \in Peers, Known(p)'
             PROVE  (peers[p].supports_spicy \in FirstKinds(p))'
    BY DEF FirstRemembered
<1>1. TypeOK /\ EntryMatchesTable
      BY DEF Core
<1>2. FirstKinds(p) \subseteq FirstKinds(p)'
      BY <1>1, FirstKindsGrow
<1>3. CASE Known(p) /\ peers'[p].supports_spicy = peers[p].supports_spicy
      BY <1>2, <1>3 DEF FirstRemembered
<1>4. ASSUME NEW r \in Requests, ModifyPeer(r)
      PROVE  Known(p) /\ peers'[p].supports_spicy = peers[p].supports_spicy
  <2>1. Known(peer[r])
        BY <1>1, <1>4 DEF ModifyPeer, EntryMatchesTable, InCriticalSection
  <2>2. CASE p = peer[r]
        BY <1>1, <1>4, <2>1, <2>2 DEF ModifyPeer, TypeOK
  <2>3. CASE p # peer[r]
        BY <1>1, <1>4, <2>3, RatingType DEF Known
  <2> QED BY <2>2, <2>3
<1>5. ASSUME NEW r \in Requests, InsertPeer(r)
      PROVE  \/ Known(p) /\ peers'[p].supports_spicy = peers[p].supports_spicy
             \/ (peers[p].supports_spicy \in FirstKinds(p))'
  <2>1. CASE p = peer[r]
    <3>1. peers'[p].supports_spicy = AcceptsEncoding(codings[r])
          BY <1>1, <1>5, <2>1 DEF InsertPeer, TypeOK
    <3>2. ticket'[r] = 1 /\ peer'[r] = p /\ codings' = codings
          BY <1>1, <1>5, <2>1, RequestFrame DEF InsertPeer, Rated, TypeOK, request
    <3> QED BY <3>1, <3>2 DEF FirstKinds
  <2>2. CASE p # peer[r]
        BY <1>1, <1>5, <2>2, RatingType DEF Known
  <2> QED BY <2>1, <2>2
<1>6. CASE Pruning
      BY <1>1, <1>3, <1>6 DEF Pruning, PruneBucket, Known, TypeOK
<1> QED BY <1>3, <1>4, <1>5, <1>6, TableFrame DEF Rating, Known

\* A request moves only by a step of its own.
LEMMA OwnStep ==
  ASSUME TypeOK, [Next]_vars, NEW r \in Requests, pc'[r] # pc[r]
  PROVE  Call(r) \/ CallUnidentified(r) \/ Cancel(r) \/ Step(r)
<1>1. ~ Tick /\ ~ UNCHANGED vars
      BY DEF Tick, vars
<1>2. PICK q \in Requests : Call(q) \/ CallUnidentified(q) \/ Cancel(q) \/ Step(q)
      BY <1>1 DEF Next
<1>3. pc' = pc \/ \E place : Goto(q, place)
      BY <1>2 DEF Step, Call, CallUnidentified, AcquireEntry, EntryPending, ModifyPeer,
         InsertPeer, DropRequest, AdmitRequest, LockScheduler, Schedule, Forward,
         PruneBucket, PrunePending, DelayElapsed, DelayPending, Respond, InnerPending,
         Cancel
<1>4. q = r
      BY <1>3 DEF Goto, TypeOK
<1> QED BY <1>2, <1>4

\* Only a request inside its critical section is given a ticket.
LEMMA TicketKept ==
  ASSUME TypeOK, [Next]_vars, NEW r \in Requests, pc[r] \notin {"vacant", "occupied"}
  PROVE  ticket'[r] = ticket[r]
<1>1. CASE Rating
  <2>1. PICK q \in Requests : ModifyPeer(q) \/ InsertPeer(q)
        BY <1>1 DEF Rating
  <2>2. q # r
        BY <2>1 DEF ModifyPeer, InsertPeer
  <2>3. PICK n : ticket' = [ticket EXCEPT ![q] = n]
        BY <2>1 DEF ModifyPeer, InsertPeer, Rated
  <2> QED BY <2>2, <2>3 DEF TypeOK
<1> QED BY <1>1, TableFrame DEF Pruning, PruneBucket

\* What was decided under the bucket lock stays what the count says.
LEMMA DecidedNext == Core /\ Decided /\ [Next]_vars => Decided'
<1> SUFFICES ASSUME Core, Decided, [Next]_vars, NEW r \in Requests, pc'[r] = "decide"
             PROVE  ticket'[r] > 0 /\ peers'[peer'[r]].state = Limit(Mode, ticket'[r])
    BY DEF Decided
<1>1. TypeOK /\ EntryMatchesTable /\ peer' = peer
      BY RequestFrame DEF Core, request
<1>2. CASE pc[r] = "decide"
  <2>1. peers'[peer[r]] = peers[peer[r]]
        BY <1>2, EntryStable DEF ModifyPeer, InsertPeer, InCriticalSection
  <2>2. ticket'[r] = ticket[r]
        BY <1>1, <1>2, TicketKept
  <2> QED BY <1>1, <1>2, <2>1, <2>2 DEF Decided
<1>3. CASE pc[r] # "decide"
  <2>1. ModifyPeer(r) \/ InsertPeer(r)
    <3>1. Call(r) \/ CallUnidentified(r) \/ Cancel(r) \/ Step(r)
          BY <1>1, <1>3, OwnStep
    <3> QED BY <1>1, <1>3, <3>1
            DEF TypeOK, Step, Call, CallUnidentified, AcquireEntry, EntryPending,
                DropRequest, AdmitRequest, LockScheduler, Schedule, Forward, PruneBucket,
                PrunePending, DelayElapsed, DelayPending, Respond, InnerPending, Cancel,
                Goto, AfterPrune
  <2>2. CASE ModifyPeer(r)
    <3>1. peers[peer[r]].count \in Nat
          BY <1>1, <2>2 DEF ModifyPeer, EntryMatchesTable, InCriticalSection, Known,
                            TypeOK, Records
    <3> QED BY <1>1, <2>2, <3>1 DEF TypeOK, ModifyPeer, Rated
  <2>3. CASE InsertPeer(r)
        BY <1>1, <2>3 DEF TypeOK, InsertPeer, Rated
  <2> QED BY <2>1, <2>2, <2>3
<1> QED BY <1>2, <1>3

\* A request past the limiter was let through by its own number.
LEMMA LetThroughNext ==
  Core /\ TicketOnce /\ Decided /\ LetThrough /\ [Next]_vars => LetThrough'
<1> SUFFICES ASSUME Core, TicketOnce, Decided, LetThrough, [Next]_vars, NEW r \in Requests,
                    pc'[r] \in Past \/ (pc'[r] = "gone" /\ ticket'[r] > 0)
             PROVE  ticket'[r] > 0 /\ Limit(Mode, ticket'[r]) \in {"Ready", "Delay"}
    BY DEF LetThrough
<1>1. TypeOK
      BY DEF Core
<1>2. pc[r] \in Past \cup {"decide", "gone"} => ticket'[r] = ticket[r]
      BY <1>1, TicketKept DEF Past
<1>3. CASE pc'[r] = pc[r]
      BY <1>1, <1>2, <1>3 DEF LetThrough, Past
<1>4. CASE pc'[r] # pc[r]
  <2>1. \/ pc[r] \in Past
        \/ AdmitRequest(r)
        \/ pc[r] = "entry" /\ pc'[r] = "gone"
    <3>1. Call(r) \/ CallUnidentified(r) \/ Cancel(r) \/ Step(r)
          BY <1>1, <1>4, OwnStep
    <3> QED BY <1>1, <1>4, <3>1
            DEF TypeOK, Past, Step, Call, CallUnidentified, AcquireEntry, EntryPending,
                ModifyPeer, InsertPeer, DropRequest, LockScheduler, Schedule, Forward,
                PruneBucket, PrunePending, DelayElapsed, DelayPending, Respond,
                InnerPending, Cancel, Goto
  <2>2. CASE pc[r] \in Past
        BY <1>2, <2>2 DEF LetThrough
  <2>3. CASE AdmitRequest(r)
        BY <1>2, <2>3 DEF AdmitRequest, Decided
  <2>4. CASE pc[r] = "entry" /\ pc'[r] = "gone"
    <3>1. ticket[r] = 0 /\ ticket'[r] = 0
          BY <1>1, <2>4, TicketKept DEF TicketOnce, Unrated
    <3> QED BY <2>4, <3>1 DEF Past
  <2> QED BY <2>1, <2>2, <2>3, <2>4
<1> QED BY <1>3, <1>4

\* Only dropping a request and its response set a reply.
LEMMA ReplyFrame ==
  ASSUME TypeOK, [Next]_vars, NEW r \in Requests, reply'[r] # reply[r]
  PROVE  DropRequest(r) \/ Respond(r) \/ CallUnidentified(r)
<1>1. ~ UNCHANGED reply
      OBVIOUS
<1>2. PICK q \in Requests : DropRequest(q) \/ Respond(q) \/ CallUnidentified(q)
  <2>1. ASSUME NEW q \in Requests, Step(q) PROVE DropRequest(q) \/ Respond(q)
        BY <1>1, <2>1 DEF Step, AcquireEntry, EntryPending, ModifyPeer, InsertPeer,
           AdmitRequest, LockScheduler, Schedule, Forward, PruneBucket, PrunePending,
           DelayElapsed, DelayPending, InnerPending
  <2>2. ASSUME NEW q \in Requests, Call(q) \/ CallUnidentified(q) \/ Cancel(q)
        PROVE  CallUnidentified(q)
        BY <1>1, <2>2 DEF Call, Cancel
  <2>3. ~ (Tick \/ UNCHANGED vars)
        BY <1>1 DEF Tick, vars
  <2> QED BY <2>1, <2>2, <2>3 DEF Next
<1>3. \E answer : reply' = [reply EXCEPT ![q] = answer]
      BY <1>2 DEF DropRequest, Respond, CallUnidentified
<1>4. q = r
      BY <1>3 DEF TypeOK
<1> QED BY <1>2, <1>4

\* A request that is not done has no reply.
LEMMA UnansweredNext == TypeOK /\ Unanswered /\ [Next]_vars => Unanswered'
<1> SUFFICES ASSUME TypeOK, Unanswered, [Next]_vars, NEW r \in Requests, pc'[r] # "done"
             PROVE  reply'[r] = NoReply
    BY DEF Unanswered, NoReply, Reply
<1>1. reply'[r] = reply[r]
  <2>1. ~ (DropRequest(r) \/ Respond(r) \/ CallUnidentified(r))
        BY DEF TypeOK, DropRequest, Respond, CallUnidentified, Goto
  <2> QED BY <2>1, ReplyFrame
<1>2. pc[r] # "done"
  <2>1. ASSUME pc[r] = "done" PROVE pc'[r] = "done"
    <3>1. ~ (Call(r) \/ CallUnidentified(r) \/ Cancel(r) \/ Step(r))
          BY <2>1 DEF Step, Call, CallUnidentified, AcquireEntry, EntryPending,
             ModifyPeer, InsertPeer, DropRequest, AdmitRequest, LockScheduler, Schedule,
             Forward, PruneBucket, PrunePending, DelayElapsed, DelayPending, Respond,
             InnerPending, Cancel
    <3> QED BY <2>1, <3>1, OwnStep
  <2> QED BY <2>1
<1> QED BY <1>1, <1>2 DEF Unanswered

Answering ==
  Counting /\ Decided /\ LetThrough /\ Unanswered /\ FirstRemembered /\ RepliesObeyLimit

\* Every step that replies gives the reply its number calls for.
LEMMA RepliesNext == Answering /\ [Next]_vars => RepliesObeyLimit'
<1> SUFFICES ASSUME Answering, [Next]_vars PROVE RepliesObeyLimit'
    OBVIOUS
<1>1. TypeOK /\ TicketOnce /\ EntryMatchesTable /\ RepliesObeyLimit /\ peer' = peer
      BY RequestFrame DEF Answering, Counting, Core, request
<1> DEFINE Obeys(r, n, answer, kinds) ==
      /\ answer.code = "Inner" => n > 0 /\ Limit(Mode, n) \in {"Ready", "Delay"}
      /\ answer.code = "Spicy" => /\ n > 0 /\ Limit(Mode, n) = "SpicyDrop"
                                  /\ answer.kind \in Payloads \cap kinds
      /\ answer.code = "Dropped" =>
           /\ n > 0
           /\ \/ Limit(Mode, n) = "Drop"
              \/ Limit(Mode, n) = "SpicyDrop" /\ ~ kinds \subseteq Payloads
      /\ answer.code = "Error" => n = 0
<1>2. \A r \in Requests : Obeys(r, ticket[r], reply[r], FirstKinds(peer[r]))
      BY <1>1 DEF RepliesObeyLimit
<1>3. ASSUME NEW r \in Requests
      PROVE  Obeys(r, ticket'[r], reply'[r], FirstKinds(peer[r])')
  <2>1. FirstKinds(peer[r]) \subseteq FirstKinds(peer[r])'
        BY <1>1, FirstKindsGrow
  <2>2. CASE reply'[r] = reply[r]
    <3>1. CASE ticket'[r] = ticket[r]
          BY <1>2, <2>1, <2>2, <3>1
    <3>2. CASE ticket'[r] # ticket[r]
      <4>1. pc[r] \in {"vacant", "occupied"}
            BY <1>1, <3>2, TicketKept
      <4>2. reply[r] = NoReply
            BY <4>1 DEF Answering, Unanswered
      <4> QED BY <2>2, <4>2 DEF NoReply, Reply
    <3> QED BY <3>1, <3>2
  <2>3. CASE DropRequest(r)
    <3> DEFINE record == peers[peer[r]]
    <3>1. ticket[r] > 0 /\ record.state = Limit(Mode, ticket[r])
          BY <2>3 DEF DropRequest, Answering, Decided
    <3>2. record.state \in {"Drop", "SpicyDrop"} /\ reply'[r] = SpicyReply(record)
          BY <1>1, <2>3 DEF DropRequest, TypeOK
    <3>3. record.supports_spicy \in FirstKinds(peer[r])'
      <4>1. Known(peer[r]) /\ peer[r] \in Peers
            BY <1>1, <2>3 DEF DropRequest, EntryMatchesTable, InCriticalSection, TypeOK
      <4> QED BY <2>1, <4>1 DEF Answering, FirstRemembered
    <3>4. ticket'[r] = ticket[r]
          BY <1>1, <2>3, TicketKept DEF DropRequest
    <3> QED BY <3>1, <3>2, <3>3, <3>4 DEF SpicyReply, Reply
  <2>4. CASE Respond(r)
    <3>1. ticket[r] > 0 /\ Limit(Mode, ticket[r]) \in {"Ready", "Delay"}
          BY <2>4 DEF Respond, Answering, LetThrough, Past
    <3>2. ticket'[r] = ticket[r] /\ reply'[r] = Reply("Inner")
          BY <1>1, <2>4, TicketKept DEF Respond, TypeOK
    <3> QED BY <3>1, <3>2 DEF Reply
  <2>5. CASE CallUnidentified(r)
    <3>1. ticket[r] = 0
          BY <1>1, <2>5 DEF CallUnidentified, TicketOnce, Unrated
    <3>2. ticket'[r] = ticket[r] /\ reply'[r] = Reply("Error")
          BY <1>1, <2>5, TicketKept DEF CallUnidentified, TypeOK
    <3> QED BY <3>1, <3>2 DEF Reply
  <2> QED BY <1>1, <2>2, <2>3, <2>4, <2>5, ReplyFrame
<1> QED BY <1>3 DEF RepliesObeyLimit

\* The inductive invariant behind the replies.
LEMMA AnsweringInvariant == Spec => []Answering
<1>1. Init => Answering
  <2> SUFFICES ASSUME Init PROVE Answering
      OBVIOUS
  <2>1. Counting
        BY TypeOKInit, LocksInit, EntryInit, SeenInit, OnceInit, CountInit
        DEF Core, Counting
  <2>2. Decided /\ LetThrough /\ Unanswered /\ FirstRemembered
        BY DEF Init, Decided, LetThrough, Unanswered, FirstRemembered, Past, Known
  <2>3. RepliesObeyLimit
        BY DEF Init, RepliesObeyLimit, NoReply, Reply
  <2> QED BY <2>1, <2>2, <2>3 DEF Answering
<1>2. Answering /\ [Next]_vars => Answering'
  <2>1. Answering /\ [Next]_vars => Counting'
        BY TypeOKNext, LocksNext, EntryNext, SeenNext, OnceNext, CountNext
        DEF Core, Counting, Answering
  <2>2. Answering /\ [Next]_vars
          => Decided' /\ LetThrough' /\ Unanswered' /\ FirstRemembered'
        BY DecidedNext, LetThroughNext, UnansweredNext, FirstRememberedNext
        DEF Core, Counting, Answering
  <2> QED BY <2>1, <2>2, RepliesNext DEF Answering
<1> QED BY <1>1, <1>2, PTL DEF Spec

\* Every answer is the one the visit's own number calls for.
THEOREM AnswersObeyLimit == Spec => []RepliesObeyLimit
<1>1. Answering => RepliesObeyLimit
      BY DEF Answering
<1> QED BY <1>1, AnsweringInvariant, PTL

-----------------------------------------------------------------------------
(***************************************************************************)
(* Hard limits.  The requests let through hold different tickets below the *)
(* limit, so there are fewer of them than the limit.                       *)
(***************************************************************************)
LEMMA AdmittedBelowLimit ==
  ASSUME Answering, Mode.hard, NEW p \in Peers, NEW r \in Admitted(p)
  PROVE  ticket[r] \in 1 .. Mode.hard_limit - 1
<1>1. r \in visits[p] /\ r \in Requests
      BY DEF Admitted, Answering, Counting, Core, TypeOK
<1>2. ticket[r] \in Nat /\ ticket[r] > 0
  <2>1. ticket[r] \in Nat
        BY <1>1 DEF Answering, Counting, Core, TypeOK
  <2>2. ticket[r] \in 1 .. peers[p].count
        BY <1>1 DEF Answering, Counting, TicketsCount
  <2>3. peers[p].count \in Nat
        BY <1>1 DEF Answering, Counting, TicketsCount, SeenLast, Known, Core, TypeOK, Records
  <2> QED BY <2>1, <2>2, <2>3
<1>3. Limit(Mode, ticket[r]) \in {"Ready", "Delay"}
      BY <1>1, <1>2 DEF Admitted, Answering, LetThrough, RepliesObeyLimit, Past
<1>4. Mode.hard_limit \in Nat /\ ticket[r] < Mode.hard_limit
      BY <1>2, <1>3, ModeType DEF Limit, ReachesHardLimit, Modes
<1> QED BY <1>2, <1>4

\* The invariant bounds the admissions of a peer by its hard limit.
LEMMA HardLimitStep == Answering => AdmissionsWithinLimit
<1> SUFFICES ASSUME Answering, Mode.hard, NEW p \in Peers, Admitted(p) # {}
             PROVE  Cardinality(Admitted(p)) < Mode.hard_limit
    BY DEF AdmissionsWithinLimit
<1> DEFINE top == Mode.hard_limit - 1
           f == [r \in Admitted(p) |-> ticket[r]]
<1>1. Mode.hard_limit \in Nat /\ Mode.hard_limit > 0
  <2>1. Mode.hard_limit \in Nat
        BY ModeType DEF Modes
  <2>2. PICK r \in Admitted(p) : TRUE
        OBVIOUS
  <2> QED BY <2>1, <2>2, AdmittedBelowLimit
<1>2. f \in Injection(Admitted(p), 1 .. top)
  <2>1. f \in [Admitted(p) -> 1 .. top]
        BY AdmittedBelowLimit
  <2>2. \A r, q \in Admitted(p) : f[r] = f[q] => r = q
        BY DEF Admitted, Answering, Counting, TicketsCount
  <2> QED BY <2>1, <2>2 DEF Injection, IsInjective
<1>3. IsFiniteSet(1 .. top) /\ Cardinality(1 .. top) = top
  <2>1. 1 \in Int /\ top \in Int /\ top >= 0
        BY <1>1
  <2>2. IsFiniteSet(1 .. top) /\ Cardinality(1 .. top) = IF 1 > top THEN 0 ELSE top - 1 + 1
        BY <2>1, FS_Interval
  <2> QED BY <2>1, <2>2
<1>4. Cardinality(Admitted(p)) <= top
      BY <1>2, <1>3, FS_Injection
<1>5. Cardinality(Admitted(p)) \in Nat
      BY <1>2, <1>3, FS_Injection, FS_CardinalityType
<1> QED BY <1>1, <1>4, <1>5

\* A hard limit holds for every number of workers, requests and peers.
THEOREM HardLimitHolds == Spec => []AdmissionsWithinLimit
BY HardLimitStep, AnsweringInvariant, PTL

-----------------------------------------------------------------------------
(***************************************************************************)
(* The ledger.  Every step of the limiter is a step of PeerLedger or none: *)
(* a rating is a visit, a bucket of a prune forgets its idle peers, a      *)
(* reply or a disconnect is an answer, and the rest is not seen.           *)
(***************************************************************************)

\* Who is known has been counted at least once.
KnownCounted == \A p \in Peers : Known(p) => peers[p].count > 0

\* A request whose number asks for a delay sleeps at least that long, counted
\* from the instant it was rated, before the inner service is polled.
BeforePass == {"schedule", "locked", "forward", "prune", "delay"}

DelayKept ==
  \A r \in Requests :
    /\ pc[r] = "decide" => ratedAt[r] <= now
    /\ Limit(Mode, ticket[r]) = "Delay" =>
         /\ pc[r] \in BeforePass =>
              deadline[r] \in Nat /\ ratedAt[r] + Mode.delay <= deadline[r]
         /\ pc[r] = "pass" => ratedAt[r] + Mode.delay <= now

\* A rated peer has a count above 0, and a prune leaves counts alone.
LEMMA KnownCountedNext == Core /\ KnownCounted /\ [Next]_vars => KnownCounted'
<1> SUFFICES ASSUME Core, KnownCounted, [Next]_vars PROVE KnownCounted'
    OBVIOUS
<1> USE DEF KnownCounted, Known
<1>1. TypeOK /\ EntryMatchesTable
      BY DEF Core
<1>2. ASSUME NEW r \in Requests, ModifyPeer(r) \/ InsertPeer(r), NEW p \in Peers,
             peers'[p] # NoRecord
      PROVE  peers'[p].count > 0
  <2>1. CASE p # peer[r]
        BY <1>1, <1>2, <2>1, RatingType
  <2>2. CASE p = peer[r] /\ ModifyPeer(r)
    <3>1. peers[p].count \in Nat
          BY <1>1, <2>2 DEF ModifyPeer, EntryMatchesTable, InCriticalSection, TypeOK, Records
    <3> QED BY <1>1, <2>2, <3>1 DEF ModifyPeer, TypeOK
  <2>3. CASE p = peer[r] /\ InsertPeer(r)
        BY <1>1, <2>3 DEF InsertPeer, TypeOK
  <2> QED BY <1>2, <2>1, <2>2, <2>3
<1>3. CASE Pruning
      BY <1>1, <1>3 DEF Pruning, PruneBucket, TypeOK
<1> QED BY <1>2, <1>3, TableFrame DEF Rating

\* Only admitting a request sets when its delay is over.
LEMMA DeadlineFrame ==
  ASSUME TypeOK, [Next]_vars, NEW r \in Requests, ~ AdmitRequest(r)
  PROVE  deadline'[r] = deadline[r]
<1>1. CASE UNCHANGED deadline
      BY <1>1
<1>2. CASE ~ UNCHANGED deadline
  <2>1. PICK q \in Requests : AdmitRequest(q)
    <3>1. ASSUME NEW q \in Requests, Step(q) PROVE AdmitRequest(q)
          BY <1>2, <3>1 DEF Step, AcquireEntry, EntryPending, ModifyPeer, InsertPeer,
             DropRequest, LockScheduler, Schedule, Forward, PruneBucket, PrunePending,
             DelayElapsed, DelayPending, Respond, InnerPending
    <3>2. ASSUME NEW q \in Requests PROVE ~ (Call(q) \/ CallUnidentified(q) \/ Cancel(q))
          BY <1>2 DEF Call, CallUnidentified, Cancel
    <3>3. ~ (Tick \/ UNCHANGED vars)
          BY <1>2 DEF Tick, vars
    <3> QED BY <3>1, <3>2, <3>3 DEF Next
  <2>2. PICK d : deadline' = [deadline EXCEPT ![q] = d]
        BY <2>1 DEF AdmitRequest
  <2>3. q # r
        BY <2>1
  <2> QED BY <2>2, <2>3 DEF TypeOK
<1> QED BY <1>1, <1>2

\* A request is rated before it is decided, and not again after.
LEMMA RatedKept ==
  ASSUME TypeOK, [Next]_vars, NEW r \in Requests, pc[r] \notin {"vacant", "occupied"}
  PROVE  ratedAt'[r] = ratedAt[r] /\ ticket'[r] = ticket[r]
<1>1. CASE Rating
  <2>1. PICK q \in Requests : ModifyPeer(q) \/ InsertPeer(q)
        BY <1>1 DEF Rating
  <2>2. q # r
        BY <2>1 DEF ModifyPeer, InsertPeer
  <2>3. PICK n : ticket' = [ticket EXCEPT ![q] = n] /\ ratedAt' = [ratedAt EXCEPT ![q] = now]
        BY <2>1 DEF ModifyPeer, InsertPeer, Rated
  <2> QED BY <2>2, <2>3 DEF TypeOK
<1> QED BY <1>1, TableFrame DEF Pruning, PruneBucket

\* No step shortens a delay.
LEMMA DelayNext == Core /\ Decided /\ LetThrough /\ DelayKept /\ [Next]_vars => DelayKept'
<1> SUFFICES ASSUME Core, Decided, LetThrough, DelayKept, [Next]_vars, NEW r \in Requests
             PROVE  /\ pc'[r] = "decide" => ratedAt'[r] <= now'
                    /\ Limit(Mode, ticket'[r]) = "Delay" =>
                         /\ pc'[r] \in BeforePass =>
                              /\ deadline'[r] \in Nat
                              /\ ratedAt'[r] + Mode.delay <= deadline'[r]
                         /\ pc'[r] = "pass" => ratedAt'[r] + Mode.delay <= now'
    BY DEF DelayKept
<1>1. TypeOK /\ now \in Nat /\ now' \in Nat /\ now <= now' /\ ratedAt[r] \in Nat
      BY ClockFrame DEF Core, TypeOK
<1>2. Mode.delay \in Nat
      BY ModeType DEF Modes
<1>3. CASE pc'[r] = pc[r]
  <2>1. CASE pc[r] \in BeforePass \cup {"decide", "pass"}
    <3>1. ratedAt'[r] = ratedAt[r] /\ ticket'[r] = ticket[r]
          BY <1>1, <2>1, RatedKept DEF BeforePass
    <3>2. deadline'[r] = deadline[r]
          BY <1>1, <1>3, DeadlineFrame DEF AdmitRequest, Goto, TypeOK
    <3> QED BY <1>1, <1>2, <1>3, <3>1, <3>2 DEF DelayKept
  <2> QED BY <1>3, <2>1
<1>4. CASE pc'[r] # pc[r]
  <2>1. Call(r) \/ CallUnidentified(r) \/ Cancel(r) \/ Step(r)
        BY <1>1, <1>4, OwnStep
  <2>2. \/ ModifyPeer(r) \/ InsertPeer(r)
        \/ AdmitRequest(r)
        \/ /\ pc[r] \in BeforePass /\ pc'[r] \in BeforePass
           /\ ~ AdmitRequest(r)
        \/ pc[r] \in BeforePass /\ pc'[r] = "pass"
        \/ pc'[r] \notin BeforePass \cup {"decide", "pass"}
        BY <1>1, <1>4, <2>1
        DEF TypeOK, BeforePass, Step, Call, CallUnidentified, AcquireEntry, EntryPending,
            ModifyPeer, InsertPeer, DropRequest, LockScheduler, Schedule,
            Forward, PruneBucket, PrunePending, DelayElapsed, DelayPending, Respond,
            InnerPending, Cancel, Goto, AfterPrune
  <2>3. CASE ModifyPeer(r) \/ InsertPeer(r)
        BY <1>1, <2>3 DEF ModifyPeer, InsertPeer, Rated, Goto, TypeOK, BeforePass
  <2>4. CASE AdmitRequest(r)
    <3>1. ratedAt'[r] = ratedAt[r] /\ ticket'[r] = ticket[r] /\ pc[r] = "decide"
          BY <1>1, <2>4, RatedKept DEF AdmitRequest
    <3>2. pc'[r] = "schedule" /\ ratedAt[r] <= now
          BY <1>1, <2>4 DEF AdmitRequest, Goto, TypeOK, DelayKept
    <3>3. Limit(Mode, ticket[r]) = "Delay" => deadline'[r] = now + Mode.delay
          BY <1>1, <2>4 DEF AdmitRequest, TypeOK, Decided
    <3> QED BY <1>1, <1>2, <3>1, <3>2, <3>3
  <2>5. CASE pc[r] \in BeforePass /\ pc'[r] \in BeforePass /\ ~ AdmitRequest(r)
    <3>1. ratedAt'[r] = ratedAt[r] /\ ticket'[r] = ticket[r] /\ deadline'[r] = deadline[r]
          BY <1>1, <2>5, RatedKept, DeadlineFrame DEF BeforePass
    <3> QED BY <2>5, <3>1 DEF DelayKept, BeforePass
  <2>6. CASE pc[r] \in BeforePass /\ pc'[r] = "pass"
    <3>1. ratedAt'[r] = ratedAt[r] /\ ticket'[r] = ticket[r]
          BY <1>1, <2>6, RatedKept DEF BeforePass
    <3>2. ASSUME deadline[r] # NoInstant PROVE now >= deadline[r]
          BY <1>1, <2>1, <2>6, <3>2
          DEF TypeOK, BeforePass, Step, Call, CallUnidentified, AcquireEntry, EntryPending,
              ModifyPeer, InsertPeer, DropRequest, AdmitRequest, LockScheduler, Schedule,
              Forward, PruneBucket, PrunePending, DelayElapsed, DelayPending, Respond,
              InnerPending, Cancel, Goto, AfterPrune
    <3> QED BY <1>1, <1>2, <2>6, <3>1, <3>2, AbsentAssumption DEF DelayKept, BeforePass
  <2> QED BY <2>2, <2>3, <2>4, <2>5, <2>6 DEF BeforePass
<1> QED BY <1>3, <1>4

Ledgered == Answering /\ KnownCounted /\ DelayKept

\* The inductive invariant behind the ledger.
LEMMA LedgeredInvariant == Spec => []Ledgered
<1>1. Init => KnownCounted /\ DelayKept
      BY DEF Init, KnownCounted, Known, DelayKept, BeforePass
<1>2. Answering /\ KnownCounted /\ DelayKept /\ [Next]_vars => (KnownCounted /\ DelayKept)'
      BY KnownCountedNext, DelayNext DEF Answering, Counting
<1> QED BY <1>1, <1>2, AnsweringInvariant, PTL DEF Spec, Ledgered

\* AnswerOf, of a place and the code of a reply.
AnswerAt(place, code) ==
  CASE place = "gone"               -> "Abandoned"
    [] code = "Inner"               -> "Admitted"
    [] code \in {"Dropped", "Spicy"} -> "Refused"
    [] code = "Error"               -> "Error"
    [] OTHER                        -> "None"

\* The answers of the ledger, one by one.
LEMMA AnswerValues ==
  /\ AnswerAt("gone", "None") = "Abandoned"
  /\ AnswerAt("done", "Inner") = "Admitted"
  /\ AnswerAt("done", "Dropped") = "Refused" /\ AnswerAt("done", "Spicy") = "Refused"
  /\ AnswerAt("done", "Error") = "Error"
  /\ \A place : place # "gone" => AnswerAt(place, "None") = "None"
BY DEF AnswerAt

\* The ledger judges a ticket as the limiter does.
LEMMA SameVerdict ==
  /\ \A r : Ledger!Verdict(r) = Limit(Mode, ticket[r])
  /\ Ledger!ModeOf(Config) = Mode
BY DEF Ledger!Verdict, Ledger!Limit, Ledger!ModeOf, Ledger!ReachesHardLimit,
       Ledger!ReachesSoftLimit, Limit, Mode, ModeOf, ReachesHardLimit, ReachesSoftLimit

Counts == [p \in Peers |-> IF Known(p) THEN peers[p].count ELSE 0]
Sightings == [p \in Peers |-> IF Known(p) THEN peers[p].last_seen ELSE 0]
Fates == [r \in Requests |-> AnswerOf(r)]

\* A step that gives nobody a reply and loses nobody leaves every answer.
LEMMA FatesKept ==
  ASSUME reply' = reply, \A q \in Requests : pc'[q] = "gone" <=> pc[q] = "gone"
  PROVE  Fates' = Fates
<1>1. ASSUME NEW q \in Requests PROVE AnswerOf(q)' = AnswerOf(q)
  <2>1. CASE pc[q] = pc'[q]
        BY <2>1 DEF AnswerOf
  <2>2. CASE pc[q] # "gone" /\ pc'[q] # "gone"
        BY <2>2 DEF AnswerOf
  <2> QED BY <2>1, <2>2
<1> QED BY <1>1 DEF Fates

\* What a step of one request does to the answers.
LEMMA FateOfOne ==
  ASSUME TypeOK, NEW r \in Requests,
         \A q \in Requests : q # r => pc'[q] = pc[q] /\ reply'[q] = reply[q]
  PROVE  Fates' = [Fates EXCEPT ![r] = AnswerAt(pc'[r], reply'[r].code)]
<1>1. \A q \in Requests : /\ AnswerOf(q) = AnswerAt(pc[q], reply[q].code)
                          /\ AnswerOf(q)' = AnswerAt(pc'[q], reply'[q].code)
      BY DEF AnswerOf, AnswerAt
<1>2. \A q \in Requests : q # r => AnswerOf(q)' = AnswerOf(q)
      BY <1>1
<1>3. AnswerOf(r)' = AnswerAt(pc'[r], reply'[r].code)
      BY <1>1
<1> QED BY <1>2, <1>3 DEF Fates

\* The ledger starts empty.
LEMMA LedgerInit == Init => Ledger!Init
<1> SUFFICES ASSUME Init PROVE Ledger!Init
    OBVIOUS
<1>1. \A r \in Requests : AnswerOf(r) = "None"
      BY DEF Init, AnswerOf, NoReply, Reply
<1> QED BY <1>1 DEF Init, Ledger!Init, Known

\* A rating is the next visit of its peer.
LEMMA RatingVisits ==
  ASSUME Ledgered, NEW r \in Requests, ModifyPeer(r) \/ InsertPeer(r)
  PROVE  \E p \in Peers : Ledger!Visit(r, p)
<1>1. TypeOK /\ EntryMatchesTable /\ TicketOnce /\ Unanswered
      BY DEF Ledgered, Answering, Counting, Core
<1>2. PICK p \in Peers : p = peer[r]
      BY <1>1 DEF TypeOK
<1>3. /\ pc[r] \in {"vacant", "occupied"} /\ Goto(r, "decide")
      /\ reply' = reply /\ now' = now
      BY DEF ModifyPeer, InsertPeer
<1>4. ticket[r] = 0 /\ AnswerOf(r) = "None"
  <2>1. ticket[r] = 0 /\ reply[r] = NoReply /\ pc[r] # "gone"
        BY <1>1, <1>3 DEF TicketOnce, Unrated, Unanswered
  <2> QED BY <2>1 DEF AnswerOf, NoReply, Reply
<1>5. Fates' = Fates
      BY <1>1, <1>3, FatesKept DEF Goto, TypeOK
<1>6. /\ peers'[p] # NoRecord
      /\ \A q \in Peers : q # p => peers'[q] = peers[q]
      BY <1>1, <1>2, RatingType, NoRecordIsNone
<1>7. /\ peers'[p].count = Counts[p] + 1 /\ peers'[p].last_seen = now
      /\ ticket' = [ticket EXCEPT ![r] = Counts[p] + 1]
      /\ ratedAt' = [ratedAt EXCEPT ![r] = now]
  <2>1. CASE ModifyPeer(r)
    <3>1. Known(p)
          BY <1>1, <1>2, <2>1 DEF ModifyPeer, EntryMatchesTable, InCriticalSection
    <3> QED BY <1>1, <1>2, <2>1, <3>1 DEF ModifyPeer, Rated, Counts, TypeOK
  <2>2. CASE InsertPeer(r)
    <3>1. ~ Known(p)
          BY <1>1, <1>2, <2>2 DEF InsertPeer, EntryMatchesTable
    <3> QED BY <1>1, <1>2, <2>2, <3>1 DEF InsertPeer, Rated, Counts, TypeOK
  <2> QED BY <2>1, <2>2
<1>8. /\ Counts' = [Counts EXCEPT ![p] = @ + 1]
      /\ Sightings' = [Sightings EXCEPT ![p] = now]
  <2>1. \A q \in Peers : q # p => /\ Counts'[q] = Counts[q]
                                  /\ Sightings'[q] = Sightings[q]
        BY <1>6 DEF Counts, Sightings, Known
  <2>2. Counts'[p] = Counts[p] + 1 /\ Sightings'[p] = now
    <3>1. Counts'[p] = peers'[p].count /\ Sightings'[p] = peers'[p].last_seen
          BY <1>2, <1>6 DEF Counts, Sightings, Known
    <3> QED BY <1>7, <3>1
  <2>3. /\ Counts = [q \in Peers |-> Counts[q]] /\ Counts' = [q \in Peers |-> Counts'[q]]
        /\ Sightings = [q \in Peers |-> Sightings[q]]
        /\ Sightings' = [q \in Peers |-> Sightings'[q]]
        BY DEF Counts, Sightings
  <2>4. Counts' = [Counts EXCEPT ![p] = @ + 1]
        BY <1>2, <2>1, <2>2, <2>3
  <2>5. Sightings' = [Sightings EXCEPT ![p] = now]
        BY <1>2, <2>1, <2>2, <2>3
  <2> QED BY <2>4, <2>5
<1>9. Ledger!Visit(r, p)
      BY <1>3, <1>4, <1>5, <1>7, <1>8 DEF Ledger!Visit, Counts, Sightings, Fates
<1> QED BY <1>9

\* A prune of one bucket forgets peers that were idle for PeerTimeout.
LEMMA PruningForgets ==
  ASSUME Ledgered, NEW r \in Requests, NEW b \in Buckets, PruneBucket(r, b)
  PROVE  \E idle \in SUBSET Peers : Ledger!Forget(idle)
<1>1. TypeOK
      BY DEF Ledgered, Answering, Counting, Core
<1>2. PICK idle \in SUBSET Peers : idle = {p \in Peers : BucketOf[p] = b /\ Stale(p)}
      OBVIOUS
<1>3. \A p \in idle : Counts[p] > 0 /\ now - Sightings[p] >= PeerTimeout
      BY <1>2 DEF Ledgered, KnownCounted, Stale, Known, Counts, Sightings
<1>4. /\ peers' = [p \in Peers |-> IF p \in idle THEN NoRecord ELSE peers[p]]
      /\ UNCHANGED <<now, ticket, ratedAt, reply>>
      BY <1>2 DEF PruneBucket
<1>5. /\ Counts' = [p \in Peers |-> IF p \in idle THEN 0 ELSE Counts[p]]
      /\ Sightings' = [p \in Peers |-> IF p \in idle THEN 0 ELSE Sightings[p]]
      BY <1>4 DEF Counts, Sightings, Known
<1>6. Fates' = Fates
  <2>1. \A q \in Requests : pc'[q] = "gone" <=> pc[q] = "gone"
        BY <1>1 DEF PruneBucket, Goto, AfterPrune, TypeOK
  <2> QED BY <1>4, <2>1, FatesKept
<1>7. Ledger!Forget(idle)
      BY <1>3, <1>4, <1>5, <1>6 DEF Ledger!Forget, Counts, Sightings, Fates
<1> QED BY <1>7

\* A reply and a disconnect are the answer that the request's number allows.
LEMMA ReplyAnswers ==
  ASSUME Ledgered, NEW r \in Requests,
         CallUnidentified(r) \/ DropRequest(r) \/ Respond(r) \/ Cancel(r)
  PROVE  \E a \in Ledger!Answers : Ledger!Answer(r, a)
<1>1. TypeOK /\ TicketOnce /\ Decided /\ LetThrough /\ Unanswered /\ DelayKept
      BY DEF Ledgered, Answering, Counting, Core
<1> DEFINE a == AnswerAt(pc'[r], reply'[r].code)
<1>2. AnswerOf(r) = "None"
  <2>1. pc[r] \notin {"done", "gone"}
        BY DEF CallUnidentified, DropRequest, Respond, Cancel
  <2>2. reply[r] = NoReply
        BY <1>1, <2>1 DEF Unanswered
  <2> QED BY <2>1, <2>2 DEF AnswerOf, NoReply, Reply
<1>3. /\ UNCHANGED <<now, peers, ticket, ratedAt>>
      /\ \A q \in Requests : q # r => pc'[q] = pc[q] /\ reply'[q] = reply[q]
      BY <1>1 DEF CallUnidentified, DropRequest, Respond, Cancel, Goto, history, TypeOK
<1>4. Fates' = [Fates EXCEPT ![r] = a]
      BY <1>1, <1>3, FateOfOne
<1>5. a \in Ledger!Answers /\ a # "None" /\ Ledger!MayAnswer(r, a)
  <2> USE DEF Ledger!Answers
  <2>1. CASE CallUnidentified(r)
    <3>1. a = "Error" /\ ticket[r] = 0
          BY <1>1, <2>1, AnswerValues
          DEF CallUnidentified, Goto, Reply, TypeOK, TicketOnce, Unrated
    <3> HIDE DEF a
    <3> QED BY <3>1 DEF Ledger!MayAnswer
  <2>2. CASE DropRequest(r)
    <3>1. a = "Refused"
          BY <1>1, <2>2, AnswerValues DEF DropRequest, Goto, SpicyReply, Reply, TypeOK
    <3>2. ticket[r] > 0 /\ Limit(Mode, ticket[r]) \in {"Drop", "SpicyDrop"}
          BY <1>1, <2>2 DEF DropRequest, Decided
    <3> HIDE DEF a
    <3> QED BY <3>1, <3>2, SameVerdict DEF Ledger!MayAnswer
  <2>3. CASE Respond(r)
    <3>1. a = "Admitted"
          BY <1>1, <2>3, AnswerValues DEF Respond, Goto, Reply, TypeOK
    <3>2. ticket[r] > 0 /\ Limit(Mode, ticket[r]) \in {"Ready", "Delay"}
          BY <1>1, <2>3 DEF Respond, LetThrough, Past
    <3>3. Limit(Mode, ticket[r]) = "Delay" => now >= ratedAt[r] + Mode.delay
      <4>1. Limit(Mode, ticket[r]) = "Delay" => ratedAt[r] + Mode.delay <= now
            BY <1>1, <2>3 DEF Respond, DelayKept
      <4>2. now \in Nat /\ ratedAt[r] \in Nat /\ Mode.delay \in Nat
            BY <1>1, ModeType DEF TypeOK, Modes
      <4> QED BY <4>1, <4>2
    <3> HIDE DEF a
    <3> QED BY <3>1, <3>2, <3>3, SameVerdict DEF Ledger!MayAnswer
  <2>4. CASE Cancel(r)
    <3>1. a = "Abandoned"
      <4>1. pc[r] # "done" /\ pc'[r] = "gone" /\ reply' = reply
            BY <1>1, <2>4 DEF Cancel, Goto, TypeOK
      <4>2. reply'[r].code = "None"
            BY <1>1, <4>1 DEF Unanswered, NoReply, Reply
      <4> QED BY <4>1, <4>2, AnswerValues
    <3>2. ticket[r] = 0 \/ Limit(Mode, ticket[r]) \in {"Ready", "Delay"}
          BY <1>1, <2>4 DEF Cancel, TicketOnce, Unrated, LetThrough, Past
    <3> HIDE DEF a
    <3> QED BY <3>1, <3>2, SameVerdict DEF Ledger!MayAnswer
  <2> QED BY <2>1, <2>2, <2>3, <2>4
<1>6. Counts' = Counts /\ Sightings' = Sightings
      BY <1>3 DEF Counts, Sightings, Known
<1>7. Ledger!Answer(r, a)
  <2> HIDE DEF a
  <2> QED BY <1>2, <1>3, <1>4, <1>5, <1>6 DEF Ledger!Answer, Counts, Sightings, Fates
<1> QED BY <1>5, <1>7

\* Every step of the limiter is a step of the ledger or leaves it alone.
LEMMA LedgerNext == Ledgered /\ [Next]_vars => [Ledger!Next]_(Ledger!vars)
<1> SUFFICES ASSUME Ledgered, [Next]_vars PROVE [Ledger!Next]_(Ledger!vars)
    OBVIOUS
<1>1. TypeOK
      BY DEF Ledgered, Answering, Counting, Core
<1>2. ASSUME UNCHANGED <<now, peers, ticket, ratedAt, reply>>,
             \A q \in Requests : pc'[q] = "gone" <=> pc[q] = "gone"
      PROVE  UNCHANGED Ledger!vars
  <2>1. Counts' = Counts /\ Sightings' = Sightings
        BY <1>2 DEF Counts, Sightings, Known
  <2>2. Fates' = Fates
        BY <1>2, FatesKept
  <2> QED BY <1>2, <2>1, <2>2 DEF Ledger!vars, Counts, Sightings, Fates
<1>3. CASE UNCHANGED vars
      BY <1>2, <1>3 DEF vars, history
<1>4. CASE Tick
  <2>1. Counts' = Counts /\ Sightings' = Sightings
        BY <1>4 DEF Tick, Counts, Sightings, Known
  <2>2. Fates' = Fates
        BY <1>4, FatesKept DEF Tick
  <2>3. Ledger!Pass
        BY <1>4, <2>1, <2>2 DEF Tick, history, Ledger!Pass, Counts, Sightings, Fates
  <2> QED BY <2>3 DEF Ledger!Next
<1>5. ASSUME NEW r \in Requests, ModifyPeer(r) \/ InsertPeer(r) PROVE Ledger!Next
      BY <1>5, RatingVisits DEF Ledger!Next
<1>6. ASSUME NEW r \in Requests, NEW b \in Buckets, PruneBucket(r, b) PROVE Ledger!Next
      BY <1>6, PruningForgets DEF Ledger!Next
<1>7. ASSUME NEW r \in Requests,
             CallUnidentified(r) \/ DropRequest(r) \/ Respond(r) \/ Cancel(r)
      PROVE  Ledger!Next
      BY <1>7, ReplyAnswers DEF Ledger!Next
<1>8. ASSUME NEW r \in Requests,
             \/ Call(r) \/ AcquireEntry(r) \/ AdmitRequest(r) \/ LockScheduler(r)
             \/ Schedule(r) \/ Forward(r) \/ DelayElapsed(r)
      PROVE  UNCHANGED Ledger!vars
  <2>1. /\ pc[r] # "gone"
        /\ \E place \in Places \ {"gone"} : Goto(r, place)
        BY <1>8 DEF Call, AcquireEntry, AdmitRequest, LockScheduler, Schedule, Forward,
                    DelayElapsed, AfterPrune, Places, InCriticalSection
  <2>2. UNCHANGED <<now, peers, ticket, ratedAt, reply>>
        BY <1>8 DEF Call, AcquireEntry, AdmitRequest, LockScheduler, Schedule, Forward,
                    DelayElapsed, history
  <2> QED BY <1>1, <1>2, <2>1, <2>2 DEF Goto, TypeOK
<1>9. ASSUME NEW r \in Requests,
             EntryPending(r) \/ PrunePending(r) \/ DelayPending(r) \/ InnerPending(r)
      PROVE  UNCHANGED Ledger!vars
      BY <1>2, <1>9 DEF EntryPending, PrunePending, DelayPending, InnerPending, history
<1> QED BY <1>3, <1>4, <1>5, <1>6, <1>7, <1>8, <1>9 DEF Next, Step

\* The limiter, with its table, locks, futures and workers, implements the
\* ledger that counts and answers the visits of each peer one at a time.
THEOREM LimiterImplementsLedger == Spec => ImplementsLedger
<1>1. Spec => []Ledgered
      BY LedgeredInvariant
<1> QED BY <1>1, LedgerInit, LedgerNext, PTL DEF Spec, ImplementsLedger, Ledger!Spec
=============================================================================
