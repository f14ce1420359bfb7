------------------------------ MODULE NailRater ------------------------------
(***************************************************************************)
(* The rate limiter of crates/nailrater: NailRater::call, the hand-written *)
(* future NailedResponseFuture that every request of every worker runs,    *)
(* the table PEERS they share (scc::HashMap, one lock per bucket), and the *)
(* Scheduler that lets one request in a PEER_TIMEOUT window also sweep the *)
(* table.                                                                  *)
(*                                                                         *)
(* A worker is one thread with a current-thread runtime: it polls one      *)
(* request at a time, and a request leaves the worker only where its poll  *)
(* returns Pending.  Workers run in parallel, so the steps of a poll on    *)
(* one worker interleave with those of the others.                         *)
(***************************************************************************)
EXTENDS Naturals, FiniteSets, LimitModes

CONSTANTS
  Workers,      \* the worker threads of nailrt::start
  Requests,     \* the requests that may arrive
  Peers,        \* values of IdentifiedPeer
  Buckets,      \* the buckets of the scc::HashMap
  BucketOf,     \* the bucket a peer's key hashes to
  PeerTimeout,  \* PEER_TIMEOUT, in ticks
  Config,       \* the [rate_limiting] section
  Payloads,     \* the payload kinds that were loaded, {} when there are none
  Headers,      \* the sets of codings an Accept-Encoding header may name
  Unidentified, \* the requests that may carry no IdentifiedPeer extension
  MaxTime,      \* bound: the clock stops there once nobody sleeps
  Nobody,       \* no request
  NoRecord,     \* no entry in PEERS
  NoInstant,    \* None of an Option<Instant>
  NoKind        \* None of an Option<SpicyPayloadKind>

Kinds == {"Gz", "Brotli"}

ASSUME ConfigAssumption   == Config \in RateLimitingConfigs
ASSUME TimeoutAssumption  == PeerTimeout \in Nat \ {0} /\ MaxTime \in Nat
ASSUME TableAssumption    == BucketOf \in [Peers -> Buckets]
ASSUME PayloadAssumption  == Payloads \subseteq Kinds
ASSUME RequestAssumption  == /\ Unidentified \subseteq Requests
                             /\ Headers \subseteq SUBSET {"gzip", "br"}
ASSUME AbsentAssumption   ==
  /\ Nobody \notin Requests
  /\ NoInstant \notin Nat
  /\ NoKind \notin Kinds
  /\ NoRecord \notin [count : Nat, state : PeerStates, last_seen : Nat,
                      supports_spicy : Kinds \cup {NoKind}]

Mode == ModeOf(Config)

\* PeerRecord.
Records == [count : Nat, state : PeerStates, last_seen : Nat,
            supports_spicy : Kinds \cup {NoKind}]

Replies == [code : {"None", "Inner", "Dropped", "Error"}, kind : {NoKind}]
           \cup [code : {"Spicy"}, kind : Kinds]
Reply(code) == [code |-> code, kind |-> NoKind]
NoReply == Reply("None")

\* SpicyPayloadKind::accepts_encoding, on the set of codings the first
\* Accept-Encoding header contains; the code looks for substrings, "br" first.
AcceptsEncoding(named) ==
  IF "br" \in named THEN "Brotli" ELSE IF "gzip" \in named THEN "Gz" ELSE NoKind

VARIABLES
  now,       \* the monotonic clock behind Instant::now
  peers,     \* PEERS: the record of each peer, or NoRecord
  owner,     \* the request that holds the lock of each bucket
  window,    \* Scheduler.value
  mutex,     \* the request that holds the Scheduler's mutex
  running,   \* the request each worker is polling
  pc,        \* where each request's future stands
  worker,    \* the worker whose runtime owns the request
  peer,      \* the IdentifiedPeer of the request
  codings,   \* the codings its Accept-Encoding header names
  deadline,  \* when the Sleep of a delayed request elapses
  sweep,     \* the buckets the request's prune has still to visit
  reply,     \* the response it was answered with
  \* What follows is history, read by properties only.
  ticket,    \* the count the request was rated with, 0 before
  ratedAt,   \* when it was rated
  visits,    \* the requests rated since the peer was last forgotten
  pruneAt    \* when it was given a prune to run, NoInstant if it was not

request == <<worker, peer, codings>>
history == <<ticket, ratedAt, visits, pruneAt>>
vars == <<now, peers, owner, window, mutex, running, pc, request, deadline,
          sweep, reply, history>>

(***************************************************************************)
(* The places of a request.  RatePeer waits at "entry"; the places from    *)
(* "vacant" to "forward" lie inside one poll, under the bucket's lock;     *)
(* "prune", "delay" and "pass" are the states of NailedNormalFuture.       *)
(***************************************************************************)
InCriticalSection == {"vacant", "occupied", "decide", "schedule", "locked", "forward"}
Places == {"new", "entry", "prune", "delay", "pass", "done", "gone"} \cup InCriticalSection

TypeOK ==
  /\ now \in Nat
  /\ peers \in [Peers -> Records \cup {NoRecord}]
  /\ owner \in [Buckets -> Requests \cup {Nobody}]
  /\ window \in Nat \cup {NoInstant}
  /\ mutex \in Requests \cup {Nobody}
  /\ running \in [Workers -> Requests \cup {Nobody}]
  /\ pc \in [Requests -> Places]
  /\ worker \in [Requests -> Workers]
  /\ peer \in [Requests -> Peers]
  /\ codings \in [Requests -> Headers]
  /\ deadline \in [Requests -> Nat \cup {NoInstant}]
  /\ sweep \in [Requests -> SUBSET Buckets]
  /\ reply \in [Requests -> Replies]
  /\ ticket \in [Requests -> Nat]
  /\ ratedAt \in [Requests -> Nat]
  /\ visits \in [Peers -> SUBSET Requests]
  /\ pruneAt \in [Requests -> Nat \cup {NoInstant}]

Init ==
  /\ now = 0
  /\ peers = [p \in Peers |-> NoRecord]
  /\ owner = [b \in Buckets |-> Nobody]
  /\ window = NoInstant
  /\ mutex = Nobody
  /\ running = [w \in Workers |-> Nobody]
  /\ pc = [r \in Requests |-> "new"]
  /\ worker \in [Requests -> Workers]
  /\ peer \in [Requests -> Peers]
  /\ codings \in [Requests -> Headers]
  /\ deadline = [r \in Requests |-> NoInstant]
  /\ sweep = [r \in Requests |-> {}]
  /\ reply = [r \in Requests |-> NoReply]
  /\ ticket = [r \in Requests |-> 0]
  /\ ratedAt = [r \in Requests |-> 0]
  /\ visits = [p \in Peers |-> {}]
  /\ pruneAt = [r \in Requests |-> NoInstant]

-----------------------------------------------------------------------------
(***************************************************************************)
(* The worker that polls.                                                  *)
(***************************************************************************)
Bucket(r) == BucketOf[peer[r]]
Idle(r)    == running[worker[r]] = Nobody
Polling(r) == running[worker[r]] = r

\* The worker goes on polling r, or picks it up.
Poll(r) ==
  /\ Idle(r) \/ Polling(r)
  /\ running' = [running EXCEPT ![worker[r]] = r]

\* The poll of r returns, Pending or Ready.
Return(r) == running' = [running EXCEPT ![worker[r]] = Nobody]

Goto(r, place) == pc' = [pc EXCEPT ![r] = place]

\* `peer`, the OccupiedEntry that keeps the bucket locked, is dropped.
ReleaseBucket(r) == owner' = [owner EXCEPT ![Bucket(r)] = Nobody]

\* NailRater::call for a request without an IdentifiedPeer, and the poll of
\* the NailedOtherState::Error it returns.
CallUnidentified(r) ==
  /\ pc[r] = "new" /\ r \in Unidentified /\ Idle(r)
  /\ reply' = [reply EXCEPT ![r] = Reply("Error")]
  /\ Goto(r, "done")
  /\ UNCHANGED <<now, peers, owner, window, mutex, running, request,
                 deadline, sweep, history>>

\* NailRater::call: the request waits for its entry in PEERS.
Call(r) ==
  /\ pc[r] = "new" /\ Idle(r)
  /\ Poll(r)
  /\ Goto(r, "entry")
  /\ UNCHANGED <<now, peers, owner, window, mutex, request, deadline, sweep,
                 reply, history>>

\* Slip: the entry is read without waiting for its bucket.
AcquireEntryUnlocked(r) ==
  /\ pc[r] = "entry"
  /\ Poll(r)
  /\ owner' = [owner EXCEPT ![Bucket(r)] = r]
  /\ Goto(r, IF peers[peer[r]] = NoRecord THEN "vacant" ELSE "occupied")
  /\ UNCHANGED <<now, peers, window, mutex, request, deadline, sweep, reply, history>>

\* The entry future is ready: the bucket is locked, and what the table held
\* under the key then decides between and_modify and or_insert_with_key.
AcquireEntry(r) ==
  /\ pc[r] = "entry" /\ owner[Bucket(r)] = Nobody
  /\ Poll(r)
  /\ owner' = [owner EXCEPT ![Bucket(r)] = r]
  /\ Goto(r, IF peers[peer[r]] = NoRecord THEN "vacant" ELSE "occupied")
  /\ UNCHANGED <<now, peers, window, mutex, request, deadline, sweep, reply, history>>

\* Another request holds the bucket: the poll returns Pending.
EntryPending(r) ==
  /\ pc[r] = "entry" /\ Polling(r) /\ owner[Bucket(r)] # Nobody
  /\ Return(r)
  /\ UNCHANGED <<now, peers, owner, window, mutex, pc, request, deadline,
                 sweep, reply, history>>

\* History kept at a rating: the count it gave, the instant, and the visit.
Rated(r, count) ==
  /\ ticket' = [ticket EXCEPT ![r] = count]
  /\ ratedAt' = [ratedAt EXCEPT ![r] = now]
  /\ visits' = [visits EXCEPT ![peer[r]] = @ \cup {r}]
  /\ UNCHANGED pruneAt

\* Slip: the state is computed before the count is incremented.
ModifyPeerLimitFirst(r) ==
  LET count == peers[peer[r]].count + 1
  IN  /\ pc[r] = "occupied"
      /\ peers' = [peers EXCEPT ![peer[r]] =
                     [count |-> count, state |-> Limit(Mode, count - 1), last_seen |-> now,
                      supports_spicy |-> peers[peer[r]].supports_spicy]]
      /\ Rated(r, count)
      /\ Goto(r, "decide")
      /\ UNCHANGED <<now, owner, window, mutex, running, request, deadline, sweep, reply>>

\* Slip: a known peer's last_seen is not refreshed.
ModifyPeerUnseen(r) ==
  LET count == peers[peer[r]].count + 1
  IN  /\ pc[r] = "occupied"
      /\ peers' = [peers EXCEPT ![peer[r]] =
                     [@ EXCEPT !.count = count, !.state = Limit(Mode, count)]]
      /\ Rated(r, count)
      /\ Goto(r, "decide")
      /\ UNCHANGED <<now, owner, window, mutex, running, request, deadline, sweep, reply>>

\* and_modify: one more visit of a known peer.
ModifyPeer(r) ==
  LET count == peers[peer[r]].count + 1
  IN  /\ pc[r] = "occupied"
      /\ peers' = [peers EXCEPT ![peer[r]] =
                     [count |-> count, state |-> Limit(Mode, count), last_seen |-> now,
                      supports_spicy |-> peers[peer[r]].supports_spicy]]
      /\ Rated(r, count)
      /\ Goto(r, "decide")
      /\ UNCHANGED <<now, owner, window, mutex, running, request, deadline, sweep, reply>>

\* or_insert_with_key: the first visit of a peer; only here is its
\* Accept-Encoding looked at.
InsertPeer(r) ==
  /\ pc[r] = "vacant"
  /\ peers' = [peers EXCEPT ![peer[r]] =
                 [count |-> 1, state |-> Limit(Mode, 1), last_seen |-> now,
                  supports_spicy |-> AcceptsEncoding(codings[r])]]
  /\ Rated(r, 1)
  /\ Goto(r, "decide")
  /\ UNCHANGED <<now, owner, window, mutex, running, request, deadline, sweep, reply>>

\* Slip: the recorded coding is served without looking the payload up.
SpicyReplyUnchecked(record) ==
  IF record.state = "SpicyDrop" THEN [code |-> "Spicy", kind |-> record.supports_spicy]
                                ELSE Reply("Dropped")

\* The payload for a peer past the hard limit, or the plain refusal where
\* none was loaded that the peer's record says it supports.
SpicyReply(record) ==
  IF record.state = "SpicyDrop" /\ record.supports_spicy \in Payloads
    THEN [code |-> "Spicy", kind |-> record.supports_spicy]
    ELSE Reply("Dropped")

\* peer.state is Drop or SpicyDrop: the entry is dropped on `continue`, and
\* the loop builds the response before the poll returns.  No prune is
\* scheduled on this path.
DropRequest(r) ==
  /\ pc[r] = "decide" /\ peers[peer[r]].state \in {"Drop", "SpicyDrop"}
  /\ reply' = [reply EXCEPT ![r] = SpicyReply(peers[peer[r]])]
  /\ ReleaseBucket(r)
  /\ Goto(r, "done")
  /\ Return(r)
  /\ UNCHANGED <<now, peers, window, mutex, request, deadline, sweep, history>>

\* peer.state is Ready or Delay; the Sleep counts from here.
AdmitRequest(r) ==
  /\ pc[r] = "decide" /\ peers[peer[r]].state \in {"Ready", "Delay"}
  /\ deadline' = [deadline EXCEPT ![r] =
                    IF peers[peer[r]].state = "Delay" THEN now + Mode.delay ELSE NoInstant]
  /\ Goto(r, "schedule")
  /\ UNCHANGED <<now, peers, owner, window, mutex, running, request, sweep, reply, history>>

\* Scheduler::schedule takes its mutex, with the bucket still locked.
LockScheduler(r) ==
  /\ pc[r] = "schedule" /\ mutex = Nobody
  /\ mutex' = r
  /\ Goto(r, "locked")
  /\ UNCHANGED <<now, peers, owner, window, running, request, deadline, sweep,
                 reply, history>>

\* Slip: the window is not closed by the request that gets the prune.
ScheduleKeepsWindow(r) ==
  LET opened == IF window = NoInstant THEN now ELSE window
      due    == now - opened >= PeerTimeout
  IN  /\ pc[r] = "locked"
      /\ window' = opened
      /\ sweep' = [sweep EXCEPT ![r] = IF due THEN Buckets ELSE {}]
      /\ pruneAt' = [pruneAt EXCEPT ![r] = IF due THEN now ELSE NoInstant]
      /\ mutex' = Nobody
      /\ Goto(r, "forward")
      /\ UNCHANGED <<now, peers, owner, running, request, deadline, reply,
                     ticket, ratedAt, visits>>

\* Slip: the guard outlives the early return.
ScheduleKeepsMutex(r) ==
  LET opened == IF window = NoInstant THEN now ELSE window
      due    == now - opened >= PeerTimeout
  IN  /\ pc[r] = "locked"
      /\ window' = IF due THEN NoInstant ELSE opened
      /\ sweep' = [sweep EXCEPT ![r] = IF due THEN Buckets ELSE {}]
      /\ pruneAt' = [pruneAt EXCEPT ![r] = IF due THEN now ELSE NoInstant]
      /\ mutex' = IF due THEN mutex ELSE Nobody
      /\ Goto(r, "forward")
      /\ UNCHANGED <<now, peers, owner, running, request, deadline, reply,
                     ticket, ratedAt, visits>>

\* The rest of schedule: open the window if it is not, and once PEER_TIMEOUT
\* has passed since, close it and hand the caller a prune.
Schedule(r) ==
  LET opened == IF window = NoInstant THEN now ELSE window
      due    == now - opened >= PeerTimeout
  IN  /\ pc[r] = "locked"
      /\ window' = IF due THEN NoInstant ELSE opened
      /\ sweep' = [sweep EXCEPT ![r] = IF due THEN Buckets ELSE {}]
      /\ pruneAt' = [pruneAt EXCEPT ![r] = IF due THEN now ELSE NoInstant]
      /\ mutex' = Nobody
      /\ Goto(r, "forward")
      /\ UNCHANGED <<now, peers, owner, running, request, deadline, reply,
                     ticket, ratedAt, visits>>

\* NormalState::new, and what NailedNormalFuture goes to after each state.
AfterPrune(r) == IF deadline[r] # NoInstant THEN "delay" ELSE "pass"

\* Slip: the entry lives on in the future's next state.
ForwardHoldingEntry(r) ==
  /\ pc[r] = "forward"
  /\ Goto(r, IF sweep[r] # {} THEN "prune" ELSE AfterPrune(r))
  /\ UNCHANGED <<now, peers, owner, window, mutex, running, request, deadline,
                 sweep, reply, history>>

\* inner.call(req) makes the inner future, without polling it; the entry is
\* dropped at the end of the arm, before the new state is polled.
Forward(r) ==
  /\ pc[r] = "forward"
  /\ ReleaseBucket(r)
  /\ Goto(r, IF sweep[r] # {} THEN "prune" ELSE AfterPrune(r))
  /\ UNCHANGED <<now, peers, window, mutex, running, request, deadline, sweep,
                 reply, history>>

\* Slip: a peer idle for exactly PEER_TIMEOUT is kept.
StaleStrict(p) == peers[p] # NoRecord /\ now - peers[p].last_seen > PeerTimeout

Stale(p) == peers[p] # NoRecord /\ now - peers[p].last_seen >= PeerTimeout

\* Slip: the sweep does not wait for the bucket.
PruneLockedBucket(r, b) ==
  LET forgotten == {p \in Peers : BucketOf[p] = b /\ Stale(p)}
      left      == sweep[r] \ {b}
  IN  /\ pc[r] = "prune" /\ b \in sweep[r]
      /\ Poll(r)
      /\ peers' = [p \in Peers |-> IF p \in forgotten THEN NoRecord ELSE peers[p]]
      /\ visits' = [p \in Peers |-> IF p \in forgotten THEN {} ELSE visits[p]]
      /\ sweep' = [sweep EXCEPT ![r] = left]
      /\ Goto(r, IF left = {} THEN AfterPrune(r) ELSE "prune")
      /\ UNCHANGED <<now, owner, window, mutex, request, deadline, reply,
                     ticket, ratedAt, pruneAt>>

\* retain_async visits one bucket, under that bucket's lock.
PruneBucket(r, b) ==
  LET forgotten == {p \in Peers : BucketOf[p] = b /\ Stale(p)}
      left      == sweep[r] \ {b}
  IN  /\ pc[r] = "prune" /\ b \in sweep[r] /\ owner[b] = Nobody
      /\ Poll(r)
      /\ peers' = [p \in Peers |-> IF p \in forgotten THEN NoRecord ELSE peers[p]]
      /\ visits' = [p \in Peers |-> IF p \in forgotten THEN {} ELSE visits[p]]
      /\ sweep' = [sweep EXCEPT ![r] = left]
      /\ Goto(r, IF left = {} THEN AfterPrune(r) ELSE "prune")
      /\ UNCHANGED <<now, owner, window, mutex, request, deadline, reply,
                     ticket, ratedAt, pruneAt>>

\* retain_async meets a locked bucket: the poll returns Pending.
PrunePending(r) ==
  /\ pc[r] = "prune" /\ Polling(r)
  /\ \E b \in sweep[r] : owner[b] # Nobody
  /\ Return(r)
  /\ UNCHANGED <<now, peers, owner, window, mutex, pc, request, deadline,
                 sweep, reply, history>>

\* Slip: the Sleep is awaited from the wrong end.
DelayElapsedEarly(r) ==
  /\ pc[r] = "delay" /\ now < deadline[r]
  /\ Poll(r)
  /\ Goto(r, "pass")
  /\ UNCHANGED <<now, peers, owner, window, mutex, request, deadline, sweep,
                 reply, history>>

DelayElapsed(r) ==
  /\ pc[r] = "delay" /\ now >= deadline[r]
  /\ Poll(r)
  /\ Goto(r, "pass")
  /\ UNCHANGED <<now, peers, owner, window, mutex, request, deadline, sweep,
                 reply, history>>

DelayPending(r) ==
  /\ pc[r] = "delay" /\ Polling(r) /\ now < deadline[r]
  /\ Return(r)
  /\ UNCHANGED <<now, peers, owner, window, mutex, pc, request, deadline,
                 sweep, reply, history>>

\* The inner service's future answers, or is not ready yet.
Respond(r) ==
  /\ pc[r] = "pass" /\ (Idle(r) \/ Polling(r))
  /\ reply' = [reply EXCEPT ![r] = Reply("Inner")]
  /\ Goto(r, "done")
  /\ Return(r)
  /\ UNCHANGED <<now, peers, owner, window, mutex, request, deadline, sweep, history>>

InnerPending(r) ==
  /\ pc[r] = "pass" /\ Polling(r)
  /\ Return(r)
  /\ UNCHANGED <<now, peers, owner, window, mutex, pc, request, deadline,
                 sweep, reply, history>>

\* The client goes away: the connection drops the future where it waits.
Cancel(r) ==
  /\ pc[r] \in {"entry", "prune", "delay", "pass"} /\ Idle(r)
  /\ Goto(r, "gone")
  /\ UNCHANGED <<now, peers, owner, window, mutex, running, request, deadline,
                 sweep, reply, history>>

\* Time passes at any point, up to MaxTime or the last pending deadline.
Tick ==
  /\ \/ now < MaxTime
     \/ \E r \in Requests : pc[r] = "delay" /\ now < deadline[r]
  /\ now' = now + 1
  /\ UNCHANGED <<peers, owner, window, mutex, running, pc, request, deadline,
                 sweep, reply, history>>

\* What the worker does for a request by itself.
Step(r) ==
  \/ AcquireEntry(r) \/ EntryPending(r)
  \/ ModifyPeer(r) \/ InsertPeer(r)
  \/ DropRequest(r) \/ AdmitRequest(r)
  \/ LockScheduler(r) \/ Schedule(r) \/ Forward(r)
  \/ \E b \in Buckets : PruneBucket(r, b)
  \/ PrunePending(r)
  \/ DelayElapsed(r) \/ DelayPending(r)
  \/ Respond(r) \/ InnerPending(r)

Next ==
  \/ Tick
  \/ \E r \in Requests : Call(r) \/ CallUnidentified(r) \/ Step(r) \/ Cancel(r)

Spec == Init /\ [][Next]_vars

\* A runtime polls a task that was woken, and the clock moves; clients owe
\* neither a request nor a disconnect.
Fairness ==
  /\ WF_vars(Tick)
  /\ \A r \in Requests : WF_vars(Step(r))

FairSpec == Spec /\ Fairness

-----------------------------------------------------------------------------
(***************************************************************************)
(* Safety.                                                                 *)
(***************************************************************************)
Known(p) == peers[p] # NoRecord

\* No lock is held across an await.  A bucket is locked only by a request
\* that its worker is polling, inside the stretch of futures.rs:165-225, and
\* the scheduler's mutex only inside schedule; while a request is in that
\* stretch it does hold its bucket.  A request that waited with its own
\* bucket locked would block the prune it goes on to run.
LocksReleasedOnAwait ==
  /\ \A b \in Buckets : owner[b] # Nobody =>
       /\ pc[owner[b]] \in InCriticalSection
       /\ Bucket(owner[b]) = b
  /\ mutex # Nobody => pc[mutex] = "locked"
  /\ \A r \in Requests :
       /\ pc[r] \in InCriticalSection => owner[Bucket(r)] = r /\ Polling(r)
       /\ pc[r] = "locked" => mutex = r

\* What a request saw under its key when it locked the bucket stays true
\* until it releases it: no prune takes the record from under the entry.
EntryMatchesTable ==
  \A r \in Requests :
    /\ pc[r] = "vacant" => ~ Known(peer[r])
    /\ pc[r] \in InCriticalSection \ {"vacant"} => Known(peer[r])

\* No visit is lost or counted twice, whichever workers the visits are on:
\* the count of a peer is the number of requests rated since it was last
\* forgotten.
CountsEveryVisit ==
  \A p \in Peers : IF Known(p) THEN peers[p].count = Cardinality(visits[p])
                               ELSE visits[p] = {}

\* The requests of a peer that were let through to the inner service since
\* the peer was last forgotten.
Admitted(p) ==
  {r \in visits[p] : \/ pc[r] \in {"schedule", "locked", "forward", "prune",
                                   "delay", "pass", "gone"}
                     \/ reply[r].code = "Inner"}

\* A hard limit is never exceeded: between two times a peer is forgotten at
\* most hard_limit - 1 of its requests (none, if that is 0) reach the generator, however many
\* arrive at once.
AdmissionsWithinLimit ==
  Mode.hard => \A p \in Peers :
    Admitted(p) = {} \/ Cardinality(Admitted(p)) < Mode.hard_limit

\* What the first visits of p asked for, over all the records p has had.
FirstKinds(p) ==
  {AcceptsEncoding(codings[q]) : q \in {q \in Requests : peer[q] = p /\ ticket[q] = 1}}

\* Every answer is the one the visit's own number calls for, whatever the
\* peer's other requests did in between.  A payload is sent only if it was
\* loaded and the peer's first visit asked for its coding, and a plain
\* refusal in spicy mode only if there was none to send.
RepliesObeyLimit ==
  \A r \in Requests :
    LET verdict == Limit(Mode, ticket[r])
    IN  /\ reply[r].code = "Inner" => ticket[r] > 0 /\ verdict \in {"Ready", "Delay"}
        /\ reply[r].code = "Spicy" =>
             /\ ticket[r] > 0 /\ verdict = "SpicyDrop"
             /\ reply[r].kind \in Payloads \cap FirstKinds(peer[r])
        /\ reply[r].code = "Dropped" =>
             /\ ticket[r] > 0
             /\ \/ verdict = "Drop"
                \/ verdict = "SpicyDrop" /\ ~ FirstKinds(peer[r]) \subseteq Payloads
        /\ reply[r].code = "Error" => ticket[r] = 0

\* A sweep leaves no stale record behind it: in a bucket that a prune has
\* visited, every peer was seen less than PEER_TIMEOUT before the prune was
\* scheduled.
SweepForgetsStale ==
  \A r \in Requests, p \in Peers :
    (pruneAt[r] # NoInstant /\ BucketOf[p] \notin sweep[r] /\ Known(p))
      => pruneAt[r] < peers[p].last_seen + PeerTimeout

-----------------------------------------------------------------------------
(***************************************************************************)
(* Action properties.                                                      *)
(***************************************************************************)

\* A peer loses its count only when none of the visits it counts is younger
\* than PEER_TIMEOUT: a client that keeps coming cannot reset itself.
ForgetsOnlyIdle ==
  [][\A p \in Peers : (Known(p) /\ peers'[p] = NoRecord)
       => \A r \in visits[p] : now - ratedAt[r] >= PeerTimeout]_vars

\* At most one request in PEER_TIMEOUT is given a prune to run, whichever
\* workers race for the window.
PruneSpacing ==
  [][\A r, q \in Requests : (pruneAt[r] = NoInstant /\ pruneAt'[r] # NoInstant
                             /\ pruneAt[q] # NoInstant)
       => pruneAt'[r] - pruneAt[q] >= PeerTimeout]_vars

\* defaults/pit.default.toml:75-76 says of the visit count that "This resets
\* if it hasn't received a request from a client in more than two minutes."
\* The code resets it only where a prune happens to run first.
ResetsAfterIdle ==
  [][\A r \in Requests : (ticket[r] = 0 /\ ticket'[r] > 1)
       => \E q \in visits[peer[r]] : now - ratedAt[q] <= PeerTimeout]_vars

-----------------------------------------------------------------------------
(***************************************************************************)
(* Liveness and the abstract ledger.                                       *)
(***************************************************************************)

\* A request whose client stays is answered: bucket, scheduler, sweep and
\* delay never leave it waiting for ever.
EveryRequestAnswered ==
  \A r \in Requests : pc[r] = "entry" ~> pc[r] \in {"done", "gone"}

AnswerOf(r) ==
  CASE pc[r] = "gone"                          -> "Abandoned"
    [] reply[r].code = "Inner"                 -> "Admitted"
    [] reply[r].code \in {"Dropped", "Spicy"}  -> "Refused"
    [] reply[r].code = "Error"                 -> "Error"
    [] OTHER                                   -> "None"

Ledger == INSTANCE PeerLedger WITH
  count  <- [p \in Peers |-> IF Known(p) THEN peers[p].count ELSE 0],
  seen   <- [p \in Peers |-> IF Known(p) THEN peers[p].last_seen ELSE 0],
  at     <- ratedAt,
  answer <- [r \in Requests |-> AnswerOf(r)]

\* The concurrent limiter implements the sequential ledger.
ImplementsLedger == Ledger!Spec
=============================================================================
