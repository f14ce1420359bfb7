---------------------------- MODULE WorkerRuntime ----------------------------
(***************************************************************************)
(* The life of the process: nailrt::start and the threads it scopes,       *)
(* worker_task's retry loop, shutdown_task, main.rs's spawn_axum_worker    *)
(* and nailserve::serve with the connections it accepts.                   *)
(*                                                                         *)
(* Worker 0 is the main thread.  Each worker runs a current-thread         *)
(* runtime: the tasks on it, connections included, move only while the     *)
(* worker is inside block_on, and are dropped when the runtime shuts down. *)
(* A CancellationToken shared by all workers asks them to drain.           *)
(***************************************************************************)
EXTENDS Naturals, FiniteSets

CONSTANTS
  N,            \* the number of workers, the main one included
  Conns,        \* the connections that may arrive
  Faults,       \* the permanent failures an instance may meet
  MaxRetries    \* bound: failures to bind or to accept, over all workers

PermanentFaults == {"main_build", "spawn", "build", "telemetry", "signal"}

ASSUME WorkersAssumption == N \in Nat \ {0}
ASSUME FaultsAssumption  == Faults \subseteq PermanentFaults /\ MaxRetries \in Nat

Main     == 0
Workers  == 0 .. N - 1
Spawned  == 1 .. N - 1

VARIABLES
  main,      \* how far nailrt::start has come
  outcome,   \* what it will return
  token,     \* the CancellationToken: TRUE once cancelled
  signal,    \* the task that waits for ctrl-c or SIGTERM
  telemetry, \* the OtelGuard, whose drop flushes logs and traces
  thread,    \* where each worker stands in its loop
  conn,      \* what became of each connection
  host,      \* the worker that accepted it
  orphan,    \* the connections whose serve() ended without waiting for them
  retries    \* how often a bind or an accept has failed

vars == <<main, outcome, token, signal, telemetry, thread, conn, host, orphan, retries>>

MainPlaces == {"build", "spawning", "serving", "joining", "exited"}
Looping == {"bind", "serve", "drain", "backoff"}
ThreadPlaces == {"none", "build", "stopped", "abandoned", "ended"} \cup Looping

TypeOK ==
  /\ main \in MainPlaces
  /\ outcome \in {"none", "ok", "err"}
  /\ token \in BOOLEAN
  /\ signal \in {"waiting", "received", "failed"}
  /\ telemetry \in {"off", "failed", "on", "closing", "closed", "lost"}
  /\ thread \in [Workers -> ThreadPlaces]
  /\ conn \in [Conns -> {"none", "open", "closed", "cut"}]
  /\ host \in [Conns -> Workers]
  /\ orphan \in SUBSET Conns
  /\ retries \in 0 .. MaxRetries

Init ==
  /\ main = "build" /\ outcome = "none"
  /\ token = FALSE
  /\ signal = "waiting"
  /\ telemetry = "off"
  /\ thread = [w \in Workers |-> "none"]
  /\ conn = [c \in Conns |-> "none"]
  /\ host = [c \in Conns |-> Main]
  /\ orphan = {}
  /\ retries = 0

Goto(w, place) == thread' = [thread EXCEPT ![w] = place]

\* The worker's runtime is inside block_on and polls its tasks: the main one
\* for as long as try_join waits for the worker or the shutdown task, another
\* until its worker_task returns.
Polled(w) == IF w = Main THEN main = "serving" ELSE thread[w] \in Looping

OpenOn(w) == {c \in Conns : conn[c] = "open" /\ host[c] = w}

\* A runtime that shuts down drops the tasks it still has.
Cut(lost) == conn' = [c \in Conns |-> IF c \in lost THEN "cut" ELSE conn[c]]

-----------------------------------------------------------------------------
(***************************************************************************)
(* nailrt::start.                                                          *)
(***************************************************************************)

\* The main runtime is built before anything else, or start returns.
BuildMain ==
  /\ main = "build" /\ main' = "spawning"
  /\ UNCHANGED <<outcome, token, signal, telemetry, thread, conn, host, orphan, retries>>

BuildMainFails ==
  /\ main = "build" /\ "main_build" \in Faults
  /\ main' = "exited" /\ outcome' = "err"
  /\ UNCHANGED <<token, signal, telemetry, thread, conn, host, orphan, retries>>

\* The threads are spawned in order.
NextToSpawn(w) ==
  /\ main = "spawning" /\ w \in Spawned /\ thread[w] = "none"
  /\ \A v \in Spawned : v < w => thread[v] # "none"

SpawnWorker(w) ==
  /\ NextToSpawn(w)
  /\ Goto(w, "build")
  /\ UNCHANGED <<main, outcome, token, signal, telemetry, conn, host, orphan, retries>>

\* Slip: the spawn error leaves the token as it is.
SpawnFailsUncancelled(w) ==
  /\ NextToSpawn(w) /\ "spawn" \in Faults
  /\ main' = "joining" /\ outcome' = "err"
  /\ UNCHANGED <<token, signal, telemetry, thread, conn, host, orphan, retries>>

\* A thread that cannot be spawned cancels the token and leaves the scope's
\* closure; the scope waits for the threads there are.
SpawnFails(w) ==
  /\ NextToSpawn(w) /\ "spawn" \in Faults
  /\ token' = TRUE
  /\ main' = "joining" /\ outcome' = "err"
  /\ UNCHANGED <<signal, telemetry, thread, conn, host, orphan, retries>>

\* block_on: telemetry first, then worker 0 beside the shutdown task.
StartMain ==
  /\ main = "spawning" /\ \A w \in Spawned : thread[w] # "none"
  /\ main' = "serving"
  /\ telemetry' = "on"
  /\ Goto(Main, "bind")
  /\ UNCHANGED <<outcome, token, signal, conn, host, orphan, retries>>

\* init_telemetry's error leaves block_on and the closure; the token is left
\* as it is.
TelemetryFails ==
  /\ main = "spawning" /\ \A w \in Spawned : thread[w] # "none"
  /\ "telemetry" \in Faults
  /\ telemetry' = "failed"
  /\ main' = "joining" /\ outcome' = "err"
  /\ UNCHANGED <<token, signal, thread, conn, host, orphan, retries>>

\* Slip: telemetry is shut down with the signal, before the pages are done.
SignalArrivesClosing ==
  /\ main = "serving" /\ signal = "waiting"
  /\ signal' = "received" /\ token' = TRUE
  /\ telemetry' = "closing"
  /\ UNCHANGED <<main, outcome, thread, conn, host, orphan, retries>>

\* Slip: the guard is not dropped.
SignalArrivesUnheard ==
  /\ main = "serving" /\ signal = "waiting"
  /\ signal' = "received"
  /\ UNCHANGED <<main, outcome, token, telemetry, thread, conn, host, orphan, retries>>

\* shutdown_task: a signal drops the guard, which cancels the token.
SignalArrives ==
  /\ main = "serving" /\ signal = "waiting"
  /\ signal' = "received" /\ token' = TRUE
  /\ UNCHANGED <<main, outcome, telemetry, thread, conn, host, orphan, retries>>

\* The handlers cannot be installed: the guard is dropped all the same,
\* try_join drops worker 0 where it stands, and block_on its telemetry.
SignalSetupFails ==
  /\ main = "serving" /\ signal = "waiting" /\ "signal" \in Faults
  /\ signal' = "failed" /\ token' = TRUE
  /\ main' = "joining" /\ outcome' = "err"
  /\ telemetry' = "closed"
  /\ Goto(Main, IF thread[Main] = "stopped" THEN "stopped" ELSE "abandoned")
  /\ UNCHANGED <<conn, host, orphan, retries>>

\* Both futures of try_join are done; a blocking task drops the telemetry.
MainDone ==
  /\ main = "serving" /\ thread[Main] = "stopped" /\ signal = "received"
  /\ main' = "joining" /\ outcome' = "ok"
  /\ telemetry' = "closing"
  /\ UNCHANGED <<token, signal, thread, conn, host, orphan, retries>>

\* Slip: the threads are not scoped, so nobody joins them.
ScopeEndsUnjoined ==
  /\ main = "joining"
  /\ main' = "exited"
  /\ telemetry' = IF telemetry = "closing" THEN "lost" ELSE telemetry
  /\ Cut(OpenOn(Main))
  /\ UNCHANGED <<outcome, token, signal, thread, host, orphan, retries>>

\* The scope has joined its threads; the main runtime is shut down, or
\* dropped where start returns an error.  shutdown_timeout waits a minute for
\* the blocking task: what is not flushed by then is lost.
ScopeEnds ==
  /\ main = "joining" /\ \A w \in Spawned : thread[w] \in {"none", "ended"}
  /\ main' = "exited"
  /\ telemetry' = IF telemetry = "closing" THEN "lost" ELSE telemetry
  /\ Cut(OpenOn(Main))
  /\ UNCHANGED <<outcome, token, signal, thread, host, orphan, retries>>

\* OtelGuard::drop, on a thread of its own.
TelemetryClosed ==
  /\ telemetry = "closing" /\ main # "exited"
  /\ telemetry' = "closed"
  /\ UNCHANGED <<main, outcome, token, signal, thread, conn, host, orphan, retries>>

-----------------------------------------------------------------------------
(***************************************************************************)
(* A worker.                                                               *)
(***************************************************************************)
BuildWorker(w) ==
  /\ w \in Spawned /\ thread[w] = "build"
  /\ Goto(w, "bind")
  /\ UNCHANGED <<main, outcome, token, signal, telemetry, conn, host, orphan, retries>>

\* The runtime of a spawned thread cannot be built: it cancels the token and
\* ends.
BuildWorkerFails(w) ==
  /\ w \in Spawned /\ thread[w] = "build" /\ "build" \in Faults
  /\ token' = TRUE
  /\ Goto(w, "ended")
  /\ UNCHANGED <<main, outcome, signal, telemetry, conn, host, orphan, retries>>

\* spawn_axum_worker: a listener of its own, then a task that serves.
Bind(w) ==
  /\ Polled(w) /\ thread[w] = "bind"
  /\ Goto(w, "serve")
  /\ UNCHANGED <<main, outcome, token, signal, telemetry, conn, host, orphan, retries>>

\* Slip: worker_task gives up when its listener cannot be bound.
BindFailsForGood(w) ==
  /\ Polled(w) /\ thread[w] = "bind" /\ retries < MaxRetries
  /\ retries' = retries + 1
  /\ Goto(w, "stopped")
  /\ UNCHANGED <<main, outcome, token, signal, telemetry, conn, host, orphan>>

\* The socket cannot be opened, bound or listened on; worker_task retries.
BindFails(w) ==
  /\ Polled(w) /\ thread[w] = "bind" /\ retries < MaxRetries
  /\ retries' = retries + 1
  /\ Goto(w, "backoff")
  /\ UNCHANGED <<main, outcome, token, signal, telemetry, conn, host, orphan>>

\* server_loop.  race may poll it before cancel_loop, so a connection can
\* still come in once the token is cancelled.
Accept(w, c) ==
  /\ Polled(w) /\ thread[w] = "serve" /\ conn[c] = "none"
  /\ conn' = [conn EXCEPT ![c] = "open"]
  /\ host' = [host EXCEPT ![c] = w]
  /\ UNCHANGED <<main, outcome, token, signal, telemetry, thread, orphan, retries>>

\* Slip: worker_task gives up on an error.
AcceptFailsForGood(w) ==
  /\ Polled(w) /\ thread[w] = "serve" /\ retries < MaxRetries
  /\ retries' = retries + 1
  /\ orphan' = orphan \cup OpenOn(w)
  /\ Goto(w, "stopped")
  /\ UNCHANGED <<main, outcome, token, signal, telemetry, conn, host>>

\* accept's error leaves serve() before graceful.shutdown(): nobody waits
\* for the connections it had.
AcceptFails(w) ==
  /\ Polled(w) /\ thread[w] = "serve" /\ retries < MaxRetries
  /\ retries' = retries + 1
  /\ orphan' = orphan \cup OpenOn(w)
  /\ Goto(w, "backoff")
  /\ UNCHANGED <<main, outcome, token, signal, telemetry, conn, host>>

\* cancel_loop wins the race.
NoticeCancel(w) ==
  /\ Polled(w) /\ thread[w] = "serve" /\ token
  /\ Goto(w, "drain")
  /\ UNCHANGED <<main, outcome, token, signal, telemetry, conn, host, orphan, retries>>

\* Slip: serve() returns without awaiting graceful.shutdown().
DrainedAtOnce(w) ==
  /\ Polled(w) /\ thread[w] = "drain"
  /\ Goto(w, "stopped")
  /\ UNCHANGED <<main, outcome, token, signal, telemetry, conn, host, orphan, retries>>

\* graceful.shutdown() waits for every connection it watches; serve() and
\* with it worker_task return Ok.
Drained(w) ==
  /\ Polled(w) /\ thread[w] = "drain" /\ OpenOn(w) \subseteq orphan
  /\ Goto(w, "stopped")
  /\ UNCHANGED <<main, outcome, token, signal, telemetry, conn, host, orphan, retries>>

\* worker_task tries again after a second, cancelled or not.
Retry(w) ==
  /\ Polled(w) /\ thread[w] = "backoff"
  /\ Goto(w, "bind")
  /\ UNCHANGED <<main, outcome, token, signal, telemetry, conn, host, orphan, retries>>

\* A connection has sent its last response and closes.
Close(c) ==
  /\ conn[c] = "open" /\ Polled(host[c])
  /\ conn' = [conn EXCEPT ![c] = "closed"]
  /\ UNCHANGED <<main, outcome, token, signal, telemetry, thread, host, orphan, retries>>

\* A spawned worker's runtime is shut down and its thread ends.
EndThread(w) ==
  /\ w \in Spawned /\ thread[w] = "stopped"
  /\ Goto(w, "ended")
  /\ Cut(OpenOn(w))
  /\ UNCHANGED <<main, outcome, token, signal, telemetry, host, orphan, retries>>

-----------------------------------------------------------------------------
Start ==
  \/ BuildMain \/ BuildMainFails
  \/ \E w \in Spawned : SpawnWorker(w) \/ SpawnFails(w)
  \/ StartMain \/ TelemetryFails
  \/ MainDone \/ ScopeEnds \/ TelemetryClosed

\* What a worker does by itself.
Work(w) ==
  \/ BuildWorker(w) \/ BuildWorkerFails(w)
  \/ Bind(w) \/ BindFails(w)
  \/ NoticeCancel(w) \/ Drained(w) \/ Retry(w)
  \/ EndThread(w)

Next ==
  \/ Start
  \/ SignalArrives \/ SignalSetupFails
  \/ \E w \in Workers : Work(w) \/ AcceptFails(w)
  \/ \E w \in Workers, c \in Conns : Accept(w, c)
  \/ \E c \in Conns : Close(c)

Spec == Init /\ [][Next]_vars

\* Threads run and connections end: a client reads what it is sent, and the
\* generated streams are bounded in size or time.  Nothing else is owed: no
\* client, no signal and no failing accept has to come.
Fairness ==
  /\ WF_vars(Start)
  /\ \A w \in Workers : WF_vars(Work(w))
  /\ \A c \in Conns : WF_vars(Close(c))

FairSpec == Spec /\ Fairness

-----------------------------------------------------------------------------
(***************************************************************************)
(* Properties.                                                             *)
(***************************************************************************)

\* Once start has returned nothing is left behind: no thread is alive and no
\* connection is open.
ExitIsQuiet ==
  main = "exited" =>
    /\ \A w \in Spawned : thread[w] \in {"none", "ended"}
    /\ \A c \in Conns : conn[c] # "open"

\* A shutdown breaks no connection that serve() still watches: what a
\* runtime cuts was orphaned by an accept error before, or ran on the main
\* worker when the signal handlers could not be installed.
OnlyOrphansCut ==
  \A c \in Conns : conn[c] = "cut" =>
    c \in orphan \/ (host[c] = Main /\ thread[Main] = "abandoned")

\* A worker never gives up by itself: it drains and ends only after the
\* token was cancelled, and that takes a signal or a failure to start.
StopsOnlyWhenTold ==
  /\ \A w \in Workers : thread[w] \in {"drain", "stopped", "ended"} => token
  /\ token => \/ signal # "waiting"
              \/ "spawn" \in Faults /\ outcome = "err"
              \/ "build" \in Faults /\ \E w \in Spawned : thread[w] = "ended"

\* A signal ends the process, whatever binds and accepts failed before.
ShutdownCompletes == signal = "received" ~> main = "exited"

\* A start that fails ends the process: for a thread that cannot be spawned
\* and for signal handlers that cannot be installed it does.
FailedStartExits ==
  main = "joining" /\ outcome = "err" /\ telemetry # "failed" ~> main = "exited"

\* nailrt/src/lib.rs:51 says more: "Main worker MUST start, else we just error
\* out."  When the telemetry of the main worker cannot be set up, start waits
\* in its scope for workers that nobody has told to stop.
TelemetryFailureExits == telemetry = "failed" ~> main = "exited"

\* Telemetry outlives what the main worker serves: it is shut down only when
\* no connection is left there that shutdown waits for, and by the time start
\* returns it has been told to flush.
TelemetryOutlivesMain ==
  /\ telemetry \in {"closing", "closed", "lost"} =>
       OpenOn(Main) \subseteq orphan \/ thread[Main] = "abandoned"
  /\ main = "exited" => telemetry \notin {"on", "closing"}

\* A worker whose listener cannot be bound comes to serve in the end, unless
\* start gives it up.
WorkersServe ==
  \A w \in Workers : thread[w] = "bind" ~> thread[w] \in {"serve", "abandoned"}

\* nailrt/src/lib.rs:69-71 says that if a worker thread's runtime cannot be
\* created "this will also terminate the program".  The code cancels the
\* token, but the main thread waits on for a signal.
BuildFailureExits ==
  (\E w \in Spawned : thread[w] = "ended" /\ signal = "waiting") ~> main = "exited"
=============================================================================
