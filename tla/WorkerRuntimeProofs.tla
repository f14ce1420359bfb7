------------------------ MODULE WorkerRuntimeProofs ------------------------
(***************************************************************************)
(* Proofs about WorkerRuntime, for any number of workers, connections,     *)
(* failures and retries.                                                   *)
(***************************************************************************)
EXTENDS WorkerRuntime, TLAPS

\* The main thread is a worker.
LEMMA MainIsWorker ==
  /\ Main \in Workers /\ Spawned \subseteq Workers
  /\ Workers = Spawned \cup {Main} /\ Main \notin Spawned
BY WorkersAssumption DEF Main, Workers, Spawned

\* Cutting connections keeps their type.
LEMMA CutType ==
  ASSUME NEW lost, Cut(lost), conn \in [Conns -> {"none", "open", "closed", "cut"}]
  PROVE  conn' \in [Conns -> {"none", "open", "closed", "cut"}]
BY DEF Cut

\* Initially the types are right.
LEMMA TypeOKInit == Init => TypeOK
<1> SUFFICES ASSUME Init PROVE TypeOK
    OBVIOUS
<1>1. retries \in 0 .. MaxRetries
      BY FaultsAssumption DEF Init
<1>2. thread \in [Workers -> ThreadPlaces] /\ host \in [Conns -> Workers]
      BY MainIsWorker DEF Init, ThreadPlaces
<1> QED BY <1>1, <1>2 DEF Init, TypeOK, MainPlaces

\* Every step keeps the types.
LEMMA TypeOKNext == TypeOK /\ [Next]_vars => TypeOK'
<1> SUFFICES ASSUME TypeOK, [Next]_vars PROVE TypeOK'
    OBVIOUS
<1> USE MainIsWorker DEF TypeOK, MainPlaces, ThreadPlaces, Looping, Goto
<1>1. CASE BuildMain \/ BuildMainFails \/ StartMain \/ TelemetryFails \/ MainDone \/ TelemetryClosed
      BY <1>1 DEF BuildMain, BuildMainFails, StartMain, TelemetryFails, MainDone, TelemetryClosed
<1>2. ASSUME NEW w \in Spawned, SpawnWorker(w) \/ SpawnFails(w) PROVE TypeOK'
  <2>1. CASE SpawnWorker(w)
        BY <2>1 DEF SpawnWorker
  <2>2. CASE SpawnFails(w)
        BY <2>2 DEF SpawnFails
  <2> QED BY <1>2, <2>1, <2>2
<1>3. CASE ScopeEnds
      BY <1>3, CutType DEF ScopeEnds
<1>4. CASE SignalArrives \/ SignalSetupFails
      BY <1>4 DEF SignalArrives, SignalSetupFails
<1>5. ASSUME NEW w \in Workers, Work(w) \/ AcceptFails(w) PROVE TypeOK'
  <2>1. CASE EndThread(w)
        BY <2>1, CutType DEF EndThread
  <2>2. CASE BindFails(w) \/ AcceptFails(w)
    <3>1. retries' \in 0 .. MaxRetries
          BY <2>2, FaultsAssumption DEF BindFails, AcceptFails
    <3>2. orphan' \in SUBSET Conns
          BY <2>2 DEF BindFails, AcceptFails, OpenOn
    <3> QED BY <2>2, <3>1, <3>2 DEF BindFails, AcceptFails
  <2>3. CASE BuildWorker(w)
        BY <2>3 DEF BuildWorker
  <2>4. CASE BuildWorkerFails(w)
        BY <2>4 DEF BuildWorkerFails
  <2>5. CASE Bind(w)
        BY <2>5 DEF Bind
  <2>6. CASE NoticeCancel(w)
        BY <2>6 DEF NoticeCancel
  <2>7. CASE Drained(w)
        BY <2>7 DEF Drained
  <2>8. CASE Retry(w)
        BY <2>8 DEF Retry
  <2> QED BY <1>5, <2>1, <2>2, <2>3, <2>4, <2>5, <2>6, <2>7, <2>8 DEF Work
<1>6. ASSUME NEW w \in Workers, NEW c \in Conns, Accept(w, c) PROVE TypeOK'
      BY <1>6 DEF Accept
<1>7. ASSUME NEW c \in Conns, Close(c) PROVE TypeOK'
      BY <1>7 DEF Close
<1>8. CASE UNCHANGED vars
      BY <1>8 DEF vars
<1> QED BY <1>1, <1>2, <1>3, <1>4, <1>5, <1>6, <1>7, <1>8 DEF Next, Start

\* The process is well typed.
THEOREM Typed == Spec => []TypeOK
BY TypeOKInit, TypeOKNext, PTL DEF Spec

-----------------------------------------------------------------------------
(***************************************************************************)
(* Where connections can be, as threads and main move on.                  *)
(***************************************************************************)
NoThreadsYet == main = "build" => \A w \in Workers : thread[w] = "none"

MainThread ==
  /\ main \in {"build", "spawning"} => thread[Main] = "none"
  /\ main = "joining" => thread[Main] \in {"none", "stopped", "abandoned"}

ConnectionsHaveHosts ==
  \A c \in Conns : conn[c] = "open" =>
    /\ thread[host[c]] \notin {"none", "build", "ended"}
    /\ host[c] = Main => main \in {"serving", "joining"}

StoppedIsDrained ==
  \A c \in Conns : conn[c] = "open" /\ thread[host[c]] = "stopped" => c \in orphan

Quiet ==
  /\ TypeOK
  /\ NoThreadsYet
  /\ MainThread
  /\ ConnectionsHaveHosts
  /\ ExitIsQuiet
  /\ StoppedIsDrained
  /\ OnlyOrphansCut

\* Initially there is nothing.
LEMMA QuietInit == Init => Quiet
BY TypeOKInit, MainIsWorker DEF Init, Quiet, NoThreadsYet, MainThread, ConnectionsHaveHosts,
   ExitIsQuiet, StoppedIsDrained, OnlyOrphansCut

\* Every step keeps connections on live threads, and cuts only orphans.
LEMMA QuietNext == Quiet /\ [Next]_vars => Quiet'
<1> SUFFICES ASSUME Quiet, [Next]_vars PROVE Quiet'
    OBVIOUS
<1> USE DEF NoThreadsYet, MainThread, ConnectionsHaveHosts, ExitIsQuiet,
        StoppedIsDrained, OnlyOrphansCut
<1>1. /\ Main \in Workers /\ Spawned \subseteq Workers
      /\ Workers = Spawned \cup {Main} /\ Main \notin Spawned
      BY MainIsWorker
<1>2. TypeOK /\ TypeOK'
      BY TypeOKNext DEF Quiet
<1>3. \A c \in Conns : host[c] \in Workers
      BY <1>2 DEF TypeOK
<1> USE <1>1, <1>2, <1>3 DEF Quiet
<1>4. CASE BuildMain \/ BuildMainFails \/ StartMain \/ TelemetryFails \/ MainDone \/ TelemetryClosed
      BY <1>4 DEF BuildMain, BuildMainFails, StartMain, TelemetryFails, MainDone, TelemetryClosed, Goto, TypeOK
<1>5. ASSUME NEW w \in Spawned, SpawnWorker(w) \/ SpawnFails(w) PROVE Quiet'
      BY <1>5 DEF SpawnWorker, SpawnFails, NextToSpawn, Goto, TypeOK
<1>6. CASE ScopeEnds
  <2>1. \A c \in Conns : /\ conn'[c] = "cut" => conn[c] = "cut" \/ (conn[c] = "open" /\ host[c] = Main)
                         /\ conn'[c] = "open" => conn[c] = "open" /\ host[c] # Main
        BY <1>6 DEF ScopeEnds, Cut, OpenOn, TypeOK
  <2>2. \A c \in Conns : conn[c] = "open" => host[c] = Main
        BY <1>6 DEF ScopeEnds
  <2> QED BY <1>6, <2>1, <2>2 DEF ScopeEnds
<1>7. CASE SignalArrives \/ SignalSetupFails
      BY <1>7 DEF SignalArrives, SignalSetupFails, Goto, TypeOK
<1>8. ASSUME NEW w \in Workers, Work(w) \/ AcceptFails(w) PROVE Quiet'
  <2>1. CASE EndThread(w)
    <3>1. \A c \in Conns : /\ conn'[c] = "cut" => conn[c] = "cut" \/ (conn[c] = "open" /\ host[c] = w)
                           /\ conn'[c] = "open" => conn[c] = "open" /\ host[c] # w
          BY <2>1 DEF EndThread, Cut, OpenOn, TypeOK
    <3>2. w \in Spawned /\ thread[w] = "stopped" /\ thread' = [thread EXCEPT ![w] = "ended"]
          /\ UNCHANGED <<main, host, orphan>>
          BY <2>1 DEF EndThread, Goto
    <3> QED BY <3>1, <3>2 DEF TypeOK
  <2>2. CASE BuildWorker(w) \/ BuildWorkerFails(w)
        BY <2>2 DEF BuildWorker, BuildWorkerFails, Goto, TypeOK
  <2>3. CASE Bind(w) \/ BindFails(w) \/ NoticeCancel(w) \/ Retry(w)
        BY <2>3 DEF Bind, BindFails, NoticeCancel, Retry, Polled, Looping, Goto, TypeOK
  <2>4. CASE AcceptFails(w)
        BY <2>4 DEF AcceptFails, OpenOn, Polled, Looping, Goto, TypeOK
  <2>5. CASE Drained(w)
        BY <2>5 DEF Drained, OpenOn, Polled, Looping, Goto, TypeOK
  <2> QED BY <1>8, <2>1, <2>2, <2>3, <2>4, <2>5 DEF Work
<1>9. ASSUME NEW w \in Workers, NEW c \in Conns, Accept(w, c) PROVE Quiet'
      BY <1>9 DEF Accept, Polled, Looping, TypeOK
<1>10. ASSUME NEW c \in Conns, Close(c) PROVE Quiet'
      BY <1>10 DEF Close, TypeOK
<1>11. CASE UNCHANGED vars
      BY <1>11 DEF vars
<1> QED BY <1>4, <1>5, <1>6, <1>7, <1>8, <1>9, <1>10, <1>11 DEF Next, Start

\* The inductive invariant of the process.
LEMMA QuietInvariant == Spec => []Quiet
BY QuietInit, QuietNext, PTL DEF Spec

\* When start has returned no thread is alive and no connection is open.
THEOREM ExitsQuietly == Spec => []ExitIsQuiet
BY QuietInvariant, PTL DEF Quiet

\* A shutdown cuts no connection that serve() still watches.
THEOREM CutsOnlyOrphans == Spec => []OnlyOrphansCut
BY QuietInvariant, PTL DEF Quiet

-----------------------------------------------------------------------------
(***************************************************************************)
(* Telemetry follows the main thread.                                      *)
(***************************************************************************)
TelemetryFollowsMain ==
  /\ main \in {"build", "spawning"} => telemetry = "off"
  /\ main = "serving" => telemetry = "on"
  /\ main = "joining" => telemetry # "on"
  /\ main = "exited" => telemetry \notin {"on", "closing"}
  /\ telemetry \in {"closing", "closed", "lost"} => thread[Main] \in {"stopped", "abandoned"}

\* A worker that stopped or was abandoned moves no more, and telemetry is
\* told to close only where it has.
LEMMA TelemetryNext ==
  TypeOK /\ TelemetryFollowsMain /\ [Next]_vars => TelemetryFollowsMain'
<1> SUFFICES ASSUME TypeOK, TelemetryFollowsMain, [Next]_vars PROVE TelemetryFollowsMain'
    OBVIOUS
<1> USE DEF TelemetryFollowsMain, TypeOK, Goto
<1>1. Main \in Workers /\ Spawned \subseteq Workers /\ Main \notin Spawned
      BY MainIsWorker
<1>2. CASE Start
      BY <1>1, <1>2 DEF Start, BuildMain, BuildMainFails, SpawnWorker, SpawnFails, NextToSpawn,
         StartMain, TelemetryFails, MainDone, ScopeEnds, TelemetryClosed
<1>3. CASE SignalArrives \/ SignalSetupFails
      BY <1>1, <1>3 DEF SignalArrives, SignalSetupFails
<1>4. ASSUME NEW w \in Workers, Work(w) \/ AcceptFails(w) PROVE TelemetryFollowsMain'
      BY <1>1, <1>4 DEF Work, BuildWorker, BuildWorkerFails, Bind, BindFails, NoticeCancel,
         Drained, Retry, EndThread, AcceptFails, Polled, Looping
<1>5. ASSUME NEW w \in Workers, NEW c \in Conns, Accept(w, c) PROVE TelemetryFollowsMain'
      BY <1>5 DEF Accept
<1>6. ASSUME NEW c \in Conns, Close(c) PROVE TelemetryFollowsMain'
      BY <1>6 DEF Close
<1>7. CASE UNCHANGED vars
      BY <1>7 DEF vars
<1> QED BY <1>2, <1>3, <1>4, <1>5, <1>6, <1>7 DEF Next

\* The pages of the main worker are done before telemetry closes.
LEMMA TelemetryLast == Quiet /\ TelemetryFollowsMain => TelemetryOutlivesMain
BY DEF Quiet, StoppedIsDrained, TelemetryFollowsMain, TelemetryOutlivesMain, OpenOn

\* Telemetry is shut down after the main worker's pages, and told to flush
\* before start returns.
THEOREM TelemetryClosesLast == Spec => []TelemetryOutlivesMain
<1>1. Init => TelemetryFollowsMain
      BY DEF Init, TelemetryFollowsMain
<1>2. Spec => []TelemetryFollowsMain
      BY <1>1, TypeOKInit, TypeOKNext, TelemetryNext, PTL DEF Spec
<1> QED BY <1>2, QuietInvariant, TelemetryLast, PTL

-----------------------------------------------------------------------------
\* Every step that stops a worker finds the token cancelled, and only a
\* signal or a failure to start cancels it.
LEMMA ToldNext == TypeOK /\ StopsOnlyWhenTold /\ [Next]_vars => StopsOnlyWhenTold'
<1> SUFFICES ASSUME TypeOK, StopsOnlyWhenTold, [Next]_vars PROVE StopsOnlyWhenTold'
    OBVIOUS
<1> USE DEF StopsOnlyWhenTold, TypeOK, Goto
<1>1. Main \in Workers /\ Spawned \subseteq Workers /\ Main \notin Spawned
      BY MainIsWorker
<1>2. CASE Start
      BY <1>1, <1>2 DEF Start, BuildMain, BuildMainFails, SpawnWorker, SpawnFails, NextToSpawn,
         StartMain, TelemetryFails, MainDone, ScopeEnds, TelemetryClosed
<1>3. CASE SignalArrives \/ SignalSetupFails
      BY <1>1, <1>3 DEF SignalArrives, SignalSetupFails
<1>4. ASSUME NEW w \in Workers, Work(w) \/ AcceptFails(w) PROVE StopsOnlyWhenTold'
  <2>1. CASE BuildWorkerFails(w)
        BY <1>1, <2>1 DEF BuildWorkerFails
  <2>2. CASE (Work(w) /\ ~ BuildWorkerFails(w)) \/ AcceptFails(w)
        BY <1>1, <2>2 DEF Work, BuildWorker, Bind, BindFails, NoticeCancel, Drained, Retry,
           EndThread, AcceptFails, Polled, Looping
  <2> QED BY <1>4, <2>1, <2>2
<1>5. ASSUME NEW w \in Workers, NEW c \in Conns, Accept(w, c) PROVE StopsOnlyWhenTold'
      BY <1>5 DEF Accept
<1>6. ASSUME NEW c \in Conns, Close(c) PROVE StopsOnlyWhenTold'
      BY <1>6 DEF Close
<1>7. CASE UNCHANGED vars
      BY <1>7 DEF vars
<1> QED BY <1>2, <1>3, <1>4, <1>5, <1>6, <1>7 DEF Next

\* No worker gives up serving by itself.
THEOREM WorkersKeepServing == Spec => []StopsOnlyWhenTold
<1>1. Init => StopsOnlyWhenTold
      BY DEF Init, StopsOnlyWhenTold
<1> QED BY <1>1, TypeOKInit, TypeOKNext, ToldNext, PTL DEF Spec
=============================================================================
