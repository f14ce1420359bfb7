# nailpit in TLA+

Nailpit is a tarpit for web scrapers that ignore `robots.txt`: an HTTP server
that streams endless-looking pages of Markov-chain text and limits how often a
client may ask for them. This directory holds TLA+ models of it, TLC
configurations that check the models on small instances, and TLAPS proofs of
what matters most for instances of any size. Paths below are relative to the
repository.

Run everything from this directory: `tlc -config X.cfg M.tla` checks,
`tlapm M.tla` proves.

## 1. Inventory

| Component | State | Operations | Hard part | What makes it correct |
|---|---|---|---|---|
| rate limiter, `crates/nailrater` | the process-wide `PEERS` table (`scc::HashMap`), the `Scheduler`'s window, the future of each request | rate a request, drop or admit it, schedule a prune, prune, delay, forward | workers rate at the same time under per-bucket locks; a prune runs inside one request's future and suspends between buckets; clients disconnect anywhere | no visit is lost; every answer follows from the visit's number; nothing is forgotten early; no lock is held across an await |
| process and workers, `crates/nailrt`, `src/main.rs` | main thread, scoped threads with a runtime each, one `CancellationToken` | build, spawn, start, retry, signal, drain, join | partial start, retries, shutdown racing everything | a signal ends the process, a failed start ends it, nothing is left behind |
| serving, `crates/nailserve`, `crates/nailnet` | listener, watched connections | accept, cancel, drain | accept races cancellation; an accept error loses the connections' watcher | a shutdown cuts no connection that is still watched |
| page stream, `crates/nailgen` (`lib.rs`, `html_gen.rs`, `delay.rs`) | `GeneratorState`, cursor, buffer, `total_bytes`, `page_title` | `poll_next` through Template, Content, GeneratingContent, Delay, Finished | a buffer local to one turn of the loop; time passing between polls; numbers from configuration | pages follow their template, end, and keep to size, time and delay |
| templates, `crates/nailgen/src/template.rs` | the cursor | `write_template`, `validate` | an error while rendering is taken for the end | what start-up accepts renders to the end |
| interner, `crates/nailkov/src/interner.rs` | string buffers and raw pointers into them, by token and in a hash map | `intern`, `lookup` | a buffer must never move under its pointers; `lookup` does not check its bounds | tokens are dense, stable and name their text |
| chain, `crates/nailkov` | occurrence counts of triples | feed a text, build, walk | 32-bit counts, weights that are refused, dead ends | a chain says what its own file says; what is served can be walked |
| start-up, `src/inputs.rs`, `src/main.rs` | the interner all files share, the chains, the templates | read every input file, validate templates, load payloads | one bad file of several | a bad file costs only itself; nothing serves that cannot |
| peer identity, `crates/nailip`, `crates/nailfv` | none | `IdentifiedPeer::extract` | three headers, each with lines and names, written by several proxies; fallback to address and port | one client, one identity |
| spicy payloads, `crates/nailspicy` | loaded files by coding | `get_spicy_payload`, `accepts_encoding` | one unreadable file drops all | the payloads are whole or none, and one that is sent was asked for |
| configuration, `crates/nailconfig` | numbers | defaults overridden by `pit.toml` | combinations of a default and an override | no accepted configuration panics |
| routes and layers, `crates/nailroutes` | read-only | lead a request past or through the layers, make pages | what is under which layer | |
| tracing, `crates/nailtrace`, `nailstream` | the request's span in `InspectState`, then in `InspectBody`; its id | open the span, enter it for every poll, hand it to the body | many requests on one thread; the span changes hands when the answer is ready | work is recorded under its own request; spans nest, and close |
| telemetry, `crates/nailotel` | exporters | init, shut down | may fail after threads run; dropped by a detached task | outlives what it records |
| state and helpers (`nailstate`, `nailbox`, `nailrng`) | read-only or none | draw a chain, clone pointers | none | |

How they interact. `main` reads configuration, inputs, templates and payloads
(`StartUp`), then `nailrt::start` builds one current-thread runtime per worker. Each worker binds
its own listener (`SO_REUSEPORT`) and runs `nailserve::serve`; a connection
lives on the worker that accepted it. Each request is given its peer, passes the trace layer if telemetry is on and
the `NailRater` layer, whose table and scheduler are shared by all workers, and
an admitted one gets a `MarkovStream` as its body, which hyper polls. Workers
share nothing else but read-only data and the cancellation token.

## 2. Modules

| Module | Models | Extended or used by |
|---|---|---|
| `LimitModes` | `modes.rs`: configuration to mode, visit number to state | `NailRater`, `PeerLedger` |
| `NailRater` | `futures.rs`, `lib.rs`, `scheduler.rs` of nailrater | `MCNailRater`, the `NailRater*Proofs` |
| `PeerLedger` | the abstract promise: a sequential ledger of visits | `NailRater` (`Ledger`, `ImplementsLedger`) |
| `WorkerRuntime` | nailrt, nailserve, `spawn_axum_worker`, the guard of nailotel | `MCWorkerRuntime`, `WorkerRuntimeProofs` |
| `PageTemplate` | `template.rs` over tokens | `MarkovStream` |
| `MarkovStream` | `MarkovStream::poll_next` with its generators and delays | `MCMarkovStream` |
| `Interner` | `interner.rs`: buffers, pointers, tokens | `StartUp`, `InternerProofs` |
| `TextTable` | the abstract promise: a table of texts that only grows | `Interner` (`Table`, `ImplementsTextTable`) |
| `NailKov` | counting, building and sampling a chain, as operators | `StartUp` |
| `StartUp` | `main.rs`, `inputs.rs`, `get_spicy_payload`, the walks of pages; composes `Interner`, `NailKov` and `PageTemplate` | `MCStartUp`, `StartUpProofs` |
| `PeerIdentity` | nailip and nailfv, as operators | `RequestPath` |
| `RequestPath` | the service of nailserve, the layers of nailroutes, nailtrace, nailstream | `MCRequestPath`, `RequestPathProofs` |
| `InternerProofs`, `StartUpProofs` | theorems about `Interner` and `StartUp` | the second extends the first |
| `RequestPathProofs` | theorems about `RequestPath` | |
| `NailRaterProofs`, `NailRaterLimitProofs`, `NailRaterCountProofs` | theorems about `NailRater` | each extends the one before |
| `WorkerRuntimeProofs` | theorems about `WorkerRuntime` | |
| `MarkovStreamProofs` | theorems about `PageTemplate` and `MarkovStream` | |

### NailRater

A request's future is a program counter: `new` (not called), `entry` (awaiting
`entry_async`), the stretch `vacant`/`occupied`, `decide`, `schedule`,
`locked`, `forward` (one poll, under the bucket's lock), then `prune`, `delay`,
`pass` (the states of `NailedNormalFuture`), `done` or `gone`. `peers` is the
table, `owner` the lock of each bucket, `window` and `mutex` the `Scheduler`,
`running` the request each worker polls. A worker polls one request at a time,
and a request is left only where the code returns from `poll`. Actions carry the
names of what they do: `AcquireEntry`, `ModifyPeer`/`InsertPeer` (and_modify /
or_insert_with_key), `DropRequest`, `AdmitRequest`, `LockScheduler`,
`Schedule`, `Forward` (which drops the entry), `PruneBucket` (the `retain` of
one bucket), `PrunePending` and the other `...Pending` (the poll returns
Pending), `DelayElapsed`, `Respond`. `Cancel` is hyper dropping the future of a
client that left, at any suspension point. `scc::HashMap` is modelled from how
it is used: an entry or a retain holds its bucket exclusively, a retain visits
each bucket once and may suspend between buckets. An Accept-Encoding header is
the set of codings it contains, for which the code searches as substrings. How
late an answer may be is bounded by no property: a delay that is skipped is
caught, one that is stretched is not.

### WorkerRuntime

`main` and `thread` say where `start` and each worker stand, `token` is the
`CancellationToken`, `signal` the shutdown task, `conn`/`host`/`orphan` the
connections. Permanent failures (`Faults`: building a runtime, spawning a
thread, telemetry, signal handlers) may happen wherever the code can meet them;
failed binds and accepts are transient and bounded by `MaxRetries`. A runtime
that is not in `block_on` polls nothing (`Polled`; the main one is in it until
the shutdown task is done too, and goes on serving connections its worker has
left behind), and one that shuts down cuts the connections it still has.
`telemetry` is the `OtelGuard`: set up in `block_on`, dropped by a blocking
task when the main worker is done (`closing`, `TelemetryClosed`), and lost if
that takes longer than the 60 seconds of `shutdown_timeout`.

### MarkovStream and PageTemplate

A template is a sequence of tokens (`Opening`, `Closing`, `Blank` and words);
the page is a sequence of marks (text at a position, or what a placeholder
produced, with its size). `BytesOf` sums the bytes that come from some parts of
a template, and `Bytes` all of them, as `BytesMut::len` does. There is one action
per arm of `poll_next`, and one turn of the inner loop per placeholder, so that
`buffer` has the life it has in the code. `GrowChunk` is the section after
which `main_content` yields. A generated paragraph may have any number of words
from none to the maximum, since the chain may meet a dead end. `Panic` is what
`random_range` does with an empty range. The clock saturates at `MaxTime`, which
`ClockOutlivesDelays` puts past every timeout and not before `MinDelay`, so that
no guard and no property can tell a saturated clock from one that runs on.

### Interner, TextTable and NailKov

A `String` is its capacity, its length, the texts in it and how often its bytes
have moved; a pointer names a text in a `String` and the bytes' place when it
was made, and reading one that is no longer right yields no text (`Dangling`).
`PushStr` is what `String::push_str` does, growth included: that `Alloc` never
lets it grow is what is to be shown. Capacities are powers of two out of a
finite set, beyond which an allocation aborts. `TextTable` is what users of the
interner rely on. A chain of `NailKov` is a function from pairs to counts;
counts wrap at `CountSpan` as the `u32`s of a release build do, and `Accepted`
is what `WeightedAliasIndex` takes. The check of `size_hint` before the windows
are fed is never true (`split_word_bounds` has an upper bound) and left out.

### StartUp

`phase` is how far `main` has come. `FeedWord` is one step of `feed_str` with
everything it does to the interner and to the counts; `FinishFile` is `build`
and what the caller does with its result; `SkipPath` is a path that cannot be
listed or read. The words of a file are chosen as they are fed, so a run covers
every content. After `LoadPayloads` the process serves, and `walk` is one page's
`NailKovIter`; what it reads is read back through the interner (`trail`).

### PeerIdentity and RequestPath

A header is a sequence of lines of symbols; an address is one symbol.
`RequestPath` gives each request a way through proxies of different customs
(`Relay`, external), which is how headers of every shape come about, and says
who the peer should be in terms of that way and not of the headers (`Hops`: the
proxies on the way that write to a header). The separators have names (`Comma`,
`ForEq`) and a part of a line is found by where it begins (`Starts`, `Part`).
`AddressAssumption` says that an address can be told from the separators, and
`WayAssumption` that no request passes more proxies than there are.

A request is `new`, `oneshot` (the service's future is made), then in a poll
(`inner`, in the handler `page`, `answered`) or `waiting`, then a `body` that is
polled for a `frame`, and `done`. `stack` holds the spans entered on the
worker's thread, `handles` who holds a handle to which span: `InspectState`,
then `InspectBody`, the handler, then the stream. `Trace` is
`trace_connection_layer` up to its await and the first poll of
`InspectHttpResponse`, between which nothing else runs. `Leave` is hyper
dropping a future or a body; what it holds is released in one step (`Release`),
since nothing runs between the drops of its fields. What the rate limiter
decides is left open (`AnswerPlainly`, `EnterHandler`, `InnerPending`), as `NailRater` has it. UUIDs
are taken to be unique.

Definitions marked `Slip:` are plausible mistakes in an action. Nothing uses
them; substituting one for the action it stands before makes a property of the
runs fail, which shows that the property depends on that piece of code.

## 3. Runs

| Run | Configuration | What it shows |
|---|---|---|
| `rater_table` | `NailRater_table` | 3 requests, 2 peers in a bucket each, 2 workers, clock to 2: `LocksReleasedOnAwait`, `EntryMatchesTable`, `CountsEveryVisit`, `SweepForgetsStale`, `ForgetsOnlyIdle`, `PruneSpacing` |
| `rater_replies` | `NailRater_replies` | 3 requests of one peer past soft limit 2 and hard limit 3, spicy with a gzip payload only, any headers: `AdmissionsWithinLimit`, `RepliesObeyLimit`, `ImplementsLedger` |
| `rater_liveness` | `NailRater_liveness` | 3 requests of one peer, each of which may lack an identity, plain drops past hard limit 3, under fairness: `EveryRequestAnswered` |
| `rater_reset` (refuted) | `NailRater_reset` | `ResetsAfterIdle`, see section 6 |
| `rt_life` | `WorkerRuntime_life` | 3 workers, 2 connections, all faults, 2 transient failures: `ExitIsQuiet`, `OnlyOrphansCut`, `StopsOnlyWhenTold`, `TelemetryOutlivesMain`, and under fairness `ShutdownCompletes`, `FailedStartExits`, `WorkersServe` |
| `rt_build`, `rt_telemetry` (refuted) | `WorkerRuntime_build`, `_telemetry` | `BuildFailureExits`, `TelemetryFailureExits`, section 6 |
| `page_stream` | `MarkovStream_page` | the repository's templates in miniature, seven others, all of up to four tokens and those of five that open a placeholder (some 2850, `ManyPages`); size 9, with a timeout of 3 and with none, delays 1 to 2: `AcceptsWellFormed`, `WarningPageComplete`, `OnlyMainDiscards`, `OutputInOrder`, `OneTitle`, `MainWithinPayload`, `OneLateChunk`, `TypeOK`, `ChunksSpaced`, and under fairness `PageCompletes` |
| `page_discard`, `page_delay` (refuted) | `MarkovStream_complete`, `_delay` | section 6 |
| `start_up` | `StartUp` | two files, three texts of 1, 2 and 3 bytes in buffers of 2 bytes and more, up to six words, counts modulo 4, three templates, four lists of payloads: `PointersStayValid`, `ImplementsTextTable`, `ChainsFollowText`, `TokensResolve`, `GoodFilesServe`, `WalkFollowsText`, `PayloadsWholeOrNone` |
| `requests` | `RequestPath` | two requests, one over every way of up to two proxies of nine customs, without a request id, with one of its own, an unreadable one, or one that looks like a UUID the server makes: `WorkUnderOwnSpans`, `PageWithinRequest`, `IdsLeadToSpans`, `PeerIsRemotestNamed`, `ClientIsOnePeer`, and under fairness `SpansClose` |

The type invariants of `NailRater`, `WorkerRuntime`, `StartUp` and `RequestPath`,
and `TokensNameTexts` and `ServingIsReady` of `StartUp`, are proved for every
value of the constants (section 5) and are not repeated in the runs.

Bounds and why they are enough. Limits 2 and 3 with three requests let one peer
meet every state, two of them at once; two workers are needed for any race and
a third request keeps one suspended meanwhile. With `PeerTimeout` 1 and a clock
to 2 a record can be fresh, exactly stale and past stale, and two workers race
over a window that is due. Three requests start one prune at most (the first
opens the window, the second prunes, the third opens the next); that any number
of prunes is spaced is the theorem `PrunesSpaced`. The clock to 1 is enough
where only a delay of 1 matters.
Two buckets let a prune suspend between two locks. Three workers are two
spawned ones beside the main one, so that one can fail to be spawned after
another runs. A page of size 9 with chunks of 3 has up to three chunks; time
saturates one tick after the timeout, after which no guard can tell ticks
apart; paragraphs are at most one (INITIAL) and two (a section) instead of 3
and 4. Texts of 1, 2 and 3 bytes fill a first buffer of 2 exactly, overrun it by
one, or do not fit it at all, and the buffers of 4 and 8 that follow are filled
and left in turn; `Powers` up to 16 are more than six words can ask for. Counts
of two bits (`CountSpan` 4) let six words of one file make a count wrap to 0
and weights be refused (a single weight may be 3, two may be 1 each), which
takes billions of words in the code. Two files are one before and one after a
file boundary. A walk of `MaxTrail` 4 texts turns its window over once, and
each later turn is the same. Two requests are one that is polled and one that
waits; ways of two proxies are needed for the first and the last name to
differ. `rater_table` and `rater_replies` are symmetric in requests and
workers; the other runs use no symmetry.
`CHECK_DEADLOCK FALSE` throughout: a page ends, a process exits, requests run
out, and the clock is bounded.

Counters. Visit counts are `u64` in the code and unbounded naturals here; times
are monotonic ticks.

## 4. Fairness

* `NailRater!Fairness`: a woken task is polled (tokio) and time passes.
  Clients owe nothing: neither a request nor a disconnect is fair.
* `WorkerRuntime!Fairness`: main and workers keep running, and connections end
  (`Close`). The latter is an assumption about clients that read what they are
  sent: `graceful.shutdown()` has no timeout, so without it shutdown need not
  complete. Signals, accepts and failures of accept are not fair.
* `MarkovStream!FairSpec`: hyper polls the body while the client reads, and
  time passes.
* `RequestPath!FairSpec`: strong fairness of polls, since several futures share
  one thread and each is woken again and again; and of an answer and of the end
  of a body, which are what `EveryRequestAnswered` of `NailRater` and
  `PageCompletes` of `MarkovStream` give it. Neither a request nor a client that
  leaves is fair.

## 5. Proofs

All for any number of workers, requests, peers, buckets, connections, files and
words, templates of any length, any limits, sizes, timeouts and delays, from the
named assumptions of the modules (constants are natural numbers, absent values
are not present ones and no UUID, addresses are no separators, the clock
outlives the timeouts). 34 of the 40 properties that the passing runs check are
theorems, both refinements among them.

* `NailRaterProofs`: `Core == TypeOK /\ LocksReleasedOnAwait /\
  EntryMatchesTable` is inductive (`CoreInvariant`; `TypesHold`,
  `LocksHeldBriefly`, `EntriesValid` are its parts). The three need each other:
  counts are naturals only because an entry a request holds is a record in the
  table, which holds because a bucket has one owner, which is in its critical
  section. `LimitMonotone`: more visits never earn a milder state.
* `NailRaterLimitProofs`: `OnlyIdleForgotten` (from `SeenLast`: `last_seen` is
  not before any visit it stands for), `PrunesSpaced` (from
  `WindowAfterPrunes`: the window is not before any prune handed out),
  `SweepsComplete` (inductive with `Core`).
* `NailRaterCountProofs`: the tickets given out since a peer was last forgotten
  are the numbers 1 to its count, each once (`TicketsCount`, `TicketOnce`).
  That gives `NoVisitLost`. With what a decision under the lock fixes
  (`Decided`, `LetThrough`, `FirstRemembered`) it gives `AnswersObeyLimit` and
  `HardLimitHolds`: admitted requests have distinct numbers below the limit.
  `LimiterImplementsLedger` is the refinement: under the mapping that takes the
  table to counts and sightings and the requests to their fates, a step of
  rating is a visit (`RatingVisits`), a bucket's prune forgets some of the idle
  peers (`PruningForgets`), an answer or a client that leaves settles one visit
  (`ReplyAnswers`), and all others are stutters (`LedgerNext`).
* `WorkerRuntimeProofs`: `ExitsQuietly` and `CutsOnlyOrphans` from one
  invariant (`Quiet`): an open connection is on a live thread, and a worker
  that stopped has only orphans left. `WorkersKeepServing`; `Typed`;
  `TelemetryClosesLast`, from where the main worker stands while telemetry is
  in each of its states.
* `InternerProofs`: `PointersValid` from an invariant on the room of every
  buffer (`len <= cap`, `moved = 0`) and on where each pointer points;
  `TokensName` from that and from the agreement of `collected` with `index`.
  `ImplementsTable` is a refinement: every step of the interner is a step of
  `TextTable` or leaves it alone.
* `StartUpProofs`: a step of `StartUp` is a step of the interner or leaves it
  alone (`UsesInterner`), so the three theorems above hold of the running
  process (`ServesInternedTexts`). `StartUpInv` (`Sound`, `LoadingOK`,
  `ChainsOK`, `WalkOK`) says that every chain, finished or not, uses tokens
  below `Len(index)` and, once built, has only accepted weights; it gives
  `StartUpTyped`, `TokensAlwaysResolve` and `ServesWhatItCan`. The last holds
  whatever the counts wrapped to, since `build` drops what cannot be sampled
  and asks afterwards whether anything is left.
  What the chains say rests on `FedOK`: the unfinished chain is the one of the
  tokens of the words fed so far (`ChainOf`), the window their last two, and
  every finished chain the build of that of its whole file. `ChainOf` counts
  places in a text instead of feeding it, and `ChainOfAppend` shows that
  `AddTokenPair` takes it from a text to the text with one more word; no
  induction over texts is needed, since the steps of the process are the
  induction. `NamesGrow` and `ReaderInjective` let tokens stand for texts while
  the interner grows. It gives `ChainsAlwaysFollowText` and
  `GoodFilesAlwaysServe` (`ChainsOfGoodFiles` for the chains, `LeavesInputs` for
  the way on), and with `TrailOK` (every three texts of a walk are
  three words in a row of its file) `WalkAlwaysFollowsText`.
  `PayloadsAreWholeOrNone` needs the function that `PayloadsOf` defines by
  recursion to exist: the lengths up to which it does contain 0 and, with each,
  the next, so they are all naturals (`Inductive`, from the least element a set
  of naturals has). `LoadsWhole` then says what is loaded after each file of a
  list: the last file of each kind so far, or nothing once one was unreadable.
* `RequestPathProofs`: `PathInv` says what is entered at each place of the
  request that is polled (`Entered`), and which handles each request holds
  (`Holds`). Both are needed: that the spans entered are open follows from who
  holds them. It gives `SpansOwnWork` and `PageSpansNested`; with `HeldOK`, which
  bounds the handles, `RequestTyped`. `IdsOK` gives `ResponseIdsLead`: what is
  noted is the client's id or a UUID below `uuids`, every traced request has
  something noted from its first poll on, and no two requests without
  an id of their own have the same one.
  Peers are a matter of headers more than of steps: `PeerKnown` says only that a
  peer is what `Extract` made of the headers its request arrived with. `Relayed`
  is the headers after each proxy of a way. The first proxy that writes to a
  header leads it, that is, its first line begins with the name it wrote, and
  whoever writes after it keeps that (`FirstWriterLeads`, `XffWritten`,
  `ForwardedWritten`); X-Real-IP is what the last one wrote, and what nobody
  wrote is missing or blank (`LastAndUnwritten`). A header that is led by a name
  yields it when it is read (`XffRead`, `RealRead`, `ForwardedRead`, the last
  for both ways a node is written), so `ExtractNames` has the peer in terms of
  the way: `PeerIsAlwaysRemotestNamed`. For `ClientIsAlwaysOnePeer` any other
  peer, even from an X-Forwarded-For that was wiped out on the way, must differ
  from the address and port of a connection: it is part of a line
  (`PeerIsLineOrSocket`), and no line has the colon of a socket's text.
* `MarkovStreamProofs`: of templates, `AlwaysAcceptsWellFormed`. `Processed` says
  what `process_template` returns at any cursor, in terms of the placeholder
  that begins first and of what is around its word (`OpenAt`, `SlotAt`), and
  `FormedStepwise` that one step of the walk accepts exactly what the definition
  of a well-formed template asks for up to there; the walk is a recursive
  function, so that the two are compared by the least cursor where they would
  differ (`Least`). Of pages: `Staged` says which buffer and which future belong
  to a state, and that a chunk that is made is short of `ChunkSize`. `Moves` then
  sorts every step by what it does to the marks that are sent (`output`) and
  those that are held back (`Held`, in the buffer or in a future), which are
  eight shapes, and each property is shown shape by shape: `TitleIsOne`,
  `LateChunkIsOne` (after a late chunk none is begun), `MainStaysWithinPayload`
  (`Spent`: what is sent of MAIN is part of `total`, which was below
  `PayloadSize` when the last chunk was begun), `ChunksAreSpaced` (`Paced`: the
  time since a chunk and what is left of the sleep make up the delay),
  `OutputStaysInOrder` (`InOrder`: what is held comes behind what is sent, and
  all of it before the cursor). `WarningPagesAreComplete` and
  `OnlyMainEverDiscards` come from `Covered`: everything of the template before
  the cursor has its mark or is about to have it, or a MAIN behind it with no
  INITIAL or FOOTER in between; and nothing held in the Template state is older
  than the last INITIAL or FOOTER (`BufferRecent`), which is why a MAIN can
  throw away no more than that.

Checked by TLC only: liveness (`EveryRequestAnswered`, `ShutdownCompletes`,
`FailedStartExits`, `WorkersServe`, `PageCompletes`, `SpansClose`), which needs
fairness and ENABLED and is outside the prover's reach.

## 6. Where the code and its documents disagree

* `rater_reset`: `defaults/pit.default.toml:75-76` says a count resets after two
  idle minutes. The code counts on from a stale record unless a prune ran
  first, and a prune runs only for an admitted request, after its own record
  was refreshed (`futures.rs:167`, `scheduler.rs:26`).
* `rt_build`: `nailrt/src/lib.rs:69-71` says a worker thread that cannot build
  its runtime terminates the program. The main thread goes on waiting for a
  signal (`lib.rs:94`, `104-109`).
* `rt_telemetry`: `nailrt/src/lib.rs:51` says the main worker must start or the
  program errors out. When telemetry fails (`lib.rs:102`) the token is not
  cancelled and the scope waits for the other workers.
* `page_discard`: `template.rs:157-161` and the test at `251-271` say the
  cursor's text reaches the page. A generated page drops what it has written
  since the last hand-over when it reaches MAIN (`nailgen/src/lib.rs:173-177`).
  The default template loses only white space.
* `page_delay`: `min_delay` overridden alone meets the default `max_delay = 0`
  and panics (`delay.rs:18`). The same shape is in `html_gen.rs:19` for
  paragraph sizes, and in `html_gen.rs:159` for `max_pit_links = 0`.

Not refuted by a run: `pit.default.toml:46` says a connection is dropped at its
timeout. The code only makes no further chunk of MAIN (`nailgen/src/lib.rs:224`);
the page sleeps out its delay and goes on to the end of its template, which is
what `OneLateChunk` allows and `PageCompletes` asks for.

Nor by one, since the models do not tell kinds of identifiers apart:
`nailfv/src/lib.rs:37-39` says identifiers of `Forwarded` that are no addresses
are discarded. `extract_ipv4` takes the rest of the value as it is (`lib.rs:34`),
so `for=unknown` makes a peer named `unknown`, and everyone behind such a proxy
is that peer.

## 7. Not modelled

* axum's router beyond which routes are under the layers, and
  `NormalizePathLayer::trim_trailing_slash`, which has no effect inside
  `Router::layer`: the path has been matched by then.
* Read-only shared data (`nailstate`, apart from drawing a chain), allocation
  and random helpers (`nailbox`, `nailrng`), exporters and log formats
  (`nailotel`), merging of TOML files (`nailconfig`).
* The wire (hyper, sockets), hash functions, segmentation into words, and the
  probabilities of what is sampled: a draw is any of its possible values.
* Fields of a span other than its request id. The peer is split at colons for
  them (`nailtrace/src/lib.rs:77`), which gives an IPv6 peer the wrong fields.
* A subscriber that is installed while spawned workers serve already
  (`nailrt/src/lib.rs:102`), and what is logged before it is (`inputs.rs:22`).
* The derived `Clone` of `Interner`, whose copies would point into the
  original; nothing uses it.
* `Drop` of a `MarkovStream`, which has no effect beyond its own memory.

See `PROJECT.json` for each component's status.

## 8. Plan

Done, in this order: `LimitModes`, `NailRater` (the one place where workers
share mutable state), `PeerLedger` and the refinement, the NailRater proofs,
`WorkerRuntime` and its proofs, `PageTemplate` and `MarkovStream`; then
`Interner` with `TextTable`, `NailKov` and `StartUp` with their proofs,
telemetry in `WorkerRuntime`, `PeerIdentity` and `RequestPath` with its proofs;
then the refinement of `PeerLedger`, what chains and walks say of their texts,
ids, and all safety properties of `MarkovStream` as theorems; then those of
payloads and of peers.

Next, most important first:

1. A composition of `NailRater` with `WorkerRuntime`: which requests a drain
   waits for.
