# Verification of gonzo

Gonzo is a terminal (and browser) dashboard for logs. It reads them from stdin,
files, Kubernetes, VictoriaLogs or an OTLP receiver, keeps a bounded window of
them per tenant, and shows counts, patterns and heat maps. Since it has become a
server as well - an OTLP receiver with tenants, quotas, a shared worker pool and
a web dashboard - most of what is hard in it is concurrent: goroutines that meet
over bounded channels and mutexes, and shut down in a certain order.

This directory holds TLA+ models of those parts, TLC configurations that check
them on small instances, and TLAPS proofs. Line numbers in this text and in
`PROJECT.json` refer to the source tree.

    tlc -workers 2 -config MCScheduler_safety.cfg MCScheduler
    tlapm SchedulerProofs.tla

## 1. The system

| Component | State | Operations | Talks to |
|---|---|---|---|
| Receiver (`internal/otlpreceiver/receiver.go`) | listeners, context, wait group | `Start`, `Stop`, `admitRequest`, gRPC interceptor, HTTP handler | Authenticator, Limiter, Scheduler |
| Authenticator (`internal/security/auth.go`, `oidc.go`, ...) | method list; OIDC key cache with expiry | `Authenticate`, `verify`, `keyFor`, `fetchJWKS` | Receiver, web server; identity provider over HTTP |
| Limiter (`internal/security/quota.go`) | per tenant: two token buckets, series tracker, parse queue | `tenant`, `CheckRequest`, `checkSeries` | Receiver, Scheduler, RejectLogger |
| RejectLogger (`reject.go`) | ring of events, counters | `Record`, `Snapshot` | everything that denies; dashboard |
| Scheduler (`scheduler.go`) | tenant list, tenant queues, `jobs` channel, `kick` channel, context | `Submit`, `dispatch`, `dispatchRound`, workers, `Wait` | Receiver (waits on the reply channel), sink |
| OTLP sink (`cmd/gonzo/otlp_sink.go`) | channel to the TUI | `IngestLogs` | called by workers; Engine, TUI |
| Engine (`internal/engine`) | per tenant: record window, lifetime counts, top services, heat map, history, streams | `ingest`, counts, queries | sink, program loop, web API |
| Web server and hub (`internal/web`) | client set, per-client channels | `Register`, `Broadcast`, handlers | Engine, browser |
| Input readers (`cmd/gonzo/app.go`, `internal/filereader`, `internal/k8s`, `internal/vmlogs`) | file offsets, watchers, pod streams, line channels | start, follow, stop, update filter | program loop over `inputChan` |
| Program loop (`cmd/gonzo/app.go`, `processing.go`) | severity counts, timer sequence, JSON accumulator | `Update`, `checkInputChannel`, timers, quit | TUI, Engine |
| Dashboard (`internal/tui`) | log buffer, filters, windows, columns, counters, chat | key and message handlers | program loop, AI clients |
| Word counts and patterns (`internal/memory`, `internal/drain3`) | bounded counters, clusters | add, snapshot, reset | program loop, TUI |
| Decoding (`internal/otlplog`, `formats`, `analyzer`, `timestamp`) | none worth naming | parse functions | program loop, sink |

**The path of an OTLP export.** A handler goroutine authenticates the request,
runs `Limiter.CheckRequest` (every denial goes to the `RejectLogger`), and calls
`admitRequest`, which hands an `IngestJob` to `Scheduler.Submit` and waits for
the job's one-slot reply channel or for the request's own context. `Submit` puts
the job into the tenant's bounded queue, or refuses it. One dispatcher goroutine
takes at most one job per tenant and round from the queues to the bounded `jobs`
channel; when that is full it pushes the job back, and if the queue has filled
up meanwhile, fails it. Workers call the sink, which hands the records to the
engine one by one and mirrors each to the TUI if its channel has room, and then
answer. `Stop` cancels the scheduler, then drains gRPC, then HTTP.

**The path of a line of a file.** One goroutine reads all files and, in follow
mode, then starts a watcher goroutine per file; all send to `lineChan`.
`readFilesAsync` forwards to `inputChan`; the program loop takes one line per
command from there. A line of a pod takes the same way: a streamer goroutine per
container sends to the source's `lineChan`, and `readK8sAsync` forwards.

### What is hard here, and what makes each part correct

* *Scheduler*: the dispatcher's pop, push and push-back are separate channel
  operations into which `Submit` of the same tenant fits. Correct: an accepted
  export is in one place, is ingested at most once, and is answered with what
  happened to it; a refused one was not touched (the exporter's retry would
  double it); one tenant's load costs another nothing; no wake-up is lost;
  shutdown ends.
* *Receiver*: handlers wait for the scheduler and `Stop` waits for handlers; a
  configuration is normalized three times and its surfaces open one by one.
  Correct: `Stop` returns; the receiver is what its operator wrote down, with all
  of its surfaces or none.
* *Limiter*: lazily created shared state, several locks per request, TTL sweeps.
  Correct: one state per tenant, no more tokens than exist, no more series than
  allowed, nothing kept of a denied export, live series not forgotten.
* *Reject log*: ring arithmetic, counters that outlive the ring.
* *Engine*: states of tenants created by whoever comes first; two budgets, a
  running byte count, truncated lists; endpoints that look twice. Correct: every
  answer accounts for the caller's entries, all of them, each once.
* *Sink*: an error after part of an export is stored; retries of exports that
  are still being converted. Correct: acknowledged means stored completely;
  what a failed export leaves is a prefix, once per attempt.
* *Authentication*: methods that fall back on one another, a cached document of
  keys that the issuer rotates, fetches that overlap. Correct: a token is judged
  by what the issuer has published, and a failure gives nobody a tenant.
* *Hub*: registration, broadcast, clients that stall, and shutdown over bounded
  channels. Correct: nothing is closed twice or sent to once closed, and a client
  sees its own tenant's counters grow.
* *File input*: hand-over from reading to following, truncation noticed late,
  merged events, the end of the input behind buffered lines, shutdown.
* *Kubernetes source*: `Stop` closes a channel to which streamers nobody waits
  for may send; `UpdateFilter` replaces the watcher while the old one's events
  are still delivered. Correct: every live streamer is the one its watcher knows,
  what is stopped ends, what is wanted is streamed.
* *Program loop*: timers that must not multiply, documents over several lines
  between lines that are dropped, counts handed over by ticks, resets and the
  end, `q` typed as text.
* *Dashboard*: eleven windows and three inputs whose keys go through four
  handlers; a filtered copy of a buffer that moves on, with a selection, a pause
  and cancelled filters; marks and counters over entries that are forgotten;
  answers of the AI that come late.

`PROJECT.json` lists these as hazards, each with its line and the properties
that would notice it going wrong.

## 2. Modules

| Module | Models | Form |
|---|---|---|
| `Scheduler` | `scheduler.go` and `admitRequest` | state machine; one action per channel operation and critical section |
| `SchedulerProperties` | - | properties of `Scheduler`, the refinement mapping |
| `ExportContract` | what an exporter may rely on | abstract specification |
| `Receiver` | `receiver.go`: entry paths, `Stop` | composes `Scheduler` |
| `Startup` | `config.go`, `buildOTLPSecurityConfig`, `New`, `Start` | state machine from flags to open surfaces |
| `RejectLog` | `reject.go` | a component without a `Next` of its own: `Record`, `Snapshot` |
| `Limiter` | `quota.go` | composes `RejectLog` |
| `TenantStore` | `state.go`: `ingest`, window, services | a component: `Ingest` |
| `OtlpSink` | `otlp_sink.go`, exporters with retries | composes `TenantStore` |
| `Queries` | `queries.go`: filters, groups, reports | operators over a window of entries |
| `Engine` | `engine.go`, `state.go`, `scope.go`, `streams.go`, endpoints of `api.go` | composes `Queries`; ingesting and answering goroutines |
| `Hub` | `websocket.go`, the broadcaster of `server.go` | composes `Engine` |
| `Auth` | `auth.go`, `oidc.go`, `mtls.go` | authentication as operators, the key cache as a state machine |
| `FileReader` | `filereader.go` | a component: actions of its goroutines |
| `FileInput` | `readFilesAsync`, `checkInputChannel` in `app.go` | composes `FileReader` |
| `LineFeed` | what the program loop may rely on | abstract specification |
| `K8sSource` | `source.go`, `watcher.go`, `streamer.go` of `internal/k8s` | state machine over informer events, streamers and the dashboard's calls |
| `LineDecoder` | `processing.go`, `extractors.go` | a component: what one line does |
| `AppLoop` | `app.go`: sources, commands, messages, timers | composes `LineDecoder` |
| `Modals` | keys, windows, inputs and the chat of `internal/tui` | state machine; one action per handler |
| `LogView` | buffer, filters, selection, pause, pattern miner's mark | state machine |
| `Columns` | the columns and their window | state machine |
| `Statistics` | counters, heat map, rate, services; `internal/memory` | state machine |
| `MC...` | instances for TLC | `MCServer` and `MCDashboard` put several components side by side |
| `SchedulerProofs`, `ContractProofs` | - | proofs about `Scheduler`, its refinement of `ExportContract`, and `Receiver` |
| `Loops`, `LoopsProofs` | - | what a loop over a sequence has summed or picked, as recursive functions, and the lemmas about them |
| `LimiterProofs` | - | proofs about `Limiter` with its reject log |
| `FileProofs`, `K8sProofs` | - | proofs about `FileInput` and `K8sSource` |
| `DashboardProofs` | - | proofs about `AppLoop`, `LineDecoder`, `Modals`, `LogView`, `Columns` and `Statistics` |
| `ServerProofs` | - | proofs about `OtlpSink`, `TenantStore`, `Engine`, `Hub`, `Auth` and `Startup` |

How the state corresponds to the code:

* **Scheduler.** `queue[t]` is `tenantLimit.queue`, `jobs` and `kick` are the
  channels, `tenants` the sorted list `registerTenant` keeps. The dispatcher's
  locals are variables (`round` for its copy of the list, `rotation`, `pos` for
  `i`, `worked`, `held` for the job between two channel operations) and `dpc` its
  program counter, because `Submit` may run between any two of its operations.
  `req[e]` is the program counter of a request goroutine: `register`,
  `enqueue`, `kick` inside `Submit`, `waiting` in `admitRequest`. `reply[e]` is
  the one-slot reply channel, `result[e]` what the exporter got. `calls`,
  `verdict` and `ledger` record what the sink was called with and said, and the
  reject log's entries. A tenant is the rank of its name in the sorted order.
  An element of `Exports` is one exporter with one export in flight; the slot is
  used again only when no goroutine holds its last job.
* **Receiver.** `stop` is how far `Receiver.Stop` has come. The shutdown of HTTP
  has its 3 s limit in the code, so it may end with handlers inside.
* **Limiter.** A `tenantLimit` is named by the goroutine that created it, so that
  two racing creations are two states. `Lookup` is the read-locked look, `Create`
  the write-locked second one, and each check one action. `denial` is the reason
  between a failed check and its `Record`; `checkSeries` records while it holds
  `seriesMu` (`SeriesMuFree`). Token buckets are counters refilled per unit of
  time. The first sweep is always due (the zero `lastSweep`).
* **RejectLog.** `ringPos` counts from 0 as in the code; `history` remembers
  every insertion. The lock around `Record` makes it one step.
* **TenantStore.** One tenant; `ingest` holds its mutex, so it is one step. The
  eviction loop is given by what it computes: the least number of oldest records
  to drop. `topServices` is `servicesBySeverity` of one severity. `accepted`
  remembers every admitted record.
* **OtlpSink.** `job`, `next` and `mirroring` are a worker's place inside
  `IngestLogs`. Exporters, external, send again after an error or a deadline.
* **FileReader.** `main` and `tail[f]` are the program counters of the goroutine
  of `Start` and of each `watchFile`; `offset`, `size` and `scanned` are the file
  offset, `fileState.size` and the lines in the scanner's buffer; `notified` are
  the write events fsnotify holds. `locked` is `mu` held for good: all other
  critical sections are single steps. `AddWatcher` may fail, as `watcher.Add` may.
* **FileInput.** `forwarder` and `loop` are the counters of `readFilesAsync` and
  of the chain of `checkInputChannel` commands; lines without text are `Blank`.
* **K8sSource.** The watchers a source has had are numbered, the last is
  `Source.watcher`; each keeps its own `entries` (`PodWatcher.streamers`) and the
  streamer its handler has entered but not started. `streamers` are all
  `PodLogStreamer`s with their program counters in `streamLogs`; `late` counts
  what one sent after its context was done. `update` and `stop` are how far
  `UpdateFilter` (the dashboard's goroutine) and `Stop` (`readK8sAsync`'s) are;
  nothing orders the two in the code. One handler per watcher stands for the
  informer of one namespace: those of several work on different pods.
* **Startup.** `secCfg` is the one `Config` that authenticator, limiter and receiver
  share, `block` what the operator wrote. `startup` is how far the program has
  come: the dropped error of the first `Normalize`, the authenticator's, the
  receiver's, `validateListenSurface`, the three surfaces in turn, the scheduler.
  An address is one of five kinds, a quota two of its ten fields: one with the
  protocol's ceiling, one without.
* **Engine, Queries.** `tenants` maps a tenant to the *name* of its state, and a
  state is named by the goroutine that made it: two goroutines that find none
  make two, and the second to lock the map keeps the first's. `at` and `task` are
  a goroutine's place and its entry or request, `held` the state it has looked up.
  Endpoints that read the state twice are two steps. `answer` is the last answer,
  with the filter it was given for. A state's `patterns` and `bySeverity` are its
  Drain3 miners: they skip blank messages, there is one for each of seven
  severities, and a full one forgets some pattern for a new one. A list of patterns
  is cut to the filter's limit or the default one, and `Heatmap` hands on the six
  levels the API does. `Ingested` evicts by the count alone: the byte budget and its
  refusal are `TenantStore`'s, and put together the two would double each other's
  states.
* **Hub.** `clients`, `send` and `closed` are the hub's set and its channels; a
  client's handler is its open connection, its write pump a program counter.
  `round` is the broadcaster's walk through the tenants, `update` the message it
  has built and not yet sent, because clients come and go in between.
* **Auth.** `config` and a request's `evidence` are records of what each method
  looks at; only a connection with TLS goes through the handshake that asks for a
  certificate. `cache` is the last document, `fetched` what a request has received
  and not yet stored; `published` is how far the issuer has rotated. `begun` and
  `disturbed` are history: what was published when a request came, and whether
  another fetch overlapped with its own.
* **LineDecoder, AppLoop.** `jsonBuffer`, `jsonDepth` and `inJsonObject` are the
  accumulator. A line is the three facts its handling depends on. `check` is the
  chain of `checkInputChannel` commands, `timers` counts the timers under way by
  their sequence number. `shown`, `indexed` and `denied` count what was handed to
  the dashboard and the engine.
* **Modals.** `open` is the set of `show...` flags; `Focus`, `KeyWindow` and
  `EscapeOrder` are the orders in which the handlers of `handleKeyPress` look at
  them. Keys that only scroll change nothing here. `requests` are the analyses
  whose command is about to run and those that ask the AI, `questions` those of the
  chat, `analyzing` and `asking` the flags of the two. Enter in the chat does not
  look at its flag.
* **LogView.** Entries are numbered; `view` is `logEntries`, the filtered copy.
  `kept` is the copy of the filters Escape restores, `processed` and `mined` what
  the pattern miner was fed. `namespaces` and `pods` are the maps of
  the Kubernetes window; what the buffer names anew is added when the window opens,
  when a namespace is toggled and with Tab. `podsStale` is history: Escape in that
  window restores the maps without renewing the view, and until the view is made anew
  `ViewIsFiltered` asks nothing of it.
* **Statistics.** `seen` is all that ever arrived, of which the buffer is the
  end; `rebuilt` and `cleared` are history, the entries the heat map and the
  memory do not know any more.

`MCServer` and `MCDashboard` hold several components that share no state the
properties tell apart. Each behaviour moves one of them, its `part`, and leaves
the others where they began: the states are those of the components one by one,
not their product.

Operators named "Mutant" stand before the definition they vary: each is a
plausible bug in the code it translates, and the property it is assigned to in
`PROJECT.json` fails when the definition is replaced by it.

## 3. What the runs show

| Run | Specification | What it asks |
|---|---|---|
| `scheduler_safety` | `Spec`, 2 tenants, 3 exporters (one keeps sending), 1 worker, queues of 1, failing sink | `TypeOK`; `ExactlyOneHolder`: never lost or duplicated; `AckedOnlyIfIngested`; `RefusedNeverIngested`; `LedgerAgrees`; `RefusedOnlyByOwnBacklog` |
| `scheduler_starvation` | `FairSpec`, one tenant keeps sending | `NoTenantFavored` **violated** |
| `contract` | `DeadlineSpec`, one exporter per surface | `ImplementsContract`: refinement of `ExportContract`; `AcceptedAreAnswered`; `CancelStopsAll`; `StopReturns` |
| `receiver_hang` | `ReceiverFairSpec` (no deadlines) | `StopReturns` **violated** |
| `server`, admission | 2 goroutines of 1 tenant, 3 kinds of export | `OneLimitPerTenant`, `RateConformance`, `SeriesBounded`, `SeriesTracked`, `RejectLogExact` |
| `server`, sink | 2 exports, 2 workers, 2 attempts | `StoreExact`, `AckMeansAllStored`, `AttemptsStorePrefixes` |
| `server`, engine | 2 ingesting goroutines, 1 reader, 2 tenants, 3 filters, 2 callers | `AnswersExact` |
| `server`, web | the engine with 2 clients | `FeedsSound` |
| `server`, auth | 2 requests, 3 documents, 7 tokens, with and without TLS, 4 configurations | `JudgedByIssuer` |
| `server`, startup | 7 blocks, 3 command lines | `ConfiguredAsMeant` |
| `file_follow` | `FairSpec`, 2 files, both modes | `EachLineOnceInOrder`, `NoSendOnClosed`, `ImplementsFeed`: refinement of `LineFeed`, `ReadModeFinishes`, `PendingLinesArrive` |
| `file_stop` | same instance | `StopCloses` **violated** |
| `k8s_streams` | `FairSpec`, 2 pods, 1 new filter, 2 streamers | `LiveStreamsTracked`, `LateLinesBounded`, `DoneStreamsEnd` |
| `k8s_stop` | same instance | `NoSendOnClosed` **violated** |
| `k8s_reconnect` | same instance | `Reconnects` **violated** |
| `dashboard`, modals | 11 windows, 18 keys, the mouse, analyses by the AI | `EscMakesProgress`, `TextIsOnlyText`, `OneAnalysisAtATime` |
| `dashboard`, chat | the same with the questions of the chat, filter and search closed | `EscMakesProgress`, `TextIsOnlyText`, `OneAnalysisAtATime` |
| `dashboard`, log | 4 entries over a buffer of 2, filters, windows, viewer | `ViewIsFiltered`, `CursorsInRange`, `PatternsCountOnce` |
| `dashboard`, patterns | 4 entries over a buffer of 2, pauses, resets | `PatternsCountOnce` |
| `dashboard`, columns | 3 default columns, 1 attribute | `CursorsInRange` |
| `dashboard`, app | all sources, 2 lines, 2 changes of the interval | `LinesAccountedFor`, `OneLiveTimer`, `EngineCountsEachEntry` |
| `dashboard`, statistics | 3 of 4 kinds of entry over 3 seconds | `StatisticsExact` |
| `quit_typed` | `MCDashboard` | `InputLivesUntilQuit` **violated** |

What they show, beyond the properties' own comments: all passing properties hold
of the code as it is, and each one fails when one of the definitions it rests on
is replaced by its mutant.

### Bounds, and why they are enough

* *Scheduler*: a queue of one place makes it full with one job, so refusal, push
  back into a full queue and failure by the dispatcher all happen with two
  exporters of a tenant. One worker gives `jobs` one place. Two tenants are
  needed for rotation and for independence; a second exporter of one tenant to
  take the place the dispatcher has freed. An exporter that keeps sending makes
  the runs unbounded in time (not in state). The safety properties and the
  refinement are proved for all values; the refinement is also a property of the
  small run `contract`, whose mutant shows that it can fail. With one exporter per
  surface that run never refuses an export, nor fails one it has accepted: these
  branches of the refinement are covered by `scheduler_safety`, where they happen, and
  by the proofs.
* *Receiver*: one exporter per surface.
* *Limiter*: two goroutines are the least that race in `tenant()` and between
  two locks. Bursts of 2 and batches of up to 2 logs meet the bucket exactly and
  one above it. Three keys against `MaxSeries = 2` with TTL 1 and `MaxTime = 2`
  let series be tracked, expire, be swept and come back. `MaxDenials = 3` over a
  ring of 2 makes it wrap.
* *Store and sink*: four attempts store up to six records over a window of 2
  entries and 3 bytes, so both budgets wrap, and one arrival evicts none, one or
  several. Three services compete for two places. Two records per export are the
  least for a prefix; the second export has a record over the byte budget; two
  workers and two attempts let a retry run beside the attempt it replaces.
* *Engine and hub*: three entries over a window of two evict one; two goroutines
  race for a tenant's creation. In the engine part an answer is read before
  anything else happens (`Answered`): nobody looks at it later. Entries lie on both
  sides of the six hours and the five minutes. A miner of two patterns forgets one
  for the third, a list of one by default leaves one out, and the entry that is
  CRITICAL and has no text is in no miner and on no heatmap of the API. A client's channel of one place is full after one message, so the
  second is skipped; `got` is a client's last message, which the next one is compared
  with. In the web part goroutines ingest two entries, one after the
  other: racing ones are the engine part's.
* *Authentication*: three documents add a key and drop the old one. Three calls of
  two requests let one fetch overlap, fail, or store an older document behind a
  newer one. The tokens have every combination of shape, key and fault the code
  distinguishes.
* *Startup*: blocks with and without credentials, limits below and above the
  ceiling, an override that leaves a field open, secrets from the environment that
  are there or not, a CA that is needed or not.
* *Files*: one line in each file at the start, two appended to either file, one
  truncation; channels of one place, so that every send may block. fsnotify and
  the kernel hold at most two unread write events of a file.
* *Pods*: one replaced filter gives an old and a new watcher; two streamers can
  be of one pod or of two, of one watcher or of both; two phase changes let a pod
  leave and come back; a channel of one place blocks the second line.
* *Modals*: two windows at once; two requests to the AI under way, so that a question
  joins an analysis or another question. The handlers ask one window after the other, so
  what is wrong with their lists shows in a pair; a third window is like one of the
  two in front of the third. `MaxRetries = 0` of the release notes: one look.
* *Log list*: two severities, entries of a namespace with and without a pod, and one with neither;
  the third and fourth entry evict the first two from the buffer of two, before or
  behind the miner's mark. A page of two lines is as long as the list. Resets come in
  the part `patterns`, which leaves filters and viewer alone, and not in the part
  `log`: what the miner is fed does not depend on the filters, and a reset does not
  touch them.
* *Program loop*: two lines are the least that make a document of several; two
  changes of the interval leave three timers to compete. The channel holds one.
* *Statistics*: minutes of two seconds, a horizon of one minute and a rate window
  of one second all pass; two of three entries fit the buffer; the memory of two
  terms is pruned by the third; the list has room for one service.

Symmetry is used in `server` only, for the two goroutines (request handlers,
workers, ingesters, verifiers, clients): no part tells them apart, and its
properties are invariants and action properties.

Deadlock checking is off in all runs: the program may stop - exporters have sent
what they had, the reader is at its end, everything has shut down - and in the
bounded runs the clock ends. That nothing waits for ever where it must not is
what the liveness properties say.

### Fairness

* *Weak fairness of each goroutine* (`Fairness`, `ReceiverFairness`): the Go
  runtime preempts and runs every runnable goroutine. The sink returns: it takes
  mutexes for short sections and does no I/O. Exporters, users, writers of files
  and the end of a request's context have none: nothing makes them act.
* *Strong fairness of a select's `ctx.Done` case* (`SelectFairness`): Go picks
  among ready cases at random, so a case that is ready again and again is taken
  in the end. Only `CancelStopsAll` needs it.
* *Kubernetes*: the informer reports every pod to the watcher in use again and
  again (its resync period is a minute); streams, pods and users have no
  fairness, so connections hold or break as they like.
* *Deadlines* (`contract` only): exporters that set a deadline, as the
  OTLP exporters of the SDKs do; `receiver_hang` shows what happens without.
* `server` and `dashboard` state safety only. `EscMakesProgress` says with
  `ENABLED` that a key can always make progress; whether it is pressed is up to
  the user.

### Findings

1. **Stop of the file reader locks itself out** (`file_stop`). In follow mode the
   goroutine that reacts to `Stop` calls `closeAllWatchers`, which holds `mu`
   and calls `cleanupFile`, which locks `mu` (filereader.go:346, 366-369). The
   comment at 373 says that Stop "closes all resources"; nothing is closed. It goes
   unnoticed because the process exits soon after. The repair has a second half:
   once the lock is not taken twice, `close(lineChan)` runs while `watchFile`
   goroutines may still send. The mutant of `NoSendOnClosed` is exactly that
   program, and TLC finds the send on the closed channel.
2. **Stop of the receiver can wait for ever** (`receiver_hang`). It cancels the
   scheduler first (receiver.go:295) and then waits in `GracefulStop` for
   handlers that wait for the scheduler's answer or their own deadline.
3. **A tenant can be starved** (`scheduler_starvation`). When the pool is
   saturated the round ends and the rotation moves past the tenant that has just
   been refused (scheduler.go:206, 216-217). The comment promises that no tenant
   is "permanently favored". In practice: one worker, tenant A always has a job
   ready; the worker frees its place while A is served, and is busy whenever B's
   turn comes. It takes timing that repeats, which the fair scheduler allows.
4. **Stopping the Kubernetes source can panic** (`k8s_stop`). The comment in
   `PodWatcher.Stop` takes the streamers for stopped when the wait group is done
   (watcher.go:296-300), but no streamer is in it (streamer.go:52): one that is
   in its select when `Stop` closes the channel (source.go:104) may take the send.
5. **A pod is not streamed again** (`k8s_reconnect`). A streamer that fails to
   open its stream or loses it ends and stays in the map of streamers, so the
   pod is skipped from then on (watcher.go:191-194). The usage guide promises
   "automatic reconnection" (guides/KUBERNETES_USAGE.md:25).

6. **A typed `q` ends the input** (`quit_typed`). The loop looks at quit keys before
   the dashboard does and cancels the application's context (app.go:543-562,
   661-664), also when the dashboard takes the key as text (navigation.go:43).
   The program goes on without its input.

Smaller observations, read from the code and not checked:

*Server.* The dispatcher that cannot push a job back answers `parse_queue_full`
(scheduler.go:209-215) without `Record`, where reject.go:54 says that the log
"records every denial"; the job is pushed back behind its tenant's others where
the comment says "at the front" (scheduler.go:204-206); a batch larger than the
burst is answered with a 429 that asks for a retry (quota.go:138); series that
went idle right after a sweep count for nearly two TTLs, where the test's comment
expects one (quota.go:155, quota_test.go:115); events are stamped before the
ring's lock is taken, so "newest first" may be off by concurrent denials
(reject.go:90, 126); a service cut from a full list of ten enters again with count
1 and is cut at once, so the list freezes (state.go:315, 344 and again in
update.go:1069-1088); `GetFrequencySnapshot` and `GetDrain3BySeverity` read a
tenant's fields without its lock (queries.go:68, 92); `querySeverityTimeSeries`
ignores a filter that has dimensions only, `parseFilters` never sets them;
`/api/heatmap` drops the counts of unknown and critical entries and the total
(api.go:160-168; the model does too, and `AnswersExact` asks for the other six levels
only), and CRITICAL has no miner of its own, so its patterns are missing from a list by
severity (model.go:285); a client that
registers after the hub's `Run` has returned is never closed; `lastLogCount` moves
on although a full client was skipped, so that client hears nothing until the next
entry; of two overlapping fetches the older document may stay in the key cache, and
a good token is refused (the excuse `disturbed` in `JudgedByIssuer`); a key the
issuer has removed is accepted as long as the cache lives; keys without an ID are
fetched only once, so a new one behind the same empty ID goes unnoticed until a token
with another ID forces a fetch (oidc.go:324); `isReservedKey` exempts
short keys, which its comment does not (identity.go:92); a Unix socket is never
served "exclusively" (config.go:30), as `Normalize` gives an empty TCP address its
default; requests that come over a surface while a later one fails to open wait
for a scheduler that is never started, because `Start` closes listeners only.

*Input.* `readFilesAsync` leaves without `fileReader.Stop` when it quits on a full
channel (app.go:527), and the forwarders of the other sources likewise; lines
written between the end of the first reading and the seek to the end are never read
(filereader.go:205); a line written in two pieces becomes two (filereader.go:297);
after a truncation nothing is read until the next write event
(filereader.go:282-286); a line of more than a megabyte ends the input without a
word; the dashboard's filter calls `UpdateFilter` with an empty label selector, so
the configured one is lost (navigation.go:977); when `UpdateFilter` fails the source
is left with a stopped watcher and the error is dropped (source.go:133-136,
navigation.go:977-980); the informer's delete handler asserts a pod and would panic
on a tombstone (watcher.go:135).

*Loop and decoding.* An open brace that is never closed swallows the lines behind
it; lines about signals are dropped from inside a document; the severity numbers
between the round ones all mean INFO; OTLP exports never enter `severityCounts`;
the end of the input and a reset append the running interval's counts once more,
and while the view is paused intervals are left out of the history; the branch for
`ManualResetMsg` in update.go:31 is never reached; after a reset the engine's
snapshot of frequencies stays until the next tick.

*Dashboard.* The help window keeps Ctrl-C to itself; Space in the Kubernetes window
sets `k8sFilterActive`, which Escape does not take back (navigation.go:223-232);
`k` with Ctrl over the log viewer shows a window whose keys go to the viewer, and
`m` in the viewer opens one that is not drawn; page down in an empty viewer selects
line -1; an answer of the AI is shown for the entry that is open when it comes, and
of two questions of the chat one stays at "Working on it..." (update.go:92: the answer
looks for that line at the end only), and the first answer ends the spinner of both; the AI's command
reads the entry when it runs and panics when there is none by then; an automatic
change to the Kubernetes columns is undone by Escape in the column window; `T`
counts only what is still buffered; the peak rate takes a whole update interval for
a second (update.go:846-870); a service is named by `service` for one panel and by
`service.name` for another.

## 4. What is proved

The theorems hold for every value of the constants that the modules' assumptions
allow; the runs check the same properties on one small instance each.

| Module | Theorem | Statement |
|---|---|---|
| `SchedulerProofs` | `TypeCorrect` | `Spec => []TypeOK` |
| | `NoneLostNorDuplicated` | `Spec => []ExactlyOneHolder` |
| | `AcknowledgedIsIngested` | `Spec => []AckedOnlyIfIngested` |
| | `RefusedIsUntouched` | `Spec => []RefusedNeverIngested` |
| | `LedgerMatchesAnswers` | `Spec => []LedgerAgrees` |
| | `OtherTenantsCostNothing` | `Spec => RefusedOnlyByOwnBacklog` |
| `ContractProofs` | `SchedulerImplementsContract` | `Spec => ImplementsContract` |
| | `ReceiverIsScheduler` | `ReceiverSpec => Spec` |
| | `ReceiverImplementsContract` | `ReceiverSpec => ImplementsContract` |
| | `NoCallOutlivesStop` | `ReceiverSpec => []`(behind `GracefulStop` no gRPC request is in a handler) |
| `LimiterProofs` | `OneLimit` | `LimiterSpec => []OneLimitPerTenant` |
| | `RatesHold` | `LimiterSpec => []RateConformance` |
| | `SeriesWithinLimit` | `LimiterSpec => []SeriesBounded` |
| | `SeriesStayTracked` | `LimiterSpec => SeriesTracked` |
| | `DenialsLogged` | `LimiterSpec => []RejectLogExact` |
| `FileProofs` | `ClosedIsNotSentTo` | `Spec => []NoSendOnClosed` |
| | `EndMeansAllRead` | `Spec => []FinishedMeansAllRead` |
| | `LinesInOrder` | `Spec => []EachLineOnceInOrder` |
| | `FileInputIsAFeed` | `Spec => ImplementsFeed` |
| | `ReportedLinesStay` | `Spec => NoneDropped` |
| `K8sProofs` | `NoPodTwice` | `Spec => []LiveStreamsTracked` |
| | `OneLateLine` | `Spec => []LateLinesBounded` |
| `ServerProofs` | `AcknowledgedIsStored` | `SinkSpec => []AckMeansAllStored` |
| | `RepeatsStorePrefixes` | `SinkSpec => []AttemptsStorePrefixes` |
| | `StoreIsExact` | `SinkSpec => []StoreExact` |
| | `FeedsAreSound` | `HubSpec => []FeedsSound` |
| | `EveryEntryInItsState` | `HubSpec => [](OneState /\ TotalsExact)` |
| | `AnswersAddUp` | `HubSpec => AnswersExact` |
| | `TokensJudged` | `AuthSpec => []JudgedByIssuer` |
| | `ConfigurationStands` | `StartupSpec => []ConfiguredAsMeant` |
| `DashboardProofs` | `TimersDieOut` | `AppSpec => []OneLiveTimer` |
| | `NeverAsksTwice` | `ModalsSpec => []OneAnalysisAtATime` |
| | `TypedTextMovesNothing` | `ModalsSpec => TextIsOnlyText` |
| | `EscapeIsTaken` | `ModalsSpec => []EscIsTaken` |
| | `EscapeTakesBack` | `ModalsSpec => EscTakesBack` |
| | `ListStaysFiltered` | `LogViewSpec => []ViewIsFiltered` |
| | `MinedOnce` | `LogViewSpec => []PatternsCountOnce` |
| | `CursorsStand` | `LogViewSpec /\ ColumnsSpec => []CursorsInRange` |
| | `NoLineLost` | `AppSpec => []LinesAccountedFor` |
| | `EveryEntryReachesEngine` | `AppSpec => []EngineCountsEachEntry` |
| | `PanelsAgree` | `StatisticsSpec => []StatisticsExact` |

Several of these properties are about sums, counts and the first or last member of a
sequence with some quality. Induction enters their proofs by one door: `UpTo` in
`LoopsProofs`, a set that has 0 and with each number below `k` the next one has all of
`0..k`. It is proved from the well-foundedness of the naturals and takes a set where the
library's theorem takes an operator. The module `Loops` states a loop over a sequence
(`PartialSums`, `Picked`) as recursive functions, and `LoopsProofs` says what they are
for a sequence that gets longer or is cut.

### Scheduler

Assumed: tenants are naturals (ranks), `TenantOf` maps exporters to tenants, the
workers are a finite non-empty set, the queue depth is at least one, sink errors are
the two reasons.

`TypeOK` is not inductive: when a round starts, the cursor stays inside the copied
list only if it was reset when the last one ended. `TypeInv` adds this
(`CursorAtStart`). The delivery properties rest on the invariant `Delivery`, a
conjunction of

* `OwnQueues`: a tenant's queue holds that tenant's exports only;
* `NoRepeats`, `HeldServed`, `OnePlace`: no export is twice in one channel or
  worker; what the dispatcher holds came from the queue it serves; and no export
  is in two places;
* `NotLost`: an export whose request waits is somewhere, or answered, or the
  context was cancelled;
* `Settled`, `Fresh`, `CalledOnce`: an answered export is in no place; one on its
  way to a worker has not been given to the sink, and one in a worker once;
* `TruthfulAnswers`, `LedgerExact`: an answer is the sink's verdict or a
  refusal of an untouched export; the log has the verdicts that were errors.

`ExactlyOneHolder` alone is not inductive: a second copy of a job could come from
a place where the property does not look, the hand of the dispatcher after an
answer. The steps are grouped by goroutine (`RequestDelivery`,
`DispatcherDelivery`, `WorkerDelivery`); the two ends of a channel are handled
once (`SendPlaces`, `ReceivePlaces`). `RefusedOnlyByOwnBacklog` follows from
`OwnQueues`. For the refinement, `ContractProofs` computes the mapped state of
one export from the invariant, and shows for each action which contract step it
is for one export and that it stutters for the others.

The receiver inherits all of this by refinement: `ReceiverIsScheduler` shows that its
steps are the scheduler's, with requests kept out while a surface is closed, or change
`stop` alone, so every theorem about `Spec` is one about `ReceiverSpec` too. What is
its own is the order of `Stop`: `StopInv` says that the context is cancelled at every stage behind the first,
and that no gRPC request is in `admitRequest` once `GracefulStop` has returned, as
none can enter from its beginning on.

### Limiter and reject log

Assumed: the quotas are naturals, an export names finitely many series, the
limiter's four reasons are among the reasons, the ring has a place.

`LimiterInv` says that a `tenantLimit` is installed for its creator's tenant only and
by nobody still about to create it (`CreatedForTenant`); that whoever is past the
lookup works with the installed one (`ChecksInstalled`), without which a second
bucket could be emptied beside the first; that what the bucket holds and what was
granted together never exceed burst and refill (`Budget`), the form in which the
rate limit is inductive; and that only an installed tracker holds series
(`TrackedInstalled`). `SeriesStayTracked` looks at one `CheckSeries` step: the sweep
drops the expired only, a refusal returns before anything is written.

The snapshot of the reject log needs what the ring holds at every position:
`RingHoldsEnd` splits it at `ringPos` into the events written since the last wrap and
the older ones behind, and `CountsExact` ties the counters to the whole history.
The lemmas about the ring come first in `LimiterProofs`; `DenialNamed` says that
what is recorded is a denial with a reason.

### Sink, store, hub, authentication and start-up

Assumed: a record is one of one export, at one place of it (`RecordsApart`: two equal
log lines are two records); sizes and budgets are naturals, the buffer has a place;
the name for "nothing" is not a state's or a connection's name; an issuer has published at
least one document, names every key, and uses no name for another key later on
(`KidsNameKeys`; a token without a key ID is looked up under "", which no document
has); a configuration block has all its fields, limits are naturals, every default is
positive and none is above the hard limit.

`SinkInv` says what of an export is stored: of one in a worker the records in front of
`next`, and the one at `next` between storing and mirroring (`PassedStored`), of an
acknowledged one all. Stored records stay, as `accepted` only grows. That a record is
never stored more often than its export was attempted is not inductive, because an
attempt that was given up still runs: `AttemptsCounted` adds to what is stored the
attempts that wait in a queue and the workers on their way to the record, and to
compare a record with the one before it, the workers between the two.

`StoreExact` has two independent halves. `WindowInv` names the position `k` behind which
the window begins: what is behind `k` fits both budgets and what is behind `k - 1` does
not; one record always fits, as an oversized one is refused. The position is one number, while the property
quantifies over all longer windows; they are compared by `SumsGrow`. `ListInv` is
the part about the services with its types, and inductive as it stands; the proof is
about the list's one change, an item that is taken out, has one more, and is put in
front of the first one with less, before the list is cut at its end.

`EngineInv` holds under `FeedsSound`: a tenant has one state, whoever has a reference
holds the registered one, and its total is what was admitted. `FeedInv` adds that a
client connects once, so a channel that was closed is never registered again
(`ClosedOnce`); that what the broadcaster last saw is not above the total
(`SeenIsReached`); and that a message in a channel or received is of the client's tenant
and older than the update the broadcaster holds (`Due`), from which the order of the
messages follows.

`AnswersExact` says of an answer, given under interleavings of any number of ingests and
requests, that it adds up. Its invariant `AnswerInv` has four parts besides
`EngineInv`. `StatesExact` says of each tenant that its state - or the one it would be
given - `Holds` exactly the entries admitted for it: the window is the end of them
(`LatestAppended` is the step of an eviction), the counts of streams
add up to all of them, those of the heatmap to the recent ones, no attribute has
more, and every service is known. `MinersExact` says of the state's miners that none
counts an entry twice, and that one with room has counted all with a text, of
its severity or of the tenant: a miner that has forgotten a pattern is full from then on.
From it follows what a list of patterns accounts for, cut to whatever limit
(`ListedExactly`, `SeverityListed`). `Scoped` says that a request under way is for a
tenant its caller may read, and `FirstLooks` that the first of two looks saw no more than
there is now. A sum over a map of counters is the number of the things counted (`SumOf` is the
cardinality of a set of units), so one lemma, `OneMore`, carries every counter
through one more entry, and the groups of a report partition the picked entries
(`GroupsAddUp`). Assumed, beyond the constants' types: the seconds of the entries, the
limits of the filters and the heatmap's cut-off are integers, and a miner and a list
of patterns have room for at least one.

`JudgedByIssuer` needs to know how old the cache is when a request looks at it a second
time. A document that was fetched was published since its request came
(`DocumentsFetched`); and a request that nobody disturbs is the only one that fetches,
so that neither the cache it looks at nor a document that is about to replace it is
older than itself (`FetchesAlone`). Without the second half another request could put
an older document over the one just fetched, which the code permits and the excuse
`disturbed` admits. `Ruled` keeps with each decision the reason it was made for.

`ConfigurationStands` rests on `MergeTwice`: a quota that `mergeQuota` has completed is
a fixed point of it, over the default for the general quota and over the general
quota for a tenant's. `StartupInv` carries this through the three `Normalize`, with what
`Start` has checked and the surfaces that are open at each stage.

### File input

Assumed: at least one file, channels of at least one place.

`ClosedIsNotSentTo` rests on `SafeInv`: a watcher that runs is registered, without
follow mode there is none, and the channel is closed by the last step of a goroutine
that is past its loops. `EndMeansAllRead` adds that each stage ends behind the one
before it (`StagesEnd`: the forwarder's end finds the reader's channel closed and
empty, the loop's the forwarder's) and where each first line is (`Reached`: processed,
in one of the two channels, in the forwarder's hand, or in a file that is not read
to its end), with `FirstLinesKept` for what the files hold. A user who quits and a
truncation are the excuses of the property, so their steps owe nothing.

`EachLineOnceInOrder` is about the lines that were taken: those processed, in the two
channels and in the forwarder's hand (`Travelled`) and those a scanner holds
(`TravelInv`). `OrderInv` adds what is still to be read: it is greater than all that was
taken of the file (`AheadInv`), and the lines of a file are in the order they were
written (`DiskInv`). The last one makes truncation work: a file that has
become shorter than the offset is read from its start, and everything in it was
written after everything that was read.

`FileInputIsAFeed` joins the two: a line that `checkInputChannel` takes is newer than all
the loop has of that file (`HeadIsNewer`, from `TravelInv`), and the end is told
when `FinishedMeansAllRead` holds behind the step. Every step of a reader, a watcher, a
forwarder or a writer is a stutter of the feed, or disturbs it.

`ReportedLinesStay` is the safety half of `PendingLinesArrive`: an unread line whose event
waits or whose watcher runs, and a line in a scanner, a channel or the forwarder's hand,
is in one of these places after every step, or processed. It needs `WatchInv`: in a
file that was not truncated line `n` is at place `n` and the offset is inside, so what a
fill leaves unread is exactly what is behind the offset; only a watched file has events,
and the file `setupFileWatcher` is at has none yet, so adding it drops no event; a
lock is lost only behind `Stop`. The step lemmas follow the parts of the file input
(`DiskWaits`, `GoroutineWaits`, `WatcherWaits`, `HopsWait`).

### Kubernetes source

Assumed: filters select among the pods, the bounds are naturals.

`LiveStreamsTracked` says of a live streamer that the entry of its pod is itself.
Inductive it becomes with `LastInUse` (only the last watcher can be in use, and none
while `UpdateFilter` builds the next), `Pointers` (entries and handlers point to
streamers of their pod and watcher, the handler's not started yet) and `LastTracked`.
`LateInv` bounds the late lines by where a streamer stands after one.

### Program loop and dashboard

Assumed: the bounds are naturals, the buffer has a place; a line is a signal line or
not, opens with a brace or not, and has a depth; the column list ends with the message
and no attribute has a default column's name; times are integers, words and attribute
keys are in the alphabet, and the windows of the panels have a place.

`TimersInv`: no timer runs under a number that was not given out, so a number
given out anew is alone. `LinesInv` says that each line taken was dropped, is in a decoded
document or in the buffer, and that the depth kept in `jsonDepth` is the sum over the
lines of the buffer; `HandOver` follows the lines through the reader's hand, the channel
and the message, also when several are taken at once. `CountsInv` says that the counts
of the interval and those of the engine together are what was shown: the tick moves
one into the other and no other message touches them.

`AnalysisInv` types the flag and the commands under way that `OneAnalysisAtATime`
equates, and `QuestionsInv` those of the chat: its flag goes up with a question and
comes down with any answer, so it is up only while a question is under way, of which
there may be several. `TypedTextMovesNothing` is a case split over the handlers in the order the keys
go through.

`EscMakesProgress` is proved in two halves that need no `ENABLED`: whoever has the keys has
something to do with Escape (`EscapeIsTaken`), and whoever takes it leaves less to take
back (`EscapeTakesBack`), so pressing it often enough leads to the bare dashboard.
`WindowsInv` is what keeps the chat from being a trap: `chatActive` is set only with the
window of a log entry open, and that window is closed only by a handler
that gets the key when the chat does not.

`ListStaysFiltered` shows of each step that it ends with `updateFilteredView`, leaves
alone what the view is made of, or begins a time in which the property asks
nothing. `MinedOnce` needs `BufferInv` (the buffer is the end of what has arrived) and
`MarkInv`: below the mark everything since the last reset was mined once, above it
nothing was, through the shift of both by an eviction. `CursorsStand` joins two
specifications, the list's (`SelectionInv`: what `Reselect` leaves is on the list,
whatever the filter picked) and the columns' (`ColumnsInv`: the window's list has at
least the default columns, so that stepping over a header ends on a column).

`PanelsInv` has one part per panel, each with what that panel remembers of what it has
forgotten:

* `HeatInv` counts for every minute the heatmap still has to keep the entries since the
  last rebuild, also for minutes no entry has;
* `RateInv` marks where in the sequence of entries each stored second begins; the
  seconds' counts are the distances of the marks, and the oldest marks go with the
  oldest seconds. Without the marks the sum over the window says nothing about
  which entries it counts;
* `ServicesInv`: a list with room has every service that was named, so a service that
  is not listed in it is new and its count is right from one; a full list
  never loses one, as a service with one entry only does not get in;
* `MemoryInv`: no word is counted more often than it occurs since the reset, and while
  the words fit, the memory's words are those that occurred; the ranks of
  `Snapshot` differ, so it lists every word once, and what pruning keeps is small
  enough;
* `LifetimeInv`: the levels that were counted are those that were seen.

### Only model-checked

Liveness under fairness, as TLAPS has no rule for `WF` and `SF` here:
`AcceptedAreAnswered`, `CancelStopsAll` and `StopReturns` of the scheduler and the
receiver, `ReadModeFinishes` of the files and that the hops of `PendingLinesArrive` never
come to a halt (that none drops a line is proved), `DoneStreamsEnd` of the
Kubernetes source. And `EscMakesProgress` itself, as it is stated with
`ENABLED`; that its two halves imply it is read off the handlers' guards. The
properties of the runs that expect a violation are refuted, not proved.

## 5. What is not modelled, and why

* Formats and time stamps, rendering, the browser's user interface: functions of
  their input, without state a model would add to.
* Drain3 clustering: a heuristic no document specifies a result for. What is fed
  to it, and when, is in `LogView` and `Engine`.
* AI, VictoriaLogs, version and release clients, standard output: single calls
  over the network or pure I/O. What the program does with their late answers is
  in `Modals` and `AppLoop`.
* In the modelled parts: TLS itself, peer credentials and headers, status codes and
  the text of details; static files, CORS and the endpoints for rejections and
  releases; globbing, files that vanish, lines written in pieces; init containers,
  several informers and the listing of namespaces and pods; flags and the order of
  shutdown in `runApp`; the mouse over windows, scrolling, the chat's history and
  the Kubernetes source behind the pod filter.

Nothing in the code restarts, persists or repeats over a network by itself except
exporters (in `OtlpSink`), the informers (in `K8sSource`) and the fetch of keys (in
`Auth`): those are the fault models.

## 6. Plan

The plan of the project has been carried out in its order: scheduler with contract
and proofs; receiver; limiter with reject log; store with sink; file input;
Kubernetes source; engine with its queries, hub and authentication; program loop
with decoder; dashboard; statistics and start-up. What would add most next:

1. The mouse over the dashboard's windows, which asks them in yet another order.
2. A set of subscribers, each seeing a subsequence of the broadcasts, as the abstract
   specification of the hub; `FeedsSound` has most of what its proof needs.
3. The status codes and details of refusals, so that what an exporter is told to
   retry can be compared with what it did.
