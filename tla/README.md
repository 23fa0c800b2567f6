# Taplytix in TLA+

Taplytix is a terminal dashboard for local telemetry: receivers take in spans,
metrics and logs, a pump moves them over a bus into an in-memory store, panels
read the store, and an alert engine evaluates rules on it. An agent can stand
on another host and forward what it receives over a WebSocket.

This directory models the concurrent core of that program, checks it with TLC
on small instances and proves the most important properties with TLAPS for all
instances. Definitions are translated from the Go code under `src/`;
`PROJECT.json` says for each definition which lines it stands for.

    tlc -config Pipeline.cfg PipelineMC      # one of the runs below
    tlapm PipelineProofs.tla                 # one of the proof modules

## 1. Inventory

| Component (source) | State | Operations | What is hard | What makes it correct |
|---|---|---|---|---|
| Ring buffer (`store/ring.go`) | `buf`, `head`, `count` | Push, Slice, Len | the index of the oldest element around the wrap | Slice is the last `cap` pushes, oldest first |
| Event bus (`bus/bus.go`) | subscribers, their channels | Subscribe, Publish, Close, SetProgram, Dispatch | Close against Publish, slow subscribers | no send on a closed channel; a slow subscriber costs nobody else anything; the order each one sees |
| Pump (`startReceivers` in `cmd/taplytix/main.go`) | the shared channel, the event in hand | receive, publish, push | overflow, a bus that might block | what the channel took is stored once, in order, always |
| Metric series (`store/timeseries.go`, `percentile.go`) | ring of samples, last value, two locks | Push, Last, Len, Values, percentiles | two locked halves of one push | readers see samples, in order |
| Service activity (`store/store.go`) | lastSeen, rings of timestamps, three locks | recordEvent, ServiceStatus | reads between the steps of a write, late timestamps | exact counts when undisturbed, lastSeen never behind |
| Trace map (`store/tracemap.go`) | traces, shared by pointer | Add, Recent, Get, Evict | roots that come late, readers without the lock | the tree and its duration depend on the spans, not on their order |
| Alert engine (`alert/engine.go`, `rule.go`) | `firing` | evaluateOnce, onBreach, onClear, Active | store written in mid-evaluation, label sets, three listeners | fires after For, resolves when clear, TUI and notifiers agree with it |
| Notifiers (`alert/notifier/`) | a goroutine per notification; a log file and its lock | Notify | retries against a deadline, goroutines overtaking each other, an endpoint that hangs | an endpoint that comes back is told, nobody waits for ever, nothing is posted again after an answer |
| OTLP receiver (`receiver/otlp.go`) | `out`, two servers, `stopped` | Start, Stop, Export and HTTP handlers, emit | two Stops at once, handlers in progress | closed once, quiet after Stop, Stop returns |
| Remote link (`agent/broadcaster.go`, `receiver/remote.go`, `agent/main.go`) | clients and their buffers; the loop's pause | fan-out, ServeHTTP; dial, read, emit | lost connections, old handlers, crashes | order without repeats, a standing connection loses only what does not encode or its buffer refused, reconnection |
| Log tail (`receiver/logtail.go`) | open file, offset, buffered text; for streams a listener, and a scanner, a channel and a reader each | open, read, rotation check; accept, scan, emit | lines half written, rotation, truncation; two goroutines per stream and a full channel | what is read once, in order, no history, the new file found |
| Prometheus receiver (`receiver/prometheus.go`) | the pause before the next scrape | scrape, convert, emit, pause | failing and hanging targets, a growing pause | seen again soon after it is well again |
| StatsD receiver (`receiver/statsd.go`) | `conn`, its socket | read, parse, emit, Stop | two goroutines and Stop over one socket | good lines counted once, whatever they travel with; it ends |
| OS receiver (`receiver/os.go`) | `pid`, the counters of the last sample | look up, read two counters, emit | processes that end, IDs that are reused, unsigned differences | shares that a process can have had |
| TUI application (`tui/app.go`, `keymap.go`) | active tab, active service, active alerts | Update: sizes, keys, ticks, alerts, service changes | messages of several commands in any order | every panel on the same service |
| Panels with a selection (`tui/panels/traces.go`, `metrics.go`, `services.go`, `overview.go`) | rows copied from the store, `selected`, a list's cursor, a filter | Update, SetSize, refresh | rows that move under the selection | the user stays on what was selected |
| Logs panel (`tui/panels/logs.go`) | viewport, `autoScroll`, filter | Update, SetSize, refresh | when to follow the tail | a followed tail shows the newest line; only the user ends it |
| Rendering, model, configuration, command line | none after start | | | |

Interactions: receivers send to one channel of 4096 events, dropping when it
is full; the pump publishes each event to the bus and pushes it into the store;
the TUI's goroutine and the engine's read the store under its several locks;
the engine sends FiredMsg and ResolvedMsg to the Bubble Tea program through
`bus.Dispatch` and starts a goroutine per notifier; on quitting, the owner
calls Stop of every receiver while the cancelled context may do so too.

## 2. Modules

| Module | Models | State and actions |
|---|---|---|
| `Window` | a sliding window of the last `Cap` values | the abstract ring the other modules use: `Slide` |
| `Ring` | `store.Ring` | `buf`, `head`, `count`; `Push`; `Slice` is the refinement mapping to `Window` |
| `Bus` | `bus.Bus` | Publish is `PublishBegin`, one `Offer` per channel, `PublishEnd`, so Subscribe, Close and receives interleave as the read-write lock lets them |
| `Pipeline` (`PipelineMC`) | the pump, the receivers' `emit`, the log rings, composed with `Bus` | `Emit`, `PumpReceive`, `PumpOffer`, `PumpPublished`, `PumpStore`, `BusUser` |
| `LossyFifo` | what the pipeline promises: refuse, never lose, repeat or reorder | refined by `Pipeline` |
| `AlertEngine` (`AlertEngineMC`) | engine, the pump's PushMetric, the TUI's list | each read of the store by `evaluateOnce` is an action (`Pick`, `CheckLen`, `Evaluate`), each half of `Series.Push` another; `Send` is dispatch and fanoutNotify |
| `ServiceActivity` | recordEvent and ServiceStatus | one action per lock taken: `RecordSeen`, `RecordEvent`, `RecordError`; `ReadNow`, `ReadEvents`, `ReadErrors`, `ReadLast` |
| `TraceMap` (`TraceMapMC`) | Add, Recent, the walk of the Traces panel | `AddBegin`, `AddInsert`, `AddDuration` under the lock; `RecentCopy` under the read lock; `Compare`, `WalkBegin`, `WalkEnd` without it |
| `OTLPReceiver` | the life of the receiver | Start in three steps, Stop in four for each of its two callers, calls with `EmitRead` and `EmitSend` |
| `RemoteLink` | broadcaster, network, remote receiver | `PumpTake`, `Fanout`; a handler per connection; `DialSucceeds`, `ReadFrame`, `EmitEvent`, `Wait`; `Cut`, `Crash`, `Restart` |
| `LossyLink` | what the link promises: some of the events, each once, in order | refined by `RemoteLink` |
| `LogTail` | `runFile` | `OpenFile`, `OpenFails`, `SeekEnd`, `Fill`, `ReadLine`, `ReadEOF`, `Stat`, `StatFails`, `Sleep`; the disk is external |
| `StreamTail` | `runTCP`, `runReader` for connections and standard input | `AcceptConn`, `CloseListener`; `Scan`, `SendLine`, `ScanEnds` of a stream's scanner, `EmitLine`, `ReaderEnds` of its reader; the writers are external |
| `Prometheus` | run, scrapeOnce, the series of convertFamily | `Answered`, `Asked`, `ScrapeFails`, `Emit`, and the ends of the pauses; the target is external |
| `StatsD` | run, the goroutine that closes the socket, Stop, which lines parse | `Check`, `ReadDatagram`, `NextLine`; `Watch`, `Stop` |
| `OSSidecar` | run and sampleLinux | `Lookup`, `ReadStat`, `ReadHost`, `ReadHostFails`, `ReadRSS`; processes are external |
| `Sources` (`SourcesMC`) | startReceivers' choice among the five above, over one context | each receiver's steps while `kind` says it is the one; their properties as one |
| `Notifiers` | fanoutNotify and the three Notify methods | `Launch`; `NotPosted`, `Accept`, `Refuse`, `Hang`, `Cut`, `TryAgain`, `GiveUp` of a webhook's goroutine; `LockLog`, `OpenLog`, `WriteLog`, `LogFails`; `Ring`; `NotifierTick` is a second |
| `Dashboard` (`DashboardMC`) | `AppModel.Update` and the Traces, Metrics and Services panels | the store's pump (`Push`), `Tick`, `ServiceChanged` for any message on its way, `WindowSize`, `Quit`, `ChangeTab`, and `PanelKey` for the panel shown; `TracesRefreshed`, `MetricsRefreshed`, `ServicesRefreshed` are the panels' refresh |
| `LogsPanel` | the Logs panel and the rings it reads | `PushLog`, `LogsTick`, `LogsServiceChanged`, `SetSize`, one action per key; `RefreshLogs` replaces the lines |
| `Lists` | the loop that appends what passes a test | `Kept`, a recursive function that `Dashboard`, `StatsD` and `ServiceActivity` use |
| `ListProofs` | | induction over numbers, and the lemmas about `Kept`, `FlattenSeq` and the rest of the sequences that the other proofs cite |
| `ActivityProofs` (with `Ring`), `PipelineProofs` (with `Bus`), `AlertProofs` (with `Notifiers`), `TraceMapProofs`, `RemoteLinkProofs`, `PanelProofs` (`Dashboard` and `LogsPanel`), `ReceiverProofs` (`Sources` and `OTLPReceiver`) | | theorems and their proofs |

`Ring` implements `Window`. `ServiceActivity` keeps its events in a `Ring`, whose
indices wrap in the middle of `recordEvent`, and its errors in a window;
`Pipeline`, `AlertEngine` and `LogsPanel` keep their rings as windows. `Pipeline`
extends `Bus` and acts through its actions. `Sources` extends `LogTail` and
instantiates the other receivers over the same `cancelled`; `AlertEngine`'s `Send`
is where the notes of `Notifiers` come from. Definitions named "a mutated form" are plausible bugs, kept beside
the definition they would replace; each property is known to fail with one of
them in place, which `PROJECT.json` records under "mutants".

Variables marked "history" record what happened for the properties and never
guard an action.

### Abstractions worth knowing

- Timestamps are small integers; the alert engine counts in its own ticks, and
  an entry's age is held at `MaxAge`, which no rule's For exceeds.
- Floating point is left out: values are integers and the percentile's rank is
  the exact ceiling of p/100 * n.
- The read-write locks' preference for writers is left out; it only decides how
  long somebody waits.
- `TraceMap`: a map of Go that is read while it is written is a fatal error when
  the runtime notices. `race` keeps what happened. After an unnoticed race the
  behaviour goes on (a sort in place may have lost a sibling to an append), and
  the properties of the trees are stated up to the first race.
- `TraceMap`: a trace has one root, and no span starts before it
  (`SpansAssumption`). A second root would replace the first.
- `LogTail`: a line is two pieces; a bare newline that ends a line begun before
  is taken for text, which `emitLine` would drop. Two files never share an inode.
- `RemoteLink`: an event's frame is the event; frames over the read limit of
  1 MiB are the set `Big`, events that do not encode the set `Unsendable`. A frame
  too big ends its connection.
- `Dashboard`: a refresh reads the store in one step, and may find the traces in
  any of `TraceOrders`, since a late root changes a trace's start time. The list component of the
  bubbles library is external: new rows leave its cursor where it was or, when
  they are too few, bring it anywhere above; a key puts it on any row. Services
  are numbers in the order of their names. The Logs panel only has its service
  there.
- `LogsPanel`: an entry is its timestamp and whether the filter matches it; a
  timestamp may come again once nothing holds it. The viewport is external: its
  last offset, its bottom, and where new content or a key may leave it.
- `Notifiers`: time is in seconds and passes when nothing is due; a request that
  hangs may have been taken, and its endpoint may answer it when it is back; so
  may one that is answered with an error, another status or a reset.
- `Prometheus`: seconds too. A scrape is parsed as a whole; of a histogram's
  buckets and a summary's quantiles, told apart by a label, one stands for all.
- `OSSidecar`: the counters are words of `Word` values; that the process has a
  name that matches, another, or is gone is all that is known of it. Our own ID
  is not among `PIDs`.
- `StatsD`: of a line, whether it has a colon, a number and which type.
- `Sources`: the receivers share nothing but the context and the channel, so one
  source at a time has all their behaviours; a source of a kind that is not the
  run's rests. Receivers are started once, as the program does.
- `OTLPReceiver`: GracefulStop waits for running gRPC calls without bound,
  Shutdown gives up after two seconds, and so always returns.

## 3. Runs

| Run | Configuration | Checks |
|---|---|---|
| `pipeline` | sources of three events and one, channel of 1, subscriber buffers of 2, log rings of 2, two subscribers | `LogsInEmissionOrder`, `NoSendOnClosed`, `NoSilentLoss`, `SubscribersSeeStoreOrder`, refinement of `LossyFifo`, `AcceptedIsStored` |
| `alert_engine` | a last-value rule with For of 2 ticks and a percentile rule, one service, a metric with two label sets, one of them empty, series of 1 sample | `TuiFollowsEngine`, `NotifiersFollowEngine`, `FiresOnlyAfterFor`, `ResolvesOnlyWhenClear`, `AlertsSettle` |
| `activity` | rings of 2, windows of 1 and 2 ticks, four events, timestamps up to one tick off | `LastSeenCoversRings`, `QuietReadIsExact`, refinement of `Window` by the circular ring |
| `notifiers` | two notes; a webhook, or a bell and a log file; 3 attempts of 5 s, pauses of 1 s, 10 s in all, as in the code | `RecoveredEndpointIsReached`, `DeadlineIsKept`, `RepeatedOnlyWhenUnsure`, `LogTellsSettledNotes` |
| `traces` | four traces, eight spans, five arrivals | `DurationIsOrderFree`, `SpansAreKept`, `RootedListIsSorted` |
| `otlp` | two gRPC calls, one request, up to two events each | `ClosedAtMostOnce`, `StoppedIsQuiet`, `StopReturnsUnlessInCall` |
| `remote_link` | four events, of which one does not encode and two may be too big, all buffers of 1, one fault, pauses up to 2 | `LostOnlyIfRefusedOrUnsendable`, refinement of `LossyLink`, `Reconnects`, `StopEnds` |
| `sources` | a file of two lines, rotated once and truncated twice; two streams of three lines, the second too long, channel of 1; a timeout of 5 s, an interval of 2 s, pauses up to 32 s; two process IDs, two processes, two units of CPU time, words of 16 values; two datagrams of three lines | `EmittedInOrder`, `NoHistory`, `RecoversInTime`, `ShareIsBounded`, `WrittenIsEmitted`, `FollowsRotation`, `EndsWhenCancelled` |
| `dashboard` | two services, two metrics, three traces in any order, of which the list shows two, two messages on their way | `PanelsAgree`, `SelectionSurvives` |
| `logs_panel` | two services, three timestamps, rings of 2, windows of one line or two | `AutoIsAtBottom`, `PausedByScrollingUp`, `TailIsFollowed` |
| `otlp_shutdown` | one gRPC call | `StopReturns` is violated |
| `trace_race` | four arrivals | `NoConcurrentMapAccess` is violated |

What the runs show, beyond the names: what the receivers' channel took reaches
the store once and in order with any subscriber asleep (`pipeline`); an alert
that stays in breach ends up on the status bar and one that stays clear off it,
although each evaluation may look at another label set (`alert_engine`); a
webhook's endpoint that stays up for a timeout and a pause is told, and it takes
a note again only after an attempt whose 2xx the webhook did not see: it was late,
or the answer was a 500 or a reset (`notifiers`). What is read of a file is emitted
once and in order through rotation and truncation, and so are the good lines of a
datagram among its bad ones; of a stream that holds up to its first line over
1 MiB, which ends it and costs every line behind (`sources`). Every receiver ends
when told to, from wherever it waits. A standing connection of the remote link
loses what its own full buffer refused and what does not encode, a NaN or an
infinite value, which no client ever gets (`remote_link`).

**Why the bounds are enough.** Each is the least at which the case the run is
about happens, with one to spare where that is affordable. Buffers of one or two
fill within the run and drain again, so overflow and room alternate;
log rings of two wrap on the third. Two subscribers are what it
takes for one to be slow and the other not. Two connections are possible on
the remote link (a fault, which a frame too big is too, costs at most one), so
the handler of a lost connection lives beside its successor, and an agent that
crashed meets the dashboard of before. A pause that doubles once has grown. Two
notes are a FIRED and the RESOLVED that may overtake it; the notifiers' durations
are those of the code, since it is their sums that matter, and so are the
scraper's. Two files and two truncations give each order of rename, creation,
truncation, stat and open. Two IDs and two processes let one end before it is
found, between two reads and between two samples, and leave its ID to the other;
two units of CPU time make the differences uneven, and in words of 16 values an
underflow is larger than any share. One good line fills a channel of one, a good
line stands before the one that is too long and another behind it, and the bad
lines of a datagram come before, between and after good ones. Five
arrivals let three rooted traces be sorted while a fourth thing happens, and a
child arrive before its root, after it and twice. Three traces in a list of two let
the selected one move and fall out of the list, and two of them have one
identity, as halves of a trace that two services share. Two messages on their
way can overtake each other. Three timestamps under a window of two lines let
the tail be longer than the window and its ring lose the oldest.
`AlertEngine`'s series keep one sample, so a percentile is of that sample; it
still differs from the last value between the two halves of a push.

**Deadlock.** The check is on in `pipeline`, `alert_engine`,
`activity` and `logs_panel`, whose systems run for as long as the program
does; since some action of their environment is always possible there (a push, a
Close, a tick, a read), that nobody waits for ever is said by the liveness
properties. The other runs turn it off because those systems really stop: a
receiver that is stopped, a source that is cancelled, an agent that is gone, notes
that are told or given up, spans that have all arrived, a program that has quit.

**Fairness.** Only goroutines the Go scheduler runs are assumed to go on: the
pump, the engine, the TUI's loop, a call's handler, a Stop in progress, the
broadcaster's handlers, the remote loop, and each goroutine of a source. In
`OTLPReceiver` Stop and the calls have strong fairness: they wait for a mutex, and
a `sync.Mutex` lets nobody starve. In `Sources` the OS receiver's look at its
context has it: a select with a tick and a done context both ready takes either
at random, so not the tick for ever. The tail's open and its stat have it too:
either may fail, and a file that is there again and again does not refuse every
one. No error has to happen. The engine's ticker ticks, and the program
re-arms its own tick at every tick. `Notifiers`, `TraceMap`, `ServiceActivity` and
`Dashboard` state none: their properties are about what never happens, the
deadline of `Notifiers` being one on what time may do. Nothing is assumed of the
environment: no event has to arrive, no subscriber to read, no file to be
written, no endpoint to come back, no agent to be restarted, no user to quit.

## 4. Disagreements between code and documents

Shown by a run:

- `otlp_shutdown`: Stop calls `GracefulStop` with `r.mu` held (`otlp.go:88`),
  which waits for a running Export call, whose `emit` waits for `r.mu`. Neither
  ends, and `q` does not quit. `receiver.go:7`: receivers "respect ctx
  cancellation for shutdown".
- `trace_race`: the TraceMap "is safe for concurrent use", but hands out
  pointers whose maps `Add` writes while the TUI reads them.

Seen while modelling, without a run of their own:

- Over SSH no program is attached to the bus (`main.go:194`), so the status bar
  shows no alerts.
- Two rules of one name share an entry of `firing` (`engine.go:105`); a rule
  that is not in breach resolves the other's alert. `FiresOnlyAfterFor` is proved for rules of different names.
- With several label sets `findSeries` may return an empty series, and an alert
  is then resolved although every series with samples is in breach.
- Between the halves of a series' first push its last value is a zero that was
  never a sample, and a rule with `<` fires on it.
- `ServiceStatus` counts events and errors under different locks: the error rate
  may exceed 1. Its counts stop at the 4096 newest timestamps, and Connected
  goes by the timestamps the sources give.
- The agent "forwards every event received on its input channel" to all clients
  (`broadcaster.go:1`); one that JSON cannot hold, as the gauge `x:NaN|g` makes, is
  passed over for all of them (`broadcaster.go:46`), and a client whose buffer is
  full misses what it has no room for.
- A webhook that answers 500, or whose connection breaks, is posted to again,
  though it may have taken the note (`webhook.go:64`).
- A value that is NaN or infinite makes a webhook's payload impossible, so that
  alert is never posted (`webhook.go:47`); nobody reads the error.
- The remote receiver's pauses reach 32 s where src/README.md:316 says 30 s, and are
  never reset: `connectAndPump` never returns nil (`remote.go:76`).
- A log line whose end is not yet written when the tail reaches it is emitted in
  two parts (`logtail.go:172`), lines written to a new file before the tail
  opens it are skipped, and after a truncation the tail waits at the old offset.
- `TraceMap.Evict` is called by tests only, so traces are never dropped.
- `Recent` is documented as "newest-first by root start time"
  (`tracemap.go:61`). A trace without a root compares by whichever child the
  map's iteration yields at each comparison, so the comparison is no order and
  even traces that have a root may come out in the wrong one. The `traces` run
  checks the order of lists in which every trace has its root.
- `q` typed into a filter quits: the program matches its own keys before the
  panel's (`app.go:91`), where src/README.md:365 takes everything else for the text.
- `applyFilter` of the Metrics panel leaves `selected` (`metrics.go:172`), so
  after filtering no detail is drawn until a key or a refresh that finds the
  metric again.
- When the selected trace has left the list, `selected` becomes 0 but the list's
  cursor stays (`traces.go:199`): until the next tick the row that is
  highlighted and the waterfall may be of two traces. The search is by trace ID
  alone, so of a trace two services share it may find the other half.
- The Services panel puts its cursor back on the active service at every tick
  (`services.go:135`), while the user is on the way to another.
- The messages of two quick choices of a service travel in two goroutines; if
  they overtake each other the older choice wins, in every panel alike.
- The command of `Init` reads `activeService` in its own goroutine
  (`app.go:74`), unsynchronised with Update.
- "Three retry attempts" (`webhook.go:16`): at an endpoint that hangs the first
  takes five seconds and its pause one, the second is cut by the ten seconds of
  `fanoutNotify`, and there is no third. `RecoveredEndpointIsReached` says what
  the attempts are good for.
- The webhook's payload (`webhook.go:28`) is the same for an alert that fires and
  one that resolves, and the goroutines of the two may overtake each other
  (`engine.go:194`), in the log file as well: RESOLVED may stand above FIRED.
- The bell "writes the ASCII BEL character ... when an alert fires" (`bell.go:11`), and
  rings when it resolves too.
- The scraper's pause reaches 32 s where a comment says "up to 30s"
  (`prometheus.go:92`): 16 is doubled.
- The OS receiver looks a name up until it finds it and never again: when the
  process is restarted it reports nothing, and when its ID is taken over it
  reports the other one, with a difference that underflows at the first sample
  (`os.go:168`). When /proc/stat cannot be read the host's counter is kept as 0,
  and the next share is divided by all the time since the host was started.
- Of a stream a line longer than 1 MiB ends the scanner without a word
  (`logtail.go:204`), and so the stream: every good line behind it is lost.
  `runReader` never closes its connection;
  cancelled, it leaves its scanner in a read, or for ever at a full channel.
- `main.go` never sets `Listen` (`main.go:313`): a log source that listens can only
  be had from code.
- A file that is truncated below the offset and grows past it again before the
  tail reads loses what lies between.
- The Overview clears none of its histories when the service changes
  (`overview.go:101`), so its spark-lines mix services for a while.
- Auto-scroll is paused by any message that reaches the panel between a window
  growing smaller and the next refresh (`logs.go:112`).

## 5. Proofs

Each theorem holds for every value of the constants that their ASSUMEs allow.

| Theorem | Says | Argument |
|---|---|---|
| `RingTyped`, `RingImplementsWindow` | for every capacity the indices stay in range and the buffer implements `Window` | `TypeOK` is inductive; a push below capacity and one at capacity are separate cases, each with a lemma about the indices modulo the capacity |
| `ActivityTyped`, `LastSeenIsAhead` | `lastSeen` covers every timestamp in the rings, in mid-push too | `Covered` adds that `lastSeen` covers the event being pushed |
| `ActivityKeepsWindow` | the ring inside a service's activity implements `Window` between any reads | the ring's own step lemmas, under the types of the activity |
| `QuietReadsAreExact` | a status that no push overlaps counts the newest events and errors, and is connected by the latest timestamp ever | `Exact`: each ring holds the timestamps of the newest of what arrived, but for the event being recorded (`RingsTell`); `lastSeen` is the latest (`LastIsLatest`); what an undisturbed reader has read is still there (`ReaderFollows`). The errors are `Kept` of the arrivals, which one arrival more extends or leaves |
| `BusTyped`, `BusNeverSendsOnClosed` | for any publishers, subscribers and buffers no publisher meets a closed channel | `NoSendOnClosed` needs `ClosedIsGone`: no closed channel is in the list of subscribers |
| `BusLosesNothingSilently`, `PipelineLosesNothingSilently` | an event is lost to a subscriber only by its own full channel | inductive with the types: each step moves an accounted event from being offered into a channel, to its subscriber, or to what a full channel refused |
| `PipelineTyped`, `PipelineInTransit`, `PipelineImplementsLossyFifo`, `PumpNeverSendsOnClosed` | for any sources, quotas and capacities the path is a lossy FIFO | `PipelineInv` = types and `InTransit`, which equates what was accepted with what is stored, in hand and in the channel; a step of the pipeline is then a step of `LossyFifo` or a stutter |
| `PipelineLogsInOrder` | each service's ring has its own events only, in their order | `InOrder`: what is on its way is ordered by source, newer than what the ring has and no newer than what was emitted |
| `PipelineSubscribersFollowStore` | each subscriber sees what the store is given, in that order, never twice | `SeenInv`: what a subscriber saw is a subsequence of what the pump was given, no subscriber is listed twice, and who has still to be offered the event has not seen it |
| `AlertEngineTyped` | types and `EngineShape`: where the evaluation is determines what is picked, outgoing and stale, and an entry that fired is held | inductive with the types; one lemma per action |
| `TuiFollowsAlerts` | with a program attached the TUI's list and the engine's agree up to the messages on their way | on top of `EngineShape`: a message is outgoing exactly between the change of an entry and `Send` |
| `NotifiersFollowAlerts` | each notifier was last told of exactly the active alerts | `Told` relates `notified` to `firing` and the outgoing message |
| `AlertsFireOnlyAfterFor` | for rules of different names no alert fires before its rule was in breach for its time | `AgeIsEarned`: a held entry is no older than the unbroken run of breaches of its rule |
| `AlertsResolveOnlyWhenClear` | for rules of different names an active alert is resolved only while a series of its metric is clear, or as stale while the metric has several series | `Supported`: an active alert has a filled series behind it, so a pair left without seeing it in breach (`UnseenAreSeveral`) had drawn another, empty one; the series present are finitely many |
| `NotifiersTyped`, `EndpointReached`, `DeadlineKept`, `RepeatedWhenUnsure` | for any durations, attempts and notes: an endpoint up for a timeout and a pause is told, no note outlives its deadline, a note is taken again only after an attempt that was taken and whose 2xx was not seen | `HookInv`: for each note, how long the endpoint has been up is bounded by where the attempt is, an attempt's time by the timeout, the note's age by the deadline, and what was posted by what was lost and what is taken now |
| `LogTells` | the file has one line for each note written, below what was written when it was launched | `LogInv` adds that what was written before a launch stays written; the lock keeps one writer |
| `SpansKept` | for any spans, in any order and repeated, none is lost from its trace before a race | `Shape`, the types of the map without its durations: with a root that is never replaced by another, an arrival adds its span and takes none away |
| `DurationOrderFree` | the duration of a trace is that of its spans, whatever order they came in | `DurationInv`: the spans of a trace are those added to it and have a latest end, which grows with each (so no induction over sets is needed); between Add's two steps a duration is still that of the spans before |
| `TracesAreTyped` | the types of the map, after a race too: no duration is below zero | inductive beside `MapInv`; a race may cost a list of children a span but not the trace its root, and the latest end of what is left, which exists by induction on the children, is not before the root's |
| `RootedSorted` | a list whose traces had their roots is sorted when it is shown, whatever is added meanwhile | `Sorting`, the loop invariant of the insertion sort: all up to `si` are in order but for the one at `sj`, which has passed smaller ones only; and a root, once there, stays |
| `ReceiverTyped`, `ReceiverClosesOnce`, `ReceiverStopsQuietly` | any calls, any transports: closed once, quiet after Stop | `OTLPInv`: the holder of `mu` is the one Stop in progress, Start comes before any Stop, what is taken down stays down, sends are counted |
| `RemoteLinkTyped`, `RemoteLinkImplementsLossyLink`, `LinkLosesOnlyRefusedOrUnsendable` | for any events, faults, buffers and connections: what the dashboard gets is some of the events, each once and in order, and a standing connection loses only what does not encode and what its buffer refused | `LinkInv`: on each connection wire, frame and buffer are in order, older than what is offered to it and than the agent's channel (`Lane`, `Ahead`); what was received is older than all that may still come over its connection (`Read`); a connection not yet made is blank (`Fresh`). Order alone would not be inductive: an old handler and a new one serve the same events |
| `SourcesEmitInOrder` | for any rotations and truncations what is read of a file is emitted once, in its order; the good lines of a datagram are; the lines of a stream are up to the first that is too long, and nothing behind it | `FileInv`: the files hold what was written in its order, and what lies ahead of the offset is newer than all that was read (`AheadIsNew`); `StreamInv`: what was heard and what is in a stream's channel are its first lines (`LinesInTransit`), a scanner that ended has scanned all that came or stands before a line that is too long (`ScannedUpTo`), and a reader that ended uncancelled has emptied the channel (`ReaderDone`); `DatagramInv`: what was counted is the good lines of the datagrams taken, the last one up to its line |
| `HistoryStaysUnread` | what the file held at the start is never emitted | `SkippedIsOld` and `EventsWereRead` of `FileInv`: what was skipped is older than all that was read, and an event has only what was read |
| `ScraperRecoversInTime` | a program that is well is seen within a timeout and the longest pause, for any of them | `PromInv`: while it is well, the time since it turned well and the time still to wait are within what was to wait when it turned (`IsSeenSoon`); the pauses are the powers of two up to the first beyond the ceiling |
| `ShareStaysBounded` | no process is reported with more than the host's time, but for what passed between two reads | `OSInv`: how the two counters of a sample, and the one just read, lie to what the process and the host have used since (`SinceSample`, `SinceRead`), so that the differences of words are those of numbers |
| `SourcesTyped` | the types of the five receivers of `Sources` | inductive beside `SourcesInv`: a file never holds more lines than were written (`FileBounded`), no wait of the scraper is longer than the longest of its interval, timeout and pauses, a difference of words is a word |
| `DashboardTyped`, `PanelsAlwaysAgree` | for any data and any order of the messages the panels are on one service once no message is on its way | `AppInv`, the types and `PanelsAgree`: a message changes all panels, a choice sends one |
| `SelectionAlwaysSurvives` | a refresh leaves the user on what was selected, if it is listed | an action property of the types alone: the first index at which the new list has it is one, by the least element of a set of numbers |
| `LogsPanelTyped`, `AutoScrollIsAtBottom`, `AutoScrollIsKept` | for any services, capacity, logs and windows a followed tail is at its bottom, and only scrolling up or a resized window ends it | `LogsInv`, the types and `AutoIsAtBottom`: a refresh re-establishes it, and a viewport that is no longer at its bottom was there before it moved up |

Assumptions on constants are the ASSUMEs of the modules (capacities are
positive, thresholds are integers, calls of the two transports are different, a
trace has one root and no span before it, the host's counter fits its word); the
runs evaluate them. `TuiFollowsAlerts` assumes `HasProgram`, `AlertsFireOnlyAfterFor`
and `AlertsResolveOnlyWhenClear` assume `UniqueNames`. A proof module may extend two
components that share nothing (`Dashboard` and `LogsPanel`, `AlertEngine` and
`Notifiers`, `Sources` and `OTLPReceiver`): the second one's `Init`, `Next` and `Spec`
carry its name, and its theorems are about its own specification.

Where a proof needs induction it takes the set of the numbers for which the
claim holds: `SetInduction` (`ListProofs`) says that such a set with 0, and with
n + 1 for each of its n, is `Nat`, from the well-foundedness of `<`. The results of
`Kept` and `FlattenSeq` are reached that way: a function on the indices with their
recursion exists, so it is the one they choose.

Every safety invariant and action property that a run checks is proved. Only
model-checked is liveness, since TLAPS proves nothing under fairness here:
`AcceptedIsStored`, `AlertsSettle`, `TailIsFollowed`, `Reconnects`, `StopEnds`,
`StopReturnsUnlessInCall`, `WrittenIsEmitted`, `FollowsRotation`,
`EndsWhenCancelled`. The type invariant of every module with theorems is a
theorem too, which no run repeats.

## 6. Not modelled

- What has no state: the conversion of OTLP payloads, log lines, StatsD's values
  and tags, and wire frames; rendering and layout; the event model.
- What the Overview computes from the spans it reads (rates, percentiles, top
  operations): arithmetic over one reading of the store.
- Configuration, flags and the command line; the SSH server's sessions, which
  each run the TUI of `Dashboard` without a program on the bus.
- `sampleDarwin` of the OS receiver, which asks `ps` and keeps nothing.
- `TraceMap.Evict`, which only a test calls, and the read-only accessors of the
  store (`Get`, `Len`, `Cap`, `Values`, `Buckets`).
- The HTTP servers' own life beyond what Stop does to it.

Components are "partly" where one of these is theirs.

## 7. Order of the work

`Ring`, `Bus`, `Pipeline`, `AlertEngine`, `ServiceActivity`, `OTLPReceiver`,
`RemoteLink`, `LogTail`, `TraceMap`, `Dashboard`, `LogsPanel`, `Notifiers`,
`Prometheus`, `OSSidecar`, `StatsD`, `StreamTail`, `Sources`: most important first,
each with its proofs where it has them.

What could follow: the Logs panel and the Dashboard over one store; several programs over
SSH on one store.
