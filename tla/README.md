# Verification of the metrics pipeline

TLA+ specifications of the metrics pipeline, the TLC configurations that check
them on small instances, and TLAPS proofs of every safety property and both
refinements for every instance. `PROJECT.json` lists components, runs, the map from definitions to
source lines, findings, hazards and theorems.

    tlc -workers 2 -config MetricConsumer.cfg MCMetricConsumer
    tlapm MetricConsumerProofs.tla        (the same for the other ...Proofs modules)

## 1. The system

Producers post batches of samples to the **API**. The API validates a batch,
publishes it to RabbitMQ with publisher confirms and answers 200 once the broker
confirmed. **Workers** consume the ingest queue, expand messages into metric
points, and flush points to PostgreSQL in batches; each flush also numbers one
event per task and writes it to the event table and the outbox in the same
transaction. A **relay** in the workers publishes outbox rows to a fanout
exchange. Each API process has a **bridge** that reads that exchange and a
**hub** that passes events to the **SSE handlers** of its clients; a client that
reconnects with `Last-Event-ID` gets what it missed from the event table. A
**maintenance** goroutine in each worker creates day partitions and deletes what
is older than 168 hours. The API also answers history, summary and audit queries
from the points. A **migrate** command brings the schema up to date before the
services start, and a **simulator** posts batches and then audits what arrived.

    HTTP ingest -> publisher pool -> [ingest queue] -> consumer -> flush transaction
                                                                    |  points, counters,
                                                                    |  events, outbox
    SSE client <- handler <- hub <- bridge <- [event exchange] <- relay <-+
                     ^---------- replay from metric_events --------------+
    history, summary, audit <- metric_points

| Component | State | Operations | Hard because | Correct when |
|---|---|---|---|---|
| Publisher pool (`messaging/publisher.go`, `transport/http/ingest.go`) | jobs channel, a session per worker, confirm and return channels | submit, publish, confirm, retry, close | timeouts race late confirms; returns and confirms come on two channels; Close races requests | 200 means queued; every request is answered; Close returns |
| Consumer (`messaging/consumer.go`) | session, delivery channel, buffer, timer, `deliveryState` | receive, reject, append, flush, ack, nack, reconnect, shut down | a flush holds parts of several deliveries, a delivery spans flushes; lost acks; crashes between commit and ack | acknowledged means durable; settled once; nothing forgotten |
| Flush transaction (`postgres/metric_point_store.go`, `persist_metric_flush.sql`) | points, counters, events, outbox | seed, insert, lock, number, commit, roll back | concurrent transactions, statement snapshots, a sequence that is not transactional | events of a task are 1, 2, 3, ...; each point in one event |
| Outbox relay (`messaging/outbox_relay.go`, `postgres/outbox_store.go`) | claims (token, lease), retry delay, advisory lock | elect, claim, publish, mark, release | two leaders after a lost lock, expired leases, failures in the middle of a batch | order within a task; published means sent; everything is published |
| Bridge, hub, SSE (`messaging/event_bridge.go`, `sse/hub.go`, `transport/http/stream.go`) | last number per task, subscriptions, channels, cursor | take, publish, subscribe, replay, stream, close | subscription, bounds, query and live events interleave; bounded channels under a lock | streams increase without holes; the hub does not block |
| Maintenance (`postgres/partition_maintainer.go`, migrations 1 and 2) | partitions, rows, cutoff | ensure, drop, delete in batches | midnight, several workers, old cutoffs, flushes that rely on partitions | recent points can be stored; nothing is deleted early; expired rows go |
| Ingest validation, codec (`transport/http/ingest.go`, `messaging/message.go`, `validateDelivery`, `encodeMetricPoints`) | none | check, encode, decode, expand | the same limits are written down in four places | what the API accepts, nothing behind it refuses |
| History, summary, audit (`transport/http`, three SQL files) | none (queries) | read | one bucket width for keys of different spans; ties in time; steps that go back | no series beyond max_points, nothing lost in buckets, the queries agree |
| Migrations (`postgres/migrate.go`, `cmd/migrate`) | `schema_migrations`, advisory lock | discover, lock, check, apply, record | concurrent migrators of two releases, a commit nobody hears of | each migration takes effect once, in order, and is recorded |
| Lifecycle, health (`app/api/run.go`, `app/worker/run.go`) | readiness, listeners, goroutines, error channels | start, serve, fail, stop | SIGTERM at any time, open streams, shared error channel, errgroup | exit code 0 can be trusted; a stop ends; a failure heals |
| Configuration (`config/config.go`) | none | load, validate | checks under SERVICE_NAME, constructors under the process that runs | what Load accepts the constructors accept |
| Simulator (`simulator/simulator.go`) | generator, history, expectation per task | post, repeat, drop, audit | audits while workers store; counts instead of points | a pass means stored; a correct run passes |
| Topology, logging, health check command, performance tool | - | - | - | not modelled (section 8) |

## 2. Modules

| Module | Models | Notes |
|---|---|---|
| `DeliveryContract` | what the consumer promises | abstract, four variables |
| `MetricConsumer` | all workers' consumers, the ingest queue, the sink | refines `DeliveryContract` |
| `MetricConsumerProofs` | - | theorems about `MetricConsumer` |
| `EventLog` | what a flush promises, as an atomic append | abstract |
| `MetricPointStore` | concurrent flush transactions | refines `EventLog` |
| `OutboxRelay` | relays over `metric_outbox` | its `AppendEvent` is what `MetricPointStore` guarantees |
| `EventStream` | one API process, one task | its `RelayEvent` is what `OutboxRelay` guarantees |
| `IngestPublisher` | publisher pool and its callers | |
| `PartitionMaintenance` | maintenance passes and the partitions of a flush | |
| `IngestCodec` | checks and conversions from a request to a row | operators |
| `MetricQueries` | history, summary, audit | operators over a set of points |
| `Pipeline` | API, queue, workers and table, reduced to what their modules promise | composes `IngestCodec` and `MetricQueries` |
| `Simulator` | the simulator against `Pipeline` | its `FairSpec` is the run's |
| `Migrator` | migrate processes on one database | |
| `ServiceConfig` | config.Load and the constructors' checks | operators |
| `ServiceLifecycle` | one API or worker process and its supervisor | uses `ServiceConfig` |
| `Deployment` | migrators, then a service | composes `Migrator` and `ServiceLifecycle` |
| `MC...` | constants for TLC | |
| `MetricPointStoreProofs`, `OutboxRelayProofs`, `EventStreamProofs`, `IngestPublisherProofs`, `PartitionMaintenanceProofs` | - | theorems about the module of the name |
| `DeploymentProofs` | - | theorems about `Deployment`, and through it `Migrator`, `ServiceConfig` and `ServiceLifecycle` |
| `SimulatorProofs` | - | theorems about `Simulator`, and through it `IngestCodec`, `MetricQueries` and `Pipeline` |

How state and actions correspond to the code:

* **MetricConsumer.** `pc[w]` is the position in Run / consumeSession / flush:
  `connecting` (Run before openSession), `select`, `append` (the loop over the
  points of a delivery), `flush` and `committed` (inside sink.Flush, before and
  after its commit), `backoff`, `ack`, `nack`, `stopped`. A row is a message and
  an index; `buffer` and `batch` are sets of rows. `committed` and `terminal` are
  the fields of `deliveryState`, `timer` is `timerC != nil`, and `after` tells
  which caller flush returns to. A delivery is identified with its message: one
  session never holds two deliveries of one message, because the broker keeps a
  message unacknowledged until the session settles it. `conn[w]` is the broker's
  view of the session; Ack and Nack on a dead session succeed without effect or
  fail. The tests of validateDelivery are the set `Invalid`.
* **MetricPointStore.** One action per lock or row: `SeedCounter`,
  `StartPersist` (the snapshot of the second statement), `InsertPoint`,
  `LockCounter` in task order, `WriteEvents`, `Commit`, `Rollback` at any point.
  Blocking on another transaction's uncommitted key or locked row is a guard; a
  wait cycle is left by a `Rollback`, as PostgreSQL's deadlock detection does.
  `DeleteExpired` is the retention pass of another session: afterwards a
  redelivered message brings points that are new again (`deletions` counts it).
* **OutboxRelay.** A row's index is its id. `leased` and `delayed` are the rows
  whose `claimed_until` and `next_attempt_at` lie in the future; both may end at
  any time. A database call that returns an error may have taken effect.
* **EventStream.** Events are their numbers. `budget` bounds, for each kind, how
  often a client connects or stalls, an event expires or is relayed again, and a
  bridge session is lost; `Budgets` has the budgets a behaviour may start with. `current > 0` is the time during
  which Hub.Publish holds the read lock; Subscribe and Close need `current = 0`.
  `received` is what a client got, after the number its stream starts from.
  `lost` is a history variable: events that were relayed while the bridge had no
  queue or that died in its queue.
* **IngestPublisher.** A request stands for its message. A failed attempt closes
  the session; what was written may still arrive (`orphans`).
* **PartitionMaintenance.** Two time slots per day, the code's 8, 2 and 7 days.
  A row is its timestamp. A pass ensures the window (`EnsurePartitions`), reads the
  clock again (`FixCutoff`) and works in batches with that cutoff; the clock may go
  on, and other workers may step, between any two.
* **IngestCodec.** A name (task id or metric key) is a number, in string order,
  with a length and the patterns it matches; numbers may be `Null` where JSON may
  leave them out. The limits of handler, worker, encoder and table are separate
  definitions, as they are in the code. An INSERT needs the columns to fit
  (`FitsColumns`) and a partition for the day (`HasPartition`): `Unpartitioned` has
  the times of the window's days that have none, as `PartitionMaintenance` derives
  them. `MaxInt32`, `MaxTimestampMillis` and the
  batch size are scaled down by the cfg.
* **MetricQueries.** The common table expressions of the SQL files, one operator
  each. An average is its sum and count, so that no rounding is involved.
  `QueryMetrics` is the history handler with its status. The constant
  `HistoryStatement` says whether the database is sent the text as it is embedded,
  whose `//` lines it rejects, or that text without them (section 6).
* **Pipeline.** `queue` has the deliveries not acknowledged yet, `points` the table.
  A flush stores a prefix of the rows of a delivery, in any order with others
  and as often as it likes, and the delivery leaves the queue after its last row:
  that is `DeliveryContract`, which `MetricConsumer` is proved to implement, for
  one message at a time. Message ids only tell equal messages apart.
* **Simulator.** `expected` is expectedState, `history` the batches that may be
  repeated, `audited` the position of auditOnce. A behaviour has either the
  simulator or other clients: tasks are different ones and every query is about
  one task, so mixing them only multiplies the states.
* **Migrator.** `step[m]` is the position in Run; `effects` has the migrations
  whose SQL was committed. A failed process keeps its session, and with it the
  lock, until the server ends it.
* **ServiceLifecycle.** `pc` is the position in runService: `booted`, `opened`,
  `serving` (the select), `http`, `admin`, `bridge`, `errCh` and `group` (the
  calls of the shutdown in their order), `closing` (deferred calls), `exited`.
  `part` has the goroutines of the API (bridge) or of the worker's errgroup.
  `request` and `stream` stand for the requests being served; `cut` ones were
  ended by the exit of the process.

RabbitMQ, PostgreSQL, clients and the clock are modelled from how the code uses
them; these definitions are marked external in the map.

## 3. Runs

| Run | Bounds | Shows |
|---|---|---|
| `metric_consumer` | 2 workers, a message of 3 rows, 1 invalid; batch 2, prefetch 2, 2 faults; 79k states | safety, refinement of `DeliveryContract`, messages are settled, shutdown completes |
| `metric_point_store` | 2 workers, 2 tasks, 4 points, 4 flushes, 1 retention pass; 927k states | numbering, announcement, outbox order, refinement of `EventLog` |
| `outbox_relay` | 2 relays, 2 events of one or two tasks, batch 2, 3 faults; 339k states | order, claims, everything is published |
| `event_stream` | 2 clients, 2 events, channel of 1; 2 connections and a stalled client, or 1 connection with an expired event, a duplicate and a lost session; 304k states | order, holes, channels, delivery, handlers finish |
| `ingest_publisher` | 2 requests, 2 pool workers, channel of 1, 2 attempts, 3 faults; 128k states | acceptance, confirms, termination |
| `partition_maintenance` | 2 workers, days 0 to 3, 4 timestamps around the limits; 306k states | partitions, retention, deletion |
| `deployment` | 3 migrators with different directories, 2 failures; then API or worker with 85 configurations, 2 faults; 32k states | schema, configuration, exit codes, stop, recovery |
| `simulated_pipeline` | simulated tasks of at most 3 and 1 steps with 1 failed call, or 2 posts out of 27 requests and 4 foreign deliveries; one day without a partition; 32 history queries, repaired statement; 54k states | limits agree, queries agree, the audit is right |
| `event_stream_slow_client` | 1 client, channel of 1 | violation: `HubPublishReturns` |
| `event_stream_reconnect_gap` | 1 client, 3 events, 1 lost session | violation: `StreamHasNoGap` |
| `partition_window` | 1 worker | violation: `PastWindowStorable` |
| `history_statement` | as `simulated_pipeline`, embedded statement | violation: `HistoryAnswered` |

What the newer properties say:

* `AnnouncedOncePerStore` counts, over all events of a point, the announcements
  and the insertions, of which there is more than one only after retention.
* `StreamDelivers`, `HandlersFinish`: whatever channels fill and whoever stops
  reading, an open stream gets every event that it owes and a handler that returned
  unsubscribes, unless the hub is `Wedged`: Publish waits for room in the channel of
  a handler that has already returned. That this state is reached, and never left, is the
  first finding.
* `AcceptedIsStorable`: no delivery of the API is dead-lettered, no row of it is
  refused by the encoder, the table refuses one only when its day has no partition
  (the third finding), and the queries take its names.
* `HistoryAnswered`: a valid history request for a task with points gets its series.
  False for the embedded statement (the fourth finding).
* `SeriesWithinLimit`, `SummaryAgreesWithHistory`: in a history response with status
  200, which the embedded statement never yields, every series has at most
  max_points points and its buckets cover each point once; summary and history
  agree on keys, extremes and the latest value, step and time.
* `PassMeansStored`, `AuditPasses`: an audit that passes saw exactly the points of
  the accepted posts, and an audit with enough time passes when every post was
  answered with 200.
* `SchemaSound`, `ConfigChecksAgree`, `CleanExit`, `ExitsWhenStopped`,
  `RecoversFromFailure`: see the comments in `Migrator` and `ServiceLifecycle`.

Why the bounds are enough. A batch of two rows with a message of three rows
gives a delivery that spans two flushes, a flush inside the append loop and one
from the timer; messages that share a flush are covered by the proofs, which hold
for any set of messages. Two faults combine, for instance, a lost session with a
failed flush, or a crash after a commit with a lost acknowledgement. Four points
in two tasks let a third flush meet two others on keys and on counters in both
orders; the fourth comes after the retention pass. Two events give the relay a
batch of two and, in one task, an order to keep (three events with two faults were
checked too, without an error, but take over four minutes); three faults let a leader lose its lock, a
call fail and a process die. The clients of a stream share
only the hub, and two are enough to share it; a channel of one place fills with the
second event, and with two connections one client can leave or stall while the other
reads, or the same one can come back with its cursor. Larger channels, more events
and all faults together are covered for safety by the proofs.
The three migrators are a release, its successor with an edited and an added file,
and a directory with a duplicate version; configurations differ from the defaults
in one variable (two for the back-offs), at zero, below it and blank, because each
check reads one or two. The requests of `simulated_pipeline` sit at each limit, one
below and one above it, and three of them crowd, spread and tie points in time, so
that keys need buckets of different widths. Two tasks of the simulator are audited
one after the other; the first may drop a batch between two others, which leaves a
gap, inside `MissingLimit`; `AuditPasses` is not stated for spans beyond it. Fault, event, flush, post and step counts
are the only bounds that are not in the code; each is a named constant.

Deadlock checking is off in all runs: with the bounds used up the models stop.
Symmetry of workers is used in runs without temporal properties only.

Each property has a mutant (`Bug...` operators, listed under "mutants"): a
plausible error in one definition that makes TLC report that property.

## 4. Fairness

* Consumer: each worker keeps running (weak fairness of its steps), a Go select
  that is ready again and again takes each ready case (strong fairness of
  `ContextDone`; Go chooses at random), and the broker delivers what is ready.
  Faults, shutdowns and restarts are never forced.
* Relay: relays keep running, and leases and delays are finite.
* Stream: goroutines run; a waiting writer gets the hub's lock (sync.RWMutex holds
  back new readers, hence strong fairness of `CloseSubscription`); events are
  relayed (`EventuallyPublished`); a client that stopped reading is disconnected.
* Pool: goroutines run, the broker answers, and the select of runWorker takes the
  closed channel in the end.
* Maintenance: the goroutine of each worker runs.
* Service: the process and its goroutines run, requests are answered
  (`RequestsAnswered`), timers fire, the supervisor restarts what was not stopped
  (`restart: unless-stopped`); a goroutine whose context is done returns although
  its select has other cases (strong fairness of `PartReturns`). Nothing is assumed
  of streams, signals and failures: a stream may stay open for ever.
* Simulated pipeline: the workers store a queued message whole in the end and settle
  it, which is `EventuallySettled` of the consumer, and the audit loop goes on; that it gives
  up, or that a call fails, is never assumed.

## 5. Proofs

Each safety property of a run that passes, invariant or action property, is a
theorem `Spec => []P` (or `Spec => P`) for every value of the constants that
satisfies the module's named assumptions; so are the two refinements. None of the
proofs uses the fairness conditions. In each module one inductive invariant carries
the theorems: the initial states satisfy it, one lemma per action (or per group of
actions that leave the same variables alone) shows that a step preserves it, and
the theorems follow from it.

### Consumer

`MetricConsumerProofs` proves, for any sets of workers and messages, any non-empty
messages, any positive batch size and prefetch and any number of faults:

* `Invariance`: `Spec => []Inv`
* `TypeCorrect`, `AckedDurable`, `SettledOnce`, `NothingForgotten`,
  `BatchBounded`: the invariants of the run `metric_consumer`
* `Refinement`: `Spec => ImplementsContract`

The assumptions are those of `MetricConsumer`: PointsOf maps messages to non-empty
sequences of points (DecodeIngestMessage refuses an empty batch and a sample
without metrics), and the configuration is positive (ConsumerConfig.validate).

None of the properties is inductive. `AckedIsDurable`, for example, compares
`committedRows` with `totalRows`, which says nothing about which rows were
committed. `Inv` adds what the code maintains implicitly:

* `Placement`: a message is in one place at the broker: ready, unacknowledged in
  one session, acknowledged or dead-lettered.
* `Control`: which variables are in use at which point, and that a non-empty
  buffer has its timer armed.
* `Interval`: the rows a consumer holds of a delivery are exactly the interval
  from the first uncommitted row to the last appended one. Hence a count of rows
  decides which rows are committed, and a delivery that is settled has no row left
  that could settle it again.
* `Durable`: the rows below `committedRows` are stored, and so are those of a
  batch whose commit was reported.
* `Ownership`: on a live session, what the consumer has in hand or in its channel
  is what the broker waits for, and no delivery is both in the channel and in hand.
* `Limits`: sizes of buffer and batch.
* `Settled`: what was acknowledged is durable and valid, what was dead-lettered
  is invalid.

The step lemma has one case per action: a step of a worker preserves its own part
(`OwnStep`), leaves the others alone (`OthersUntouched`), and keeps `Placement`
and `Settled`. The refinement maps the four variables to themselves: `SinkCommits`
is `Persist`, the settling turn of `AckDelivery` is `Acknowledge`, `Reject` is
`DeadLetter`, `Publish` is `Accept`, and everything else stutters.

### Flush transactions

`MetricPointStoreProofs`: `EventsContiguousAlways`, `OutboxFollowsSequenceAlways`,
`AnnouncedOnceAlways`, `TypeCorrect`, and `Refinement` (`Spec => ImplementsEventLog`),
for any workers, tasks, points and batches.

The properties speak of committed rows; what keeps them is what transactions under
way may hold. `Exclusive`: no two transactions have inserted the same key or locked
the same counter. `Pending`: an event that is written and not committed has the
number after the locked counter and an outbox id above all committed ids of its
task. `Drawn`: ids are below the sequence. That the ids of a task follow its numbers
although the sequence is shared and never rolled back comes from drawing the id
while the counter is locked. `Announced` counts the events of a point by its
deletions and its presence. In the refinement `Commit` is the append, the events of
all tasks of a flush at once, and every other step stutters.

### Outbox relay

`OutboxRelayProofs`: `SentInOrderAlways`, `PublishedWasSentAlways`,
`ClaimsAreExclusive`, `HeldIsNextAlways`, `TypeCorrect`, for any finite set of
workers (`RelayAssumption`), any number of leaders at a time and any failures.

The order does not rest on the advisory lock. The claim takes a row only when all
rows before it in its task are published, and published rows stay so: hence
`HeldIsNext`, that everything before a row in any relay's hand is published, with or
without lock and lease. `MarksWhatItSent` ties the row a relay is about to mark to
the confirm it has seen. `Tokens` must not run out: with finitely many of them there
are more than rows and relays, as there are UUIDs.

### Event stream

`EventStreamProofs`: `StreamIncreasingAlways`, `GapsAreOutagesAlways`,
`ChannelsBelongAlways`, `TypeCorrect`, for any clients, events and channel capacity.

`InTurn(s, base, missing)` says of a sequence that before each number of it every
number above `base` comes first or is missing. `BridgeInv` has it of the bridge's
queue after the last event given to the hub, with only lost events missing. `ChanInv`:
a channel increases and holds nothing the hub has not sent. `StreamInv`: while a
handler streams, each event above its cursor that the hub has sent is still to be
replayed, in its channel, expired or lost, and the replay is consecutive. The hard
case is an event that comes between the read of the bounds and the query: it may be
in the replay and in the channel, and the handler's cursor drops the second one.

### Publisher pool

`IngestPublisherProofs`: `AcceptedIsQueuedAlways`, `NoStaleConfirmEver`,
`TypeCorrect`, for any requests, pool and channel sizes, attempts and faults.

`WorkerInv`: everything a session carries, message on the wire, confirm or return,
is of the job its worker has in hand, and a positive confirm without a return
means that the queue has the message. It is inductive because a failed attempt closes its
session, so a late answer has nobody left to read it.

### Partitions and retention

`PartitionMaintenanceProofs`: `RecentStorableAlways`, `RetainedIsKeptAlways`,
`TypeCorrect`. `CutoffInv`: the cutoff of a pass is never later than that of a pass
that starts now. `EnsuredInv`: the days a worker ensured exist unless they are out
of the retention window. Assumed are retention no longer than the past days
(168 hours and 8 days in the code), a clock that does not go back, and passes at
most `MaxLagDays` apart; the code's ticker fires hourly.

### Migrations, configuration, lifecycle

`DeploymentProofs`: `AppliedOnceAlways`, `DoneIsRecordedAlways`, `SchemaSoundAlways`,
`CleanExitAlways`, `ConfigChecksAgreeAlways`, `StartsOnSchemaAlways`.

`SchemaSound` has three parts. That each migration takes effect once, and that exit
code 0 means all files are recorded, holds for any directories: the holder of the
lock is the only process between its check and its commit (`LockHeld`, `LoopInv`).
That they take effect in the order of the versions needs the hypothesis
`ReleasesOfOneHistory`, that of two directories one begins with the versions of the
other: a release that inserts a lower version into a migrated database applies it
late. `MCDeployment` has TLC evaluate the hypothesis on its directories.

`LifecycleInv` follows runService to the value it returns: `ReturnsZero` says which
paths lead to 0, `PartsEnd` and `ListenerEnds` why goroutines and listeners may have
ended without error before. `ConfigChecksAgree` holds for every configuration, not
for the 85 of the run only. `StartsOnSchema` is about the composition: the service
starts after a migrator succeeded, and nothing recorded is taken back.

### From the request to the queries, and the simulator

`SimulatorProofs`: `AcceptedIsStorableAlways`, `SeriesWithinLimitAlways`,
`SummaryAgreesWithHistoryAlways`, `PassMeansStoredAlways`, for any names, limits,
requests, foreign deliveries, queries, simulated tasks and batch sizes.

* The library's folds. FlattenSeq (rows of a message), SetToSortSeq (keys in order)
  and MapThenSumSet (counts) are recursive functions. The induction theorems of the
  library take an operator and cannot be instantiated; `SegmentInduction` and
  `SubsetInduction` state induction for the set of values that satisfy the claim,
  from well-foundedness of strict inclusion. `FlattenElements`, `SortedKeys` and
  `SumOfDisjoint` say what the folds compute.
* `PipelineInv`: what the API published is valid for the worker, and the table has
  points within its constraints, one of each identity. `AcceptedIsValid` and
  `ValidRowsFit` compare the limits. `AcceptedIsStorable` says nothing of a row whose
  day has no partition but that this is the only ground for refusing it.
* The two history theorems are about responses with status 200 (`AnsweredHistory`).
  With `HistoryStatement = "embedded"` there are none: they say what the aggregation
  computes once the statement runs, which the run checks with `"repaired"`.
* `PassMeansStored` compares a count with a set. `HistoryInv`: the accepted batches
  are those of the generator at some step, each counted once in `expected`, and
  `BatchCount`: a batch has as many identities as addExpected adds for it. `SourceInv`:
  the table has nothing of the task but what was accepted. With equal counts the
  two sets are equal (`CountsDecide`). A repeated post changes neither.
* `SeriesWithinLimit`: the parts of a key (buckets or single points) partition it,
  an aggregate determines its part by its first point, so counts add up to the size
  of the key (`SeriesCounts`); `BinsFit`: n buckets of a width of at least
  ceil((span + 1) / n) hold every point, and the common width is at least that of each
  oversized key (`WidthOfAll`). A key that is cut merges two points by the pigeonhole
  principle.
* `SummaryAgreesWithHistory`: extremes of the parts are extremes of the key
  (`ExtremesKept`); without buckets the entries are the points.

Assumed are finitely many names (a body has at most 1 MiB) and that requests and
foreign messages have the types they are decoded into (`PipelineAssumption`). TLC
evaluates all assumptions on the constants of the runs.

### Only model-checked

Liveness is outside the prover's reach and rests on TLC alone: `EventuallySettled`,
`ShutdownCompletes`, `EventuallyPublished`, `StreamDelivers`, `HandlersFinish`,
`RequestsAnswered`, `CloseReturns`, `ExpiredIsDeleted`, `ExitsWhenStopped`,
`RecoversFromFailure`, `AuditPasses`. The properties of the four runs that expect a
violation are refuted, not proved.

## 6. Findings

* **A stalled client blocks the hub** (`event_stream_slow_client`, code bug).
  Hub.Publish waits for room in a channel with the read lock held; the handler
  that could drain the channel has returned and waits in Close for the write lock.
  All streams of the process stop until it is restarted. The design says that a
  slow client is unsubscribed and cannot block others
  (`tasks/design-metrics-pipeline.md:248`).
* **Holes after a bridge outage** (`event_stream_reconnect_gap`). The design has
  the API read the event table again after it rebuilt its connection
  (`tasks/design-metrics-pipeline.md:228`); the bridge does not. What the code
  does ensure is `GapsAreOutages`.
* **The oldest day of the window has no partition** (`partition_window`). A pass
  creates day today-8 and then drops it; a flush does not create it. A point of
  that day makes its flush fail for as long as the day is in the window: it is the
  one ground on which the table refuses an accepted row (`AcceptedIsStorable`).
  `RecentStorable` states which days are safe.
* **Every history request fails** (`history_statement`, code bug).
  `query_metric_history.sql` has five lines that start with `//` (13, 18, 23, 29, 31),
  which is no comment in PostgreSQL, and `queries.go:20` embeds the file as it is. The
  database answers with a syntax error and the handler with 500
  (`transport/http/history.go:25`). `README.md:118` says that history beyond
  max_points is returned downsampled, and
  `storage/postgres/metric_point_store_integration_test.go:38` expects a result.
  The limit on series and the agreement of summary and history are therefore stated
  for requests that are answered, and checked with the statement repaired.

Observed while modelling, without a run of their own:

* A `Last-Event-ID` above the last event is accepted
  (`transport/http/stream.go:52`), where the design asks for 400
  (`tasks/design-metrics-pipeline.md:238`); the stream then starts after that
  number.
* A metric with the key `step` or `ts` is overwritten in an event's payload by the
  built-in fields (`persist_metric_flush.sql:23`).
* A metric whose value is JSON `null` is stored as 0: decoding into float64 leaves
  the zero value (`ToMetricBatch`).
* An SSE stream that is open at shutdown keeps `server.Shutdown` waiting until the
  time limit, and the API then exits with 1. `ExitsWhenStopped` holds because of
  that limit alone.
* A SIGTERM that meets a running maintenance call makes the worker exit with 1,
  since RunPartitionMaintenance returns the call's cancellation as an error.
* `cmd/sim` has no flag for AuditTimeout, so `-audit` compares once, right after
  posting, and may report a failure while workers still store. A task whose batches
  were all dropped is answered with 404 and never passes; a run over more than
  100000 steps with a gap never passes either. Repeating a run with the same prefix
  meets the points of the former one.
* Neither start-up nor `/readyz` looks at the migration version, which
  `tasks/design-metrics-pipeline.md:304` and `:384` ask for, and an audit beyond its
  limit writes no log line, where `:302` has one.

## 7. Plan

Done: all components with state or logic of their own (section 2), and the proofs of
all safety properties (section 5). Next:

1. The seams between modules, where one assumes what another guarantees: `AppendEvent`
   of `OutboxRelay` against `EventLog`, `RelayEvent` of `EventStream` against
   `SentInOrder`, and the steps of `Pipeline` against `DeliveryContract`.
2. Facts the liveness properties rest on that are safety facts, for instance that a
   queued message is always ready, held by a live session, or about to be requeued.
3. The accuracy of the audit's other results (missing steps, first and last step).

## 8. Not modelled

* Payload contents, JSON syntax and log lines; the values of durations and of
  growing delays; rounding of floating-point values.
* In `EventStream`: the end of the API's context, malformed events (the bridge
  acknowledges and drops them), several tasks (a hub keeps them apart by key, but
  they share its lock), and heartbeats.
* In `PartitionMaintenance`: the event and outbox tables.
* In `ServiceLifecycle`: the probes of `/readyz`, and goroutines that a failing
  start leaves behind until the process ends. `Exit` does not wait: the deferred
  pool.Close of `app/worker/run.go` waits for connections that goroutines still hold
  when the admin listener failed and their context is not cancelled, which delays
  the exit and changes neither its code nor its order.
* In `Simulator`: the random values, the optional metrics besides eval_loss, rates
  and the `OnTaskFailure` callback.
* Topology, logging and the health check command: declarations or a single call.
  The performance tool measures time, which no module has.
