# SensorWatch in TLA+

SensorWatch takes readings of engine sensors over HTTP, scores sliding windows
of them with an LSTM autoencoder, stores the anomalies in TimescaleDB and
announces them over Redis to event streams and WebSockets.  This directory
holds TLA+ modules for the parts that run concurrently or can fail on the way, TLC
configurations that check them, and proofs for the TLA+ proof system.

## 1. Inventory

The application is one process with one asyncio event loop (`Dockerfile` starts
one worker, `docker-compose.yml` restarts it whenever it dies).  Code between two
awaits is atomic; at an await every other coroutine may run.

| Component | Code | State | Operations |
|---|---|---|---|
| Ingest service | `app/services/ingest_service.py`, `app/api/sensor.py` | locals of each handler | `ingest`: COPY of the batch, then per reading normalise, push, predict, INSERT, PUBLISH, count |
| Window buffer | `app/detection/window_buffer.py` | a deque of `window_size` readings per engine | `push`, `is_ready`, (`reset`, never called) |
| Detector | `app/detection/inference.py`, `severity.py` | weights, scaler, metadata, read-only | `load`, `normalize`, `predict`, `classify_severity` |
| Metrics | `app/services/metrics_service.py` | counters | `record_readings`, `record_window`, `record_anomaly` |
| Alert publisher | `app/services/alert_publisher.py` | none, Redis keeps the channel | `publish`, `subscribe` |
| Alert stream | `app/api/alerts.py` | per client a queue, a reader task, a deadline | wait, alert, heartbeat, close |
| WebSocket fan-out | `app/api/websocket.py` | client table: filter and bounded queue; a relay task per connection | connect, relay, broadcast, send, set filter, disconnect |
| Repositories, query API | `app/db/repositories`, `app/api/anomalies.py` | rows | inserts, paged queries |
| Life cycle, schema | `app/main.py`, `app/db/pool.py`, `migrations` | `app.state`, the pool, the schema | connect, migrate, load, serve, stop |
| Health | `app/api/health.py` | none | probes in sequence |
| Training | `ml/training`, `ml/scripts/train.py` | best loss, patience, three artifact files | epochs, checkpoint, calibration, metadata |
| Simulator | `simulator/producer.py` | position in the replay, two totals | POST with three attempts of ten seconds |

How they interact.  A handler calls the detector and the buffers directly and
awaits the database and Redis.  Redis copies every published event to its
subscribers: the reader task of each stream and the relay task of each
WebSocket.  A reader feeds its own queue, a relay feeds the queues of *all*
WebSocket clients.  `app.state` (buffers, metrics, detector, publisher) is shared
by all handlers and lost with the process; rows outlive it.

What is hard.

* Handlers interleave at every await and share the buffers and the counters.
* Any awaited call may fail before its effect or after it (an answer lost to
  `command_timeout` or to a broken connection), or be cut off by a crash.  The
  handler has no transaction around COPY, INSERT and PUBLISH and catches nothing.
* Timeouts in the stream race alerts; the WebSocket endpoint cancels
  `queue.get()` in every turn of its loop.
* Tasks that nobody awaits (readers, relays) die silently.
* Queues reach their limit, floats reach a threshold, an infinity or a NaN.
* A POST is not idempotent and is retried; an attempt that timed out goes on.
* Handlers share a pool that lets them wait without a limit, and a migration
  without a transaction can stop after any of its statements.
* Pages are cut by OFFSET from a table and a time range that both move.

`PROJECT.json` lists each hazard at its line with the properties aimed at it.

What makes each component correct.  *Ingest*: no alert without its row, no anomaly
announced twice, no request that passes over an unannounced anomaly, each row the
verdict on its own window, books (metrics, responses, rows, alerts) that agree.
*Stream*: nothing lost, repeated or reordered between Redis and the client; never
silent.  *Fan-out*: order per relay, isolation of the clients from each other,
filters.  *Query API*: pages and totals that fit together, nothing skipped between pages.
*Start-up*: a schema that can always be completed, and no service on half of it.
*Health*: an answer that held.  *Training*: the artifacts of one training, the best
weights.  *Simulator*: a success means stored data, and retries keep the replay in order.

## 2. Modules

| Module | Contents |
|---|---|
| `Severity` | `classify_severity` on an order of 64-bit values with 32-bit ones among them, infinity, NaN; the rounding of REAL columns |
| `WindowBuffer` | `push`, `is_ready` on a deque as a sequence |
| `IngestService` | the handlers, `app.state`, the database and Redis: extends the two above |
| `IngestProperties` | what `IngestService` guarantees |
| `AnomalyLog` | abstract: an anomaly is recorded once, announced at most once, after it was recorded |
| `AlertStream` | one event stream with its reader, queue and timers |
| `AlertFeed` | abstract: a subscriber gets some of the published alerts, in order, none twice |
| `WebSocketFanout` | connections, their relays and the manager |
| `Trainer` | `train()`: early stopping, checkpoint, reload |
| `TrainingPipeline` | `train.py` and `AnomalyDetector.load` around the three artifact files: extends `Trainer` |
| `Replay` | the simulator's producer: extends `IngestProperties`, its attempts are the requests |
| `Lifespan` | start-up, migration, kills and restarts over servers that fail and recover |
| `ConnectionPool` | `acquire` and `release` of asyncpg with its line of waiters |
| `HealthCheck` | `GET /health`: extends `Lifespan` and `ConnectionPool` |
| `AnomalyQuery` | `GET /anomalies`, its client turning pages, and what others do to the table: extends `ConnectionPool` |
| `Application` | the composition of the last four |
| `MCIngest`, `MCReplay`, `MCApplication`, `MCAlertStream`, `MCWebSocketFanout`, `MCTraining` | instances for TLC |
| `OperatorProofs`, `IngestProofs`, `IngestWindowProofs`, `ReplayProofs`, `ApplicationProofs`, `AlertStreamProofs`, `WebSocketProofs`, `TrainingProofs` | theorems |

Definitions called *mutants* stand before the definition they replace: each is the
code with a plausible bug, and shows that a property would notice it.

### From the code to the model

**IngestService.**  `pc[r]` says where the handler of request `r` is: before and
after the effect of the COPY (`persist`, `persisted`), in the loop (`scan`), before
and after the effect of the INSERT (`insert`, `inserted`), after that of the PUBLISH
(`published`), or over.  `running` is the handler that has the event loop; it keeps
it from one await to the next, so one turn of the `for` loop is one action
(`ScanWarmup`, `ScanNormal`, `ScanAnomaly`, `ScanError`) without other *handlers* in between,
while the database and Redis act at any time.  The handler does nothing between the
answer of the INSERT and the PUBLISH, so `RedisPublish` starts from `inserted`.
`Fail` raises at any await, whatever the effect.  `Restart` kills the process anywhere and
gives it new memory; `detector` may then be missing or present
(`FileNotFoundError` in `lifespan`).  A reading is an engine and a sensor vector;
`ReconError` is an arbitrary function from windows of vectors to errors, `Unscalable`
the vectors on which the scaler raises (a raw infinity).  `pushed` and `announcedBefore` are history.

**AlertStream.**  `published` is the channel, `cursor` what the reader has taken of it, `start`
where Redis executed the SUBSCRIBE.  `generator` is `waiting` in `wait_for` or
`looping`.  Time is a number of ticks carried by countdowns; it passes only
when no callback is ready, so an alert that is queued at the very tick of the
timeout may be sent first or stay behind the heartbeat, as in `asyncio`.  `TRUE`
in `published` is an alert that subscribers can parse; `FALSE` one whose
infinite error became `null`.

**WebSocketFanout.**  `broadcast`, `connect`, `set_filter` and `disconnect` are atomic: the
lock is never held over an await.  A frame is an alert with the relay it came by.
A frame counts as sent when the endpoint takes it from its queue.
`queue.get()` takes an item only when it returns, so a cancelled one leaves the
queue as it was.  `endpoint` is `open` from `connect` on.

**Trainer and TrainingPipeline.**  One epoch is one action: `Improve` or `Stall` with an
arbitrary loss, for the numerics decide it.  `Diverged` stands for NaN and infinity,
which never pass `val_loss < best_val_loss - min_delta`.  `max_epochs` and `patience` may be 0, as the
arguments of the script may: without an epoch the reload still happens, and then the number of the last epoch is
undefined (`ReloadRaises`).  Weights are known by the training,
the epoch and the architecture they come from, thresholds by the weights and the scaler
they were calibrated with.  A file is opened, which truncates it (`Partial`), and completed in a later
step, so a kill (`Die`) or a load may come in between.  `load()` reads metadata, weights
and scaler in three steps.  A file that is absent leaves the application without a detector
(`NoModel`); any other failure ends the process, which starts again (`StartUpFails`).
The directory is mounted into the container (`docker-compose.yml:59`), so a training on
the host runs beside the application.  Trainings run one at a time.

**Replay.**  A request of the ingest path is one attempt, `<<cycle, attempt>>`.  `posted`
are the attempts that were sent; an attempt may arrive later, or never.  `GiveUp` is any exception
`_post` sees: an error status, a broken connection, ten seconds without an answer.  The
producer cannot tell these apart, so it may give up whatever the handler is doing, and
the handler goes on: all of `IngestService` still applies to it.  The data set is a sequence of
bodies (`Bodies`), and the pauses carry no control.  `abandoned` is history.

**Lifespan and ConnectionPool.**  `lifespan` follows `lifespan()` of `main.py`: connect, migrate statement by
statement (`Migration` lists what each statement of the SQL file makes and what it needs), load the
detector, serve.  A statement whose object exists is skipped; any other failure ends the process, and
`ExecuteUnanswered` is one that took effect before the connection broke.  A kill may
come at any step; a shutdown is one, since no request survives either.  The
servers fail and recover by themselves.  The Redis client connects at first use, so
Redis is not needed to start.  `queue` and `holders` are the waiters and the owners of connections.
`acquire()` is first come, first served and has no timeout; an exception in the
`async with` block releases.

**HealthCheck.**  Each probe is a step of its own: `acquire`, `SELECT 1`, `PING`.  `reported` collects what the
answer will call ok, and the history variable `upDuring` what was up at some moment of the request.

**AnomalyQuery.**  The total and the page are two statements on one connection with no
transaction.  Pages are sets: `IsPage` allows every choice the order by time leaves
open.  The client of the model asks with the default range, which ends now and starts
an hour before, so both ends may move forward between two calls (`Ranges`).  `InsertRow` stores a
row of any time, `DropOlder` is the retention policy of the table.

## 3. What the runs check

| Run | States | Shows |
|---|---|---|
| `ingest` | 60,678 | all guarantees below, refinement of `AnomalyLog`, termination |
| `ingest_threshold` | violation | a window whose error equals the threshold is announced, the docs say *above* |
| `sse` | 45,149 | the stream, refinement of `AlertFeed`, delivery |
| `sse_heartbeat` | violation | alerts faster than the minimum wait starve the heartbeat |
| `sse_zombie` | violation | a stream whose reader died never sends an alert again |
| `websocket` | 394,087 | order, isolation, filters, relays that never wait |
| `websocket_once` | violation | two connections: every client gets every alert twice |
| `replay` | 502,727 | what a success of the producer means, and that retries keep the order |
| `application` | 379,916 | start-up, health answers and pages out of one pool, with outages and kills; liveness |
| `training` | 57,720 | early stopping, the checkpoint, the files of a finished training, what a detector may combine, termination |
| `training_model` | violation | a training without an improvement returns the model of an earlier one |
| `training_mix` | violation | a detector with the thresholds of one training and the scaler or weights of another |

*ingest.*  `AlertsBacked`, `AlertedOnce` and `UnalertedRowIsLast` relate rows, alerts and
the state of the request that made them.  `BufferIsRecentHistory` says that a buffer
is the newest part of everything fed to its engine by whichever requests;
`ScoredOnOwnWindow` that a row's error is that of the window ending at its own
reading, though other requests push while the INSERT is awaited.  `WindowsAccounted`,
`CountersTrailAlerts`, `ResponseTruthful` and `SettledBooksAgree` are about the books.
`StoredThresholdsExplain` survives the rounding to REAL.  `RequestsTerminate` is
liveness.

*sse.*  `StreamIsTaken` (nothing lost on the way through queue and timeouts),
`NeverSilent` (a frame at least every heartbeat interval, which the documented
`HeartbeatOnTime` is not), `FeedSpec`, `AlertsArrive` (while the reader lives).

*websocket.*  `RelayOrderKept`, `QuickClientMissesNothing` (a client with no filter and
room in its queue gets everything every relay took, whatever the others do),
`FilterRespected` (an action property), `RelayNeverBlocked`.

*training.*  `BestAccounted` relates the best loss and the patience counter to the whole
history of losses; `CheckpointIsBest` the file to the epoch that history names.
`CompletedIsConsistent`: what a finished training leaves belongs together, even when it
returned an older model.  `ThresholdsNotNewer`: `load()` reads the files in the opposite order of
their writing, which bounds how a detector can be mixed: its thresholds may be older
than its weights or scaler, never newer.  `TrainingEnds` is liveness.

*replay.*  `SentIsStored`: what the producer counts as sent is in the database, and in the
metrics as long as nothing crashed.  `FedInReplayOrder`: as long as no attempt was given up while its
handler might go on, the windows see the engine in the order of the data set.  The
condition is needed: after a timeout a late handler and a retry may mix, which a test of
either side alone would not show.

*application.*  `ServesOnSchema`: no request runs on half a schema; `StartsAgain`: a half-made schema can
always be completed.  `OkWasUp`: what `/health` calls ok was up while it asked.  `NoneSkipped`: turning the pages to the
end finds every row that matched at the beginning, is still there and in range, and shares
its time with no other row.  `RepeatExplained`: a row comes twice only when a
newer one pushed it down, or one of the same time.  `PageFitsTotal`: a page is never shorter than the total of
the same answer allows.  `RequestsAnswered`: although `acquire()` waits for ever, nobody does.  `AppTypeOK` has the pool's
mutual exclusion.  Rows of one time are left out of the
guarantees because the code gives none: the simulator stamps the readings of both engines with the same
time, so ties are the normal case.

### Bounds

* `ingest`: two requests, two engines, windows of 2 readings, batches up to 3
  (and one of 4 that is refused), one crash.  Two requests are enough for every
  pairwise interleaving at the awaits; 3 readings at window 2 give a warm-up, a
  normal and an anomalous window and two anomalies in one batch; readings are
  low, high, NaN, overflowing and refused.  Error 4 equals the warning threshold,
  and the critical threshold 7 is no 32-bit value.
* `sse`: four alerts, an interval of 6 ticks and a minimum wait of 2: enough for
  alerts that straddle two timeouts and for a heartbeat that is overdue by more
  than the minimum wait.
* `websocket`: two connections, two engines and an unreadable alert, two alerts,
  queues of 2.  Two alerts by two relays are four frames, so queues overflow and
  mix relays.  `Filters` keeps clients to one of the engines or both.

* `replay`: two cycles with a reading of each of two engines, two attempts per cycle, windows
  of 2, one crash.  Two attempts are the fewest with a retry and a last one, and a retry of the
  first cycle can meet the second cycle.
* `application`: a pool of one connection, so that the two kinds of request compete
  for it; one kill and one outage; three rows, two of one time; pages of one row; two ranges that
  move forward.  An instance with four rows and three ranges (8.9 million states) has no
  violation of the invariants either; it is too large for a routine run.
* `training`: two trainings, one that leaves files and one that replaces some of them;
  four epochs with patience 2, so a training can stop early, at its last epoch, or
  improve again after a stall; losses 5, 3, 2 and diverged with `min_delta` 1, so that
  5 to 3 is an improvement and 3 to 2 a better loss that is not one; two architectures.

### Fairness

Weak fairness only.  `IngestService`: the loop runs ready callbacks (`Resume`), and an
awaited call ends with an answer or an exception (`Answer`), which `command_timeout` gives
for the database and which is an assumption about the network for Redis.  No
request need arrive and nothing need crash.  `AlertStream`: the generator and
the reader run when ready, time passes, Redis answers the SUBSCRIBE; the
client need not leave nor the reader die.  `WebSocketFanout`: relays run when they have an alert;
no client need ever read.  `Application`: a
process that is down is started (`restart: unless-stopped`), a statement ends (`command_timeout`) and the loop
runs what is ready.  That a PING ends is an assumption about the network, for the Redis client is given no timeout.
A server need not recover: `StartsAgain` asks it only of a database that stays up.  `Replay` has only
safety properties and no fairness of its own.  `TrainingPipeline`: a training
that was started goes on (`Script`); it need not be started, the application need not load,
and a kill may come at any step.

## 4. What is proved

For all values of the constants (any number of requests, engines, batches and
restarts, any window size, any function from windows to errors), from the named
assumptions `FloatAssumption`, `ThresholdAssumption`, `WindowSizeAssumption` and `IngestAssumption`:

* `PushKeepsNewest`: if a deque holds the newest `window_size` values of a history, it
  does so after `push` of one more.
* `SeverityMonotone`, `ReclassifiedNotMilder`: a larger error or a lower threshold never gives a milder
  severity, and a row classified again from its REAL columns is never milder than it was stored.
* `TypeCorrect`: `TypeOK`, inductive as it stands; one lemma per group of actions.
* `AlertsBackedCorrect`, `AlertedOnceCorrect`, `UnalertedRowIsLastCorrect`: from `LogInv`.
  The first two do not hold by themselves in every step: that an alert is new follows
  only from the position of its request, so `LogInv` adds where the rows and alerts of a
  request can be.  `RowPlace` and `AlertPlace`: not beyond `pos`, with a row at `pos` only from
  `inserted` on and an alert only from `published` on.  `RowMade` and `AlertMade`: they are what the
  handler makes of that reading.  Steps that touch neither rows nor alerts are
  handled once, by the lemma `LogQuiet`.
* `ImplementsAnomalyLog`: every step of `IngestService` is a step of `AnomalyLog` or a
  stutter, with rows as `recorded` and alerts as `announced`.
* `LogPromiseKept`: what `AnomalyLog` promises (`Promise`, `Kept`) follows from its steps alone, and by the
  refinement it holds of the ingest path.
* `BufferCorrect`: from `BufferInv`, which adds that what a request has fed lies before
  `pos`, so that each reading enters once and in batch order.
* `ScoredOnOwnWindowCorrect`: from `ScoreInv`, which adds that a handler awaiting its
  INSERT has the score of the window that ends at its own reading (`InsertScored`);
  appending to a history does not change a window in it (`ScoredAppend`).
* `StoredThresholdsCorrect`: for every rounding that is monotone and leaves 32-bit values alone.

* `ResponseTruthfulCorrect`: from `TallyInv`, which counts rows, alerts, windows and readings of a request at
  every point of its handler; a row that commits or an alert that is accepted is one more because
  `LogInv` says it was not there.
* `CountersTrailAlertsCorrect`: from `CountInv`: the alerts of a level since the start are those counted and exactly one for
  each handler that has published and not counted, or failed there.  That such a handler has an alert and one that
  failed elsewhere has none is `LogInv`.
* `WindowsAccountedCorrect`: from `WindowInv`, the same equation with the finiteness of the set of engines fed so far.
  A reading adds one term or changes one; it adds one window exactly when the deque is full after `push`.
* `SettledBooksAgreeCorrect`: from `BookInv`: while no request has failed and the process has not restarted
  (`Untroubled`), each counter is a sum over the requests past their COPY (`Counted`), each with its part
  at the point it has reached (`BookTerms`): a step moves one term and the counter by the same number.
  Both rest on the sum library of `OperatorProofs` (`SumSplit`, `SumChange`, `SumFollowed`).  The sum of the
  community modules is a fold over a recursive function; that it is defined on every finite set is shown by
  a least counterexample among the parts of the set (`Least`, `SubsetInduction`), which needs no
  induction theorem with an operator for a parameter.
* `HandlersEnd`: the safety part of `RequestsTerminate`.  `Left`, which counts four steps for every reading ahead and those
  around the loop, is at most `4 * max_batch_size + 5`, falls with every step of the handler and every
  answer to it, never grows by a step of anyone else, and is 0 exactly when the handler is over.

For any data set, any number of cycles and attempts, from `ReplayAssumption` in addition:

* `ReplayTypeCorrect`: a step of the producer leaves the ingest path alone or sends a request, and
  a step of the ingest path is one of `IngestService`.
* `ReplayGuarantees`, `ReplayImplementsAnomalyLog`: so all inductive invariants of the ingest path carry over
  together (`PathInv`), and with them every safety guarantee and the refinement.
* `SentIsStoredCorrect`: from `SentInv`: what the producer has counted is at most the bodies of the stored attempts behind the
  current one, and at most the readings of those behind it that got their 202; no handler gets to its 202
  before its rows are committed (`RowsFirst`).  The sums by `SumChange` as above.
* `FedInReplayOrderCorrect`: while nothing is abandoned, every attempt before the current one is over, so
  whatever is fed comes from the latest.

For any pool size, any rows, filters, page size and sequence of ranges, any number of kills
and outages, from `LifespanAssumption`, `PoolAssumption` and `QueryAssumption`:

* `AppTypeCorrect`: types, and that the pool's line and owners are exactly the requests that wait
  and that are in their block, which needs the line to be free of repetitions.
* `ServesOnSchemaCorrect`: from `LifeInv`, every statement before the current one has been carried out.
* `StartUpAdvances`: the safety part of `StartsAgain`.  By `LifeInv` the statement at hand finds what it needs
  (`MigrationOrdered`), so it can be executed or skipped; `StartLeft` falls with every step of a start-up
  while the database is up and no artifact is broken; and no step loses a part of the schema.
* `PoolSoundCorrect`: the safety part of `RequestsAnswered`.  The limit of the pool holds, and a line never
  waits for a connection that nobody is about to give back.
* `OkWasUpCorrect`: from `ProbeInv`, a probe that was reported ok was up then.
* `NoneSkippedCorrect`, `RepeatExplainedCorrect`, `PageFitsTotalCorrect`: from `RowsInv` and `PagesInv`.  The argument
  is about the rank of a row, the number of newer rows in the range.  While a row stays in the
  table and the range, new rows only push it back, and rows leave behind it only
  (both retention and the moving start take the oldest), so its rank never sinks; all
  rows of rank below the offset have been seen, and one seen before has rank at or above the offset
  only if a newer row came.

For any number of alerts and any intervals, from `StreamAssumption`:

* `StreamTypeCorrect`; `StreamIsTakenCorrect` from `FlowInv`: what was sent, then what the queue holds, is what the reader
  took, and `ImplementsAlertFeed` from it: the next alert to be sent is newer than all before (`HeadIsNext`).
* `NeverSilentCorrect`: from `QuietInv`, the time since the last frame and the rest of the running wait
  are together no more than the interval.

For any number of connections, engines, alerts and any queue limit, from `FanoutAssumption`:

* `FanoutTypeCorrect`, `FilterRespectedCorrect`.
* `RelayOrderKeptCorrect`, `QuickClientCorrect`: from `PlaceInv`, which says where every frame of a relay can be in
  what a client got and still has queued, and that nothing a relay has queued lies beyond its cursor.

For any number of trainings, epochs, losses and architectures, from `TrainerAssumption` and
`PipelineAssumption`:

* `TrainingTypeCorrect`: `TypeOK`, inductive as it stands.
* `BestAccountedCorrect`, `CheckpointIsBestCorrect`: from `FitInv`, both together with what each point of
  the loop knows of the patience counter; a later loss does not change an earlier one
  in the history.
* `CompletedIsConsistentCorrect`, `ThresholdsNotNewerCorrect`: from `DirInv`, which dates every
  file and everything `load()` has read: a metadata file seen while a training is under way is
  of an earlier one, and nothing in the directory is older than the metadata in it.

* `TrainingsShrink`: the safety part of `TrainingEnds`.  `ToGo` counts two steps for every epoch ahead and those around;
  it falls with every step of the script and every kill, and no load makes it longer.

So every safety invariant and every action property of the runs is proved, and both refinements.
Only model-checked is liveness (`RequestsTerminate`, `AlertsArrive`, `RelayNeverBlocked`, `TrainingEnds`, `StartsAgain`,
`RequestsAnswered`): fairness and ENABLED are out of this prover's reach.  For four of them the proofs above
contribute the part that is safety; what the runs add is that a fair scheduler takes
the steps.

What the properties leave out on purpose, because the code does not give it: `StreamIsTaken` and
`QuickClientMissesNothing` are about alerts that can be parsed (an infinite error cannot, which is how
`EveryAnomalyStreamed` fails); `AlertsArrive` begins at the SUBSCRIBE; `FedInReplayOrder` ends with the first attempt given
up; `RequestsTerminate` and `RequestsAnswered` take it from the network that a PUBLISH and a PING end;
`AlertsBacked` compares an alert with its row without their ids, which differ.

## 5. Where the code and its documents disagree

1. `severity.py:14` flags an error *equal* to the threshold; `threshold.py:19` and the README's
   diagram say above it.
2. `alerts.py:24` promises a heartbeat every 15 s; a busy stream may send none.
3. `alerts.py:24` promises an event for each anomaly; a stream outlives its reader.
4. `websocket.py:13` describes one Redis reader for N clients; there are N, each
   broadcasting to all N.
5. `trainer.py:49` promises the best model of the training; without an improvement
   (every loss NaN or infinite) a `model.pt` of an earlier training is returned.
6. `README.md:150` says the thresholds are calibrated on the errors of the model; the
   three files are replaced one by one, and nothing ties them together.

Not a property of any run, but worth knowing: `producer.py:88` speaks of the last 30 cycles of the
degraded engine where the code takes 60, and the line it logs about the number of cycles
counts the first engine's, although `zip` stops at the shorter of the two.

## 6. Not modelled, and what is left

* Network and weights (`ml/model`), the evaluation and the ONNX export are numerics in straight
  lines: no state is shared and nothing runs beside them.  `ReconError` stands for the network in
  every property, as an arbitrary function.
* `acknowledge()`, `query_readings` and the buffers' `reset()` have no caller in the application.
* `/health/liveness` is a constant, and `/health/metrics` reads the counters in one step without an await; what the
  counters hold is in *ingest*.
* Authentication, logging, exceptions as responses and routing keep no state.  Deployment appears as
  what it does: one worker, restarted whenever it dies.
* Backpressure of a client that stops reading its event stream is the server's.  The dictionary of buffers
  grows with the engines clients name; the queue of a stream has no limit.  Both are listed as
  hazards without a property, for there is no bound in the code to check.

What could still be added: `AnomalyLog` composed with `AlertFeed` (a client is told of stored anomalies only; it
follows from the two refinements and `AlertsBacked`).
