---------------------------- MODULE IngestService ----------------------------
(***************************************************************************)
(* POST /api/v1/sensor/ingest: app/api/sensor.py, app/services/            *)
(* ingest_service.py and what it calls (the repositories' inserts, the     *)
(* window buffers, the detector, the publisher, the metrics).              *)
(*                                                                         *)
(* Every handler is a coroutine of the one event loop of the one worker.   *)
(* It gives the loop up only at its three awaits: the COPY of the batch,   *)
(* the INSERT of an anomaly and the PUBLISH of the alert.  The variable    *)
(* running is the handler that has the loop between two awaits; the        *)
(* database and Redis act at any time, and the handler sees their answer   *)
(* in a later step, or an exception instead of it.  The process may be     *)
(* killed anywhere; the container restarts it with empty memory.           *)
(***************************************************************************)
EXTENDS Severity, WindowBuffer, FiniteSetsExt

CONSTANTS
    Engines,         \* engine identifiers
    Values,          \* sensor vectors of a reading, as the model tells them apart
    Unscalable,      \* those on which the scaler's transform raises
    ReconError(_),   \* reconstruction error of a window of normalised vectors
    Requests,        \* one element per POST
    Batches,         \* the request bodies: sequences of readings
    max_batch_size,  \* Settings.max_batch_size
    MaxRestarts,     \* bound on the crashes of a behaviour
    NoOne            \* no handler has the event loop

SensorReading == [engine_id : Engines, value : Values]

ASSUME IngestAssumption ==
    /\ Unscalable \subseteq Values
    /\ Batches \subseteq Seq(SensorReading)
    /\ max_batch_size \in Nat /\ MaxRestarts \in Nat
    /\ NoOne \notin Requests
    /\ \A w \in [1 .. window_size -> Values] : ReconError(w) \in Errors

VARIABLES
    \* the handlers' locals
    pc,               \* where each handler is
    batch,            \* readings: the body of each request
    pos,              \* index of the reading the loop is at
    score,            \* score.reconstruction_error of the last anomaly
    response,         \* queued_windows and anomalies_detected
    running,          \* the handler between two awaits, or NoOne
    \* app.state, lost with the process
    detector,         \* FALSE: artifacts missing, app.state.detector is None
    window_buffers,   \* engine_id -> deque; an absent key is an empty deque
    metrics,          \* MetricsService
    \* TimescaleDB and Redis, which outlive the process
    sensor_readings,  \* the requests whose rows the COPY committed (all or none)
    anomaly_events,   \* rows of the table
    published,        \* events in the order Redis accepted them
    \* history
    restarts,         \* number of crashes so far
    pushed,           \* engine_id -> every reading buffered since the start
    announcedBefore   \* Len(published) when the process started

handlerVars == <<pc, batch, pos, score, response, running>>
stateVars   == <<detector, window_buffers, metrics>>
storeVars   == <<sensor_readings, anomaly_events, published>>
historyVars == <<restarts, pushed, announcedBefore>>
vars == <<handlerVars, stateVars, storeVars, historyVars>>

\* The handlers that are over: a 400, a 202, an exception, a killed process.
Over == {"rejected", "done", "failed", "lost"}
AtAwait == {"persist", "persisted", "insert", "inserted", "published"}
PCs == {"idle", "scan"} \cup AtAwait \cup Over

NewMetrics ==
    [total_readings |-> 0, total_windows |-> 0, total_anomalies |-> 0,
     anomalies_by_severity |-> [s \in AlertSeverity |-> 0]]

\* The reading at hand, and the deque of its engine after push().
Reading(r) == batch[r][pos[r]]
Entry(r) == [req |-> r, idx |-> pos[r], value |-> Reading(r).value]
Buffer(r) == push(window_buffers[Reading(r).engine_id], Entry(r))

WindowError(buf) == ReconError([k \in 1 .. Len(buf) |-> buf[k].value])

\* The AnomalyEvent of the reading at hand (its time is the reading's).
Event(r) ==
    [req |-> r, idx |-> pos[r], engine_id |-> Reading(r).engine_id,
     reconstruction_error |-> score[r],
     threshold_warning |-> threshold_warning,
     threshold_critical |-> threshold_critical,
     severity |-> Score(score[r])]

\* Mutant: the two threshold columns of the INSERT swapped.
RowSwapped(event) ==
    [event EXCEPT !.threshold_warning = Real32[event.threshold_critical],
                  !.threshold_critical = Real32[event.threshold_warning]]

\* The row the INSERT makes of an event: its float columns are REAL, and the
\* error fits one already.
Row(event) ==
    [event EXCEPT !.threshold_warning = Real32[@], !.threshold_critical = Real32[@]]

-----------------------------------------------------------------------------
Init ==
    /\ pc = [r \in Requests |-> "idle"]
    /\ batch = [r \in Requests |-> <<>>]
    /\ pos = [r \in Requests |-> 1]
    /\ score = [r \in Requests |-> NaN]
    /\ response = [r \in Requests |-> [queued_windows |-> 0, anomalies_detected |-> 0]]
    /\ running = NoOne
    /\ detector \in BOOLEAN
    /\ window_buffers = [e \in Engines |-> <<>>]
    /\ metrics = NewMetrics
    /\ sensor_readings = {} /\ anomaly_events = {} /\ published = <<>>
    /\ restarts = 0 /\ announcedBefore = 0
    /\ pushed = [e \in Engines |-> <<>>]

\* The request gets its handler, which refuses a batch that is too long and
\* otherwise sends the COPY and awaits it.
Arrive(r, b) ==
    /\ pc[r] = "idle" /\ running = NoOne
    /\ batch' = [batch EXCEPT ![r] = b]
    /\ pc' = [pc EXCEPT ![r] = IF Len(b) > max_batch_size THEN "rejected" ELSE "persist"]
    /\ UNCHANGED <<pos, score, response, running, stateVars, storeVars, historyVars>>

\* TimescaleDB commits the COPY.
CommitBatch(r) ==
    /\ pc[r] = "persist"
    /\ pc' = [pc EXCEPT ![r] = "persisted"]
    /\ sensor_readings' = sensor_readings \cup {r}
    /\ UNCHANGED <<batch, pos, score, response, running, stateVars,
                   anomaly_events, published, historyVars>>

\* Mutant: a batch counted as one reading.
ResumeCountsBatch(r) ==
    /\ pc[r] = "persisted" /\ running = NoOne
    /\ pc' = [pc EXCEPT ![r] = "scan"]
    /\ running' = r
    /\ metrics' = [metrics EXCEPT !.total_readings = @ + 1]
    /\ UNCHANGED <<batch, pos, score, response, detector, window_buffers,
                   storeVars, historyVars>>

\* insert_batch returns; the handler counts the readings and enters its loop.
ResumePersisted(r) ==
    /\ pc[r] = "persisted" /\ running = NoOne
    /\ pc' = [pc EXCEPT ![r] = "scan"]
    /\ running' = r
    /\ metrics' = [metrics EXCEPT !.total_readings = @ + Len(batch[r])]
    /\ UNCHANGED <<batch, pos, score, response, detector, window_buffers,
                   storeVars, historyVars>>

\* One turn of the loop starts with the reading at hand ...
Scanning(r) == running = r /\ pc[r] = "scan" /\ pos[r] <= Len(batch[r])

\* ... which raises without a model (AttributeError on None) or when the
\* scaler refuses the values ...
Usable(r) == detector /\ Reading(r).value \notin Unscalable

\* ... and is pushed into the buffer of its engine otherwise.
Feed(r) ==
    LET e == Reading(r).engine_id
    IN  /\ window_buffers' = [window_buffers EXCEPT ![e] = Buffer(r)]
        /\ pushed' = [pushed EXCEPT ![e] = Append(@, Entry(r))]

\* A full window is scored and counted, whatever its severity.
CountWindow(r) ==
    /\ metrics' = [metrics EXCEPT !.total_windows = @ + 1]
    /\ response' = [response EXCEPT ![r].queued_windows = @ + 1]

\* push() returns None: the next reading.
ScanWarmup(r) ==
    /\ Scanning(r) /\ Usable(r) /\ Feed(r)
    /\ ~is_ready(Buffer(r))
    /\ pos' = [pos EXCEPT ![r] = @ + 1]
    /\ UNCHANGED <<pc, batch, score, response, running, detector, metrics,
                   storeVars, restarts, announcedBefore>>

\* A window of severity NORMAL is not an event: the next reading.
ScanNormal(r) ==
    /\ Scanning(r) /\ Usable(r) /\ Feed(r)
    /\ is_ready(Buffer(r))
    /\ Score(WindowError(Buffer(r))) = "NORMAL"
    /\ CountWindow(r)
    /\ pos' = [pos EXCEPT ![r] = @ + 1]
    /\ UNCHANGED <<pc, batch, score, running, detector, storeVars, restarts,
                   announcedBefore>>

\* Mutant: the last score kept on the shared detector, not in the handler.
ScanAnomalySharedScore(r) ==
    /\ Scanning(r) /\ Usable(r) /\ Feed(r)
    /\ is_ready(Buffer(r))
    /\ Score(WindowError(Buffer(r))) # "NORMAL"
    /\ CountWindow(r)
    /\ score' = [q \in Requests |-> WindowError(Buffer(r))]
    /\ pc' = [pc EXCEPT ![r] = "insert"]
    /\ running' = NoOne
    /\ UNCHANGED <<batch, pos, detector, storeVars, restarts, announcedBefore>>

\* Any other severity: the handler sends the INSERT of the event, awaits it.
ScanAnomaly(r) ==
    /\ Scanning(r) /\ Usable(r) /\ Feed(r)
    /\ is_ready(Buffer(r))
    /\ Score(WindowError(Buffer(r))) # "NORMAL"
    /\ CountWindow(r)
    /\ score' = [score EXCEPT ![r] = WindowError(Buffer(r))]
    /\ pc' = [pc EXCEPT ![r] = "insert"]
    /\ running' = NoOne
    /\ UNCHANGED <<batch, pos, detector, storeVars, restarts, announcedBefore>>

\* The exception leaves the handler: a 500, with the batch in the database.
ScanError(r) ==
    /\ Scanning(r) /\ ~Usable(r)
    /\ pc' = [pc EXCEPT ![r] = "failed"]
    /\ running' = NoOne
    /\ UNCHANGED <<batch, pos, score, response, stateVars, storeVars, historyVars>>

\* No reading left: the 202 with the counts.
Finish(r) ==
    /\ running = r /\ pc[r] = "scan" /\ pos[r] > Len(batch[r])
    /\ pc' = [pc EXCEPT ![r] = "done"]
    /\ running' = NoOne
    /\ UNCHANGED <<batch, pos, score, response, stateVars, storeVars, historyVars>>

\* TimescaleDB commits the INSERT.
CommitAnomaly(r) ==
    /\ pc[r] = "insert"
    /\ pc' = [pc EXCEPT ![r] = "inserted"]
    /\ anomaly_events' = anomaly_events \cup {Row(Event(r))}
    /\ UNCHANGED <<batch, pos, score, response, running, stateVars,
                   sensor_readings, published, historyVars>>

\* Mutant: the insert is not awaited before the publish.
PublishUnawaited(r) ==
    /\ pc[r] \in {"insert", "inserted"}
    /\ pc' = [pc EXCEPT ![r] = "published"]
    /\ published' = Append(published, Event(r))
    /\ UNCHANGED <<batch, pos, score, response, running, stateVars,
                   sensor_readings, anomaly_events, historyVars>>

\* insert_anomaly has returned, the handler has sent PUBLISH (it changes
\* nothing in between) and Redis executes it.
RedisPublish(r) ==
    /\ pc[r] = "inserted"
    /\ pc' = [pc EXCEPT ![r] = "published"]
    /\ published' = Append(published, Event(r))
    /\ UNCHANGED <<batch, pos, score, response, running, stateVars,
                   sensor_readings, anomaly_events, historyVars>>

\* Mutant: publish started as a task, the event counted before it is out.
ResumePublishedAlways(r) ==
    /\ pc[r] \in {"inserted", "published"} /\ running = NoOne
    /\ pc' = [pc EXCEPT ![r] = "scan"]
    /\ running' = r
    /\ metrics' = [metrics EXCEPT !.total_anomalies = @ + 1,
                                  !.anomalies_by_severity[Score(score[r])] = @ + 1]
    /\ response' = [response EXCEPT ![r].anomalies_detected = @ + 1]
    /\ pos' = [pos EXCEPT ![r] = @ + 1]
    /\ UNCHANGED <<batch, score, detector, window_buffers, storeVars, historyVars>>

\* publish returns; the event is counted and the loop goes on.
ResumePublished(r) ==
    LET s == Score(score[r])
    IN  /\ pc[r] = "published" /\ running = NoOne
        /\ pc' = [pc EXCEPT ![r] = "scan"]
        /\ running' = r
        /\ metrics' = [metrics EXCEPT !.total_anomalies = @ + 1,
                                      !.anomalies_by_severity[s] = @ + 1]
        /\ response' = [response EXCEPT ![r].anomalies_detected = @ + 1]
        /\ pos' = [pos EXCEPT ![r] = @ + 1]
        /\ UNCHANGED <<batch, score, detector, window_buffers, storeVars, historyVars>>

\* Mutant: a failed call is tried again from its start, without a limit.
FailRetries(r) ==
    /\ pc[r] \in AtAwait /\ running = NoOne
    /\ pc' = [pc EXCEPT ![r] = CASE pc[r] \in {"persist", "persisted"} -> "persist"
                                  [] pc[r] = "insert" -> "insert"
                                  [] OTHER -> "inserted"]
    /\ UNCHANGED <<batch, pos, score, response, running, stateVars, storeVars,
                   historyVars>>

\* Mutant: a failed publish is logged and the loop goes on.
FailSwallowed(r) ==
    /\ pc[r] \in AtAwait /\ running = NoOne
    /\ IF pc[r] \in {"inserted", "published"}
          THEN /\ pc' = [pc EXCEPT ![r] = "scan"]
               /\ pos' = [pos EXCEPT ![r] = @ + 1]
               /\ running' = r
          ELSE /\ pc' = [pc EXCEPT ![r] = "failed"]
               /\ UNCHANGED <<pos, running>>
    /\ UNCHANGED <<batch, score, response, stateVars, storeVars, historyVars>>

\* The awaited call raises: the pool, the connection, command_timeout or
\* Redis.  Its effect may have taken place and only the answer be missing.
\* Nothing catches the exception: a 500.
Fail(r) ==
    /\ pc[r] \in AtAwait /\ running = NoOne
    /\ pc' = [pc EXCEPT ![r] = "failed"]
    /\ UNCHANGED <<batch, pos, score, response, running, stateVars, storeVars,
                   historyVars>>

\* The process dies, mid-loop or not, and starts again (lifespan): memory is
\* new, and the artifacts may have come or gone.
Restart ==
    /\ restarts < MaxRestarts
    /\ restarts' = restarts + 1
    /\ pc' = [r \in Requests |-> IF pc[r] \in Over \cup {"idle"} THEN pc[r] ELSE "lost"]
    /\ running' = NoOne
    /\ detector' \in BOOLEAN
    /\ window_buffers' = [e \in Engines |-> <<>>]
    /\ metrics' = NewMetrics
    /\ pushed' = [e \in Engines |-> <<>>]
    /\ announcedBefore' = Len(published)
    /\ UNCHANGED <<batch, pos, score, response, storeVars>>

\* Every request is over: nothing is left to do.
AllOver ==
    /\ \A r \in Requests : pc[r] \in Over
    /\ UNCHANGED vars

\* What the event loop does for a handler, and what the servers do for it.
Resume(r) ==
    \/ ResumePersisted(r) \/ ResumePublished(r) \/ Finish(r)
    \/ ScanWarmup(r) \/ ScanNormal(r) \/ ScanAnomaly(r) \/ ScanError(r)
Answer(r) == CommitBatch(r) \/ CommitAnomaly(r) \/ RedisPublish(r) \/ Fail(r)

Next ==
    \/ \E r \in Requests :
          \/ \E b \in Batches : Arrive(r, b)
          \/ Resume(r)
          \/ Answer(r)
    \/ Restart
    \/ AllOver

\* The loop runs every ready callback, and an awaited call ends one way or
\* the other.  Nobody has to send a request and nothing has to crash.
Fairness == \A r \in Requests : WF_vars(Resume(r)) /\ WF_vars(Answer(r))

Spec == Init /\ [][Next]_vars /\ Fairness
=============================================================================
