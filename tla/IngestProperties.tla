-------------------------- MODULE IngestProperties --------------------------
(***************************************************************************)
(* What the ingest path of IngestService guarantees under every            *)
(* interleaving of requests, failure of an awaited call and crash.         *)
(***************************************************************************)
EXTENDS IngestService

-----------------------------------------------------------------------------
Entries == [req : Requests, idx : Nat \ {0}, value : Values]

EventRecord ==
    [req : Requests, idx : Nat \ {0}, engine_id : Engines,
     reconstruction_error : Errors, threshold_warning : Doubles,
     threshold_critical : Doubles, severity : AlertSeverity]

\* The type of every variable: a deque holds at most window_size readings and
\* only the handler that is scanning has the event loop.
TypeOK ==
    /\ pc \in [Requests -> PCs]
    /\ batch \in [Requests -> Seq(SensorReading)]
    /\ pos \in [Requests -> Nat \ {0}]
    /\ score \in [Requests -> Errors]
    /\ response \in [Requests -> [queued_windows : Nat, anomalies_detected : Nat]]
    /\ running \in Requests \cup {NoOne}
    /\ \A r \in Requests : pc[r] = "scan" <=> running = r
    /\ \A r \in Requests : pc[r] \in {"insert", "inserted", "published"} =>
                               pos[r] <= Len(batch[r])
    /\ detector \in BOOLEAN
    /\ window_buffers \in [Engines -> Seq(Entries)]
    /\ \A e \in Engines : Len(window_buffers[e]) <= window_size
    /\ metrics \in [total_readings : Nat, total_windows : Nat, total_anomalies : Nat,
                    anomalies_by_severity : [AlertSeverity -> Nat]]
    /\ sensor_readings \subseteq Requests
    /\ anomaly_events \subseteq EventRecord
    /\ published \in Seq(EventRecord)
    /\ restarts \in 0 .. MaxRestarts
    /\ pushed \in [Engines -> Seq(Entries)]
    /\ announcedBefore \in Nat

Alerts == 1 .. Len(published)
AlertsSinceStart == announcedBefore + 1 .. Len(published)

\* The same reading of the same request.
SameReading(x, y) == x.req = y.req /\ x.idx = y.idx
RowsOf(r) == {row \in anomaly_events : row.req = r}
AlertsOf(r) == {k \in Alerts : published[k].req = r}
Alerted(row) == \E k \in Alerts : SameReading(published[k], row)

\* No alert without its row: whoever receives an alert finds the event in the
\* database, with the same reading, error, thresholds and severity up to the
\* rounding of its columns (the id of the row is made by the database and is
\* another one), however the calls of concurrent requests interleave and fail.
AlertsBacked == \A k \in Alerts : Row(published[k]) \in anomaly_events

\* The same anomaly is never announced twice, not even when a PUBLISH took
\* effect and its answer was lost.
AlertedOnce == \A j, k \in Alerts : SameReading(published[j], published[k]) => j = k

\* A row without an alert is the last one of a request that is about to
\* publish it, has failed or was lost: no request goes on past an anomaly it
\* has not announced, and none completes without announcing all of its own.
UnalertedRowIsLast ==
    \A row \in anomaly_events :
        \/ Alerted(row)
        \/ /\ pc[row.req] \in {"inserted", "failed", "lost"}
           /\ row = Row(Event(row.req))

\* The deque of an engine is the newest window_size readings that were fed
\* to it since the start of the process, by whichever requests, each of a
\* batch that is already in the database, each once and in batch order.
BufferIsRecentHistory ==
    \A e \in Engines :
        /\ window_buffers[e] = LastOf(pushed[e], window_size)
        /\ \A k \in 1 .. Len(pushed[e]) :
              LET x == pushed[e][k]
              IN  /\ x.req \in sensor_readings
                  /\ batch[x.req][x.idx] = [engine_id |-> e, value |-> x.value]
                  /\ \A j \in 1 .. k - 1 :
                        pushed[e][j].req = x.req => pushed[e][j].idx < x.idx

\* In the history h of an engine, the error of x is that of the window_size
\* readings that end with the reading of x.
ScoredIn(h, x) ==
    \A k \in 1 .. Len(h) : SameReading(h[k], x) =>
        /\ k >= window_size
        /\ x.reconstruction_error =
              ReconError([j \in 1 .. window_size |-> h[k - window_size + j].value])

\* A row is the verdict on the window that ends at its own reading, whatever
\* other requests fed to the engine while its INSERT was under way.
ScoredOnOwnWindow == \A row \in anomaly_events : ScoredIn(pushed[row.engine_id], row)

\* The full windows that the readings of a history have made.
WindowsOf(h) == IF Len(h) < window_size THEN 0 ELSE Len(h) - window_size + 1

\* The engines that have a deque.
FedEngines == {e \in Engines : pushed[e] # <<>>}

\* window_buffer.py: "every new reading after warmup triggers inference".
\* Each engine has had one inference per reading since the start, except for
\* its first window_size - 1.
WindowsAccounted ==
    metrics.total_windows =
        SumFunctionOnSet([e \in Engines |-> WindowsOf(pushed[e])], FedEngines)

\* The alerts of a level since the start, and the requests that have sent one
\* and not counted it yet, or never will because they failed in between.
SentAs(s) == {k \in AlertsSinceStart : published[k].severity = s}
Announced(r) == \E k \in AlertsSinceStart : published[k].req = r /\ published[k].idx = pos[r]
Uncounted(s) ==
    {r \in Requests : pc[r] \in {"published", "failed"} /\ Score(score[r]) = s /\ Announced(r)}

\* The counters of GET /metrics never run ahead of the alerts sent since the
\* start, and each alert they lack is the last one of a request between its
\* PUBLISH and the count, or that failed there.  The levels add up to the
\* total.
CountersTrailAlerts ==
    /\ \A s \in AlertSeverity :
          Cardinality(SentAs(s)) = metrics.anomalies_by_severity[s] + Cardinality(Uncounted(s))
    /\ LET by == metrics.anomalies_by_severity
       IN  metrics.total_anomalies = by["NORMAL"] + by["WARNING"] + by["CRITICAL"]

\* A 202 tells the truth: each anomaly it counts is one row and one alert of
\* that request, and no row or alert of the request is missing from it.
ResponseTruthful ==
    \A r \in Requests : pc[r] = "done" =>
        /\ response[r].anomalies_detected = Cardinality(RowsOf(r))
        /\ response[r].anomalies_detected = Cardinality(AlertsOf(r))
        /\ response[r].anomalies_detected <= response[r].queued_windows
        /\ response[r].queued_windows <= Len(batch[r])

\* Once the requests of a process that never failed are answered, all books
\* agree: the metrics, the responses, the rows and the alerts.
SettledBooksAgree ==
    restarts = 0 /\ (\A r \in Requests : pc[r] \in {"idle", "rejected", "done"}) =>
        LET Done == {r \in Requests : pc[r] = "done"}
        IN  /\ metrics.total_readings =
                  SumFunctionOnSet([r \in Requests |-> Len(batch[r])], Done)
            /\ metrics.total_windows =
                  SumFunctionOnSet([r \in Requests |-> response[r].queued_windows], Done)
            /\ metrics.total_anomalies =
                  SumFunctionOnSet([r \in Requests |-> response[r].anomalies_detected], Done)
            /\ metrics.total_anomalies = Cardinality(anomaly_events)
            /\ metrics.total_anomalies = Len(published)
            /\ sensor_readings = Done

\* A row explains its own severity: the stored error reaches the stored
\* threshold of its level although all three were rounded to REAL.
StoredThresholdsExplain ==
    \A row \in anomaly_events :
        /\ row.severity # "NORMAL"
        /\ row.severity = "CRITICAL" =>
              AtLeast(row.reconstruction_error, row.threshold_critical)
        /\ row.severity = "WARNING" =>
              AtLeast(row.reconstruction_error, row.threshold_warning)

\* ml/training/threshold.py: "windows with error > threshold are flagged as
\* anomalies": an announced anomaly is strictly above its threshold.
FlaggedStrictlyAbove ==
    \A k \in Alerts :
        LET x == published[k]
        IN  x.reconstruction_error \in Int => x.reconstruction_error > x.threshold_warning

\* The ingest path implements the abstract log of recorded and announced
\* anomalies.
Log == INSTANCE AnomalyLog WITH
          Anomalies <- Requests \X (1 .. max_batch_size),
          recorded  <- {<<row.req, row.idx>> : row \in anomaly_events},
          announced <- [k \in Alerts |-> <<published[k].req, published[k].idx>>]
LogSpec == Log!Spec

\* Every request that got past the size check gets an answer or is lost in
\* a crash: no order of answers and exceptions leaves a handler waiting.
RequestsTerminate ==
    \A r \in Requests : pc[r] = "persist" ~> pc[r] \in Over
=============================================================================
