---------------------------- MODULE IngestProofs ----------------------------
(***************************************************************************)
(* Theorems about IngestService, for every set of requests, engines and    *)
(* batches, every window size and every reconstruction error.              *)
(***************************************************************************)
EXTENDS IngestProperties, OperatorProofs

-----------------------------------------------------------------------------
(* Types.                                                                  *)

\* A handler that scans has a reading at hand, of an engine of its own.
LEMMA ReadingType ==
    ASSUME TypeOK, NEW r \in Requests, pos[r] <= Len(batch[r])
    PROVE  /\ Reading(r) \in SensorReading
           /\ Entry(r) \in Entries
  <1>1. pos[r] \in 1 .. Len(batch[r]) /\ batch[r] \in Seq(SensorReading)
    BY DEF TypeOK
  <1>2. Reading(r) \in SensorReading
    BY <1>1, ElementOfSeq DEF Reading
  <1> QED
    BY <1>1, <1>2 DEF Entry, Entries, SensorReading

\* The buffer after push() has its type and its bound.
LEMMA BufferType ==
    ASSUME TypeOK, NEW r \in Requests, pos[r] <= Len(batch[r])
    PROVE  /\ Reading(r).engine_id \in Engines
           /\ Buffer(r) \in Seq(Entries)
           /\ Len(Buffer(r)) <= window_size
  <1> DEFINE e == Reading(r).engine_id
  <1>1. Entry(r) \in Entries /\ e \in Engines
    BY ReadingType DEF SensorReading
  <1>2. window_buffers[e] \in Seq(Entries) /\ Len(window_buffers[e]) <= window_size
    BY <1>1 DEF TypeOK
  <1> QED
    BY <1>1, <1>2, PushType DEF Buffer

\* A full window has an error.
LEMMA WindowErrorType ==
    ASSUME NEW buf \in Seq(Entries), is_ready(buf)
    PROVE  WindowError(buf) \in Errors
  <1>1. \A k \in 1 .. window_size : buf[k] \in Entries
    BY ElementOfSeq DEF is_ready
  <1>2. [k \in 1 .. Len(buf) |-> buf[k].value] \in [1 .. window_size -> Values]
    BY <1>1 DEF is_ready, Entries
  <1> QED
    BY <1>2, IngestAssumption DEF WindowError

LEMMA ScoreType == \A error : Score(error) \in AlertSeverity
  BY DEF Score, classify_severity, AlertSeverity

LEMMA EventType ==
    ASSUME TypeOK, NEW r \in Requests, pos[r] <= Len(batch[r])
    PROVE  Event(r) \in EventRecord /\ Row(Event(r)) \in EventRecord
  <1>1. Reading(r).engine_id \in Engines
    BY ReadingType DEF SensorReading
  <1>2. pos[r] \in Nat \ {0} /\ score[r] \in Errors
    BY DEF TypeOK
  <1>3. /\ threshold_warning \in Doubles /\ threshold_critical \in Doubles
        /\ Real32[threshold_warning] \in Doubles /\ Real32[threshold_critical] \in Doubles
    BY FloatAssumption, ThresholdAssumption
  <1>4. Event(r) \in EventRecord
    BY <1>1, <1>2, <1>3, ScoreType DEF Event, EventRecord
  <1>5. Row(Event(r)) \in EventRecord
    BY <1>1, <1>2, <1>3, ScoreType DEF Event, Row, EventRecord
  <1> QED
    BY <1>4, <1>5

\* The metrics and the response keep their types when a window is counted.
LEMMA CountWindowType ==
    ASSUME TypeOK, NEW r \in Requests, CountWindow(r)
    PROVE  /\ metrics' \in [total_readings : Nat, total_windows : Nat, total_anomalies : Nat,
                             anomalies_by_severity : [AlertSeverity -> Nat]]
           /\ response' \in [Requests -> [queued_windows : Nat, anomalies_detected : Nat]]
<1> DEFINE M == [total_readings : Nat, total_windows : Nat, total_anomalies : Nat,
                 anomalies_by_severity : [AlertSeverity -> Nat]]
           R == [queued_windows : Nat, anomalies_detected : Nat]
<1>1. metrics \in M /\ response \in [Requests -> R]
  BY DEF TypeOK
<1>2. metrics' = [metrics EXCEPT !.total_windows = metrics.total_windows + 1]
  BY DEF CountWindow
<1>3. response' = [response EXCEPT ![r] =
                     [response[r] EXCEPT !.queued_windows = response[r].queued_windows + 1]]
  BY DEF CountWindow
<1>4. metrics' \in M
  BY <1>1, <1>2
<1>5. [response[r] EXCEPT !.queued_windows = response[r].queued_windows + 1] \in R
  BY <1>1
<1>6. response' \in [Requests -> R]
  BY <1>1, <1>3, <1>5
<1> QED
  BY <1>4, <1>6

\* The buffers and their history keep their types when a reading is fed.
LEMMA FeedType ==
    ASSUME TypeOK, NEW r \in Requests, pos[r] <= Len(batch[r]), Feed(r)
    PROVE  /\ window_buffers' \in [Engines -> Seq(Entries)]
           /\ \A e \in Engines : Len(window_buffers'[e]) <= window_size
           /\ pushed' \in [Engines -> Seq(Entries)]
  <1> DEFINE f == Reading(r).engine_id
  <1>1. /\ f \in Engines /\ Entry(r) \in Entries
        /\ Buffer(r) \in Seq(Entries) /\ Len(Buffer(r)) <= window_size
    BY BufferType, ReadingType
  <1>2. /\ window_buffers' = [window_buffers EXCEPT ![f] = Buffer(r)]
        /\ pushed' = [pushed EXCEPT ![f] = Append(@, Entry(r))]
    BY DEF Feed
  <1>3. Append(pushed[f], Entry(r)) \in Seq(Entries)
    BY <1>1, AppendProperties DEF TypeOK
  <1> QED
    BY <1>1, <1>2, <1>3 DEF TypeOK

LEMMA TypeInit == Init => TypeOK
  BY WindowSizeAssumption, IngestAssumption
  DEF Init, TypeOK, PCs, AtAwait, Over, NewMetrics, AlertSeverity, Errors, EventRecord, Entries

LEMMA TypeArrive ==
    ASSUME TypeOK, NEW r \in Requests, NEW b \in Batches, Arrive(r, b)
    PROVE  TypeOK'
  BY IngestAssumption
  DEF TypeOK, Arrive, PCs, AtAwait, Over, stateVars, storeVars, historyVars

LEMMA TypeScan ==
    ASSUME TypeOK, NEW r \in Requests,
           ScanWarmup(r) \/ ScanNormal(r) \/ ScanAnomaly(r) \/ ScanError(r)
    PROVE  TypeOK'
<1>1. CASE ScanWarmup(r)
  <2>1. pos[r] <= Len(batch[r]) /\ Feed(r)
    BY <1>1 DEF ScanWarmup, Scanning
  <2>2. /\ window_buffers' \in [Engines -> Seq(Entries)]
        /\ \A e \in Engines : Len(window_buffers'[e]) <= window_size
        /\ pushed' \in [Engines -> Seq(Entries)]
    BY <2>1, FeedType
  <2>3. /\ pos' \in [Requests -> Nat \ {0}]
        /\ \A q \in Requests : pos'[q] = pos[q] \/ pc[q] = "scan"
    BY <1>1 DEF TypeOK, ScanWarmup, Scanning
  <2>4. UNCHANGED <<pc, batch, score, response, running, detector, metrics,
                    sensor_readings, anomaly_events, published, restarts, announcedBefore>>
    BY <1>1 DEF ScanWarmup, storeVars
  <2> QED
    BY <2>2, <2>3, <2>4 DEF TypeOK
<1>2. CASE ScanNormal(r)
  <2>1. pos[r] <= Len(batch[r]) /\ Feed(r) /\ CountWindow(r)
    BY <1>2 DEF ScanNormal, Scanning
  <2>2. /\ window_buffers' \in [Engines -> Seq(Entries)]
        /\ \A e \in Engines : Len(window_buffers'[e]) <= window_size
        /\ pushed' \in [Engines -> Seq(Entries)]
    BY <2>1, FeedType
  <2>3. /\ pos' \in [Requests -> Nat \ {0}]
        /\ \A q \in Requests : pos'[q] = pos[q] \/ pc[q] = "scan"
    BY <1>2 DEF TypeOK, ScanNormal, Scanning
  <2>4. UNCHANGED <<pc, batch, score, running, detector,
                    sensor_readings, anomaly_events, published, restarts, announcedBefore>>
    BY <1>2 DEF ScanNormal, storeVars
  <2>5. /\ metrics' \in [total_readings : Nat, total_windows : Nat, total_anomalies : Nat,
                         anomalies_by_severity : [AlertSeverity -> Nat]]
        /\ response' \in [Requests -> [queued_windows : Nat, anomalies_detected : Nat]]
    BY <2>1, CountWindowType
  <2> QED
    BY <2>2, <2>3, <2>4, <2>5 DEF TypeOK
<1>3. CASE ScanAnomaly(r)
  <2>1. pos[r] <= Len(batch[r]) /\ Feed(r) /\ CountWindow(r)
    BY <1>3 DEF ScanAnomaly, Scanning
  <2>2. WindowError(Buffer(r)) \in Errors
    BY <1>3, <2>1, BufferType, WindowErrorType DEF ScanAnomaly
  <2> QED
    BY <1>3, <2>1, <2>2, FeedType, CountWindowType, IngestAssumption
    DEF TypeOK, ScanAnomaly, Scanning, storeVars, PCs, AtAwait
<1>4. CASE ScanError(r)
  BY <1>4, IngestAssumption
  DEF TypeOK, ScanError, Scanning, PCs, Over, stateVars, storeVars, historyVars
<1> QED
  BY <1>1, <1>2, <1>3, <1>4

LEMMA TypeResume ==
    ASSUME TypeOK, NEW r \in Requests,
           ResumePersisted(r) \/ ResumePublished(r) \/ Finish(r)
    PROVE  TypeOK'
<1>1. CASE ResumePersisted(r)
  <2> DEFINE M == [total_readings : Nat, total_windows : Nat, total_anomalies : Nat,
                   anomalies_by_severity : [AlertSeverity -> Nat]]
  <2>1. Len(batch[r]) \in Nat /\ metrics \in M
    BY DEF TypeOK
  <2>2. metrics' = [metrics EXCEPT !.total_readings = metrics.total_readings + Len(batch[r])]
    BY <1>1 DEF ResumePersisted
  <2>3. metrics' \in M
    BY <2>1, <2>2
  <2> QED
    BY <1>1, <2>3, IngestAssumption
    DEF TypeOK, ResumePersisted, PCs, storeVars, historyVars
<1>2. CASE ResumePublished(r)
  <2> DEFINE M == [total_readings : Nat, total_windows : Nat, total_anomalies : Nat,
                   anomalies_by_severity : [AlertSeverity -> Nat]]
             R == [queued_windows : Nat, anomalies_detected : Nat]
             s == Score(score[r])
             bySeverity == [metrics.anomalies_by_severity EXCEPT
                              ![s] = metrics.anomalies_by_severity[s] + 1]
             counted == [response[r] EXCEPT
                           !.anomalies_detected = response[r].anomalies_detected + 1]
  <2>1. metrics \in M /\ response \in [Requests -> R] /\ s \in AlertSeverity
    BY ScoreType DEF TypeOK
  <2>2. metrics' = [metrics EXCEPT !.total_anomalies = metrics.total_anomalies + 1,
                                   !.anomalies_by_severity = bySeverity]
    BY <1>2 DEF ResumePublished
  <2>3. metrics' \in M
    <3>1. bySeverity \in [AlertSeverity -> Nat]
      BY <2>1
    <3> HIDE DEF bySeverity
    <3>2. metrics' = [total_readings |-> metrics.total_readings,
                      total_windows |-> metrics.total_windows,
                      total_anomalies |-> metrics.total_anomalies + 1,
                      anomalies_by_severity |-> bySeverity]
      BY <2>1, <2>2
    <3> QED
      BY <2>1, <3>1, <3>2
  <2>4. response' = [response EXCEPT ![r] = counted] /\ counted \in R
    BY <1>2, <2>1 DEF ResumePublished
  <2>5. response' \in [Requests -> R]
    BY <2>1, <2>4
  <2>6. /\ pos' \in [Requests -> Nat \ {0}] /\ pos' = [pos EXCEPT ![r] = pos[r] + 1]
        /\ pc' = [pc EXCEPT ![r] = "scan"] /\ running = NoOne /\ running' = r
    BY <1>2 DEF TypeOK, ResumePublished
  <2>7. UNCHANGED <<batch, score, detector, window_buffers, storeVars, historyVars>>
    BY <1>2 DEF ResumePublished
  <2> HIDE DEF M, R
  <2> QED
    BY <2>3, <2>5, <2>6, <2>7, IngestAssumption
    DEF TypeOK, PCs, storeVars, historyVars, M, R
<1>3. CASE Finish(r)
  BY <1>3, IngestAssumption
  DEF TypeOK, Finish, PCs, Over, stateVars, storeVars, historyVars
<1> QED
  BY <1>1, <1>2, <1>3

LEMMA TypeAnswer ==
    ASSUME TypeOK, NEW r \in Requests, Answer(r)
    PROVE  TypeOK'
<1>1. CASE CommitBatch(r)
  BY <1>1 DEF TypeOK, CommitBatch, PCs, AtAwait, stateVars, historyVars
<1>2. CASE CommitAnomaly(r)
  <2>1. Row(Event(r)) \in EventRecord
    BY <1>2, EventType DEF TypeOK, CommitAnomaly
  <2> QED
    BY <1>2, <2>1 DEF TypeOK, CommitAnomaly, PCs, AtAwait, stateVars, historyVars
<1>3. CASE RedisPublish(r)
  <2>1. Event(r) \in EventRecord
    BY <1>3, EventType DEF TypeOK, RedisPublish
  <2>2. Append(published, Event(r)) \in Seq(EventRecord)
    BY <2>1, AppendProperties DEF TypeOK
  <2> QED
    BY <1>3, <2>2 DEF TypeOK, RedisPublish, PCs, AtAwait, stateVars, historyVars
<1>4. CASE Fail(r)
  BY <1>4, IngestAssumption DEF TypeOK, Fail, PCs, AtAwait, Over, stateVars, storeVars, historyVars
<1> QED
  BY <1>1, <1>2, <1>3, <1>4 DEF Answer

LEMMA TypeRestart ==
    ASSUME TypeOK, Restart
    PROVE  TypeOK'
<1>1. /\ NewMetrics \in [total_readings : Nat, total_windows : Nat, total_anomalies : Nat,
                         anomalies_by_severity : [AlertSeverity -> Nat]]
      /\ Len(published) \in Nat
      /\ <<>> \in Seq(Entries) /\ Len(<<>>) <= window_size
  BY WindowSizeAssumption DEF NewMetrics, TypeOK
<1>2. restarts + 1 \in 0 .. MaxRestarts
  BY IngestAssumption DEF TypeOK, Restart
<1> QED
  BY <1>1, <1>2, IngestAssumption DEF TypeOK, Restart, PCs, AtAwait, Over, storeVars

LEMMA TypeNext == TypeOK /\ [Next]_vars => TypeOK'
<1> SUFFICES ASSUME TypeOK, [Next]_vars PROVE TypeOK'
  OBVIOUS
<1>1. CASE \E r \in Requests : \E b \in Batches : Arrive(r, b)
  BY <1>1, TypeArrive
<1>2. CASE \E r \in Requests : Resume(r)
  BY <1>2, TypeScan, TypeResume DEF Resume
<1>3. CASE \E r \in Requests : Answer(r)
  BY <1>3, TypeAnswer
<1>4. CASE Restart
  BY <1>4, TypeRestart
<1>5. CASE AllOver \/ UNCHANGED vars
  BY <1>5 DEF AllOver, TypeOK, vars, handlerVars, stateVars, storeVars, historyVars
<1> QED
  BY <1>1, <1>2, <1>3, <1>4, <1>5 DEF Next

\* Types hold in every reachable state: no deque outgrows window_size, and
\* only the handler that scans has the event loop.
THEOREM TypeCorrect == Spec => []TypeOK
  BY TypeInit, TypeNext, PTL DEF Spec

-----------------------------------------------------------------------------
(* Rows and alerts.  The inductive invariant places every row and alert of *)
(* a request relative to the reading its handler is at: those of earlier   *)
(* readings are complete, and the one of the reading at hand exists only   *)
(* where the handler, or its last await, puts it.                          *)

\* Where the row, and the alert, of the reading at hand may exist.
HasRow   == {"inserted", "published", "failed", "lost"}
HasAlert == {"published", "failed", "lost"}

RowPlace ==
    \A row \in anomaly_events :
        \/ row.idx < pos[row.req] /\ Alerted(row)
        \/ row = Row(Event(row.req)) /\ pc[row.req] \in HasRow
AlertPlace ==
    \A k \in Alerts :
        LET x == published[k]
        IN  \/ x.idx < pos[x.req]
            \/ x = Event(x.req) /\ pc[x.req] \in HasAlert
RowMade == \A r \in Requests : pc[r] \in {"inserted", "published"} =>
               Row(Event(r)) \in anomaly_events
AlertMade == \A r \in Requests : pc[r] = "published" =>
               \E k \in Alerts : published[k] = Event(r)

LogInv == /\ RowPlace /\ AlertPlace
          /\ RowMade /\ AlertMade
          /\ AlertsBacked /\ AlertedOnce

LEMMA EventFields ==
    ASSUME NEW r
    PROVE  /\ Event(r).req = r /\ Row(Event(r)).req = r
           /\ Event(r).idx = pos[r] /\ Row(Event(r)).idx = pos[r]
  BY DEF Event, Row

\* A step that makes no row and no alert takes each handler on in one of
\* three ways.
StaysAt(q) == /\ pos'[q] = pos[q] /\ Event(q)' = Event(q)
              /\ pc'[q] = pc[q] \/ pc'[q] \in {"failed", "lost"}
Approaches(q) == /\ pc[q] \notin HasRow /\ pc'[q] \notin {"inserted", "published"}
                 /\ pos'[q] >= pos[q]
Passes(q) == pc[q] = "published" /\ pc'[q] = "scan" /\ pos'[q] = pos[q] + 1
QuietStep ==
    /\ UNCHANGED <<anomaly_events, published>>
    /\ \A q \in Requests : StaysAt(q) \/ Approaches(q) \/ Passes(q)

LEMMA Quiet ==
    ASSUME TypeOK, [Next]_vars
    PROVE  QuietStep \/ \E r \in Requests : CommitAnomaly(r) \/ RedisPublish(r)
<1> USE DEF QuietStep, StaysAt, Approaches, Passes, HasRow, Event, Reading
<1>1. ASSUME NEW r \in Requests, NEW b \in Batches, Arrive(r, b) PROVE QuietStep
  <2>1. /\ pc[r] = "idle" /\ pc'[r] \notin HasRow
        /\ UNCHANGED <<pos, score, anomaly_events, published>>
        /\ \A q \in Requests : q # r => pc'[q] = pc[q] /\ batch'[q] = batch[q]
    BY <1>1 DEF TypeOK, Arrive, storeVars
  <2>2. \A q \in Requests : pos[q] \in Nat
    BY DEF TypeOK
  <2> QED
    BY <2>1, <2>2
<1>2. ASSUME NEW r \in Requests, ResumePersisted(r) PROVE QuietStep
  BY <1>2 DEF TypeOK, ResumePersisted, storeVars
<1>3. ASSUME NEW r \in Requests, ResumePublished(r) PROVE QuietStep
  BY <1>3 DEF TypeOK, ResumePublished, storeVars
<1>4. ASSUME NEW r \in Requests, Finish(r) PROVE QuietStep
  BY <1>4 DEF TypeOK, Finish, storeVars
<1>5. ASSUME NEW r \in Requests, ScanWarmup(r) PROVE QuietStep
  <2>1. /\ pc[r] = "scan" /\ pos' = [pos EXCEPT ![r] = pos[r] + 1]
        /\ UNCHANGED <<pc, batch, score, anomaly_events, published>>
    BY <1>5 DEF ScanWarmup, Scanning, storeVars
  <2>2. pos \in [Requests -> Nat \ {0}]
    BY DEF TypeOK
  <2> QED
    BY <2>1, <2>2
<1>6. ASSUME NEW r \in Requests, ScanNormal(r) PROVE QuietStep
  <2>1. /\ pc[r] = "scan" /\ pos' = [pos EXCEPT ![r] = pos[r] + 1]
        /\ UNCHANGED <<pc, batch, score, anomaly_events, published>>
    BY <1>6 DEF ScanNormal, Scanning, storeVars
  <2>2. pos \in [Requests -> Nat \ {0}]
    BY DEF TypeOK
  <2> QED
    BY <2>1, <2>2
<1>7. ASSUME NEW r \in Requests, ScanAnomaly(r) PROVE QuietStep
  BY <1>7 DEF TypeOK, ScanAnomaly, Scanning, storeVars
<1>8. ASSUME NEW r \in Requests, ScanError(r) PROVE QuietStep
  BY <1>8 DEF TypeOK, ScanError, Scanning, storeVars
<1>9. ASSUME NEW r \in Requests, CommitBatch(r) PROVE QuietStep
  BY <1>9 DEF TypeOK, CommitBatch
<1>10. ASSUME NEW r \in Requests, Fail(r) PROVE QuietStep
  BY <1>10 DEF TypeOK, Fail, storeVars
<1>11. CASE Restart
  BY <1>11 DEF TypeOK, Restart, storeVars, Over
<1>12. CASE AllOver \/ UNCHANGED vars
  BY <1>12 DEF AllOver, vars, handlerVars, storeVars
<1> QED
  BY <1>1, <1>2, <1>3, <1>4, <1>5, <1>6, <1>7, <1>8, <1>9, <1>10, <1>11, <1>12
  DEF Next, Resume, Answer

LEMMA LogInit == Init => LogInv
  BY DEF Init, LogInv, RowPlace, AlertPlace, RowMade, AlertMade, AlertsBacked,
         AlertedOnce, Alerts

LEMMA LogQuiet ==
    ASSUME TypeOK, TypeOK', LogInv, QuietStep
    PROVE  LogInv'
<1>1. \A row \in anomaly_events : row.req \in Requests /\ row.idx \in Nat
  BY DEF TypeOK, EventRecord
<1>2. \A k \in Alerts : published[k].req \in Requests /\ published[k].idx \in Nat
  <2>1. \A k \in Alerts : published[k] \in EventRecord
    BY ElementOfSeq DEF TypeOK, Alerts
  <2> QED
    BY <2>1 DEF EventRecord
<1>3. /\ anomaly_events' = anomaly_events /\ published' = published /\ Alerts' = Alerts
      /\ \A row : Alerted(row)' <=> Alerted(row)
  BY DEF QuietStep, Alerts, Alerted
<1>4. \A q \in Requests : Event(q)' = Event(q) => Row(Event(q))' = Row(Event(q))
  BY DEF Row
<1>5. \A q \in Requests : pos[q] \in Nat /\ pos'[q] \in Nat /\ pos'[q] >= pos[q]
  <2> SUFFICES ASSUME NEW q \in Requests
               PROVE  pos[q] \in Nat /\ pos'[q] \in Nat /\ pos'[q] >= pos[q]
    OBVIOUS
  <2>1. pos[q] \in Nat /\ pos'[q] \in Nat
    BY DEF TypeOK
  <2> QED
    BY <2>1 DEF QuietStep, StaysAt, Approaches, Passes
<1>6. RowPlace'
  <2> SUFFICES ASSUME NEW row \in anomaly_events
               PROVE  \/ row.idx < pos'[row.req] /\ Alerted(row)
                      \/ row = Row(Event(row.req))' /\ pc'[row.req] \in HasRow
    BY <1>3 DEF RowPlace
  <2>1. row.req \in Requests /\ row.idx \in Nat
    BY <1>1
  <2>2. CASE row.idx < pos[row.req] /\ Alerted(row)
    BY <2>1, <2>2, <1>5
  <2>3. CASE row = Row(Event(row.req)) /\ pc[row.req] \in HasRow
    <3>1. CASE StaysAt(row.req)
      BY <3>1, <2>1, <2>3, <1>4 DEF StaysAt, HasRow
    <3>2. CASE Passes(row.req)
      <4>1. PICK k \in Alerts : published[k] = Event(row.req)
        BY <3>2, <2>1 DEF LogInv, AlertMade, Passes
      <4>2. Alerted(row) /\ row.idx = pos[row.req]
        BY <4>1, <2>3, EventFields DEF Alerted, SameReading
      <4> QED
        BY <4>2, <3>2, <2>1, <1>5 DEF Passes
    <3>3. ~Approaches(row.req)
      BY <2>3 DEF Approaches
    <3> QED
      BY <3>1, <3>2, <3>3, <2>1 DEF QuietStep
  <2> QED
    BY <2>2, <2>3 DEF LogInv, RowPlace
<1>7. AlertPlace'
  <2> SUFFICES ASSUME NEW k \in Alerts
               PROVE  \/ published[k].idx < pos'[published[k].req]
                      \/ /\ published[k] = Event(published[k].req)'
                         /\ pc'[published[k].req] \in HasAlert
    BY <1>3 DEF AlertPlace
  <2> DEFINE q == published[k].req
  <2>1. q \in Requests /\ published[k].idx \in Nat
    BY <1>2
  <2>2. CASE published[k].idx < pos[q]
    BY <2>1, <2>2, <1>5
  <2>3. CASE published[k] = Event(q) /\ pc[q] \in HasAlert
    <3>1. published[k].idx = pos[q]
      BY <2>3, EventFields
    <3> QED
      BY <2>1, <2>3, <3>1, <1>5
      DEF QuietStep, StaysAt, Approaches, Passes, HasRow, HasAlert
  <2> QED
    BY <2>2, <2>3 DEF LogInv, AlertPlace
<1>8. RowMade' /\ AlertMade'
  BY <1>3, <1>4
  DEF LogInv, RowMade, AlertMade, QuietStep, StaysAt, Approaches, Passes
<1>9. AlertsBacked' /\ AlertedOnce'
  BY <1>3 DEF LogInv, AlertsBacked, AlertedOnce, Row
<1> QED
  BY <1>6, <1>7, <1>8, <1>9 DEF LogInv

\* The INSERT of an anomaly commits: its reading had no row yet.
LEMMA LogCommit ==
    ASSUME TypeOK, LogInv, NEW r \in Requests, CommitAnomaly(r)
    PROVE  /\ LogInv'
           /\ \A row \in anomaly_events : ~(row.req = r /\ row.idx = pos[r])
<1>1. /\ anomaly_events' = anomaly_events \cup {Row(Event(r))}
      /\ pc[r] = "insert" /\ pc' = [pc EXCEPT ![r] = "inserted"]
      /\ UNCHANGED <<pos, batch, score, published>>
  BY DEF CommitAnomaly
<1>2. \A q : Event(q)' = Event(q) /\ Row(Event(q))' = Row(Event(q))
  BY <1>1 DEF Event, Row, Reading
<1>3. \A q \in Requests : pc'[q] = IF q = r THEN "inserted" ELSE pc[q]
  BY <1>1 DEF TypeOK
<1>4. Alerts' = Alerts /\ \A row : Alerted(row)' <=> Alerted(row)
  BY <1>1 DEF Alerts, Alerted
<1>5. \A row \in anomaly_events : row.req \in Requests
  BY DEF TypeOK, EventRecord
<1>6. \A k \in Alerts : published[k].req \in Requests
  <2>1. \A k \in Alerts : published[k] \in EventRecord
    BY ElementOfSeq DEF TypeOK, Alerts
  <2> QED
    BY <2>1 DEF EventRecord
<1>7. RowPlace'
  <2> SUFFICES ASSUME NEW row \in anomaly_events \cup {Row(Event(r))}
               PROVE  \/ row.idx < pos[row.req] /\ Alerted(row)
                      \/ row = Row(Event(row.req)) /\ pc'[row.req] \in HasRow
    BY <1>1, <1>2, <1>4 DEF RowPlace
  <2>1. CASE row = Row(Event(r))
    BY <2>1, <1>3, EventFields DEF HasRow
  <2>2. CASE row \in anomaly_events
    BY <2>2, <1>3, <1>5 DEF LogInv, RowPlace, HasRow
  <2> QED
    BY <2>1, <2>2
<1>8. AlertPlace'
  BY <1>1, <1>2, <1>3, <1>4, <1>6 DEF LogInv, AlertPlace, HasAlert
<1>9. RowMade' /\ AlertMade'
  BY <1>1, <1>2, <1>3, <1>4 DEF LogInv, RowMade, AlertMade
<1>10. AlertsBacked' /\ AlertedOnce'
  BY <1>1, <1>4 DEF LogInv, AlertsBacked, AlertedOnce, Row
<1>11. \A row \in anomaly_events : ~(row.req = r /\ row.idx = pos[r])
  <2>1. pos[r] \in Nat
    BY DEF TypeOK
  <2> QED
    BY <2>1, <1>1 DEF LogInv, RowPlace, HasRow
<1> QED
  BY <1>7, <1>8, <1>9, <1>10, <1>11 DEF LogInv

\* Redis takes an alert: its reading has a row and had no alert yet.
LEMMA LogPublish ==
    ASSUME TypeOK, LogInv, NEW r \in Requests, RedisPublish(r)
    PROVE  /\ LogInv'
           /\ Row(Event(r)) \in anomaly_events
           /\ \A k \in Alerts : ~(published[k].req = r /\ published[k].idx = pos[r])
<1> DEFINE n == Len(published)
<1>1. /\ published' = Append(published, Event(r))
      /\ pc[r] = "inserted" /\ pc' = [pc EXCEPT ![r] = "published"]
      /\ UNCHANGED <<pos, batch, score, anomaly_events>>
  BY DEF RedisPublish
<1>2. \A q : Event(q)' = Event(q) /\ Row(Event(q))' = Row(Event(q))
  BY <1>1 DEF Event, Row, Reading
<1>3. \A q \in Requests : pc'[q] = IF q = r THEN "published" ELSE pc[q]
  BY <1>1 DEF TypeOK
<1>4. /\ n \in Nat /\ Alerts = 1 .. n /\ Alerts' = 1 .. n + 1
      /\ \A k \in Alerts : published'[k] = published[k]
      /\ published'[n + 1] = Event(r)
  <2>1. published \in Seq(EventRecord) /\ Event(r) \in EventRecord
    BY <1>1, EventType DEF TypeOK
  <2> QED
    BY <2>1, <1>1, AppendProperties DEF Alerts
<1>5. \A row : Alerted(row) => Alerted(row)'
  BY <1>4 DEF Alerted
<1>6. \A row \in anomaly_events : row.req \in Requests
  BY DEF TypeOK, EventRecord
<1>7. \A k \in Alerts : published[k].req \in Requests
  <2>1. \A k \in Alerts : published[k] \in EventRecord
    BY ElementOfSeq DEF TypeOK, Alerts
  <2> QED
    BY <2>1 DEF EventRecord
<1>8. \A k \in Alerts : ~(published[k].req = r /\ published[k].idx = pos[r])
  <2>1. pos[r] \in Nat
    BY DEF TypeOK
  <2> QED
    BY <2>1, <1>1 DEF LogInv, AlertPlace, HasAlert
<1>9. Row(Event(r)) \in anomaly_events
  BY <1>1 DEF LogInv, RowMade
<1>10. RowPlace'
  BY <1>1, <1>2, <1>3, <1>5, <1>6 DEF LogInv, RowPlace, HasRow
<1>11. AlertPlace'
  <2> SUFFICES ASSUME NEW k \in 1 .. n + 1
               PROVE  LET x == published'[k]
                      IN  \/ x.idx < pos[x.req]
                          \/ x = Event(x.req) /\ pc'[x.req] \in HasAlert
    BY <1>1, <1>2, <1>4 DEF AlertPlace
  <2>1. CASE k = n + 1
    BY <2>1, <1>3, <1>4, EventFields DEF HasAlert
  <2>2. CASE k \in 1 .. n
    BY <2>2, <1>3, <1>4, <1>7 DEF LogInv, AlertPlace, HasAlert
  <2> QED
    BY <2>1, <2>2, <1>4
<1>12. RowMade'
  BY <1>1, <1>2, <1>3, <1>9 DEF LogInv, RowMade
<1>13. AlertMade'
  <2> SUFFICES ASSUME NEW q \in Requests, pc'[q] = "published"
               PROVE  \E k \in 1 .. n + 1 : published'[k] = Event(q)
    BY <1>2, <1>4 DEF AlertMade
  <2>1. CASE q = r
    BY <2>1, <1>4
  <2>2. CASE q # r
    <3>1. PICK k \in 1 .. n : published[k] = Event(q)
      BY <2>2, <1>3, <1>4 DEF LogInv, AlertMade
    <3> QED
      BY <3>1, <1>4
  <2> QED
    BY <2>1, <2>2
<1>14. AlertsBacked'
  <2> SUFFICES ASSUME NEW k \in 1 .. n + 1 PROVE Row(published'[k]) \in anomaly_events
    BY <1>1, <1>4 DEF AlertsBacked, Row
  <2>1. CASE k = n + 1
    BY <2>1, <1>4, <1>9
  <2>2. CASE k \in 1 .. n
    BY <2>2, <1>4 DEF LogInv, AlertsBacked
  <2> QED
    BY <2>1, <2>2, <1>4
<1>15. AlertedOnce'
  <2> SUFFICES ASSUME NEW j \in 1 .. n + 1, NEW k \in 1 .. n + 1,
                      SameReading(published'[j], published'[k])
               PROVE  j = k
    BY <1>4 DEF AlertedOnce, SameReading
  <2>1. CASE j = n + 1 /\ k = n + 1
    BY <2>1
  <2>2. CASE j \in 1 .. n /\ k \in 1 .. n
    BY <2>2, <1>4 DEF LogInv, AlertedOnce
  <2>3. CASE (j \in 1 .. n /\ k = n + 1) \/ (j = n + 1 /\ k \in 1 .. n)
    BY <2>3, <1>4, <1>8, EventFields DEF SameReading
  <2>4. (j \in 1 .. n \/ j = n + 1) /\ (k \in 1 .. n \/ k = n + 1)
    <3> n \in Nat
      BY <1>4
    <3> HIDE DEF n
    <3> QED
      OBVIOUS
  <2> QED
    BY <2>1, <2>2, <2>3, <2>4
<1>16. LogInv'
  BY <1>10, <1>11, <1>12, <1>13, <1>14, <1>15 DEF LogInv
<1> QED
  BY <1>8, <1>9, <1>16

LEMMA LogNext == TypeOK /\ TypeOK' /\ LogInv /\ [Next]_vars => LogInv'
  BY Quiet, LogQuiet, LogCommit, LogPublish

\* The inductive invariant holds in every reachable state.
LEMMA LogCorrect == Spec => []LogInv
  BY TypeCorrect, LogInit, LogNext, PTL DEF Spec

\* Whoever receives an alert finds the event in the database.
THEOREM AlertsBackedCorrect == Spec => []AlertsBacked
<1>1. LogInv => AlertsBacked
  BY DEF LogInv
<1> QED
  BY <1>1, LogCorrect, PTL

\* No anomaly is announced twice.
THEOREM AlertedOnceCorrect == Spec => []AlertedOnce
<1>1. LogInv => AlertedOnce
  BY DEF LogInv
<1> QED
  BY <1>1, LogCorrect, PTL

\* A published anomaly has its alert, so a row without one was not published.
LEMMA UnalertedTells == TypeOK /\ LogInv => UnalertedRowIsLast
<1> SUFFICES ASSUME TypeOK, LogInv, NEW row \in anomaly_events, ~Alerted(row)
             PROVE  /\ pc[row.req] \in {"inserted", "failed", "lost"}
                    /\ row = Row(Event(row.req))
  BY DEF UnalertedRowIsLast
<1>1. row = Row(Event(row.req)) /\ pc[row.req] \in HasRow /\ row.req \in Requests
  BY DEF LogInv, RowPlace, TypeOK, EventRecord
<1>2. pc[row.req] # "published"
  <2> SUFFICES ASSUME pc[row.req] = "published" PROVE FALSE
    OBVIOUS
  <2>1. PICK k \in Alerts : published[k] = Event(row.req)
    BY <1>1 DEF LogInv, AlertMade
  <2>2. SameReading(published[k], row)
    BY <1>1, <2>1, EventFields DEF SameReading
  <2> QED
    BY <2>2 DEF Alerted
<1> QED
  BY <1>1, <1>2 DEF HasRow

\* An unannounced row is the last one of a request that did not get past it.
THEOREM UnalertedRowIsLastCorrect == Spec => []UnalertedRowIsLast
  BY UnalertedTells, TypeCorrect, LogCorrect, PTL

-----------------------------------------------------------------------------
(* Refinement: the ingest path implements AnomalyLog.                      *)

\* A handler past the size check has a batch within the limit.
BatchFits == \A r \in Requests : pc[r] \notin {"idle", "rejected"} =>
                Len(batch[r]) <= max_batch_size

LEMMA BatchFitsNext == TypeOK /\ BatchFits /\ [Next]_vars => BatchFits'
<1> SUFFICES ASSUME TypeOK, BatchFits, [Next]_vars PROVE BatchFits'
  OBVIOUS
<1> USE DEF BatchFits
<1>1. ASSUME NEW r \in Requests, NEW b \in Batches, Arrive(r, b) PROVE BatchFits'
  <2>1. Len(b) \in Nat
    BY IngestAssumption
  <2> QED
    BY <1>1, <2>1, IngestAssumption DEF TypeOK, Arrive
<1>2. ASSUME NEW r \in Requests, Resume(r) PROVE BatchFits'
  BY <1>2 DEF TypeOK, Resume, ResumePersisted, ResumePublished, Finish, ScanWarmup,
              ScanNormal, ScanAnomaly, ScanError, Scanning
<1>3. ASSUME NEW r \in Requests, Answer(r) PROVE BatchFits'
  BY <1>3 DEF TypeOK, Answer, CommitBatch, CommitAnomaly, RedisPublish, Fail, AtAwait
<1>4. CASE Restart
  BY <1>4 DEF TypeOK, Restart, Over
<1>5. CASE AllOver \/ UNCHANGED vars
  BY <1>5 DEF AllOver, vars, handlerVars
<1> QED
  BY <1>1, <1>2, <1>3, <1>4, <1>5 DEF Next

LEMMA BatchFitsCorrect == Spec => []BatchFits
<1>1. Init => BatchFits
  BY DEF Init, BatchFits
<1> QED
  BY <1>1, TypeCorrect, BatchFitsNext, PTL DEF Spec

Recorded == {<<row.req, row.idx>> : row \in anomaly_events}
AnnouncedSeq == [k \in Alerts |-> <<published[k].req, published[k].idx>>]

LEMMA AnnouncedType ==
    ASSUME TypeOK
    PROVE  /\ AnnouncedSeq \in Seq(Requests \X Nat)
           /\ Len(AnnouncedSeq) = Len(published)
           /\ \A k \in Alerts : AnnouncedSeq[k] = <<published[k].req, published[k].idx>>
<1>1. \A k \in Alerts : published[k] \in EventRecord
  BY ElementOfSeq DEF TypeOK, Alerts
<1>2. \A k \in Alerts : <<published[k].req, published[k].idx>> \in Requests \X Nat
  BY <1>1 DEF EventRecord
<1>3. Len(published) \in Nat
  BY DEF TypeOK
<1> QED
  BY <1>2, <1>3 DEF AnnouncedSeq, Alerts

\* Every commit of an INSERT is a Record, every PUBLISH an Announce, and
\* everything else leaves the log alone.
LEMMA LogRefinement ==
    ASSUME TypeOK, TypeOK', LogInv, BatchFits, [Next]_vars
    PROVE  [Log!Next]_(Log!logVars)
<1> USE DEF Recorded, AnnouncedSeq
<1>1. CASE QuietStep
  BY <1>1 DEF QuietStep, Log!logVars, Alerts
<1>2. ASSUME NEW r \in Requests, CommitAnomaly(r) PROVE Log!Next
  <2> DEFINE a == <<r, pos[r]>>
  <2>1. a \in Requests \X (1 .. max_batch_size)
    <3>1. pos[r] \in Nat \ {0} /\ pos[r] <= Len(batch[r]) /\ Len(batch[r]) <= max_batch_size
      BY <1>2 DEF CommitAnomaly, TypeOK, BatchFits
    <3>2. Len(batch[r]) \in Nat /\ max_batch_size \in Nat
      BY IngestAssumption DEF TypeOK
    <3> QED
      BY <3>1, <3>2
  <2>2. a \notin Recorded
    BY <1>2, LogCommit
  <2>3. Recorded' = Recorded \cup {a}
    BY <1>2, EventFields DEF CommitAnomaly
  <2>4. AnnouncedSeq' = AnnouncedSeq
    BY <1>2 DEF CommitAnomaly, Alerts
  <2> QED
    BY <2>1, <2>2, <2>3, <2>4 DEF Log!Next, Log!Record
<1>3. ASSUME NEW r \in Requests, RedisPublish(r) PROVE Log!Next
  <2> DEFINE a == <<r, pos[r]>>
             n == Len(published)
  <2>1. a \in Requests \X (1 .. max_batch_size)
    <3>1. pos[r] \in Nat \ {0} /\ pos[r] <= Len(batch[r]) /\ Len(batch[r]) <= max_batch_size
      BY <1>3 DEF RedisPublish, TypeOK, BatchFits
    <3>2. Len(batch[r]) \in Nat /\ max_batch_size \in Nat
      BY IngestAssumption DEF TypeOK
    <3> QED
      BY <3>1, <3>2
  <2>2. a \in Recorded
    BY <1>3, LogPublish, EventFields
  <2>3. ~Log!Announced(a)
    <3>1. \A k \in Alerts : AnnouncedSeq[k] # a
      BY <1>3, LogPublish, AnnouncedType
    <3> QED
      BY <3>1, AnnouncedType DEF Log!Announced, Alerts
  <2>4. AnnouncedSeq' = Append(AnnouncedSeq, a)
    <3>1. published' = Append(published, Event(r)) /\ published \in Seq(EventRecord)
      BY <1>3 DEF RedisPublish, TypeOK
    <3>2. Event(r) \in EventRecord /\ a \in Requests \X Nat
      BY <1>3, EventType DEF RedisPublish, TypeOK
    <3>3. /\ n \in Nat /\ Len(published') = n + 1
          /\ \A k \in 1 .. n : published'[k] = published[k]
          /\ published'[n + 1] = Event(r)
      BY <3>1, <3>2, AppendProperties
    <3>4. /\ AnnouncedSeq' \in Seq(Requests \X Nat) /\ Len(AnnouncedSeq') = n + 1
          /\ \A k \in 1 .. n + 1 : AnnouncedSeq'[k] = <<published'[k].req, published'[k].idx>>
      <4>1. \A k \in 1 .. n + 1 : published'[k] \in EventRecord
        BY <3>3, ElementOfSeq DEF TypeOK
      <4>2. \A k \in 1 .. n + 1 : <<published'[k].req, published'[k].idx>> \in Requests \X Nat
        BY <4>1 DEF EventRecord
      <4> QED
        BY <3>3, <4>2 DEF Alerts
    <3> HIDE DEF AnnouncedSeq
    <3>5. /\ Append(AnnouncedSeq, a) \in Seq(Requests \X Nat)
          /\ Len(Append(AnnouncedSeq, a)) = n + 1
          /\ \A k \in 1 .. n : Append(AnnouncedSeq, a)[k] = AnnouncedSeq[k]
          /\ Append(AnnouncedSeq, a)[n + 1] = a
      BY <3>2, AnnouncedType, AppendProperties
    <3>6. \A k \in 1 .. n + 1 : AnnouncedSeq'[k] = Append(AnnouncedSeq, a)[k]
      <4> SUFFICES ASSUME NEW k \in 1 .. n + 1
                   PROVE  AnnouncedSeq'[k] = Append(AnnouncedSeq, a)[k]
        OBVIOUS
      <4>1. AnnouncedSeq'[k] = <<published'[k].req, published'[k].idx>>
        BY <3>4
      <4>2. CASE k \in 1 .. n
        <5>1. published'[k] = published[k] /\ Append(AnnouncedSeq, a)[k] = AnnouncedSeq[k]
          BY <4>2, <3>3, <3>5
        <5>2. AnnouncedSeq[k] = <<published[k].req, published[k].idx>>
          BY <4>2, AnnouncedType DEF Alerts
        <5> QED
          BY <4>1, <5>1, <5>2
      <4>3. CASE k = n + 1
        <5>1. published'[k] = Event(r) /\ Append(AnnouncedSeq, a)[k] = a
          BY <4>3, <3>3, <3>5
        <5>2. Event(r).req = r /\ Event(r).idx = pos[r]
          BY EventFields
        <5>3. AnnouncedSeq'[k] = <<Event(r).req, Event(r).idx>>
          BY <4>1, <5>1
        <5>4. <<Event(r).req, Event(r).idx>> = a
          BY <5>2
        <5> QED
          BY <5>1, <5>3, <5>4
      <4>4. k \in 1 .. n \/ k = n + 1
        <5>1. n \in Nat
          BY DEF TypeOK
        <5> QED
          BY <5>1
      <4> QED
        BY <4>2, <4>3, <4>4
    <3> QED
      BY <3>4, <3>5, <3>6, SeqEqual
  <2>5. Recorded' = Recorded
    BY <1>3 DEF RedisPublish
  <2> QED
    BY <2>1, <2>2, <2>3, <2>4, <2>5 DEF Log!Next, Log!Announce
<1> QED
  BY <1>1, <1>2, <1>3, Quiet

\* The ingest path implements the abstract log, under every failure.
THEOREM ImplementsAnomalyLog == Spec => LogSpec
<1>1. Init => Log!Init
  BY DEF Init, Log!Init, Alerts
<1> QED
  BY <1>1, TypeCorrect, LogCorrect, BatchFitsCorrect, LogRefinement, PTL
  DEF Spec, LogSpec, Log!Spec
\* Announcing something new keeps the announcements apart.
LEMMA AnnounceKeeps ==
    ASSUME NEW S, NEW old \in Seq(S), NEW a \in S, NEW R, a \in R,
           \A k \in 1 .. Len(old) : old[k] # a,
           \A k \in 1 .. Len(old) : old[k] \in R,
           \A j, k \in 1 .. Len(old) : old[j] = old[k] => j = k
    PROVE  LET new == Append(old, a)
           IN  /\ new \in Seq(S) /\ Len(old) <= Len(new)
               /\ \A k \in 1 .. Len(old) : new[k] = old[k]
               /\ \A k \in 1 .. Len(new) : new[k] \in R
               /\ \A j, k \in 1 .. Len(new) : new[j] = new[k] => j = k
<1> DEFINE n == Len(old)
           new == Append(old, a)
<1>1. /\ n \in Nat /\ new \in Seq(S) /\ Len(new) = n + 1
      /\ \A k \in 1 .. n : new[k] = old[k]
      /\ new[n + 1] = a
  BY AppendProperties
<1> HIDE DEF new
<1>2. \A k \in 1 .. n + 1 : k \in 1 .. n \/ k = n + 1
  BY <1>1
<1>3. \A k \in 1 .. n + 1 : new[k] \in R
  BY <1>1, <1>2
<1>4. \A j, k \in 1 .. n + 1 : new[j] = new[k] => j = k
  BY <1>1, <1>2
<1>5. n <= n + 1
  BY <1>1
<1> QED
  BY <1>1, <1>3, <1>4, <1>5 DEF new

PromiseInv == AnnouncedSeq \in Seq(Requests \X Nat) /\ Log!Promise

\* A step of the log keeps its promise and takes nothing back.
LEMMA LogStepKeeps ==
    PromiseInv /\ [Log!Next]_(Log!logVars) => PromiseInv' /\ [Log!Kept]_(Log!logVars)
<1> SUFFICES ASSUME AnnouncedSeq \in Seq(Requests \X Nat), Log!Promise,
                    [Log!Next]_(Log!logVars)
             PROVE  AnnouncedSeq' \in Seq(Requests \X Nat) /\ Log!Promise' /\ Log!Kept
  BY DEF PromiseInv
<1>1. /\ \A k \in 1 .. Len(AnnouncedSeq) : AnnouncedSeq[k] \in Recorded
      /\ \A j, k \in 1 .. Len(AnnouncedSeq) : AnnouncedSeq[j] = AnnouncedSeq[k] => j = k
  BY DEF Log!Promise, Recorded, AnnouncedSeq
<1>2. \/ AnnouncedSeq' = AnnouncedSeq /\ Recorded \subseteq Recorded'
      \/ \E a \in Requests \X (1 .. max_batch_size) :
            /\ a \in Recorded /\ Recorded' = Recorded
            /\ AnnouncedSeq' = Append(AnnouncedSeq, a)
            /\ \A k \in 1 .. Len(AnnouncedSeq) : AnnouncedSeq[k] # a
  <2>1. CASE UNCHANGED Log!logVars
    BY <2>1 DEF Log!logVars, Recorded, AnnouncedSeq
  <2>2. CASE \E a \in Requests \X (1 .. max_batch_size) : Log!Record(a)
    BY <2>2 DEF Log!Record, Recorded, AnnouncedSeq
  <2>3. ASSUME NEW a \in Requests \X (1 .. max_batch_size), Log!Announce(a)
        PROVE  /\ a \in Recorded /\ Recorded' = Recorded
               /\ AnnouncedSeq' = Append(AnnouncedSeq, a)
               /\ \A k \in 1 .. Len(AnnouncedSeq) : AnnouncedSeq[k] # a
    BY <2>3 DEF Log!Announce, Log!Announced, Recorded, AnnouncedSeq
  <2> QED
    BY <2>1, <2>2, <2>3 DEF Log!Next
<1>3. /\ AnnouncedSeq' \in Seq(Requests \X Nat) /\ Recorded \subseteq Recorded'
      /\ Len(AnnouncedSeq) <= Len(AnnouncedSeq')
      /\ \A k \in 1 .. Len(AnnouncedSeq) : AnnouncedSeq'[k] = AnnouncedSeq[k]
      /\ \A k \in 1 .. Len(AnnouncedSeq') : AnnouncedSeq'[k] \in Recorded'
      /\ \A j, k \in 1 .. Len(AnnouncedSeq') : AnnouncedSeq'[j] = AnnouncedSeq'[k] => j = k
  <2>1. CASE AnnouncedSeq' = AnnouncedSeq /\ Recorded \subseteq Recorded'
    <3>1. Len(AnnouncedSeq) \in Nat
      OBVIOUS
    <3> QED
      BY <1>1, <2>1, <3>1
  <2>2. CASE \E a \in Requests \X (1 .. max_batch_size) :
                /\ a \in Recorded /\ Recorded' = Recorded
                /\ AnnouncedSeq' = Append(AnnouncedSeq, a)
                /\ \A k \in 1 .. Len(AnnouncedSeq) : AnnouncedSeq[k] # a
    <3>1. PICK a \in Requests \X (1 .. max_batch_size) :
                (a \in Recorded /\ Recorded' = Recorded)
                /\ AnnouncedSeq' = Append(AnnouncedSeq, a)
                /\ \A k \in 1 .. Len(AnnouncedSeq) : AnnouncedSeq[k] # a
      BY <2>2
    <3>2. a \in Requests \X Nat
      BY IngestAssumption
    <3> QED
      BY <1>1, <3>1, <3>2, AnnounceKeeps
  <2> QED
    BY <1>2, <2>1, <2>2
<1>4. Log!Promise'
  BY <1>3 DEF Log!Promise, Recorded, AnnouncedSeq
<1>5. Log!Kept
  BY <1>3 DEF Log!Kept, Recorded, AnnouncedSeq
<1> QED
  BY <1>3, <1>4, <1>5

\* What the log promises, it keeps, and so does the ingest path, whatever fails:
\* every announced anomaly is recorded and announced once, and neither a record
\* nor an announcement is ever taken back.
THEOREM LogPromiseKept == Spec => []Log!Promise /\ [][Log!Kept]_(Log!logVars)
<1>1. Log!Init => PromiseInv
  <2> SUFFICES ASSUME Log!Init PROVE PromiseInv
    OBVIOUS
  <2>1. AnnouncedSeq = <<>>
    BY DEF Log!Init, AnnouncedSeq
  <2>2. AnnouncedSeq \in Seq(Requests \X Nat) /\ Len(AnnouncedSeq) = 0
    BY <2>1
  <2> QED
    BY <2>2 DEF PromiseInv, Log!Promise, AnnouncedSeq
<1>2. PromiseInv => Log!Promise
  BY DEF PromiseInv
<1>3. LogSpec => []Log!Promise /\ [][Log!Kept]_(Log!logVars)
  BY <1>1, <1>2, LogStepKeeps, PTL DEF LogSpec, Log!Spec
<1> QED
  BY <1>3, ImplementsAnomalyLog, PTL

-----------------------------------------------------------------------------
(* Answers.  Until it fails, a handler has counted every row and alert of  *)
(* its request except those of the anomaly it is at, and it has counted no *)
(* more anomalies than windows, and no more windows than readings.         *)

OneIf(place, S) == IF place \in S THEN 1 ELSE 0
AtAnomaly == {"insert", "inserted", "published"}
Stored == {"inserted", "published"}
Sent == {"published"}

Tally(r) ==
    /\ IsFiniteSet(RowsOf(r))
    /\ Cardinality(RowsOf(r)) = response[r].anomalies_detected
                                    + OneIf(pc[r], Stored)
    /\ IsFiniteSet(AlertsOf(r))
    /\ Cardinality(AlertsOf(r)) = response[r].anomalies_detected + OneIf(pc[r], Sent)
    /\ response[r].anomalies_detected + OneIf(pc[r], AtAnomaly) <= response[r].queued_windows
    /\ response[r].queued_windows <= pos[r] - 1 + OneIf(pc[r], AtAnomaly)
    /\ pos[r] <= Len(batch[r]) + 1
    /\ pc[r] = "idle" => pos[r] = 1
TallyInv == \A r \in Requests : pc[r] \in {"failed", "lost"} \/ Tally(r)

LEMMA CountsType ==
    ASSUME TypeOK, NEW r \in Requests
    PROVE  /\ response[r].anomalies_detected \in Nat /\ response[r].queued_windows \in Nat
           /\ pos[r] \in Nat \ {0} /\ Len(batch[r]) \in Nat
  BY LenProperties DEF TypeOK

\* What a step that makes no row and no alert of r has to get right.
LEMMA TallyCounts ==
    ASSUME NEW r \in Requests, TypeOK, TypeOK', Tally(r),
           RowsOf(r)' = RowsOf(r), AlertsOf(r)' = AlertsOf(r),
           response'[r].anomalies_detected - response[r].anomalies_detected
               = OneIf(pc[r], Sent) - OneIf(pc'[r], Sent),
           pc[r] = "inserted" <=> pc'[r] = "inserted",
           response'[r].anomalies_detected + OneIf(pc'[r], AtAnomaly)
               <= response'[r].queued_windows,
           response'[r].queued_windows <= pos'[r] - 1 + OneIf(pc'[r], AtAnomaly),
           pos'[r] <= Len(batch'[r]) + 1,
           pc'[r] = "idle" => pos'[r] = 1
    PROVE  Tally(r)'
  <1>1. response[r].anomalies_detected \in Nat /\ response'[r].anomalies_detected \in Nat
    BY DEF TypeOK
  <1>2. /\ OneIf(pc[r], Sent) \in Nat /\ OneIf(pc'[r], Sent) \in Nat
        /\ OneIf(pc[r], Stored) \in Nat /\ OneIf(pc'[r], Stored) \in Nat
    BY DEF OneIf
  <1>3. OneIf(pc[r], Stored) - OneIf(pc'[r], Stored) = OneIf(pc[r], Sent) - OneIf(pc'[r], Sent)
    BY DEF OneIf, Stored, Sent
  <1>4. response[r].anomalies_detected + OneIf(pc[r], Sent)
            = response'[r].anomalies_detected + OneIf(pc'[r], Sent)
    BY <1>1, <1>2
  <1>5. response[r].anomalies_detected + OneIf(pc[r], Stored)
            = response'[r].anomalies_detected + OneIf(pc'[r], Stored)
    <2> DEFINE a == response[r].anomalies_detected  b == response'[r].anomalies_detected
               s == OneIf(pc[r], Sent)    t == OneIf(pc'[r], Sent)
               u == OneIf(pc[r], Stored)  v == OneIf(pc'[r], Stored)
    <2>1. a \in Nat /\ b \in Nat /\ s \in Nat /\ t \in Nat /\ u \in Nat /\ v \in Nat
      BY <1>1, <1>2
    <2>2. a + s = b + t /\ u - v = s - t
      BY <1>3, <1>4
    <2>3. a + u = b + v
      <3> HIDE DEF a, b, s, t, u, v
      <3> QED
        BY <2>1, <2>2
    <2> QED
      BY <2>3
  <1>6. /\ Cardinality(RowsOf(r)) = response'[r].anomalies_detected + OneIf(pc'[r], Stored)
        /\ Cardinality(AlertsOf(r)) = response'[r].anomalies_detected + OneIf(pc'[r], Sent)
    BY <1>4, <1>5 DEF Tally
  <1> QED
    BY <1>6 DEF Tally

\* A handler that nothing happens to.
LEMMA TallyOther ==
    ASSUME NEW r \in Requests, Tally(r),
           RowsOf(r)' = RowsOf(r), AlertsOf(r)' = AlertsOf(r),
           pc'[r] = pc[r], pos'[r] = pos[r], batch'[r] = batch[r], response'[r] = response[r]
    PROVE  Tally(r)'
  BY DEF Tally, OneIf, AtAnomaly, Stored, Sent

LEMMA SameSets ==
    ASSUME UNCHANGED <<anomaly_events, published>>
    PROVE  \A r : RowsOf(r)' = RowsOf(r) /\ AlertsOf(r)' = AlertsOf(r)
  BY DEF RowsOf, AlertsOf, Alerts

LEMMA TallyInit == Init => TallyInv
  <1> SUFFICES ASSUME Init, NEW r \in Requests PROVE Tally(r)
    BY DEF TallyInv
  <1>1. RowsOf(r) = {} /\ AlertsOf(r) = {}
    BY DEF Init, RowsOf, AlertsOf, Alerts
  <1> QED
    BY <1>1, FS_EmptySet DEF Init, Tally, OneIf, AtAnomaly, Stored, Sent

\* The actions of the handler r that leave the rows and alerts alone.
LEMMA TallyQuiet ==
    ASSUME TypeOK, TypeOK', TallyInv, NEW r \in Requests,
           (\E b \in Batches : Arrive(r, b)) \/ Resume(r) \/ CommitBatch(r) \/ Fail(r)
    PROVE  TallyInv'
  <1>1. UNCHANGED <<anomaly_events, published>>
    BY DEF Arrive, Resume, CommitBatch, Fail, ResumePersisted, ResumePublished, Finish,
           ScanWarmup, ScanNormal, ScanAnomaly, ScanError, storeVars
  <1>2. ASSUME NEW q \in Requests, q # r PROVE pc'[q] \in {"failed", "lost"} \/ Tally(q)'
    <2>1. /\ pc'[q] = pc[q] /\ pos'[q] = pos[q] /\ batch'[q] = batch[q]
          /\ response'[q] = response[q]
      <3>1. CASE (\E b \in Batches : Arrive(r, b)) \/ CommitBatch(r) \/ Fail(r)
        BY <1>2, <3>1 DEF TypeOK, Arrive, CommitBatch, Fail
      <3>2. CASE Resume(r)
        BY <1>2, <3>2 DEF TypeOK, Resume, ResumePersisted, ResumePublished, Finish,
                          ScanWarmup, ScanNormal, ScanAnomaly, ScanError, CountWindow
      <3> QED
        BY <3>1, <3>2
    <2> QED
      BY <1>1, <2>1, SameSets, TallyOther DEF TallyInv
  <1>3. pc'[r] \in {"failed", "lost"} \/ Tally(r)'
    <2> SUFFICES ASSUME pc'[r] \notin {"failed", "lost"} PROVE Tally(r)'
      OBVIOUS
    <2>1. /\ response \in [Requests -> [queued_windows : Nat, anomalies_detected : Nat]]
          /\ pc \in [Requests -> PCs] /\ pos \in [Requests -> Nat \ {0}]
          /\ batch \in [Requests -> Seq(SensorReading)]
      BY DEF TypeOK
    <2>2. pc[r] \notin {"failed", "lost"}
      BY DEF Arrive, Resume, CommitBatch, Fail, ResumePersisted, AtAwait,
             ResumePublished, Finish, ScanWarmup, ScanNormal, ScanAnomaly, ScanError, Scanning
    <2>3. Tally(r) /\ RowsOf(r)' = RowsOf(r) /\ AlertsOf(r)' = AlertsOf(r)
      BY <1>1, <2>2, SameSets DEF TallyInv
    <2>4. /\ response[r].anomalies_detected \in Nat /\ response[r].queued_windows \in Nat
          /\ pos[r] \in Nat \ {0} /\ Len(batch[r]) \in Nat
          /\ Len(batch'[r]) \in Nat
      BY CountsType
    <2>5. /\ response[r].anomalies_detected + OneIf(pc[r], AtAnomaly) <= response[r].queued_windows
          /\ response[r].queued_windows <= pos[r] - 1 + OneIf(pc[r], AtAnomaly)
          /\ pos[r] <= Len(batch[r]) + 1
          /\ pc[r] = "idle" => pos[r] = 1
      BY <2>3 DEF Tally
    <2> DEFINE Goal ==
          /\ response'[r].anomalies_detected - response[r].anomalies_detected
               = OneIf(pc[r], Sent) - OneIf(pc'[r], Sent)
          /\ pc[r] = "inserted" <=> pc'[r] = "inserted"
          /\ response'[r].anomalies_detected + OneIf(pc'[r], AtAnomaly)
               <= response'[r].queued_windows
          /\ response'[r].queued_windows <= pos'[r] - 1 + OneIf(pc'[r], AtAnomaly)
          /\ pos'[r] <= Len(batch'[r]) + 1
          /\ pc'[r] = "idle" => pos'[r] = 1
    <2>6. ASSUME NEW b \in Batches, Arrive(r, b) PROVE Goal
      <3>1. /\ pc[r] = "idle" /\ pc'[r] \in {"rejected", "persist"}
            /\ pos[r] = 1 /\ pos'[r] = 1 /\ response'[r] = response[r]
        BY <2>1, <2>5, <2>6 DEF Arrive
      <3>2. OneIf(pc[r], AtAnomaly) = 0 /\ OneIf(pc'[r], AtAnomaly) = 0
            /\ OneIf(pc[r], Sent) = 0 /\ OneIf(pc'[r], Sent) = 0
        BY <3>1 DEF OneIf, AtAnomaly, Stored, Sent
      <3> QED
        BY <2>4, <2>5, <3>1, <3>2
    <2>7. ASSUME ResumePersisted(r) \/ Finish(r) \/ CommitBatch(r) PROVE Goal
      <3>1. /\ pc[r] \in {"persist", "persisted", "scan"}
            /\ pc'[r] \in {"persisted", "scan", "done"}
            /\ pos' = pos /\ response' = response /\ batch' = batch
        BY <2>1, <2>7 DEF ResumePersisted, Finish, CommitBatch
      <3>2. OneIf(pc[r], AtAnomaly) = 0 /\ OneIf(pc'[r], AtAnomaly) = 0
            /\ OneIf(pc[r], Sent) = 0 /\ OneIf(pc'[r], Sent) = 0
        BY <3>1 DEF OneIf, AtAnomaly, Stored, Sent
      <3> QED
        BY <2>4, <2>5, <3>1, <3>2
    <2>8. ASSUME ResumePublished(r) PROVE Goal
      <3>1. pos[r] <= Len(batch[r])
        BY <2>8 DEF ResumePublished, TypeOK
      <3>2. /\ response' = [response EXCEPT ![r].anomalies_detected =
                                           response[r].anomalies_detected + 1]
            /\ pos'[r] = pos[r] + 1 /\ pc'[r] = "scan" /\ pc[r] = "published" /\ batch' = batch
        BY <2>1, <2>8 DEF ResumePublished
      <3>3. /\ response'[r].anomalies_detected = response[r].anomalies_detected + 1
            /\ response'[r].queued_windows = response[r].queued_windows
        BY <2>1, <3>2
      <3>4. OneIf(pc[r], AtAnomaly) = 1 /\ OneIf(pc'[r], AtAnomaly) = 0
            /\ OneIf(pc[r], Sent) = 1 /\ OneIf(pc'[r], Sent) = 0
        BY <3>2 DEF OneIf, AtAnomaly, Stored, Sent
      <3> QED
        BY <2>4, <2>5, <3>1, <3>2, <3>3, <3>4
    <2>9. ASSUME ScanWarmup(r) PROVE Goal
      <3>1. /\ pc[r] = "scan" /\ pc'[r] = "scan" /\ pos'[r] = pos[r] + 1
            /\ response' = response /\ batch' = batch /\ pos[r] <= Len(batch[r])
        BY <2>1, <2>9 DEF ScanWarmup, Scanning
      <3>2. OneIf(pc[r], AtAnomaly) = 0 /\ OneIf(pc'[r], AtAnomaly) = 0
            /\ OneIf(pc[r], Sent) = 0 /\ OneIf(pc'[r], Sent) = 0
        BY <3>1 DEF OneIf, AtAnomaly, Stored, Sent
      <3> QED
        BY <2>4, <2>5, <3>1, <3>2
    <2>10. ASSUME ScanNormal(r) \/ ScanAnomaly(r) PROVE Goal
      <3>1. /\ response' = [response EXCEPT ![r].queued_windows = response[r].queued_windows + 1]
            /\ pc[r] = "scan" /\ pos[r] <= Len(batch[r]) /\ batch' = batch
            /\ \/ pc'[r] = "scan" /\ pos'[r] = pos[r] + 1
               \/ pc'[r] = "insert" /\ pos'[r] = pos[r]
        BY <2>1, <2>10 DEF ScanNormal, ScanAnomaly, Scanning, CountWindow
      <3>2. /\ response'[r].anomalies_detected = response[r].anomalies_detected
            /\ response'[r].queued_windows = response[r].queued_windows + 1
        BY <2>1, <3>1
      <3>3. OneIf(pc[r], AtAnomaly) = 0 /\ OneIf(pc[r], Sent) = 0 /\ OneIf(pc'[r], Sent) = 0
        BY <3>1 DEF OneIf, AtAnomaly, Sent
      <3>4. \/ OneIf(pc'[r], AtAnomaly) = 0 /\ pos'[r] = pos[r] + 1
            \/ OneIf(pc'[r], AtAnomaly) = 1 /\ pos'[r] = pos[r]
        BY <3>1 DEF OneIf, AtAnomaly
      <3>5. /\ response'[r].anomalies_detected + OneIf(pc'[r], AtAnomaly)
                   <= response'[r].queued_windows
            /\ response'[r].queued_windows <= pos'[r] - 1 + OneIf(pc'[r], AtAnomaly)
        BY <2>4, <2>5, <3>2, <3>3, <3>4
      <3>6. pos'[r] <= Len(batch'[r]) + 1
        BY <2>4, <3>1, <3>4
      <3> QED
        BY <2>4, <3>1, <3>2, <3>3, <3>5, <3>6
    <2>11. ~ScanError(r) /\ ~Fail(r)
      BY <2>1 DEF ScanError, Fail
    <2>12. Goal
      BY <2>6, <2>7, <2>8, <2>9, <2>10, <2>11 DEF Resume
    <2> QED
      BY <2>3, <2>12, TallyCounts
  <1> QED
    BY <1>2, <1>3 DEF TallyInv

\* The row is the first of its reading: one more row of the request.
LEMMA TallyCommit ==
    ASSUME TypeOK, LogInv, TallyInv, NEW r \in Requests, CommitAnomaly(r)
    PROVE  TallyInv'
  <1>1. /\ anomaly_events' = anomaly_events \cup {Row(Event(r))}
        /\ pc[r] = "insert" /\ pc' = [pc EXCEPT ![r] = "inserted"] /\ pc \in [Requests -> PCs]
        /\ UNCHANGED <<pos, batch, response, published>>
    BY DEF CommitAnomaly, TypeOK
  <1>2. Row(Event(r)).req = r /\ Row(Event(r)) \notin anomaly_events
    BY LogCommit, EventFields
  <1>3. \A q : AlertsOf(q)' = AlertsOf(q)
    BY <1>1 DEF AlertsOf, Alerts
  <1>4. ASSUME NEW q \in Requests, q # r PROVE pc'[q] \in {"failed", "lost"} \/ Tally(q)'
    <2>1. RowsOf(q)' = RowsOf(q)
      BY <1>1, <1>2, <1>4 DEF RowsOf
    <2>2. pc'[q] = pc[q]
      BY <1>1, <1>4
    <2> QED
      BY <1>1, <1>3, <2>1, <2>2, TallyOther DEF TallyInv
  <1>5. Tally(r)'
    <2>1. Tally(r) /\ pc'[r] = "inserted"
      BY <1>1 DEF TallyInv
    <2>2. RowsOf(r)' = RowsOf(r) \cup {Row(Event(r))} /\ Row(Event(r)) \notin RowsOf(r)
      BY <1>1, <1>2 DEF RowsOf
    <2>3. /\ IsFiniteSet(RowsOf(r)') /\ Cardinality(RowsOf(r)') = Cardinality(RowsOf(r)) + 1
      BY <2>1, <2>2, FS_AddElement DEF Tally
    <2>4. response[r].anomalies_detected \in Nat
      BY CountsType
    <2>5. Cardinality(RowsOf(r)) = response[r].anomalies_detected
      BY <1>1, <2>1, <2>4 DEF Tally, OneIf, AtAnomaly, Stored, Sent
    <2>6. Cardinality(RowsOf(r)') = response'[r].anomalies_detected + OneIf(pc'[r], Stored)
      BY <1>1, <2>1, <2>3, <2>5 DEF OneIf, Stored, Sent
    <2> QED
      BY <1>1, <1>3, <2>1, <2>3, <2>6 DEF Tally, OneIf, AtAnomaly, Stored, Sent
  <1> QED
    BY <1>4, <1>5 DEF TallyInv

\* The alert is one more alert of the request.
LEMMA TallyPublish ==
    ASSUME TypeOK, TallyInv, NEW r \in Requests, RedisPublish(r)
    PROVE  TallyInv'
  <1> DEFINE n == Len(published)
  <1>1. /\ published' = Append(published, Event(r))
        /\ pc[r] = "inserted" /\ pc' = [pc EXCEPT ![r] = "published"] /\ pc \in [Requests -> PCs]
        /\ UNCHANGED <<pos, batch, response, anomaly_events>>
    BY DEF RedisPublish, TypeOK
  <1>2. /\ n \in Nat /\ Alerts = 1 .. n /\ Alerts' = 1 .. n + 1
        /\ \A k \in 1 .. n : published'[k] = published[k]
        /\ published'[n + 1].req = r
    <2>1. published \in Seq(EventRecord) /\ Event(r) \in EventRecord
      BY <1>1, EventType DEF TypeOK
    <2> QED
      BY <2>1, <1>1, AppendProperties, EventFields DEF Alerts
  <1>3. \A q : RowsOf(q)' = RowsOf(q)
    BY <1>1 DEF RowsOf
  <1>4. ASSUME NEW q \in Requests, q # r PROVE pc'[q] \in {"failed", "lost"} \/ Tally(q)'
    <2>1. AlertsOf(q)' = AlertsOf(q)
      BY <1>2, <1>4 DEF AlertsOf
    <2>2. pc'[q] = pc[q]
      BY <1>1, <1>4
    <2> QED
      BY <1>1, <1>3, <2>1, <2>2, TallyOther DEF TallyInv
  <1>5. Tally(r)'
    <2>1. Tally(r) /\ pc'[r] = "published"
      BY <1>1 DEF TallyInv
    <2>2. AlertsOf(r)' = AlertsOf(r) \cup {n + 1} /\ n + 1 \notin AlertsOf(r)
      BY <1>2 DEF AlertsOf
    <2>3. IsFiniteSet(AlertsOf(r)') /\ Cardinality(AlertsOf(r)') = Cardinality(AlertsOf(r)) + 1
      BY <2>1, <2>2, FS_AddElement DEF Tally
    <2>4. response[r].anomalies_detected \in Nat
      BY CountsType
    <2>5. Cardinality(AlertsOf(r)) = response[r].anomalies_detected
      BY <1>1, <2>1, <2>4 DEF Tally, OneIf, AtAnomaly, Stored, Sent
    <2>6. Cardinality(AlertsOf(r)') = response'[r].anomalies_detected + OneIf(pc'[r], Sent)
      BY <1>1, <2>1, <2>3, <2>5 DEF OneIf, Stored, Sent
    <2> QED
      BY <1>1, <1>3, <2>1, <2>3, <2>6 DEF Tally, OneIf, AtAnomaly, Stored, Sent
  <1> QED
    BY <1>4, <1>5 DEF TallyInv

LEMMA TallyNext == TypeOK /\ TypeOK' /\ LogInv /\ TallyInv /\ [Next]_vars => TallyInv'
  <1> SUFFICES ASSUME TypeOK, TypeOK', LogInv, TallyInv, [Next]_vars PROVE TallyInv'
    OBVIOUS
  <1>1. CASE Restart
    <2> SUFFICES ASSUME NEW r \in Requests, pc'[r] \notin {"failed", "lost"} PROVE Tally(r)'
      BY DEF TallyInv
    <2>1. pc'[r] = pc[r] /\ UNCHANGED <<batch, pos, response, anomaly_events, published>>
      BY <1>1 DEF Restart, storeVars
    <2> QED
      BY <2>1, SameSets, TallyOther DEF TallyInv
  <1>2. CASE AllOver \/ UNCHANGED vars
    <2> SUFFICES ASSUME NEW r \in Requests, pc'[r] \notin {"failed", "lost"} PROVE Tally(r)'
      BY DEF TallyInv
    <2>1. UNCHANGED <<pc, batch, pos, response, anomaly_events, published>>
      BY <1>2 DEF AllOver, vars, handlerVars, storeVars
    <2> QED
      BY <2>1, SameSets, TallyOther DEF TallyInv
  <1> QED
    BY <1>1, <1>2, TallyQuiet, TallyCommit, TallyPublish DEF Next, Answer

\* The tally of a handler that is done.
LEMMA TallyTells == TypeOK /\ TallyInv => ResponseTruthful
  <1> SUFFICES ASSUME TypeOK, TallyInv, NEW r \in Requests, pc[r] = "done"
               PROVE  /\ response[r].anomalies_detected = Cardinality(RowsOf(r))
                      /\ response[r].anomalies_detected = Cardinality(AlertsOf(r))
                      /\ response[r].anomalies_detected <= response[r].queued_windows
                      /\ response[r].queued_windows <= Len(batch[r])
    BY DEF ResponseTruthful
  <1>1. Tally(r)
    BY DEF TallyInv
  <1> QED
    BY <1>1, CountsType DEF Tally, OneIf, AtAnomaly, Stored, Sent

\* A 202 counts exactly the rows and the alerts of its request.
THEOREM ResponseTruthfulCorrect == Spec => []ResponseTruthful
  <1>1. Spec => []TallyInv
    BY TallyInit, TallyNext, TypeCorrect, LogCorrect, PTL DEF Spec
  <1> QED
    BY <1>1, TallyTells, TypeCorrect, PTL
-----------------------------------------------------------------------------
(* Counters.  The alerts of a level since the start are those counted and  *)
(* one for each handler that has published and not counted yet, or never   *)
(* will because it failed there.                                           *)

Active == {r \in Requests : pc[r] # "idle"}

CountInv ==
    /\ announcedBefore <= Len(published)
    /\ IsFiniteSet(Active)
    /\ \A r \in Requests : pc[r] = "published" => Announced(r)
    /\ \A s \in AlertSeverity :
          Cardinality(SentAs(s)) = metrics.anomalies_by_severity[s] + Cardinality(Uncounted(s))
    /\ LET by == metrics.anomalies_by_severity
       IN  metrics.total_anomalies = by["NORMAL"] + by["WARNING"] + by["CRITICAL"]

LEMMA CountInit == Init => CountInv
  <1> SUFFICES ASSUME Init PROVE CountInv
    OBVIOUS
  <1>1. Active = {} /\ \A s : SentAs(s) = {} /\ Uncounted(s) = {}
    BY DEF Init, Active, SentAs, Uncounted, AlertsSinceStart
  <1>2. IsFiniteSet({}) /\ Cardinality({}) = 0
    BY FS_EmptySet
  <1>3. /\ \A s \in AlertSeverity : metrics.anomalies_by_severity[s] = 0
        /\ metrics.total_anomalies = 0
    BY DEF Init, NewMetrics
  <1>4. announcedBefore <= Len(published) /\ \A r \in Requests : pc[r] # "published"
    BY DEF Init
  <1>5. \A s \in AlertSeverity :
            Cardinality(SentAs(s)) = metrics.anomalies_by_severity[s] + Cardinality(Uncounted(s))
    BY <1>1, <1>2, <1>3
  <1> QED
    BY <1>1, <1>2, <1>3, <1>4, <1>5 DEF CountInv, AlertSeverity

\* A handler that has not published the reading it is at has no alert of it.
LEMMA NotYetAnnounced ==
    ASSUME TypeOK, LogInv, NEW r \in Requests, pc[r] \notin HasAlert
    PROVE  ~Announced(r)
  <1> SUFFICES ASSUME NEW k \in AlertsSinceStart, published[k].req = r, published[k].idx = pos[r]
               PROVE  FALSE
    BY DEF Announced
  <1>1. k \in Alerts
    BY DEF AlertsSinceStart, Alerts, TypeOK
  <1>2. published[k].req = r /\ published[k].idx = pos[r] /\ pos[r] \in Nat
    BY DEF TypeOK
  <1> QED
    BY <1>1, <1>2 DEF LogInv, AlertPlace

LEMMA ActiveFinite ==
    ASSUME TypeOK, IsFiniteSet(Active), [Next]_vars
    PROVE  IsFiniteSet(Active')
  <1>1. \E r : Active' \subseteq Active \cup {r}
    <2>1. ASSUME NEW r \in Requests, NEW b \in Batches, Arrive(r, b)
          PROVE  Active' \subseteq Active \cup {r}
      BY <2>1 DEF Active, Arrive, TypeOK
    <2>2. ASSUME NEW r \in Requests, Resume(r) \/ Answer(r)
          PROVE  Active' \subseteq Active \cup {r}
      BY <2>2 DEF Active, TypeOK, Resume, Answer, ResumePersisted, ResumePublished, Finish,
                  ScanWarmup, ScanNormal, ScanAnomaly, ScanError, CommitBatch, CommitAnomaly,
                  RedisPublish, Fail
    <2>3. CASE Restart
      BY <2>3 DEF Active, Restart, Over
    <2>4. CASE AllOver \/ UNCHANGED vars
      BY <2>4 DEF Active, AllOver, vars, handlerVars
    <2> QED
      BY <2>1, <2>2, <2>3, <2>4 DEF Next
  <1>2. PICK r : Active' \subseteq Active \cup {r}
    BY <1>1
  <1> QED
    BY <1>2, FS_AddElement, FS_Subset

\* A step that neither publishes nor counts: who had not counted still has not.
LEMMA CountQuiet ==
    ASSUME TypeOK, LogInv, CountInv, IsFiniteSet(Active'),
           UNCHANGED <<published, announcedBefore,
                       metrics.anomalies_by_severity, metrics.total_anomalies>>,
           NEW r \in Requests,
           \A q \in Requests \ {r} : pc'[q] = pc[q] /\ score'[q] = score[q] /\ pos'[q] = pos[q],
           pc[r] \notin {"published", "failed"} => pc[r] \notin HasAlert,
           \/ pc'[r] \notin {"published", "failed"} /\ pc[r] \notin {"published", "failed"}
           \/ pc'[r] = "failed" /\ score'[r] = score[r] /\ pos'[r] = pos[r]
    PROVE  CountInv'
  <1>1. AlertsSinceStart' = AlertsSinceStart /\ \A s : SentAs(s)' = SentAs(s)
    BY DEF AlertsSinceStart, SentAs
  <1>2. \A q \in Requests \ {r} : Announced(q)' <=> Announced(q)
    BY <1>1 DEF Announced
  <1>3. \A s : Uncounted(s)' = Uncounted(s)
    <2> SUFFICES ASSUME NEW s, NEW q \in Requests PROVE q \in Uncounted(s)' <=> q \in Uncounted(s)
      BY DEF Uncounted
    <2>1. CASE q # r
      BY <1>2, <2>1 DEF Uncounted, Score
    <2>2. CASE q = r /\ pc'[r] \notin {"published", "failed"} /\ pc[r] \notin {"published", "failed"}
      BY <2>2 DEF Uncounted
    <2>3. CASE q = r /\ pc'[r] = "failed" /\ score'[r] = score[r] /\ pos'[r] = pos[r]
      <3>1. Announced(r)' <=> Announced(r)
        BY <1>1, <2>3 DEF Announced
      <3>2. CASE pc[r] \in {"published", "failed"}
        BY <2>3, <3>1, <3>2 DEF Uncounted, Score
      <3>3. CASE pc[r] \notin {"published", "failed"}
        BY <2>3, <3>1, <3>3, NotYetAnnounced DEF Uncounted
      <3> QED
        BY <3>2, <3>3
    <2> QED
      BY <2>1, <2>2, <2>3
  <1>4. \A q \in Requests : pc'[q] = "published" => Announced(q)'
    BY <1>2 DEF CountInv
  <1> QED
    BY <1>1, <1>3, <1>4 DEF CountInv

LEMMA SentFinite ==
    ASSUME TypeOK, NEW s
    PROVE  IsFiniteSet(SentAs(s))
  <1>1. announcedBefore + 1 \in Int /\ Len(published) \in Int
    BY LenProperties DEF TypeOK
  <1> QED
    BY <1>1, FS_Interval, FS_Subset DEF SentAs, AlertsSinceStart

LEMMA UncountedFinite ==
    ASSUME CountInv, NEW s
    PROVE  IsFiniteSet(Uncounted(s))
  BY FS_Subset DEF CountInv, Uncounted, Active

\* One more alert of its level, and one more handler that has not counted it.
LEMMA CountPublish ==
    ASSUME TypeOK, LogInv, CountInv, IsFiniteSet(Active'), NEW r \in Requests, RedisPublish(r)
    PROVE  CountInv'
  <1> DEFINE n == Len(published)
             s0 == Score(score[r])
  <1>1. /\ published' = Append(published, Event(r))
        /\ pc[r] = "inserted" /\ pc' = [pc EXCEPT ![r] = "published"] /\ pc \in [Requests -> PCs]
        /\ UNCHANGED <<pos, batch, score, metrics, announcedBefore>>
    BY DEF RedisPublish, TypeOK, stateVars, historyVars
  <1>2. /\ n \in Nat /\ Len(published') = n + 1 /\ announcedBefore \in Nat /\ announcedBefore <= n
        /\ \A k \in 1 .. n : published'[k] = published[k]
        /\ published'[n + 1] = Event(r)
    <2>1. published \in Seq(EventRecord) /\ Event(r) \in EventRecord
      BY <1>1, EventType DEF TypeOK
    <2>2. announcedBefore \in Nat /\ announcedBefore <= n
      BY DEF CountInv, TypeOK
    <2> QED
      BY <2>1, <2>2, <1>1, AppendProperties
  <1>3. \A q : Event(q)' = Event(q) /\ Score(score[q])' = Score(score[q])
    BY <1>1 DEF Event, Reading, Score
  <1>4. AlertsSinceStart' = AlertsSinceStart \cup {n + 1} /\ n + 1 \notin AlertsSinceStart
        /\ AlertsSinceStart \subseteq 1 .. n
    BY <1>1, <1>2 DEF AlertsSinceStart
  <1>5. Announced(r)'
    BY <1>1, <1>2, <1>4, EventFields DEF Announced
  <1>6. \A q \in Requests \ {r} : Announced(q)' <=> Announced(q)
    <2> SUFFICES ASSUME NEW q \in Requests \ {r} PROVE Announced(q)' <=> Announced(q)
      OBVIOUS
    <2>1. published'[n + 1].req # q
      BY <1>2, EventFields
    <2> QED
      BY <1>1, <1>2, <1>4, <2>1 DEF Announced
  <1>7. Event(r).severity = s0
    BY DEF Event
  <1>8. \A s : SentAs(s)' = IF s = s0 THEN SentAs(s) \cup {n + 1} ELSE SentAs(s)
    BY <1>2, <1>4, <1>7 DEF SentAs
  <1>9. \A s : Uncounted(s)' = IF s = s0 THEN Uncounted(s) \cup {r} ELSE Uncounted(s)
    BY <1>1, <1>3, <1>5, <1>6 DEF Uncounted
  <1>10. \A s : n + 1 \notin SentAs(s) /\ r \notin Uncounted(s)
    BY <1>1, <1>4 DEF SentAs, Uncounted
  <1>11. ASSUME NEW s \in AlertSeverity
         PROVE  Cardinality(SentAs(s)') = metrics'.anomalies_by_severity[s] + Cardinality(Uncounted(s)')
    <2>1. Cardinality(SentAs(s)) = metrics.anomalies_by_severity[s] + Cardinality(Uncounted(s))
      BY DEF CountInv
    <2>2. metrics' = metrics /\ metrics.anomalies_by_severity[s] \in Nat
      BY <1>1 DEF TypeOK
    <2>3. IsFiniteSet(SentAs(s)) /\ IsFiniteSet(Uncounted(s))
      BY SentFinite, UncountedFinite
    <2>4. Cardinality(SentAs(s)) \in Nat /\ Cardinality(Uncounted(s)) \in Nat
      BY <2>3, FS_CardinalityType
    <2>5. CASE s = s0
      <3>1. /\ Cardinality(SentAs(s) \cup {n + 1}) = Cardinality(SentAs(s)) + 1
            /\ Cardinality(Uncounted(s) \cup {r}) = Cardinality(Uncounted(s)) + 1
        BY <1>10, <2>3, FS_AddElement
      <3>2. /\ SentAs(s)' = SentAs(s) \cup {n + 1}
            /\ Uncounted(s)' = Uncounted(s) \cup {r}
        BY <1>8, <1>9, <2>5
      <3>3. /\ Cardinality(SentAs(s)') = Cardinality(SentAs(s)) + 1
            /\ Cardinality(Uncounted(s)') = Cardinality(Uncounted(s)) + 1
        BY <3>1, <3>2
      <3> QED
        BY <2>1, <2>2, <2>4, <3>3
    <2>6. CASE s # s0
      BY <1>8, <1>9, <2>1, <2>2, <2>6
    <2> QED
      BY <2>5, <2>6
  <1>12. \A q \in Requests : pc'[q] = "published" => Announced(q)'
    BY <1>1, <1>5, <1>6 DEF CountInv
  <1> QED
    BY <1>1, <1>2, <1>11, <1>12 DEF CountInv

\* The handler counts its alert, and is no longer one that has not.
LEMMA CountCounted ==
    ASSUME TypeOK, LogInv, CountInv, IsFiniteSet(Active'), NEW r \in Requests, ResumePublished(r)
    PROVE  CountInv'
  <1> DEFINE s0 == Score(score[r])
             by == metrics.anomalies_by_severity
  <1>1. /\ pc[r] = "published" /\ pc' = [pc EXCEPT ![r] = "scan"] /\ pc \in [Requests -> PCs]
        /\ pos' = [pos EXCEPT ![r] = pos[r] + 1] /\ pos \in [Requests -> Nat \ {0}]
        /\ UNCHANGED <<batch, score, published, announcedBefore>>
    BY DEF ResumePublished, TypeOK, storeVars, historyVars
  <1>2. /\ by \in [AlertSeverity -> Nat] /\ s0 \in AlertSeverity
        /\ metrics'.total_anomalies = metrics.total_anomalies + 1
        /\ metrics'.anomalies_by_severity = [by EXCEPT ![s0] = by[s0] + 1]
        /\ metrics.total_anomalies \in Nat
    BY ScoreType DEF ResumePublished, TypeOK
  <1>3. /\ AlertsSinceStart' = AlertsSinceStart /\ \A s : SentAs(s)' = SentAs(s)
    BY <1>1 DEF AlertsSinceStart, SentAs
  <1>4. \A q \in Requests \ {r} : pos'[q] = pos[q] /\ pc'[q] = pc[q] /\ score'[q] = score[q]
    BY <1>1
  <1>5. \A q \in Requests \ {r} : Announced(q)' <=> Announced(q)
    BY <1>1, <1>3, <1>4 DEF Announced
  <1>6. \A s : Uncounted(s)' = Uncounted(s) \ {r}
    BY <1>1, <1>4, <1>5 DEF Uncounted, Score
  <1>7. \A s : r \in Uncounted(s) <=> s = s0
    BY <1>1 DEF CountInv, Uncounted
  <1>8. ASSUME NEW s \in AlertSeverity
        PROVE  Cardinality(SentAs(s)') = metrics'.anomalies_by_severity[s] + Cardinality(Uncounted(s)')
    <2>1. Cardinality(SentAs(s)) = by[s] + Cardinality(Uncounted(s))
      BY DEF CountInv
    <2>2. IsFiniteSet(Uncounted(s)) /\ Cardinality(Uncounted(s)) \in Nat
      BY UncountedFinite, FS_CardinalityType
    <2>3. Cardinality(Uncounted(s) \ {r}) =
              IF s = s0 THEN Cardinality(Uncounted(s)) - 1 ELSE Cardinality(Uncounted(s))
      BY <1>7, <2>2, FS_RemoveElement
    <2>4. metrics'.anomalies_by_severity[s] = (IF s = s0 THEN by[s] + 1 ELSE by[s]) /\ by[s] \in Nat
      BY <1>2
    <2> QED
      BY <1>3, <1>6, <2>1, <2>2, <2>3, <2>4
  <1>9. LET by1 == metrics'.anomalies_by_severity
        IN  metrics'.total_anomalies = by1["NORMAL"] + by1["WARNING"] + by1["CRITICAL"]
    <2>1. metrics.total_anomalies = by["NORMAL"] + by["WARNING"] + by["CRITICAL"]
      BY DEF CountInv
    <2>2. /\ by["NORMAL"] \in Nat /\ by["WARNING"] \in Nat /\ by["CRITICAL"] \in Nat
          /\ s0 \in {"NORMAL", "WARNING", "CRITICAL"}
      BY <1>2 DEF AlertSeverity
    <2>3. \A s \in AlertSeverity :
              metrics'.anomalies_by_severity[s] = IF s = s0 THEN by[s] + 1 ELSE by[s]
      BY <1>2
    <2> QED
      BY <1>2, <2>1, <2>2, <2>3 DEF AlertSeverity
  <1>10. \A q \in Requests : pc'[q] = "published" => Announced(q)'
    BY <1>1, <1>5 DEF CountInv
  <1> QED
    BY <1>1, <1>8, <1>9, <1>10 DEF CountInv

\* A new process has sent nothing, counted nothing and has no handler.
LEMMA CountRestart ==
    ASSUME TypeOK, CountInv, IsFiniteSet(Active'), Restart
    PROVE  CountInv'
  <1>1. /\ published' = published /\ announcedBefore' = Len(published) /\ metrics' = NewMetrics
        /\ Len(published) \in Nat
    BY LenProperties DEF Restart, storeVars, TypeOK
  <1>2. AlertsSinceStart' = {}
    BY <1>1 DEF AlertsSinceStart
  <1>3. \A s : SentAs(s)' = {} /\ Uncounted(s)' = {}
    BY <1>2 DEF SentAs, Uncounted, Announced
  <1>4. \A r \in Requests : pc'[r] # "published"
    BY DEF Restart, Over
  <1>5. Cardinality({}) = 0
    BY FS_EmptySet
  <1>6. /\ \A s \in AlertSeverity : metrics'.anomalies_by_severity[s] = 0
        /\ metrics'.total_anomalies = 0
    BY <1>1 DEF NewMetrics
  <1>7. \A s \in AlertSeverity :
            Cardinality(SentAs(s)') = metrics'.anomalies_by_severity[s] + Cardinality(Uncounted(s)')
    BY <1>3, <1>5, <1>6
  <1> QED
    BY <1>1, <1>4, <1>6, <1>7 DEF CountInv, AlertSeverity

\* The other steps of a handler do not touch the counters of anomalies.
LEMMA CountStep ==
    ASSUME TypeOK, LogInv, CountInv, IsFiniteSet(Active'), NEW r \in Requests,
           \/ \E b \in Batches : Arrive(r, b)
           \/ Resume(r) /\ ~ResumePublished(r)
           \/ CommitBatch(r) \/ CommitAnomaly(r) \/ Fail(r)
    PROVE  CountInv'
  <1>1. /\ UNCHANGED <<published, announcedBefore>>
        /\ metrics'.anomalies_by_severity = metrics.anomalies_by_severity
        /\ metrics'.total_anomalies = metrics.total_anomalies
    BY DEF TypeOK, Arrive, Resume, CommitBatch, CommitAnomaly, Fail, ResumePersisted, Finish,
           ScanWarmup, ScanNormal, ScanAnomaly, ScanError, CountWindow, Feed,
           stateVars, storeVars, historyVars
  <1>2. \A q \in Requests \ {r} : pc'[q] = pc[q] /\ score'[q] = score[q] /\ pos'[q] = pos[q]
    BY DEF TypeOK, Arrive, Resume, CommitBatch, CommitAnomaly, Fail, ResumePersisted, Finish,
           ScanWarmup, ScanNormal, ScanAnomaly, ScanError
  <1>3. \/ /\ pc[r] \in {"idle", "persist", "persisted", "scan", "insert"}
           /\ pc'[r] \in {"rejected", "persist", "persisted", "scan", "insert", "inserted", "done"}
        \/ /\ pc[r] \in {"scan"} \cup AtAwait
           /\ pc'[r] = "failed" /\ UNCHANGED <<score, pos>>
    BY DEF TypeOK, Arrive, Resume, CommitBatch, CommitAnomaly, Fail, ResumePersisted, Finish,
           ScanWarmup, ScanNormal, ScanAnomaly, ScanError, Scanning
  <1>4. pc[r] \notin {"published", "failed"} => pc[r] \notin HasAlert
    BY <1>3 DEF HasAlert, AtAwait
  <1> QED
    BY <1>1, <1>2, <1>3, <1>4, CountQuiet

LEMMA CountNext == TypeOK /\ LogInv /\ CountInv /\ [Next]_vars => CountInv'
  <1> SUFFICES ASSUME TypeOK, LogInv, CountInv, [Next]_vars PROVE CountInv'
    OBVIOUS
  <1>1. IsFiniteSet(Active')
    BY ActiveFinite DEF CountInv
  <1>2. CASE AllOver \/ UNCHANGED vars
    <2>1. UNCHANGED <<pc, batch, pos, score, metrics, published, announcedBefore>>
      BY <1>2 DEF AllOver, vars, handlerVars, stateVars, storeVars, historyVars
    <2>2. \A s \in AlertSeverity : SentAs(s)' = SentAs(s) /\ Uncounted(s)' = Uncounted(s)
      <3>1. \A s \in AlertSeverity : SentAs(s)' = SentAs(s)
        BY <2>1 DEF SentAs, AlertsSinceStart
      <3>2. \A s \in AlertSeverity : Uncounted(s)' = Uncounted(s)
        <4>1. \A r \in Requests : Score(score[r])' = Score(score[r])
          BY <2>1 DEF Score
        <4> QED
          BY <2>1, <4>1 DEF Uncounted, Announced, AlertsSinceStart
      <3> QED
        BY <3>1, <3>2
    <2> QED
      BY <1>1, <2>1, <2>2 DEF CountInv, Active, Announced, AlertsSinceStart
  <1> QED
    BY <1>1, <1>2, CountStep, CountPublish, CountCounted, CountRestart DEF Next, Answer, Resume

LEMMA CountTells == CountInv => CountersTrailAlerts
  BY DEF CountInv, CountersTrailAlerts

\* The counters of anomalies never run ahead of the alerts, and they lag by
\* exactly one for each handler between its PUBLISH and its count.
THEOREM CountersTrailAlertsCorrect == Spec => []CountersTrailAlerts
  <1>1. Spec => []CountInv
    BY CountInit, CountNext, TypeCorrect, LogCorrect, PTL DEF Spec
  <1> QED
    BY <1>1, CountTells, PTL

-----------------------------------------------------------------------------
(* Progress.  What a handler has left to do at most: four steps for every  *)
(* reading, and those around its loop.                                     *)

Rest(place) ==
    CASE place = "persist" -> 5 [] place = "persisted" -> 4 [] place = "scan" -> 3
      [] place = "insert" -> 2 [] place = "inserted" -> 1 [] OTHER -> 0

Left(r) == IF pc[r] \in Over THEN 0 ELSE 4 * (Len(batch[r]) + 1 - pos[r]) + Rest(pc[r])

\* The loop starts at the first reading and ends after the last.
PosFits ==
    \A r \in Requests :
        /\ pc[r] \in {"idle", "persist", "persisted"} => pos[r] = 1
        /\ pc[r] \notin Over => pos[r] <= Len(batch[r]) + 1

\* The way to the end is bounded by the limit of the batch, and it is over when
\* the handler is.
LeftBounded ==
    \A r \in Requests : pc[r] # "idle" =>
        /\ Left(r) \in 0 .. 4 * max_batch_size + 5
        /\ Left(r) = 0 <=> pc[r] \in Over

\* A step of a handler, and every answer to it, shortens its way; no step of
\* anyone else makes it longer.
HandlerShrinks ==
    [][\A r \in Requests : pc[r] # "idle" =>
          /\ Left(r)' <= Left(r)
          /\ Resume(r) \/ Answer(r) => Left(r)' < Left(r)]_vars

LEMMA PosFitsInit == Init => PosFits
  BY DEF Init, PosFits

\* A request that comes has its whole way before it.
LEMMA ArriveFits ==
    ASSUME TypeOK, PosFits, NEW r \in Requests, NEW b \in Batches, Arrive(r, b)
    PROVE  /\ PosFits'
           /\ \A q \in Requests : pc[q] # "idle" => Left(q)' = Left(q)
  <1>1. /\ pc[r] = "idle" /\ pos' = pos /\ pos[r] = 1 /\ pc'[r] \in {"rejected", "persist"}
        /\ \A q \in Requests \ {r} : pc'[q] = pc[q] /\ batch'[q] = batch[q]
        /\ batch'[r] = b
    BY DEF Arrive, TypeOK, PosFits
  <1>2. Len(b) \in Nat
    BY IngestAssumption
  <1>3. \A q \in Requests : pc[q] # "idle" => Left(q)' = Left(q)
    BY <1>1 DEF Left
  <1>4. PosFits'
    BY <1>1, <1>2 DEF PosFits, Over
  <1> QED
    BY <1>3, <1>4

\* A crash ends every way.
LEMMA RestartFits ==
    ASSUME TypeOK, PosFits, Restart
    PROVE  /\ PosFits'
           /\ \A q \in Requests : pc[q] # "idle" => Left(q)' = 0
  <1>1. /\ pos' = pos /\ batch' = batch
        /\ \A q \in Requests :
              pc'[q] = IF pc[q] \in Over \cup {"idle"} THEN pc[q] ELSE "lost"
    BY DEF Restart
  <1>2. PosFits'
    BY <1>1 DEF PosFits, Over
  <1>3. \A q \in Requests : pc[q] # "idle" => Left(q)' = 0
    BY <1>1 DEF Left, Over
  <1> QED
    BY <1>2, <1>3

\* What is left is a natural number.
LEMMA LeftType ==
    ASSUME TypeOK, PosFits, NEW r \in Requests
    PROVE  /\ Left(r) \in Nat
           /\ pc[r] \notin Over \cup {"idle"} => Left(r) > 0
           /\ Len(batch[r]) <= max_batch_size /\ pc[r] # "idle"
                  => Left(r) <= 4 * max_batch_size + 5
  <1> DEFINE L == Len(batch[r])
  <1>1. /\ pc[r] \in PCs /\ pos[r] \in Nat \ {0} /\ L \in Nat /\ max_batch_size \in Nat
    BY CountsType, IngestAssumption DEF TypeOK
  <1>2. CASE pc[r] \in Over
    BY <1>1, <1>2 DEF Left
  <1>3. CASE pc[r] \notin Over
    <2>1. PICK n \in Nat : n = L + 1 - pos[r] /\ n <= L /\ (pos[r] <= L => n > 0)
      BY <1>1, <1>3 DEF PosFits
    <2>2. Left(r) = 4 * n + Rest(pc[r])
      <3>1. Left(r) = 4 * (L + 1 - pos[r]) + Rest(pc[r])
        BY <1>3 DEF Left
      <3> HIDE DEF L
      <3> QED
        BY <1>1, <2>1, <3>1
    <2>3. /\ Rest(pc[r]) \in 0 .. 5
          /\ pc[r] \notin Over \cup {"idle", "published"} => Rest(pc[r]) > 0
      BY <1>1 DEF Rest, PCs, AtAwait
    <2>4. pc[r] = "published" => n > 0
      <3>1. pc[r] = "published" => pos[r] <= L
        BY <1>1 DEF TypeOK
      <3> QED
        BY <1>1, <2>1, <3>1
    <2>5. /\ Left(r) \in Nat /\ Left(r) <= 4 * n + 5
          /\ pc[r] \notin Over \cup {"idle"} => Left(r) > 0
      <3>1. pc[r] \notin Over \cup {"idle"} => n > 0 \/ Rest(pc[r]) > 0
        BY <2>3, <2>4
      <3> QED
        BY <2>1, <2>2, <2>3, <3>1
    <2>6. L <= max_batch_size => 4 * n + 5 <= 4 * max_batch_size + 5
      <3> HIDE DEF L
      <3>1. L <= max_batch_size => n <= max_batch_size
        BY <1>1, <2>1
      <3> QED
        BY <1>1, <3>1
    <2>7. L <= max_batch_size => Left(r) <= 4 * max_batch_size + 5
      BY <1>1, <2>1, <2>5, <2>6
    <2> QED
      BY <2>5, <2>7
  <1> QED
    BY <1>2, <1>3

\* A step of the handler r, of the event loop or a server.
LEMMA OwnStep ==
    ASSUME TypeOK, TypeOK', PosFits, NEW r \in Requests, Resume(r) \/ Answer(r)
    PROVE  /\ Left(r)' < Left(r) /\ Left(r) \in Nat /\ Left(r)' \in Nat /\ PosFits'
           /\ \A q \in Requests \ {r} : Left(q)' = Left(q)
  <1> DEFINE L == Len(batch[r])
  <1>1. /\ pc \in [Requests -> PCs] /\ pos \in [Requests -> Nat \ {0}] /\ L \in Nat
        /\ pos[r] \in Nat \ {0}
    BY CountsType DEF TypeOK
  <1>2. /\ batch' = batch
        /\ \A q \in Requests \ {r} : pc'[q] = pc[q] /\ pos'[q] = pos[q]
        /\ \/ pc[r] \in AtAwait \cup {"scan"} /\ pc'[r] = "failed" /\ pos'[r] = pos[r]
           \/ pc[r] = "persist" /\ pc'[r] = "persisted" /\ pos'[r] = pos[r]
           \/ pc[r] = "persisted" /\ pc'[r] = "scan" /\ pos'[r] = pos[r]
           \/ pc[r] = "scan" /\ pc'[r] = "scan" /\ pos'[r] = pos[r] + 1 /\ pos[r] <= L
           \/ pc[r] = "scan" /\ pc'[r] = "insert" /\ pos'[r] = pos[r] /\ pos[r] <= L
           \/ pc[r] = "scan" /\ pc'[r] = "done" /\ pos'[r] = pos[r]
           \/ pc[r] = "insert" /\ pc'[r] = "inserted" /\ pos'[r] = pos[r] /\ pos[r] <= L
           \/ pc[r] = "inserted" /\ pc'[r] = "published" /\ pos'[r] = pos[r] /\ pos[r] <= L
           \/ pc[r] = "published" /\ pc'[r] = "scan" /\ pos'[r] = pos[r] + 1 /\ pos[r] <= L
    <2>1. CASE Answer(r)
      BY <1>1, <2>1 DEF Answer, CommitBatch, CommitAnomaly, RedisPublish, Fail, TypeOK
    <2>2. CASE ResumePersisted(r) \/ ResumePublished(r) \/ Finish(r) \/ ScanError(r)
      BY <1>1, <2>2 DEF ResumePersisted, ResumePublished, Finish, ScanError, Scanning, TypeOK
    <2>3. CASE ScanWarmup(r) \/ ScanNormal(r) \/ ScanAnomaly(r)
      BY <1>1, <2>3 DEF ScanWarmup, ScanNormal, ScanAnomaly, Scanning
    <2> QED
      BY <2>1, <2>2, <2>3 DEF Resume
  <1>3. /\ pc[r] \in AtAwait \cup {"scan"} => Left(r) = 4 * (L + 1 - pos[r]) + Rest(pc[r])
        /\ pc'[r] \in AtAwait \cup {"scan"} => Left(r)' = 4 * (L + 1 - pos'[r]) + Rest(pc'[r])
        /\ pc'[r] \in Over => Left(r)' = 0
    BY <1>2 DEF Left, Over, AtAwait
  <1>4. /\ Rest("persist") = 5 /\ Rest("persisted") = 4 /\ Rest("scan") = 3
        /\ Rest("insert") = 2 /\ Rest("inserted") = 1 /\ Rest("published") = 0
    BY DEF Rest
  <1>5. pos[r] <= L + 1 /\ (pc[r] \in {"persist", "persisted"} => pos[r] = 1)
    BY <1>2 DEF PosFits, AtAwait, Over
  <1>6. pc[r] = "published" => pos[r] <= L
    BY <1>2 DEF TypeOK
  <1>7. Left(r)' < Left(r) /\ Left(r) \in Nat /\ Left(r)' \in Nat
    <2>1. PICK n \in Nat : n = L + 1 - pos[r] /\ (pos[r] <= L => n > 0)
      BY <1>1, <1>5
    <2>2. pc[r] \in AtAwait \cup {"scan"} /\ Left(r) = 4 * n + Rest(pc[r])
      BY <1>2, <1>3, <2>1 DEF AtAwait
    <2>3. Rest(pc[r]) \in Nat /\ (pc[r] = "published" => n > 0)
          /\ (pc[r] # "published" => Rest(pc[r]) > 0)
      BY <1>4, <1>6, <2>1, <2>2 DEF AtAwait
    <2>4. Left(r) \in Nat /\ Left(r) > 0
      BY <2>1, <2>2, <2>3
    <2>5. CASE pc'[r] \in Over
      BY <1>3, <2>4, <2>5
    <2>6. CASE pc'[r] \notin Over /\ pos'[r] = pos[r]
      <3>1. Left(r)' = 4 * n + Rest(pc'[r])
        BY <1>2, <1>3, <2>1, <2>6 DEF AtAwait, Over
      <3>2. Rest(pc'[r]) \in Nat /\ Rest(pc'[r]) < Rest(pc[r])
        BY <1>1, <1>2, <1>4, <2>6 DEF AtAwait, Over
      <3> QED
        BY <2>2, <2>3, <2>4, <3>1, <3>2
    <2>7. CASE pc'[r] \notin Over /\ pos'[r] # pos[r]
      <3>1. /\ pos'[r] = pos[r] + 1 /\ pos[r] <= L /\ pc'[r] = "scan"
            /\ pc[r] \in {"scan", "published"}
        BY <1>2, <2>7 DEF AtAwait, Over
      <3>2. Left(r)' = 4 * (n - 1) + 3 /\ n > 0
        <4>1. Left(r)' = 4 * (L + 1 - pos'[r]) + 3
          BY <1>3, <1>4, <3>1
        <4>2. L + 1 - pos'[r] = n - 1
          BY <1>1, <2>1, <3>1
        <4> QED
          BY <2>1, <3>1, <4>1, <4>2
      <3>3. Rest(pc[r]) \in Nat
        BY <2>3
      <3> QED
        BY <2>2, <2>4, <3>2, <3>3
    <2> QED
      BY <2>5, <2>6, <2>7
  <1>8. PosFits'
    BY <1>1, <1>2, <1>5 DEF PosFits, AtAwait, Over
  <1>9. \A q \in Requests \ {r} : Left(q)' = Left(q)
    BY <1>2 DEF Left
  <1> QED
    BY <1>7, <1>8, <1>9

\* What a step leaves to each handler.
LEMMA StepShrinks ==
    ASSUME TypeOK, TypeOK', PosFits, [Next]_vars
    PROVE  /\ PosFits'
           /\ \A r \in Requests : pc[r] # "idle" =>
                 /\ Left(r)' <= Left(r)
                 /\ Resume(r) \/ Answer(r) => Left(r)' < Left(r)
  <1> DEFINE Shrinks(r) == pc[r] # "idle" =>
                              /\ Left(r)' <= Left(r)
                              /\ Resume(r) \/ Answer(r) => Left(r)' < Left(r)
  <1>1. \A r \in Requests : Left(r) \in Nat
    BY LeftType
  <1>2. ASSUME NEW q \in Requests, Resume(q) \/ Answer(q) PROVE PosFits' /\ \A r \in Requests : Shrinks(r)
    <2>1. \A r \in Requests : Resume(r) \/ Answer(r) => Left(r)' < Left(r) /\ Left(r)' \in Nat
      BY OwnStep
    <2>2. PosFits' /\ \A r \in Requests \ {q} : Left(r)' = Left(r)
      BY <1>2, OwnStep
    <2>3. ASSUME NEW r \in Requests PROVE Left(r)' <= Left(r)
      <3>1. CASE r = q
        BY <1>1, <1>2, <2>1, <3>1
      <3>2. CASE r # q
        BY <1>1, <2>2, <3>2
      <3> QED
        BY <3>1, <3>2
    <2> QED
      BY <2>1, <2>2, <2>3
  <1>3. ASSUME \A q \in Requests : ~(Resume(q) \/ Answer(q)), PosFits',
               \A r \in Requests : pc[r] # "idle" => Left(r)' \in {Left(r), 0}
        PROVE  PosFits' /\ \A r \in Requests : Shrinks(r)
    BY <1>1, <1>3
  <1>4. ASSUME NEW q \in Requests, NEW b \in Batches, Arrive(q, b)
        PROVE  PosFits' /\ \A r \in Requests : pc[r] # "idle" => Left(r)' \in {Left(r), 0}
    BY <1>4, ArriveFits
  <1>5. ASSUME Restart
        PROVE  PosFits' /\ \A r \in Requests : pc[r] # "idle" => Left(r)' \in {Left(r), 0}
    <2>1. PosFits' /\ \A r \in Requests : pc[r] # "idle" => Left(r)' = 0
      BY <1>5, RestartFits
    <2> QED
      BY <2>1
  <1>6. ASSUME AllOver \/ UNCHANGED vars
        PROVE  PosFits' /\ \A r \in Requests : pc[r] # "idle" => Left(r)' \in {Left(r), 0}
    <2>1. UNCHANGED <<pc, batch, pos>>
      BY <1>6 DEF AllOver, vars, handlerVars
    <2> QED
      BY <2>1 DEF PosFits, Left
  <1>7. /\ \/ \E q \in Requests : Resume(q) \/ Answer(q)
           \/ \A q \in Requests : ~(Resume(q) \/ Answer(q))
        /\ \/ \E q \in Requests : Resume(q) \/ Answer(q)
           \/ \E q \in Requests, b \in Batches : Arrive(q, b)
           \/ Restart
           \/ AllOver \/ UNCHANGED vars
    BY DEF Next
  <1> QED
    BY <1>2, <1>3, <1>4, <1>5, <1>6, <1>7

\* The safety part of "every request ends": a handler that has started has a
\* bounded number of steps before it, each step of its own brings it closer,
\* whatever the other handlers, the servers and crashes do in between, and
\* it has none left exactly when it is over.  (That the steps are taken is
\* the fairness of RequestsTerminate.)
THEOREM HandlersEnd == Spec => []LeftBounded /\ HandlerShrinks
  <1>1. Spec => []PosFits
    <2>1. TypeOK /\ TypeOK' /\ PosFits /\ [Next]_vars => PosFits'
      BY StepShrinks
    <2> QED
      BY <2>1, PosFitsInit, TypeCorrect, PTL DEF Spec
  <1>2. TypeOK /\ PosFits /\ BatchFits => LeftBounded
    <2> SUFFICES ASSUME TypeOK, PosFits, BatchFits, NEW r \in Requests, pc[r] # "idle"
                 PROVE  /\ Left(r) \in 0 .. 4 * max_batch_size + 5
                        /\ Left(r) = 0 <=> pc[r] \in Over
      BY DEF LeftBounded
    <2>1. Left(r) \in Nat /\ max_batch_size \in Nat
      BY LeftType, IngestAssumption
    <2>2. CASE pc[r] \in Over
      <3>1. Left(r) = 0
        BY <2>2 DEF Left
      <3> QED
        BY <2>1, <2>2, <3>1
    <2>3. CASE pc[r] \notin Over
      <3>1. Len(batch[r]) <= max_batch_size
        BY <2>3 DEF BatchFits, Over
      <3>2. Left(r) > 0 /\ Left(r) <= 4 * max_batch_size + 5
        BY <2>3, <3>1, LeftType
      <3> QED
        BY <2>1, <2>3, <3>2
    <2> QED
      BY <2>2, <2>3
  <1>3. TypeOK /\ TypeOK' /\ PosFits /\ [Next]_vars
           => [\A r \in Requests : pc[r] # "idle" =>
                  /\ Left(r)' <= Left(r)
                  /\ Resume(r) \/ Answer(r) => Left(r)' < Left(r)]_vars
    BY StepShrinks
  <1> QED
    BY <1>1, <1>2, <1>3, TypeCorrect, BatchFitsCorrect, PTL DEF Spec, HandlerShrinks
=============================================================================
