------------------------ MODULE IngestWindowProofs ------------------------
(***************************************************************************)
(* Theorems about the window buffers of IngestService, about the rows of   *)
(* the anomalies found in their windows, and about the counters that add   *)
(* up over engines and requests; and all guarantees of the ingest path     *)
(* from one inductive invariant.                                           *)
(***************************************************************************)
EXTENDS IngestProofs

-----------------------------------------------------------------------------
(* Buffers.  A reading is in the history of its engine only if its batch   *)
(* is in the database and its handler is at it or past it.                 *)

\* Where a handler may be once it has fed the reading it is at.
HasFed == {"insert"} \cup HasRow

BufferIsEnd == \A e \in Engines : window_buffers[e] = LastOf(pushed[e], window_size)

Placed(x) == x.idx < pos[x.req] \/ (x.idx = pos[x.req] /\ pc[x.req] \in HasFed)

EntryGood(e, x) ==
    /\ x.req \in sensor_readings
    /\ batch[x.req][x.idx] = [engine_id |-> e, value |-> x.value]
    /\ Placed(x)

HistoryGood ==
    \A e \in Engines : \A k \in 1 .. Len(pushed[e]) :
        /\ EntryGood(e, pushed[e][k])
        /\ \A j \in 1 .. k - 1 : pushed[e][j].req = pushed[e][k].req =>
                                    pushed[e][j].idx < pushed[e][k].idx

\* The batch is committed before its handler does anything with it.
CommittedFirst ==
    /\ \A r \in Requests : pc[r] \in {"scan"} \cup (AtAwait \ {"persist"}) => r \in sensor_readings
    /\ \A r \in sensor_readings : pc[r] # "idle"

BufferInv == BufferIsEnd /\ HistoryGood /\ CommittedFirst

\* What a step that feeds nothing does to the histories and the handlers.
UnfedStep ==
    /\ \/ UNCHANGED <<window_buffers, pushed>>
       \/ window_buffers' = [e \in Engines |-> <<>>] /\ pushed' = [e \in Engines |-> <<>>]
    /\ sensor_readings \subseteq sensor_readings'
    /\ \A q \in sensor_readings : batch'[q] = batch[q]
    /\ \A q \in sensor_readings : \/ pos'[q] = pos[q] + 1
                                  \/ /\ pos'[q] = pos[q]
                                     /\ pc[q] \in HasFed => pc'[q] \in HasFed
    /\ CommittedFirst'
    /\ \A q \in Requests : pc'[q] = "insert" => pc[q] = "insert" /\ Event(q)' = Event(q)
    /\ \/ anomaly_events' = anomaly_events
       \/ \E q \in Requests : /\ pc[q] = "insert"
                             /\ anomaly_events' = anomaly_events \cup {Row(Event(q))}

LEMMA Unfed ==
    ASSUME TypeOK, CommittedFirst, [Next]_vars
    PROVE  \/ UnfedStep
           \/ \E r \in Requests : ScanWarmup(r) \/ ScanNormal(r) \/ ScanAnomaly(r)
<1> USE DEF UnfedStep, CommittedFirst, AtAwait, HasFed, HasRow, Event, Reading
<1>1. ASSUME NEW r \in Requests, NEW b \in Batches, Arrive(r, b) PROVE UnfedStep
  BY <1>1 DEF TypeOK, Arrive, stateVars, storeVars, historyVars
<1>2. ASSUME NEW r \in Requests, ResumePersisted(r) PROVE UnfedStep
  BY <1>2 DEF TypeOK, ResumePersisted, storeVars, historyVars
<1>3. ASSUME NEW r \in Requests, ResumePublished(r) PROVE UnfedStep
  BY <1>3 DEF TypeOK, ResumePublished, storeVars, historyVars
<1>4. ASSUME NEW r \in Requests, Finish(r) PROVE UnfedStep
  BY <1>4 DEF TypeOK, Finish, stateVars, storeVars, historyVars
<1>5. ASSUME NEW r \in Requests, ScanError(r) PROVE UnfedStep
  BY <1>5 DEF TypeOK, ScanError, Scanning, stateVars, storeVars, historyVars
<1>6. ASSUME NEW r \in Requests, CommitBatch(r) PROVE UnfedStep
  BY <1>6 DEF TypeOK, CommitBatch, stateVars, historyVars
<1>7. ASSUME NEW r \in Requests, CommitAnomaly(r) PROVE UnfedStep
  BY <1>7 DEF TypeOK, CommitAnomaly, stateVars, historyVars
<1>8. ASSUME NEW r \in Requests, RedisPublish(r) PROVE UnfedStep
  BY <1>8 DEF TypeOK, RedisPublish, stateVars, historyVars
<1>9. ASSUME NEW r \in Requests, Fail(r) PROVE UnfedStep
  BY <1>9 DEF TypeOK, Fail, AtAwait, stateVars, storeVars, historyVars
<1>10. CASE Restart
  BY <1>10 DEF TypeOK, Restart, Over, storeVars
<1>11. CASE AllOver \/ UNCHANGED vars
  BY <1>11 DEF TypeOK, AllOver, vars, handlerVars, stateVars, storeVars, historyVars
<1> QED
  BY <1>1, <1>2, <1>3, <1>4, <1>5, <1>6, <1>7, <1>8, <1>9, <1>10, <1>11
  DEF Next, Resume, Answer

\* What a step that feeds the reading of r does to them.
FedStep(r) ==
    /\ Feed(r)
    /\ pc[r] = "scan" /\ pos[r] <= Len(batch[r]) /\ r \in sensor_readings
    /\ UNCHANGED <<batch, sensor_readings, anomaly_events>>
    /\ \A q \in Requests \ {r} : pos'[q] = pos[q] /\ pc'[q] = pc[q] /\ score'[q] = score[q]
    /\ \/ pos'[r] = pos[r] + 1 /\ pc'[r] = "scan"
       \/ /\ pos'[r] = pos[r] /\ pc'[r] = "insert"
          /\ is_ready(Buffer(r)) /\ score'[r] = WindowError(Buffer(r))

LEMMA Fed ==
    ASSUME TypeOK, CommittedFirst, NEW r \in Requests,
           ScanWarmup(r) \/ ScanNormal(r) \/ ScanAnomaly(r)
    PROVE  FedStep(r)
<1> USE DEF FedStep, CommittedFirst, TypeOK, Scanning, storeVars
<1>1. CASE ScanWarmup(r)
  BY <1>1 DEF ScanWarmup
<1>2. CASE ScanNormal(r)
  BY <1>2 DEF ScanNormal
<1>3. CASE ScanAnomaly(r)
  BY <1>3 DEF ScanAnomaly
<1> QED
  BY <1>1, <1>2, <1>3

\* The history of the fed engine grows by one entry, and its deque follows.
LEMMA FedHistory ==
    ASSUME TypeOK, BufferIsEnd, NEW r \in Requests, FedStep(r)
    PROVE  LET f == Reading(r).engine_id
               n == Len(pushed[f])
           IN  /\ f \in Engines /\ n \in Nat
               /\ pushed'[f] = Append(pushed[f], Entry(r))
               /\ Len(pushed'[f]) = n + 1
               /\ \A k \in 1 .. n : pushed'[f][k] = pushed[f][k]
               /\ pushed'[f][n + 1] = Entry(r)
               /\ window_buffers'[f] = LastOf(pushed'[f], window_size)
               /\ window_buffers'[f] = Buffer(r)
               /\ \A e \in Engines \ {f} : /\ pushed'[e] = pushed[e]
                                           /\ window_buffers'[e] = window_buffers[e]
<1> DEFINE f == Reading(r).engine_id
           h == pushed[f]
<1>1. f \in Engines /\ Entry(r) \in Entries /\ h \in Seq(Entries)
  BY ReadingType DEF FedStep, SensorReading, TypeOK
<1>2. pushed'[f] = Append(h, Entry(r)) /\ window_buffers'[f] = Buffer(r)
  BY <1>1 DEF FedStep, Feed, TypeOK
<1>3. \A e \in Engines \ {f} : pushed'[e] = pushed[e] /\ window_buffers'[e] = window_buffers[e]
  BY DEF FedStep, Feed, TypeOK
<1>4. Buffer(r) = push(LastOf(h, window_size), Entry(r))
  BY <1>1 DEF BufferIsEnd, Buffer
<1>5. Buffer(r) = LastOf(Append(h, Entry(r)), window_size)
  BY <1>1, <1>4, PushKeepsNewest
<1>6. /\ Len(h) \in Nat /\ Len(Append(h, Entry(r))) = Len(h) + 1
      /\ \A k \in 1 .. Len(h) : Append(h, Entry(r))[k] = h[k]
      /\ Append(h, Entry(r))[Len(h) + 1] = Entry(r)
  BY <1>1, AppendProperties
<1> QED
  BY <1>1, <1>2, <1>3, <1>5, <1>6

LEMMA BufferInit == Init => BufferInv
  BY WindowSizeAssumption
  DEF Init, BufferInv, BufferIsEnd, HistoryGood, CommittedFirst, LastOf, AtAwait

LEMMA PlacedUnfed ==
    ASSUME TypeOK, TypeOK', UnfedStep, NEW x, x.req \in sensor_readings, x.idx \in Nat, Placed(x)
    PROVE  Placed(x)'
<1>1. x.req \in Requests /\ pos[x.req] \in Nat /\ pos'[x.req] \in Nat
  BY DEF TypeOK
<1> QED
  BY <1>1 DEF UnfedStep, Placed

LEMMA BufferUnfed ==
    ASSUME TypeOK, TypeOK', BufferInv, UnfedStep
    PROVE  BufferInv'
<1>1. CASE window_buffers' = [e \in Engines |-> <<>>] /\ pushed' = [e \in Engines |-> <<>>]
  BY <1>1, WindowSizeAssumption
  DEF BufferInv, BufferIsEnd, HistoryGood, LastOf, UnfedStep
<1>2. CASE UNCHANGED <<window_buffers, pushed>>
  <2>1. BufferIsEnd'
    BY <1>2 DEF BufferInv, BufferIsEnd
  <2>2. HistoryGood'
    <3> SUFFICES ASSUME NEW e \in Engines, NEW k \in 1 .. Len(pushed[e])
                 PROVE  EntryGood(e, pushed[e][k])'
      BY <1>2 DEF BufferInv, HistoryGood
    <3>1. pushed[e][k] \in Entries /\ EntryGood(e, pushed[e][k])
      BY ElementOfSeq DEF TypeOK, BufferInv, HistoryGood
    <3>2. Placed(pushed[e][k])'
      BY <1>2, <3>1, PlacedUnfed DEF EntryGood, Entries
    <3> QED
      BY <1>2, <3>1, <3>2 DEF EntryGood, UnfedStep
  <2> QED
    BY <2>1, <2>2 DEF BufferInv, UnfedStep
<1> QED
  BY <1>1, <1>2 DEF UnfedStep

\* EntryGood(e, x) after the step.
GoodAfter(e, x) ==
    /\ x.req \in sensor_readings'
    /\ batch'[x.req][x.idx] = [engine_id |-> e, value |-> x.value]
    /\ \/ x.idx < pos'[x.req]
       \/ x.idx = pos'[x.req] /\ pc'[x.req] \in HasFed

\* While a handler scans, what it has fed lies before its position.
LEMMA FedBefore ==
    ASSUME TypeOK, HistoryGood, NEW r \in Requests, FedStep(r),
           NEW e \in Engines, NEW k \in 1 .. Len(pushed[e])
    PROVE  /\ GoodAfter(e, pushed[e][k])
           /\ pushed[e][k].req = r => pushed[e][k].idx < pos[r]
<1> DEFINE x == pushed[e][k]
<1>1. x \in Entries /\ EntryGood(e, x)
  BY ElementOfSeq DEF TypeOK, HistoryGood
<1>2. x.req \in Requests /\ x.idx \in Nat /\ pos[x.req] \in Nat
  BY <1>1 DEF Entries, TypeOK
<1>3. x.req = r => x.idx < pos[r]
  BY <1>1 DEF EntryGood, Placed, FedStep, HasFed, HasRow
<1>4. CASE x.req = r
  BY <1>1, <1>2, <1>3, <1>4 DEF EntryGood, FedStep, GoodAfter
<1>5. CASE x.req # r
  BY <1>1, <1>2, <1>5 DEF EntryGood, Placed, FedStep, GoodAfter
<1> QED
  BY <1>4, <1>5, <1>3

LEMMA BufferFed ==
    ASSUME TypeOK, BufferInv, NEW r \in Requests, FedStep(r)
    PROVE  BufferInv'
<1> DEFINE f == Reading(r).engine_id
           n == Len(pushed[f])
<1>1. /\ f \in Engines /\ n \in Nat /\ Len(pushed'[f]) = n + 1
      /\ \A k \in 1 .. n : pushed'[f][k] = pushed[f][k]
      /\ pushed'[f][n + 1] = Entry(r)
      /\ window_buffers'[f] = LastOf(pushed'[f], window_size)
      /\ \A e \in Engines \ {f} : /\ pushed'[e] = pushed[e]
                                  /\ window_buffers'[e] = window_buffers[e]
  BY FedHistory DEF BufferInv
<1>2. BufferIsEnd'
  BY <1>1 DEF BufferInv, BufferIsEnd
<1>3. HistoryGood'
  <2> SUFFICES ASSUME NEW e \in Engines, NEW k \in 1 .. Len(pushed'[e])
               PROVE  /\ GoodAfter(e, pushed'[e][k])
                      /\ \A j \in 1 .. k - 1 : pushed'[e][j].req = pushed'[e][k].req =>
                                                   pushed'[e][j].idx < pushed'[e][k].idx
    BY DEF HistoryGood, EntryGood, Placed, GoodAfter
  <2>1. CASE e # f
    <3>1. pushed'[e] = pushed[e]
      BY <2>1, <1>1
    <3>2. k \in 1 .. Len(pushed[e])
      BY <3>1
    <3>3. GoodAfter(e, pushed[e][k])
      BY <3>2, FedBefore DEF BufferInv
    <3>4. \A j \in 1 .. k - 1 : pushed[e][j].req = pushed[e][k].req =>
                                    pushed[e][j].idx < pushed[e][k].idx
      BY <3>2 DEF BufferInv, HistoryGood
    <3> QED
      BY <3>1, <3>3, <3>4
  <2>2. CASE e = f /\ k \in 1 .. n
    <3>1. pushed'[e][k] = pushed[e][k] /\ \A j \in 1 .. k - 1 : pushed'[e][j] = pushed[e][j]
      BY <2>2, <1>1
    <3> QED
      BY <3>1, <2>2, FedBefore DEF BufferInv, HistoryGood
  <2>3. CASE e = f /\ k = n + 1
    <3>1. pushed'[e][k] = Entry(r) /\ \A j \in 1 .. n : pushed'[e][j] = pushed[e][j]
      BY <2>3, <1>1
    <3>2. Entry(r).req = r /\ Entry(r).idx = pos[r] /\ Entry(r).value = Reading(r).value
      BY DEF Entry
    <3>3. batch'[r][pos[r]] = [engine_id |-> f, value |-> Reading(r).value]
      <4>1. Reading(r) \in SensorReading
        BY ReadingType DEF FedStep
      <4>2. batch'[r][pos[r]] = Reading(r)
        BY DEF FedStep, Reading
      <4> QED
        BY <4>1, <4>2 DEF SensorReading
    <3>4. pos[r] \in Nat
      BY DEF TypeOK
    <3>5. \/ pos[r] < pos'[r]
          \/ pos[r] = pos'[r] /\ pc'[r] \in HasFed
      BY <3>4 DEF FedStep, HasFed
    <3>6. \A j \in 1 .. n : pushed[f][j].req = r => pushed[f][j].idx < pos[r]
      BY <1>1, FedBefore DEF BufferInv
    <3>7. r \in sensor_readings'
      BY DEF FedStep
    <3>8. GoodAfter(f, Entry(r))
      BY <3>2, <3>3, <3>5, <3>7 DEF GoodAfter
    <3>9. k - 1 = n
      BY <2>3, <1>1
    <3> QED
      BY <2>3, <3>1, <3>2, <3>6, <3>8, <3>9
  <2>4. e = f => k \in 1 .. n \/ k = n + 1
    <3> HIDE DEF n, f
    <3> QED
      BY <1>1
  <2> QED
    BY <2>1, <2>2, <2>3, <2>4
<1>4. CommittedFirst'
  BY DEF BufferInv, CommittedFirst, FedStep, TypeOK, AtAwait
<1> QED
  BY <1>2, <1>3, <1>4 DEF BufferInv

LEMMA BufferNext == TypeOK /\ TypeOK' /\ BufferInv /\ [Next]_vars => BufferInv'
<1> SUFFICES ASSUME TypeOK, TypeOK', BufferInv, [Next]_vars PROVE BufferInv'
  OBVIOUS
<1>1. CommittedFirst
  BY DEF BufferInv
<1>2. CASE UnfedStep
  BY <1>2, BufferUnfed
<1>3. CASE \E r \in Requests : ScanWarmup(r) \/ ScanNormal(r) \/ ScanAnomaly(r)
  BY <1>1, <1>3, Fed, BufferFed
<1> QED
  BY <1>1, <1>2, <1>3, Unfed

LEMMA BufferInvCorrect == Spec => []BufferInv
  BY BufferInit, BufferNext, TypeCorrect, PTL DEF Spec

\* The deque of every engine is the newest part of its history, and the
\* history holds each reading of a committed batch once, in batch order.
THEOREM BufferCorrect == Spec => []BufferIsRecentHistory
<1>1. BufferInv => BufferIsRecentHistory
  BY DEF BufferInv, BufferIsEnd, HistoryGood, EntryGood, BufferIsRecentHistory
<1> QED
  BY <1>1, BufferInvCorrect, PTL

-----------------------------------------------------------------------------
(* Verdicts.                                                               *)

\* Another reading in the history does not change the window of an old one.
LEMMA ScoredAppend ==
    ASSUME NEW h \in Seq(Entries), NEW y \in Entries, NEW x,
           ScoredIn(h, x), ~SameReading(y, x)
    PROVE  ScoredIn(Append(h, y), x)
<1> DEFINE g == Append(h, y)
<1>1. /\ Len(h) \in Nat /\ Len(g) = Len(h) + 1
      /\ \A k \in 1 .. Len(h) : g[k] = h[k]
      /\ g[Len(h) + 1] = y
  BY AppendProperties
<1> HIDE DEF g
<1> SUFFICES ASSUME NEW k \in 1 .. Len(g), SameReading(g[k], x)
             PROVE  /\ k >= window_size
                    /\ x.reconstruction_error =
                          ReconError([j \in 1 .. window_size |-> g[k - window_size + j].value])
  BY DEF ScoredIn, g
<1>2. k \in 1 .. Len(h)
  BY <1>1
<1>3. /\ k >= window_size
      /\ x.reconstruction_error =
            ReconError([j \in 1 .. window_size |-> h[k - window_size + j].value])
  BY <1>1, <1>2 DEF ScoredIn
<1>4. \A j \in 1 .. window_size : g[k - window_size + j] = h[k - window_size + j]
  <2> SUFFICES ASSUME NEW j \in 1 .. window_size
               PROVE  k - window_size + j \in 1 .. Len(h)
    BY <1>1
  <2> QED
    BY <1>1, <1>2, <1>3, WindowSizeAssumption
<1>5. [j \in 1 .. window_size |-> g[k - window_size + j].value]
        = [j \in 1 .. window_size |-> h[k - window_size + j].value]
  BY <1>4
<1> QED
  BY <1>3, <1>5

\* The error of the full deque is that of the window of the newest reading.
LEMMA ScoredNewest ==
    ASSUME NEW h \in Seq(Entries), NEW y \in Entries, NEW x,
           \A k \in 1 .. Len(h) : ~SameReading(h[k], x),
           NEW buf, buf = LastOf(Append(h, y), window_size), is_ready(buf),
           x.reconstruction_error = WindowError(buf)
    PROVE  ScoredIn(Append(h, y), x)
<1> DEFINE g == Append(h, y)
           W == window_size
<1>0. W \in Nat \ {0}
  BY WindowSizeAssumption
<1>1. /\ g \in Seq(Entries) /\ Len(h) \in Nat /\ Len(g) = Len(h) + 1
      /\ \A k \in 1 .. Len(h) : g[k] = h[k]
  BY AppendProperties
<1> HIDE DEF g
<1>2. W <= Len(g)
  BY <1>0, <1>1, LastOfLength DEF is_ready, g
<1>3. Len(buf) = W /\ \A j \in 1 .. W : buf[j] = g[Len(g) - W + j]
  <2>1. buf = LastOf(g, W) /\ g \in Seq(Entries) /\ W \in Nat /\ W <= Len(g)
    BY <1>0, <1>1, <1>2 DEF g
  <2> HIDE DEF W
  <2> QED
    BY <2>1, LastOfElements
<1>4. [j \in 1 .. Len(buf) |-> buf[j].value] = [j \in 1 .. W |-> g[Len(g) - W + j].value]
  BY <1>3
<1>5. x.reconstruction_error = ReconError([j \in 1 .. W |-> g[Len(g) - W + j].value])
  BY <1>4 DEF WindowError
<1> SUFFICES ASSUME NEW k \in 1 .. Len(g), SameReading(g[k], x)
             PROVE  /\ k >= W
                    /\ x.reconstruction_error =
                          ReconError([j \in 1 .. W |-> g[k - W + j].value])
  BY DEF ScoredIn, g
<1>6. k = Len(g)
  BY <1>1
<1> QED
  BY <1>2, <1>5, <1>6

\* The event a handler is about to insert is scored on its own window.
InsertScored ==
    \A r \in Requests : pc[r] = "insert" =>
        ScoredIn(pushed[Reading(r).engine_id], Event(r))

ScoreInv == InsertScored /\ ScoredOnOwnWindow

LEMMA EventEngine ==
    ASSUME NEW r
    PROVE  /\ Event(r).engine_id = Reading(r).engine_id
           /\ Row(Event(r)).engine_id = Reading(r).engine_id
           /\ Event(r).reconstruction_error = score[r]
           /\ Row(Event(r)).reconstruction_error = score[r]
  BY DEF Event, Row

LEMMA ScoreUnfed ==
    ASSUME TypeOK, TypeOK', ScoreInv, UnfedStep
    PROVE  ScoreInv'
<1>1. CASE window_buffers' = [e \in Engines |-> <<>>] /\ pushed' = [e \in Engines |-> <<>>]
  <2>1. \A e \in Engines : \A x : ScoredIn(pushed'[e], x)
    BY <1>1 DEF ScoredIn
  <2>2. \A r \in Requests : pc'[r] = "insert" => Reading(r)'.engine_id \in Engines
    <3> SUFFICES ASSUME NEW r \in Requests, pc'[r] = "insert"
                 PROVE  Reading(r)'.engine_id \in Engines
      OBVIOUS
    <3>1. pos'[r] \in 1 .. Len(batch'[r]) /\ batch'[r] \in Seq(SensorReading)
      <4>1. /\ batch'[r] \in Seq(SensorReading) /\ pos'[r] \in Nat \ {0}
            /\ pos'[r] <= Len(batch'[r])
        BY DEF TypeOK
      <4>2. Len(batch'[r]) \in Nat
        BY <4>1
      <4> QED
        BY <4>1, <4>2
    <3>2. batch'[r][pos'[r]] \in SensorReading
      BY <3>1, ElementOfSeq
    <3> QED
      BY <3>2 DEF Reading, SensorReading
  <2>3. \A row \in anomaly_events' : row.engine_id \in Engines
    BY DEF TypeOK, EventRecord
  <2> QED
    BY <2>1, <2>2, <2>3 DEF ScoreInv, InsertScored, ScoredOnOwnWindow
<1>2. CASE UNCHANGED <<window_buffers, pushed>>
  <2>1. InsertScored'
    <3> SUFFICES ASSUME NEW r \in Requests, pc'[r] = "insert"
                 PROVE  ScoredIn(pushed[Reading(r).engine_id]', Event(r)')
      BY DEF InsertScored
    <3>1. pc[r] = "insert" /\ Event(r)' = Event(r)
      BY DEF UnfedStep
    <3>2. Reading(r).engine_id' = Reading(r).engine_id
      <4>1. Event(r)'.engine_id = Reading(r).engine_id'
        BY DEF Event
      <4> QED
        BY <4>1, <3>1, EventEngine
    <3> QED
      BY <1>2, <3>1, <3>2 DEF ScoreInv, InsertScored
  <2>2. ScoredOnOwnWindow'
    <3> SUFFICES ASSUME NEW row \in anomaly_events'
                 PROVE  ScoredIn(pushed[row.engine_id], row)
      BY <1>2 DEF ScoredOnOwnWindow
    <3>1. CASE row \in anomaly_events
      BY <3>1 DEF ScoreInv, ScoredOnOwnWindow
    <3>2. CASE \E q \in Requests : pc[q] = "insert" /\ row = Row(Event(q))
      <4>1. PICK q \in Requests : pc[q] = "insert" /\ row = Row(Event(q))
        BY <3>2
      <4>2. ScoredIn(pushed[Reading(q).engine_id], Event(q))
        BY <4>1 DEF ScoreInv, InsertScored
      <4>3. /\ row.engine_id = Reading(q).engine_id
            /\ row.req = Event(q).req /\ row.idx = Event(q).idx
            /\ row.reconstruction_error = Event(q).reconstruction_error
        BY <4>1, EventFields, EventEngine
      <4> QED
        BY <4>2, <4>3 DEF ScoredIn, SameReading
    <3> QED
      BY <3>1, <3>2 DEF UnfedStep
  <2> QED
    BY <2>1, <2>2 DEF ScoreInv
<1> QED
  BY <1>1, <1>2 DEF UnfedStep

LEMMA ScoreFed ==
    ASSUME TypeOK, TypeOK', BufferInv, LogInv, ScoreInv, NEW r \in Requests, FedStep(r)
    PROVE  ScoreInv'
<1> DEFINE f == Reading(r).engine_id
           h == pushed[f]
           y == Entry(r)
<1>1. /\ f \in Engines /\ h \in Seq(Entries) /\ y \in Entries
      /\ y.req = r /\ y.idx = pos[r]
  BY ReadingType DEF FedStep, SensorReading, TypeOK, Entry
<1>2. /\ pushed'[f] = Append(h, y)
      /\ Buffer(r) = LastOf(Append(h, y), window_size)
      /\ \A e \in Engines \ {f} : pushed'[e] = pushed[e]
  BY FedHistory DEF BufferInv
<1>3. ASSUME NEW x, x.engine_id \in Engines, ~SameReading(y, x),
             ScoredIn(pushed[x.engine_id], x)
      PROVE  ScoredIn(pushed'[x.engine_id], x)
  <2> HIDE DEF y, h
  <2>1. CASE x.engine_id = f
    BY <1>1, <1>2, <1>3, <2>1, ScoredAppend DEF h
  <2>2. CASE x.engine_id # f
    BY <1>2, <1>3, <2>2
  <2> QED
    BY <2>1, <2>2
<1>4. ScoredOnOwnWindow'
  <2> SUFFICES ASSUME NEW row \in anomaly_events
               PROVE  ScoredIn(pushed'[row.engine_id], row)
    BY DEF ScoredOnOwnWindow, FedStep
  <2>1. row.engine_id \in Engines /\ row.req \in Requests /\ row.idx \in Nat
    BY DEF TypeOK, EventRecord
  <2>2. ~SameReading(y, row)
    <3>1. row.req = r => row.idx < pos[r]
      BY DEF LogInv, RowPlace, FedStep, HasRow
    <3>2. pos[r] \in Nat
      BY DEF TypeOK
    <3> QED
      BY <3>1, <3>2, <2>1, <1>1 DEF SameReading
  <2> QED
    BY <2>1, <2>2, <1>3 DEF ScoreInv, ScoredOnOwnWindow
<1>5. InsertScored'
  <2> SUFFICES ASSUME NEW q \in Requests, pc'[q] = "insert"
               PROVE  ScoredIn(pushed[Reading(q).engine_id]', Event(q)')
    BY DEF InsertScored
  <2>1. Reading(q)' = Reading(q)
    BY DEF Reading, FedStep
  <2>2. CASE q # r
    <3>1. pc[q] = "insert" /\ Event(q)' = Event(q)
      BY <2>1, <2>2 DEF FedStep, Event
    <3>2. Event(q).engine_id \in Engines
      BY <3>1, EventType DEF TypeOK, EventRecord
    <3>3. ~SameReading(y, Event(q))
      BY <2>2, <1>1, EventFields DEF SameReading
    <3>4. ScoredIn(pushed[Event(q).engine_id], Event(q))
      BY <3>1, EventEngine DEF ScoreInv, InsertScored
    <3>5. ScoredIn(pushed'[Event(q).engine_id], Event(q))
      BY <3>2, <3>3, <3>4, <1>3
    <3> QED
      BY <2>1, <3>1, <3>5, EventEngine
  <2>3. CASE q = r
    <3> DEFINE x == Event(r)'
    <3>1. /\ is_ready(Buffer(r)) /\ score'[r] = WindowError(Buffer(r)) /\ pos'[r] = pos[r]
      BY <2>3 DEF FedStep
    <3>2. /\ x.req = r /\ x.idx = pos[r] /\ x.reconstruction_error = WindowError(Buffer(r))
      BY <3>1 DEF Event
    <3>3. \A k \in 1 .. Len(h) : ~SameReading(h[k], x)
      <4> SUFFICES ASSUME NEW k \in 1 .. Len(h) PROVE ~SameReading(h[k], x)
        OBVIOUS
      <4>1. h[k].req = r => h[k].idx < pos[r]
        BY <1>1, FedBefore DEF BufferInv
      <4>2. h[k] \in Entries /\ pos[r] \in Nat
        BY <1>1, ElementOfSeq DEF TypeOK
      <4> QED
        BY <3>2, <4>1, <4>2 DEF SameReading, Entries
    <3> HIDE DEF x, y, h
    <3>4. ScoredIn(Append(h, y), x)
      BY <1>1, <1>2, <3>1, <3>2, <3>3, ScoredNewest
    <3> QED
      BY <2>1, <2>3, <1>2, <3>4 DEF x
  <2> QED
    BY <2>2, <2>3
<1> QED
  BY <1>4, <1>5 DEF ScoreInv

LEMMA ScoreNext ==
    TypeOK /\ TypeOK' /\ LogInv /\ BufferInv /\ ScoreInv /\ [Next]_vars => ScoreInv'
<1> SUFFICES ASSUME TypeOK, TypeOK', LogInv, BufferInv, ScoreInv, [Next]_vars
             PROVE  ScoreInv'
  OBVIOUS
<1>1. CommittedFirst
  BY DEF BufferInv
<1>2. CASE UnfedStep
  BY <1>2, ScoreUnfed
<1>3. CASE \E r \in Requests : ScanWarmup(r) \/ ScanNormal(r) \/ ScanAnomaly(r)
  BY <1>1, <1>3, Fed, ScoreFed
<1> QED
  BY <1>1, <1>2, <1>3, Unfed

\* A row holds the error of the window that ends at its own reading, whatever
\* was fed to the engine while the INSERT was under way.
THEOREM ScoredOnOwnWindowCorrect == Spec => []ScoredOnOwnWindow
<1>1. Init => ScoreInv
  BY DEF Init, ScoreInv, InsertScored, ScoredOnOwnWindow
<1>2. ScoreInv => ScoredOnOwnWindow
  BY DEF ScoreInv
<1> QED
  BY <1>1, <1>2, ScoreNext, TypeCorrect, LogCorrect, BufferInvCorrect, PTL DEF Spec

-----------------------------------------------------------------------------
(* Thresholds.                                                             *)

\* An event on its way to the table is not NORMAL.
NotNormal == \A r \in Requests : pc[r] = "insert" => Score(score[r]) # "NORMAL"
ThresholdInv == NotNormal /\ StoredThresholdsExplain

LEMMA RowExplains ==
    ASSUME TypeOK, NEW r \in Requests, Score(score[r]) # "NORMAL"
    PROVE  LET row == Row(Event(r))
           IN  /\ row.severity # "NORMAL"
               /\ row.severity = "CRITICAL" =>
                     AtLeast(row.reconstruction_error, row.threshold_critical)
               /\ row.severity = "WARNING" =>
                     AtLeast(row.reconstruction_error, row.threshold_warning)
<1> DEFINE row == Row(Event(r))
<1>1. /\ row.severity = Score(score[r])
      /\ row.reconstruction_error = score[r]
      /\ row.threshold_warning = Real32[threshold_warning]
      /\ row.threshold_critical = Real32[threshold_critical]
  BY DEF Row, Event
<1>2. score[r] \in Errors /\ threshold_warning \in Doubles /\ threshold_critical \in Doubles
  BY ThresholdAssumption DEF TypeOK
<1>3. /\ Score(score[r]) = "CRITICAL" => AtLeast(score[r], threshold_critical)
      /\ Score(score[r]) = "WARNING" => AtLeast(score[r], threshold_warning)
  BY DEF Score, classify_severity
<1> QED
  BY <1>1, <1>2, <1>3, RoundedThreshold

LEMMA ThresholdNext == TypeOK /\ CommittedFirst /\ ThresholdInv /\ [Next]_vars => ThresholdInv'
<1> SUFFICES ASSUME TypeOK, CommittedFirst, ThresholdInv, [Next]_vars PROVE ThresholdInv'
  OBVIOUS
<1>1. CASE UnfedStep
  <2>1. NotNormal'
    <3> SUFFICES ASSUME NEW r \in Requests, pc'[r] = "insert" PROVE Score(score'[r]) # "NORMAL"
      BY DEF NotNormal, Score
    <3>1. pc[r] = "insert" /\ score'[r] = score[r]
      BY <1>1, EventEngine DEF UnfedStep, Event
    <3> QED
      BY <3>1 DEF ThresholdInv, NotNormal
  <2>2. StoredThresholdsExplain'
    BY <1>1, RowExplains
    DEF UnfedStep, ThresholdInv, NotNormal, StoredThresholdsExplain, AtLeast
  <2> QED
    BY <2>1, <2>2 DEF ThresholdInv
<1>2. ASSUME NEW r \in Requests, ScanWarmup(r) \/ ScanNormal(r) PROVE ThresholdInv'
  BY <1>2 DEF ScanWarmup, ScanNormal, Scanning, storeVars, ThresholdInv, NotNormal,
              StoredThresholdsExplain
<1>3. ASSUME NEW r \in Requests, ScanAnomaly(r) PROVE ThresholdInv'
  BY <1>3 DEF ScanAnomaly, Scanning, storeVars, ThresholdInv, NotNormal,
              StoredThresholdsExplain, TypeOK
<1> QED
  BY <1>1, <1>2, <1>3, Unfed

\* The stored columns of a row, rounded as they are, explain its severity.
THEOREM StoredThresholdsCorrect == Spec => []StoredThresholdsExplain
<1>1. Init => ThresholdInv
  BY DEF Init, ThresholdInv, NotNormal, StoredThresholdsExplain
<1>2. BufferInv => CommittedFirst
  BY DEF BufferInv
<1>3. ThresholdInv => StoredThresholdsExplain
  BY DEF ThresholdInv
<1> QED
  BY <1>1, <1>2, <1>3, ThresholdNext, TypeCorrect, BufferInvCorrect, PTL DEF Spec

-----------------------------------------------------------------------------
(* Windows.  The sum of the windows that the histories have made follows   *)
(* the counter: one more reading makes one more window, or none in warmup. *)

Windows == [e \in Engines |-> WindowsOf(pushed[e])]

WindowInv == IsFiniteSet(FedEngines) /\ metrics.total_windows = SumFunctionOnSet(Windows, FedEngines)

LEMMA WindowsType ==
    ASSUME TypeOK
    PROVE  /\ \A e \in Engines : Windows[e] = WindowsOf(pushed[e]) /\ Windows[e] \in Nat
           /\ FedEngines \subseteq Engines
  BY LenProperties, WindowSizeAssumption DEF TypeOK, Windows, WindowsOf, FedEngines

\* A history of one more reading has one more window once the deque is full.
LEMMA WindowsAppend ==
    ASSUME NEW h \in Seq(Entries), NEW g \in Seq(Entries), Len(g) = Len(h) + 1
    PROVE  /\ is_ready(LastOf(g, window_size)) => WindowsOf(g) - WindowsOf(h) = 1
           /\ ~is_ready(LastOf(g, window_size)) => WindowsOf(g) - WindowsOf(h) = 0
  <1>1. Len(h) \in Nat /\ Len(g) \in Nat /\ window_size \in Nat \ {0}
    BY LenProperties, WindowSizeAssumption
  <1>2. is_ready(LastOf(g, window_size)) => window_size <= Len(g)
    BY <1>1, LastOfLength DEF is_ready
  <1>3. window_size <= Len(g) => is_ready(LastOf(g, window_size))
    BY <1>1, LastOfElements DEF is_ready
  <1> QED
    BY <1>1, <1>2, <1>3 DEF WindowsOf

LEMMA WindowFed ==
    ASSUME TypeOK, TypeOK', BufferInv, WindowInv, NEW r \in Requests,
           ScanWarmup(r) \/ ScanNormal(r) \/ ScanAnomaly(r)
    PROVE  WindowInv'
  <1> DEFINE f == Reading(r).engine_id
             n == Len(pushed[f])
  <1>1. /\ f \in Engines /\ n \in Nat /\ Len(pushed'[f]) = n + 1
        /\ window_buffers'[f] = LastOf(pushed'[f], window_size)
        /\ window_buffers'[f] = Buffer(r)
        /\ \A e \in Engines \ {f} : pushed'[e] = pushed[e]
    BY Fed, FedHistory DEF BufferInv
  <1>2. pushed[f] \in Seq(Entries) /\ pushed'[f] \in Seq(Entries)
    BY <1>1 DEF TypeOK
  <1>3. /\ is_ready(Buffer(r)) => metrics'.total_windows = metrics.total_windows + 1
        /\ ~is_ready(Buffer(r)) => metrics'.total_windows = metrics.total_windows
    BY DEF ScanWarmup, ScanNormal, ScanAnomaly, CountWindow, TypeOK
  <1>4. /\ is_ready(Buffer(r)) => WindowsOf(pushed'[f]) - WindowsOf(pushed[f]) = 1
        /\ ~is_ready(Buffer(r)) => WindowsOf(pushed'[f]) - WindowsOf(pushed[f]) = 0
    <2>1. Buffer(r) = LastOf(pushed'[f], window_size)
      BY <1>1
    <2>2. /\ is_ready(LastOf(pushed'[f], window_size)) =>
                 WindowsOf(pushed'[f]) - WindowsOf(pushed[f]) = 1
          /\ ~is_ready(LastOf(pushed'[f], window_size)) =>
                 WindowsOf(pushed'[f]) - WindowsOf(pushed[f]) = 0
      BY <1>1, <1>2, WindowsAppend
    <2> QED
      BY <2>1, <2>2, Zenon
  <1>5. FedEngines' = FedEngines \cup {f} /\ FedEngines \ {f} = FedEngines' \ {f}
    <2>1. pushed'[f] # <<>>
      BY <1>1
    <2> QED
      BY <1>1, <2>1 DEF FedEngines
  <1>6. /\ Term(Windows, FedEngines, f) = WindowsOf(pushed[f])
        /\ Term(Windows', FedEngines', f) = WindowsOf(pushed'[f])
    <2>1. Windows[f] = WindowsOf(pushed[f]) /\ Windows'[f] = WindowsOf(pushed'[f])
      BY <1>1 DEF Windows
    <2>2. f \notin FedEngines => WindowsOf(pushed[f]) = 0
      <3>1. f \notin FedEngines => n = 0
        BY <1>1 DEF FedEngines
      <3> QED
        BY <3>1, WindowSizeAssumption DEF WindowsOf
    <2> QED
      BY <1>5, <2>1, <2>2 DEF Term
  <1>7. Summable(Windows, FedEngines) /\ Summable(Windows', FedEngines')
    <2>1. Summable(Windows, FedEngines)
      BY WindowsType DEF Summable, WindowInv
    <2>2. IsFiniteSet(FedEngines')
      BY <1>5, FS_AddElement DEF WindowInv
    <2>3. \A e \in FedEngines' : Windows'[e] \in Nat
      <3>1. \A e \in Engines : Len(pushed'[e]) \in Nat
        BY LenProperties DEF TypeOK
      <3> QED
        BY <3>1, WindowSizeAssumption DEF FedEngines, Windows, WindowsOf
    <2> QED
      BY <2>1, <2>2, <2>3 DEF Summable
  <1>8. DifferAt(Windows, FedEngines, Windows', FedEngines', f)
    BY <1>1, <1>5 DEF DifferAt, Agree, Windows, FedEngines
  <1>9. /\ SumFunctionOnSet(Windows, FedEngines) \in Nat
        /\ SumFunctionOnSet(Windows', FedEngines') \in Nat
        /\ WindowsOf(pushed[f]) \in Nat /\ WindowsOf(pushed'[f]) \in Nat
        /\ SumFunctionOnSet(Windows', FedEngines') - WindowsOf(pushed'[f]) =
               SumFunctionOnSet(Windows, FedEngines) - WindowsOf(pushed[f])
    <2> HIDE DEF f
    <2> QED
      BY <1>6, <1>7, <1>8, SumChange DEF SumMoves
  <1>10. metrics'.total_windows = SumFunctionOnSet(Windows', FedEngines')
    BY <1>3, <1>4, <1>9 DEF WindowInv
  <1> QED
    BY <1>7, <1>10 DEF WindowInv, Summable

\* Nothing else counts a window, and a new process starts with nothing.
LEMMA WindowNext == TypeOK /\ TypeOK' /\ BufferInv /\ WindowInv /\ [Next]_vars => WindowInv'
  <1> SUFFICES ASSUME TypeOK, TypeOK', BufferInv, WindowInv, [Next]_vars PROVE WindowInv'
    OBVIOUS
  <1>1. ASSUME UNCHANGED pushed, metrics'.total_windows = metrics.total_windows PROVE WindowInv'
    <2>1. Windows' = Windows /\ FedEngines' = FedEngines
      BY <1>1 DEF Windows, FedEngines
    <2> QED
      BY <1>1, <2>1 DEF WindowInv
  <1>2. ASSUME NEW r \in Requests, \E b \in Batches : Arrive(r, b) PROVE WindowInv'
    BY <1>1, <1>2 DEF Arrive, stateVars, historyVars
  <1>3. ASSUME NEW r \in Requests, Resume(r) PROVE WindowInv'
    <2>1. CASE ResumePersisted(r) \/ ResumePublished(r) \/ Finish(r) \/ ScanError(r)
      BY <1>1, <2>1 DEF ResumePersisted, ResumePublished, Finish, ScanError, stateVars,
                        historyVars, TypeOK
    <2> QED
      BY <1>3, <2>1, WindowFed DEF Resume
  <1>4. ASSUME NEW r \in Requests, Answer(r) PROVE WindowInv'
    BY <1>1, <1>4 DEF Answer, CommitBatch, CommitAnomaly, RedisPublish, Fail, stateVars, historyVars
  <1>5. CASE Restart
    <2>1. FedEngines' = {} /\ metrics'.total_windows = 0
      BY <1>5 DEF Restart, FedEngines, NewMetrics
    <2>2. IsFiniteSet({}) /\ SumFunctionOnSet(Windows', {}) = 0
      BY FS_EmptySet, SumEmpty
    <2> QED
      BY <2>1, <2>2 DEF WindowInv
  <1>6. CASE AllOver \/ UNCHANGED vars
    BY <1>1, <1>6 DEF AllOver, vars, stateVars, historyVars
  <1> QED
    BY <1>2, <1>3, <1>4, <1>5, <1>6 DEF Next

LEMMA WindowInit == Init => WindowInv
  <1> SUFFICES ASSUME Init PROVE WindowInv
    OBVIOUS
  <1>1. FedEngines = {} /\ metrics.total_windows = 0
    BY DEF Init, FedEngines, NewMetrics
  <1>2. IsFiniteSet({}) /\ SumFunctionOnSet(Windows, {}) = 0
    BY FS_EmptySet, SumEmpty
  <1> QED
    BY <1>1, <1>2 DEF WindowInv

\* Every reading after the warmup of its engine has had its inference, and
\* the counter of GET /metrics has counted it.
THEOREM WindowsAccountedCorrect == Spec => []WindowsAccounted
  <1>1. WindowInv => WindowsAccounted
    BY DEF WindowInv, WindowsAccounted, Windows
  <1> QED
    BY <1>1, WindowInit, WindowNext, TypeCorrect, BufferInvCorrect, PTL DEF Spec

-----------------------------------------------------------------------------
(* Books.  A request counts from the return of its COPY until it fails; as *)
(* long as none has failed, the counters are the sums over those requests, *)
(* and rows and alerts run ahead by what handlers have not counted yet.    *)

Counted == {r \in Requests : pc[r] \in {"scan", "insert", "inserted", "published", "done"}}

Readings == [r \in Requests |-> Len(batch[r])]
Queued   == [r \in Requests |-> response[r].queued_windows]
Detected == [r \in Requests |-> response[r].anomalies_detected]

AtStored == {r \in Requests : pc[r] \in Stored}
AtSent   == {r \in Requests : pc[r] \in Sent}

Untroubled == restarts = 0 /\ \A r \in Requests : pc[r] \notin {"failed", "lost"}

\* A handler has counted nothing before its COPY returns.
Fresh(r) == pc[r] \in {"idle", "persist", "persisted"} =>
                response[r].queued_windows = 0 /\ response[r].anomalies_detected = 0

Books ==
    /\ metrics.total_readings = SumFunctionOnSet(Readings, Counted)
    /\ metrics.total_windows = SumFunctionOnSet(Queued, Counted)
    /\ metrics.total_anomalies = SumFunctionOnSet(Detected, Counted)
    /\ sensor_readings = Counted \cup {r \in Requests : pc[r] = "persisted"}
    /\ IsFiniteSet(anomaly_events)
    /\ Cardinality(anomaly_events) = metrics.total_anomalies + Cardinality(AtStored)
    /\ Len(published) = metrics.total_anomalies + Cardinality(AtSent)

\* A request that fails is one whose readings are still in the counter.
ReadingsCounted == restarts = 0 => SumFunctionOnSet(Readings, Counted) <= metrics.total_readings

BookInv ==
    /\ IsFiniteSet(Active)
    /\ \A r \in Requests : Fresh(r)
    /\ ReadingsCounted
    /\ Untroubled => Books

\* A step of the handler r, as far as the sums are concerned.
OthersStay(r) == \A q \in Requests \ {r} :
                    pc'[q] = pc[q] /\ batch'[q] = batch[q] /\ response'[q] = response[q]

LEMMA HandlerAlone ==
    ASSUME TypeOK, NEW r \in Requests, (\E b \in Batches : Arrive(r, b)) \/ Resume(r) \/ Answer(r)
    PROVE  OthersStay(r)
  BY DEF OthersStay, TypeOK, Arrive, Resume, Answer, CommitBatch, CommitAnomaly, RedisPublish, Fail,
         ResumePersisted, ResumePublished, Finish, ScanWarmup, ScanNormal, ScanAnomaly, ScanError,
         CountWindow

\* The three sums are sums of natural numbers over finitely many requests.
LEMMA BooksSummable ==
    ASSUME TypeOK, IsFiniteSet(Active)
    PROVE  Summable(Readings, Counted) /\ Summable(Queued, Counted) /\ Summable(Detected, Counted)
  <1>1. IsFiniteSet(Counted)
    BY FS_Subset DEF Counted, Active
  <1>2. \A r \in Requests : /\ Readings[r] \in Nat /\ Queued[r] \in Nat /\ Detected[r] \in Nat
    BY CountsType DEF Readings, Queued, Detected
  <1> QED
    BY <1>1, <1>2 DEF Summable, Counted

LEMMA BooksSummableNext ==
    ASSUME TypeOK', IsFiniteSet(Active')
    PROVE  Summable(Readings', Counted') /\ Summable(Queued', Counted') /\ Summable(Detected', Counted')
  <1>1. IsFiniteSet(Counted')
    BY FS_Subset DEF Counted, Active
  <1>2. \A q \in Requests : /\ Readings'[q] \in Nat /\ Queued'[q] \in Nat /\ Detected'[q] \in Nat
    BY LenProperties DEF Readings, Queued, Detected, TypeOK
  <1> QED
    BY <1>1, <1>2 DEF Summable, Counted

\* ... and a step of the handler r changes them by the term of r.
LEMMA BooksChange ==
    ASSUME TypeOK, TypeOK', IsFiniteSet(Active), IsFiniteSet(Active'), NEW r \in Requests,
           OthersStay(r)
    PROVE  /\ SumMoves(Readings, Counted, Readings', Counted', r)
           /\ SumMoves(Queued, Counted, Queued', Counted', r)
           /\ SumMoves(Detected, Counted, Detected', Counted', r)
  <1>1. Counted \ {r} = Counted' \ {r}
    BY DEF OthersStay, Counted
  <1>2. DifferAt(Readings, Counted, Readings', Counted', r)
    BY <1>1 DEF OthersStay, DifferAt, Agree, Readings, Counted
  <1>3. DifferAt(Queued, Counted, Queued', Counted', r)
    BY <1>1 DEF OthersStay, DifferAt, Agree, Queued, Counted
  <1>4. DifferAt(Detected, Counted, Detected', Counted', r)
    BY <1>1 DEF OthersStay, DifferAt, Agree, Detected, Counted
  <1>5. Summable(Readings, Counted) /\ Summable(Queued, Counted) /\ Summable(Detected, Counted)
    BY BooksSummable
  <1>6. Summable(Readings', Counted') /\ Summable(Queued', Counted') /\ Summable(Detected', Counted')
    BY BooksSummableNext
  <1> QED
    BY <1>2, <1>3, <1>4, <1>5, <1>6, SumChange

Persisted == {"persisted", "scan", "insert", "inserted", "published", "done"}

\* What a step of the handler r has to get right for the books.
BookStep(r) ==
    /\ OthersStay(r) /\ restarts' = restarts /\ Fresh(r)'
    /\ pc[r] \notin {"failed", "lost"}
    /\ metrics'.total_readings - metrics.total_readings
           >= Term(Readings', Counted', r) - Term(Readings, Counted, r)
    /\ pc'[r] # "failed" =>
          /\ metrics'.total_readings - metrics.total_readings
                 = Term(Readings', Counted', r) - Term(Readings, Counted, r)
          /\ metrics'.total_windows - metrics.total_windows
                 = Term(Queued', Counted', r) - Term(Queued, Counted, r)
          /\ metrics'.total_anomalies - metrics.total_anomalies
                 = Term(Detected', Counted', r) - Term(Detected, Counted, r)
          /\ \/ sensor_readings' = sensor_readings /\ (pc[r] \in Persisted <=> pc'[r] \in Persisted)
             \/ sensor_readings' = sensor_readings \cup {r} /\ pc'[r] \in Persisted
          /\ IsFiniteSet(anomaly_events) =>
                /\ IsFiniteSet(anomaly_events')
                /\ Cardinality(anomaly_events') - Cardinality(anomaly_events)
                       = metrics'.total_anomalies - metrics.total_anomalies
                             + OneIf(pc'[r], Stored) - OneIf(pc[r], Stored)
          /\ Len(published') - Len(published)
                 = metrics'.total_anomalies - metrics.total_anomalies
                       + OneIf(pc'[r], Sent) - OneIf(pc[r], Sent)

\* The handlers at a place, when one of them moves.
LEMMA AtChange ==
    ASSUME TypeOK, IsFiniteSet(Active), NEW r \in Requests, OthersStay(r),
           NEW P, P \subseteq PCs \ {"idle"},
           NEW S, S = {q \in Requests : pc[q] \in P},
           NEW T, T = {q \in Requests : pc'[q] \in P}
    PROVE  /\ Cardinality(T) - OneIf(pc'[r], P) = Cardinality(S) - OneIf(pc[r], P)
           /\ Cardinality(S) \in Nat /\ Cardinality(T) \in Nat
  <1>1. IsFiniteSet(S)
    BY FS_Subset DEF Active
  <1>2. T \subseteq S \cup {r}
    BY DEF OthersStay
  <1>3. IsFiniteSet(T)
    BY <1>1, <1>2, FS_AddElement, FS_Subset
  <1>4. Cardinality(S) \in Nat /\ Cardinality(T) \in Nat
    BY <1>1, <1>3, FS_CardinalityType
  <1>5. CASE pc[r] \in P /\ pc'[r] \in P
    <2>1. S = T
      BY <1>5 DEF OthersStay
    <2>2. Cardinality(S) = Cardinality(T)
      BY <2>1, Zenon
    <2> QED
      BY <1>4, <1>5, <2>2 DEF OneIf
  <1>6. CASE pc[r] \notin P /\ pc'[r] \notin P
    <2>1. S = T
      BY <1>6 DEF OthersStay
    <2>2. Cardinality(S) = Cardinality(T)
      BY <2>1, Zenon
    <2> QED
      BY <1>4, <1>6, <2>2 DEF OneIf
  <1>7. CASE pc[r] \in P /\ pc'[r] \notin P
    <2>1. r \in S /\ T = S \ {r}
      BY <1>7 DEF OthersStay
    <2>2. Cardinality(T) = Cardinality(S) - 1
      BY <1>1, <2>1, FS_RemoveElement
    <2> QED
      BY <1>4, <1>7, <2>2 DEF OneIf
  <1>8. CASE pc[r] \notin P /\ pc'[r] \in P
    <2>1. r \notin S /\ T = S \cup {r}
      BY <1>8 DEF OthersStay
    <2>2. Cardinality(T) = Cardinality(S) + 1
      BY <1>1, <2>1, FS_AddElement
    <2> QED
      BY <1>4, <1>8, <2>2 DEF OneIf
  <1> QED
    BY <1>5, <1>6, <1>7, <1>8

\* Numbers alone: c is s ahead of the counter a, and after a step, in which
\* one handler contributes p instead of o, d is t ahead of b.
Ahead(a, s, c) == c = a + s
Shift(a, s, c, o, b, t, d, p) ==
    /\ a \in Nat /\ s \in Nat /\ c \in Nat /\ o \in Nat
    /\ b \in Nat /\ t \in Nat /\ d \in Nat /\ p \in Nat
    /\ t - p = s - o /\ d - c = b - a + p - o

LEMMA AheadStays ==
    ASSUME NEW a, NEW s, NEW c, NEW o, NEW b, NEW t, NEW d, NEW p,
           Ahead(a, s, c), Shift(a, s, c, o, b, t, d, p)
    PROVE  Ahead(b, t, d)
  BY DEF Ahead, Shift

\* A step of a handler that gets them right keeps the books.
LEMMA BookStepKeeps ==
    ASSUME TypeOK, TypeOK', BookInv, IsFiniteSet(Active'), NEW r \in Requests, BookStep(r)
    PROVE  BookInv'
  <1>1. OthersStay(r) /\ restarts' = restarts /\ IsFiniteSet(Active)
    BY DEF BookStep, BookInv
  <1>2. \A q \in Requests : Fresh(q)'
    BY DEF BookStep, OthersStay, BookInv, Fresh
  <1>3. /\ SumMoves(Readings, Counted, Readings', Counted', r)
        /\ SumMoves(Queued, Counted, Queued', Counted', r)
        /\ SumMoves(Detected, Counted, Detected', Counted', r)
    BY <1>1, BooksChange
  <1>4. /\ metrics.total_readings \in Nat /\ metrics'.total_readings \in Nat
        /\ metrics.total_windows \in Nat /\ metrics'.total_windows \in Nat
        /\ metrics.total_anomalies \in Nat /\ metrics'.total_anomalies \in Nat
        /\ Len(published) \in Nat /\ Len(published') \in Nat
    BY LenProperties DEF TypeOK
  <1>5. ReadingsCounted'
    <2> SUFFICES ASSUME restarts = 0
                 PROVE  SumFunctionOnSet(Readings', Counted') <= metrics'.total_readings
      BY <1>1 DEF ReadingsCounted
    <2>1. SumFunctionOnSet(Readings, Counted) <= metrics.total_readings
      BY DEF BookInv, ReadingsCounted
    <2>2. metrics'.total_readings - metrics.total_readings
              >= Term(Readings', Counted', r) - Term(Readings, Counted, r)
      BY DEF BookStep
    <2> QED
      BY <1>3, <1>4, <2>1, <2>2, SumFollowed
  <1>6. ASSUME Untroubled' PROVE Books'
    <2>1. pc'[r] # "failed" /\ Untroubled
      <3>1. pc'[r] # "failed" /\ restarts = 0 /\ \A q \in Requests \ {r} : pc[q] \notin {"failed", "lost"}
        BY <1>1, <1>6 DEF Untroubled, OthersStay
      <3>2. pc[r] \notin {"failed", "lost"}
        BY DEF BookStep
      <3> QED
        BY <3>1, <3>2 DEF Untroubled
    <2>2. Books
      BY <2>1 DEF BookInv
    <2>3. /\ metrics'.total_readings = SumFunctionOnSet(Readings', Counted')
          /\ metrics'.total_windows = SumFunctionOnSet(Queued', Counted')
          /\ metrics'.total_anomalies = SumFunctionOnSet(Detected', Counted')
      <3>1. /\ metrics.total_readings = SumFunctionOnSet(Readings, Counted)
            /\ metrics.total_windows = SumFunctionOnSet(Queued, Counted)
            /\ metrics.total_anomalies = SumFunctionOnSet(Detected, Counted)
        BY <2>2 DEF Books
      <3>2. /\ metrics'.total_readings - metrics.total_readings
                   = Term(Readings', Counted', r) - Term(Readings, Counted, r)
            /\ metrics'.total_windows - metrics.total_windows
                   = Term(Queued', Counted', r) - Term(Queued, Counted, r)
            /\ metrics'.total_anomalies - metrics.total_anomalies
                   = Term(Detected', Counted', r) - Term(Detected, Counted, r)
        BY <2>1 DEF BookStep
      <3>3. metrics'.total_readings = SumFunctionOnSet(Readings', Counted')
        BY <1>3, <1>4, <3>1, <3>2, SumFollowed
      <3>4. metrics'.total_windows = SumFunctionOnSet(Queued', Counted')
        BY <1>3, <1>4, <3>1, <3>2, SumFollowed
      <3>5. metrics'.total_anomalies = SumFunctionOnSet(Detected', Counted')
        BY <1>3, <1>4, <3>1, <3>2, SumFollowed
      <3> QED
        BY <3>3, <3>4, <3>5
    <2>4. sensor_readings' = Counted' \cup {q \in Requests : pc'[q] = "persisted"}
      <3>1. \A q \in Requests : q \in sensor_readings <=> pc[q] \in Persisted
        BY <2>2 DEF Books, Counted, Persisted
      <3>2. sensor_readings' \subseteq Requests
        BY DEF TypeOK
      <3>3. ASSUME NEW q \in Requests PROVE q \in sensor_readings' <=> pc'[q] \in Persisted
        BY <1>1, <2>1, <3>1 DEF BookStep, OthersStay
      <3> QED
        BY <3>2, <3>3 DEF Counted, Persisted
    <2>5. /\ Cardinality(AtStored') - OneIf(pc'[r], Stored) = Cardinality(AtStored) - OneIf(pc[r], Stored)
          /\ Cardinality(AtStored) \in Nat /\ Cardinality(AtStored') \in Nat
      BY <1>1, AtChange DEF AtStored, Stored, PCs, AtAwait
    <2>6. /\ Cardinality(AtSent') - OneIf(pc'[r], Sent) = Cardinality(AtSent) - OneIf(pc[r], Sent)
          /\ Cardinality(AtSent) \in Nat /\ Cardinality(AtSent') \in Nat
      BY <1>1, AtChange DEF AtSent, Sent, PCs, AtAwait
    <2>7. /\ OneIf(pc[r], Stored) \in Nat /\ OneIf(pc'[r], Stored) \in Nat
          /\ OneIf(pc[r], Sent) \in Nat /\ OneIf(pc'[r], Sent) \in Nat
      BY DEF OneIf
    <2>8. /\ IsFiniteSet(anomaly_events')
          /\ Cardinality(anomaly_events') = metrics'.total_anomalies + Cardinality(AtStored')
      <3> DEFINE n == Cardinality(anomaly_events)
                 m == Cardinality(anomaly_events')
      <3>1. IsFiniteSet(anomaly_events) /\ Ahead(metrics.total_anomalies, Cardinality(AtStored), n)
        BY <2>2 DEF Books, Ahead
      <3>2. /\ IsFiniteSet(anomaly_events')
            /\ m - n = metrics'.total_anomalies - metrics.total_anomalies
                           + OneIf(pc'[r], Stored) - OneIf(pc[r], Stored)
        BY <2>1, <3>1 DEF BookStep
      <3>3. n \in Nat /\ m \in Nat
        BY <3>1, <3>2, FS_CardinalityType
      <3> HIDE DEF n, m
      <3>4. Shift(metrics.total_anomalies, Cardinality(AtStored), n, OneIf(pc[r], Stored),
                  metrics'.total_anomalies, Cardinality(AtStored'), m, OneIf(pc'[r], Stored))
        BY <1>4, <2>5, <2>7, <3>2, <3>3 DEF Shift
      <3>5. Ahead(metrics'.total_anomalies, Cardinality(AtStored'), m)
        BY <3>1, <3>4, AheadStays
      <3> QED
        BY <3>2, <3>5 DEF Ahead, m
    <2>9. Len(published') = metrics'.total_anomalies + Cardinality(AtSent')
      <3>1. Ahead(metrics.total_anomalies, Cardinality(AtSent), Len(published))
        BY <2>2 DEF Books, Ahead
      <3>2. Len(published') - Len(published)
                = metrics'.total_anomalies - metrics.total_anomalies
                      + OneIf(pc'[r], Sent) - OneIf(pc[r], Sent)
        BY <2>1 DEF BookStep
      <3>3. Shift(metrics.total_anomalies, Cardinality(AtSent), Len(published), OneIf(pc[r], Sent),
                  metrics'.total_anomalies, Cardinality(AtSent'), Len(published'), OneIf(pc'[r], Sent))
        BY <1>4, <2>6, <2>7, <3>2 DEF Shift
      <3>4. Ahead(metrics'.total_anomalies, Cardinality(AtSent'), Len(published'))
        BY <3>1, <3>3, AheadStays
      <3> QED
        BY <3>4 DEF Ahead
    <2> QED
      BY <2>3, <2>4, <2>8, <2>9 DEF Books
  <1> QED
    BY <1>2, <1>5, <1>6 DEF BookInv

\* The terms of a request before and after a step.
LEMMA BookTerms ==
    ASSUME NEW r \in Requests
    PROVE  /\ r \in Counted => /\ Term(Readings, Counted, r) = Len(batch[r])
                              /\ Term(Queued, Counted, r) = response[r].queued_windows
                              /\ Term(Detected, Counted, r) = response[r].anomalies_detected
           /\ r \notin Counted => /\ Term(Readings, Counted, r) = 0
                                 /\ Term(Queued, Counted, r) = 0
                                 /\ Term(Detected, Counted, r) = 0
           /\ r \in Counted' => /\ Term(Readings', Counted', r) = Len(batch'[r])
                               /\ Term(Queued', Counted', r) = response'[r].queued_windows
                               /\ Term(Detected', Counted', r) = response'[r].anomalies_detected
           /\ r \notin Counted' => /\ Term(Readings', Counted', r) = 0
                                  /\ Term(Queued', Counted', r) = 0
                                  /\ Term(Detected', Counted', r) = 0
  BY DEF Term, Readings, Queued, Detected

\* The numbers of a state.
LEMMA BookNumbers ==
    ASSUME TypeOK
    PROVE  /\ metrics.total_readings \in Nat /\ metrics.total_windows \in Nat
           /\ metrics.total_anomalies \in Nat /\ Len(published) \in Nat
           /\ IsFiniteSet(anomaly_events) => Cardinality(anomaly_events) \in Nat
  BY LenProperties, FS_CardinalityType DEF TypeOK

\* A handler that arrives, skips a reading, ends or fails books nothing.
LEMMA BookQuiet ==
    ASSUME TypeOK, BookInv, NEW r \in Requests, OthersStay(r),
           UNCHANGED <<response, metrics, sensor_readings, anomaly_events, published, restarts>>,
           \/ pc[r] = "idle" /\ pc'[r] \in {"rejected", "persist"}
           \/ batch'[r] = batch[r] /\ pc[r] = "scan" /\ pc'[r] \in {"scan", "done"}
           \/ batch'[r] = batch[r] /\ pc[r] \in AtAwait \cup {"scan"} /\ pc'[r] = "failed"
    PROVE  BookStep(r)
  <1>1. Fresh(r)' /\ pc[r] \notin {"failed", "lost"}
    BY DEF BookInv, Fresh, AtAwait
  <1>2. /\ Term(Readings, Counted, r) \in Nat
        /\ Term(Readings', Counted', r) <= Term(Readings, Counted, r)
        /\ Term(Readings', Counted', r) \in Nat
    <2>1. Len(batch[r]) \in Nat
      BY CountsType
    <2>2. CASE r \notin Counted /\ r \notin Counted'
      BY <2>2, BookTerms
    <2>3. CASE batch'[r] = batch[r] /\ r \in Counted
      BY <2>1, <2>3, BookTerms
    <2> QED
      BY <2>2, <2>3 DEF Counted, AtAwait
  <1>3. pc'[r] # "failed" => /\ Term(Readings', Counted', r) = Term(Readings, Counted, r)
                             /\ Term(Queued', Counted', r) = Term(Queued, Counted, r)
                             /\ Term(Detected', Counted', r) = Term(Detected, Counted, r)
    BY BookTerms DEF Counted
  <1>4. /\ Term(Queued, Counted, r) \in Nat /\ Term(Detected, Counted, r) \in Nat
    BY BookTerms, CountsType
  <1>5. pc'[r] # "failed" => /\ OneIf(pc[r], Stored) = 0 /\ OneIf(pc[r], Sent) = 0
                             /\ OneIf(pc'[r], Stored) = 0 /\ OneIf(pc'[r], Sent) = 0
    BY DEF OneIf, Stored, Sent
  <1>6. pc'[r] # "failed" => (pc[r] \in Persisted <=> pc'[r] \in Persisted)
    BY DEF Persisted
  <1> QED
    BY <1>1, <1>2, <1>3, <1>4, <1>5, <1>6, BookNumbers DEF BookStep

\* The COPY commits.
LEMMA BookCommitBatch ==
    ASSUME TypeOK, BookInv, NEW r \in Requests, CommitBatch(r)
    PROVE  BookStep(r)
  <1>1. OthersStay(r)
    BY HandlerAlone DEF Answer
  <1>2. /\ pc[r] = "persist" /\ pc'[r] = "persisted" /\ sensor_readings' = sensor_readings \cup {r}
        /\ UNCHANGED <<batch, response, metrics, anomaly_events, published, restarts>>
    BY DEF CommitBatch, TypeOK, stateVars, historyVars
  <1>3. r \notin Counted /\ r \notin Counted'
    BY <1>2 DEF Counted
  <1>4. Fresh(r)'
    BY <1>2 DEF BookInv, Fresh
  <1>5. /\ OneIf(pc[r], Stored) = 0 /\ OneIf(pc[r], Sent) = 0
        /\ OneIf(pc'[r], Stored) = 0 /\ OneIf(pc'[r], Sent) = 0
    BY <1>2 DEF OneIf, Stored, Sent
  <1> QED
    BY <1>1, <1>2, <1>3, <1>4, <1>5, BookTerms, BookNumbers DEF BookStep, Persisted

\* The COPY returns: the readings are counted, and the request with them.
LEMMA BookPersisted ==
    ASSUME TypeOK, BookInv, NEW r \in Requests, ResumePersisted(r)
    PROVE  BookStep(r)
  <1>1. OthersStay(r)
    BY HandlerAlone DEF Resume
  <1>2. /\ pc[r] = "persisted" /\ pc'[r] = "scan"
        /\ UNCHANGED <<batch, response, sensor_readings, anomaly_events, published, restarts>>
    BY DEF ResumePersisted, TypeOK, storeVars, historyVars
  <1>3. /\ metrics'.total_readings = metrics.total_readings + Len(batch[r])
        /\ metrics'.total_windows = metrics.total_windows
        /\ metrics'.total_anomalies = metrics.total_anomalies
    BY DEF ResumePersisted, TypeOK
  <1>4. r \notin Counted /\ r \in Counted'
    BY <1>2 DEF Counted
  <1>5. response'[r].queued_windows = 0 /\ response'[r].anomalies_detected = 0
    BY <1>2 DEF BookInv, Fresh
  <1>6. /\ OneIf(pc[r], Stored) = 0 /\ OneIf(pc[r], Sent) = 0
        /\ OneIf(pc'[r], Stored) = 0 /\ OneIf(pc'[r], Sent) = 0
    BY <1>2 DEF OneIf, Stored, Sent
  <1>7. Fresh(r)'
    BY <1>2 DEF Fresh
  <1>8. Len(batch[r]) \in Nat
    BY CountsType
  <1> QED
    BY <1>1, <1>2, <1>3, <1>4, <1>5, <1>6, <1>7, <1>8, BookTerms, BookNumbers
    DEF BookStep, Persisted

\* A window is scored.
LEMMA BookWindow ==
    ASSUME TypeOK, BookInv, NEW r \in Requests, ScanNormal(r) \/ ScanAnomaly(r)
    PROVE  BookStep(r)
  <1>1. OthersStay(r)
    BY HandlerAlone DEF Resume
  <1>2. /\ pc[r] = "scan" /\ pc'[r] \in {"scan", "insert"}
        /\ UNCHANGED <<batch, sensor_readings, anomaly_events, published, restarts>>
    BY DEF ScanNormal, ScanAnomaly, Scanning, TypeOK, storeVars
  <1>3. CountWindow(r)
    BY DEF ScanNormal, ScanAnomaly
  <1>4. /\ metrics'.total_readings = metrics.total_readings
        /\ metrics'.total_windows = metrics.total_windows + 1
        /\ metrics'.total_anomalies = metrics.total_anomalies
    BY <1>3 DEF CountWindow, TypeOK
  <1>5. /\ response'[r].queued_windows = response[r].queued_windows + 1
        /\ response'[r].anomalies_detected = response[r].anomalies_detected
    BY <1>3 DEF CountWindow, TypeOK
  <1>6. r \in Counted /\ r \in Counted'
    BY <1>2 DEF Counted
  <1>7. /\ OneIf(pc[r], Stored) = 0 /\ OneIf(pc[r], Sent) = 0
        /\ OneIf(pc'[r], Stored) = 0 /\ OneIf(pc'[r], Sent) = 0
    BY <1>2 DEF OneIf, Stored, Sent
  <1>8. Fresh(r)' /\ (pc[r] \in Persisted <=> pc'[r] \in Persisted)
    BY <1>2 DEF Fresh, Persisted
  <1>9. /\ Term(Readings, Counted, r) = Len(batch[r])
        /\ Term(Readings', Counted', r) = Len(batch[r])
        /\ Term(Queued, Counted, r) = response[r].queued_windows
        /\ Term(Queued', Counted', r) = response'[r].queued_windows
        /\ Term(Detected, Counted, r) = response[r].anomalies_detected
        /\ Term(Detected', Counted', r) = response'[r].anomalies_detected
    BY <1>2, <1>6, BookTerms
  <1>10. /\ Len(batch[r]) \in Nat
         /\ response[r].queued_windows \in Nat /\ response[r].anomalies_detected \in Nat
    BY CountsType
  <1>11. metrics'.total_readings - metrics.total_readings
             = Term(Readings', Counted', r) - Term(Readings, Counted, r)
    BY <1>4, <1>9, <1>10, BookNumbers
  <1>12. metrics'.total_windows - metrics.total_windows
             = Term(Queued', Counted', r) - Term(Queued, Counted, r)
    BY <1>4, <1>5, <1>9, <1>10, BookNumbers
  <1>13. metrics'.total_anomalies - metrics.total_anomalies
             = Term(Detected', Counted', r) - Term(Detected, Counted, r)
    BY <1>4, <1>5, <1>9, <1>10, BookNumbers
  <1>14. /\ IsFiniteSet(anomaly_events) =>
               Cardinality(anomaly_events) - Cardinality(anomaly_events)
                   = metrics'.total_anomalies - metrics.total_anomalies + 0 - 0
         /\ Len(published) - Len(published)
                = metrics'.total_anomalies - metrics.total_anomalies + 0 - 0
    BY <1>4, BookNumbers
  <1>15. metrics'.total_readings - metrics.total_readings
             >= Term(Readings', Counted', r) - Term(Readings, Counted, r)
    BY <1>4, <1>9, <1>10, BookNumbers
  <1> QED
    BY <1>1, <1>2, <1>7, <1>8, <1>11, <1>12, <1>13, <1>14, <1>15 DEF BookStep

\* The INSERT commits: the handler is one row ahead of the count.
LEMMA BookCommitAnomaly ==
    ASSUME TypeOK, LogInv, BookInv, NEW r \in Requests, CommitAnomaly(r)
    PROVE  BookStep(r)
  <1>1. OthersStay(r)
    BY HandlerAlone DEF Answer
  <1>2. /\ pc[r] = "insert" /\ pc'[r] = "inserted"
        /\ anomaly_events' = anomaly_events \cup {Row(Event(r))}
        /\ UNCHANGED <<batch, response, metrics, sensor_readings, published, restarts>>
    BY DEF CommitAnomaly, TypeOK, stateVars, historyVars
  <1>3. r \in Counted /\ r \in Counted'
    BY <1>2 DEF Counted
  <1>4. Row(Event(r)) \notin anomaly_events
    BY LogCommit, EventFields
  <1>5. IsFiniteSet(anomaly_events) =>
            /\ IsFiniteSet(anomaly_events')
            /\ Cardinality(anomaly_events') = Cardinality(anomaly_events) + 1
    BY <1>2, <1>4, FS_AddElement
  <1>6. /\ OneIf(pc[r], Stored) = 0 /\ OneIf(pc[r], Sent) = 0
        /\ OneIf(pc'[r], Stored) = 1 /\ OneIf(pc'[r], Sent) = 0
    BY <1>2 DEF OneIf, Stored, Sent
  <1>7. Fresh(r)'
    BY <1>2 DEF Fresh
  <1> QED
    BY <1>1, <1>2, <1>3, <1>5, <1>6, <1>7, BookTerms, BookNumbers, CountsType
    DEF BookStep, Persisted

\* Redis takes the alert: the handler is one alert ahead as well.
LEMMA BookPublish ==
    ASSUME TypeOK, BookInv, NEW r \in Requests, RedisPublish(r)
    PROVE  BookStep(r)
  <1>1. OthersStay(r)
    BY HandlerAlone DEF Answer
  <1>2. /\ pc[r] = "inserted" /\ pc'[r] = "published"
        /\ UNCHANGED <<batch, response, metrics, sensor_readings, anomaly_events, restarts>>
    BY DEF RedisPublish, TypeOK, stateVars, historyVars
  <1>3. r \in Counted /\ r \in Counted'
    BY <1>2 DEF Counted
  <1>4. Len(published') = Len(published) + 1
    BY AppendProperties DEF RedisPublish, TypeOK
  <1>5. /\ OneIf(pc[r], Stored) = 1 /\ OneIf(pc[r], Sent) = 0
        /\ OneIf(pc'[r], Stored) = 1 /\ OneIf(pc'[r], Sent) = 1
    BY <1>2 DEF OneIf, Stored, Sent
  <1>6. Fresh(r)' /\ (pc[r] \in Persisted <=> pc'[r] \in Persisted)
    BY <1>2 DEF Fresh, Persisted
  <1>7. /\ Term(Readings, Counted, r) = Len(batch[r])
        /\ Term(Readings', Counted', r) = Len(batch[r])
        /\ Term(Queued', Counted', r) = Term(Queued, Counted, r)
        /\ Term(Detected', Counted', r) = Term(Detected, Counted, r)
        /\ Term(Queued, Counted, r) \in Nat /\ Term(Detected, Counted, r) \in Nat
        /\ Len(batch[r]) \in Nat
    BY <1>2, <1>3, BookTerms, CountsType
  <1> QED
    BY <1>1, <1>2, <1>4, <1>5, <1>6, <1>7, BookNumbers DEF BookStep

\* The PUBLISH returns: the anomaly is counted.
LEMMA BookPublished ==
    ASSUME TypeOK, BookInv, NEW r \in Requests, ResumePublished(r)
    PROVE  BookStep(r)
  <1>1. OthersStay(r)
    BY HandlerAlone DEF Resume
  <1>2. /\ pc[r] = "published" /\ pc'[r] = "scan"
        /\ UNCHANGED <<batch, sensor_readings, anomaly_events, published, restarts>>
    BY DEF ResumePublished, TypeOK, storeVars, historyVars
  <1>3. /\ metrics'.total_readings = metrics.total_readings
        /\ metrics'.total_windows = metrics.total_windows
        /\ metrics'.total_anomalies = metrics.total_anomalies + 1
    BY DEF ResumePublished, TypeOK
  <1>4. /\ response'[r].queued_windows = response[r].queued_windows
        /\ response'[r].anomalies_detected = response[r].anomalies_detected + 1
    BY DEF ResumePublished, TypeOK
  <1>5. r \in Counted /\ r \in Counted'
    BY <1>2 DEF Counted
  <1>6. /\ OneIf(pc[r], Stored) = 1 /\ OneIf(pc[r], Sent) = 1
        /\ OneIf(pc'[r], Stored) = 0 /\ OneIf(pc'[r], Sent) = 0
    BY <1>2 DEF OneIf, Stored, Sent
  <1>7. Fresh(r)'
    BY <1>2 DEF Fresh
  <1>8. /\ Term(Readings', Counted', r) = Term(Readings, Counted, r)
        /\ Term(Queued', Counted', r) = Term(Queued, Counted, r)
        /\ Term(Detected', Counted', r) = Term(Detected, Counted, r) + 1
        /\ Term(Readings, Counted, r) \in Nat /\ Term(Queued, Counted, r) \in Nat
        /\ Term(Detected, Counted, r) \in Nat
    BY <1>2, <1>4, <1>5, BookTerms, CountsType
  <1>9. IsFiniteSet(anomaly_events) => Cardinality(anomaly_events) - Cardinality(anomaly_events) = 0
    BY BookNumbers
  <1>10. Len(published') - Len(published) = 0
    BY <1>2, BookNumbers
  <1>11. metrics'.total_readings - metrics.total_readings
             = Term(Readings', Counted', r) - Term(Readings, Counted, r)
    BY <1>3, <1>8, BookNumbers
  <1>12. metrics'.total_windows - metrics.total_windows
             = Term(Queued', Counted', r) - Term(Queued, Counted, r)
    BY <1>3, <1>8, BookNumbers
  <1>13. metrics'.total_anomalies - metrics.total_anomalies
             = Term(Detected', Counted', r) - Term(Detected, Counted, r)
    BY <1>3, <1>8, BookNumbers
  <1>14. metrics'.total_anomalies - metrics.total_anomalies
             + OneIf(pc'[r], Stored) - OneIf(pc[r], Stored) = 0
         /\ metrics'.total_anomalies - metrics.total_anomalies
             + OneIf(pc'[r], Sent) - OneIf(pc[r], Sent) = 0
    BY <1>3, <1>6, BookNumbers
  <1>15. metrics'.total_readings - metrics.total_readings
             >= Term(Readings', Counted', r) - Term(Readings, Counted, r)
    BY <1>3, <1>8, BookNumbers
  <1> QED
    BY <1>1, <1>2, <1>7, <1>9, <1>10, <1>11, <1>12, <1>13, <1>14, <1>15 DEF BookStep, Persisted

LEMMA BookNext ==
    TypeOK /\ TypeOK' /\ LogInv /\ BookInv /\ [Next]_vars => BookInv'
  <1> SUFFICES ASSUME TypeOK, TypeOK', LogInv, BookInv, [Next]_vars PROVE BookInv'
    OBVIOUS
  <1>0. IsFiniteSet(Active')
    BY ActiveFinite DEF BookInv
  <1>1. ASSUME NEW r \in Requests, \E b \in Batches : Arrive(r, b) PROVE BookInv'
    <2>1. OthersStay(r)
      BY <1>1, HandlerAlone
    <2>2. /\ UNCHANGED <<response, metrics, sensor_readings, anomaly_events, published, restarts>>
          /\ pc[r] = "idle" /\ pc'[r] \in {"rejected", "persist"}
      BY <1>1 DEF Arrive, TypeOK, stateVars, storeVars, historyVars
    <2> QED
      BY <1>0, <2>1, <2>2, BookQuiet, BookStepKeeps
  <1>2. ASSUME NEW r \in Requests, ScanWarmup(r) \/ Finish(r) PROVE BookInv'
    <2>1. OthersStay(r)
      BY <1>2, HandlerAlone DEF Resume
    <2>2. /\ UNCHANGED <<batch, response, metrics, sensor_readings, anomaly_events, published, restarts>>
          /\ pc[r] = "scan" /\ pc'[r] \in {"scan", "done"}
      BY <1>2 DEF ScanWarmup, Scanning, Finish, TypeOK, stateVars, storeVars, historyVars
    <2> QED
      BY <1>0, <2>1, <2>2, BookQuiet, BookStepKeeps
  <1>3. ASSUME NEW r \in Requests, ScanError(r) \/ Fail(r) PROVE BookInv'
    <2>1. OthersStay(r)
      BY <1>3, HandlerAlone DEF Resume, Answer
    <2>2. /\ UNCHANGED <<batch, response, metrics, sensor_readings, anomaly_events, published, restarts>>
          /\ pc[r] \in AtAwait \cup {"scan"} /\ pc'[r] = "failed"
      BY <1>3 DEF ScanError, Scanning, Fail, TypeOK, stateVars, storeVars, historyVars
    <2> QED
      BY <1>0, <2>1, <2>2, BookQuiet, BookStepKeeps
  <1>4. ASSUME NEW r \in Requests, Resume(r) \/ Answer(r) PROVE BookInv'
    <2>1. CASE ScanWarmup(r) \/ Finish(r) \/ ScanError(r) \/ Fail(r)
      BY <1>2, <1>3, <2>1
    <2>2. CASE ~(ScanWarmup(r) \/ Finish(r) \/ ScanError(r) \/ Fail(r))
      <3>1. BookStep(r)
        BY <1>4, <2>2, BookCommitBatch, BookPersisted, BookWindow, BookCommitAnomaly, BookPublish,
           BookPublished DEF Resume, Answer
      <3> QED
        BY <1>0, <3>1, BookStepKeeps
    <2> QED
      BY <2>1, <2>2
  <1>5. CASE Restart
    <2>1. restarts' # 0
      BY <1>5 DEF Restart, TypeOK
    <2>2. \A q \in Requests : Fresh(q)'
      BY <1>5 DEF Restart, TypeOK, BookInv, Fresh, Over
    <2> QED
      BY <1>0, <2>1, <2>2 DEF BookInv, ReadingsCounted, Untroubled
  <1>6. CASE AllOver \/ UNCHANGED vars
    <2>1. UNCHANGED <<pc, batch, response, metrics, sensor_readings, anomaly_events, published,
                      restarts>>
      BY <1>6 DEF AllOver, vars, handlerVars, stateVars, storeVars, historyVars
    <2> QED
      BY <2>1 DEF BookInv, Active, Fresh, ReadingsCounted, Untroubled, Books, Readings, Queued,
                  Detected, Counted, AtStored, AtSent
  <1> QED
    BY <1>1, <1>4, <1>5, <1>6 DEF Next

LEMMA BookInit == Init => BookInv
  <1> SUFFICES ASSUME Init PROVE BookInv
    OBVIOUS
  <1>1. /\ Active = {} /\ Counted = {} /\ AtStored = {} /\ AtSent = {}
        /\ {r \in Requests : pc[r] = "persisted"} = {}
    BY DEF Init, Active, Counted, AtStored, AtSent, Stored, Sent
  <1>2. /\ metrics.total_readings = 0 /\ metrics.total_windows = 0 /\ metrics.total_anomalies = 0
        /\ sensor_readings = {} /\ anomaly_events = {} /\ published = <<>>
    BY DEF Init, NewMetrics
  <1>3. /\ SumFunctionOnSet(Readings, Counted) = 0 /\ SumFunctionOnSet(Queued, Counted) = 0
        /\ SumFunctionOnSet(Detected, Counted) = 0
    <2>1. /\ SumFunctionOnSet(Readings, {}) = 0 /\ SumFunctionOnSet(Queued, {}) = 0
          /\ SumFunctionOnSet(Detected, {}) = 0
      BY SumEmpty
    <2> QED
      BY <1>1, <2>1, Zenon
  <1>4. /\ IsFiniteSet(Active) /\ IsFiniteSet(anomaly_events) /\ Cardinality(anomaly_events) = 0
        /\ Cardinality(AtStored) = 0 /\ Cardinality(AtSent) = 0 /\ Len(published) = 0
    <2>1. IsFiniteSet({}) /\ Cardinality({}) = 0
      BY FS_EmptySet
    <2>2. /\ IsFiniteSet(Active) /\ IsFiniteSet(anomaly_events) /\ Cardinality(anomaly_events) = 0
          /\ Cardinality(AtStored) = 0 /\ Cardinality(AtSent) = 0
      BY <1>1, <1>2, <2>1, Zenon
    <2> QED
      BY <1>2, <2>2
  <1>5. \A r \in Requests : Fresh(r)
    BY DEF Init, Fresh
  <1>6. sensor_readings = Counted \cup {r \in Requests : pc[r] = "persisted"}
    BY <1>1, <1>2
  <1> QED
    BY <1>2, <1>3, <1>4, <1>5, <1>6 DEF BookInv, ReadingsCounted, Books

\* When no handler is under way, the books are those of the requests done.
LEMMA BookTells == TypeOK /\ BookInv => SettledBooksAgree
  <1> SUFFICES ASSUME TypeOK, BookInv, restarts = 0,
                      \A r \in Requests : pc[r] \in {"idle", "rejected", "done"}
               PROVE  LET Done == {r \in Requests : pc[r] = "done"}
                      IN  /\ metrics.total_readings = SumFunctionOnSet(Readings, Done)
                          /\ metrics.total_windows = SumFunctionOnSet(Queued, Done)
                          /\ metrics.total_anomalies = SumFunctionOnSet(Detected, Done)
                          /\ metrics.total_anomalies = Cardinality(anomaly_events)
                          /\ metrics.total_anomalies = Len(published)
                          /\ sensor_readings = Done
    BY Zenon DEF SettledBooksAgree, Readings, Queued, Detected
  <1> DEFINE Done == {r \in Requests : pc[r] = "done"}
  <1>1. Books
    BY DEF BookInv, Untroubled
  <1>2. /\ Counted = Done /\ {r \in Requests : pc[r] = "persisted"} = {}
        /\ AtStored = {} /\ AtSent = {}
    BY DEF Counted, AtStored, AtSent, Stored, Sent
  <1> HIDE DEF Done
  <1>3. /\ metrics.total_readings = SumFunctionOnSet(Readings, Done)
        /\ metrics.total_windows = SumFunctionOnSet(Queued, Done)
        /\ metrics.total_anomalies = SumFunctionOnSet(Detected, Done)
    BY <1>1, <1>2, Zenon DEF Books
  <1>4. Cardinality(AtStored) = 0 /\ Cardinality(AtSent) = 0
    <2>1. Cardinality({}) = 0
      BY FS_EmptySet
    <2> QED
      BY <1>2, <2>1, Zenon
  <1>5. metrics.total_anomalies = Cardinality(anomaly_events)
    BY <1>1, <1>4, BookNumbers DEF Books
  <1>6. metrics.total_anomalies = Len(published)
    BY <1>1, <1>4, BookNumbers DEF Books
  <1>7. sensor_readings = Done
    BY <1>1, <1>2 DEF Books
  <1> QED
    BY <1>3, <1>5, <1>6, <1>7 DEF Done

\* A process that never failed, once its requests are answered: the counters,
\* the answers, the rows and the alerts all tell the same.
THEOREM SettledBooksAgreeCorrect == Spec => []SettledBooksAgree
  BY BookTells, BookInit, BookNext, TypeCorrect, LogCorrect, PTL DEF Spec

-----------------------------------------------------------------------------
(* All together.  The invariants of the sections above are inductive as    *)
(* one, from the steps alone: whatever else drives the ingest path by the  *)
(* actions of Next keeps them, and all that they imply.                    *)

PathInv ==
    /\ TypeOK /\ LogInv /\ BatchFits /\ TallyInv /\ CountInv
    /\ BufferInv /\ ScoreInv /\ ThresholdInv /\ WindowInv /\ BookInv

Guarantees ==
    /\ TypeOK /\ AlertsBacked /\ AlertedOnce /\ UnalertedRowIsLast
    /\ BufferIsRecentHistory /\ ScoredOnOwnWindow /\ StoredThresholdsExplain
    /\ ResponseTruthful /\ CountersTrailAlerts /\ WindowsAccounted /\ SettledBooksAgree

LEMMA PathInit == Init => PathInv
  <1>1. Init => BatchFits /\ ScoreInv /\ ThresholdInv
    BY DEF Init, BatchFits, ScoreInv, InsertScored, ScoredOnOwnWindow, ThresholdInv, NotNormal,
           StoredThresholdsExplain
  <1> QED
    BY <1>1, TypeInit, LogInit, TallyInit, CountInit, BufferInit, WindowInit, BookInit DEF PathInv

LEMMA PathNext == PathInv /\ [Next]_vars => PathInv'
  <1> SUFFICES ASSUME PathInv, [Next]_vars PROVE PathInv'
    OBVIOUS
  <1>1. TypeOK' /\ CommittedFirst
    BY TypeNext DEF PathInv, BufferInv
  <1> QED
    BY <1>1, LogNext, BatchFitsNext, TallyNext, CountNext, BufferNext, ScoreNext, ThresholdNext,
       WindowNext, BookNext DEF PathInv

LEMMA PathTells == PathInv => Guarantees
  <1> SUFFICES ASSUME PathInv PROVE Guarantees
    OBVIOUS
  <1>1. AlertsBacked /\ AlertedOnce /\ ScoredOnOwnWindow /\ StoredThresholdsExplain
    BY DEF PathInv, LogInv, ScoreInv, ThresholdInv
  <1>2. BufferIsRecentHistory
    BY DEF PathInv, BufferInv, BufferIsEnd, HistoryGood, EntryGood, BufferIsRecentHistory
  <1>3. WindowsAccounted
    BY DEF PathInv, WindowInv, WindowsAccounted, Windows
  <1> QED
    BY <1>1, <1>2, <1>3, UnalertedTells, TallyTells, CountTells, BookTells DEF PathInv, Guarantees
=============================================================================
