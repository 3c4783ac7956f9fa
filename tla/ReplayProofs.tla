---------------------------- MODULE ReplayProofs ----------------------------
(***************************************************************************)
(* Theorems about Replay, for every replay and any number of attempts: the *)
(* producer is one more user of the ingest path, so what IngestProofs says *)
(* of its steps holds, and with it the order of the feed.                  *)
(***************************************************************************)
EXTENDS Replay, IngestWindowProofs

-----------------------------------------------------------------------------
(* The steps of the ingest path as the producer sees them.                 *)

\* An attempt has a cycle with a body, and every body can be a request.
LEMMA AttemptType ==
    ASSUME NEW r \in Requests
    PROVE  /\ r[1] \in Cycles /\ r[2] \in 1 .. max_attempts /\ r = <<r[1], r[2]>>
           /\ Bodies[r[1]] \in Batches
  <1>1. r \in Cycles \X (1 .. max_attempts)
    BY ReplayAssumption
  <1>2. r[1] \in 1 .. Len(Bodies) /\ r[2] \in 1 .. max_attempts /\ r = <<r[1], r[2]>>
    BY <1>1 DEF Cycles
  <1> QED
    BY <1>2, ReplayAssumption, ElementOfSeq DEF Cycles

\* What a handler does: only its own pc changes, it is under way before and
\* has begun after, and its readings enter a buffer only while it scans.
LEMMA HandlerStep ==
    ASSUME TypeOK, NEW r \in Requests, Resume(r) \/ Answer(r)
    PROVE  /\ pc[r] \notin Over \cup {"idle"} /\ pc'[r] # "idle"
           /\ \A q \in Requests \ {r} : pc'[q] = pc[q]
           /\ batch' = batch
           /\ \/ pushed' = pushed
              \/ Feed(r) /\ pos[r] <= Len(batch[r])
  <1>0. pc \in [Requests -> PCs]
    BY DEF TypeOK
  <1>1. CASE Answer(r)
    BY <1>0, <1>1 DEF Answer, CommitBatch, CommitAnomaly, RedisPublish, Fail, AtAwait, Over,
                historyVars
  <1>2. CASE ResumePersisted(r) \/ ResumePublished(r)
    BY <1>0, <1>2 DEF ResumePersisted, ResumePublished, Over, historyVars
  <1>3. CASE Finish(r) \/ ScanError(r)
    BY <1>0, <1>3 DEF Finish, ScanError, Scanning, Over, historyVars
  <1>4. CASE ScanWarmup(r) \/ ScanNormal(r) \/ ScanAnomaly(r)
    BY <1>0, <1>4 DEF ScanWarmup, ScanNormal, ScanAnomaly, Scanning, Over
  <1> QED
    BY <1>1, <1>2, <1>3, <1>4 DEF Resume

\* Every step of the composition is one of the ingest path, or none.
LEMMA ReplayStep ==
    ASSUME ReplayTypeOK, [ReplayNext]_replayVars
    PROVE  [Next]_vars
  <1>1. CASE Produce
    BY <1>1 DEF Produce, Post, Succeed, Retry, CountError
  <1>2. CASE Serve
    <2>1. \A r \in posted : r \in Requests /\ Bodies[r[1]] \in Batches
      BY AttemptType DEF ReplayTypeOK
    <2> QED
      BY <1>2, <2>1 DEF Serve, Next
  <1>3. CASE Complete \/ UNCHANGED replayVars
    BY <1>3 DEF Complete, replayVars
  <1> QED
    BY <1>1, <1>2, <1>3 DEF ReplayNext

-----------------------------------------------------------------------------
(* Types.                                                                  *)

LEMMA ReplayTypeInit == ReplayInit => ReplayTypeOK
  <1> SUFFICES ASSUME ReplayInit PROVE ReplayTypeOK
    OBVIOUS
  <1>1. Len(Bodies) \in Nat /\ (Bodies = <<>> <=> Len(Bodies) = 0)
    BY ReplayAssumption, EmptySeq
  <1>2. \A r \in Requests : pc[r] = "idle"
    BY DEF ReplayInit, Init
  <1>3. 1 \in 1 .. max_attempts /\ 1 \in 1 .. Len(Bodies) + 1 /\ 0 \in 0 .. 1 - 1
    BY <1>1, ReplayAssumption
  <1>4. producer \in {"post", "await", "complete"} /\ (producer = "complete" <=> 1 > Len(Bodies))
    BY <1>1 DEF ReplayInit
  <1> QED
    BY <1>2, <1>3, <1>4 DEF ReplayInit, ReplayTypeOK

\* The attempt the producer is at, while it is at one.
LEMMA CurrentType ==
    ASSUME ReplayTypeOK, producer # "complete"
    PROVE  Current \in Requests /\ cycle \in Cycles
  BY ReplayAssumption DEF ReplayTypeOK, Current, Cycles

LEMMA ReplayTypeNext ==
    ASSUME TypeOK, ReplayTypeOK, [ReplayNext]_replayVars
    PROVE  ReplayTypeOK'
  <1> USE DEF ReplayTypeOK
  <1>0. Len(Bodies) \in Nat /\ max_attempts \in Nat \ {0}
    BY ReplayAssumption
  <1>1. CASE Post
    BY <1>0, <1>1, CurrentType DEF Post, vars, handlerVars, countVars
  <1>2. CASE Succeed
    <2>1. Len(Bodies[cycle]) \in Nat
      <3>1. Bodies[cycle] \in Seq(SensorReading)
        BY <1>2, CurrentType, ReplayAssumption, IngestAssumption, ElementOfSeq DEF Succeed, Cycles
      <3> QED
        BY <3>1
    <2> QED
      BY <1>0, <1>2, <2>1 DEF Succeed, NextCycle, vars, handlerVars
  <1>3. CASE Retry
    BY <1>0, <1>3 DEF Retry, GiveUp, vars, handlerVars, countVars
  <1>4. CASE CountError
    BY <1>0, <1>4 DEF CountError, GiveUp, NextCycle, vars, handlerVars
  <1>5. CASE Serve
    <2>1. UNCHANGED producerVars
      BY <1>5 DEF Serve
    <2>2. ASSUME NEW r \in Requests, pc'[r] # "idle"
          PROVE  r \in posted /\ batch'[r] = Bodies[r[1]]
      <3>1. ASSUME NEW q \in posted, Arrive(q, Bodies[q[1]])
            PROVE  r \in posted /\ batch'[r] = Bodies[r[1]]
        <4>1. /\ pc' = [pc EXCEPT ![q] = pc'[q]] /\ batch' = [batch EXCEPT ![q] = Bodies[q[1]]]
              /\ pc \in [Requests -> PCs] /\ batch \in [Requests -> Seq(SensorReading)]
          BY <3>1 DEF Arrive, TypeOK
        <4>2. CASE r = q
          BY <4>1, <4>2
        <4>3. CASE r # q
          BY <2>2, <4>1, <4>3
        <4> QED
          BY <4>2, <4>3
      <3>2. CASE \E q \in posted : Resume(q) \/ Answer(q)
        BY <2>2, <3>2, HandlerStep
      <3>3. CASE Restart
        BY <2>2, <3>3 DEF Restart
      <3> QED
        BY <1>5, <3>1, <3>2, <3>3 DEF Serve
    <2> QED
      BY <2>1, <2>2 DEF producerVars, countVars
  <1>6. CASE Complete \/ UNCHANGED replayVars
    BY <1>6 DEF Complete, replayVars, producerVars, countVars, vars, handlerVars
  <1> QED
    BY <1>1, <1>2, <1>3, <1>4, <1>5, <1>6 DEF ReplayNext, Produce

\* The ingest path and the producer keep their types: an attempt is never
\* beyond the limit, and every request under way is one the producer sent.
THEOREM ReplayTypeCorrect == ReplaySpec => [](TypeOK /\ ReplayTypeOK)
  <1>1. ReplayInit => TypeOK /\ ReplayTypeOK
    BY TypeInit, ReplayTypeInit DEF ReplayInit
  <1>2. TypeOK /\ ReplayTypeOK /\ [ReplayNext]_replayVars => (TypeOK /\ ReplayTypeOK)'
    BY ReplayStep, TypeNext, ReplayTypeNext
  <1> QED
    BY <1>1, <1>2, PTL DEF ReplaySpec

-----------------------------------------------------------------------------
(* The guarantees of the ingest path.                                      *)

LEMMA ReplayPath == ReplaySpec => []PathInv
  <1>1. ReplayInit => PathInv
    BY PathInit DEF ReplayInit
  <1>2. ReplayTypeOK /\ PathInv /\ [ReplayNext]_replayVars => PathInv'
    BY ReplayStep, PathNext
  <1> QED
    BY <1>1, <1>2, ReplayTypeCorrect, PTL DEF ReplaySpec

\* The producer may give up attempts whose handlers go on, and repeat them as it
\* likes: all that the ingest path guarantees holds all the same.
THEOREM ReplayGuarantees == ReplaySpec => []Guarantees
  BY ReplayPath, PathTells, PTL

\* ... and so does the promise about anomalies: repeated attempts are requests
\* of their own, and each is recorded and announced at most once.
THEOREM ReplayImplementsAnomalyLog == ReplaySpec => LogSpec
  <1>1. ReplayInit => Log!Init
    BY DEF ReplayInit, Init, Log!Init, Alerts
  <1>2. ReplayTypeOK /\ PathInv /\ PathInv' /\ [ReplayNext]_replayVars
        => [Log!Next]_(Log!logVars)
    BY ReplayStep, LogRefinement DEF PathInv
  <1> QED
    BY <1>1, <1>2, ReplayPath, ReplayTypeCorrect, PTL DEF ReplaySpec, LogSpec, Log!Spec

-----------------------------------------------------------------------------
(* The order of the feed.                                                  *)

\* Every attempt but the one that is awaited lies behind the producer, and is
\* over unless it was given up.
AttemptPlace ==
    \A r \in posted :
        \/ r = Current /\ producer = "await"
        \/ After(Current, r) /\ (abandoned \/ pc[r] \in Over)

\* What is in a buffer came with an attempt that was sent.
FedByPosted == \A e \in Engines : \A k \in 1 .. Len(pushed[e]) : pushed[e][k].req \in posted

OrderInv == AttemptPlace /\ FedByPosted /\ FedInReplayOrder

LEMMA OrderInit == ReplayInit => OrderInv
  BY DEF ReplayInit, Init, OrderInv, AttemptPlace, FedByPosted, FedInReplayOrder

\* The producer's steps leave the buffers alone, and when it moves on, what it
\* awaited is over or given up.
LEMMA OrderProduce ==
    ASSUME TypeOK, ReplayTypeOK, OrderInv, Produce
    PROVE  OrderInv'
  <1> USE DEF OrderInv, AttemptPlace
  <1>1. /\ \A r \in posted : r[1] \in Nat /\ r[2] \in Nat /\ r = <<r[1], r[2]>>
        /\ cycle \in Nat /\ attempt \in Nat
        /\ Current[1] = cycle /\ Current[2] = attempt
        /\ Current'[1] = cycle' /\ Current'[2] = attempt'
    BY AttemptType, ReplayAssumption DEF ReplayTypeOK, Current, Cycles
  <1>2. UNCHANGED <<pc, pushed>> /\ posted \subseteq posted' /\ (abandoned => abandoned')
    <2>1. UNCHANGED <<pc, pushed>> /\ posted \subseteq posted'
      BY DEF Produce, Post, Succeed, Retry, CountError, vars, handlerVars, historyVars
    <2>2. abandoned => abandoned'
      BY Zenon DEF Produce, Post, Succeed, Retry, CountError, GiveUp
    <2> QED
      BY <2>1, <2>2
  <1>3. FedByPosted'
    BY <1>2 DEF FedByPosted
  <1>4. FedInReplayOrder'
    BY <1>2 DEF FedInReplayOrder, After
  <1>5. AttemptPlace'
    <2>1. CASE Post
      <3>1. posted' = posted \cup {Current} /\ producer' = "await" /\ Current' = Current
            /\ producer = "post" /\ abandoned' = abandoned
        BY <2>1 DEF Post, Current
      <3> QED
        BY <1>2, <3>1 DEF After
    <2>2. CASE Succeed \/ Retry \/ CountError
      <3>1. /\ posted' = posted /\ producer = "await"
            /\ \/ cycle' = cycle + 1
               \/ cycle' = cycle /\ attempt' = attempt + 1
            /\ abandoned' \/ pc[Current] \in Over
        BY <2>2 DEF Succeed, Retry, CountError, GiveUp, NextCycle, Over
      <3>2. ASSUME NEW r \in posted
            PROVE  After(Current, r)' /\ (abandoned' \/ pc'[r] \in Over)
        <4>1. CASE r = Current
          BY <1>1, <1>2, <3>1, <4>1 DEF After
        <4>2. CASE After(Current, r) /\ (abandoned \/ pc[r] \in Over)
          BY <1>1, <1>2, <3>1, <4>2 DEF After
        <4> QED
          BY <4>1, <4>2
      <3> QED
        BY <3>1, <3>2 DEF After
    <2> QED
      BY <2>1, <2>2 DEF Produce
  <1> QED
    BY <1>3, <1>4, <1>5

\* A handler that feeds a buffer is the one that is awaited, unless an attempt
\* was given up: nothing in the buffer came with a later one.
LEMMA OrderServe ==
    ASSUME TypeOK, ReplayTypeOK, OrderInv, Serve
    PROVE  OrderInv'
  <1> USE DEF OrderInv
  <1>1. UNCHANGED <<producer, cycle, attempt, posted, abandoned, Current>>
    BY DEF Serve, producerVars, countVars, Current
  <1>2. \A r \in posted : pc[r] \in Over => pc'[r] \in Over
    <2>1. CASE \E q \in posted : Arrive(q, Bodies[q[1]])
      BY <2>1 DEF Arrive, Over, TypeOK, ReplayTypeOK
    <2>2. CASE \E q \in posted : Resume(q) \/ Answer(q)
      BY <2>2, HandlerStep DEF ReplayTypeOK
    <2>3. CASE Restart
      BY <2>3 DEF Restart, Over, ReplayTypeOK
    <2> QED
      BY <2>1, <2>2, <2>3 DEF Serve
  <1>3. AttemptPlace'
    BY <1>1, <1>2 DEF AttemptPlace, After
  <1>4. CASE \/ pushed' = pushed
             \/ Restart
    <2>1. \A e \in Engines : pushed'[e] = pushed[e] \/ pushed'[e] = <<>>
      BY <1>4 DEF Restart
    <2>2. FedByPosted'
      BY <1>1, <2>1 DEF FedByPosted
    <2>3. FedInReplayOrder'
      BY <1>1, <2>1 DEF FedInReplayOrder, After
    <2> QED
      BY <1>3, <2>2, <2>3
  <1>5. ASSUME NEW r \in posted, Resume(r) \/ Answer(r), Feed(r), pos[r] <= Len(batch[r])
        PROVE  OrderInv'
    <2> DEFINE e == Reading(r).engine_id
    <2>1. r \in Requests /\ Entry(r).req = r
      BY DEF ReplayTypeOK, Entry
    <2>2. /\ pushed \in [Engines -> Seq(Entries)] /\ Entry(r) \in Entries /\ e \in Engines
          /\ pushed' = [pushed EXCEPT ![e] = Append(pushed[e], Entry(r))]
      BY <1>5, <2>1, ReadingType DEF Feed, TypeOK, SensorReading
    <2>3. /\ Len(pushed'[e]) = Len(pushed[e]) + 1 /\ Len(pushed[e]) \in Nat
          /\ pushed'[e][Len(pushed[e]) + 1] = Entry(r)
          /\ \A k \in 1 .. Len(pushed[e]) : pushed'[e][k] = pushed[e][k]
          /\ \A f \in Engines : f # e => pushed'[f] = pushed[f]
      BY <2>2, AppendProperties
    <2>4. FedByPosted'
      <3> SUFFICES ASSUME NEW f \in Engines, NEW k \in 1 .. Len(pushed'[f])
                   PROVE  pushed'[f][k].req \in posted
        BY <1>1 DEF FedByPosted
      <3>1. CASE f = e /\ k = Len(pushed[e]) + 1
        BY <2>1, <2>3, <3>1
      <3>2. CASE f # e \/ k # Len(pushed[e]) + 1
        <4>1. k \in 1 .. Len(pushed[f]) /\ pushed'[f][k] = pushed[f][k]
          BY <2>3, <3>2
        <4> QED
          BY <4>1 DEF FedByPosted
      <3> QED
        BY <3>1, <3>2
    <2>5. FedInReplayOrder'
      <3> SUFFICES ASSUME ~abandoned, NEW f \in Engines, NEW j \in 1 .. Len(pushed'[f]),
                          NEW k \in 1 .. Len(pushed'[f]), j < k
                   PROVE  ~After(pushed'[f][j].req, pushed'[f][k].req)
        BY <1>1 DEF FedInReplayOrder, After
      <3>1. CASE f = e /\ k = Len(pushed[e]) + 1
        <4>1. r = Current
          BY <1>5, <2>1, HandlerStep DEF AttemptPlace
        <4>2. j \in 1 .. Len(pushed[e]) /\ pushed'[f][j] = pushed[e][j]
          BY <2>3, <3>1
        <4>3. pushed[e][j].req = Current \/ After(Current, pushed[e][j].req)
          BY <2>2, <4>2 DEF FedByPosted, AttemptPlace
        <4>4. /\ pushed[e][j].req[1] \in Nat /\ pushed[e][j].req[2] \in Nat
              /\ Current[1] \in Nat /\ Current[2] \in Nat
          <5>1. Cycles \subseteq Nat /\ 1 .. max_attempts \subseteq Nat
            BY ReplayAssumption DEF Cycles
          <5>2. pushed[e][j].req \in Requests /\ Current \in Requests
            BY <2>1, <2>2, <4>1, <4>2 DEF FedByPosted, ReplayTypeOK
          <5> QED
            BY <5>1, <5>2, AttemptType
        <4>5. ~After(pushed[e][j].req, Current)
          BY <4>3, <4>4 DEF After
        <4> QED
          BY <2>1, <2>3, <3>1, <4>1, <4>2, <4>5
      <3>2. CASE f # e \/ k # Len(pushed[e]) + 1
        <4>1. /\ k \in 1 .. Len(pushed[f]) /\ pushed'[f][k] = pushed[f][k]
              /\ j \in 1 .. Len(pushed[f]) /\ pushed'[f][j] = pushed[f][j]
          BY <2>3, <3>2
        <4> QED
          BY <4>1 DEF FedInReplayOrder
      <3> QED
        BY <3>1, <3>2
    <2> QED
      BY <1>3, <2>4, <2>5
  <1>6. CASE \E q \in posted : Arrive(q, Bodies[q[1]])
    BY <1>4, <1>6 DEF Arrive, historyVars
  <1> QED
    BY <1>4, <1>5, <1>6, HandlerStep DEF Serve, ReplayTypeOK

\* As long as no attempt is given up while its handler may go on, engines are
\* fed in the order of the replay, for every replay and number of attempts.
THEOREM FedInReplayOrderCorrect == ReplaySpec => []FedInReplayOrder
  <1>1. TypeOK /\ ReplayTypeOK /\ OrderInv /\ [ReplayNext]_replayVars => OrderInv'
    <2>1. CASE Complete \/ UNCHANGED replayVars
      BY <2>1 DEF Complete, replayVars, producerVars, vars, handlerVars, historyVars, OrderInv,
                  AttemptPlace, FedByPosted, FedInReplayOrder, After, Current
    <2> QED
      BY <2>1, OrderProduce, OrderServe DEF ReplayNext
  <1>2. OrderInv => FedInReplayOrder
    BY DEF OrderInv
  <1> QED
    BY <1>1, <1>2, OrderInit, ReplayTypeCorrect, PTL DEF ReplaySpec

-----------------------------------------------------------------------------
(* The books of the producer.  What it has counted is at most the bodies   *)
(* of the cycles behind it that are stored, and at most the readings of    *)
(* the attempts behind it that got their 202.                              *)

BodySize == [c \in Cycles |-> Len(Bodies[c])]
StoredBehind == {c \in StoredCycles : c < cycle}
DoneBehind == {r \in Requests : pc[r] = "done" /\ r[1] < cycle}

\* A handler that is past its COPY has its rows.
RowsFirst == \A r \in Requests : pc[r] \in Persisted => r \in sensor_readings

SentInv ==
    /\ RowsFirst
    /\ total_sent <= SumFunctionOnSet(BodySize, StoredBehind)
    /\ total_sent <= SumFunctionOnSet(Readings, DoneBehind)

\* Rows stay, and so does a 202 with the batch it is for.
LEMMA DoneStays ==
    ASSUME TypeOK, RowsFirst, [Next]_vars
    PROVE  /\ sensor_readings \subseteq sensor_readings' /\ RowsFirst'
           /\ \A r \in Requests : pc[r] = "done" => pc'[r] = "done" /\ batch'[r] = batch[r]
  <1> USE DEF RowsFirst, Persisted
  <1>0. pc \in [Requests -> PCs] /\ batch \in [Requests -> Seq(SensorReading)]
    BY DEF TypeOK
  <1>1. ASSUME NEW r \in Requests, NEW b \in Batches, Arrive(r, b)
        PROVE  /\ sensor_readings \subseteq sensor_readings' /\ RowsFirst'
               /\ \A q \in Requests : pc[q] = "done" => pc'[q] = "done" /\ batch'[q] = batch[q]
    BY <1>0, <1>1 DEF Arrive, storeVars
  <1>2. ASSUME NEW r \in Requests, CommitBatch(r) \/ CommitAnomaly(r) \/ RedisPublish(r) \/ Fail(r)
        PROVE  /\ sensor_readings \subseteq sensor_readings' /\ RowsFirst'
               /\ \A q \in Requests : pc[q] = "done" => pc'[q] = "done" /\ batch'[q] = batch[q]
    BY <1>0, <1>2 DEF CommitBatch, CommitAnomaly, RedisPublish, Fail, AtAwait, storeVars
  <1>3. ASSUME NEW r \in Requests, Resume(r)
        PROVE  /\ sensor_readings \subseteq sensor_readings' /\ RowsFirst'
               /\ \A q \in Requests : pc[q] = "done" => pc'[q] = "done" /\ batch'[q] = batch[q]
    BY <1>0, <1>3 DEF Resume, ResumePersisted, ResumePublished, Finish, ScanWarmup, ScanNormal,
                      ScanAnomaly, ScanError, Scanning, storeVars
  <1>4. CASE Restart
    BY <1>0, <1>4 DEF Restart, Over, storeVars
  <1>5. CASE AllOver \/ UNCHANGED vars
    BY <1>5 DEF AllOver, vars, handlerVars, storeVars
  <1> QED
    BY <1>1, <1>2, <1>3, <1>4, <1>5 DEF Next, Answer

\* Every set of cycles has a sum of bodies.
LEMMA BodiesSummable == \A S \in SUBSET Cycles : Summable(BodySize, S)
  <1>1. IsFiniteSet(Cycles)
    BY ReplayAssumption, FS_Interval DEF Cycles
  <1>2. \A c \in Cycles : BodySize[c] \in Nat
    <2>1. \A c \in Cycles : Bodies[c] \in Seq(SensorReading)
      BY ReplayAssumption, IngestAssumption, ElementOfSeq DEF Cycles
    <2> QED
      BY <2>1, LenProperties DEF BodySize
  <1> QED
    BY <1>1, <1>2, FS_Subset DEF Summable

\* A step that counts nothing, and takes the producer at most forward.
LEMMA SentSame ==
    ASSUME TypeOK, TypeOK', BookInv, BookInv', ReplayTypeOK, ReplayTypeOK', SentInv, [Next]_vars,
           total_sent' = total_sent, cycle' >= cycle
    PROVE  SentInv'
  <1>0. /\ sensor_readings \subseteq sensor_readings' /\ RowsFirst'
        /\ \A r \in Requests : pc[r] = "done" => pc'[r] = "done" /\ batch'[r] = batch[r]
    BY DoneStays DEF SentInv
  <1>1. cycle \in Int /\ cycle' \in Int /\ total_sent \in Nat
    BY ReplayAssumption DEF ReplayTypeOK
  <1>2. StoredBehind \in SUBSET (StoredBehind')
    BY <1>0, <1>1 DEF StoredBehind, StoredCycles, Cycles
  <1>3. DoneBehind \in SUBSET (DoneBehind')
    BY <1>0, <1>1, AttemptType DEF DoneBehind, Cycles
  <1>4. /\ Summable(BodySize, StoredBehind) /\ Summable(Readings, DoneBehind)
        /\ Summable(BodySize, StoredBehind') /\ Summable(Readings', DoneBehind')
    <2>1. StoredBehind \in SUBSET Cycles /\ StoredBehind' \in SUBSET Cycles
      BY DEF StoredBehind, StoredCycles
    <2>2. DoneBehind \in SUBSET Counted /\ DoneBehind' \in SUBSET (Counted')
      BY DEF DoneBehind, Counted
    <2>3. Summable(BodySize, StoredBehind) /\ Summable(BodySize, StoredBehind')
      BY <2>1, BodiesSummable
    <2>4. Summable(Readings, DoneBehind)
      BY <2>2, BooksSummable, SummablePart DEF BookInv
    <2>5. Summable(Readings', DoneBehind')
      BY <2>2, BooksSummableNext, SummablePart DEF BookInv
    <2> QED
      BY <2>3, <2>4, <2>5
  <1>5. SumFunctionOnSet(BodySize, StoredBehind) <= SumFunctionOnSet(BodySize, StoredBehind')
    BY <1>2, <1>4, SumPart
  <1>6. SumFunctionOnSet(Readings, DoneBehind) = SumFunctionOnSet(Readings', DoneBehind)
    <2>1. Agree(Readings, Readings', DoneBehind)
      BY <1>0 DEF Agree, Readings, DoneBehind
    <2> QED
      BY <1>4, <2>1, SumSame
  <1>7. SumFunctionOnSet(Readings', DoneBehind) <= SumFunctionOnSet(Readings', DoneBehind')
    BY <1>3, <1>4, SumPart
  <1>8. /\ SumFunctionOnSet(BodySize, StoredBehind) \in Nat
        /\ SumFunctionOnSet(BodySize, StoredBehind') \in Nat
        /\ SumFunctionOnSet(Readings, DoneBehind) \in Nat
        /\ SumFunctionOnSet(Readings', DoneBehind') \in Nat
    BY <1>4, SumType
  <1>9. total_sent' <= SumFunctionOnSet(BodySize, StoredBehind')
    BY <1>1, <1>5, <1>8 DEF SentInv
  <1>10. total_sent' <= SumFunctionOnSet(Readings', DoneBehind')
    BY <1>1, <1>6, <1>7, <1>8 DEF SentInv
  <1> QED
    BY <1>0, <1>9, <1>10 DEF SentInv, BodySize

\* The 202 of a cycle: its rows are stored and its attempt is done.
LEMMA SentSucceed ==
    ASSUME TypeOK, BookInv, ReplayTypeOK, SentInv, Succeed
    PROVE  SentInv'
  <1>1. /\ producer = "await" /\ pc[Current] = "done" /\ cycle' = cycle + 1
        /\ total_sent' = total_sent + Len(Bodies[cycle]) /\ UNCHANGED vars
    BY DEF Succeed, NextCycle
  <1>2. UNCHANGED <<pc, batch, sensor_readings, restarts, StoredCycles, Readings, Counted>>
    BY <1>1 DEF vars, handlerVars, storeVars, historyVars, StoredCycles, Readings, Counted
  <1>3. /\ Current \in Requests /\ Current[1] = cycle /\ cycle \in Cycles /\ cycle \in Int
        /\ batch[Current] = Bodies[cycle] /\ Current \in sensor_readings
    BY <1>1, CurrentType DEF Current, Cycles, ReplayTypeOK, SentInv, RowsFirst, Persisted
  <1>4. /\ StoredBehind' \in SUBSET Cycles /\ cycle \in StoredBehind'
        /\ StoredBehind' \ {cycle} = StoredBehind
    BY <1>1, <1>2, <1>3 DEF StoredBehind, StoredCycles, Cycles
  <1>5. /\ DoneBehind' \in SUBSET Counted /\ Current \in DoneBehind'
        /\ DoneBehind \in SUBSET (DoneBehind' \ {Current})
    BY <1>1, <1>2, <1>3, AttemptType DEF DoneBehind, Counted, Cycles
  <1>6. /\ Summable(BodySize, StoredBehind') /\ Summable(Readings, DoneBehind')
        /\ Summable(Readings, DoneBehind' \ {Current})
    BY <1>4, <1>5, BodiesSummable, BooksSummable, SummablePart DEF BookInv
  <1>7. /\ BodySize[cycle] = Len(Bodies[cycle]) /\ Readings[Current] = Len(Bodies[cycle])
    BY <1>3 DEF BodySize, Readings
  <1>8. /\ SumFunctionOnSet(BodySize, StoredBehind') =
               BodySize[cycle] + SumFunctionOnSet(BodySize, StoredBehind' \ {cycle})
        /\ BodySize[cycle] \in Nat /\ SumFunctionOnSet(BodySize, StoredBehind' \ {cycle}) \in Nat
    BY <1>4, <1>6, SumSplit
  <1>9. SumFunctionOnSet(BodySize, StoredBehind' \ {cycle}) = SumFunctionOnSet(BodySize, StoredBehind)
    BY <1>4, Zenon
  <1>10. /\ SumFunctionOnSet(Readings, DoneBehind') =
                Readings[Current] + SumFunctionOnSet(Readings, DoneBehind' \ {Current})
         /\ Readings[Current] \in Nat /\ SumFunctionOnSet(Readings, DoneBehind' \ {Current}) \in Nat
    BY <1>5, <1>6, SumSplit
  <1>11. /\ SumFunctionOnSet(Readings, DoneBehind) <=
                SumFunctionOnSet(Readings, DoneBehind' \ {Current})
         /\ SumFunctionOnSet(Readings, DoneBehind) \in Nat
    BY <1>5, <1>6, SumPart, SumType, SummablePart
  <1>12. total_sent \in Nat
    BY DEF ReplayTypeOK
  <1>13. total_sent' <= SumFunctionOnSet(BodySize, StoredBehind')
    BY <1>1, <1>7, <1>8, <1>9, <1>12 DEF SentInv
  <1>14. total_sent' <= SumFunctionOnSet(Readings, DoneBehind')
    BY <1>1, <1>7, <1>10, <1>11, <1>12 DEF SentInv
  <1> QED
    BY <1>2, <1>13, <1>14 DEF SentInv, RowsFirst, BodySize

\* No exception is mistaken for a success: what the producer counts as sent
\* is stored, and counted by the application unless that has crashed.
THEOREM SentIsStoredCorrect == ReplaySpec => []SentIsStored
  <1>1. ReplayInit => SentInv
    <2> SUFFICES ASSUME ReplayInit PROVE SentInv
      OBVIOUS
    <2>1. StoredBehind = {} /\ DoneBehind = {} /\ total_sent = 0 /\ RowsFirst
      BY DEF ReplayInit, Init, StoredBehind, StoredCycles, DoneBehind, RowsFirst, Persisted
    <2>2. SumFunctionOnSet(BodySize, {}) = 0 /\ SumFunctionOnSet(Readings, {}) = 0
      BY SumEmpty
    <2>3. SumFunctionOnSet(BodySize, StoredBehind) = 0 /\ SumFunctionOnSet(Readings, DoneBehind) = 0
      BY <2>1, <2>2, Zenon
    <2> QED
      BY <2>1, <2>3 DEF SentInv
  <1>2. PathInv /\ PathInv' /\ ReplayTypeOK /\ ReplayTypeOK' /\ SentInv /\ [ReplayNext]_replayVars
        => SentInv'
    <2> SUFFICES ASSUME PathInv, PathInv', ReplayTypeOK, ReplayTypeOK', SentInv,
                        [ReplayNext]_replayVars
                 PROVE  SentInv'
      OBVIOUS
    <2>1. CASE Succeed
      BY <2>1, SentSucceed DEF PathInv
    <2>2. CASE ~Succeed
      <3>1. total_sent' = total_sent /\ (cycle' = cycle \/ cycle' = cycle + 1)
        BY <2>2 DEF ReplayNext, Produce, Post, Retry, CountError, NextCycle, Serve, Complete,
                    replayVars, producerVars, countVars
      <3>2. cycle' >= cycle
        BY <3>1, ReplayAssumption DEF ReplayTypeOK
      <3> QED
        BY <3>1, <3>2, ReplayStep, SentSame DEF PathInv
    <2> QED
      BY <2>1, <2>2
  <1>3. PathInv /\ ReplayTypeOK /\ SentInv => SentIsStored
    <2> SUFFICES ASSUME PathInv, ReplayTypeOK, SentInv PROVE SentIsStored
      OBVIOUS
    <2>1. StoredBehind \in SUBSET StoredCycles /\ StoredCycles \in SUBSET Cycles
      BY DEF StoredBehind, StoredCycles
    <2>2. /\ SumFunctionOnSet(BodySize, StoredBehind) <= SumFunctionOnSet(BodySize, StoredCycles)
          /\ SumFunctionOnSet(BodySize, StoredBehind) \in Nat
          /\ SumFunctionOnSet(BodySize, StoredCycles) \in Nat
      BY <2>1, BodiesSummable, SumPart, SumType
    <2>3. DoneBehind \in SUBSET Counted
      BY DEF DoneBehind, Counted
    <2>4. /\ SumFunctionOnSet(Readings, DoneBehind) <= SumFunctionOnSet(Readings, Counted)
          /\ SumFunctionOnSet(Readings, DoneBehind) \in Nat
          /\ SumFunctionOnSet(Readings, Counted) \in Nat
      BY <2>3, BooksSummable, SumPart, SumType, SummablePart DEF PathInv, BookInv
    <2>5. total_sent <= SumFunctionOnSet(BodySize, StoredCycles)
      BY <2>2 DEF SentInv, ReplayTypeOK
    <2>6. restarts = 0 => total_sent <= metrics.total_readings
      BY <2>4, BookNumbers DEF SentInv, ReplayTypeOK, PathInv, BookInv, ReadingsCounted
    <2> QED
      BY <2>5, <2>6, Zenon DEF SentIsStored, BodySize
  <1> QED
    BY <1>1, <1>2, <1>3, ReplayPath, ReplayTypeCorrect, PTL DEF ReplaySpec
=============================================================================
