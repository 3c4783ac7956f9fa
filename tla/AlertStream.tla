---------------------------- MODULE AlertStream ----------------------------
(***************************************************************************)
(* GET /api/v1/alerts/stream: app/api/alerts.py and the subscriber side of *)
(* app/services/alert_publisher.py, for one client.  Streams share nothing *)
(* but the channel: each has its own queue, reader task and Redis          *)
(* subscription.                                                           *)
(*                                                                         *)
(* Time is counted in ticks, by timers that run in the stream.  The loop   *)
(* is prompt: no time passes while one of its callbacks is ready, and the  *)
(* client takes every frame at once.                                       *)
(***************************************************************************)
EXTENDS Integers, Sequences, SequencesExt

CONSTANTS
    Heartbeat,            \* _HEARTBEAT_INTERVAL, in ticks
    MinWait,              \* the least timeout of the wait (0.1 s), in ticks
    MaxAlerts             \* bound on the alerts of a behaviour

ASSUME StreamAssumption ==
    /\ Heartbeat \in Nat /\ MinWait \in 1 .. Heartbeat
    /\ MaxAlerts \in Nat

VARIABLES
    published,   \* alerts in the order Redis accepted them: TRUE if the
                 \* subscriber can parse the payload
    generator,   \* "new", "waiting" in wait_for, "looping" or "closed"
    reader,      \* "none", "subscribing", "listening", "dead" or "cancelled"
    start,       \* Len(published) when Redis executed the SUBSCRIBE
    cursor,      \* how much of published the reader has taken
    alert_queue, \* asyncio.Queue: positions in published
    sent,        \* positions in published, as the client got their alerts
    toDeadline,  \* ticks until heartbeat_deadline, negative once it is past
    toTimeout,   \* ticks until the wait times out
    sinceFrame,  \* ticks since the client got a frame of any kind
    sinceBeat    \* ticks since the client got a heartbeat

readerVars == <<reader, start, cursor>>
timerVars == <<toDeadline, toTimeout, sinceFrame, sinceBeat>>
vars == <<published, generator, readerVars, alert_queue, sent, timerVars>>

Init ==
    /\ published = <<>>
    /\ generator = "new" /\ reader = "none"
    /\ start = 0 /\ cursor = 0
    /\ alert_queue = <<>> /\ sent = <<>>
    /\ toDeadline = 0 /\ toTimeout = 0 /\ sinceFrame = 0 /\ sinceBeat = 0

Open == generator \in {"waiting", "looping"}

\* AlertPublisher.publish of any request.  An alert whose error is infinite
\* has null in its JSON, which model_validate_json refuses.
Publish(readable) ==
    /\ Len(published) < MaxAlerts
    /\ published' = Append(published, readable)
    /\ UNCHANGED <<generator, readerVars, alert_queue, sent, timerVars>>

\* The generator starts: the reader task, the first heartbeat, the deadline.
Begin ==
    /\ generator = "new"
    /\ generator' = "looping" /\ reader' = "subscribing"
    /\ toDeadline' = Heartbeat /\ sinceFrame' = 0 /\ sinceBeat' = 0
    /\ UNCHANGED <<published, start, cursor, alert_queue, sent, toTimeout>>

\* Redis executes the SUBSCRIBE: what was published before is not delivered.
Subscribe ==
    /\ reader = "subscribing"
    /\ reader' = "listening"
    /\ start' = Len(published) /\ cursor' = Len(published)
    /\ UNCHANGED <<published, generator, alert_queue, sent, timerVars>>

\* The reader takes the next message; one it cannot parse is logged and dropped.
Take ==
    /\ reader = "listening" /\ cursor < Len(published)
    /\ cursor' = cursor + 1
    /\ alert_queue' = IF published[cursor + 1] THEN Append(alert_queue, cursor + 1)
                                               ELSE alert_queue
    /\ UNCHANGED <<published, generator, reader, start, sent, timerVars>>

\* The connection to Redis breaks: the exception ends the reader task, and
\* nobody looks at the task again.
ReaderDies ==
    /\ reader \in {"subscribing", "listening"}
    /\ reader' = "dead"
    /\ UNCHANGED <<published, generator, start, cursor, alert_queue, sent, timerVars>>

\* Mutant: the deadline taken for a duration.
AwaitWholeDeadline ==
    /\ generator = "looping"
    /\ generator' = "waiting"
    /\ toTimeout' = toDeadline + Heartbeat
    /\ UNCHANGED <<published, readerVars, alert_queue, sent, toDeadline, sinceFrame, sinceBeat>>

\* The client is there: wait for an alert until the deadline, MinWait at least.
Await ==
    /\ generator = "looping"
    /\ generator' = "waiting"
    /\ toTimeout' = IF toDeadline > MinWait THEN toDeadline ELSE MinWait
    /\ UNCHANGED <<published, readerVars, alert_queue, sent, toDeadline, sinceFrame, sinceBeat>>

\* Mutant: the newest alert is sent first.
SendNewest ==
    /\ generator = "waiting" /\ alert_queue # <<>>
    /\ generator' = "looping"
    /\ sent' = Append(sent, Last(alert_queue)) /\ alert_queue' = Front(alert_queue)
    /\ sinceFrame' = 0
    /\ UNCHANGED <<published, readerVars, toDeadline, toTimeout, sinceBeat>>

\* The queue has an alert: it goes to the client.
SendAlert ==
    /\ generator = "waiting" /\ alert_queue # <<>>
    /\ generator' = "looping"
    /\ sent' = Append(sent, Head(alert_queue)) /\ alert_queue' = Tail(alert_queue)
    /\ sinceFrame' = 0
    /\ UNCHANGED <<published, readerVars, toDeadline, toTimeout, sinceBeat>>

\* Mutant: an alert that arrives as the wait times out is lost with it.
BeatLosesAlert ==
    /\ generator = "waiting" /\ toTimeout = 0
    /\ generator' = "looping"
    /\ alert_queue' = IF alert_queue = <<>> THEN <<>> ELSE Tail(alert_queue)
    /\ toDeadline' = Heartbeat /\ sinceFrame' = 0 /\ sinceBeat' = 0
    /\ UNCHANGED <<published, readerVars, sent, toTimeout>>

\* TimeoutError: a heartbeat, and a new deadline.  An alert that is put at this
\* very moment stays in the queue.
Beat ==
    /\ generator = "waiting" /\ toTimeout = 0
    /\ generator' = "looping"
    /\ toDeadline' = Heartbeat /\ sinceFrame' = 0 /\ sinceBeat' = 0
    /\ UNCHANGED <<published, readerVars, alert_queue, sent, toTimeout>>

\* Mutant: the reader task is not cancelled.
CloseLeaksReader ==
    /\ Open
    /\ generator' = "closed"
    /\ UNCHANGED <<published, readerVars, alert_queue, sent, timerVars>>

\* The client is gone, or the response is cancelled: the finally clause.
Close ==
    /\ Open
    /\ generator' = "closed"
    /\ reader' = IF reader = "dead" THEN "dead" ELSE "cancelled"
    /\ UNCHANGED <<published, start, cursor, alert_queue, sent, timerVars>>

\* A tick while nothing is ready.
Tick ==
    /\ generator = "waiting" /\ alert_queue = <<>> /\ toTimeout > 0
    /\ toTimeout' = toTimeout - 1 /\ toDeadline' = toDeadline - 1
    /\ sinceFrame' = sinceFrame + 1 /\ sinceBeat' = sinceBeat + 1
    /\ UNCHANGED <<published, generator, readerVars, alert_queue, sent>>

\* The stream is over.
Ended == generator = "closed" /\ Len(published) = MaxAlerts /\ UNCHANGED vars

Loop == Await \/ SendAlert \/ Beat

Next ==
    \/ \E readable \in BOOLEAN : Publish(readable)
    \/ Begin \/ Subscribe \/ Take \/ ReaderDies
    \/ Loop \/ Close \/ Tick
    \/ Ended

\* Time passes, the generator and the reader task run when they are ready,
\* and Redis answers the SUBSCRIBE.
Fairness == WF_vars(Loop) /\ WF_vars(Take) /\ WF_vars(Subscribe) /\ WF_vars(Tick)

Spec == Init /\ [][Next]_vars /\ Fairness

-----------------------------------------------------------------------------
\* The type of every variable; no subscription outlives its stream.
TypeOK ==
    /\ published \in Seq(BOOLEAN) /\ Len(published) <= MaxAlerts
    /\ generator \in {"new", "looping", "waiting", "closed"}
    /\ reader \in {"none", "subscribing", "listening", "dead", "cancelled"}
    /\ reader = "none" <=> generator = "new"
    /\ reader = "cancelled" => generator = "closed"
    /\ generator = "closed" => reader \in {"dead", "cancelled"}
    /\ start \in 0 .. cursor /\ cursor \in 0 .. Len(published)
    /\ alert_queue \in Seq(1 .. MaxAlerts) /\ sent \in Seq(1 .. MaxAlerts)
    /\ toDeadline \in Int /\ toTimeout \in Nat
    /\ sinceFrame \in Nat /\ sinceBeat \in Nat

\* What the client got and what is still queued are, in their order, the alerts
\* that the reader has taken since it subscribed, without those it could not
\* parse: nothing is lost, repeated or reordered on the way through the queue
\* and its timeouts.
StreamIsTaken ==
    LET Taken == sent \o alert_queue
    IN  /\ \A i, j \in 1 .. Len(Taken) : i < j => Taken[i] < Taken[j]
        /\ ToSet(Taken) = {k \in start + 1 .. cursor : published[k]}

\* An open stream is never silent for longer than the heartbeat interval,
\* alive or dead as its reader may be: the proxies between keep it open.
NeverSilent == Open => sinceFrame <= Heartbeat

\* One stream is one subscriber of the alert feed.
Feed == INSTANCE AlertFeed WITH Alerts <- BOOLEAN, received <- sent
FeedSpec == Feed!Spec

\* An alert that comes after the subscription reaches the client, as long as
\* the reader lives and the client stays.
AlertsArrive ==
    \A k \in 1 .. MaxAlerts :
        (reader = "listening" /\ k > start /\ k <= Len(published) /\ published[k])
            ~> (k \in ToSet(sent) \/ reader # "listening")

\* alerts.py: "Emits a heartbeat every 15s".  A heartbeat may come late by
\* the least timeout of the wait.
HeartbeatOnTime == Open => sinceBeat <= Heartbeat + MinWait

\* alerts.py: "Emits ... an 'alert' event for each anomaly".  An anomaly that is
\* published while the stream is subscribed gets its event before the stream
\* ends.
EveryAnomalyStreamed ==
    \A k \in 1 .. MaxAlerts :
        (reader = "listening" /\ k > start /\ k <= Len(published))
            ~> (k \in ToSet(sent) \/ generator = "closed")
=============================================================================
