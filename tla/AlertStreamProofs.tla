------------------------- MODULE AlertStreamProofs -------------------------
(***************************************************************************)
(* Theorems about AlertStream, for every interval, every least wait and any *)
(* number of alerts.                                                       *)
(***************************************************************************)
EXTENDS AlertStream, SequenceTheorems, TLAPS

-----------------------------------------------------------------------------
(* Sequences.                                                              *)

LEMMA HeadTail ==
    ASSUME NEW S, NEW s \in Seq(S), s # <<>>
    PROVE  /\ Head(s) \in S /\ Head(s) = s[1] /\ Tail(s) \in Seq(S)
           /\ Len(s) \in Nat \ {0} /\ Len(Tail(s)) = Len(s) - 1
           /\ \A k \in 1 .. Len(Tail(s)) : Tail(s)[k] = s[k + 1]
  OBVIOUS

\* The head of a queue goes to the end of what was sent before it.
LEMMA MoveHead ==
    ASSUME NEW S, NEW s \in Seq(S), NEW q \in Seq(S), q # <<>>
    PROVE  Append(s, Head(q)) \o Tail(q) = s \o q
  <1> DEFINE a == Append(s, Head(q))
             t == Tail(q)
  <1>1. /\ a \in Seq(S) /\ t \in Seq(S) /\ Len(a) = Len(s) + 1 /\ Len(t) = Len(q) - 1
        /\ Len(s) \in Nat /\ Len(q) \in Nat \ {0}
        /\ \A k \in 1 .. Len(s) : a[k] = s[k]
        /\ a[Len(s) + 1] = q[1]
        /\ \A k \in 1 .. Len(t) : t[k] = q[k + 1]
    BY HeadTail
  <1> HIDE DEF a, t
  <1>2. /\ a \o t \in Seq(S) /\ s \o q \in Seq(S)
        /\ Len(a \o t) = Len(s) + Len(q) /\ Len(s \o q) = Len(s) + Len(q)
        /\ \A k \in 1 .. Len(s) + Len(q) :
              /\ (a \o t)[k] = IF k <= Len(s) + 1 THEN a[k] ELSE t[k - (Len(s) + 1)]
              /\ (s \o q)[k] = IF k <= Len(s) THEN s[k] ELSE q[k - Len(s)]
    <2>1. Len(a) + Len(t) = Len(s) + Len(q)
      BY <1>1
    <2>2. /\ a \o t \in Seq(S) /\ Len(a \o t) = Len(a) + Len(t)
          /\ \A k \in 1 .. Len(a) + Len(t) :
                (a \o t)[k] = IF k <= Len(a) THEN a[k] ELSE t[k - Len(a)]
      BY <1>1, ConcatProperties
    <2>3. /\ s \o q \in Seq(S) /\ Len(s \o q) = Len(s) + Len(q)
          /\ \A k \in 1 .. Len(s) + Len(q) :
                (s \o q)[k] = IF k <= Len(s) THEN s[k] ELSE q[k - Len(s)]
      BY ConcatProperties
    <2>4. Len(a) = Len(s) + 1
      BY <1>1
    <2> QED
      BY <2>1, <2>2, <2>3, <2>4, Zenon
  <1>3. ASSUME NEW k \in 1 .. Len(s) + Len(q) PROVE (a \o t)[k] = (s \o q)[k]
    <2>1. CASE k <= Len(s)
      BY <1>1, <1>2, <2>1
    <2>2. CASE k = Len(s) + 1
      BY <1>1, <1>2, <2>2
    <2>3. CASE k > Len(s) + 1
      <3>1. k - (Len(s) + 1) \in 1 .. Len(t) /\ k - (Len(s) + 1) + 1 = k - Len(s)
        BY <1>1, <2>3
      <3>2. t[k - (Len(s) + 1)] = q[k - Len(s)]
        BY <1>1, <3>1
      <3> QED
        BY <1>1, <1>2, <2>3, <3>2
    <2> QED
      BY <1>1, <2>1, <2>2, <2>3
  <1>4. a \o t = s \o q
    BY <1>2, <1>3, SeqEqual
  <1> QED
    BY <1>4 DEF a, t

-----------------------------------------------------------------------------
(* Types.                                                                  *)

LEMMA TypeInit == Init => TypeOK
  BY StreamAssumption DEF Init, TypeOK

LEMMA TypeNext == TypeOK /\ [Next]_vars => TypeOK'
  <1> SUFFICES ASSUME TypeOK, [Next]_vars PROVE TypeOK'
    OBVIOUS
  <1> USE StreamAssumption DEF TypeOK
  <1>1. ASSUME NEW readable \in BOOLEAN, Publish(readable) PROVE TypeOK'
    <2>1. published' \in Seq(BOOLEAN) /\ Len(published') = Len(published) + 1
      BY <1>1 DEF Publish
    <2> QED
      BY <1>1, <2>1 DEF Publish, readerVars, timerVars
  <1>2. CASE Begin
    BY <1>2 DEF Begin
  <1>3. CASE Subscribe
    BY <1>3 DEF Subscribe, timerVars
  <1>4. CASE Take
    <2>1. cursor + 1 \in 1 .. MaxAlerts /\ cursor + 1 <= Len(published)
      BY <1>4 DEF Take
    <2>2. alert_queue' \in {alert_queue, Append(alert_queue, cursor + 1)}
      BY <1>4, Zenon DEF Take
    <2>3. alert_queue' \in Seq(1 .. MaxAlerts)
      <3>1. alert_queue \in Seq(1 .. MaxAlerts)
        OBVIOUS
      <3>2. Append(alert_queue, cursor + 1) \in Seq(1 .. MaxAlerts)
        BY <2>1, <3>1, AppendProperties
      <3> QED
        BY <2>2, <3>1, <3>2, Zenon
    <2> QED
      BY <1>4, <2>1, <2>3 DEF Take, timerVars
  <1>5. CASE ReaderDies
    BY <1>5 DEF ReaderDies, timerVars
  <1>6. CASE Await
    BY <1>6 DEF Await, readerVars
  <1>7. CASE SendAlert
    <2>1. Head(alert_queue) \in 1 .. MaxAlerts /\ Tail(alert_queue) \in Seq(1 .. MaxAlerts)
      BY <1>7, HeadTail DEF SendAlert
    <2> QED
      BY <1>7, <2>1 DEF SendAlert, readerVars
  <1>8. CASE Beat
    BY <1>8 DEF Beat, readerVars
  <1>9. CASE Close
    BY <1>9 DEF Close, Open, timerVars
  <1>10. CASE Tick
    BY <1>10 DEF Tick, readerVars
  <1>11. CASE UNCHANGED vars
    BY <1>11 DEF vars, readerVars, timerVars
  <1> QED
    BY <1>1, <1>2, <1>3, <1>4, <1>5, <1>6, <1>7, <1>8, <1>9, <1>10, <1>11
    DEF Next, Loop, Ended

\* The types, and that no subscription outlives its stream.
THEOREM StreamTypeCorrect == Spec => []TypeOK
  BY TypeInit, TypeNext, PTL DEF Spec

-----------------------------------------------------------------------------
(* The way of an alert through the queue.                                  *)

\* What the client got, followed by what is queued for it.
Got == sent \o alert_queue

\* Every alert that was taken is in Got, in order; before the subscription
\* there is none.
FlowInv ==
    /\ StreamIsTaken
    /\ reader \in {"none", "subscribing"} => cursor = start /\ Got = <<>>

LEMMA FlowForms ==
    StreamIsTaken <=> /\ \A i, j \in 1 .. Len(Got) : i < j => Got[i] < Got[j]
                      /\ ToSet(Got) = {k \in start + 1 .. cursor : published[k]}
  BY DEF StreamIsTaken, Got

LEMMA GotType == TypeOK => Got \in Seq(1 .. MaxAlerts) /\ Len(Got) = Len(sent) + Len(alert_queue)
  BY ConcatProperties DEF TypeOK, Got

LEMMA EnqueueAtEnd ==
    ASSUME NEW S, NEW s \in Seq(S), NEW q \in Seq(S), NEW e \in S
    PROVE  s \o Append(q, e) = Append(s \o q, e)
  <1>1. Append(q, e) = q \o <<e>> /\ Append(s \o q, e) = (s \o q) \o <<e>>
    BY ConcatProperties, AppendIsConcat
  <1>2. <<e>> \in Seq(S)
    OBVIOUS
  <1> QED
    BY <1>1, <1>2, ConcatAssociative

LEMMA FlowNext ==
    ASSUME TypeOK, TypeOK', FlowInv, [Next]_vars
    PROVE  FlowInv'
  <1>0. /\ Got \in Seq(1 .. MaxAlerts) /\ published \in Seq(BOOLEAN)
        /\ \A i, j \in 1 .. Len(Got) : i < j => Got[i] < Got[j]
        /\ ToSet(Got) = {k \in start + 1 .. cursor : published[k]}
        /\ start \in 0 .. cursor /\ cursor \in 0 .. Len(published) /\ Len(published) \in Nat
    <2>1. Got \in Seq(1 .. MaxAlerts)
      BY GotType
    <2>2. StreamIsTaken
      BY DEF FlowInv
    <2>3. /\ \A i, j \in 1 .. Len(Got) : i < j => Got[i] < Got[j]
          /\ ToSet(Got) = {k \in start + 1 .. cursor : published[k]}
      BY <2>2, FlowForms
    <2>4. /\ published \in Seq(BOOLEAN) /\ Len(published) \in Nat
          /\ start \in 0 .. cursor /\ cursor \in 0 .. Len(published)
      BY LenProperties DEF TypeOK
    <2> QED
      BY <2>1, <2>3, <2>4
  <1>1. ASSUME NEW readable \in BOOLEAN, Publish(readable)
        PROVE  FlowInv'
    <2>1. UNCHANGED <<Got, start, cursor, reader>>
      BY <1>1 DEF Publish, Got, readerVars
    <2>2. \A k \in start + 1 .. cursor : k \in 1 .. Len(published)
      BY <1>0
    <2>3. \A k \in start + 1 .. cursor : published'[k] = published[k]
      BY <1>0, <1>1, <2>2, AppendProperties DEF Publish
    <2>4. {k \in start + 1 .. cursor : published'[k]} = {k \in start + 1 .. cursor : published[k]}
      BY <2>3, Zenon
    <2> QED
      BY <1>0, <2>1, <2>4 DEF FlowInv, StreamIsTaken, Got
  <1>2. CASE Begin
    BY <1>2 DEF Begin, FlowInv, StreamIsTaken, Got, TypeOK
  <1>3. CASE Subscribe
    <2>1. Got' = <<>> /\ start' = cursor' /\ cursor' \in Nat /\ reader' = "listening"
      BY <1>0, <1>3 DEF Subscribe, FlowInv, Got
    <2>2. ToSet(Got') = {} /\ Len(Got') = 0
      BY <2>1 DEF ToSet
    <2>3. start' + 1 .. cursor' = {}
      <3>1. \A n \in Nat : n + 1 .. n = {}
        OBVIOUS
      <3> QED
        BY <2>1, <3>1
    <2> QED
      BY <2>1, <2>2, <2>3 DEF FlowInv, StreamIsTaken, Got
  <1>4. CASE Take
    <2>1. /\ reader' = reader /\ reader = "listening" /\ start' = start /\ cursor' = cursor + 1
          /\ published' = published /\ cursor + 1 \in 1 .. MaxAlerts
      <3>1. cursor + 1 <= Len(published) /\ Len(published) <= MaxAlerts /\ MaxAlerts \in Nat
        BY <1>0, <1>4, StreamAssumption DEF Take, TypeOK
      <3> QED
        BY <1>0, <1>4, <3>1 DEF Take
    <2>4. start + 1 .. cursor + 1 = (start + 1 .. cursor) \cup {cursor + 1}
      <3>1. \A a, b \in Nat : a <= b => a + 1 .. b + 1 = (a + 1 .. b) \cup {b + 1}
        OBVIOUS
      <3>2. start \in Nat /\ cursor \in Nat /\ start <= cursor
        BY <1>0
      <3> QED
        BY <3>1, <3>2
    <2>2. CASE published[cursor + 1]
      <3>1. Got' = Append(Got, cursor + 1)
        <4>1. sent' = sent /\ alert_queue' = Append(alert_queue, cursor + 1)
          BY <1>4, <2>2 DEF Take
        <4>2. sent \in Seq(1 .. MaxAlerts) /\ alert_queue \in Seq(1 .. MaxAlerts)
          BY DEF TypeOK
        <4> QED
          BY <2>1, <4>1, <4>2, EnqueueAtEnd DEF Got
      <3>2. /\ Len(Got') = Len(Got) + 1 /\ Got'[Len(Got) + 1] = cursor + 1
            /\ \A i \in 1 .. Len(Got) : Got'[i] = Got[i]
            /\ Len(Got) \in Nat /\ DOMAIN Got = 1 .. Len(Got) /\ DOMAIN Got' = 1 .. Len(Got')
        BY <1>0, <2>1, <3>1, AppendProperties, LenProperties
      <3>3. ToSet(Got') = ToSet(Got) \cup {cursor + 1}
        BY <3>2 DEF ToSet
      <3>4. \A i \in 1 .. Len(Got) : Got[i] \in Nat /\ Got[i] < cursor + 1
        <4>1. \A i \in 1 .. Len(Got) : Got[i] \in ToSet(Got)
          BY <3>2 DEF ToSet
        <4> QED
          BY <1>0, <4>1
      <3>5. \A i, j \in 1 .. Len(Got') : i < j => Got'[i] < Got'[j]
        <4>1. ASSUME NEW i \in 1 .. Len(Got'), NEW j \in 1 .. Len(Got'), i < j
              PROVE  Got'[i] < Got'[j]
          <5>1. i \in 1 .. Len(Got) /\ (j \in 1 .. Len(Got) \/ j = Len(Got) + 1)
            BY <3>2, <4>1
          <5>2. Got'[i] = Got[i] /\ Got[i] < cursor + 1
            BY <3>2, <3>4, <5>1
          <5> QED
            BY <1>0, <3>2, <4>1, <5>1, <5>2
        <4> QED
          BY <4>1
      <3>6. {k \in start + 1 .. cursor + 1 : published[k]} =
                {k \in start + 1 .. cursor : published[k]} \cup {cursor + 1}
        BY <2>2, <2>4, Zenon
      <3> QED
        BY <1>0, <2>1, <3>3, <3>5, <3>6 DEF FlowInv, StreamIsTaken, Got
    <2>3. CASE ~published[cursor + 1]
      <3>1. Got' = Got
        BY <1>4, <2>3 DEF Take, Got
      <3>2. {k \in start + 1 .. cursor + 1 : published[k]} =
                {k \in start + 1 .. cursor : published[k]}
        BY <2>3, <2>4, Zenon
      <3> QED
        BY <1>0, <2>1, <3>1, <3>2 DEF FlowInv, StreamIsTaken, Got
    <2> QED
      BY <2>2, <2>3
  <1>5. CASE SendAlert
    <2>1. Got' = Got
      BY <1>5, MoveHead DEF SendAlert, Got, TypeOK
    <2> QED
      BY <1>0, <1>5, <2>1 DEF SendAlert, readerVars, FlowInv, StreamIsTaken, Got
  <1>6. CASE ReaderDies \/ Close \/ Await \/ Beat \/ Tick \/ UNCHANGED vars
    <2>1. /\ UNCHANGED <<Got, start, cursor, published>>
          /\ reader' \in {"none", "subscribing"} => reader \in {"none", "subscribing"}
      BY <1>6 DEF ReaderDies, Close, Await, Beat, Tick, vars, readerVars, timerVars, Got
    <2> QED
      BY <1>0, <2>1 DEF FlowInv, StreamIsTaken, Got
  <1> QED
    BY <1>1, <1>2, <1>3, <1>4, <1>5, <1>6 DEF Next, Loop, Ended

LEMMA FlowCorrect == Spec => []FlowInv
  <1>1. Init => FlowInv
    <2> SUFFICES ASSUME Init PROVE FlowInv
      OBVIOUS
    <2>1. Got = <<>> /\ start = 0 /\ cursor = 0
      BY DEF Init, Got
    <2>2. ToSet(Got) = {} /\ Len(Got) = 0 /\ 1 .. 0 = {}
      BY <2>1 DEF ToSet
    <2> QED
      BY <2>1, <2>2, FlowForms DEF FlowInv
  <1>2. TypeOK /\ TypeOK' /\ FlowInv /\ [Next]_vars => FlowInv'
    BY FlowNext
  <1> QED
    BY <1>1, <1>2, StreamTypeCorrect, PTL DEF Spec

\* Nothing is lost, repeated or reordered between the subscription and the
\* client.
THEOREM StreamIsTakenCorrect == Spec => []StreamIsTaken
  <1>1. FlowInv => StreamIsTaken
    BY DEF FlowInv
  <1> QED
    BY <1>1, FlowCorrect, PTL

-----------------------------------------------------------------------------
(* Silence.                                                                *)

\* The deadline is never more than an interval away, no time passes between a
\* frame and the next wait, and the wait ends within the interval.
QuietInv ==
    /\ Open => toDeadline <= Heartbeat
    /\ generator = "looping" => sinceFrame = 0
    /\ generator = "waiting" => sinceFrame + toTimeout <= Heartbeat

LEMMA QuietNext == TypeOK /\ QuietInv /\ [Next]_vars => QuietInv'
  <1> SUFFICES ASSUME TypeOK, QuietInv, [Next]_vars PROVE QuietInv'
    OBVIOUS
  <1>0. /\ Heartbeat \in Nat /\ MinWait \in Nat /\ MinWait <= Heartbeat
        /\ toDeadline \in Int /\ toTimeout \in Nat /\ sinceFrame \in Nat
    BY StreamAssumption DEF TypeOK
  <1>1. CASE Begin \/ Beat
    BY <1>0, <1>1 DEF Begin, Beat, QuietInv, Open
  <1>2. CASE Await
    BY <1>0, <1>2 DEF Await, QuietInv, Open
  <1>3. CASE SendAlert
    BY <1>0, <1>3 DEF SendAlert, QuietInv, Open
  <1>4. CASE Tick
    BY <1>0, <1>4 DEF Tick, QuietInv, Open
  <1>5. CASE Close
    BY <1>5 DEF Close, QuietInv, Open
  <1>6. CASE UNCHANGED <<generator, timerVars>>
    BY <1>6 DEF timerVars, QuietInv, Open
  <1> QED
    BY <1>1, <1>2, <1>3, <1>4, <1>5, <1>6
    DEF Next, Loop, Ended, Publish, Subscribe, Take, ReaderDies, vars

\* An open stream sends a frame at least every heartbeat interval.
THEOREM NeverSilentCorrect == Spec => []NeverSilent
  <1>1. Init => QuietInv
    BY DEF Init, QuietInv, Open
  <1>2. TypeOK /\ QuietInv => NeverSilent
    BY StreamAssumption DEF TypeOK, QuietInv, NeverSilent, Open
  <1> QED
    BY <1>1, <1>2, QuietNext, StreamTypeCorrect, PTL DEF Spec

-----------------------------------------------------------------------------
(* The abstract feed.                                                      *)

\* What is at the head of the queue is newer than all that was sent.
LEMMA HeadIsNext ==
    ASSUME TypeOK, FlowInv, alert_queue # <<>>
    PROVE  Head(alert_queue) \in Feed!Newest + 1 .. Len(published)
  <1>0. /\ sent \in Seq(1 .. MaxAlerts) /\ alert_queue \in Seq(1 .. MaxAlerts)
        /\ Len(sent) \in Nat /\ Len(alert_queue) \in Nat \ {0}
        /\ cursor \in 0 .. Len(published) /\ start \in 0 .. cursor /\ Len(published) \in Nat
    BY HeadTail DEF TypeOK
  <1> DEFINE n == Len(sent) + 1
  <1>1. /\ n \in 1 .. Len(Got) /\ Got[n] = Head(alert_queue)
        /\ \A k \in 1 .. Len(sent) : Got[k] = sent[k]
    <2>1. \A k \in 1 .. Len(sent) + Len(alert_queue) :
            Got[k] = IF k <= Len(sent) THEN sent[k] ELSE alert_queue[k - Len(sent)]
      BY <1>0, ConcatProperties DEF Got
    <2>2. Head(alert_queue) = alert_queue[1] /\ Len(Got) = Len(sent) + Len(alert_queue)
      BY <1>0, HeadTail, GotType
    <2>3. n \in 1 .. Len(sent) + Len(alert_queue) /\ ~(n <= Len(sent)) /\ n - Len(sent) = 1
      BY <1>0
    <2>4. \A k \in 1 .. Len(sent) : k \in 1 .. Len(sent) + Len(alert_queue) /\ k <= Len(sent)
      BY <1>0
    <2> QED
      BY <2>1, <2>2, <2>3, <2>4
  <1>2. Head(alert_queue) \in 1 .. Len(published)
    <2>1. DOMAIN Got = 1 .. Len(Got)
      BY GotType, LenProperties
    <2>2. Got[n] \in ToSet(Got)
      BY <1>1, <2>1 DEF ToSet
    <2> QED
      BY <1>0, <1>1, <2>2, FlowForms DEF FlowInv
  <1>3. CASE sent = <<>>
    BY <1>0, <1>2, <1>3 DEF Feed!Newest
  <1>4. CASE sent # <<>>
    <2>1. Len(sent) \in 1 .. Len(Got) /\ Len(sent) \in 1 .. Len(sent) /\ Len(sent) < n
      BY <1>0, <1>1, <1>4, EmptySeq
    <2>2. sent[Len(sent)] < Head(alert_queue) /\ sent[Len(sent)] \in 1 .. MaxAlerts
      <3>1. Got[Len(sent)] < Got[n]
        BY <1>1, <2>1, FlowForms DEF FlowInv
      <3>2. sent[Len(sent)] \in 1 .. MaxAlerts
        BY <1>0, <2>1, ElementOfSeq
      <3> QED
        BY <1>1, <2>1, <3>1, <3>2
    <2> QED
      BY <1>0, <1>2, <1>4, <2>2 DEF Feed!Newest
  <1> QED
    BY <1>3, <1>4

\* Sending is delivering, publishing is publishing, and nothing else is
\* visible to the feed.
THEOREM ImplementsAlertFeed == Spec => FeedSpec
  <1>1. Init => Feed!Init
    BY DEF Init, Feed!Init
  <1>2. TypeOK /\ FlowInv /\ [Next]_vars => [Feed!Next]_(Feed!feedVars)
    <2> SUFFICES ASSUME TypeOK, FlowInv, [Next]_vars PROVE [Feed!Next]_(Feed!feedVars)
      OBVIOUS
    <2>1. ASSUME NEW readable \in BOOLEAN, Publish(readable) PROVE Feed!Publish
      BY <2>1 DEF Publish, Feed!Publish
    <2>2. CASE SendAlert
      BY <2>2, HeadIsNext DEF SendAlert, Feed!Next, Feed!Deliver
    <2>3. CASE UNCHANGED <<published, sent>>
      BY <2>3 DEF Feed!feedVars
    <2> QED
      BY <2>1, <2>2, <2>3
      DEF Next, Loop, Ended, Begin, Subscribe, Take, ReaderDies, Await, Beat, Close, Tick, vars,
          Feed!Next
  <1> QED
    BY <1>1, <1>2, StreamTypeCorrect, FlowCorrect, PTL DEF Spec, FeedSpec, Feed!Spec
=============================================================================
