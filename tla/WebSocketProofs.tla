-------------------------- MODULE WebSocketProofs --------------------------
(***************************************************************************)
(* Theorems about WebSocketFanout, for every set of connections, engines   *)
(* and filters, every size of the queues and any number of alerts.         *)
(***************************************************************************)
EXTENDS WebSocketFanout, SequenceTheorems, TLAPS

-----------------------------------------------------------------------------
(* Queues.                                                                 *)

LEMMA QueueAppend ==
    ASSUME NEW q \in Seq(Frame), NEW f \in Frame
    PROVE  /\ Append(q, f) \in Seq(Frame) /\ Len(Append(q, f)) = Len(q) + 1 /\ Len(q) \in Nat
           /\ \A k \in 1 .. Len(q) : Append(q, f)[k] = q[k]
           /\ Append(q, f)[Len(q) + 1] = f
           /\ ToSet(Append(q, f)) = ToSet(q) \cup {f}
  <1>1. /\ Append(q, f) \in Seq(Frame) /\ Len(Append(q, f)) = Len(q) + 1 /\ Len(q) \in Nat
        /\ \A k \in 1 .. Len(q) : Append(q, f)[k] = q[k]
        /\ Append(q, f)[Len(q) + 1] = f
        /\ DOMAIN q = 1 .. Len(q) /\ DOMAIN Append(q, f) = 1 .. Len(q) + 1
    BY AppendProperties, LenProperties
  <1> QED
    BY <1>1 DEF ToSet

LEMMA QueueTail ==
    ASSUME NEW q \in Seq(Frame), q # <<>>
    PROVE  /\ Head(q) \in Frame /\ Head(q) = q[1] /\ Tail(q) \in Seq(Frame)
           /\ Len(q) \in Nat \ {0} /\ Len(Tail(q)) = Len(q) - 1
           /\ \A k \in 1 .. Len(Tail(q)) : Tail(q)[k] = q[k + 1]
           /\ ToSet(q) = {Head(q)} \cup ToSet(Tail(q))
  <1>1. /\ Head(q) \in Frame /\ Head(q) = q[1] /\ Tail(q) \in Seq(Frame)
        /\ Len(q) \in Nat \ {0} /\ Len(Tail(q)) = Len(q) - 1
        /\ \A k \in 1 .. Len(Tail(q)) : Tail(q)[k] = q[k + 1]
        /\ DOMAIN q = 1 .. Len(q) /\ DOMAIN Tail(q) = 1 .. Len(q) - 1
    BY HeadTailProperties, EmptySeq, LenProperties
  <1>2. \A k \in 1 .. Len(q) : k = 1 \/ (k - 1 \in 1 .. Len(Tail(q)) /\ Tail(q)[k - 1] = q[k])
    BY <1>1
  <1>3. \A k \in 1 .. Len(Tail(q)) : k + 1 \in 1 .. Len(q)
    BY <1>1
  <1>4. ToSet(q) \subseteq {Head(q)} \cup ToSet(Tail(q))
    <2>1. ASSUME NEW k \in 1 .. Len(q) PROVE q[k] \in {Head(q)} \cup ToSet(Tail(q))
      <3>1. CASE k = 1
        BY <1>1, <3>1
      <3>2. CASE k - 1 \in 1 .. Len(Tail(q)) /\ Tail(q)[k - 1] = q[k]
        BY <1>1, <3>2 DEF ToSet
      <3> QED
        BY <1>2, <3>1, <3>2
    <2> QED
      BY <1>1, <2>1 DEF ToSet
  <1>5. Head(q) \in ToSet(q) /\ ToSet(Tail(q)) \subseteq ToSet(q)
    BY <1>1, <1>3 DEF ToSet
  <1> QED
    BY <1>1, <1>4, <1>5

-----------------------------------------------------------------------------
(* Types.                                                                  *)

\* What a broadcast does to the queues: an alert nobody can parse changes none
\* of them, any other comes to the end of those it concerns that have room.
LEMMA BroadcastQueues ==
    ASSUME TypeOK, NEW r \in Clients, Relay(r)
    PROVE  LET k == cursor[r] + 1
               f == [alert |-> k, relay |-> r]
           IN  /\ k \in 1 .. Len(published) /\ f \in Frame
               /\ queue' = [c \in Clients |-> queue'[c]]
               /\ \A c \in Clients :
                     IF published[k] # Unreadable /\ Matches(r, c, published[k]) /\ ~Full(c)
                        THEN queue'[c] = Append(queue[c], f)
                        ELSE queue'[c] = queue[c]
               /\ selective \subseteq selective' /\ selective' \subseteq Clients
               /\ \A c \in Clients \ selective' :
                     published[k] # Unreadable /\ Matches(r, c, published[k]) => ~Full(c)
  <1> DEFINE k == cursor[r] + 1
             f == [alert |-> k, relay |-> r]
  <1>1. k \in 1 .. Len(published) /\ f \in Frame
    BY FanoutAssumption DEF TypeOK, Relay, Frame
  <1>2. CASE published[k] = Unreadable
    BY <1>1, <1>2 DEF Relay, TypeOK
  <1>3. CASE published[k] # Unreadable
    <2>1. Broadcast(r, k)
      BY <1>3 DEF Relay
    <2> QED
      BY <1>1, <1>3, <2>1 DEF Broadcast, Put, Concerned, TypeOK
  <1> QED
    BY <1>1, <1>2, <1>3

LEMMA TypeInit == Init => TypeOK
  BY FanoutAssumption DEF Init, TypeOK

LEMMA TypeNext == TypeOK /\ [Next]_vars => TypeOK'
  <1> SUFFICES ASSUME TypeOK, [Next]_vars PROVE TypeOK'
    OBVIOUS
  <1> USE FanoutAssumption DEF TypeOK
  <1>1. ASSUME NEW alert \in Engines \cup {Unreadable}, Publish(alert) PROVE TypeOK'
    <2>1. published' \in Seq(Engines \cup {Unreadable}) /\ Len(published') = Len(published) + 1
      BY <1>1, AppendProperties DEF Publish
    <2> QED
      BY <1>1, <2>1 DEF Publish, clientVars, relayVars, historyVars
  <1>2. ASSUME NEW c \in Clients, Connect(c) PROVE TypeOK'
    BY <1>2 DEF Connect
  <1>3. ASSUME NEW c \in Clients, Subscribe(c) PROVE TypeOK'
    <2>1. Len(published) \in 0 .. MaxAlerts
      OBVIOUS
    <2> QED
      BY <1>3, <2>1 DEF Subscribe, clientVars
  <1>4. ASSUME NEW c \in Clients, RelayDies(c) PROVE TypeOK'
    BY <1>4 DEF RelayDies, clientVars, historyVars
  <1>5. ASSUME NEW c \in Clients, Relay(c) PROVE TypeOK'
    <2>1. queue' \in [Clients -> Seq(Frame)] /\ \A d \in Clients : Len(queue'[d]) <= queue_maxsize
      <3>1. ASSUME NEW d \in Clients
            PROVE  queue'[d] \in Seq(Frame) /\ Len(queue'[d]) <= queue_maxsize
        <4>1. \/ queue'[d] = queue[d]
              \/ /\ ~Full(d)
                 /\ \E f \in Frame : queue'[d] = Append(queue[d], f)
          BY <1>5, BroadcastQueues
        <4>2. queue[d] \in Seq(Frame) /\ Len(queue[d]) \in Nat /\ Len(queue[d]) <= queue_maxsize
          BY LenProperties
        <4>3. ASSUME NEW f \in Frame, queue'[d] = Append(queue[d], f), ~Full(d)
              PROVE  queue'[d] \in Seq(Frame) /\ Len(queue'[d]) <= queue_maxsize
          <5>1. Append(queue[d], f) \in Seq(Frame) /\ Len(Append(queue[d], f)) = Len(queue[d]) + 1
            BY <4>2, QueueAppend
          <5> QED
            BY <4>2, <4>3, <5>1 DEF Full
        <4> QED
          BY <4>1, <4>2, <4>3
      <3>2. queue' = [d \in Clients |-> queue'[d]]
        BY <1>5, BroadcastQueues
      <3> QED
        BY <3>1, <3>2
    <2>2. cursor' \in [Clients -> 0 .. MaxAlerts]
      BY <1>5 DEF Relay
    <2>3. selective' \subseteq Clients
      BY <1>5, BroadcastQueues
    <2> QED
      BY <1>5, <2>1, <2>2, <2>3 DEF Relay
  <1>6. ASSUME NEW c \in Clients, SendFrame(c) PROVE TypeOK'
    <2>1. /\ Head(queue[c]) \in Frame /\ Tail(queue[c]) \in Seq(Frame)
          /\ Len(Tail(queue[c])) <= queue_maxsize
      BY <1>6, QueueTail DEF SendFrame
    <2> QED
      BY <1>6, <2>1 DEF SendFrame, relayVars
  <1>7. ASSUME NEW c \in Clients, Leave(c) PROVE TypeOK'
    BY <1>7 DEF Leave, Forget
  <1>8. ASSUME NEW c \in Clients, NEW f \in Filters, SetFilter(c, f) PROVE TypeOK'
    BY <1>8 DEF SetFilter, relayVars
  <1>9. CASE UNCHANGED vars
    BY <1>9 DEF vars, clientVars, relayVars, historyVars
  <1> QED
    BY <1>1, <1>2, <1>3, <1>4, <1>5, <1>6, <1>7, <1>8, <1>9 DEF Next, AllGone

\* The types, and that queues keep their bound and relays their owner.
THEOREM FanoutTypeCorrect == Spec => []TypeOK
  BY TypeInit, TypeNext, PTL DEF Spec

-----------------------------------------------------------------------------
(* Filters.                                                                *)

\* A queue grows by a frame that concerns its client, whoever relays it.
THEOREM FilterRespectedCorrect == Spec => FilterRespected
  <1> DEFINE Respects == \A c \in Clients : Len(queue'[c]) > Len(queue[c]) =>
                            filter[c] \in {AnyEngine, published[Last(queue'[c]).alert]}
  <1>1. ASSUME TypeOK, NEW r \in Clients, Relay(r) PROVE Respects
    <2>1. ASSUME NEW c \in Clients, Len(queue'[c]) > Len(queue[c])
          PROVE  filter[c] \in {AnyEngine, published[Last(queue'[c]).alert]}
      <3> DEFINE k == cursor[r] + 1
                 f == [alert |-> k, relay |-> r]
      <3>1. /\ queue[c] \in Seq(Frame) /\ Len(queue[c]) \in Nat
            /\ f \in Frame /\ f.alert = k
        BY <1>1, BroadcastQueues, LenProperties DEF TypeOK
      <3>2. queue'[c] = Append(queue[c], f) /\ Matches(r, c, published[k])
        BY <1>1, <2>1, <3>1, BroadcastQueues
      <3>3. Last(queue'[c]) = f
        BY <3>1, <3>2, QueueAppend DEF Last
      <3> QED
        BY <3>1, <3>2, <3>3 DEF Matches
    <2> QED
      BY <2>1
  <1>2. ASSUME TypeOK, NEW d \in Clients, SendFrame(d) PROVE Respects
    <2>1. ASSUME NEW c \in Clients PROVE ~(Len(queue'[c]) > Len(queue[c]))
      BY <1>2, QueueTail DEF SendFrame, TypeOK
    <2> QED
      BY <2>1
  <1>3. ASSUME TypeOK, NEW d \in Clients, Leave(d) PROVE Respects
    <2>1. ASSUME NEW c \in Clients PROVE ~(Len(queue'[c]) > Len(queue[c]))
      BY <1>3, LenProperties DEF Leave, Forget, TypeOK
    <2> QED
      BY <2>1
  <1>4. ASSUME TypeOK, UNCHANGED queue PROVE Respects
    BY <1>4, LenProperties DEF TypeOK
  <1>5. TypeOK /\ [Next]_vars => [Respects]_vars
    BY <1>1, <1>2, <1>3, <1>4
    DEF Next, AllGone, Publish, Connect, Subscribe, RelayDies, SetFilter, vars, clientVars
  <1> QED
    BY <1>5, FanoutTypeCorrect, PTL DEF Spec, FilterRespected

-----------------------------------------------------------------------------
(* Order and completeness.                                                 *)

\* The frames a client was sent or has in its queue.
Frames(c) == sent[c] \cup ToSet(queue[c])

\* Where the frames of a relay are: none before it has subscribed, and none
\* beyond its cursor while it listens.
PlaceInv ==
    /\ \A r \in Clients : cursor[r] <= Len(published)
    /\ \A r \in Clients : relay[r] \in {"none", "subscribing"} =>
          /\ cursor[r] = 0
          /\ \A c \in Clients : since[c][r] = 0 /\ \A x \in Frames(c) : x.relay # r
    /\ \A r, c \in Clients : relay[r] = "listening" =>
          \A x \in Frames(c) : x.relay = r => x.alert <= cursor[r]
    /\ \A r, c \in Clients : endpoint[r] = "open" => since[c][r] <= cursor[r]
    /\ \A c \in Clients : endpoint[c] = "new" => sent[c] = {} /\ queue[c] = <<>>
    /\ \A c \in Clients \ selective : filter[c] = AnyEngine

LEMMA PlaceInit == Init => PlaceInv
  BY DEF Init, PlaceInv, Frames, ToSet

\* How a step changes the frames: a broadcast adds one that is new, sending
\* moves one, leaving drops them, and nothing else touches them.
LEMMA FrameSteps ==
    ASSUME TypeOK, NEW c \in Clients
    PROVE  /\ Frames(c) \subseteq Frame
           /\ \A r \in Clients : Relay(r) =>
                 Frames(c)' \in {Frames(c), Frames(c) \cup {[alert |-> cursor[r] + 1, relay |-> r]}}
           /\ \A d \in Clients : SendFrame(d) => Frames(c)' = Frames(c)
           /\ \A d \in Clients : Leave(d) => Frames(c)' = IF c = d THEN {} ELSE Frames(c)
  <1>1. sent[c] \subseteq Frame /\ queue[c] \in Seq(Frame)
    BY DEF TypeOK
  <1>2. Frames(c) \subseteq Frame
    <2>1. \A k \in DOMAIN queue[c] : queue[c][k] \in Frame
      BY <1>1, ElementOfSeq, LenProperties
    <2> QED
      BY <1>1, <2>1 DEF Frames, ToSet
  <1>3. ASSUME NEW r \in Clients, Relay(r)
        PROVE  Frames(c)' \in {Frames(c), Frames(c) \cup {[alert |-> cursor[r] + 1, relay |-> r]}}
    <2> DEFINE f == [alert |-> cursor[r] + 1, relay |-> r]
    <2>1. f \in Frame /\ queue'[c] \in {queue[c], Append(queue[c], f)} /\ sent' = sent
      BY <1>3, BroadcastQueues DEF Relay
    <2>2. ToSet(Append(queue[c], f)) = ToSet(queue[c]) \cup {f}
      BY <1>1, <2>1, QueueAppend
    <2>3. Frames(c)' = sent'[c] \cup ToSet(queue'[c])
      BY DEF Frames, ToSet
    <2>4. CASE queue'[c] = queue[c]
      BY <2>1, <2>3, <2>4 DEF Frames
    <2>5. CASE queue'[c] = Append(queue[c], f)
      BY <2>1, <2>2, <2>3, <2>5 DEF Frames
    <2> QED
      BY <2>1, <2>4, <2>5
  <1>4. ASSUME NEW d \in Clients, SendFrame(d)
        PROVE  Frames(c)' = Frames(c)
    <2>1. Frames(c)' = sent'[c] \cup ToSet(queue'[c])
      BY DEF Frames, ToSet
    <2>2. CASE c = d
      <3>1. ToSet(queue[c]) = {Head(queue[c])} \cup ToSet(Tail(queue[c]))
        BY <1>1, <1>4, <2>2, QueueTail DEF SendFrame
      <3>2. sent'[c] = sent[c] \cup {Head(queue[c])} /\ queue'[c] = Tail(queue[c])
        BY <1>4, <2>2 DEF SendFrame, TypeOK
      <3> QED
        BY <2>1, <3>1, <3>2 DEF Frames
    <2>3. CASE c # d
      BY <1>4, <2>1, <2>3 DEF SendFrame, TypeOK, Frames
    <2> QED
      BY <2>2, <2>3
  <1>5. ASSUME NEW d \in Clients, Leave(d)
        PROVE  Frames(c)' = IF c = d THEN {} ELSE Frames(c)
    <2>1. Frames(c)' = sent'[c] \cup ToSet(queue'[c])
      BY DEF Frames, ToSet
    <2>2. CASE c = d
      BY <1>5, <2>1, <2>2 DEF Leave, Forget, TypeOK, ToSet
    <2>3. CASE c # d
      BY <1>5, <2>1, <2>3 DEF Leave, Forget, TypeOK, Frames
    <2> QED
      BY <2>2, <2>3
  <1> QED
    BY <1>2, <1>3, <1>4, <1>5

LEMMA PlaceNext ==
    ASSUME TypeOK, TypeOK', PlaceInv, [Next]_vars
    PROVE  PlaceInv'
  <1>1. ASSUME NEW alert \in Engines \cup {Unreadable}, Publish(alert) PROVE PlaceInv'
    <2>1. Len(published') = Len(published) + 1 /\ Len(published) \in Nat
      BY <1>1, AppendProperties, LenProperties DEF Publish, TypeOK
    <2>2. UNCHANGED <<endpoint, filter, queue, relay, cursor, since, sent, selective>>
      BY <1>1 DEF Publish, clientVars, relayVars, historyVars
    <2>3. \A r \in Clients : cursor[r] <= Len(published')
      BY <2>1 DEF PlaceInv, TypeOK
    <2> QED
      BY <2>2, <2>3 DEF PlaceInv, Frames
  <1>2. ASSUME NEW c \in Clients, Connect(c) PROVE PlaceInv'
    <2>1. /\ endpoint[c] = "new" /\ relay[c] = "none"
          /\ endpoint' = [endpoint EXCEPT ![c] = "open"]
          /\ relay' = [relay EXCEPT ![c] = "subscribing"]
          /\ since' = [since EXCEPT ![c] = cursor]
          /\ UNCHANGED <<published, filter, queue, cursor, sent, selective>>
      BY <1>2 DEF Connect, TypeOK
    <2>2. \A d \in Clients : Frames(d)' = Frames(d)
      BY <2>1 DEF Frames
    <2>3. \A r \in Clients : relay'[r] \in {"none", "subscribing"} => relay[r] \in {"none", "subscribing"}
      BY <2>1 DEF TypeOK
    <2>4. \A d, r \in Clients : since'[d][r] = IF d = c THEN cursor[r] ELSE since[d][r]
      BY <2>1 DEF TypeOK
    <2>5. \A r, d \in Clients : endpoint'[r] = "open" => since'[d][r] <= cursor[r]
      BY <2>1, <2>4 DEF PlaceInv, TypeOK
    <2>6. \A r \in Clients : relay'[r] = "listening" => relay[r] = "listening"
      BY <2>1 DEF TypeOK
    <2>7. \A d \in Clients : endpoint'[d] = "new" => endpoint[d] = "new"
      BY <2>1 DEF TypeOK
    <2> QED
      BY <2>1, <2>2, <2>3, <2>4, <2>5, <2>6, <2>7 DEF PlaceInv
  <1>3. ASSUME NEW c \in Clients, Subscribe(c) PROVE PlaceInv'
    <2>1. /\ relay[c] = "subscribing"
          /\ UNCHANGED <<published, endpoint, filter, queue, sent, selective>>
          /\ \A r \in Clients : /\ relay'[r] = IF r = c THEN "listening" ELSE relay[r]
                                /\ cursor'[r] = IF r = c THEN Len(published) ELSE cursor[r]
          /\ \A d, r \in Clients : since'[d][r] = IF r = c THEN Len(published) ELSE since[d][r]
          /\ Len(published) \in Nat
      <3>1. /\ relay \in [Clients -> {"none", "subscribing", "listening", "ended"}]
            /\ cursor \in [Clients -> 0 .. MaxAlerts]
            /\ since \in [Clients -> [Clients -> 0 .. MaxAlerts]]
            /\ Len(published) \in Nat
        BY LenProperties DEF TypeOK
      <3> QED
        BY <1>3, <3>1 DEF Subscribe, clientVars
    <2>2. \A d \in Clients : Frames(d)' = Frames(d) /\ \A x \in Frames(d) : x.relay # c
      BY <2>1 DEF Frames, PlaceInv
    <2>3. \A r \in Clients : cursor'[r] <= Len(published)
      BY <2>1 DEF PlaceInv
    <2>4. \A r, d \in Clients : endpoint[r] = "open" => since'[d][r] <= cursor'[r]
      BY <2>1 DEF PlaceInv
    <2>5. \A r \in Clients : relay'[r] \in {"none", "subscribing"} => r # c
      BY <2>1
    <2>6. \A r, d \in Clients : relay'[r] = "listening" =>
            \A x \in Frames(d) : x.relay = r => x.alert <= cursor'[r]
      BY <2>1, <2>2 DEF PlaceInv
    <2> QED
      BY <2>1, <2>2, <2>3, <2>4, <2>5, <2>6 DEF PlaceInv
  <1>4. ASSUME NEW c \in Clients, RelayDies(c) PROVE PlaceInv'
    <2>1. /\ UNCHANGED <<published, endpoint, filter, queue, cursor, since, sent, selective>>
          /\ \A r \in Clients : relay'[r] = IF r = c THEN "ended" ELSE relay[r]
      BY <1>4 DEF RelayDies, clientVars, historyVars, TypeOK
    <2>2. \A d \in Clients : Frames(d)' = Frames(d)
      BY <2>1 DEF Frames
    <2> QED
      BY <2>1, <2>2 DEF PlaceInv
  <1>5. ASSUME NEW c \in Clients, Relay(c) PROVE PlaceInv'
    <2>1. /\ relay[c] = "listening" /\ cursor[c] + 1 <= Len(published)
          /\ UNCHANGED <<published, endpoint, filter, relay, since, sent>>
          /\ \A r \in Clients : cursor'[r] = IF r = c THEN cursor[c] + 1 ELSE cursor[r]
          /\ \A r \in Clients : cursor[r] \in Nat
          /\ \A r, d \in Clients : since[d][r] \in Nat
      BY <1>5 DEF Relay, TypeOK
    <2>2. /\ selective \subseteq selective'
          /\ \A d \in Clients : endpoint[d] = "new" => queue'[d] = queue[d]
      BY <1>5, BroadcastQueues DEF Matches
    <2>3. \A d \in Clients :
            Frames(d)' \in {Frames(d), Frames(d) \cup {[alert |-> cursor[c] + 1, relay |-> c]}}
      BY <1>5, FrameSteps
    <2>4. \A r, d \in Clients : relay[r] = "listening" =>
            \A x \in Frames(d)' : x.relay = r => x.alert <= cursor'[r]
      <3>1. ASSUME NEW r \in Clients, NEW d \in Clients, relay[r] = "listening",
                   NEW x \in Frames(d)', x.relay = r
            PROVE  x.alert <= cursor'[r]
        <4>1. CASE x \in Frames(d)
          <5>1. x.alert <= cursor[r]
            BY <3>1, <4>1 DEF PlaceInv
          <5>2. x.alert \in Nat
            BY <3>1, <4>1, FrameSteps DEF Frame
          <5>3. cursor[r] \in Nat /\ cursor'[r] \in {cursor[r], cursor[r] + 1}
            BY <2>1
          <5> QED
            BY <5>1, <5>2, <5>3
        <4>2. CASE x = [alert |-> cursor[c] + 1, relay |-> c]
          BY <2>1, <3>1, <4>2
        <4> QED
          BY <2>3, <3>1, <4>1, <4>2
      <3> QED
        BY <3>1
    <2>5. \A r, d \in Clients : relay[r] \in {"none", "subscribing"} =>
            \A x \in Frames(d)' : x.relay # r
      BY <2>1, <2>3 DEF PlaceInv
    <2> QED
      BY <2>1, <2>2, <2>4, <2>5 DEF PlaceInv
  <1>6. ASSUME NEW c \in Clients, SendFrame(c) PROVE PlaceInv'
    <2>1. /\ UNCHANGED <<published, endpoint, filter, relay, cursor, since, selective>>
          /\ endpoint[c] = "open"
          /\ \A d \in Clients \ {c} : sent'[d] = sent[d] /\ queue'[d] = queue[d]
      BY <1>6 DEF SendFrame, relayVars, TypeOK
    <2>2. \A d \in Clients : Frames(d)' = Frames(d)
      BY <1>6, FrameSteps
    <2> QED
      BY <2>1, <2>2 DEF PlaceInv
  <1>7. ASSUME NEW c \in Clients, Leave(c) PROVE PlaceInv'
    <2>1. /\ UNCHANGED published
          /\ \A r \in Clients : /\ relay'[r] = IF r = c THEN "ended" ELSE relay[r]
                                /\ cursor'[r] = IF r = c THEN 0 ELSE cursor[r]
                                /\ endpoint'[r] = IF r = c THEN "gone" ELSE endpoint[r]
                                /\ filter'[r] = IF r = c THEN AnyEngine ELSE filter[r]
                                /\ r # c => sent'[r] = sent[r] /\ queue'[r] = queue[r]
          /\ \A d, r \in Clients : since'[d][r] = IF d = c THEN 0 ELSE since[d][r]
          /\ selective' = selective \ {c}
          /\ \A r \in Clients : cursor[r] \in Nat
          /\ Len(published) \in Nat
      BY <1>7, LenProperties DEF Leave, Forget, TypeOK
    <2>2. \A d \in Clients : Frames(d)' \subseteq Frames(d)
      BY <1>7, FrameSteps
    <2> QED
      BY <2>1, <2>2 DEF PlaceInv
  <1>8. ASSUME NEW c \in Clients, NEW f \in Filters, SetFilter(c, f) PROVE PlaceInv'
    <2>1. /\ UNCHANGED <<published, endpoint, queue, relay, cursor, since, sent>>
          /\ selective' = selective \cup {c}
          /\ \A d \in Clients \ {c} : filter'[d] = filter[d]
      BY <1>8 DEF SetFilter, relayVars, TypeOK
    <2>2. \A d \in Clients : Frames(d)' = Frames(d)
      BY <2>1 DEF Frames
    <2> QED
      BY <2>1, <2>2 DEF PlaceInv
  <1>9. CASE UNCHANGED vars
    BY <1>9 DEF vars, clientVars, relayVars, historyVars, PlaceInv, Frames
  <1> QED
    BY <1>1, <1>2, <1>3, <1>4, <1>5, <1>6, <1>7, <1>8, <1>9 DEF Next, AllGone

LEMMA PlaceCorrect == Spec => []PlaceInv
  BY PlaceInit, PlaceNext, FanoutTypeCorrect, PTL DEF Spec

\* The queue of c continues, relay by relay, what c was sent.
Ordered(c) ==
    \A k \in 1 .. Len(queue[c]) :
        \A x \in sent[c] \cup {queue[c][j] : j \in 1 .. k - 1} :
            x.relay = queue[c][k].relay => x.alert < queue[c][k].alert

LEMMA OrderNext ==
    ASSUME TypeOK, PlaceInv, RelayOrderKept, [Next]_vars
    PROVE  RelayOrderKept'
  <1> SUFFICES ASSUME NEW c \in Clients, Ordered(c) PROVE Ordered(c)'
    BY DEF RelayOrderKept, Ordered
  <1>0. queue[c] \in Seq(Frame) /\ Len(queue[c]) \in Nat
    BY LenProperties DEF TypeOK
  <1>1. CASE queue'[c] = queue[c] /\ sent'[c] = sent[c]
    BY <1>1 DEF Ordered
  <1>2. ASSUME NEW r \in Clients, Relay(r) PROVE Ordered(c)'
    <2> DEFINE f == [alert |-> cursor[r] + 1, relay |-> r]
    <2>1. f \in Frame /\ queue'[c] \in {queue[c], Append(queue[c], f)} /\ sent'[c] = sent[c]
      BY <1>2, BroadcastQueues DEF Relay
    <2>2. CASE queue'[c] = Append(queue[c], f)
      <3>1. /\ Len(queue'[c]) = Len(queue[c]) + 1 /\ queue'[c][Len(queue[c]) + 1] = f
            /\ \A k \in 1 .. Len(queue[c]) : queue'[c][k] = queue[c][k]
        BY <1>0, <2>1, <2>2, QueueAppend
      <3>2. ASSUME NEW k \in 1 .. Len(queue[c]) + 1,
                   NEW x \in sent[c] \cup {queue'[c][j] : j \in 1 .. k - 1},
                   x.relay = queue'[c][k].relay
            PROVE  x.alert < queue'[c][k].alert
        <4>1. {queue'[c][j] : j \in 1 .. k - 1} = {queue[c][j] : j \in 1 .. k - 1}
          <5>1. \A j \in 1 .. k - 1 : queue'[c][j] = queue[c][j]
            BY <1>0, <3>1
          <5> QED
            BY <5>1
        <4>2. CASE k \in 1 .. Len(queue[c])
          BY <3>1, <3>2, <4>1, <4>2 DEF Ordered
        <4>3. CASE k = Len(queue[c]) + 1
          <5>1. x \in Frames(c)
            <6>1. \A j \in 1 .. k - 1 : j \in DOMAIN queue[c]
              BY <1>0, <4>3, LenProperties
            <6> QED
              BY <3>2, <4>1, <6>1 DEF Frames, ToSet
          <5>2. x.relay = r /\ queue'[c][k].alert = cursor[r] + 1
            BY <3>1, <3>2, <4>3
          <5>3. relay[r] = "listening" /\ cursor[r] \in Nat
            BY <1>2 DEF Relay, TypeOK
          <5>4. x.alert <= cursor[r] /\ x.alert \in Nat
            BY <5>1, <5>2, <5>3, FrameSteps DEF PlaceInv, Frame
          <5> QED
            BY <5>2, <5>3, <5>4
        <4> QED
          BY <1>0, <4>2, <4>3
      <3> QED
        BY <2>1, <3>1, <3>2 DEF Ordered
    <2> QED
      BY <1>1, <2>1, <2>2
  <1>3. ASSUME SendFrame(c) PROVE Ordered(c)'
    <2>1. /\ queue[c] # <<>> /\ queue'[c] = Tail(queue[c])
          /\ sent'[c] = sent[c] \cup {Head(queue[c])}
      BY <1>3 DEF SendFrame, TypeOK
    <2>2. /\ Head(queue[c]) = queue[c][1] /\ Len(queue'[c]) = Len(queue[c]) - 1
          /\ \A k \in 1 .. Len(queue'[c]) : queue'[c][k] = queue[c][k + 1]
      BY <1>0, <2>1, QueueTail
    <2>3. ASSUME NEW k \in 1 .. Len(queue'[c]),
                 NEW x \in sent'[c] \cup {queue'[c][j] : j \in 1 .. k - 1}
          PROVE  x \in sent[c] \cup {queue[c][j] : j \in 1 .. k}
      <3>1. 1 \in 1 .. k /\ \A j \in 1 .. k - 1 : j + 1 \in 1 .. k /\ j \in 1 .. Len(queue'[c])
        BY <1>0, <2>2
      <3> QED
        BY <2>1, <2>2, <2>3, <3>1
    <2>4. \A k \in 1 .. Len(queue'[c]) : k + 1 \in 1 .. Len(queue[c]) /\ (k + 1) - 1 = k
      BY <1>0, <2>2
    <2> QED
      BY <2>2, <2>3, <2>4 DEF Ordered
  <1>4. ASSUME Leave(c) PROVE Ordered(c)'
    <2>1. queue'[c] = <<>>
      BY <1>4 DEF Leave, Forget, TypeOK
    <2> QED
      BY <2>1 DEF Ordered
  <1>5. ASSUME NEW d \in Clients \ {c}, SendFrame(d) \/ Leave(d) PROVE Ordered(c)'
    BY <1>1, <1>5 DEF SendFrame, Leave, Forget, TypeOK
  <1> QED
    BY <1>1, <1>2, <1>3, <1>4, <1>5
    DEF Next, AllGone, Publish, Connect, Subscribe, RelayDies, SetFilter, vars, clientVars,
        historyVars

\* Whatever filters change and whoever leaves, each relay reaches each client in
\* the order of publication.
THEOREM RelayOrderKeptCorrect == Spec => []RelayOrderKept
  <1>1. Init => RelayOrderKept
    BY DEF Init, RelayOrderKept
  <1> QED
    BY <1>1, OrderNext, FanoutTypeCorrect, PlaceCorrect, PTL DEF Spec

\* What client c has of relay r, and what it should have.
Via(c, r) == {x \in Frames(c) : x.relay = r}
Due(c, r) ==
    {[alert |-> k, relay |-> r] :
        k \in {k \in since[c][r] + 1 .. cursor[r] : published[k] # Unreadable}}

LEMMA QuickForms ==
    QuickClientMissesNothing <=>
        \A c \in Clients \ selective, r \in Clients :
            endpoint[c] = "open" /\ endpoint[r] = "open" => Via(c, r) = Due(c, r)
  BY DEF QuickClientMissesNothing, Via, Due, Frames

LEMMA QuickNext ==
    ASSUME TypeOK, PlaceInv, QuickClientMissesNothing, [Next]_vars
    PROVE  QuickClientMissesNothing'
  <1> SUFFICES ASSUME NEW c \in Clients, c \notin selective', NEW r \in Clients,
                      endpoint'[c] = "open", endpoint'[r] = "open"
               PROVE  Via(c, r)' = Due(c, r)'
    BY DEF QuickClientMissesNothing, Via, Due, Frames
  <1>0. /\ c \notin selective /\ endpoint[c] = "open" /\ endpoint[r] = "open"
            => Via(c, r) = Due(c, r)
        /\ cursor[r] \in Nat /\ since[c][r] \in Nat /\ Len(published) \in Nat
        /\ cursor[r] <= Len(published)
    BY QuickForms, LenProperties DEF TypeOK, PlaceInv
  <1>1. ASSUME c \notin selective, endpoint[c] = "open", endpoint[r] = "open",
               Frames(c)' = Frames(c), UNCHANGED <<published, cursor, since>>
        PROVE  Via(c, r)' = Due(c, r)'
    BY <1>0, <1>1 DEF Via, Due
  <1>2. ASSUME NEW alert \in Engines \cup {Unreadable}, Publish(alert)
        PROVE  Via(c, r)' = Due(c, r)'
    <2>1. UNCHANGED <<endpoint, queue, cursor, since, sent, selective>>
      BY <1>2 DEF Publish, clientVars, relayVars, historyVars
    <2>2. \A k \in since[c][r] + 1 .. cursor[r] : published'[k] = published[k]
      <3>1. \A k \in since[c][r] + 1 .. cursor[r] : k \in 1 .. Len(published)
        BY <1>0
      <3> QED
        BY <1>2, <3>1, AppendProperties DEF Publish, TypeOK
    <2>3. Via(c, r)' = Via(c, r) /\ Via(c, r) = Due(c, r)
      BY <1>0, <2>1 DEF Via, Frames
    <2>4. {k \in since[c][r] + 1 .. cursor[r] : published'[k] # Unreadable} =
              {k \in since[c][r] + 1 .. cursor[r] : published[k] # Unreadable}
      BY <2>2, Zenon
    <2> QED
      BY <2>1, <2>3, <2>4 DEF Due
  \* Nothing has come by a relay when its cursor is where the client found it.
  <1>3. ASSUME Via(c, r)' = {}, since'[c][r] = cursor'[r], cursor'[r] \in Nat
        PROVE  Via(c, r)' = Due(c, r)'
    <2>1. \A n \in Nat : n + 1 .. n = {}
      OBVIOUS
    <2>2. since'[c][r] + 1 .. cursor'[r] = {}
      BY <1>3, <2>1
    <2> QED
      BY <1>3, <2>2 DEF Due
  <1>4. ASSUME NEW d \in Clients, Connect(d)
        PROVE  Via(c, r)' = Due(c, r)'
    <2>1. /\ endpoint[d] = "new" /\ relay[d] = "none"
          /\ UNCHANGED <<published, queue, cursor, sent, selective>>
          /\ \A q \in Clients \ {d} : endpoint'[q] = endpoint[q]
          /\ since'[c][r] = IF c = d THEN cursor[r] ELSE since[c][r]
      BY <1>4 DEF Connect, TypeOK
    <2>2. Via(c, r)' = Via(c, r)
      BY <2>1 DEF Via, Frames
    <2>3. CASE c = d
      <3>1. Frames(c) = {}
        BY <2>1, <2>3 DEF PlaceInv, Frames, ToSet
      <3> QED
        BY <1>0, <1>3, <2>1, <2>2, <2>3, <3>1 DEF Via
    <2>4. CASE c # d /\ r = d
      <3>1. Via(c, r) = {} /\ since[c][r] = 0 /\ cursor[r] = 0
        BY <2>1, <2>4 DEF PlaceInv, Via
      <3> QED
        BY <1>3, <2>1, <2>2, <2>4, <3>1
    <2>5. CASE c # d /\ r # d
      <3>1. Via(c, r) = Due(c, r)
        BY <1>0, <2>1, <2>5
      <3>2. Due(c, r)' = Due(c, r)
        BY <2>1, <2>5 DEF Due
      <3> QED
        BY <2>2, <3>1, <3>2
    <2> QED
      BY <2>3, <2>4, <2>5
  <1>5. ASSUME NEW d \in Clients, Subscribe(d)
        PROVE  Via(c, r)' = Due(c, r)'
    <2>1. /\ relay[d] = "subscribing"
          /\ UNCHANGED <<published, endpoint, queue, sent, selective>>
          /\ cursor'[r] = IF r = d THEN Len(published) ELSE cursor[r]
          /\ since'[c][r] = IF r = d THEN Len(published) ELSE since[c][r]
      BY <1>5 DEF Subscribe, clientVars, TypeOK
    <2>2. Via(c, r)' = Via(c, r)
      BY <2>1 DEF Via, Frames
    <2>3. CASE r = d
      <3>1. Via(c, r) = {}
        BY <2>1, <2>3 DEF PlaceInv, Via
      <3> QED
        BY <1>0, <1>3, <2>1, <2>2, <2>3, <3>1
    <2>4. CASE r # d
      BY <1>0, <2>1, <2>2, <2>4 DEF Due
    <2> QED
      BY <2>3, <2>4
  <1>6. ASSUME NEW d \in Clients, Relay(d)
        PROVE  Via(c, r)' = Due(c, r)'
    <2> DEFINE k == cursor[d] + 1
               f == [alert |-> k, relay |-> d]
    <2>1. /\ relay[d] = "listening"
          /\ UNCHANGED <<published, endpoint, filter, relay, since, sent>>
          /\ cursor'[r] = IF r = d THEN k ELSE cursor[r]
          /\ c \notin selective /\ f \in Frame /\ cursor[d] \in Nat
      <3>1. selective \subseteq selective' /\ f \in Frame
        BY <1>6, BroadcastQueues
      <3> QED
        BY <1>6, <3>1 DEF Relay, TypeOK
    <2>2. Via(c, r) = Due(c, r)
      BY <1>0, <2>1
    <2>3. queue'[c] = IF published[k] # Unreadable THEN Append(queue[c], f) ELSE queue[c]
      <3>1. filter[c] = AnyEngine /\ Matches(d, c, published[k])
        BY <2>1 DEF PlaceInv, Matches
      <3> QED
        BY <1>6, <3>1, BroadcastQueues
    <2>4. Frames(c)' = IF published[k] # Unreadable THEN Frames(c) \cup {f} ELSE Frames(c)
      <3>1. Frames(c)' = sent[c] \cup ToSet(queue'[c])
        BY <2>1 DEF Frames, ToSet
      <3>2. ToSet(Append(queue[c], f)) = ToSet(queue[c]) \cup {f}
        <4>1. queue[c] \in Seq(Frame) /\ f \in Frame
          BY <2>1 DEF TypeOK
        <4> HIDE DEF f
        <4> QED
          BY <4>1, QueueAppend
      <3> QED
        BY <2>3, <3>1, <3>2 DEF Frames
    <2>5. CASE r # d
      <3>1. Via(c, r)' = Via(c, r)
        BY <2>4, <2>5 DEF Via
      <3>2. Due(c, r)' = Due(c, r)
        BY <2>1, <2>5 DEF Due
      <3> QED
        BY <2>2, <3>1, <3>2
    <2>6. CASE r = d
      <3>1. since[c][r] + 1 .. k = (since[c][r] + 1 .. cursor[r]) \cup {k}
        <4>1. since[c][r] <= cursor[r]
          BY <2>1 DEF PlaceInv
        <4>2. \A m, n \in Nat : m <= n => m + 1 .. n + 1 = (m + 1 .. n) \cup {n + 1}
          OBVIOUS
        <4> QED
          BY <1>0, <2>6, <4>1, <4>2
      <3>2. CASE published[k] # Unreadable
        <4>1. Via(c, r)' = Via(c, r) \cup {f}
          BY <2>4, <2>6, <3>2 DEF Via
        <4>2. {j \in since[c][r] + 1 .. k : published[j] # Unreadable} =
                  {j \in since[c][r] + 1 .. cursor[r] : published[j] # Unreadable} \cup {k}
          BY <3>1, <3>2, Zenon
        <4>3. Due(c, r)' = Due(c, r) \cup {f}
          BY <2>1, <2>6, <4>2 DEF Due
        <4> QED
          BY <2>2, <4>1, <4>3
      <3>3. CASE published[k] = Unreadable
        <4>1. Via(c, r)' = Via(c, r)
          BY <2>4, <3>3 DEF Via
        <4>2. {j \in since[c][r] + 1 .. k : published[j] # Unreadable} =
                  {j \in since[c][r] + 1 .. cursor[r] : published[j] # Unreadable}
          BY <3>1, <3>3, Zenon
        <4>3. Due(c, r)' = Due(c, r)
          BY <2>1, <2>6, <4>2 DEF Due
        <4> QED
          BY <2>2, <4>1, <4>3
      <3> QED
        BY <3>2, <3>3
    <2> QED
      BY <2>5, <2>6
  <1>7. ASSUME NEW d \in Clients, RelayDies(d)
        PROVE  Via(c, r)' = Due(c, r)'
    <2>1. Frames(c)' = Frames(c)
      BY <1>7 DEF RelayDies, clientVars, historyVars, Frames
    <2> QED
      BY <1>1, <1>7, <2>1 DEF RelayDies, clientVars, historyVars
  <1>8. ASSUME NEW d \in Clients, SendFrame(d)
        PROVE  Via(c, r)' = Due(c, r)'
    <2>1. Frames(c)' = Frames(c)
      BY <1>8, FrameSteps
    <2> QED
      BY <1>1, <1>8, <2>1 DEF SendFrame, relayVars
  <1>9. ASSUME NEW d \in Clients, Leave(d)
        PROVE  Via(c, r)' = Due(c, r)'
    <2>1. c # d /\ r # d
      BY <1>9 DEF Leave, Forget, TypeOK
    <2>2. /\ endpoint[c] = "open" /\ endpoint[r] = "open" /\ c \notin selective
          /\ published' = published /\ cursor'[r] = cursor[r] /\ since'[c] = since[c]
      BY <1>9, <2>1 DEF Leave, Forget, TypeOK
    <2>3. Frames(c)' = Frames(c)
      BY <1>9, <2>1, FrameSteps
    <2> QED
      BY <1>0, <2>2, <2>3 DEF Via, Due
  <1>10. ASSUME NEW d \in Clients, NEW g \in Filters, SetFilter(d, g)
        PROVE  Via(c, r)' = Due(c, r)'
    <2>1. Frames(c)' = Frames(c)
      BY <1>10 DEF SetFilter, Frames
    <2> QED
      BY <1>1, <1>10, <2>1 DEF SetFilter, relayVars
  <1>11. CASE UNCHANGED vars
    BY <1>1, <1>11 DEF vars, clientVars, relayVars, historyVars, Frames
  <1> QED
    BY <1>2, <1>4, <1>5, <1>6, <1>7, <1>8, <1>9, <1>10, <1>11 DEF Next, AllGone

\* A client without a filter and with room in its queue has from every relay
\* every alert it took since the two are there.
THEOREM QuickClientCorrect == Spec => []QuickClientMissesNothing
  <1>1. Init => QuickClientMissesNothing
    BY DEF Init, QuickClientMissesNothing
  <1> QED
    BY <1>1, QuickNext, FanoutTypeCorrect, PlaceCorrect, PTL DEF Spec
=============================================================================
