-------------------------- MODULE WebSocketFanout --------------------------
(***************************************************************************)
(* /ws/live: app/api/websocket.py, with the subscriber side of             *)
(* app/services/alert_publisher.py.  Each connection runs two tasks: the   *)
(* endpoint, which sends the frames of its own queue and executes the      *)
(* commands of its client, and a relay, which subscribes to Redis and      *)
(* broadcasts every alert to the queues of all connections.                *)
(*                                                                         *)
(* The manager's asyncio.Lock is held only over code without an await, so  *)
(* connect, disconnect, set_filter and broadcast are atomic.               *)
(***************************************************************************)
EXTENDS Integers, Sequences, SequencesExt

CONSTANTS
    Clients,         \* one element per connection, a client_id
    Engines,         \* engine identifiers
    AnyEngine,       \* the filter None
    Filters,         \* bound on the filters clients ask for
    Unreadable,      \* an alert no subscriber can parse
    queue_maxsize,   \* maxsize of a client's queue
    MaxAlerts        \* bound on the alerts of a behaviour

ASSUME FanoutAssumption ==
    /\ AnyEngine \notin Engines /\ Unreadable \notin Engines
    /\ Filters \subseteq Engines \cup {AnyEngine}
    /\ queue_maxsize \in Nat \ {0} /\ MaxAlerts \in Nat

VARIABLES
    published,   \* alerts, by their engine, in the order Redis accepted them
    endpoint,    \* "new", "open" (in the manager's _clients) or "gone"
    filter,      \* the engine each client listens to, or AnyEngine
    queue,       \* the frames waiting for each client
    relay,       \* "none", "subscribing", "listening" or "ended", the task
    cursor,      \* how much of published each relay has taken
    \* history of the open connections
    since,       \* since[c][r]: what of published relay r had behind it when
                 \* both r had subscribed and c was connected
    sent,        \* the frames each client was sent
    selective    \* clients that set a filter, or once had a full queue when a
                 \* frame came for them

clientVars == <<endpoint, filter, queue>>
relayVars == <<relay, cursor>>
historyVars == <<since, sent, selective>>
vars == <<published, clientVars, relayVars, historyVars>>

\* A copy of an alert, by its position in published and the relay it came by.
Frame == [alert : 1 .. MaxAlerts, relay : Clients]

Init ==
    /\ published = <<>>
    /\ endpoint = [c \in Clients |-> "new"]
    /\ filter = [c \in Clients |-> AnyEngine]
    /\ queue = [c \in Clients |-> <<>>]
    /\ relay = [c \in Clients |-> "none"]
    /\ cursor = [c \in Clients |-> 0]
    /\ since = [c \in Clients |-> [r \in Clients |-> 0]]
    /\ sent = [c \in Clients |-> {}]
    /\ selective = {}

\* AlertPublisher.publish of any request.
Publish(alert) ==
    /\ Len(published) < MaxAlerts
    /\ published' = Append(published, alert)
    /\ UNCHANGED <<clientVars, relayVars, historyVars>>

\* manager.connect, and the relay task is created.
Connect(c) ==
    /\ endpoint[c] = "new"
    /\ endpoint' = [endpoint EXCEPT ![c] = "open"]
    /\ relay' = [relay EXCEPT ![c] = "subscribing"]
    /\ since' = [since EXCEPT ![c] = cursor]
    /\ UNCHANGED <<published, filter, queue, cursor, sent, selective>>

\* Redis executes the SUBSCRIBE of a relay.
Subscribe(c) ==
    /\ relay[c] = "subscribing"
    /\ relay' = [relay EXCEPT ![c] = "listening"]
    /\ cursor' = [cursor EXCEPT ![c] = Len(published)]
    /\ since' = [d \in Clients |-> [since[d] EXCEPT ![c] = Len(published)]]
    /\ UNCHANGED <<published, clientVars, sent, selective>>

\* The connection of a relay to Redis breaks: the exception ends its task,
\* which nobody awaits.
RelayDies(c) ==
    /\ relay[c] \in {"subscribing", "listening"}
    /\ relay' = [relay EXCEPT ![c] = "ended"]
    /\ UNCHANGED <<published, clientVars, cursor, historyVars>>

\* Mutant: the filter of the relay's own client decides for everybody.
MatchesOwner(owner, c, alert) ==
    endpoint[c] = "open" /\ filter[owner] \in {AnyEngine, alert}

\* broadcast() of owner's relay: does the alert concern client c?
Matches(owner, c, alert) ==
    endpoint[c] = "open" /\ filter[c] \in {AnyEngine, alert}

Full(c) == Len(queue[c]) >= queue_maxsize

Concerned(owner, k) == {c \in Clients : Matches(owner, c, published[k])}

\* put_nowait() of one frame for each of these clients.
Put(someClients, frame) ==
    queue' = [c \in Clients |-> IF c \in someClients THEN Append(queue[c], frame)
                                                    ELSE queue[c]]

\* Mutant: break in place of pass, so that a full queue ends the broadcast.
BroadcastStopsAtFull(owner, k) ==
    LET Behind == {c \in Concerned(owner, k) : Full(c)}
    IN  /\ Put(IF Behind = {} THEN Concerned(owner, k) ELSE {},
               [alert |-> k, relay |-> owner])
        /\ selective' = selective \cup Behind

\* Mutant: await put() in place of put_nowait().
BroadcastWaits(owner, k) ==
    /\ \A c \in Concerned(owner, k) : ~Full(c)
    /\ Put(Concerned(owner, k), [alert |-> k, relay |-> owner])
    /\ UNCHANGED selective

\* broadcast(): the frame goes into every queue it concerns that is not full.
Broadcast(owner, k) ==
    LET Behind == {c \in Concerned(owner, k) : Full(c)}
    IN  /\ Put(Concerned(owner, k) \ Behind, [alert |-> k, relay |-> owner])
        /\ selective' = selective \cup Behind

\* A relay takes its next alert and broadcasts it, unless it cannot parse it.
Relay(c) ==
    /\ relay[c] = "listening" /\ cursor[c] < Len(published)
    /\ cursor' = [cursor EXCEPT ![c] = @ + 1]
    /\ IF published[cursor[c] + 1] = Unreadable
          THEN UNCHANGED <<queue, selective>>
          ELSE Broadcast(c, cursor[c] + 1)
    /\ UNCHANGED <<published, endpoint, filter, relay, since, sent>>

\* Mutant: the cancelled queue.get() puts its frame back at the end.
SendFrameRequeued(c) ==
    /\ endpoint[c] = "open" /\ queue[c] # <<>>
    /\ \/ /\ sent' = [sent EXCEPT ![c] = @ \cup {Head(queue[c])}]
          /\ queue' = [queue EXCEPT ![c] = Tail(@)]
       \/ /\ queue' = [queue EXCEPT ![c] = Append(Tail(@), Head(@))]
          /\ UNCHANGED <<sent>>
    /\ UNCHANGED <<published, endpoint, filter, relayVars, since, selective>>

\* The endpoint takes a frame from its queue and sends it.  The queue.get()
\* that it cancels when a command came first has taken nothing.
SendFrame(c) ==
    /\ endpoint[c] = "open" /\ queue[c] # <<>>
    /\ sent' = [sent EXCEPT ![c] = @ \cup {Head(queue[c])}]
    /\ queue' = [queue EXCEPT ![c] = Tail(@)]
    /\ UNCHANGED <<published, endpoint, filter, relayVars, since, selective>>

\* The command subscribe with an engine, or without one, or unsubscribe:
\* set_filter.  The frames that are queued already stay.
SetFilter(c, f) ==
    /\ endpoint[c] = "open" /\ filter[c] # f
    /\ filter' = [filter EXCEPT ![c] = f]
    /\ selective' = selective \cup {c}
    /\ UNCHANGED <<published, endpoint, queue, relayVars, since, sent>>

\* disconnect, and what only this connection referred to is gone.
Forget(c) ==
    /\ endpoint' = [endpoint EXCEPT ![c] = "gone"]
    /\ filter' = [filter EXCEPT ![c] = AnyEngine]
    /\ queue' = [queue EXCEPT ![c] = <<>>]
    /\ since' = [since EXCEPT ![c] = [r \in Clients |-> 0]]
    /\ sent' = [sent EXCEPT ![c] = {}]
    /\ selective' = selective \ {c}

\* Mutant: the relay task is not cancelled.
LeaveLeaksRelay(c) ==
    /\ endpoint[c] = "open"
    /\ Forget(c)
    /\ UNCHANGED <<published, relayVars>>

\* The client disconnects, or an exception leaves the endpoint: finally.
Leave(c) ==
    /\ endpoint[c] = "open"
    /\ relay' = [relay EXCEPT ![c] = "ended"]
    /\ cursor' = [cursor EXCEPT ![c] = 0]
    /\ Forget(c)
    /\ UNCHANGED published

\* Every connection is over.
AllGone == (\A c \in Clients : endpoint[c] = "gone") /\ UNCHANGED vars

Next ==
    \/ \E alert \in Engines \cup {Unreadable} : Publish(alert)
    \/ \E c \in Clients :
          \/ Connect(c) \/ Subscribe(c) \/ RelayDies(c) \/ Relay(c)
          \/ SendFrame(c) \/ Leave(c)
          \/ \E f \in Filters : SetFilter(c, f)
    \/ AllGone

\* A relay task runs when it has something to do.  No client has to read its
\* frames, and Redis may leave a SUBSCRIBE unanswered.
Fairness == \A c \in Clients : WF_vars(Relay(c))

Spec == Init /\ [][Next]_vars /\ Fairness

-----------------------------------------------------------------------------
\* The type of every variable: a queue never outgrows its bound, and a relay
\* and its Redis subscription end with the connection they belong to.
TypeOK ==
    /\ published \in Seq(Engines \cup {Unreadable}) /\ Len(published) <= MaxAlerts
    /\ endpoint \in [Clients -> {"new", "open", "gone"}]
    /\ filter \in [Clients -> Engines \cup {AnyEngine}]
    /\ queue \in [Clients -> Seq(Frame)]
    /\ \A c \in Clients : Len(queue[c]) <= queue_maxsize
    /\ relay \in [Clients -> {"none", "subscribing", "listening", "ended"}]
    /\ \A c \in Clients : /\ relay[c] = "none" <=> endpoint[c] = "new"
                          /\ endpoint[c] = "gone" => relay[c] = "ended"
    /\ cursor \in [Clients -> 0 .. MaxAlerts]
    /\ since \in [Clients -> [Clients -> 0 .. MaxAlerts]]
    /\ sent \in [Clients -> SUBSET Frame]
    /\ selective \subseteq Clients

\* Each relay reaches each client in the order of publication and with no
\* alert twice, although queue.get() is cancelled all the time.
RelayOrderKept ==
    \A c \in Clients : \A k \in 1 .. Len(queue[c]) :
        LET Earlier == sent[c] \cup {queue[c][j] : j \in 1 .. k - 1}
        IN  \A x \in Earlier : x.relay = queue[c][k].relay => x.alert < queue[c][k].alert

\* A client that asked for no filter and that never had a full queue gets from
\* every relay, living or dead, every alert the relay took since the two
\* of them are there: it pays for no other client's filter or slowness.
QuickClientMissesNothing ==
    \A c \in Clients \ selective : endpoint[c] = "open" =>
        \A r \in Clients : endpoint[r] = "open" =>
            {x \in sent[c] \cup ToSet(queue[c]) : x.relay = r}
                = {[alert |-> k, relay |-> r] :
                      k \in {k \in since[c][r] + 1 .. cursor[r] : published[k] # Unreadable}}

\* What is queued for a client is about the engine that this client asks for
\* at that moment, whichever client's relay queues it.
FilterRespected ==
    [][\A c \in Clients : Len(queue'[c]) > Len(queue[c]) =>
           filter[c] \in {AnyEngine, published[Last(queue'[c]).alert]}]_vars

\* websocket.py: "preventing a slow client from blocking the Redis
\* subscriber".  A relay catches up with Redis even if no client ever reads.
RelayNeverBlocked ==
    \A c \in Clients :
        relay[c] = "listening" ~> (cursor[c] = Len(published) \/ relay[c] # "listening")

\* websocket.py: "one Redis reader -> N connected WebSocket clients".  A client
\* is sent each alert at most once.
DeliveredOnce ==
    \A c \in Clients : \A x, y \in sent[c] : x.alert = y.alert => x = y
=============================================================================
