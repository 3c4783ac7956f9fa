---------------------------- MODULE Application ----------------------------
(***************************************************************************)
(* The application seen from its reading side: lifespan() starts it, GET   *)
(* /health and GET /anomalies are served out of one connection pool, and   *)
(* everything in flight is lost when the process goes down.                *)
(***************************************************************************)
EXTENDS HealthCheck, AnomalyQuery

appVars == <<lifespanVars, poolVars, healthVars, queryVars>>

AppInit == LifespanInit /\ NewPool /\ HealthInit /\ QueryInit

\* The start-up: no request is served yet.
AppStart ==
    /\ UNCHANGED <<poolVars, healthVars, queryVars>>
    /\ Startup

AppLosesAnswer ==
    /\ UNCHANGED <<poolVars, healthVars, queryVars>>
    /\ ExecuteUnanswered

\* The process goes down with its pool and its requests; the client asks
\* for its page again.
AppKill ==
    /\ Kill
    /\ queue' = <<>> /\ holders' = {}
    /\ probe' = "idle" /\ reported' = {} /\ upDuring' = {}
    /\ call' = "idle" /\ counted' = {} /\ page' = {}
    /\ UNCHANGED <<table, filter, range, offset, seen, done, dropped, first>>

\* The servers fail and recover by themselves.
AppServers ==
    /\ \E s \in Servers : Outage(s) \/ Recover(s)
    /\ Witness
    /\ UNCHANGED <<poolVars, queryVars>>

\* GET /health.
AppHealth(step) == UNCHANGED <<lifespanVars, queryVars>> /\ step
AppAskHealth == AppHealth(AskHealth)
AppProbe == AppHealth(Health)

\* GET /anomalies: its statements need the database, its failures do not.
AppQuery(step) == UNCHANGED <<lifespanVars, healthVars>> /\ step
AppAsk == lifespan = "serving" /\ AppQuery(\E g \in Ranges : Ask(g))
AppAnswer ==
    \/ AppQuery(QueryConnection \/ QueryRaises \/ Take)
    \/ "timescaledb" \in up /\ AppQuery(Count \/ \E P \in SUBSET Matching : Page(P))

\* What others do to the table.
AppTable ==
    /\ "timescaledb" \in up
    /\ \/ lifespan = "serving" /\ \E x \in Rows : InsertRow(x)
       \/ "events_retention" \in schema /\ \E x \in Rows : DropOlder(x.time)
    /\ UNCHANGED <<lifespanVars, poolVars, healthVars>>

AppNext ==
    \/ AppStart \/ AppLosesAnswer \/ AppKill \/ AppServers
    \/ AppAskHealth \/ AppProbe
    \/ AppAsk \/ AppAnswer \/ AppTable

\* The process starts when it is down, and the loop runs what is ready; a
\* statement or a PING ends one way or the other.  Nobody has to ask, and no
\* server has to fail or to recover.
AppFairness ==
    WF_appVars(AppStart) /\ WF_appVars(AppProbe) /\ WF_appVars(AppAnswer)

AppSpec == AppInit /\ [][AppNext]_appVars /\ AppFairness

-----------------------------------------------------------------------------
Users == {"query", "health"}
InBlock(u) == IF u = "query" THEN call \in {"count", "page"} ELSE probe = "select"
InLine(u) == IF u = "query" THEN call = "acquire" ELSE probe = "acquire"

\* The types of all parts; a connection is held by who is in its block and by
\* nobody else, who waits in line waits once, and nobody does while the
\* application does not serve.
AppTypeOK ==
    /\ LifespanTypeOK /\ HealthTypeOK /\ QueryTypeOK
    /\ holders = {u \in Users : InBlock(u)}
    /\ queue \in Seq(Users)
    /\ {queue[k] : k \in 1 .. Len(queue)} = {u \in Users : InLine(u)}
    /\ \A j, k \in 1 .. Len(queue) : queue[j] = queue[k] => j = k
    /\ lifespan # "serving" => holders = {} /\ queue = <<>> /\ call = "idle" /\ probe = "idle"

\* Every request gets an answer or is lost with the process, although the
\* pool lets it wait without a limit: no exception keeps a connection.
RequestsAnswered ==
    /\ call = "acquire" ~> call = "idle"
    /\ probe = "acquire" ~> probe = "idle"
=============================================================================
