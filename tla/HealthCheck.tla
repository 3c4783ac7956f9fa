---------------------------- MODULE HealthCheck ----------------------------
(***************************************************************************)
(* GET /api/v1/health (app/api/health.py): the database, Redis and the     *)
(* detector are probed one after the other; each probe that raises is      *)
(* reported and the next one made.                                         *)
(***************************************************************************)
EXTENDS Lifespan, ConnectionPool

VARIABLES
    probe,      \* "idle", "acquire", "select", "ping", "answer"
    reported,   \* the servers whose status is "ok" so far
    upDuring    \* history: the servers that were up at a moment of the request

healthVars == <<probe, reported, upDuring>>

HealthInit == probe = "idle" /\ reported = {} /\ upDuring = {}

\* The request comes, and its handler enters pool.acquire().
AskHealth ==
    /\ lifespan = "serving" /\ probe = "idle"
    /\ probe' = "acquire" /\ Enqueue("health")
    /\ upDuring' = up
    /\ UNCHANGED reported

\* History: the servers that come up while the request is under way count.
Witness ==
    /\ upDuring' = IF probe = "idle" THEN upDuring ELSE upDuring \cup up'
    /\ UNCHANGED <<probe, reported>>

GetConnection ==
    /\ probe = "acquire" /\ Acquire("health")
    /\ probe' = "select"
    /\ UNCHANGED <<reported, upDuring>>

\* Mutant: both probes in one try, so that the first that raises is the last.
SelectFailsAll ==
    /\ probe = "select"
    /\ probe' = "ping" /\ Release("health")
    /\ reported' = reported \cup {"redis"}
    /\ UNCHANGED upDuring

\* SELECT 1 raises: the server is down, the connection was or could not be
\* made, or it took too long.
SelectFails ==
    /\ probe = "select"
    /\ probe' = "ping" /\ Release("health")
    /\ UNCHANGED <<reported, upDuring>>

SelectOk ==
    /\ probe = "select" /\ "timescaledb" \in up
    /\ probe' = "ping" /\ Release("health")
    /\ reported' = reported \cup {"timescaledb"}
    /\ UNCHANGED upDuring

PingFails ==
    /\ probe = "ping" /\ probe' = "answer"
    /\ UNCHANGED <<poolVars, reported, upDuring>>

PingOk ==
    /\ probe = "ping" /\ "redis" \in up
    /\ probe' = "answer" /\ reported' = reported \cup {"redis"}
    /\ UNCHANGED <<poolVars, upDuring>>

\* The overall status.
Overall == IF reported = Servers /\ detector THEN "ok" ELSE "degraded"

\* The answer goes out.
Respond ==
    /\ probe = "answer" /\ probe' = "idle"
    /\ reported' = {} /\ upDuring' = {}
    /\ UNCHANGED poolVars

Health == GetConnection \/ SelectFails \/ SelectOk \/ PingFails \/ PingOk \/ Respond

-----------------------------------------------------------------------------
HealthTypeOK ==
    /\ probe \in {"idle", "acquire", "select", "ping", "answer"}
    /\ reported \subseteq Servers /\ upDuring \subseteq Servers

\* What an answer calls ok was up at some moment of the very request, and a
\* server that was down throughout is named, whatever the others do; "ok"
\* stands for all of them.  (That they were up at the same moment it does
\* not say: the probes are made one after the other.)
OkWasUp ==
    probe = "answer" =>
        /\ reported \subseteq upDuring
        /\ Overall = "ok" => upDuring = Servers /\ artifacts = "complete"
=============================================================================
