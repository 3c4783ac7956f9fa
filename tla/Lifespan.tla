------------------------------ MODULE Lifespan ------------------------------
(***************************************************************************)
(* The life of the process: lifespan() of app/main.py with create_pool()   *)
(* and run_migrations() of app/db/pool.py, over a database and a Redis     *)
(* that fail and recover.  An exception ends the process, which may also   *)
(* be killed anywhere; the container starts it again.  The schema outlives *)
(* the process, half of it too.                                            *)
(***************************************************************************)
EXTENDS Integers, Sequences, FiniteSets

CONSTANTS
    MaxKills,    \* bound on the kills of a behaviour
    MaxOutages   \* bound on the outages of the database and of Redis

ASSUME LifespanAssumption == MaxKills \in Nat /\ MaxOutages \in Nat

\* 001_initial_schema.sql: what each statement makes, and of what.
Migration == <<
    [makes |-> "timescaledb",         needs |-> {}],
    [makes |-> "readings",            needs |-> {}],
    [makes |-> "readings_hypertable", needs |-> {"timescaledb", "readings"}],
    [makes |-> "readings_engine",     needs |-> {"readings"}],
    [makes |-> "readings_retention",  needs |-> {"readings_hypertable"}],
    [makes |-> "readings_1min",       needs |-> {"readings_hypertable"}],
    [makes |-> "events",              needs |-> {}],
    [makes |-> "events_hypertable",   needs |-> {"timescaledb", "events"}],
    [makes |-> "events_engine",       needs |-> {"events"}],
    [makes |-> "events_severity",     needs |-> {"events"}],
    [makes |-> "events_retention",    needs |-> {"events_hypertable"}] >>

Schema == {Migration[k].makes : k \in DOMAIN Migration}

VARIABLES
    lifespan,   \* "down", "create_pool", "migrate", "load", "serving"
    statement,  \* the statement of the migration it is at
    schema,     \* what the database has of the schema
    artifacts,  \* "absent", "broken" or "complete" on the disk
    detector,   \* app.state.detector is not None
    up,         \* the servers that are up, of "timescaledb" and "redis"
    kills, outages

lifespanVars == <<lifespan, statement, schema, artifacts, detector, up, kills, outages>>

Servers == {"timescaledb", "redis"}

LifespanInit ==
    /\ lifespan = "down" /\ statement = 1 /\ schema = {}
    /\ artifacts \in {"absent", "broken", "complete"} /\ detector = FALSE
    /\ up = Servers
    /\ kills = 0 /\ outages = 0

\* The container starts the process.
Start ==
    /\ lifespan = "down"
    /\ lifespan' = "create_pool"
    /\ UNCHANGED <<statement, schema, artifacts, detector, up, kills, outages>>

\* create_pool connects min_size times ...
CreatePool ==
    /\ lifespan = "create_pool" /\ "timescaledb" \in up
    /\ lifespan' = "migrate" /\ statement' = 1
    /\ UNCHANGED <<schema, artifacts, detector, up, kills, outages>>

\* ... and what raises before the application serves ends the process.
RaiseOnStart ==
    /\ \/ lifespan \in {"create_pool", "migrate"} /\ "timescaledb" \notin up
       \/ lifespan = "load" /\ artifacts = "broken"
    /\ lifespan' = "down"
    /\ UNCHANGED <<statement, schema, artifacts, detector, up, kills, outages>>

\* The statement at hand.
Executes == Migration[statement]
LastStatement == statement = Len(Migration)

GoOn ==
    /\ statement' = statement + 1
    /\ lifespan' = IF LastStatement THEN "load" ELSE "migrate"

\* Mutant: every PostgresError skips its statement, not only the one that
\* says "already exists".
SkipAnyError ==
    /\ lifespan = "migrate"
    /\ GoOn
    /\ UNCHANGED <<schema, artifacts, detector, up, kills, outages>>

\* Mutant: plain CREATEs, whose "already exists" ends the start-up.
RaiseExisting ==
    /\ lifespan = "migrate" /\ "timescaledb" \in up
    /\ Executes.makes \in schema
    /\ lifespan' = "down"
    /\ UNCHANGED <<statement, schema, artifacts, detector, up, kills, outages>>

\* What is there already is a notice or an "already exists", and skipped.
SkipExisting ==
    /\ lifespan = "migrate" /\ "timescaledb" \in up
    /\ Executes.makes \in schema
    /\ GoOn
    /\ UNCHANGED <<schema, artifacts, detector, up, kills, outages>>

\* What is not there is made of what it needs.
Execute ==
    /\ lifespan = "migrate" /\ "timescaledb" \in up
    /\ Executes.makes \notin schema /\ Executes.needs \subseteq schema
    /\ schema' = schema \cup {Executes.makes}
    /\ GoOn
    /\ UNCHANGED <<artifacts, detector, up, kills, outages>>

\* The statement takes effect and its answer is lost with the connection.
ExecuteUnanswered ==
    /\ lifespan = "migrate" /\ "timescaledb" \in up /\ outages < MaxOutages
    /\ Executes.needs \subseteq schema
    /\ schema' = schema \cup {Executes.makes}
    /\ up' = up \ {"timescaledb"} /\ outages' = outages + 1
    /\ lifespan' = "down"
    /\ UNCHANGED <<statement, artifacts, detector, kills>>

\* The detector, if its files are there; the Redis client, which connects
\* when it is first used; then requests are served.
Serve ==
    /\ lifespan = "load" /\ artifacts # "broken"
    /\ detector' = (artifacts = "complete")
    /\ lifespan' = "serving"
    /\ UNCHANGED <<statement, schema, artifacts, up, kills, outages>>

\* The process is killed, or told to stop: the container starts it again.
Kill ==
    /\ lifespan # "down" /\ kills < MaxKills
    /\ lifespan' = "down" /\ kills' = kills + 1
    /\ UNCHANGED <<statement, schema, artifacts, detector, up, outages>>

\* A server goes down, or is up again.
Outage(s) ==
    /\ s \in up /\ outages < MaxOutages
    /\ up' = up \ {s} /\ outages' = outages + 1
    /\ UNCHANGED <<lifespan, statement, schema, artifacts, detector, kills>>
Recover(s) ==
    /\ s \notin up
    /\ up' = up \cup {s}
    /\ UNCHANGED <<lifespan, statement, schema, artifacts, detector, kills, outages>>

\* What the process does by itself.
Startup ==
    \/ Start \/ CreatePool \/ RaiseOnStart \/ SkipExisting \/ Execute \/ Serve

-----------------------------------------------------------------------------
LifespanTypeOK ==
    /\ lifespan \in {"down", "create_pool", "migrate", "load", "serving"}
    /\ statement \in 1 .. Len(Migration) + 1
    /\ lifespan = "migrate" => statement <= Len(Migration)
    /\ schema \subseteq Schema
    /\ artifacts \in {"absent", "broken", "complete"} /\ detector \in BOOLEAN
    /\ up \subseteq Servers
    /\ kills \in 0 .. MaxKills /\ outages \in 0 .. MaxOutages

\* No request is served on half a schema, whatever earlier starts left.
ServesOnSchema == lifespan = "serving" => schema = Schema

\* Whatever an earlier start left of the schema, the next one can complete
\* it: while the database stays up and no artifact is broken, the application
\* always gets to serve again.
StartsAgain ==
    []<>( \/ lifespan = "serving"
          \/ "timescaledb" \notin up \/ artifacts = "broken" )
=============================================================================
