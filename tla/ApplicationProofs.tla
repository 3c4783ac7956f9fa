------------------------- MODULE ApplicationProofs -------------------------
(***************************************************************************)
(* Theorems about Application, for every pool size, page size, set of rows *)
(* and number of kills and outages: what is served when, what a health     *)
(* answer stands for, and what a client that turns the pages gets.         *)
(***************************************************************************)
EXTENDS Application, FiniteSetTheorems, TLAPS

-----------------------------------------------------------------------------
(* Waiting in line.                                                        *)

Waiting(q) == {q[k] : k \in 1 .. Len(q)}
Once(q) == \A j, k \in 1 .. Len(q) : q[j] = q[k] => j = k

LEMMA LineAppend ==
    ASSUME NEW q \in Seq(Users), Once(q), NEW u \in Users, u \notin Waiting(q)
    PROVE  /\ Append(q, u) \in Seq(Users)
           /\ Waiting(Append(q, u)) = Waiting(q) \cup {u}
           /\ Once(Append(q, u))
  <1> DEFINE p == Append(q, u)
  <1>1. /\ p \in Seq(Users) /\ Len(p) = Len(q) + 1 /\ Len(q) \in Nat
        /\ \A k \in 1 .. Len(q) : p[k] = q[k]
        /\ p[Len(p)] = u
    OBVIOUS
  <1>2. Waiting(p) \subseteq Waiting(q) \cup {u}
    BY <1>1 DEF Waiting
  <1>3. \A k \in 1 .. Len(q) : k \in 1 .. Len(p)
    BY <1>1
  <1>4. Waiting(q) \subseteq Waiting(p)
    BY <1>1, <1>3 DEF Waiting
  <1>5. u \in Waiting(p)
    BY <1>1 DEF Waiting
  <1>6. Once(p)
    BY <1>1 DEF Once, Waiting
  <1> QED
    BY <1>1, <1>2, <1>4, <1>5, <1>6

LEMMA LineTail ==
    ASSUME NEW q \in Seq(Users), Once(q), q # <<>>
    PROVE  /\ Tail(q) \in Seq(Users)
           /\ Head(q) \in Waiting(q)
           /\ Waiting(Tail(q)) = Waiting(q) \ {Head(q)}
           /\ Once(Tail(q))
  <1> DEFINE p == Tail(q)
  <1>1. /\ p \in Seq(Users) /\ Len(q) \in Nat \ {0} /\ Len(p) = Len(q) - 1
        /\ \A k \in 1 .. Len(p) : p[k] = q[k + 1]
        /\ Head(q) = q[1]
    OBVIOUS
  <1>2. \A k \in 1 .. Len(p) : k + 1 \in 1 .. Len(q) /\ k + 1 # 1
    BY <1>1
  <1>3. Waiting(p) \subseteq Waiting(q) \ {Head(q)}
    BY <1>1, <1>2 DEF Waiting, Once
  <1>4. ASSUME NEW j \in 1 .. Len(q), q[j] # Head(q) PROVE q[j] \in Waiting(p)
    <2>1. j - 1 \in 1 .. Len(p) /\ p[j - 1] = q[j]
      BY <1>1, <1>4
    <2> QED
      BY <2>1 DEF Waiting
  <1>5. Once(p)
    BY <1>1, <1>2 DEF Once
  <1>6. Head(q) \in Waiting(q)
    BY <1>1 DEF Waiting
  <1>7. Waiting(q) \ {Head(q)} \subseteq Waiting(p)
    BY <1>4 DEF Waiting
  <1> QED
    BY <1>1, <1>3, <1>5, <1>6, <1>7

-----------------------------------------------------------------------------
(* Types.  The pool part of AppTypeOK is inductive by itself: who waits is *)
(* in the line, who is in the block is among the holders.                  *)

PoolOK ==
    /\ holders = {u \in Users : InBlock(u)}
    /\ queue \in Seq(Users) /\ Waiting(queue) = {u \in Users : InLine(u)} /\ Once(queue)
    /\ lifespan # "serving" => holders = {} /\ queue = <<>> /\ call = "idle" /\ probe = "idle"

LEMMA AppTypeParts == AppTypeOK <=> LifespanTypeOK /\ HealthTypeOK /\ QueryTypeOK /\ PoolOK
  BY DEF AppTypeOK, PoolOK, Waiting, Once

LEMMA EmptyLine == <<>> \in Seq(Users) /\ Waiting(<<>>) = {} /\ Once(<<>>)
  BY DEF Waiting, Once

LEMMA MigrationShape ==
    /\ Len(Migration) = 11 /\ DOMAIN Migration = 1 .. 11
    /\ \A k \in 1 .. 11 : Migration[k].makes \in Schema
  <1>1. Len(Migration) = 11 /\ DOMAIN Migration = 1 .. 11
    BY DEF Migration
  <1> QED
    BY <1>1 DEF Schema

\* Everything the process and the servers do to the life of the process.
LifespanStep ==
    \/ Startup \/ ExecuteUnanswered \/ Kill
    \/ \E s \in Servers : Outage(s) \/ Recover(s)
    \/ UNCHANGED lifespanVars

LEMMA LifespanTypeNext == LifespanTypeOK /\ LifespanStep => LifespanTypeOK'
  <1> SUFFICES ASSUME LifespanTypeOK, LifespanStep PROVE LifespanTypeOK'
    OBVIOUS
  <1> USE LifespanAssumption, MigrationShape DEF LifespanTypeOK
  <1>1. CASE Start \/ CreatePool \/ RaiseOnStart
    BY <1>1 DEF Start, CreatePool, RaiseOnStart
  <1>7. CASE Serve
    <2>1. detector' \in BOOLEAN
      BY <1>7, Zenon DEF Serve
    <2> QED
      BY <1>7, <2>1 DEF Serve
  <1>2. CASE SkipExisting \/ Execute
    <2>1. statement \in 1 .. 11 /\ Executes.makes \in Schema /\ GoOn
      BY <1>2 DEF SkipExisting, Execute, Executes
    <2>2. /\ statement' \in 1 .. 12 /\ lifespan' \in {"load", "migrate"}
          /\ lifespan' = "migrate" => statement' <= 11
      BY <2>1 DEF GoOn, LastStatement
    <2>3. schema' \subseteq Schema
      BY <1>2, <2>1 DEF SkipExisting, Execute
    <2> QED
      BY <1>2, <2>2, <2>3 DEF SkipExisting, Execute
  <1>3. CASE ExecuteUnanswered
    BY <1>3 DEF ExecuteUnanswered, Executes
  <1>4. CASE Kill
    BY <1>4 DEF Kill
  <1>5. CASE \E s \in Servers : Outage(s) \/ Recover(s)
    BY <1>5 DEF Outage, Recover
  <1>6. CASE UNCHANGED lifespanVars
    BY <1>6 DEF lifespanVars
  <1> QED
    BY <1>1, <1>2, <1>3, <1>4, <1>5, <1>6, <1>7 DEF LifespanStep, Startup

LEMMA AppLifespan == [AppNext]_appVars => LifespanStep
  BY DEF AppNext, AppStart, AppLosesAnswer, AppKill, AppServers, AppAskHealth, AppProbe,
         AppHealth, AppAsk, AppAnswer, AppQuery, AppTable, LifespanStep, appVars

LEMMA HealthTypeNext ==
    ASSUME LifespanTypeOK, LifespanTypeOK', HealthTypeOK, [AppNext]_appVars
    PROVE  HealthTypeOK'
  <1> USE DEF HealthTypeOK, healthVars
  <1>1. CASE AppServers
    BY <1>1 DEF AppServers, Witness, LifespanTypeOK
  <1>2. CASE AppAskHealth
    BY <1>2 DEF AppAskHealth, AppHealth, AskHealth, LifespanTypeOK
  <1>3. CASE AppProbe
    BY <1>3 DEF AppProbe, AppHealth, Health, GetConnection, SelectFails, SelectOk, PingFails,
                PingOk, Respond, Servers
  <1>4. CASE AppKill
    BY <1>4 DEF AppKill
  <1>5. CASE UNCHANGED healthVars
    BY <1>5
  <1> QED
    BY <1>1, <1>2, <1>3, <1>4, <1>5
    DEF AppNext, AppStart, AppLosesAnswer, AppAsk, AppAnswer, AppQuery, AppTable, appVars

\* The requests that are lost, with the process or by an exception.
Lost ==
    /\ call' = "idle" /\ counted' = {} /\ page' = {}
    /\ UNCHANGED <<table, filter, range, offset, seen, done, dropped, first>>

\* Everything that happens to the pages and to the rows.
QueryStep ==
    \/ \E x \in Rows : InsertRow(x)
    \/ \E x \in Rows : DropOlder(x.time)
    \/ \E g \in Ranges : Ask(g)
    \/ QueryConnection \/ Count \/ Take \/ QueryRaises
    \/ \E P \in SUBSET Matching : Page(P)
    \/ Lost
    \/ UNCHANGED queryVars

LEMMA AppPages == [AppNext]_appVars => QueryStep
  BY DEF AppNext, AppStart, AppLosesAnswer, AppKill, AppServers, AppAskHealth, AppProbe,
         AppHealth, AppAsk, AppAnswer, AppQuery, AppTable, QueryStep, Lost, appVars

LEMMA QueryTypeNext == QueryTypeOK /\ QueryStep => QueryTypeOK'
  <1> SUFFICES ASSUME QueryTypeOK, QueryStep PROVE QueryTypeOK'
    OBVIOUS
  <1> USE QueryAssumption DEF QueryTypeOK
  <1>1. CASE \E x \in Rows : InsertRow(x)
    BY <1>1 DEF InsertRow, clientVars
  <1>2. CASE \E x \in Rows : DropOlder(x.time)
    <2>1. PICK x \in Rows : DropOlder(x.time)
      BY <1>2
    <2>2. table' \subseteq table /\ dropped' = dropped \cup (table \ table')
      BY <2>1 DEF DropOlder
    <2> QED
      BY <2>1, <2>2 DEF DropOlder, clientVars
  <1>3. CASE \/ \E g \in Ranges : Ask(g)
             \/ QueryConnection \/ QueryRaises \/ Lost \/ UNCHANGED queryVars
    BY <1>3 DEF Ask, QueryConnection, QueryRaises, Lost, queryVars
  <1>4. CASE Take
    <2>1. offset' \in Nat
      BY <1>4 DEF Take
    <2>2. done' \in BOOLEAN
      <3>1. (Cardinality(page) < limit) \in BOOLEAN
        OBVIOUS
      <3> QED
        BY <1>4, <3>1, Zenon DEF Take
    <2> QED
      BY <1>4, <2>1, <2>2 DEF Take
  <1>5. CASE Count
    BY <1>5 DEF Count, Matching
  <1>6. CASE \E P \in SUBSET Matching : Page(P)
    BY <1>6 DEF Page, Matching
  <1> QED
    BY <1>1, <1>2, <1>3, <1>4, <1>5, <1>6 DEF QueryStep

\* Only a kill stops the application while it serves.
LEMMA ServingEnds ==
    ASSUME lifespan = "serving", [AppNext]_appVars
    PROVE  lifespan' = "serving" \/ AppKill
  BY DEF AppNext, AppStart, AppLosesAnswer, AppServers, AppAskHealth, AppProbe, AppHealth,
         AppAsk, AppAnswer, AppQuery, AppTable, appVars, lifespanVars, Startup, Start, CreatePool,
         RaiseOnStart, SkipExisting, Execute, Serve, ExecuteUnanswered, Outage, Recover

LEMMA PoolNext ==
    ASSUME PoolOK, HealthTypeOK, QueryTypeOK, [AppNext]_appVars
    PROVE  PoolOK'
  <1> DEFINE Block == {u \in Users : InBlock(u)}
             Line == {u \in Users : InLine(u)}
  <1>0. /\ holders = Block /\ queue \in Seq(Users) /\ Waiting(queue) = Line /\ Once(queue)
        /\ lifespan # "serving" => holders = {} /\ queue = <<>> /\ call = "idle" /\ probe = "idle"
    BY DEF PoolOK
  <1>1. Waiting(queue)' = Waiting(queue') /\ (Once(queue)' <=> Once(queue'))
    BY DEF Waiting, Once
  <1>2. CASE AppKill
    <2>1. Block' = {} /\ Line' = {}
      BY <1>2 DEF AppKill, InBlock, InLine
    <2> QED
      BY <1>1, <1>2, <2>1, EmptyLine DEF AppKill, PoolOK
  <1>3. CASE UNCHANGED <<queue, holders, call, probe>> /\ ~AppKill
    <2>1. lifespan' # "serving" => lifespan # "serving"
      BY <1>3, ServingEnds
    <2>2. Block' = Block /\ Line' = Line
      BY <1>3 DEF InBlock, InLine
    <2> QED
      BY <1>0, <1>1, <1>3, <2>1, <2>2 DEF PoolOK
  <1>4. ASSUME lifespan = "serving", lifespan' = "serving", NEW u \in Users, Enqueue(u),
               u \notin Line, Line' = Line \cup {u}, Block' = Block
        PROVE  PoolOK'
    <2>1. queue' = Append(queue, u) /\ holders' = holders
      BY <1>4 DEF Enqueue
    <2>2. queue' \in Seq(Users) /\ Waiting(queue') = Line \cup {u} /\ Once(queue')
      BY <1>0, <1>4, <2>1, LineAppend
    <2> QED
      BY <1>0, <1>1, <1>4, <2>1, <2>2 DEF PoolOK
  <1>5. ASSUME lifespan = "serving", lifespan' = "serving", NEW u \in Users, Acquire(u),
               Line' = Line \ {u}, Block' = Block \cup {u}
        PROVE  PoolOK'
    <2>1. queue' = Tail(queue) /\ u = Head(queue) /\ queue # <<>> /\ holders' = holders \cup {u}
      BY <1>5 DEF Acquire
    <2>2. queue' \in Seq(Users) /\ Waiting(queue') = Line \ {u} /\ Once(queue')
      BY <1>0, <2>1, LineTail
    <2> QED
      BY <1>0, <1>1, <1>5, <2>1, <2>2 DEF PoolOK
  <1>6. ASSUME lifespan = "serving", lifespan' = "serving", NEW u \in Users,
               UNCHANGED queue, holders' = holders \ {u}, Line' = Line, Block' = Block \ {u}
        PROVE  PoolOK'
    BY <1>0, <1>1, <1>6 DEF PoolOK
  <1>7. ASSUME lifespan = "serving", lifespan' = "serving",
               UNCHANGED <<queue, holders>>, Line' = Line, Block' = Block
        PROVE  PoolOK'
    BY <1>0, <1>1, <1>7 DEF PoolOK
  <1>8. CASE AppAskHealth
    <2>1. /\ lifespan = "serving" /\ lifespan' = lifespan
          /\ probe = "idle" /\ probe' = "acquire" /\ call' = call /\ Enqueue("health")
      BY <1>8 DEF AppAskHealth, AppHealth, AskHealth, lifespanVars, queryVars
    <2>2. "health" \notin Line /\ Line' = Line \cup {"health"} /\ Block' = Block
      BY <2>1 DEF InBlock, InLine, Users
    <2> QED
      BY <1>4, <2>1, <2>2 DEF Users
  <1>9. CASE AppProbe
    <2>1. lifespan = "serving" /\ lifespan' = lifespan /\ call' = call
      BY <1>0, <1>9 DEF AppProbe, AppHealth, Health, GetConnection, SelectFails, SelectOk,
                        PingFails, PingOk, Respond, lifespanVars, queryVars
    <2>2. CASE GetConnection
      <3>1. Line' = Line \ {"health"} /\ Block' = Block \cup {"health"}
        BY <2>1, <2>2 DEF GetConnection, InBlock, InLine, Users
      <3> QED
        BY <1>5, <2>1, <2>2, <3>1 DEF GetConnection, Users
    <2>3. CASE SelectFails \/ SelectOk
      <3>1. Line' = Line /\ Block' = Block \ {"health"}
        BY <2>1, <2>3 DEF SelectFails, SelectOk, InBlock, InLine, Users
      <3> QED
        BY <1>6, <2>1, <2>3, <3>1 DEF SelectFails, SelectOk, Release, Users
    <2>4. CASE PingFails \/ PingOk \/ Respond
      <3>1. Line' = Line /\ Block' = Block
        BY <2>1, <2>4 DEF PingFails, PingOk, Respond, InBlock, InLine
      <3> QED
        BY <1>7, <2>1, <2>4, <3>1 DEF PingFails, PingOk, Respond, poolVars
    <2> QED
      BY <1>9, <2>2, <2>3, <2>4 DEF AppProbe, AppHealth, Health
  <1>10. CASE AppAsk
    <2>1. /\ lifespan = "serving" /\ lifespan' = lifespan
          /\ call = "idle" /\ call' = "acquire" /\ probe' = probe /\ Enqueue("query")
      BY <1>10 DEF AppAsk, AppQuery, Ask, lifespanVars, healthVars
    <2>2. "query" \notin Line /\ Line' = Line \cup {"query"} /\ Block' = Block
      BY <2>1 DEF InBlock, InLine, Users
    <2> QED
      BY <1>4, <2>1, <2>2 DEF Users
  <1>11. CASE AppAnswer
    <2>0. QueryConnection \/ QueryRaises \/ Take \/ Count \/ \E P \in SUBSET Matching : Page(P)
      BY <1>11 DEF AppAnswer, AppQuery
    <2>1. lifespan = "serving" /\ lifespan' = lifespan /\ probe' = probe
      BY <1>0, <1>11, <2>0 DEF AppAnswer, AppQuery, QueryConnection, QueryRaises, Take, Count,
                               Page, lifespanVars, healthVars
    <2>2. CASE QueryConnection
      <3>1. Line' = Line \ {"query"} /\ Block' = Block \cup {"query"}
        BY <2>1, <2>2 DEF QueryConnection, InBlock, InLine, Users
      <3> QED
        BY <1>5, <2>1, <2>2, <3>1 DEF QueryConnection, Users
    <2>3. CASE QueryRaises \/ \E P \in SUBSET Matching : Page(P)
      <3>1. Line' = Line /\ Block' = Block \ {"query"} /\ Release("query")
        BY <2>1, <2>3 DEF QueryRaises, Page, InBlock, InLine, Users
      <3> QED
        BY <1>6, <2>1, <3>1 DEF Release, Users
    <2>4. CASE Count \/ Take
      <3>1. Line' = Line /\ Block' = Block
        BY <2>1, <2>4 DEF Count, Take, InBlock, InLine
      <3> QED
        BY <1>7, <2>1, <2>4, <3>1 DEF Count, Take, poolVars
    <2> QED
      BY <2>0, <2>2, <2>3, <2>4
  <1>12. CASE AppStart \/ AppLosesAnswer \/ AppServers \/ AppTable \/ UNCHANGED appVars
    <2>1. UNCHANGED <<queue, holders, call, probe>>
      BY <1>12 DEF AppStart, AppLosesAnswer, AppServers, AppTable, appVars, poolVars, healthVars,
                   queryVars, Witness, InsertRow, DropOlder, clientVars
    <2> QED
      BY <1>2, <1>3, <2>1
  <1> QED
    BY <1>2, <1>8, <1>9, <1>10, <1>11, <1>12 DEF AppNext

LEMMA AppTypeInit == AppInit => AppTypeOK
  <1> SUFFICES ASSUME AppInit PROVE AppTypeOK
    OBVIOUS
  <1>1. LifespanTypeOK
    <2>1. detector \in BOOLEAN
      BY Zenon DEF AppInit, LifespanInit
    <2> QED
      BY <2>1, LifespanAssumption, MigrationShape DEF AppInit, LifespanInit, LifespanTypeOK
  <1>2. HealthTypeOK
    BY DEF AppInit, HealthInit, HealthTypeOK
  <1>3. QueryTypeOK
    BY DEF AppInit, QueryInit, QueryTypeOK
  <1>4. {u \in Users : InBlock(u)} = {} /\ {u \in Users : InLine(u)} = {}
    BY DEF AppInit, HealthInit, QueryInit, InBlock, InLine
  <1>5. PoolOK
    BY <1>4, EmptyLine DEF AppInit, NewPool, HealthInit, QueryInit, PoolOK
  <1> QED
    BY <1>1, <1>2, <1>3, <1>5, AppTypeParts

LEMMA AppTypeNext == AppTypeOK /\ [AppNext]_appVars => AppTypeOK'
  <1> SUFFICES ASSUME AppTypeOK, [AppNext]_appVars PROVE AppTypeOK'
    OBVIOUS
  <1>0. LifespanTypeOK /\ HealthTypeOK /\ QueryTypeOK /\ PoolOK
    BY AppTypeParts
  <1>1. LifespanTypeOK'
    BY <1>0, AppLifespan, LifespanTypeNext
  <1>2. HealthTypeOK'
    BY <1>0, <1>1, HealthTypeNext
  <1>3. QueryTypeOK'
    BY <1>0, AppPages, QueryTypeNext
  <1>4. PoolOK'
    BY <1>0, PoolNext
  <1>5. LifespanTypeOK' /\ HealthTypeOK' /\ QueryTypeOK' /\ PoolOK' => AppTypeOK'
    BY DEF AppTypeOK, PoolOK, Waiting, Once
  <1> QED
    BY <1>1, <1>2, <1>3, <1>4, <1>5

\* Whatever the requests do and wherever they or the process end, a connection
\* is held by who is in its block, and nobody waits twice.
THEOREM AppTypeCorrect == AppSpec => []AppTypeOK
  BY AppTypeInit, AppTypeNext, PTL DEF AppSpec

-----------------------------------------------------------------------------
(* The life of the process.                                                *)

\* What the statements behind it made is there; after the last one that is
\* the whole schema.
LifeInv ==
    /\ lifespan = "migrate" => \A k \in 1 .. statement - 1 : Migration[k].makes \in schema
    /\ lifespan \in {"load", "serving"} => schema = Schema
    /\ lifespan = "serving" => (detector <=> artifacts = "complete")

LEMMA LifeNext ==
    ASSUME LifespanTypeOK, LifespanTypeOK', LifeInv, LifespanStep
    PROVE  LifeInv'
  <1>1. CASE Start \/ RaiseOnStart \/ ExecuteUnanswered \/ Kill
    BY <1>1 DEF Start, RaiseOnStart, ExecuteUnanswered, Kill, LifeInv
  <1>2. CASE CreatePool
    BY <1>2 DEF CreatePool, LifeInv
  <1>3. CASE SkipExisting \/ Execute
    <2>1. /\ lifespan = "migrate" /\ GoOn /\ statement \in 1 .. 11
          /\ schema \subseteq schema' /\ Migration[statement].makes \in schema'
      BY <1>3, MigrationShape DEF SkipExisting, Execute, Executes, LifespanTypeOK
    <2>2. \A k \in 1 .. statement : Migration[k].makes \in schema'
      <3>1. \A k \in 1 .. statement : k = statement \/ k \in 1 .. statement - 1
        BY <2>1
      <3> QED
        BY <2>1, <3>1 DEF LifeInv
    <2>3. statement = 11 => schema' = Schema
      BY <2>2, MigrationShape DEF Schema, LifespanTypeOK
    <2>4. /\ statement' - 1 = statement
          /\ lifespan' = IF statement = 11 THEN "load" ELSE "migrate"
      BY <2>1, MigrationShape DEF GoOn, LastStatement
    <2> QED
      BY <2>2, <2>3, <2>4 DEF LifeInv
  <1>4. CASE Serve
    BY <1>4 DEF Serve, LifeInv
  <1>5. CASE \E s \in Servers : Outage(s) \/ Recover(s)
    BY <1>5 DEF Outage, Recover, LifeInv
  <1>6. CASE UNCHANGED lifespanVars
    BY <1>6 DEF lifespanVars, LifeInv
  <1> QED
    BY <1>1, <1>2, <1>3, <1>4, <1>5, <1>6 DEF LifespanStep, Startup

\* Whatever earlier starts left behind, requests are served on the whole
\* schema only.
THEOREM ServesOnSchemaCorrect == AppSpec => []ServesOnSchema
  <1>1. AppInit => LifeInv
    BY DEF AppInit, LifespanInit, LifeInv
  <1>2. AppTypeOK /\ AppTypeOK' /\ LifeInv /\ [AppNext]_appVars => LifeInv'
    BY AppLifespan, LifeNext DEF AppTypeOK
  <1>3. LifeInv => ServesOnSchema
    BY DEF LifeInv, ServesOnSchema
  <1> QED
    BY <1>1, <1>2, <1>3, AppTypeCorrect, PTL DEF AppSpec

\* Every statement of the migration finds what it needs among what the earlier
\* ones make.
LEMMA MigrationOrdered ==
    \A k \in 1 .. 11 : Migration[k].needs \subseteq {Migration[j].makes : j \in 1 .. k - 1}
  <1>1. /\ 1 \in 1 .. 3 - 1 /\ 2 \in 1 .. 3 - 1 /\ 2 \in 1 .. 4 - 1 /\ 3 \in 1 .. 5 - 1
        /\ 3 \in 1 .. 6 - 1 /\ 1 \in 1 .. 8 - 1 /\ 7 \in 1 .. 8 - 1 /\ 7 \in 1 .. 9 - 1
        /\ 7 \in 1 .. 10 - 1 /\ 8 \in 1 .. 11 - 1
    OBVIOUS
  <1>2. /\ Migration[1].makes = "timescaledb" /\ Migration[2].makes = "readings"
        /\ Migration[3].makes = "readings_hypertable" /\ Migration[7].makes = "events"
        /\ Migration[8].makes = "events_hypertable"
    BY DEF Migration
  <1>3. /\ Migration[1].needs = {} /\ Migration[2].needs = {} /\ Migration[7].needs = {}
        /\ Migration[3].needs = {"timescaledb", "readings"}
        /\ Migration[4].needs = {"readings"}
        /\ Migration[5].needs = {"readings_hypertable"}
        /\ Migration[6].needs = {"readings_hypertable"}
        /\ Migration[8].needs = {"timescaledb", "events"}
        /\ Migration[9].needs = {"events"} /\ Migration[10].needs = {"events"}
        /\ Migration[11].needs = {"events_hypertable"}
    BY DEF Migration
  <1>4. \A k \in 1 .. 11 : k \in {1, 2, 3, 4, 5, 6, 7, 8, 9, 10, 11}
    OBVIOUS
  <1> QED
    BY <1>1, <1>2, <1>3, <1>4

\* A start-up that is at a statement can execute it or skip it.
NeverStuck ==
    lifespan = "migrate" => \/ Executes.makes \in schema
                            \/ Executes.needs \subseteq schema

\* What a start-up has left to do at most.
StartLeft ==
    CASE lifespan = "down" -> Len(Migration) + 3
      [] lifespan = "create_pool" -> Len(Migration) + 2
      [] lifespan = "migrate" -> Len(Migration) + 2 - statement
      [] lifespan = "load" -> 1
      [] OTHER -> 0

\* While the database is up and no artifact is broken, a start-up only gets
\* closer to its end; and nothing of the schema is ever lost.
StartAdvances ==
    [][/\ schema \subseteq schema'
       /\ Startup /\ "timescaledb" \in up /\ artifacts # "broken" => StartLeft' < StartLeft]_appVars

LEMMA StartStep ==
    ASSUME LifespanTypeOK, Startup, "timescaledb" \in up, artifacts # "broken"
    PROVE  StartLeft' < StartLeft /\ StartLeft \in Nat /\ StartLeft' \in Nat
  <1> USE MigrationShape DEF StartLeft
  <1>1. CASE Start
    BY <1>1 DEF Start
  <1>2. CASE CreatePool
    BY <1>2 DEF CreatePool
  <1>3. CASE RaiseOnStart
    BY <1>3 DEF RaiseOnStart
  <1>4. CASE SkipExisting \/ Execute
    <2>1. /\ lifespan = "migrate" /\ statement \in 1 .. 11 /\ statement' = statement + 1
          /\ lifespan' = IF statement = 11 THEN "load" ELSE "migrate"
      BY <1>4 DEF SkipExisting, Execute, GoOn, LastStatement, LifespanTypeOK
    <2> QED
      BY <2>1
  <1>5. CASE Serve
    BY <1>5 DEF Serve
  <1> QED
    BY <1>1, <1>2, <1>3, <1>4, <1>5 DEF Startup

\* The safety part of "the application starts again": whatever an earlier start
\* left of the schema, no statement of the migration is one that the start-up
\* can neither execute nor skip, and with the database up every step of the
\* start-up is one of a bounded number before it serves.
THEOREM StartUpAdvances == AppSpec => []NeverStuck /\ StartAdvances
  <1>1. AppInit => LifeInv
    BY DEF AppInit, LifespanInit, LifeInv
  <1>2. AppTypeOK /\ AppTypeOK' /\ LifeInv /\ [AppNext]_appVars => LifeInv'
    BY AppLifespan, LifeNext DEF AppTypeOK
  <1>3. AppTypeOK /\ LifeInv => NeverStuck
    <2> SUFFICES ASSUME AppTypeOK, LifeInv, lifespan = "migrate"
                 PROVE  Executes.needs \subseteq schema
      BY DEF NeverStuck
    <2>1. statement \in 1 .. 11
      BY MigrationShape DEF AppTypeOK, LifespanTypeOK
    <2>2. {Migration[j].makes : j \in 1 .. statement - 1} \subseteq schema
      BY DEF LifeInv
    <2>3. Migration[statement].needs \subseteq {Migration[j].makes : j \in 1 .. statement - 1}
      BY <2>1, MigrationOrdered
    <2> QED
      BY <2>2, <2>3 DEF Executes
  <1>4. AppTypeOK /\ [AppNext]_appVars
           => [/\ schema \subseteq schema'
               /\ Startup /\ "timescaledb" \in up /\ artifacts # "broken"
                     => StartLeft' < StartLeft]_appVars
    <2> SUFFICES ASSUME AppTypeOK, LifespanStep
                 PROVE  /\ schema \subseteq schema'
                        /\ Startup /\ "timescaledb" \in up /\ artifacts # "broken"
                              => StartLeft' < StartLeft
      BY AppLifespan
    <2>1. schema \subseteq schema'
      BY DEF LifespanStep, Startup, Start, CreatePool, RaiseOnStart, SkipExisting, Execute,
             Serve, ExecuteUnanswered, Kill, Outage, Recover, lifespanVars
    <2> QED
      BY <2>1, StartStep DEF AppTypeOK
  <1> QED
    BY <1>1, <1>2, <1>3, <1>4, AppTypeCorrect, PTL DEF AppSpec, StartAdvances

-----------------------------------------------------------------------------
(* The pool.                                                               *)

\* No more connections are out than the pool has, and whoever waits waits for
\* one that is free or that its holder is about to give back.
PoolSound ==
    /\ Cardinality(holders) <= max_size
    /\ queue # <<>> => \/ Cardinality(holders) < max_size
                       \/ \E u \in Users : u \in holders /\ InBlock(u)

PoolLimit == IsFiniteSet(holders) /\ Cardinality(holders) <= max_size

\* Acquire takes one of those that are left, everything else takes none.
LEMMA PoolLimitNext == PoolLimit /\ [AppNext]_appVars => PoolLimit'
  <1> SUFFICES ASSUME PoolLimit, [AppNext]_appVars PROVE PoolLimit'
    OBVIOUS
  <1>1. \/ holders' \subseteq holders
        \/ \E u \in Users : Acquire(u)
    <2>1. CASE AppProbe
      BY <2>1 DEF AppProbe, AppHealth, Health, GetConnection, SelectFails, SelectOk, PingFails,
                  PingOk, Respond, Release, poolVars, Users
    <2>2. CASE AppAnswer
      BY <2>2 DEF AppAnswer, AppQuery, QueryConnection, QueryRaises, Take, Count, Page, Release,
                  poolVars, Users
    <2>3. CASE AppAsk \/ AppAskHealth
      BY <2>3 DEF AppAsk, AppAskHealth, AppQuery, AppHealth, Ask, AskHealth, Enqueue
    <2>4. CASE AppStart \/ AppLosesAnswer \/ AppKill \/ AppServers \/ AppTable \/ UNCHANGED appVars
      BY <2>4 DEF AppStart, AppLosesAnswer, AppKill, AppServers, AppTable, appVars, poolVars
    <2> QED
      BY <2>1, <2>2, <2>3, <2>4 DEF AppNext
  <1>2. CASE holders' \subseteq holders
    <2>1. /\ IsFiniteSet(holders') /\ Cardinality(holders') <= Cardinality(holders)
          /\ Cardinality(holders) \in Nat /\ Cardinality(holders') \in Nat
      BY <1>2, FS_Subset, FS_CardinalityType DEF PoolLimit
    <2> QED
      BY <2>1, PoolAssumption DEF PoolLimit
  <1>3. CASE \E u \in Users : Acquire(u)
    <2>1. PICK u \in Users : holders' = holders \cup {u} /\ Cardinality(holders) < max_size
      BY <1>3 DEF Acquire
    <2>2. /\ IsFiniteSet(holders') /\ Cardinality(holders) \in Nat
          /\ Cardinality(holders') \in {Cardinality(holders), Cardinality(holders) + 1}
      BY <2>1, FS_AddElement, FS_CardinalityType DEF PoolLimit
    <2> QED
      BY <2>1, <2>2, PoolAssumption DEF PoolLimit
  <1> QED
    BY <1>1, <1>2, <1>3

\* The safety part of "every request is answered": the pool hands out no more
\* than it has, and no request waits in a line in which nothing can move.
THEOREM PoolSoundCorrect == AppSpec => []PoolSound
  <1>1. AppInit => PoolLimit
    BY FS_EmptySet, PoolAssumption DEF AppInit, NewPool, PoolLimit
  <1>2. AppTypeOK /\ PoolLimit => PoolSound
    <2> SUFFICES ASSUME AppTypeOK, PoolLimit PROVE PoolSound
      OBVIOUS
    <2>1. holders = {u \in Users : InBlock(u)} /\ max_size \in Nat \ {0}
      BY PoolAssumption DEF AppTypeOK
    <2>2. CASE holders = {}
      <3>1. Cardinality(holders) = 0
        BY <2>2, FS_EmptySet
      <3> QED
        BY <2>1, <3>1 DEF PoolSound
    <2>3. CASE holders # {}
      BY <2>1, <2>3 DEF PoolSound, PoolLimit
    <2> QED
      BY <2>2, <2>3
  <1> QED
    BY <1>1, <1>2, PoolLimitNext, AppTypeCorrect, PTL DEF AppSpec

-----------------------------------------------------------------------------
(* Health answers.                                                         *)

\* A server that is up now, while a request probes, was up during it.
ProbeInv ==
    /\ probe # "idle" => up \subseteq upDuring
    /\ reported \subseteq upDuring
    /\ probe = "idle" => reported = {}

LEMMA ProbeNext ==
    ASSUME AppTypeOK, ProbeInv, [AppNext]_appVars
    PROVE  ProbeInv'
  <1> USE DEF ProbeInv
  <1>1. CASE AppServers
    BY <1>1 DEF AppServers, Witness, AppTypeOK, HealthTypeOK
  <1>2. CASE AppAskHealth
    BY <1>2 DEF AppAskHealth, AppHealth, AskHealth, lifespanVars
  <1>3. CASE AppProbe
    BY <1>3 DEF AppProbe, AppHealth, Health, GetConnection, SelectFails, SelectOk, PingFails,
                PingOk, Respond, lifespanVars
  <1>4. CASE AppKill
    BY <1>4 DEF AppKill
  <1>5. CASE AppStart \/ AppLosesAnswer
    <2>1. lifespan # "serving" /\ UNCHANGED healthVars
      BY <1>5 DEF AppStart, AppLosesAnswer, Startup, Start, CreatePool, RaiseOnStart,
                  SkipExisting, Execute, Serve, ExecuteUnanswered
    <2>2. probe = "idle"
      BY <2>1 DEF AppTypeOK
    <2> QED
      BY <2>1, <2>2 DEF healthVars
  <1>6. CASE AppAsk \/ AppAnswer \/ AppTable \/ UNCHANGED appVars
    BY <1>6 DEF AppAsk, AppAnswer, AppQuery, AppTable, appVars, lifespanVars, healthVars
  <1> QED
    BY <1>1, <1>2, <1>3, <1>4, <1>5, <1>6 DEF AppNext

\* What a health answer calls ok was up during the request, and "ok" means
\* that everything was and that the detector's files were complete.
THEOREM OkWasUpCorrect == AppSpec => []OkWasUp
  <1>1. AppInit => LifeInv /\ ProbeInv
    BY DEF AppInit, LifespanInit, HealthInit, LifeInv, ProbeInv
  <1>2. AppTypeOK /\ AppTypeOK' /\ LifeInv /\ ProbeInv /\ [AppNext]_appVars
        => LifeInv' /\ ProbeInv'
    BY AppLifespan, LifeNext, ProbeNext DEF AppTypeOK
  <1>3. AppTypeOK /\ LifeInv /\ ProbeInv => OkWasUp
    BY DEF AppTypeOK, HealthTypeOK, LifeInv, ProbeInv, OkWasUp, Overall
  <1> QED
    BY <1>1, <1>2, <1>3, AppTypeCorrect, PTL DEF AppSpec

-----------------------------------------------------------------------------
(* Pages.  Every row the client heard of was stored and in the range once; *)
(* what changes later can only put newer rows above it.                    *)

Reached(x) ==
    /\ x \in table \cup dropped
    /\ x.engine_id \in filter.engines /\ x.severity \in filter.severities
    /\ x.time <= range.end

RowsInv ==
    /\ IsFiniteSet(table) /\ IsFiniteSet(counted) /\ IsFiniteSet(page)
    /\ \A x \in first \cup seen \cup page \cup counted : Reached(x)
    /\ \A x \in page \cup counted : Matches(x)
    /\ call \notin {"page", "answer"} => counted = {}
    /\ call # "answer" => page = {}
    /\ offset = 0 => seen = {}
    /\ done => call = "idle"

LEMMA MatchingReached ==
    ASSUME QueryTypeOK, IsFiniteSet(table)
    PROVE  IsFiniteSet(Matching) /\ \A x \in Matching : Reached(x) /\ Matches(x)
  <1>1. Matching \in SUBSET table /\ \A x \in Matching : Reached(x) /\ Matches(x)
    BY DEF Matching, Matches, Reached
  <1> QED
    BY <1>1, FS_Subset

\* How rows and range move: a row is inserted, old ones are dropped, the next
\* call has a later range, or nothing of this happens.
RowsMove ==
    \/ \E x \in Rows : InsertRow(x)
    \/ \E x \in Rows : DropOlder(x.time)
    \/ \E g \in Ranges : Ask(g)
    \/ UNCHANGED <<table, dropped, filter, range>>

LEMMA StepMoves == QueryStep => RowsMove
  BY DEF QueryStep, RowsMove, QueryConnection, Count, Page, Take, QueryRaises, Lost, queryVars

LEMMA ReachedStays ==
    ASSUME QueryTypeOK, NEW x, Reached(x), RowsMove
    PROVE  Reached(x)'
  <1>0. x \in Rows /\ x.time \in Int /\ range.end \in Int
    BY QueryAssumption DEF QueryTypeOK, Reached
  <1>1. CASE \E y \in Rows : InsertRow(y)
    BY <1>1 DEF InsertRow, clientVars, Reached
  <1>2. CASE \E y \in Rows : DropOlder(y.time)
    <2>1. PICK y \in Rows : DropOlder(y.time)
      BY <1>2
    <2>2. x.time >= y.time \/ x.time < y.time
      BY <1>0, <2>1, QueryAssumption
    <2>3. x \in table' \cup dropped'
      BY <2>1, <2>2 DEF DropOlder, Reached
    <2> QED
      BY <2>1, <2>3 DEF DropOlder, clientVars, Reached
  <1>3. CASE \E g \in Ranges : Ask(g)
    <2>1. PICK g \in Ranges : Ask(g)
      BY <1>3
    <2>2. x.time <= g.end
      BY <1>0, <2>1, QueryAssumption DEF Ask, Reached
    <2> QED
      BY <2>1, <2>2 DEF Ask, Reached
  <1>4. CASE UNCHANGED <<table, dropped, filter, range>>
    BY <1>4 DEF Reached
  <1> QED
    BY <1>1, <1>2, <1>3, <1>4 DEF RowsMove

LEMMA RowsNext ==
    ASSUME QueryTypeOK, RowsInv, QueryStep
    PROVE  RowsInv'
  <1>0. /\ \A x \in first \cup seen \cup page \cup counted : Reached(x)'
        /\ IsFiniteSet(Matching) /\ \A x \in Matching : Reached(x) /\ Matches(x)
    BY StepMoves, ReachedStays, MatchingReached DEF RowsInv
  <1>1. ASSUME NEW x \in Rows, InsertRow(x)
        PROVE  RowsInv'
    <2>1. IsFiniteSet(table') /\ UNCHANGED clientVars
      BY <1>1, FS_AddElement DEF InsertRow, RowsInv
    <2> QED
      BY <1>0, <2>1 DEF clientVars, RowsInv, Matches
  <1>2. ASSUME NEW x \in Rows, DropOlder(x.time)
        PROVE  RowsInv'
    <2>1. table' \in SUBSET table /\ UNCHANGED clientVars
      BY <1>2 DEF DropOlder
    <2>2. IsFiniteSet(table')
      BY <2>1, FS_Subset DEF RowsInv
    <2> QED
      BY <1>0, <2>1, <2>2 DEF clientVars, RowsInv, Matches
  <1>3. CASE \E g \in Ranges : Ask(g)
    BY <1>0, <1>3 DEF Ask, RowsInv
  <1>4. CASE Count
    <2>1. \A x \in Matching : Reached(x)'
      BY <1>0, <1>4 DEF Count, Reached
    <2> QED
      BY <1>0, <1>4, <2>1 DEF Count, RowsInv, Matches
  <1>5. ASSUME NEW P \in SUBSET Matching, Page(P)
        PROVE  RowsInv'
    <2>1. \A x \in Matching : Reached(x)' /\ Matches(x)'
      BY <1>0, <1>5 DEF Page, Reached, Matches
    <2>2. IsFiniteSet(P)
      BY <1>0, FS_Subset
    <2> QED
      BY <1>0, <1>5, <2>1, <2>2 DEF Page, RowsInv, Matches
  <1>6. CASE Take
    BY <1>0, <1>6, FS_EmptySet, QueryAssumption DEF Take, RowsInv, QueryTypeOK
  <1>7. CASE QueryConnection
    BY <1>0, <1>7 DEF QueryConnection, RowsInv
  <1>8. CASE QueryRaises \/ Lost
    BY <1>0, <1>8, FS_EmptySet DEF QueryRaises, Lost, RowsInv
  <1>9. CASE UNCHANGED queryVars
    BY <1>0, <1>9 DEF queryVars, RowsInv, Matches
  <1> QED
    BY <1>1, <1>2, <1>3, <1>4, <1>5, <1>6, <1>7, <1>8, <1>9 DEF QueryStep

-----------------------------------------------------------------------------
(* The rank of a row is the number of newer rows: with OFFSET, what decides *)
(* on which page it comes.                                                 *)

Above(x) == {y \in Matching : y.time > x.time}
Rank(x) == Cardinality(Above(x))
Explained(x) == \E y \in Matching \ first : y.time > x.time

LEMMA RankType ==
    ASSUME QueryTypeOK, IsFiniteSet(table), NEW x
    PROVE  IsFiniteSet(Above(x)) /\ Rank(x) \in Nat
  <1>1. Above(x) \in SUBSET Matching
    BY DEF Above
  <1> QED
    BY <1>1, MatchingReached, FS_Subset, FS_CardinalityType DEF Rank

\* Between pages no rank sinks, and one that rises is explained: whatever gets
\* above a row that was reached was not there at the first page.
LEMMA Still ==
    ASSUME QueryTypeOK, QueryTypeOK', RowsInv, RowsInv', RowsMove, first' = first,
           NEW x, Reached(x), x \in Matching'
    PROVE  /\ x \in Matching
           /\ TimeIsUnique(x)' => TimeIsUnique(x)
           /\ Explained(x) => Explained(x)'
           /\ Rank(x) <= Rank(x)'
           /\ Rank(x)' = Rank(x) \/ Explained(x)'
  <1>0. /\ x \in Rows /\ \A y \in Rows : y.time \in Int
        /\ table \subseteq Rows /\ table' \subseteq Rows
        /\ range.start \in Int /\ range.end \in Int
    BY QueryAssumption DEF QueryTypeOK, Reached
  <1>1. /\ x \in Matching
        /\ \A y \in Matching : y.time > x.time => y \in Matching'
        /\ \A y \in Matching' \ Matching : y.time > x.time => y \notin first
        /\ table \cup dropped \subseteq table' \cup dropped'
    <2>1. ASSUME NEW y \in Rows, InsertRow(y)
          PROVE  <1>1!:
      BY <1>0, <2>1 DEF InsertRow, clientVars, Matching, Matches, Reached, RowsInv
    <2>2. ASSUME NEW z \in Rows, DropOlder(z.time)
          PROVE  <1>1!:
      <3>1. /\ table' = {y \in table : y.time >= z.time} /\ z.time \in Int
            /\ dropped' = dropped \cup {y \in table : y.time < z.time}
            /\ filter' = filter /\ range' = range
        BY <1>0, <2>2 DEF DropOlder, clientVars
      <3>2. x \in Matching /\ x.time >= z.time
        BY <3>1 DEF Matching, Matches
      <3>3. ASSUME NEW y \in Matching, y.time > x.time PROVE y \in Matching'
        <4>1. y \in table /\ y.time >= z.time
          BY <1>0, <3>1, <3>2, <3>3 DEF Matching
        <4> QED
          BY <3>1, <3>3, <4>1 DEF Matching, Matches
      <3>4. Matching' \subseteq Matching
        BY <3>1 DEF Matching, Matches
      <3>5. table \cup dropped \subseteq table' \cup dropped'
        BY <1>0, <3>1
      <3> QED
        BY <3>2, <3>3, <3>4, <3>5
    <2>3. ASSUME NEW g \in Ranges, Ask(g)
          PROVE  <1>1!:
      <3>1. /\ table' = table /\ dropped' = dropped /\ filter' = filter /\ range' = g
            /\ g.start \in Int /\ g.end \in Int /\ g.start >= range.start /\ g.end >= range.end
        BY <2>3, QueryAssumption DEF Ask
      <3>2. x \in Matching
        BY <1>0, <3>1 DEF Matching, Matches, Reached
      <3>3. ASSUME NEW y \in Matching, y.time > x.time PROVE y \in Matching'
        BY <1>0, <3>1, <3>3 DEF Matching, Matches
      <3>4. ASSUME NEW y \in Matching' \ Matching, y.time > x.time PROVE y \notin first
        BY <1>0, <3>1, <3>2, <3>4 DEF Matching, Matches, RowsInv, Reached
      <3> QED
        BY <3>1, <3>2, <3>3, <3>4
    <2>4. CASE UNCHANGED <<table, dropped, filter, range>>
      BY <2>4 DEF Matching, Matches
    <2> QED
      BY <2>1, <2>2, <2>3, <2>4 DEF RowsMove
  <1>2. Above(x) \in SUBSET Above(x)'
    BY <1>1 DEF Above
  <1>3. IsFiniteSet(Above(x)') /\ Rank(x) \in Nat
    <2>1. Above(x)' \in SUBSET table' /\ IsFiniteSet(table')
      BY DEF Above, Matching, RowsInv
    <2> QED
      BY <2>1, RankType, FS_Subset DEF RowsInv
  <1>4. Above(x)' = Above(x) \/ Explained(x)'
    BY <1>1, <1>2 DEF Above, Explained
  <1>5. Explained(x) => Explained(x)'
    BY <1>1 DEF Explained
  <1>6. TimeIsUnique(x)' => TimeIsUnique(x)
    BY <1>1 DEF TimeIsUnique
  <1>7. Rank(x)' = Cardinality(Above(x)')
    BY DEF Rank
  <1> QED
    BY <1>1, <1>2, <1>3, <1>4, <1>5, <1>6, <1>7, FS_Subset DEF Rank

\* How many rows OFFSET and LIMIT cut out of M.
LEMMA PageShape ==
    ASSUME NEW M, IsFiniteSet(M), NEW A \in SUBSET M, NEW P \in SUBSET (M \ A),
           NEW n \in Nat, NEW l \in Nat,
           Cardinality(A) = AtMost(n, Cardinality(M)),
           Cardinality(P) = AtMost(l, Cardinality(M) - Cardinality(A))
    PROVE  /\ IsFiniteSet(A \cup P)
           /\ Cardinality(A) \in Nat /\ Cardinality(P) \in Nat
           /\ Cardinality(A) <= n /\ Cardinality(A \cup P) <= n + l
           /\ A # M => Cardinality(A) = n
           /\ A \cup P # M => Cardinality(A \cup P) = n + l
           /\ Cardinality(P) < l => A \cup P = M
  <1>1. /\ IsFiniteSet(A) /\ IsFiniteSet(P)
        /\ Cardinality(A) \in Nat /\ Cardinality(P) \in Nat /\ Cardinality(M) \in Nat
        /\ Cardinality(A) <= Cardinality(M) /\ (Cardinality(M) = Cardinality(A) => M = A)
    <2>1. P \in SUBSET M
      OBVIOUS
    <2> QED
      BY <2>1, FS_Subset, FS_CardinalityType
  <1>2. /\ IsFiniteSet(A \cup P)
        /\ Cardinality(A \cup P) = Cardinality(A) + Cardinality(P)
    <2>1. A \cap P = {}
      OBVIOUS
    <2>2. Cardinality(A \cap P) = 0
      BY <2>1, FS_EmptySet
    <2>3. /\ IsFiniteSet(A \cup P)
          /\ Cardinality(A \cup P) = Cardinality(A) + Cardinality(P) - Cardinality(A \cap P)
      BY <1>1, FS_Union
    <2> QED
      BY <1>1, <2>2, <2>3
  <1>3. Cardinality(M) = Cardinality(A \cup P) => M = A \cup P
    <2>1. A \cup P \in SUBSET M
      OBVIOUS
    <2> QED
      BY <2>1, FS_Subset
  <1> QED
    BY <1>1, <1>2, <1>3 DEF AtMost

-----------------------------------------------------------------------------
(* What the pages got so far have to do with the ranks.                    *)

Old(x) == x \in first \cap Matching /\ TimeIsUnique(x)

\* An old row that is not in S has n newer ones at least.
Behind(S, n) == \A x : Old(x) /\ x \notin S => Rank(x) >= n
\* All old rows are in S.
Caught(S) == \A x : Old(x) => x \in S
\* A row of S that has n newer ones was pushed down.
Pushed(S, n) ==
    \A x \in S \cap Matching : TimeIsUnique(x) => Explained(x) \/ Rank(x) < n

PagesInv ==
    /\ Behind(seen, offset) /\ Pushed(seen, offset)
    /\ done => Caught(seen)
    /\ call = "answer" =>
          /\ Behind(seen \cup page, offset + limit) /\ Pushed(page, offset + limit)
          /\ Cardinality(page) < limit => Caught(seen \cup page)

\* A page by rank: the rows of A \cup P have less than offset + limit newer
\* ones, those of P at least offset.
LEMMA PageRanks ==
    ASSUME QueryTypeOK, IsFiniteSet(table), NEW P \in SUBSET Matching, IsPage(P)
    PROVE  /\ Cardinality(P) \in Nat
           /\ \A x \in Matching : TimeIsUnique(x) =>
                 /\ x \in P => offset <= Rank(x) /\ Rank(x) < offset + limit
                 /\ offset <= Rank(x) /\ x \notin P => offset + limit <= Rank(x)
                 /\ offset <= Rank(x) /\ Cardinality(P) < limit => x \in P
  <1> DEFINE M == Matching
  <1>0. IsFiniteSet(M) /\ M \subseteq Rows /\ M \subseteq table /\ offset \in Nat /\ limit \in Nat
    BY MatchingReached, QueryAssumption DEF Matching, QueryTypeOK
  <1>1. PICK A \in SUBSET M :
          /\ NewestOf(A, M) /\ Cardinality(A) = AtMost(offset, Cardinality(M))
          /\ P \subseteq M \ A /\ NewestOf(A \cup P, M)
          /\ Cardinality(P) = AtMost(limit, Cardinality(M) - Cardinality(A))
    BY DEF IsPage
  <1>2. /\ IsFiniteSet(A \cup P)
        /\ Cardinality(A) \in Nat /\ Cardinality(P) \in Nat
        /\ Cardinality(A) <= offset /\ Cardinality(A \cup P) <= offset + limit
        /\ A # M => Cardinality(A) = offset
        /\ A \cup P # M => Cardinality(A \cup P) = offset + limit
        /\ Cardinality(P) < limit => A \cup P = M
    BY <1>0, <1>1, PageShape
  \* A cut B of the newest rows: who is in it has less than |B| newer rows, who
  \* is not has at least |B|.
  <1>3. ASSUME NEW B \in SUBSET M, NewestOf(B, M), IsFiniteSet(B), Cardinality(B) \in Nat,
               NEW x \in M, TimeIsUnique(x)
        PROVE  /\ x \in B => Rank(x) < Cardinality(B)
               /\ x \notin B => Cardinality(B) <= Rank(x)
    <2>1. /\ \A y \in M : y.time \in Int /\ (y.time = x.time => y = x)
          /\ IsFiniteSet(Above(x)) /\ Rank(x) \in Nat
      BY <1>0, <1>3, QueryAssumption, RankType DEF TimeIsUnique
    <2>2. CASE x \in B
      <3>1. Above(x) \in SUBSET (B \ {x})
        BY <1>3, <2>1, <2>2 DEF Above, NewestOf
      <3>2. IsFiniteSet(B \ {x}) /\ Cardinality(B \ {x}) = Cardinality(B) - 1
        BY <1>3, <2>2, FS_RemoveElement
      <3>3. Rank(x) <= Cardinality(B \ {x})
        BY <3>1, <3>2, FS_Subset DEF Rank
      <3> QED
        BY <1>3, <2>1, <2>2, <3>2, <3>3
    <2>3. CASE x \notin B
      <3>1. B \in SUBSET Above(x)
        BY <1>3, <2>1, <2>3 DEF Above, NewestOf
      <3> QED
        BY <2>1, <2>3, <3>1, FS_Subset DEF Rank
    <2> QED
      BY <2>2, <2>3
  <1>4. IsFiniteSet(A) /\ A \cup P \in SUBSET M /\ Cardinality(A \cup P) \in Nat
    BY <1>0, <1>1, <1>2, FS_Subset, FS_CardinalityType
  <1>5. ASSUME NEW x \in M, TimeIsUnique(x)
        PROVE  /\ x \in P => offset <= Rank(x) /\ Rank(x) < offset + limit
               /\ offset <= Rank(x) /\ x \notin P => offset + limit <= Rank(x)
               /\ offset <= Rank(x) /\ Cardinality(P) < limit => x \in P
    <2>1. /\ x \in A => Rank(x) < offset
          /\ x \notin A => offset <= Rank(x)
          /\ Rank(x) \in Nat
      <3>1. Rank(x) \in Nat
        BY RankType
      <3> QED
        BY <1>0, <1>1, <1>2, <1>3, <1>4, <1>5, <3>1
    <2>2. /\ x \in A \cup P => Rank(x) < offset + limit
          /\ x \notin A \cup P => offset + limit <= Rank(x)
      BY <1>0, <1>1, <1>2, <1>3, <1>4, <1>5, <2>1
    <2> QED
      BY <1>0, <1>1, <1>2, <2>1, <2>2
  <1> QED
    BY <1>2, <1>5

\* All that the invariants say of the pages.
AnswerInv == PagesInv /\ RepeatExplained /\ PageFitsTotal

LEMMA AnswerQuiet ==
    ASSUME QueryTypeOK, QueryTypeOK', RowsInv, RowsInv', AnswerInv, RowsMove,
           UNCHANGED <<first, seen, offset, done>>,
           call' = "answer" => call = "answer" /\ page' = page /\ counted' = counted,
           dropped \subseteq dropped'
    PROVE  AnswerInv'
  <1>0. /\ \A x \in first \cup seen \cup page : Reached(x)
        /\ \A x : Rank(x) \in Nat
        /\ offset \in Nat /\ limit \in Nat
    BY RankType, QueryAssumption DEF RowsInv, QueryTypeOK
  <1>1. ASSUME NEW x, Reached(x), x \in Matching'
        PROVE  /\ x \in Matching
               /\ TimeIsUnique(x)' => TimeIsUnique(x)
               /\ Explained(x) => Explained(x)'
               /\ Rank(x) <= Rank(x)' /\ Rank(x)' \in Nat
               /\ Rank(x)' = Rank(x) \/ Explained(x)'
    <2>1. IsFiniteSet(Above(x)')
      <3>1. Above(x)' \in SUBSET table' /\ IsFiniteSet(table')
        BY DEF Above, Matching, RowsInv
      <3> QED
        BY <3>1, FS_Subset
    <2>2. Rank(x)' \in Nat
      BY <2>1, FS_CardinalityType DEF Rank
    <2> QED
      BY <1>1, <2>2, Still
  <1>2. ASSUME NEW x, Old(x)'
        PROVE  Old(x) /\ Rank(x) <= Rank(x)' /\ Rank(x)' \in Nat
    BY <1>0, <1>1, <1>2 DEF Old
  <1>3. Behind(seen, offset)' /\ (done' => Caught(seen)')
    BY <1>0, <1>2 DEF Behind, Caught, AnswerInv, PagesInv
  <1>4. Pushed(seen, offset)'
    BY <1>0, <1>1 DEF Pushed, AnswerInv, PagesInv
  <1>5. ASSUME call' = "answer"
        PROVE  /\ Behind(seen \cup page, offset + limit)'
               /\ Cardinality(page') < limit => Caught(seen \cup page)'
    BY <1>0, <1>2, <1>5 DEF Behind, Caught, AnswerInv, PagesInv
  <1>6. ASSUME call' = "answer"
        PROVE  Pushed(page, offset + limit)'
    BY <1>0, <1>1, <1>6 DEF Pushed, AnswerInv, PagesInv
  <1>7. ASSUME call' = "answer"
        PROVE  RepeatExplained'
    <2>1. ASSUME NEW x \in page' \cap seen' \cap table', TimeIsUnique(x)' PROVE Explained(x)'
      <3>1. x \in page /\ x \in seen /\ Matches(x)'
        BY <1>7, <2>1 DEF RowsInv
      <3>2. x \in Matching' /\ Reached(x)
        BY <1>0, <2>1, <3>1 DEF Matching
      <3>3. x \in table /\ TimeIsUnique(x)
        BY <1>1, <2>1, <3>2 DEF Matching
      <3>4. Explained(x)
        BY <1>7, <3>1, <3>3 DEF AnswerInv, RepeatExplained, Explained
      <3> QED
        BY <1>1, <3>2, <3>4
    <2> QED
      BY <2>1 DEF RepeatExplained, Explained
  <1>8. ASSUME call' = "answer"
        PROVE  PageFitsTotal'
    <2>1. /\ IsFiniteSet(counted \ dropped) /\ Cardinality(counted \ dropped) \in Nat
          /\ Cardinality(counted \ dropped') \in Nat
          /\ Cardinality(counted \ dropped') <= Cardinality(counted \ dropped)
      <3>1. counted \ dropped \in SUBSET counted /\ IsFiniteSet(counted)
        BY DEF RowsInv
      <3>2. counted \ dropped' \in SUBSET (counted \ dropped)
        OBVIOUS
      <3> QED
        BY <3>1, <3>2, FS_Subset, FS_CardinalityType
    <2>2. Cardinality(page) >= AtMost(limit, Cardinality(counted \ dropped) - offset)
      BY <1>8 DEF AnswerInv, PageFitsTotal
    <2>3. Cardinality(page) \in Nat
      BY FS_CardinalityType DEF RowsInv
    <2>4. Cardinality(page) >= AtMost(limit, Cardinality(counted \ dropped') - offset)
      BY <1>0, <2>1, <2>2, <2>3 DEF AtMost
    <2> QED
      BY <1>8, <2>4 DEF PageFitsTotal
  <1> QED
    BY <1>3, <1>4, <1>5, <1>6, <1>7, <1>8 DEF AnswerInv, PagesInv, RepeatExplained, PageFitsTotal

LEMMA AnswerPage ==
    ASSUME QueryTypeOK, RowsInv, AnswerInv, NEW P \in SUBSET Matching, Page(P)
    PROVE  AnswerInv'
  <1>1. /\ call = "page" /\ call' = "answer" /\ page' = P /\ IsPage(P)
        /\ first' = IF offset = 0 THEN Matching ELSE first
        /\ UNCHANGED <<table, filter, range, offset, counted, seen, done, dropped>>
        /\ ~done /\ (offset = 0 => seen = {})
        /\ offset \in Nat /\ limit \in Nat
    BY QueryAssumption DEF Page, RowsInv, QueryTypeOK
  <1>2. /\ Matching' = Matching
        /\ \A x : /\ Rank(x)' = Rank(x) /\ Rank(x) \in Nat
                  /\ TimeIsUnique(x)' <=> TimeIsUnique(x)
                  /\ offset # 0 => (Explained(x)' <=> Explained(x)) /\ (Old(x)' <=> Old(x))
    <2>1. Matching' = Matching
      BY <1>1 DEF Matching, Matches
    <2> QED
      BY <1>1, <2>1, RankType
      DEF Rank, Above, TimeIsUnique, Explained, Old, RowsInv
  <1>3. /\ Cardinality(P) \in Nat
        /\ \A x \in Matching : TimeIsUnique(x) =>
              /\ x \in P => offset <= Rank(x) /\ Rank(x) < offset + limit
              /\ offset <= Rank(x) /\ x \notin P => offset + limit <= Rank(x)
              /\ offset <= Rank(x) /\ Cardinality(P) < limit => x \in P
    BY <1>1, PageRanks DEF RowsInv
  \* The rows of the first page that are not seen are behind the offset.
  <1>4. ASSUME NEW x, Old(x)', x \notin seen
        PROVE  x \in Matching /\ TimeIsUnique(x) /\ offset <= Rank(x)
    <2>1. x \in Matching /\ TimeIsUnique(x)
      BY <1>2, <1>4 DEF Old
    <2>2. CASE offset = 0
      BY <1>2, <2>1, <2>2
    <2>3. CASE offset # 0
      BY <1>2, <1>4, <2>1, <2>3 DEF AnswerInv, PagesInv, Behind
    <2> QED
      BY <2>1, <2>2, <2>3
  <1>5. Behind(seen, offset)' /\ (done' => Caught(seen)')
    BY <1>1, <1>2, <1>4 DEF Behind
  <1>6. Behind(seen \cup page, offset + limit)'
    BY <1>1, <1>2, <1>3, <1>4 DEF Behind
  <1>7. Cardinality(page') < limit => Caught(seen \cup page)'
    BY <1>1, <1>3, <1>4 DEF Caught
  <1>8. Pushed(seen, offset)'
    <2>1. CASE offset = 0
      BY <1>1, <2>1 DEF Pushed
    <2>2. CASE offset # 0
      BY <1>1, <1>2, <2>2 DEF Pushed, AnswerInv, PagesInv
    <2> QED
      BY <2>1, <2>2
  <1>9. Pushed(page, offset + limit)'
    BY <1>1, <1>2, <1>3 DEF Pushed
  <1>10. RepeatExplained'
    <2>1. ASSUME NEW x \in P \cap seen \cap table, TimeIsUnique(x) PROVE Explained(x)'
      <3>1. x \in Matching /\ offset # 0 /\ offset <= Rank(x)
        BY <1>1, <1>3, <2>1
      <3>2. Explained(x) \/ Rank(x) < offset
        BY <2>1, <3>1 DEF AnswerInv, PagesInv, Pushed
      <3> QED
        BY <1>1, <1>2, <3>1, <3>2
    <2> QED
      BY <1>1, <1>2, <2>1 DEF RepeatExplained, Explained
  <1>11. PageFitsTotal'
    <2>1. counted \ dropped \in SUBSET Matching /\ IsFiniteSet(Matching)
      BY MatchingReached DEF RowsInv, Reached, Matching
    <2>2. /\ Cardinality(counted \ dropped) \in Nat /\ Cardinality(Matching) \in Nat
          /\ Cardinality(counted \ dropped) <= Cardinality(Matching)
      BY <2>1, FS_Subset, FS_CardinalityType
    <2>3. PICK A \in SUBSET Matching :
            /\ Cardinality(A) = AtMost(offset, Cardinality(Matching))
            /\ Cardinality(P) = AtMost(limit, Cardinality(Matching) - Cardinality(A))
      BY <1>1 DEF IsPage
    <2>4. Cardinality(P) >= AtMost(limit, Cardinality(counted \ dropped) - offset)
      BY <1>1, <1>3, <2>2, <2>3 DEF AtMost
    <2> QED
      BY <1>1, <2>4 DEF PageFitsTotal
  <1> QED
    BY <1>5, <1>6, <1>7, <1>8, <1>9, <1>10, <1>11 DEF AnswerInv, PagesInv

LEMMA AnswerTake ==
    ASSUME QueryTypeOK, RowsInv, AnswerInv, Take
    PROVE  AnswerInv'
  <1>1. /\ call = "answer" /\ call' = "idle" /\ seen' = seen \cup page
        /\ done' = (Cardinality(page) < limit) /\ offset' = offset + limit
        /\ UNCHANGED <<table, filter, range, dropped, first>>
        /\ offset \in Nat /\ limit \in Nat
    BY QueryAssumption DEF Take, QueryTypeOK
  <1>2. /\ Matching' = Matching
        /\ \A x : /\ Rank(x)' = Rank(x) /\ Rank(x) \in Nat
                  /\ TimeIsUnique(x)' <=> TimeIsUnique(x)
                  /\ Explained(x)' <=> Explained(x)
                  /\ Old(x)' <=> Old(x)
    <2>1. Matching' = Matching
      BY <1>1 DEF Matching, Matches
    <2> QED
      BY <1>1, <2>1, RankType
      DEF Rank, Above, TimeIsUnique, Explained, Old, RowsInv
  <1>3. Behind(seen, offset)' /\ (done' => Caught(seen)')
    BY <1>1, <1>2 DEF Behind, Caught, AnswerInv, PagesInv
  <1>4. Pushed(seen, offset)'
    BY <1>1, <1>2 DEF Pushed, AnswerInv, PagesInv
  <1> QED
    BY <1>1, <1>3, <1>4 DEF AnswerInv, PagesInv, RepeatExplained, PageFitsTotal

LEMMA AnswerNext ==
    ASSUME QueryTypeOK, QueryTypeOK', RowsInv, RowsInv', AnswerInv, QueryStep
    PROVE  AnswerInv'
  <1>1. RowsMove
    BY StepMoves
  <1>2. CASE \E P \in SUBSET Matching : Page(P)
    BY <1>2, AnswerPage
  <1>3. CASE Take
    BY <1>3, AnswerTake
  <1>4. CASE /\ UNCHANGED <<first, seen, offset, done>> /\ dropped \subseteq dropped'
             /\ call' = "answer" => call = "answer" /\ page' = page /\ counted' = counted
    BY <1>1, <1>4, AnswerQuiet
  <1> QED
    BY <1>2, <1>3, <1>4
    DEF QueryStep, InsertRow, DropOlder, clientVars, Ask, QueryConnection, Count, QueryRaises,
        Lost, queryVars

LEMMA AnswerCorrect == AppSpec => [](RowsInv /\ AnswerInv)
  <1>1. AppInit => RowsInv /\ AnswerInv
    BY FS_EmptySet DEF AppInit, QueryInit, RowsInv, AnswerInv, PagesInv, Behind, Pushed, Old,
                       RepeatExplained, PageFitsTotal
  <1>2. AppTypeOK /\ AppTypeOK' /\ RowsInv /\ AnswerInv /\ [AppNext]_appVars
        => RowsInv' /\ AnswerInv'
    BY AppPages, RowsNext, AnswerNext DEF AppTypeOK
  <1> QED
    BY <1>1, <1>2, AppTypeCorrect, PTL DEF AppSpec

\* Turning the pages to the end finds every row that was there at the first
\* page and still is, except rows of the very same time.
THEOREM NoneSkippedCorrect == AppSpec => []NoneSkipped
  <1>1. AnswerInv => NoneSkipped
    BY DEF AnswerInv, PagesInv, Caught, Old, NoneSkipped
  <1> QED
    BY <1>1, AnswerCorrect, PTL

\* A row comes twice only if a newer one has come into the range meanwhile,
\* or if it shares its time.
THEOREM RepeatExplainedCorrect == AppSpec => []RepeatExplained
  <1>1. AnswerInv => RepeatExplained
    BY DEF AnswerInv
  <1> QED
    BY <1>1, AnswerCorrect, PTL

\* A page has all that the total promises behind its offset, up to the limit,
\* as long as no counted row is dropped.
THEOREM PageFitsTotalCorrect == AppSpec => []PageFitsTotal
  <1>1. AnswerInv => PageFitsTotal
    BY DEF AnswerInv
  <1> QED
    BY <1>1, AnswerCorrect, PTL
=============================================================================
