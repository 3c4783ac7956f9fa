---------------------------- MODULE AnomalyQuery ----------------------------
(***************************************************************************)
(* GET /api/v1/anomalies: list_anomalies of app/api/anomalies.py and       *)
(* query_anomalies of the repository, called by a client that turns the    *)
(* pages by offset.  The total and the page are two statements, and the    *)
(* order of the page is that of the times alone, so rows of one time come  *)
(* in any order.  Meanwhile rows are inserted, with the times the engines  *)
(* gave them, and the retention policy drops the oldest.                   *)
(***************************************************************************)
EXTENDS ConnectionPool, Integers

CONSTANTS
    Rows,      \* the rows that may be stored: id, time, engine_id, severity
    Filters,   \* sets of engines and of severities asked for
    Ranges,    \* start and end of a query
    limit      \* size of a page

ASSUME QueryAssumption ==
    /\ \A x \in Rows : x.time \in Int
    /\ \A g \in Ranges : g.start \in Int /\ g.end \in Int
    /\ limit \in 1 .. 1000

VARIABLES
    table,     \* anomaly_events
    call,      \* "idle", "acquire", "count", "page", "answer"
    filter, range, offset,     \* of the call, and of the next one
    counted,   \* the rows that total counts
    page,      \* the rows of the answer
    seen,      \* the rows of the pages the client has got
    done,      \* a page was not full: the client has turned the last one
    \* history
    dropped,   \* the rows that were dropped
    first      \* the rows that matched when the first page was made

queryVars == <<table, call, filter, range, offset, counted, page, seen, done, dropped, first>>
clientVars == <<call, filter, range, offset, counted, page, seen, done, first>>

QueryInit ==
    /\ table = {} /\ dropped = {}
    /\ call = "idle" /\ filter \in Filters /\ range \in Ranges /\ offset = 0
    /\ counted = {} /\ page = {} /\ seen = {} /\ done = FALSE /\ first = {}

\* An INSERT commits: insert_anomaly of some request of the ingest path.
InsertRow(x) ==
    /\ x \notin table \cup dropped
    /\ table' = table \cup {x}
    /\ UNCHANGED <<clientVars, dropped>>

\* The retention policy drops everything older than some moment.
DropOlder(t) ==
    /\ \E x \in table : x.time < t
    /\ table' = {x \in table : x.time >= t}
    /\ dropped' = dropped \cup {x \in table : x.time < t}
    /\ UNCHANGED clientVars

\* The WHERE clause: the filter, and both ends of the range included.
Matches(x) ==
    /\ x.engine_id \in filter.engines /\ x.severity \in filter.severities
    /\ range.start <= x.time /\ x.time <= range.end
Matching == {x \in table : Matches(x)}

\* The client asks for its next page.  By default a query ends now and
\* starts an hour before, so both ends may have moved on since the last one.
\* A range that is empty is answered 400 without a query.
Ask(g) ==
    /\ call = "idle" /\ ~done
    /\ g.start < g.end /\ g.start >= range.start /\ g.end >= range.end
    /\ range' = g
    /\ call' = "acquire" /\ Enqueue("query")
    /\ UNCHANGED <<table, filter, offset, counted, page, seen, done, dropped, first>>

QueryConnection ==
    /\ call = "acquire" /\ Acquire("query")
    /\ call' = "count"
    /\ UNCHANGED <<table, filter, range, offset, counted, page, seen, done, dropped, first>>

\* SELECT COUNT(*).
Count ==
    /\ call = "count"
    /\ call' = "page" /\ counted' = Matching
    /\ UNCHANGED <<poolVars, table, filter, range, offset, page, seen, done, dropped, first>>

AtMost(a, b) == IF a <= b THEN a ELSE b   \* the smaller one
\* The newest rows of M: none of the others is newer.
NewestOf(A, M) == A \subseteq M /\ \A x \in A, y \in M \ A : x.time >= y.time

\* Mutant: no DESC, the oldest first.
PageAscending(P) ==
    \E A \in SUBSET Matching :
        /\ \A x \in A, y \in Matching \ A : x.time <= y.time
        /\ Cardinality(A) = AtMost(offset, Cardinality(Matching))
        /\ P \subseteq Matching \ A
        /\ \A x \in A \cup P, y \in Matching \ (A \cup P) : x.time <= y.time
        /\ Cardinality(P) = AtMost(limit, Cardinality(Matching) - Cardinality(A))

\* Mutant: LIMIT one more, to know whether there is a next page.
PageOneMore(P) ==
    \E A \in SUBSET Matching :
        /\ NewestOf(A, Matching)
        /\ Cardinality(A) = AtMost(offset, Cardinality(Matching))
        /\ P \subseteq Matching \ A /\ NewestOf(A \cup P, Matching)
        /\ Cardinality(P) = AtMost(limit + 1, Cardinality(Matching) - Cardinality(A))

\* Mutant: the two parameters in the wrong order.
PageSwapped(P) ==
    \E A \in SUBSET Matching :
        /\ NewestOf(A, Matching)
        /\ Cardinality(A) = AtMost(limit, Cardinality(Matching))
        /\ P \subseteq Matching \ A /\ NewestOf(A \cup P, Matching)
        /\ Cardinality(P) = AtMost(offset, Cardinality(Matching) - Cardinality(A))

\* ORDER BY time DESC LIMIT limit OFFSET offset: the offset newest rows are
\* left out, and P are the limit newest of the others.
IsPage(P) ==
    \E A \in SUBSET Matching :
        /\ NewestOf(A, Matching)
        /\ Cardinality(A) = AtMost(offset, Cardinality(Matching))
        /\ P \subseteq Matching \ A /\ NewestOf(A \cup P, Matching)
        /\ Cardinality(P) = AtMost(limit, Cardinality(Matching) - Cardinality(A))

\* The SELECT of the page, and the connection given back.
Page(P) ==
    /\ call = "page" /\ call' = "answer"
    /\ page' = P /\ IsPage(P)
    /\ Release("query")
    /\ first' = IF offset = 0 THEN Matching ELSE first
    /\ UNCHANGED <<table, filter, range, offset, counted, seen, done, dropped>>

\* The client gets page and total, and goes on behind the page if it is full.
Take ==
    /\ call = "answer" /\ call' = "idle"
    /\ seen' = seen \cup page
    /\ done' = (Cardinality(page) < limit)
    /\ offset' = offset + limit
    /\ page' = {} /\ counted' = {}
    /\ UNCHANGED <<poolVars, table, filter, range, dropped, first>>

\* Mutant: the exception on its way out leaves the connection behind.
QueryRaisesHolding ==
    /\ call \in {"count", "page"}
    /\ call' = "idle" /\ counted' = {}
    /\ UNCHANGED <<poolVars, table, filter, range, offset, page, seen, done, dropped, first>>

\* Mutant: the handler tries again by itself, for as long as it takes.
QueryRetries ==
    /\ call \in {"count", "page"}
    /\ call' = "count" /\ counted' = {}
    /\ UNCHANGED <<poolVars, table, filter, range, offset, page, seen, done, dropped, first>>

\* A statement raises: a 500, and the client asks for the page once more.
QueryRaises ==
    /\ call \in {"count", "page"}
    /\ call' = "idle" /\ Release("query") /\ counted' = {}
    /\ UNCHANGED <<table, filter, range, offset, page, seen, done, dropped, first>>

-----------------------------------------------------------------------------
QueryTypeOK ==
    /\ table \subseteq Rows /\ dropped \subseteq Rows /\ table \cap dropped = {}
    /\ call \in {"idle", "acquire", "count", "page", "answer"}
    /\ filter \in Filters /\ range \in Ranges /\ offset \in Nat
    /\ counted \subseteq Rows /\ page \subseteq Rows
    /\ seen \subseteq Rows /\ first \subseteq Rows
    /\ done \in BOOLEAN

\* No other row that is or was stored has the time of x.
TimeIsUnique(x) == \A y \in table \cup dropped : y.time = x.time => y = x

\* A client that turns the pages to the end has seen every row that was
\* there at its first page and still is, whatever was inserted and dropped
\* between the pages, unless another row has the very same time.
NoneSkipped ==
    done => \A x \in first \cap Matching : TimeIsUnique(x) => x \in seen

\* A row that comes twice was pushed down by a newer one that was not there,
\* or not yet in the range, at the first page; or it changed places with a
\* row of the very same time.
RepeatExplained ==
    call = "answer" =>
        \A x \in page \cap seen \cap table :
            TimeIsUnique(x) => \E y \in Matching \ first : y.time > x.time

\* A page and the total of the same answer fit, although they are two
\* statements: as long as no counted row is dropped, the page has all the
\* rows that the total promises behind its offset, up to the limit.
PageFitsTotal ==
    call = "answer" =>
        Cardinality(page) >= AtMost(limit, Cardinality(counted \ dropped) - offset)
=============================================================================
