------------------------------- MODULE Replay -------------------------------
(***************************************************************************)
(* simulator/producer.py posting to the ingest path of IngestService.      *)
(*                                                                         *)
(* The producer replays its cycles one after the other.  A POST is not     *)
(* idempotent, and it is tried up to three times: a request of the ingest  *)
(* path is one attempt, <<cycle, attempt>>.  The producer gives an attempt *)
(* up on an error status, on a broken connection or after ten seconds; a   *)
(* handler it no longer waits for goes on all the same, and even a POST    *)
(* that is still on its way may reach the application later.               *)
(***************************************************************************)
EXTENDS IngestProperties

CONSTANTS
    Bodies,         \* the readings of each cycle
    max_attempts    \* stop_after_attempt

Cycles == 1 .. Len(Bodies)

ASSUME ReplayAssumption ==
    /\ Bodies \in Seq(Batches) /\ max_attempts \in Nat \ {0}
    /\ Requests = Cycles \X (1 .. max_attempts)

VARIABLES
    producer,      \* "post", "await" or "complete"
    cycle,         \* the row of the data set it is at
    attempt,       \* the attempt of _post
    total_sent,    \* readings of the cycles that succeeded
    total_errors,  \* cycles that did not
    posted,        \* the attempts it sent, arrived or not
    abandoned      \* history: an attempt was given up before its handler ended

countVars == <<total_sent, total_errors>>
producerVars == <<producer, cycle, attempt, countVars, posted, abandoned>>
replayVars == <<vars, producerVars>>

ReplayInit ==
    /\ Init
    /\ producer = IF Bodies = <<>> THEN "complete" ELSE "post"
    /\ cycle = 1 /\ attempt = 1
    /\ total_sent = 0 /\ total_errors = 0
    /\ posted = {} /\ abandoned = FALSE

\* The attempt the producer is at.
Current == <<cycle, attempt>>

\* Mutant: the answer is awaited by a task, and the next cycle goes out at once.
PostUnawaited ==
    /\ producer = "post"
    /\ posted' = posted \cup {Current}
    /\ total_sent' = total_sent + Len(Bodies[cycle])
    /\ producer' = IF cycle = Len(Bodies) THEN "complete" ELSE "post"
    /\ cycle' = cycle + 1 /\ attempt' = 1
    /\ UNCHANGED <<vars, total_errors, abandoned>>

\* _post sends the request.
Post ==
    /\ producer = "post"
    /\ producer' = "await"
    /\ posted' = posted \cup {Current}
    /\ UNCHANGED <<vars, cycle, attempt, countVars, abandoned>>

\* On to the next cycle, after a pause.
NextCycle ==
    /\ producer' = IF cycle = Len(Bodies) THEN "complete" ELSE "post"
    /\ cycle' = cycle + 1 /\ attempt' = 1

\* Mutant: no raise_for_status.
SucceedOnAnyStatus ==
    /\ producer = "await" /\ pc[Current] \in {"done", "failed", "rejected"}
    /\ total_sent' = total_sent + Len(Bodies[cycle])
    /\ NextCycle
    /\ UNCHANGED <<vars, total_errors, posted, abandoned>>

\* The 202 is there.
Succeed ==
    /\ producer = "await" /\ pc[Current] = "done"
    /\ total_sent' = total_sent + Len(Bodies[cycle])
    /\ NextCycle
    /\ UNCHANGED <<vars, total_errors, posted, abandoned>>

\* The attempt ends with an exception, and the producer cannot tell whether
\* the application refused, failed, was never reached or is still at it.
GiveUp ==
    /\ producer = "await"
    /\ abandoned' = (abandoned \/ pc[Current] \notin Over)

\* Mutant: the last attempt is not recognised as such.
RetryOnceMore ==
    /\ GiveUp /\ attempt <= max_attempts
    /\ producer' = "post" /\ attempt' = attempt + 1
    /\ UNCHANGED <<vars, cycle, countVars, posted>>

\* ... so it tries again, ...
Retry ==
    /\ GiveUp /\ attempt < max_attempts
    /\ producer' = "post" /\ attempt' = attempt + 1
    /\ UNCHANGED <<vars, cycle, countVars, posted>>

\* ... or, after the last attempt, counts an error.
CountError ==
    /\ GiveUp /\ attempt = max_attempts
    /\ total_errors' = total_errors + 1
    /\ NextCycle
    /\ UNCHANGED <<vars, total_sent, posted>>

Complete == producer = "complete" /\ UNCHANGED replayVars

Produce == Post \/ Succeed \/ Retry \/ CountError

\* What the application does, with the POSTs of the producer as its requests.
Serve ==
    /\ \/ \E r \in posted : Arrive(r, Bodies[r[1]]) \/ Resume(r) \/ Answer(r)
       \/ Restart
    /\ UNCHANGED producerVars

ReplayNext == Produce \/ Serve \/ Complete

ReplaySpec == ReplayInit /\ [][ReplayNext]_replayVars

-----------------------------------------------------------------------------
ReplayTypeOK ==
    /\ producer \in {"post", "await", "complete"}
    /\ cycle \in 1 .. Len(Bodies) + 1 /\ attempt \in 1 .. max_attempts
    /\ producer = "complete" <=> cycle > Len(Bodies)
    /\ total_sent \in Nat /\ total_errors \in 0 .. cycle - 1
    /\ posted \subseteq Requests /\ abandoned \in BOOLEAN
    /\ \A r \in Requests : pc[r] # "idle" => r \in posted /\ batch[r] = Bodies[r[1]]

StoredCycles == {c \in Cycles : \E r \in sensor_readings : r[1] = c}

\* What the producer counts as sent is in the database, and as long as the
\* application did not crash GET /metrics has counted it: no exception is
\* mistaken for a success.
SentIsStored ==
    /\ total_sent <= SumFunctionOnSet([c \in Cycles |-> Len(Bodies[c])], StoredCycles)
    /\ restarts = 0 => total_sent <= metrics.total_readings

\* Attempt q was made after attempt r.
After(q, r) == q[1] > r[1] \/ (q[1] = r[1] /\ q[2] > r[2])

\* As long as no attempt was given up while its handler might go on, every
\* engine is fed in the order of the replay, repeated attempts included.
FedInReplayOrder ==
    ~abandoned => \A e \in Engines : \A j, k \in 1 .. Len(pushed[e]) :
                      j < k => ~After(pushed[e][j].req, pushed[e][k].req)
=============================================================================
