------------------------------ MODULE MCReplay ------------------------------
(***************************************************************************)
(* A small instance of Replay for TLC.                                     *)
(***************************************************************************)
EXTENDS Replay

CONSTANTS engine, degraded

\* Errors and thresholds: even numbers are singles, an odd one rounds down.
MCDoubles == 0 .. 9
MCSingles == {d \in MCDoubles : d % 2 = 0}
MCReal32 == [d \in MCDoubles |-> d - (d % 2)]
MCReconError(w) == 4 * Cardinality({k \in DOMAIN w : w[k] = "hi"})

\* Each cycle has a reading of the engine and one of the degraded engine.
MCBodies ==
    LET Body(value) == << [engine_id |-> engine, value |-> "lo"],
                          [engine_id |-> degraded, value |-> value] >>
    IN  << Body("lo"), Body("hi") >>
MCBatches == {MCBodies[c] : c \in DOMAIN MCBodies}
MCRequests == (1 .. 2) \X (1 .. max_attempts)
=============================================================================
