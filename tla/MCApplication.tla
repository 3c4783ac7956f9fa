--------------------------- MODULE MCApplication ---------------------------
(***************************************************************************)
(* A small instance of Application for TLC.                                *)
(***************************************************************************)
EXTENDS Application

CONSTANT engine

Row(id, time, engine_id) ==
    [id |-> id, time |-> time, engine_id |-> engine_id, severity |-> "WARNING"]

\* Three rows of one engine, two of them of the same time.
MCRows == { Row(1, 1, engine), Row(2, 2, engine), Row(3, 2, engine) }
MCFilters == { [engines |-> {engine}, severities |-> {"WARNING", "CRITICAL"}] }
MCRanges == { [start |-> 0, end |-> 1], [start |-> 1, end |-> 2] }
=============================================================================
