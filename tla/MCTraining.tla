----------------------------- MODULE MCTraining -----------------------------
(***************************************************************************)
(* A small instance of TrainingPipeline for TLC.                           *)
(***************************************************************************)
EXTENDS TrainingPipeline

CONSTANTS s1, s2

\* 5 -> 3 is an improvement, 3 -> 2 is within min_delta.
MCLosses == {2, 3, 5}
=============================================================================
