--------------------------- MODULE MCAlertStream ---------------------------
(***************************************************************************)
(* A small instance of AlertStream for TLC.                                *)
(***************************************************************************)
EXTENDS AlertStream
=============================================================================
