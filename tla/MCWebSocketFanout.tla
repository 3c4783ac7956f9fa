------------------------- MODULE MCWebSocketFanout -------------------------
(***************************************************************************)
(* A small instance of WebSocketFanout for TLC.  Clients ask for the       *)
(* alerts of one of the two engines, or of both.                           *)
(***************************************************************************)
EXTENDS WebSocketFanout

CONSTANTS c1, c2, e1, e2

=============================================================================
