---------------------------- MODULE MCWebSocket ----------------------------
(* Instances of WebSocketProps for TLC. *)
EXTENDS WebSocketProps

CONSTANTS k1, k2

TwoConns == {k1, k2}
OneOfThem == {k1}

=============================================================================
