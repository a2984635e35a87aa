----------------------------- MODULE MCReconnect -----------------------------
(* A small instance of Reconnect for TLC. *)
EXTENDS Reconnect

CONSTANTS R1, R2

TwoRequests == {R1, R2}
=============================================================================
