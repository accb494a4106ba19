--------------------------- MODULE MCDriverAgent ----------------------------
(* A small instance of DriverAgent. *)
EXTENDS DriverAgent, TLC

CONSTANTS c1, c2
=============================================================================
