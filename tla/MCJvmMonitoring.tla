--------------------------- MODULE MCJvmMonitoring ---------------------------
(* A small instance of JvmMonitoring. *)
EXTENDS JvmMonitoring, TLC

CONSTANTS c1, c2
=============================================================================
