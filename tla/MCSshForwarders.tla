--------------------------- MODULE MCSshForwarders ---------------------------
(* Values of the constants of SshForwarders for TLC. *)
EXTENDS SshForwarders, TLC

OneServer == [k \in Keys |-> CHOOSE s \in Servers : TRUE]

Symmetry == Permutations(Fwds) \cup Permutations(Clients)
=============================================================================
