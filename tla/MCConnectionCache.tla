------------------------- MODULE MCConnectionCache -------------------------
(* Values of the constants of ConnectionCache for TLC. *)
EXTENDS ConnectionCache, TLC

\* All databases of one server: a release takes them all.
OneServer == [cfg \in Configs |-> "server"]

Symmetry == Permutations(Insts) \cup Permutations(Callers)
=============================================================================
