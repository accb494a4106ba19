-------------------------- MODULE MCSqlTransaction --------------------------
(* Small instances of SqlTransaction. *)
EXTENDS SqlTransaction, TLC

CONSTANTS c1, c2, c3, t1, t2

AllText == [t \in Sessions |-> "text"]
TextAndConn == [t \in Sessions |-> IF t = t1 THEN "text" ELSE "conn"]
ImplicitAndConn == [t \in Sessions |-> IF t = t1 THEN "implicit" ELSE "conn"]

Symmetry == Permutations(Callers)
SymmetryOfAll == Permutations(Callers) \cup Permutations(Sessions)
============================================================================
