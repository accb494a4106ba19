--------------------------- MODULE MCQueryHistory ---------------------------
(* Values of the constants of QueryHistory for TLC. *)
EXTENDS QueryHistory, TLC

Symmetry == Permutations(Workers \ Clearers)
=============================================================================
