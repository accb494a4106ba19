---------------------------- MODULE MCAiSession ----------------------------
(* Values of the constants of AiSession for TLC. *)
EXTENDS AiSession, TLC

CONSTANTS q1, q2

\* A first question, the same one with its answer and a second question, and
\* the second question alone after the first was deleted.
Chats == {<<q1>>, <<q1, Answer, q2>>, <<q2>>}

Symmetry == Permutations(Workers) \cup Permutations(ProviderKeys)
=============================================================================
