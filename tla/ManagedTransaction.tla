------------------------ MODULE ManagedTransaction ------------------------
(***************************************************************************)
(* What the SQL editor's managed transactions promise, whatever goroutines *)
(* serve them: a transaction is exposed to the user only when all its      *)
(* statements have succeeded, it is committed only after a commit request, *)
(* and every transaction is ended once: decided, or abandoned to a server  *)
(* that did not take its rollback or commit.                               *)
(***************************************************************************)
CONSTANT Sessions

VARIABLE phase

Decided == {"committed", "rolledback"}
Ended == Decided \cup {"abandoned"}
Phases == {"absent", "working", "pending", "committing", "rollingback"}
              \cup Ended

MTInit == phase = [t \in Sessions |-> "absent"]

Move(t, from, to) ==
    /\ phase[t] \in from
    /\ phase' = [phase EXCEPT ![t] = to]

Open(t) == Move(t, {"absent"}, "working")
Expose(t) == Move(t, {"working"}, "pending")
RequestCommit(t) == Move(t, {"pending"}, "committing")
RequestRollback(t) == Move(t, {"pending"}, "rollingback")
Commit(t) == Move(t, {"committing"}, "committed")
\* A failure, a lost connection or a rollback undoes what is not decided yet.
Undo(t) ==
    Move(t, {"working", "pending", "committing", "rollingback"}, "rolledback")
\* The server refuses to end it and the session is given up.
Abandon(t) ==
    Move(t, {"working", "committing", "rollingback"}, "abandoned")
Drain(S) ==
    /\ \A t \in S : phase[t] \in {"pending", "rolledback"}
    /\ phase' = [t \in Sessions |->
                    IF t \in S /\ phase[t] = "pending" THEN "rollingback"
                    ELSE phase[t]]

MTNext ==
    \/ \E t \in Sessions :
          \/ Open(t) \/ Expose(t) \/ RequestCommit(t)
          \/ RequestRollback(t) \/ Commit(t) \/ Undo(t) \/ Abandon(t)
    \/ \E S \in SUBSET Sessions : Drain(S)

MTSpec == MTInit /\ [][MTNext]_phase

\* A step of a transaction towards its end: what is ended stays so, a commit
\* was asked for, and it was asked for while the transaction was pending; none
\* is abandoned before its end was asked for.
MovesOn(t) ==
    /\ phase[t] \in Ended => phase'[t] = phase[t]
    /\ phase'[t] = "committed" => phase[t] \in {"committing", "committed"}
    /\ phase'[t] = "committing" => phase[t] \in {"pending", "committing"}
    /\ phase'[t] = "pending" => phase[t] \in {"working", "pending"}
    /\ phase'[t] = "abandoned" => phase[t] # "pending"

DecidedOnce == [][\A t \in Sessions : MovesOn(t)]_phase
============================================================================
