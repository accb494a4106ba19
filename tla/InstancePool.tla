---------------------------- MODULE InstancePool ----------------------------
(***************************************************************************)
(* What the connection cache promises, without goroutines: every           *)
(* connection is opened once, sits in the cache for at most one stretch of *)
(* time and under one key, never comes back, and is closed once.           *)
(***************************************************************************)
EXTENDS Naturals

CONSTANTS Keys, Insts, NoInst

VARIABLES
    where,   \* [Insts -> Phases]
    slot     \* [Keys -> Insts \cup {NoInst}]

Phases == {"unused", "private", "cached", "retired", "closed"}

PoolTypeOK ==
    /\ where \in [Insts -> Phases]
    /\ slot \in [Keys -> Insts \cup {NoInst}]

PoolInit ==
    /\ where = [i \in Insts |-> "unused"]
    /\ slot = [k \in Keys |-> NoInst]

Connect(i) ==
    /\ where[i] = "unused"
    /\ where' = [where EXCEPT ![i] = "private"]
    /\ UNCHANGED slot

Publish(k, i) ==
    /\ where[i] = "private" /\ slot[k] = NoInst
    /\ where' = [where EXCEPT ![i] = "cached"]
    /\ slot' = [slot EXCEPT ![k] = i]

Taken == {k \in Keys : slot[k] # NoInst}

\* Instances leave the cache, closed at once or by somebody later.
Withdraw(K, phase) ==
    LET out == {slot[k] : k \in K} IN
    /\ slot' = [k \in Keys |-> IF k \in K THEN NoInst ELSE slot[k]]
    /\ where' = [i \in Insts |-> IF i \in out THEN phase ELSE where[i]]

CloseApart(i) ==
    /\ where[i] \in {"private", "retired"}
    /\ where' = [where EXCEPT ![i] = "closed"]
    /\ UNCHANGED slot

PoolNext ==
    \/ \E i \in Insts : Connect(i) \/ CloseApart(i)
    \/ \E k \in Keys, i \in Insts : Publish(k, i)
    \/ \E K \in SUBSET Taken, phase \in {"retired", "closed"} : Withdraw(K, phase)

PoolSpec == PoolInit /\ [][PoolNext]_<<where, slot>>

\* What is found in the cache is in it.
SlotsAreCached == \A k \in Taken : where[slot[k]] = "cached"

\* The way of a connection through the pool, which leads back nowhere.
Onwards(i) ==
    /\ where[i] = "closed" => where'[i] = "closed"
    /\ where[i] = "retired" => where'[i] \in {"retired", "closed"}
    /\ where[i] = "cached" => where'[i] \in {"cached", "retired", "closed"}
    /\ where[i] = "private" => where'[i] \in {"private", "cached", "closed"}

NeverBack == [][\A i \in Insts : Onwards(i)]_<<where, slot>>
=============================================================================
