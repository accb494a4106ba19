---------------------------- MODULE SqlEditorTab ----------------------------
(***************************************************************************)
(* The editor's side of managed transactions: the run of a query tab that  *)
(* leaves a transaction pending, the automatic or manual end of it, the    *)
(* tab that is closed meanwhile and the quit of the application            *)
(* (useSqlEditorTransactionController.ts, QueryEditor.tsx, App.tsx).       *)
(*                                                                         *)
(* The backend is its specification, ManagedTransaction, which             *)
(* SqlTransaction implements.  JavaScript runs one callback at a time, so  *)
(* a step is what happens between two awaits.                              *)
(***************************************************************************)
EXTENDS Naturals, FiniteSets

CONSTANTS
    Editors,      \* mounts of the QueryEditor component
    Tabs,
    TabOf,        \* [Editors -> Tabs]: a tab that is opened again is remounted
    Txs, NoTx,    \* backend transactions, null
    Modes         \* the commit modes the user may have set

ASSUME ConstantsAssumption ==
    /\ TabOf \in [Editors -> Tabs]
    /\ NoTx \notin Txs
    /\ Modes \subseteq {"auto", "manual"}

OptTx == Txs \cup {NoTx}
Quitter == "quit"
ASSUME QuitterAssumption == Quitter \notin Editors
Request == [tx : Txs, do : {"commit", "rollback"}, from : Editors \cup {Quitter},
            at : {"sent", "served"}]

VARIABLES
    phase,        \* [Txs -> Phases]: the backend
    rpc,          \* SUBSET Request: DBCommitTransaction, DBRollbackTransaction
    view,         \* [Editors -> {"unborn", "mounted", "unmounted"}]
    run,          \* [Editors -> [tx, reply]]: the run in flight
    pendingRef,   \* [Editors -> OptTx]: pendingSqlTransactionRef
    finishing,    \* [Editors -> SUBSET Txs]: finishingTransactionIdsRef
    timer,        \* [Editors -> OptTx]: what the auto-commit timer will commit
    store,        \* [Tabs -> OptTx]: sqlEditorPendingTransactions
    quitting,     \* "no", "rolling" (its rollbacks are out), "down"
    asked,        \* history: transactions some editor asked to finish
    closedWith,   \* history: those that were pending in a tab that was closed
    late          \* history: those that became pending after it was closed

editVars == <<view, run, pendingRef, finishing, timer, store>>
histVars == <<asked, closedWith, late>>
vars == <<phase, rpc, editVars, quitting, histVars>>

Backend == INSTANCE ManagedTransaction WITH Sessions <- Txs

NoRun == [tx |-> NoTx, reply |-> "none"]

\* The backend ends a transaction without its commit: the server undoes it, or
\* does not take the rollback or the commit it was sent.
Undoes(t) == Backend!Undo(t) \/ Backend!Abandon(t)

TypeOK ==
    /\ phase \in [Txs -> Backend!Phases]
    /\ rpc \in SUBSET Request
    /\ view \in [Editors -> {"unborn", "mounted", "unmounted"}]
    /\ run \in [Editors -> [tx : OptTx, reply : {"none", "pending", "failed"}]]
    /\ pendingRef \in [Editors -> OptTx]
    /\ finishing \in [Editors -> SUBSET Txs]
    /\ timer \in [Editors -> OptTx]
    /\ store \in [Tabs -> OptTx]
    /\ quitting \in {"no", "rolling", "down"}
    /\ asked \in SUBSET Txs
    /\ closedWith \in SUBSET Txs
    /\ late \in SUBSET Txs

Init ==
    /\ Backend!MTInit
    /\ rpc = {}
    /\ view = [e \in Editors |-> "unborn"]
    /\ run = [e \in Editors |-> NoRun]
    /\ pendingRef = [e \in Editors |-> NoTx]
    /\ finishing = [e \in Editors |-> {}]
    /\ timer = [e \in Editors |-> NoTx]
    /\ store = [b \in Tabs |-> NoTx]
    /\ quitting = "no"
    /\ asked = {}
    /\ closedWith = {}
    /\ late = {}

Up == quitting # "down"
Mounted(e) == view[e] = "mounted"

----------------------------------------------------------------------------
(* One run of the editor. *)

Mount(e) ==
    /\ Up
    /\ view[e] = "unborn"
    /\ \A d \in Editors : TabOf[d] = TabOf[e] => ~Mounted(d)
    /\ view' = [view EXCEPT ![e] = "mounted"]
    /\ UNCHANGED <<phase, rpc, run, pendingRef, finishing, timer, store,
                   quitting, histVars>>

\* Identifiers are new every time; which one it is makes no difference.
NewTx == CHOOSE t \in OptTx :
           IF \E u \in Txs : phase[u] = "absent"
             THEN t \in Txs /\ phase[t] = "absent" ELSE t = NoTx

\* handleRunWithSql with statements that need a managed transaction: refused
\* while one is pending here or a run is in flight.
Run(e) ==
    /\ Up
    /\ Mounted(e)
    /\ run[e] = NoRun
    /\ pendingRef[e] = NoTx
    /\ NewTx \in Txs
    /\ Backend!Open(NewTx)
    /\ run' = [run EXCEPT ![e] = [tx |-> NewTx, reply |-> "none"]]
    /\ UNCHANGED <<rpc, view, pendingRef, finishing, timer, store, quitting,
                   histVars>>

\* DBQueryMultiTransactional: all statements succeeded, or one failed or was
\* cancelled by the Stop button in time.
RunEnds(e) ==
    /\ run[e].tx # NoTx
    /\ run[e].reply = "none"
    /\ \/ Backend!Expose(run[e].tx) /\ run' = [run EXCEPT ![e].reply = "pending"]
       \/ Undoes(run[e].tx) /\ run' = [run EXCEPT ![e].reply = "failed"]
    /\ UNCHANGED <<rpc, view, pendingRef, finishing, timer, store, quitting,
                   histVars>>

\* activatePendingSqlTransaction, whether or not the tab is still there and
\* whether or not the user pressed Stop since.
Activate(e, t) ==
    \E mode \in Modes :
        /\ timer' = [timer EXCEPT ![e] = IF mode = "auto" THEN t ELSE NoTx]
        /\ pendingRef' = [pendingRef EXCEPT ![e] = t]
        /\ store' = [store EXCEPT ![TabOf[e]] = t]

RunReturns(e) ==
    /\ Up
    /\ run[e].reply # "none"
    /\ run' = [run EXCEPT ![e] = NoRun]
    /\ \/ /\ run[e].reply = "pending"
          /\ Activate(e, run[e].tx)
          /\ late' = IF Mounted(e) THEN late ELSE late \cup {run[e].tx}
       \/ /\ run[e].reply = "failed"
          /\ UNCHANGED <<timer, pendingRef, store, late>>
    /\ UNCHANGED <<phase, rpc, view, finishing, quitting, asked, closedWith>>

----------------------------------------------------------------------------
(* The end of a pending transaction. *)

Ask(t, do, from) ==
    rpc' = rpc \cup {[tx |-> t, do |-> do, from |-> from, at |-> "sent"]}

\* updatePendingSqlTransaction(null).
Hide(e) ==
    /\ pendingRef' = [pendingRef EXCEPT ![e] = NoTx]
    /\ store' = [store EXCEPT ![TabOf[e]] = NoTx]

\* Mutant: the pending transaction stays shown until the reply.
FinishPendingShown(e, do) ==
    LET t == pendingRef[e] IN
    /\ t # NoTx
    /\ timer' = [timer EXCEPT ![e] = NoTx]
    /\ finishing' = [finishing EXCEPT ![e] = @ \cup {t}]
    /\ Ask(t, do, e)
    /\ asked' = asked \cup {t}
    /\ UNCHANGED <<pendingRef, store>>

\* Mutant: the timer is left running.
FinishPendingTimed(e, do) ==
    LET t == pendingRef[e] IN
    /\ t # NoTx
    /\ t \notin finishing[e]
    /\ finishing' = [finishing EXCEPT ![e] = @ \cup {t}]
    /\ Hide(e)
    /\ Ask(t, do, e)
    /\ asked' = asked \cup {t}
    /\ UNCHANGED timer

\* finishPendingSqlTransaction up to its await.
FinishPending(e, do) ==
    LET t == pendingRef[e] IN
    /\ t # NoTx
    /\ t \notin finishing[e]
    /\ timer' = [timer EXCEPT ![e] = NoTx]
    /\ finishing' = [finishing EXCEPT ![e] = @ \cup {t}]
    /\ Hide(e)
    /\ Ask(t, do, e)
    /\ asked' = asked \cup {t}

\* The toolbar's buttons.
Click(e, do) ==
    /\ Up
    /\ Mounted(e)
    /\ FinishPending(e, do)
    /\ UNCHANGED <<phase, view, run, quitting, closedWith, late>>

\* Mutant: only a tab that is still open commits.
TimerFiresMounted(e) ==
    /\ Up
    /\ Mounted(e)
    /\ timer[e] # NoTx
    /\ timer[e] = pendingRef[e] /\ FinishPending(e, "commit")
    /\ UNCHANGED <<phase, view, run, quitting, closedWith, late>>

\* The timer commits the transaction it was started for, if that one is still
\* the pending one.
TimerFires(e) ==
    /\ Up
    /\ timer[e] # NoTx
    /\ \/ timer[e] = pendingRef[e] /\ FinishPending(e, "commit")
       \/ /\ timer[e] # pendingRef[e]
          /\ timer' = [timer EXCEPT ![e] = NoTx]
          /\ UNCHANGED <<rpc, pendingRef, finishing, store, asked>>
    /\ UNCHANGED <<phase, view, run, quitting, closedWith, late>>

\* Mutant: the timer of a closed tab goes on, and nothing is rolled back.
UnmountTimed(e) ==
    /\ Up
    /\ Mounted(e)
    /\ view' = [view EXCEPT ![e] = "unmounted"]
    /\ closedWith' = closedWith \cup ({pendingRef[e]} \ {NoTx})
    /\ UNCHANGED <<phase, rpc, run, pendingRef, finishing, timer, store, quitting,
                   asked, late>>

\* Mutant: the transaction is hidden without a rollback.
UnmountHiding(e) ==
    /\ Up
    /\ Mounted(e)
    /\ view' = [view EXCEPT ![e] = "unmounted"]
    /\ timer' = [timer EXCEPT ![e] = NoTx]
    /\ Hide(e)
    /\ closedWith' = closedWith \cup ({pendingRef[e]} \ {NoTx})
    /\ UNCHANGED <<phase, rpc, run, finishing, quitting, asked, late>>

\* The cleanup of the controller's effect when the tab is closed.
Unmount(e) ==
    /\ Up
    /\ Mounted(e)
    /\ view' = [view EXCEPT ![e] = "unmounted"]
    /\ timer' = [timer EXCEPT ![e] = NoTx]
    /\ IF pendingRef[e] = NoTx
         THEN UNCHANGED <<pendingRef, store, rpc, asked, closedWith>>
         ELSE /\ Hide(e)
              /\ Ask(pendingRef[e], "rollback", e)
              /\ asked' = asked \cup {pendingRef[e]}
              /\ closedWith' = closedWith \cup {pendingRef[e]}
    /\ UNCHANGED <<phase, run, finishing, quitting, late>>

----------------------------------------------------------------------------
(* The backend at work. *)

Serve(r) ==
    /\ r.at = "sent"
    /\ IF phase[r.tx] = "pending"
         THEN /\ IF r.do = "commit" THEN Backend!RequestCommit(r.tx)
                                    ELSE Backend!RequestRollback(r.tx)
              /\ rpc' = (rpc \ {r}) \cup {[r EXCEPT !.at = "served"]}
              /\ UNCHANGED finishing
         ELSE /\ rpc' = rpc \ {r}
              /\ finishing' = [e \in Editors |-> IF e = r.from
                                 THEN finishing[e] \ {r.tx} ELSE finishing[e]]
              /\ UNCHANGED phase
    /\ UNCHANGED <<view, run, pendingRef, timer, store, quitting, histVars>>

\* The reply only shows a message and clears the guard against a second finish.
Reply(r) ==
    /\ r.at = "served"
    /\ \/ r.do = "commit" /\ Backend!Commit(r.tx)
       \/ Undoes(r.tx)
    /\ rpc' = rpc \ {r}
    /\ finishing' = [e \in Editors |-> IF e = r.from
                       THEN finishing[e] \ {r.tx} ELSE finishing[e]]
    /\ UNCHANGED <<view, run, pendingRef, timer, store, quitting, histVars>>

----------------------------------------------------------------------------
(* handleAppQuit, then Shutdown. *)

Quit ==
    /\ quitting = "no"
    /\ quitting' = "rolling"
    /\ rpc' = rpc \cup
         {[tx |-> store[b], do |-> "rollback", from |-> Quitter, at |-> "sent"] :
              b \in {c \in Tabs : store[c] # NoTx}}
    /\ UNCHANGED <<phase, editVars, histVars>>

\* Once its rollbacks are settled the entries are cleared (those that were made
\* meanwhile stay, but nobody reads them any more), and what the backend still
\* has pending is drained.
QuitEnds ==
    /\ quitting = "rolling"
    /\ \A r \in rpc : r.from # Quitter
    /\ quitting' = "down"
    /\ store' = [b \in Tabs |-> NoTx]
    /\ Backend!Drain({t \in Txs : phase[t] = "pending"})
    /\ UNCHANGED <<rpc, view, run, pendingRef, finishing, timer, histVars>>

DrainUndoes(t) ==
    /\ quitting = "down"
    /\ phase[t] = "rollingback"
    /\ Undoes(t)
    /\ UNCHANGED <<rpc, editVars, quitting, histVars>>

----------------------------------------------------------------------------
Next ==
    \/ \E e \in Editors :
          \/ Mount(e) \/ Run(e) \/ RunEnds(e) \/ RunReturns(e)
          \/ Click(e, "commit") \/ Click(e, "rollback")
          \/ TimerFires(e) \/ Unmount(e)
    \/ \E r \in rpc : Serve(r) \/ Reply(r)
    \/ Quit \/ QuitEnds
    \/ \E t \in Txs : DrainUndoes(t)

Spec == Init /\ [][Next]_vars

\* The backend works while it has work, and an armed timer fires.
Fairness ==
    /\ \A e \in Editors : WF_vars(TimerFires(e))
    /\ WF_vars(\E r \in rpc : Serve(r) \/ Reply(r))
    /\ WF_vars(QuitEnds)
    /\ \A t \in Txs : WF_vars(DrainUndoes(t))

FairSpec == Spec /\ Fairness

----------------------------------------------------------------------------
(* Properties. *)

EditorsOK ==
    \A e \in Editors :
        /\ pendingRef[e] # NoTx => phase[pendingRef[e]] # "working"
        /\ timer[e] # NoTx => timer[e] = pendingRef[e]
        /\ pendingRef[e] \notin finishing[e]

\* Only what an editor has asked to finish is committed, and never while
\* a tab still shows it as pending, whose buttons and timer would ask again.
CommitsAreAsked ==
    /\ \A t \in Txs : phase[t] \in {"committing", "committed"} => t \in asked
    /\ \A e \in Editors :
          pendingRef[e] # NoTx => phase[pendingRef[e]] \notin {"committing", "committed"}

Inv == TypeOK /\ EditorsOK /\ CommitsAreAsked

\* The editors ask the backend to finish a transaction at most once, whatever
\* clicks, timers and closed tabs come together.
EditorsAskOnce ==
    [][\A r \in rpc' \ rpc :
         r.from \in Editors /\ r.at = "sent" => r.tx \notin asked]_vars

\* A transaction that was pending in a tab when it was closed is not committed.
ClosedIsUndone ==
    \A t \in closedWith :
        phase[t] \in {"pending", "rollingback", "rolledback", "abandoned"}

\* A pending transaction is shown in an open tab, where the quit of the
\* application finds it, or somebody is on the way with it.  The exception is a
\* transaction whose tab was closed before the reply of its run came: it is
\* shown nowhere, and its entry in the store may have replaced another's.
Shown(t) ==
    \E e \in Editors : /\ Mounted(e)
                       /\ pendingRef[e] = t
                       /\ store[TabOf[e]] = t \/ late # {}
OnTheWay(t) ==
    \/ \E r \in rpc : r.tx = t
    \/ \E e \in Editors : run[e].tx = t
PendingIsTracked ==
    Up => \A t \in Txs \ late : phase[t] = "pending" => Shown(t) \/ OnTheWay(t)

\* What is to be committed automatically is ended: decided, or abandoned to a
\* server that did not take the commit.
AutoIsDecided ==
    \A e \in Editors, t \in Txs :
        timer[e] = t ~> phase[t] \in Backend!Ended

=============================================================================
