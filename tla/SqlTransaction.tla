--------------------------- MODULE SqlTransaction ---------------------------
(***************************************************************************)
(* The managed transactions of the SQL editor (internal/app): opening one, *)
(* running follow-up statements in it, committing, rolling back,           *)
(* cancelling a query that runs in it, and the rollback at Shutdown.       *)
(*                                                                         *)
(* Callers are goroutines that serve one bound method at a time.  A step   *)
(* is one critical section of sqlTransactionMu or queryMu, or one exchange *)
(* with the server on the pinned connection, whose driver serialises its   *)
(* users.                                                                  *)
(***************************************************************************)
EXTENDS Naturals, FiniteSets

CONSTANTS
    Callers,        \* goroutines running bound methods
    Sessions,       \* pinned sessions, one per transaction id
    NoTx,           \* no transaction
    Kind,           \* [Sessions -> Kinds]: what the driver provides
    AbortsOnError,  \* a failed statement aborts the server's transaction
    MaxStatements   \* bound on the statements of one request

\* "text":     SessionExecerProvider, BEGIN/COMMIT/ROLLBACK sent as SQL
\* "implicit": the same without BEGIN, the server begins at the first write
\* "conn":     TransactionExecerProvider, sqlConnTransactionExecer
Kinds == {"text", "implicit", "conn"}

ASSUME ConstantsAssumption ==
    /\ NoTx \notin Sessions
    /\ Kind \in [Sessions -> Kinds]
    /\ AbortsOnError \in BOOLEAN
    /\ MaxStatements \in Nat \ {0}

Ops == {"none", "start", "query", "commit", "rollback", "cancel"}
Places == {"idle", "open", "begin", "check", "run", "undo", "register",
           "lookup", "reply", "drop", "control", "close"}
Call == [op : Ops, tx : Sessions \cup {NoTx}, left : 0..MaxStatements,
         ok : BOOLEAN]
NoCall == [op |-> "none", tx |-> NoTx, left |-> 0, ok |-> TRUE]

VARIABLES
    sqlTransactions,  \* App.sqlTransactions: the sessions that are pending
    runningQueries,   \* App.runningQueries: callers that can be cancelled
    cancelled,        \* callers whose query context is cancelled
    execer,           \* [Sessions -> ...]: the StatementExecer
    server,           \* [Sessions -> ...]: the server's end of the session
    fate,             \* [Sessions -> ...]: what became of the transaction
    unsettled,        \* history: sessions whose BEGIN, COMMIT or ROLLBACK came
                      \* back with an error and left the transaction open
    told,             \* [Sessions -> ...]: what the user was told at the end
    pc, call,         \* the callers
    shutdown,         \* "no", "drain", "done"
    pending, closing  \* Shutdown's list, and the one rolled back, not closed

sessionVars == <<execer, server, fate, unsettled>>
registryVars == <<sqlTransactions, runningQueries, cancelled>>
shutdownVars == <<shutdown, pending, closing>>
vars == <<registryVars, sessionVars, told, pc, call, shutdownVars>>

TypeOK ==
    /\ sqlTransactions \subseteq Sessions
    /\ runningQueries \subseteq Callers
    /\ cancelled \subseteq Callers
    /\ execer \in [Sessions -> {"unused", "open", "done", "closed"}]
    /\ server \in [Sessions -> {"none", "active", "aborted", "over", "lost"}]
    /\ fate \in [Sessions -> {"none", "open", "committed", "rolledback"}]
    /\ unsettled \subseteq Sessions
    /\ told \in [Sessions -> {"nothing", "committed", "rolledback", "failed"}]
    /\ pc \in [Callers -> Places]
    /\ call \in [Callers -> Call]
    /\ shutdown \in {"no", "drain", "done"}
    /\ pending \subseteq Sessions
    /\ closing \subseteq Sessions

Init ==
    /\ sqlTransactions = {}
    /\ runningQueries = {}
    /\ cancelled = {}
    /\ execer = [t \in Sessions |-> "unused"]
    /\ server = [t \in Sessions |-> "none"]
    /\ fate = [t \in Sessions |-> "none"]
    /\ unsettled = {}
    /\ told = [t \in Sessions |-> "nothing"]
    /\ pc = [c \in Callers |-> "idle"]
    /\ call = [c \in Callers |-> NoCall]
    /\ shutdown = "no"
    /\ pending = {}
    /\ closing = {}

----------------------------------------------------------------------------
Goto(c, place) == pc' = [pc EXCEPT ![c] = place]

\* Where a statement begins: the executor of a driver transaction looks first
\* whether it is done, the others send.
Statement(t) == IF Kind[t] = "conn" THEN "check" ELSE "run"

\* The method returns; the deferred unregisterRunningQuery has run.
Return(c) ==
    /\ Goto(c, "idle")
    /\ call' = [call EXCEPT ![c] = NoCall]
    /\ runningQueries' = runningQueries \ {c}
    /\ cancelled' = cancelled \ {c}

Enter(c, op, t, n, place) ==
    /\ pc[c] = "idle"
    /\ Goto(c, place)
    /\ call' = [call EXCEPT ![c] = [op |-> op, tx |-> t, left |-> n,
                                    ok |-> TRUE]]

\* The connection still answers and the executor still sends.
Reachable(t) == execer[t] = "open" /\ server[t] # "lost"

Ended(t, how) ==
    IF fate[t] # "open" THEN fate[t]
    ELSE IF how = "commit" /\ server[t] = "active" THEN "committed"
    ELSE "rolledback"

InTransaction(t) == server[t] \in {"active", "aborted"}

\* What COMMIT or ROLLBACK does at the server, which takes it or refuses it
\* (a busy or locked database, a deadlock, a timeout) and then keeps the
\* transaction open on a connection that lives.  A COMMIT of a transaction
\* the server has aborted is answered without an error and rolls back.
Settle(t, how, taken) ==
    /\ server' = [server EXCEPT ![t] =
                     IF Reachable(t) /\ taken /\ InTransaction(t)
                     THEN "over" ELSE @]
    /\ fate' = [fate EXCEPT ![t] =
                   IF Reachable(t) /\ taken THEN Ended(t, how) ELSE @]
    /\ unsettled' = IF Reachable(t) /\ ~ taken /\ InTransaction(t)
                    THEN unsettled \cup {t} ELSE unsettled

\* COMMIT or ROLLBACK is sent, or the executor's finish returns at once
\* because the transaction is done.  finish notes it as done before it knows
\* whether the server took it.
Control(t, how, taken) ==
    /\ execer' = [execer EXCEPT ![t] =
                     IF Kind[t] = "conn" /\ @ = "open" THEN "done" ELSE @]
    /\ Settle(t, how, taken)

\* The answer may say so: not of what was refused or of a dead connection.
ControlOk(t, taken) ==
    \/ Reachable(t) /\ taken
    \/ Kind[t] = "conn" /\ execer[t] # "open"

\* Close gives the connection back to the pool; the executor of a driver
\* transaction that is not done rolls back first, others do not.
Close(t) ==
    /\ execer' = [execer EXCEPT ![t] = "closed"]
    /\ IF Kind[t] = "conn"
       THEN \E taken \in BOOLEAN : Settle(t, "rollback", taken)
       ELSE UNCHANGED <<server, fate, unsettled>>
----------------------------------------------------------------------------
\* DBQueryMultiTransactional, once getDatabase has returned a connection: the
\* query is registered for cancellation.
BeginStart(c, t, n) ==
    /\ execer[t] = "unused"
    /\ \A d \in Callers : call[d].tx # t
    /\ Enter(c, "start", t, n, "open")
    /\ runningQueries' = runningQueries \cup {c}
    /\ UNCHANGED <<sqlTransactions, cancelled, sessionVars, told,
                   shutdownVars>>

OpenSession(c) ==
    /\ pc[c] = "open"
    /\ execer' = [execer EXCEPT ![call[c].tx] = "open"]
    /\ Goto(c, IF Kind[call[c].tx] = "text" THEN "begin"
               ELSE Statement(call[c].tx))
    /\ UNCHANGED <<registryVars, server, fate, unsettled, told, call,
                   shutdownVars>>

OpenFails(c) ==
    /\ pc[c] = "open"
    /\ Return(c)
    /\ UNCHANGED <<sqlTransactions, sessionVars, told, shutdownVars>>

\* BEGIN fails, or its answer is an error (a timeout) although the server
\* has begun; the deferred Close follows without a rollback.
BeginSQL(c) ==
    LET t == call[c].tx IN
    /\ pc[c] = "begin"
    /\ \/ /\ c \notin cancelled
          /\ Reachable(t)
          /\ server' = [server EXCEPT ![t] = "active"]
          /\ fate' = [fate EXCEPT ![t] = "open"]
          /\ Goto(c, Statement(t))
          /\ UNCHANGED unsettled
       \/ /\ Goto(c, "close")
          /\ UNCHANGED <<server, fate, unsettled>>
       \/ /\ Reachable(t)
          /\ server' = [server EXCEPT ![t] = "active"]
          /\ fate' = [fate EXCEPT ![t] = "open"]
          /\ unsettled' = unsettled \cup {t}
          /\ Goto(c, "close")
    /\ UNCHANGED <<registryVars, execer, told, call, shutdownVars>>

\* executeManagedSQLTransactionStatements: activeConn looks at done under
\* its mutex and the statement is sent after it is released.
CheckActive(c) ==
    /\ pc[c] = "check"
    /\ IF execer[call[c].tx] # "open"
       THEN Goto(c, IF call[c].op = "start" THEN "undo" ELSE "reply")
       ELSE Goto(c, "run")
    /\ UNCHANGED <<registryVars, sessionVars, told, call,
                   shutdownVars>>

\* A statement outside a transaction commits by itself, or begins a new
\* transaction where the server begins them implicitly.
StatementOk(c) ==
    LET t == call[c].tx IN
    /\ pc[c] = "run"
    /\ c \notin cancelled
    /\ execer[t] # "closed"
    /\ server[t] \in {"none", "active", "over"}
    /\ server' = [server EXCEPT ![t] =
                     IF @ = "over" /\ Kind[t] = "text" THEN @ ELSE "active"]
    /\ fate' = [fate EXCEPT ![t] = IF @ = "none" THEN "open" ELSE @]
    /\ call' = [call EXCEPT ![c].left = @ - 1]
    /\ Goto(c, IF call[c].left > 1 THEN Statement(t)
               ELSE IF call[c].op = "start" THEN "register" ELSE "reply")
    /\ UNCHANGED <<registryVars, execer, unsettled, told, shutdownVars>>

StatementFails(c) ==
    LET t == call[c].tx IN
    /\ pc[c] = "run"
    /\ server' \in {server, [server EXCEPT ![t] =
                                IF AbortsOnError /\ execer[t] # "closed"
                                      /\ @ = "active"
                                THEN "aborted" ELSE @]}
    /\ Goto(c, IF call[c].op = "start" THEN "undo" ELSE "reply")
    /\ UNCHANGED <<registryVars, execer, fate, unsettled, told, call,
                   shutdownVars>>

\* MUTANT of UndoStart: the session is closed without a rollback.
UndoStartSkipped(c) ==
    /\ pc[c] = "undo"
    /\ Goto(c, "close")
    /\ UNCHANGED <<registryVars, sessionVars, told, call,
                   shutdownVars>>

\* A statement failed: roll back, the deferred Close follows whether or not
\* the server took the rollback.
UndoStart(c) ==
    /\ pc[c] = "undo"
    /\ \E taken \in BOOLEAN : Control(call[c].tx, "rollback", taken)
    /\ Goto(c, "close")
    /\ UNCHANGED <<registryVars, told, call, shutdownVars>>

\* MUTANT of Register: closeSession is left true, the deferred Close runs.
RegisterThenClose(c) ==
    /\ pc[c] = "register"
    /\ sqlTransactions' = sqlTransactions \cup {call[c].tx}
    /\ Goto(c, "close")
    /\ UNCHANGED <<runningQueries, cancelled, sessionVars, told,
                   call, shutdownVars>>

Register(c) ==
    /\ pc[c] = "register"
    /\ sqlTransactions' = sqlTransactions \cup {call[c].tx}
    /\ Return(c)
    /\ UNCHANGED <<sessionVars, told, shutdownVars>>

----------------------------------------------------------------------------
\* DBQueryMultiInTransaction: the lookup, and the registration that follows
\* it outside the transaction lock.
LookupTransaction(c, t, n) ==
    /\ t \in sqlTransactions
    /\ Enter(c, "query", t, n, "lookup")
    /\ UNCHANGED <<registryVars, sessionVars, told, shutdownVars>>

RegisterQuery(c) ==
    /\ pc[c] = "lookup"
    /\ runningQueries' = runningQueries \cup {c}
    /\ Goto(c, Statement(call[c].tx))
    /\ UNCHANGED <<sqlTransactions, cancelled, sessionVars, told,
                   call, shutdownVars>>

Reply(c) ==
    /\ pc[c] = "reply"
    /\ Return(c)
    /\ UNCHANGED <<sqlTransactions, sessionVars, told, shutdownVars>>

----------------------------------------------------------------------------
\* finishManagedSQLTransaction, or CancelQuery's forceStop: whoever deletes
\* the entry under the lock ends the transaction.
BeginFinish(c, op, t) ==
    /\ op \in {"commit", "rollback"}
    /\ t \in sqlTransactions
    /\ sqlTransactions' = sqlTransactions \ {t}
    /\ Enter(c, op, t, 0, "control")
    /\ UNCHANGED <<runningQueries, cancelled, sessionVars, told,
                   shutdownVars>>

\* MUTANT of ControlSession: everything but an explicit rollback commits.
ControlSessionSwapped(c) ==
    LET t == call[c].tx IN
    /\ pc[c] = "control"
    /\ \E taken, ok \in BOOLEAN :
          /\ ok => ControlOk(t, taken)
          /\ Control(t, IF call[c].op = "rollback" THEN "rollback" ELSE "commit",
                     taken)
          /\ call' = [call EXCEPT ![c].ok = ok]
    /\ Goto(c, "close")
    /\ UNCHANGED <<registryVars, told, shutdownVars>>

\* An error may also be the answer to what was taken, after 30 seconds.
ControlSession(c) ==
    LET t == call[c].tx IN
    /\ pc[c] = "control"
    /\ \E taken, ok \in BOOLEAN :
          /\ ok => ControlOk(t, taken)
          /\ Control(t, IF call[c].op = "commit" THEN "commit" ELSE "rollback",
                     taken)
          /\ call' = [call EXCEPT ![c].ok = ok]
    /\ Goto(c, "close")
    /\ UNCHANGED <<registryVars, told, shutdownVars>>

\* MUTANT of Verdict: the error of COMMIT or ROLLBACK is dropped.
VerdictUnchecked(c) ==
    IF call[c].op = "commit" THEN "committed" ELSE "rolledback"

Verdict(c) ==
    IF ~ call[c].ok THEN "failed"
    ELSE IF call[c].op = "commit" THEN "committed" ELSE "rolledback"

\* The reply follows Close, which may fail on a connection that is lost.
CloseSession(c) ==
    LET t == call[c].tx IN
    /\ pc[c] = "close"
    /\ Close(t)
    /\ IF call[c].op \in {"commit", "rollback"}
       THEN \/ told' = [told EXCEPT ![t] = Verdict(c)]
            \/ /\ server[t] = "lost"
               /\ told' = [told EXCEPT ![t] = "failed"]
       ELSE UNCHANGED told
    /\ Return(c)
    /\ UNCHANGED <<sqlTransactions, shutdownVars>>

\* CancelQuery takes the entry of a running query and cancels its context;
\* forceStop then ends the transaction the query runs in, if it is still
\* registered.  For a query that is opening a transaction forceStop closes
\* the cached database, which leaves the pinned connection in use.
Cancel(c, d) ==
    /\ d \in runningQueries
    /\ runningQueries' = runningQueries \ {d}
    /\ cancelled' = cancelled \cup {d}
    /\ IF call[d].op = "query"
       THEN Enter(c, "cancel", call[d].tx, 0, "drop")
       ELSE pc[c] = "idle" /\ UNCHANGED <<pc, call>>
    /\ UNCHANGED <<sqlTransactions, sessionVars, told, shutdownVars>>

\* MUTANT of ForceStop: the entry stays in the registry.
ForceStopKeeping(c) ==
    LET t == call[c].tx IN
    /\ pc[c] = "drop"
    /\ IF t \in sqlTransactions
       THEN /\ Goto(c, "control")
            /\ UNCHANGED <<registryVars, call>>
       ELSE Return(c) /\ UNCHANGED sqlTransactions
    /\ UNCHANGED <<sessionVars, told, shutdownVars>>

ForceStop(c) ==
    LET t == call[c].tx IN
    /\ pc[c] = "drop"
    /\ IF t \in sqlTransactions
       THEN /\ sqlTransactions' = sqlTransactions \ {t}
            /\ Goto(c, "control")
            /\ UNCHANGED <<runningQueries, cancelled, call>>
       ELSE Return(c) /\ UNCHANGED sqlTransactions
    /\ UNCHANGED <<sessionVars, told, shutdownVars>>
----------------------------------------------------------------------------
\* rollbackPendingSQLTransactionsOnShutdown empties the registry under the
\* lock, then rolls back and closes one transaction after the other; an error
\* of the rollback is only logged.
BeginShutdown ==
    /\ shutdown = "no"
    /\ shutdown' = "drain"
    /\ pending' = sqlTransactions
    /\ sqlTransactions' = {}
    /\ UNCHANGED <<runningQueries, cancelled, sessionVars, told, pc,
                   call, closing>>

\* MUTANT of RollbackPending: Close is relied on to roll back.
RollbackPendingSkipped(t) ==
    /\ closing = {}
    /\ t \in pending
    /\ pending' = pending \ {t}
    /\ closing' = {t}
    /\ UNCHANGED <<registryVars, sessionVars, told, pc, call,
                   shutdown>>

RollbackPending(t) ==
    /\ closing = {}
    /\ t \in pending
    /\ \E taken \in BOOLEAN : Control(t, "rollback", taken)
    /\ pending' = pending \ {t}
    /\ closing' = {t}
    /\ UNCHANGED <<registryVars, told, pc, call, shutdown>>

ClosePending(t) ==
    /\ t \in closing
    /\ Close(t)
    /\ closing' = closing \ {t}
    /\ UNCHANGED <<registryVars, told, pc, call, shutdown, pending>>

\* MUTANT of EndShutdown: it waits for the registry to be empty.
EndShutdownWhenEmpty ==
    /\ shutdown = "drain"
    /\ pending = {} /\ closing = {} /\ sqlTransactions = {}
    /\ shutdown' = "done"
    /\ UNCHANGED <<registryVars, sessionVars, told, pc, call,
                   pending, closing>>

EndShutdown ==
    /\ shutdown = "drain"
    /\ pending = {} /\ closing = {}
    /\ shutdown' = "done"
    /\ UNCHANGED <<registryVars, sessionVars, told, pc, call,
                   pending, closing>>

\* The network, the server, the driver agent or the driver's handling of a
\* timeout ends the connection; the server rolls back what is open.
LoseConnection(t) ==
    /\ execer[t] \in {"open", "done"}
    /\ server[t] # "lost"
    /\ server' = [server EXCEPT ![t] = "lost"]
    /\ fate' = [fate EXCEPT ![t] = Ended(t, "rollback")]
    /\ UNCHANGED <<registryVars, execer, unsettled, told, pc, call,
                   shutdownVars>>

----------------------------------------------------------------------------
Progress(c) ==
    \/ OpenSession(c) \/ OpenFails(c) \/ BeginSQL(c) \/ CheckActive(c)
    \/ StatementOk(c) \/ StatementFails(c) \/ UndoStart(c) \/ Register(c)
    \/ RegisterQuery(c) \/ Reply(c) \/ ControlSession(c) \/ CloseSession(c)
    \/ ForceStop(c)

Request(c) ==
    \/ \E t \in Sessions, n \in 1..MaxStatements :
          BeginStart(c, t, n) \/ LookupTransaction(c, t, n)
    \/ \E t \in Sessions, op \in {"commit", "rollback"} : BeginFinish(c, op, t)
    \/ \E d \in Callers : Cancel(c, d)

ShutdownStep ==
    \/ BeginShutdown \/ EndShutdown
    \/ \E t \in Sessions : RollbackPending(t) \/ ClosePending(t)

Next ==
    \/ \E c \in Callers : Request(c) \/ Progress(c)
    \/ ShutdownStep
    \/ \E t \in Sessions : LoseConnection(t)

Spec == Init /\ [][Next]_vars

\* Every exchange with the server is answered or times out; once begun,
\* Shutdown runs in a goroutine of its own.
FairSpec ==
    /\ Spec
    /\ \A c \in Callers : WF_vars(Progress(c))
    /\ WF_vars(ShutdownStep /\ shutdown # "no")

----------------------------------------------------------------------------
Ends == {"commit", "rollback", "cancel"}
\* The goroutine that will close the session of a call.
Owns(c) ==
    \/ call[c].op = "start" /\ pc[c] # "open"
    \/ call[c].op \in Ends /\ pc[c] # "drop"
Live == {t \in Sessions : execer[t] \in {"open", "done"}}
Listed == sqlTransactions \cup pending \cup closing

(***************************************************************************)
(* A session that is open is registered, or in Shutdown's list, or in the  *)
(* hands of the one goroutine that opened it or took it out of the         *)
(* registry: a transaction is ended by one goroutine and none is           *)
(* forgotten (the delete under sqlTransactionMu in finish, forceStop and   *)
(* Shutdown; the deferred Close of DBQueryMultiTransactional).             *)
(***************************************************************************)
OneOwner ==
    /\ Listed \subseteq Live
    /\ sqlTransactions \cap (pending \cup closing) = {}
    /\ pending \cap closing = {}
    /\ \A c \in Callers : Owns(c) => call[c].tx \in Live \ Listed
    /\ \A c, d \in Callers :
          Owns(c) /\ Owns(d) /\ call[c].tx = call[d].tx => c = d
    /\ \A t \in Live \ Listed : \E c \in Callers : Owns(c) /\ call[c].tx = t

\* The transaction can still be committed, unless its connection was lost.
Undecided(t) ==
    /\ execer[t] = "open"
    /\ \/ server[t] \in {"active", "aborted"} /\ fate[t] = "open"
       \/ server[t] = "lost" /\ fate[t] = "rolledback"

(***************************************************************************)
(* What the registry and Shutdown's list offer can still be committed or   *)
(* rolled back: the executor is not finished and the server's transaction  *)
(* is undecided, unless the connection was lost (forceStop and finish      *)
(* delete the entry before they touch the session).                        *)
(***************************************************************************)
PendingIsUndecided == \A t \in sqlTransactions \cup pending : Undecided(t)

(***************************************************************************)
(* DBRollbackTransaction answers "rolled back" only when the transaction   *)
(* is undone, whatever raced with it.                                      *)
(***************************************************************************)
RollbackReplyIsTrue ==
    \A t \in Sessions : told[t] = "rolledback" => fate[t] = "rolledback"

(***************************************************************************)
(* DBCommitTransaction answers "Transaction committed" only when the       *)
(* server has committed.                                                   *)
(***************************************************************************)
CommitReplyIsTrue ==
    \A t \in Sessions : told[t] = "committed" => fate[t] = "committed"

(***************************************************************************)
(* A connection that went back to the pool carries no open transaction     *)
(* into the next query that is given it (drivers with BEGIN as text),      *)
(* except where the server answered BEGIN with an error after it had       *)
(* begun, or refused the one COMMIT or ROLLBACK that is sent on a          *)
(* connection that lives: nothing is sent a second time.                   *)
(***************************************************************************)
PoolIsClean ==
    \A t \in Sessions \ unsettled :
        Kind[t] = "text" /\ execer[t] = "closed" => ~ InTransaction(t)

(***************************************************************************)
(* After Shutdown's drain every transaction it took is undone, except      *)
(* those whose rollback the server refused; their sessions are closed too. *)
(***************************************************************************)
DrainedAreUndone ==
    [][\A t \in closing : t \notin closing' =>
          /\ execer'[t] = "closed"
          /\ fate'[t] = "rolledback" \/ t \in unsettled]_vars

----------------------------------------------------------------------------
\* What the place of a call says about its locals and its session.
InPlace(op, place) ==
    \/ op = "none" /\ place = "idle"
    \/ /\ op = "start"
       /\ place \in {"open", "begin", "check", "run", "undo", "register",
                     "close"}
    \/ op = "query" /\ place \in {"lookup", "check", "run", "reply"}
    \/ op = "cancel" /\ place \in {"drop", "control", "close"}
    \/ op \in {"commit", "rollback"} /\ place \in {"control", "close"}

\* A session that a start is filling: nothing is decided, nothing finished.
Filling(t) ==
    /\ execer[t] = "open"
    /\ \/ server[t] = "none" /\ fate[t] = "none"
       \/ server[t] \in {"active", "aborted"} /\ fate[t] = "open"
       \/ server[t] = "lost" /\ fate[t] \in {"none", "rolledback"}

CallOK(c) ==
    LET t == call[c].tx IN
    /\ InPlace(call[c].op, pc[c])
    /\ call[c].op = "none" <=> t = NoTx
    /\ pc[c] \in {"open", "begin", "lookup", "check", "run"} =>
          call[c].left > 0
    /\ call[c].op = "start" => \A d \in Callers \ {c} : call[d].tx # t
    /\ call[c].op = "start" /\ pc[c] = "open" =>
          execer[t] = "unused" /\ server[t] = "none" /\ fate[t] = "none"
    /\ call[c].op \notin {"none", "start"} => execer[t] # "unused"
    /\ call[c].op = "start" /\ pc[c] \in {"begin", "check", "run", "undo"} =>
          Filling(t)
    /\ pc[c] \in {"register", "control"} => Undecided(t)
    /\ call[c].op \in Ends /\ pc[c] = "close" /\ call[c].ok =>
          IF call[c].op = "commit"
          THEN fate[t] = "committed" \/ (AbortsOnError /\ fate[t] = "rolledback")
          ELSE fate[t] = "rolledback"

\* The inductive invariant.
TxInv ==
    /\ OneOwner
    /\ PendingIsUndecided
    /\ RollbackReplyIsTrue
    /\ AbortsOnError \/ CommitReplyIsTrue
    /\ AbortsOnError \/ \A t \in Sessions : server[t] # "aborted"
    /\ shutdown # "drain" => pending = {} /\ closing = {}
    /\ \A t \in Sessions :
          execer[t] = "unused" => server[t] = "none" /\ fate[t] = "none"
    /\ \A c \in Callers : CallOK(c)

\* Nothing is left to be decided, and the connection can be given away, or
\* the server did not do what it was asked.
AtRest(t) ==
    \/ t \in unsettled
    \/ /\ fate[t] # "open"
       /\ Kind[t] = "text" => ~ InTransaction(t)

\* A session is settled before it is closed; only a start finds one on which
\* nothing has happened yet.
CloseInv ==
    /\ \A t \in Sessions : server[t] = "none" => fate[t] = "none"
    /\ \A t \in Sessions : execer[t] = "closed" => AtRest(t)
    /\ \A t \in closing : (fate[t] = "rolledback" \/ t \in unsettled) /\ AtRest(t)
    /\ \A c \in Callers :
          /\ call[c].op \notin {"none", "start"} => fate[call[c].tx] # "none"
          /\ pc[c] = "close" => AtRest(call[c].tx)
          /\ pc[c] = "begin" => server[call[c].tx] \in {"none", "lost"}

(***************************************************************************)
(* The invariant of the managed transactions: every open session has one   *)
(* owner, what is offered can still be decided, and what the user is told  *)
(* of the end is what the server did.                                      *)
(***************************************************************************)
Inv == TypeOK /\ TxInv /\ CloseInv

(***************************************************************************)
(* What DBCommitTransaction and DBRollbackTransaction answer is what       *)
(* became of the transaction, whatever raced with them.  Commit is         *)
(* excepted on servers that answer COMMIT of an aborted transaction        *)
(* without an error.                                                       *)
(***************************************************************************)
RepliesAreTrue == RollbackReplyIsTrue /\ (AbortsOnError \/ CommitReplyIsTrue)

(***************************************************************************)
(* Every bound method returns, every session that left the registry is     *)
(* closed, and a shutdown that began ends.                                 *)
(***************************************************************************)
EveryCallReturns == \A c \in Callers : pc[c] # "idle" ~> pc[c] = "idle"
EndedIsClosed ==
    \A t \in Sessions :
        t \in Live \ sqlTransactions ~> t \notin Live \ sqlTransactions
DrainEnds == shutdown = "drain" ~> shutdown = "done"
EverythingEnds == EveryCallReturns /\ EndedIsClosed /\ DrainEnds

----------------------------------------------------------------------------
\* What is before a call: its places, and again check and run for every
\* statement that is left.
PlaceNo == [idle |-> 0, reply |-> 1, register |-> 1, close |-> 1, undo |-> 2,
            control |-> 2, drop |-> 3, run |-> 4, check |-> 5, begin |-> 6,
            lookup |-> 6, open |-> 7]
Ahead(c) == 2 * call[c].left + PlaceNo[pc[c]]

(***************************************************************************)
(* Every step of a call brings it nearer to its return, and nobody else's  *)
(* step, a cancel of it included, throws it back.                          *)
(***************************************************************************)
CallsWindDown ==
    [][\A c \in Callers : pc[c] # "idle" =>
          IF Progress(c) THEN Ahead(c)' < Ahead(c) ELSE Ahead(c)' = Ahead(c)]_vars

(***************************************************************************)
(* The drain of Shutdown takes from its list and gets nothing more to do,  *)
(* not by transactions that become pending while it runs.                  *)
(***************************************************************************)
DrainWindsDown ==
    [][shutdown = "drain" =>
          /\ pending' \subseteq pending
          /\ closing' \subseteq closing \cup (pending \ pending')
          /\ ShutdownStep =>
                pending' # pending \/ closing' # closing \/ shutdown' = "done"]_vars

----------------------------------------------------------------------------
(***************************************************************************)
(* The goroutines implement ManagedTransaction.                            *)
(***************************************************************************)
HeldFor(t, ops) ==
    \E c \in Callers : Owns(c) /\ call[c].tx = t /\ call[c].op \in ops

Phase(t) ==
    IF execer[t] = "unused" THEN "absent"
    ELSE IF fate[t] \in {"committed", "rolledback"} THEN fate[t]
    ELSE IF t \in sqlTransactions THEN "pending"
    ELSE IF t \in pending \cup closing THEN "rollingback"
    ELSE IF HeldFor(t, {"start"}) THEN "working"
    ELSE IF HeldFor(t, {"commit"}) THEN "committing"
    ELSE IF HeldFor(t, {"rollback", "cancel"}) THEN "rollingback"
    ELSE IF fate[t] = "none" THEN "rolledback" ELSE "abandoned"

phaseOf == [t \in Sessions |-> Phase(t)]
Promise == INSTANCE ManagedTransaction WITH phase <- phaseOf
ImplementsPromise == Promise!MTSpec
============================================================================
