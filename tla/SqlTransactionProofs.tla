------------------------ MODULE SqlTransactionProofs ------------------------
(* Proofs about the managed transactions, for every value of the constants. *)
EXTENDS SqlTransaction, TLAPS

LEMMA NoCallType == NoCall \in Call
BY ConstantsAssumption DEF NoCall, Call, Ops

LEMMA CallTypes ==
    ASSUME NEW op \in Ops, NEW t \in Sessions \cup {NoTx},
           NEW n \in 0..MaxStatements, NEW b \in BOOLEAN
    PROVE  [op |-> op, tx |-> t, left |-> n, ok |-> b] \in Call
BY DEF Call

LEMMA ZeroType == 0 \in 0..MaxStatements
BY ConstantsAssumption

LEMMA OkUpdate ==
    ASSUME NEW k \in Call, NEW b \in BOOLEAN
    PROVE  /\ [k EXCEPT !.ok = b] \in Call
           /\ [k EXCEPT !.ok = b].ok = b
           /\ [k EXCEPT !.ok = b].op = k.op
           /\ [k EXCEPT !.ok = b].tx = k.tx
           /\ [k EXCEPT !.ok = b].left = k.left
BY DEF Call

LEMMA LeftUpdate ==
    ASSUME NEW k \in Call, k.left > 0
    PROVE  /\ [k EXCEPT !.left = @ - 1] \in Call
           /\ [k EXCEPT !.left = @ - 1].left = k.left - 1
           /\ [k EXCEPT !.left = @ - 1].op = k.op
           /\ [k EXCEPT !.left = @ - 1].tx = k.tx
           /\ [k EXCEPT !.left = @ - 1].ok = k.ok
BY ConstantsAssumption DEF Call

\* What a step does to one session, types of the three functions.
SessionTypes ==
    /\ execer \in [Sessions -> {"unused", "open", "done", "closed"}]
    /\ server \in [Sessions -> {"none", "active", "aborted", "over", "lost"}]
    /\ fate \in [Sessions -> {"none", "open", "committed", "rolledback"}]
    /\ unsettled \subseteq Sessions

LEMMA EndedType ==
    ASSUME TypeOK, NEW t \in Sessions, NEW how
    PROVE  Ended(t, how) \in {"none", "open", "committed", "rolledback"}
BY DEF TypeOK, Ended

LEMMA SettleTypes ==
    ASSUME TypeOK, NEW t \in Sessions, NEW how, NEW taken, Settle(t, how, taken)
    PROVE  /\ server' \in [Sessions -> {"none", "active", "aborted", "over", "lost"}]
           /\ fate' \in [Sessions -> {"none", "open", "committed", "rolledback"}]
           /\ unsettled' \subseteq Sessions
BY EndedType DEF TypeOK, Settle

LEMMA ControlTypes ==
    ASSUME TypeOK, NEW t \in Sessions, NEW how, NEW taken, Control(t, how, taken)
    PROVE  SessionTypes'
BY SettleTypes DEF TypeOK, SessionTypes, Control

LEMMA CloseTypes ==
    ASSUME TypeOK, NEW t \in Sessions, Close(t)
    PROVE  SessionTypes'
<1>1. CASE Kind[t] = "conn"
  BY <1>1, SettleTypes DEF TypeOK, SessionTypes, Close
<1>2. CASE Kind[t] # "conn"
  BY <1>2 DEF TypeOK, SessionTypes, Close
<1> QED
  BY <1>1, <1>2

LEMMA CallFieldTypes ==
    ASSUME TypeOK, NEW c \in Callers
    PROVE  /\ call[c] \in Call
           /\ call[c].op \in Ops
           /\ call[c].tx \in Sessions \cup {NoTx}
           /\ call[c].left \in 0..MaxStatements
           /\ call[c].ok \in BOOLEAN
           /\ pc[c] \in Places
BY DEF TypeOK, Call

\* A call that is under way works on a session.
LEMMA CallHasSession ==
    ASSUME TypeOK, TxInv, NEW c \in Callers, pc[c] # "idle"
    PROVE  /\ call[c].tx \in Sessions
           /\ call[c].op # "none"
           /\ pc[c] \in {"check", "run"} => call[c].left > 0
BY CallFieldTypes DEF TxInv, CallOK, InPlace

LEMMA TypeInit == Init => TypeOK
BY NoCallType DEF Init, TypeOK, Places

LEMMA GotoType ==
    ASSUME TypeOK, NEW c \in Callers, NEW p \in Places, Goto(c, p)
    PROVE  pc' \in [Callers -> Places]
BY DEF TypeOK, Goto

LEMMA ReturnTypes ==
    ASSUME TypeOK, NEW c \in Callers, Return(c)
    PROVE  /\ pc' \in [Callers -> Places]
           /\ call' \in [Callers -> Call]
           /\ runningQueries' \subseteq Callers
           /\ cancelled' \subseteq Callers
BY NoCallType DEF TypeOK, Return, Goto, Places

LEMMA EnterTypes ==
    ASSUME TypeOK, NEW c \in Callers, NEW op \in Ops, NEW t \in Sessions,
           NEW n \in 0..MaxStatements, NEW p \in Places, Enter(c, op, t, n, p)
    PROVE  /\ pc' \in [Callers -> Places]
           /\ call' \in [Callers -> Call]
<1>1. [op |-> op, tx |-> t, left |-> n, ok |-> TRUE] \in Call
  BY CallTypes
<1> QED
  BY <1>1 DEF TypeOK, Enter, Goto
LEMMA TypeStep ==
    ASSUME TypeOK, TxInv, [Next]_vars
    PROVE  TypeOK'
<1> USE DEF registryVars, sessionVars, shutdownVars
<1>1. ASSUME NEW c \in Callers, Request(c) PROVE TypeOK'
  <2>1. ASSUME NEW t \in Sessions, NEW n \in 1..MaxStatements,
               BeginStart(c, t, n)
        PROVE  TypeOK'
    <3>1. pc' \in [Callers -> Places] /\ call' \in [Callers -> Call]
      BY <2>1, EnterTypes, n \in 0..MaxStatements, "open" \in Places,
         "start" \in Ops DEF BeginStart, Places, Ops
    <3> QED
      BY <2>1, <3>1 DEF TypeOK, BeginStart
  <2>2. ASSUME NEW t \in Sessions, NEW n \in 1..MaxStatements,
               LookupTransaction(c, t, n)
        PROVE  TypeOK'
    <3>1. pc' \in [Callers -> Places] /\ call' \in [Callers -> Call]
      BY <2>2, EnterTypes, n \in 0..MaxStatements, "lookup" \in Places,
         "query" \in Ops DEF LookupTransaction, Places, Ops
    <3> QED
      BY <2>2, <3>1 DEF TypeOK, LookupTransaction
  <2>3. ASSUME NEW t \in Sessions, NEW op \in {"commit", "rollback"},
               BeginFinish(c, op, t)
        PROVE  TypeOK'
    <3>1. pc' \in [Callers -> Places] /\ call' \in [Callers -> Call]
      BY <2>3, EnterTypes, ZeroType, "control" \in Places,
         op \in Ops DEF BeginFinish, Places, Ops
    <3> QED
      BY <2>3, <3>1 DEF TypeOK, BeginFinish
  <2>4. ASSUME NEW d \in Callers, Cancel(c, d) PROVE TypeOK'
    <3>1. pc' \in [Callers -> Places] /\ call' \in [Callers -> Call]
      <4>1. CASE call[d].op = "query"
        <5>1. pc[d] # "idle"
          BY <4>1 DEF TxInv, CallOK, InPlace
        <5>2. call[d].tx \in Sessions
          BY <5>1, CallHasSession
        <5> QED
          BY <2>4, <4>1, <5>2, EnterTypes, ZeroType,
             "drop" \in Places, "cancel" \in Ops DEF Cancel, Places, Ops
      <4>2. CASE call[d].op # "query"
        BY <2>4, <4>2 DEF Cancel, TypeOK
      <4> QED
        BY <4>1, <4>2
    <3> QED
      BY <2>4, <3>1 DEF TypeOK, Cancel
  <2> QED
    BY <1>1, <2>1, <2>2, <2>3, <2>4 DEF Request
<1>2. ASSUME NEW c \in Callers, Progress(c) PROVE TypeOK'
  <2>1. CASE OpenSession(c)
    BY <2>1, CallFieldTypes DEF OpenSession, TypeOK, Goto, Statement, Places
  <2>2. CASE OpenFails(c)
    BY <2>2, ReturnTypes DEF OpenFails, TypeOK
  <2>3. CASE BeginSQL(c)
    <3>1. call[c].tx \in Sessions
      BY <2>3, CallHasSession DEF BeginSQL
    <3>2. SessionTypes'
      BY <2>3, <3>1 DEF BeginSQL, TypeOK, SessionTypes
    <3>3. pc' \in [Callers -> Places]
      BY <2>3 DEF BeginSQL, TypeOK, Goto, Statement, Places
    <3> QED
      BY <2>3, <3>2, <3>3 DEF BeginSQL, TypeOK, SessionTypes
  <2>4. CASE CheckActive(c)
    BY <2>4 DEF CheckActive, TypeOK, Goto, Places
  <2>5. CASE StatementOk(c)
    <3>1. call[c].tx \in Sessions /\ call[c].left > 0
      BY <2>5, CallHasSession DEF StatementOk
    <3>2. call' \in [Callers -> Call]
      BY <2>5, <3>1, LeftUpdate DEF StatementOk, TypeOK
    <3>3. pc' \in [Callers -> Places]
      BY <2>5 DEF StatementOk, TypeOK, Goto, Statement, Places
    <3>4. SessionTypes'
      BY <2>5, <3>1 DEF StatementOk, TypeOK, SessionTypes
    <3> QED
      BY <2>5, <3>2, <3>3, <3>4 DEF StatementOk, TypeOK, SessionTypes
  <2>6. CASE StatementFails(c)
    <3>1. server' \in [Sessions -> {"none", "active", "aborted", "over",
                                    "lost"}]
      BY <2>6 DEF StatementFails, TypeOK
    <3>2. pc' \in [Callers -> Places]
      BY <2>6 DEF StatementFails, TypeOK, Goto, Places
    <3> QED
      BY <2>6, <3>1, <3>2 DEF StatementFails, TypeOK
  <2>7. CASE UndoStart(c)
    <3>1. call[c].tx \in Sessions
      BY <2>7, CallHasSession DEF UndoStart
    <3>2. SessionTypes'
      BY <2>7, <3>1, ControlTypes DEF UndoStart
    <3> QED
      BY <2>7, <3>2 DEF UndoStart, TypeOK, SessionTypes, Goto, Places
  <2>8. CASE Register(c)
    <3>1. call[c].tx \in Sessions
      BY <2>8, CallHasSession DEF Register
    <3> QED
      BY <2>8, <3>1, ReturnTypes DEF Register, TypeOK
  <2>9. CASE RegisterQuery(c)
    BY <2>9 DEF RegisterQuery, TypeOK, Goto, Statement, Places
  <2>10. CASE Reply(c)
    BY <2>10, ReturnTypes DEF Reply, TypeOK
  <2>11. CASE ControlSession(c)
    <3>1. call[c].tx \in Sessions
      BY <2>11, CallHasSession DEF ControlSession
    <3>2. SessionTypes'
      BY <2>11, <3>1, ControlTypes DEF ControlSession
    <3>3. PICK ok \in BOOLEAN : call' = [call EXCEPT ![c].ok = ok]
      BY <2>11 DEF ControlSession
    <3>4. call' \in [Callers -> Call]
      BY <3>3, OkUpdate, CallFieldTypes DEF TypeOK
    <3> QED
      BY <2>11, <3>2, <3>4
         DEF ControlSession, TypeOK, SessionTypes, Goto, Places
  <2>12. CASE CloseSession(c)
    <3>1. call[c].tx \in Sessions
      BY <2>12, CallHasSession DEF CloseSession
    <3>2. SessionTypes'
      BY <2>12, <3>1, CloseTypes DEF CloseSession
    <3>3. told' \in [Sessions -> {"nothing", "committed", "rolledback",
                                  "failed"}]
      BY <2>12 DEF CloseSession, Verdict, TypeOK
    <3> QED
      BY <2>12, <3>2, <3>3, ReturnTypes
         DEF CloseSession, TypeOK, SessionTypes
  <2>13. CASE ForceStop(c)
    <3>1. pc' \in [Callers -> Places] /\ call' \in [Callers -> Call]
          /\ runningQueries' \subseteq Callers /\ cancelled' \subseteq Callers
      <4>1. CASE call[c].tx \in sqlTransactions
        BY <2>13, <4>1 DEF ForceStop, TypeOK, Goto, Places
      <4>2. CASE call[c].tx \notin sqlTransactions
        BY <2>13, <4>2, ReturnTypes DEF ForceStop
      <4> QED
        BY <4>1, <4>2
    <3> QED
      BY <2>13, <3>1 DEF ForceStop, TypeOK
  <2> QED
    BY <1>2, <2>1, <2>2, <2>3, <2>4, <2>5, <2>6, <2>7, <2>8, <2>9, <2>10,
       <2>11, <2>12, <2>13 DEF Progress
<1>3. CASE ShutdownStep
  <2>1. CASE BeginShutdown
    BY <2>1 DEF BeginShutdown, TypeOK
  <2>2. CASE EndShutdown
    BY <2>2 DEF EndShutdown, TypeOK
  <2>3. ASSUME NEW t \in Sessions, RollbackPending(t) PROVE TypeOK'
    <3>1. SessionTypes'
      BY <2>3, ControlTypes DEF RollbackPending
    <3> QED
      BY <2>3, <3>1 DEF RollbackPending, TypeOK, SessionTypes
  <2>4. ASSUME NEW t \in Sessions, ClosePending(t) PROVE TypeOK'
    <3>1. SessionTypes'
      BY <2>4, CloseTypes DEF ClosePending
    <3> QED
      BY <2>4, <3>1 DEF ClosePending, TypeOK, SessionTypes
  <2> QED
    BY <1>3, <2>1, <2>2, <2>3, <2>4 DEF ShutdownStep
<1>4. ASSUME NEW t \in Sessions, LoseConnection(t) PROVE TypeOK'
  BY <1>4, EndedType DEF LoseConnection, TypeOK
<1>5. CASE UNCHANGED vars
  BY <1>5 DEF vars, TypeOK
<1> QED
  BY <1>1, <1>2, <1>3, <1>4, <1>5 DEF Next
----------------------------------------------------------------------------
(* What a step does, caller by caller and session by session.              *)

LEMMA GotoView ==
    ASSUME TypeOK, NEW c \in Callers, NEW p, Goto(c, p)
    PROVE  pc'[c] = p /\ \A d \in Callers \ {c} : pc'[d] = pc[d]
BY DEF TypeOK, Goto

LEMMA ReturnView ==
    ASSUME TypeOK, NEW c \in Callers, Return(c)
    PROVE  /\ pc'[c] = "idle" /\ call'[c].op = "none" /\ call'[c].tx = NoTx
           /\ \A d \in Callers \ {c} : pc'[d] = pc[d] /\ call'[d] = call[d]
BY DEF TypeOK, Return, Goto, NoCall

LEMMA EnterView ==
    ASSUME TypeOK, NEW c \in Callers, NEW op, NEW t, NEW n, NEW p,
           Enter(c, op, t, n, p)
    PROVE  /\ pc[c] = "idle" /\ pc'[c] = p
           /\ call'[c].op = op /\ call'[c].tx = t /\ call'[c].left = n
           /\ call'[c].ok = TRUE
           /\ \A d \in Callers \ {c} : pc'[d] = pc[d] /\ call'[d] = call[d]
BY DEF TypeOK, Enter, Goto

Same(t) ==
    /\ execer'[t] = execer[t]
    /\ server'[t] = server[t]
    /\ fate'[t] = fate[t]
    /\ t \in unsettled' <=> t \in unsettled

LEMMA ControlView ==
    ASSUME TypeOK, NEW t \in Sessions, NEW how, NEW taken \in BOOLEAN,
           Control(t, how, taken)
    PROVE  /\ \A s \in Sessions \ {t} : Same(s)
           /\ execer[t] \in {"open", "done"} <=> execer'[t] \in {"open", "done"}
           /\ execer[t] \in {"unused", "closed"} => execer'[t] = execer[t]
           /\ server'[t] = "aborted" => server[t] = "aborted"
           /\ fate[t] # "open" => fate'[t] = fate[t]
           /\ Undecided(t) /\ Reachable(t) /\ taken =>
                 fate'[t] = IF how = "commit" /\ server[t] = "active"
                            THEN "committed" ELSE "rolledback"
           /\ Undecided(t) /\ ControlOk(t, taken) => Reachable(t) /\ taken
BY DEF TypeOK, Control, Settle, Same, Ended, Undecided, Reachable, ControlOk,
       InTransaction

LEMMA CloseView ==
    ASSUME TypeOK, NEW t \in Sessions, Close(t)
    PROVE  /\ \A s \in Sessions \ {t} : Same(s)
           /\ execer'[t] = "closed"
           /\ server'[t] = "aborted" => server[t] = "aborted"
           /\ fate[t] # "open" => fate'[t] = fate[t]
<1>1. CASE Kind[t] = "conn"
  BY <1>1 DEF TypeOK, Close, Settle, Same, Ended, Reachable, InTransaction
<1>2. CASE Kind[t] # "conn"
  BY <1>2 DEF TypeOK, Close, Same
<1> QED
  BY <1>1, <1>2

\* The locals of idle callers, and who can share a session with a start.
LEMMA IdleView ==
    ASSUME TypeOK, TxInv, NEW c \in Callers
    PROVE  /\ pc[c] = "idle" <=> call[c].op = "none"
           /\ pc[c] = "idle" <=> call[c].tx = NoTx
           /\ pc[c] = "idle" => ~ Owns(c)
BY CallFieldTypes DEF TxInv, CallOK, InPlace, Owns, Ends
----------------------------------------------------------------------------
(* Frames: what is enough for each part of TxInv to be preserved.          *)

\* The callers that own a session.
Owners == {c \in Callers :
              \/ call[c].op = "start" /\ pc[c] # "open"
              \/ call[c].op \in Ends /\ pc[c] # "drop"}

\* OneOwner in terms of Owners.
OwnerOK ==
    /\ Listed \subseteq Live
    /\ sqlTransactions \cap (pending \cup closing) = {}
    /\ pending \cap closing = {}
    /\ \A c \in Owners : call[c].tx \in Live \ Listed
    /\ \A c, d \in Owners : call[c].tx = call[d].tx => c = d
    /\ \A t \in Live \ Listed : \E c \in Owners : call[c].tx = t

LEMMA OwnerView == OneOwner <=> OwnerOK
BY DEF OneOwner, OwnerOK, Owners, Owns

\* A step that moves no session between its holders.
LEMMA OwnerFrame ==
    ASSUME OwnerOK, Owners' = Owners, Live' = Live,
           sqlTransactions' = sqlTransactions, pending' = pending,
           closing' = closing, \A d \in Owners : call'[d].tx = call[d].tx
    PROVE  OwnerOK'
<1>1. Listed' = Listed
  BY DEF Listed
<1> QED
  BY <1>1 DEF OwnerOK

\* A step that leaves a session as decided as it was.
Calm(t) ==
    /\ execer'[t] = "unused" <=> execer[t] = "unused"
    /\ execer[t] = "unused" => Same(t)
    /\ fate[t] \in {"committed", "rolledback"} => fate'[t] = fate[t]

\* A step that leaves a session as usable as it was, but for its connection.
Keeps(t) ==
    /\ Undecided(t) => Undecided(t)'
    /\ Filling(t) => Filling(t)'

LEMMA SameIsCalm ==
    ASSUME NEW t, Same(t)
    PROVE  Calm(t) /\ Keeps(t)
BY DEF Same, Calm, Keeps, Undecided, Filling

\* A caller that does not move, while its session stays calm.
LEMMA OtherCall ==
    ASSUME TypeOK, TxInv, NEW d \in Callers,
           pc'[d] = pc[d], call'[d] = call[d],
           call[d].tx \in Sessions => Calm(call[d].tx),
           d \in Owners => Keeps(call[d].tx),
           call[d].op = "start" =>
               \A e \in Callers \ {d} : call'[e].tx # call[d].tx
    PROVE  CallOK(d)'
<1> DEFINE t == call[d].tx
<1>1. CASE pc[d] = "idle"
  BY <1>1, IdleView DEF TxInv, CallOK, InPlace, Ends
<1>2. CASE pc[d] # "idle"
  <2>1. t \in Sessions /\ call[d].op # "none"
    BY <1>2, CallHasSession
  <2>2. Calm(t)
    BY <2>1
  <2>3. CallOK(d)
    BY DEF TxInv
  <2>4. InPlace(call[d].op, pc[d])
    BY <2>3 DEF CallOK
  <2>5. /\ call[d].op = "start" /\ pc[d] = "open" =>
             execer'[t] = "unused" /\ server'[t] = "none" /\ fate'[t] = "none"
        /\ call[d].op \notin {"none", "start"} => execer'[t] # "unused"
    BY <2>2, <2>3 DEF CallOK, Calm, Same
  <2>6. /\ call[d].op = "start" /\ pc[d] \in {"begin", "check", "run", "undo"} =>
             Filling(t)'
        /\ pc[d] \in {"register", "control"} => Undecided(t)'
    <3>1. \/ call[d].op = "start" /\ pc[d] \in {"begin", "check", "run", "undo"}
          \/ pc[d] \in {"register", "control"}
          => d \in Owners
      BY <2>4 DEF InPlace, Owners, Ends
    <3> QED
      BY <3>1, <2>3 DEF CallOK, Keeps
  <2>7. call[d].op \in Ends /\ pc[d] = "close" /\ call[d].ok =>
          IF call[d].op = "commit"
          THEN fate'[t] = "committed" \/ (AbortsOnError /\ fate'[t] = "rolledback")
          ELSE fate'[t] = "rolledback"
    BY <2>2, <2>3 DEF CallOK, Calm
  <2> QED
    BY <2>3, <2>5, <2>6, <2>7 DEF CallOK
<1> QED
  BY <1>1, <1>2
\* What the user is told in a step is true when the step is over.
TellsTruth ==
    \A s \in Sessions :
        \/ told'[s] = told[s]
        \/ told'[s] = "failed"
        \/ told'[s] = "rolledback" /\ fate'[s] = "rolledback"
        \/ told'[s] = "committed" /\ (AbortsOnError \/ fate'[s] = "committed")

\* The session is calm, or opened by the caller c that starts it.
CalmOrOpened(s, c) ==
    \/ Calm(s)
    \/ /\ call[c].op = "start" /\ s = call[c].tx
       /\ fate[s] = "none" /\ execer'[s] # "unused"

\* The conjuncts of TxInv that are about no particular caller.
Settled ==
    /\ RollbackReplyIsTrue
    /\ AbortsOnError \/ CommitReplyIsTrue
    /\ AbortsOnError \/ \A t \in Sessions : server[t] # "aborted"
    /\ shutdown # "drain" => pending = {} /\ closing = {}
    /\ \A t \in Sessions :
          execer[t] = "unused" => server[t] = "none" /\ fate[t] = "none"

LEMMA SettledFrame ==
    ASSUME TypeOK, TxInv, TellsTruth,
           \A s \in Sessions :
               \/ Calm(s)
               \/ fate[s] = "none" /\ execer'[s] # "unused",
           \/ AbortsOnError
           \/ \A s \in Sessions : server'[s] = "aborted" => server[s] = "aborted",
           shutdown' # "drain" => pending' = {} /\ closing' = {}
    PROVE  Settled'
<1>1. RollbackReplyIsTrue'
  BY DEF TxInv, RollbackReplyIsTrue, TellsTruth, Calm
<1>2. AbortsOnError \/ CommitReplyIsTrue'
  BY DEF TxInv, CommitReplyIsTrue, TellsTruth, Calm
<1>3. AbortsOnError \/ \A s \in Sessions : server'[s] # "aborted"
  BY DEF TxInv
<1>4. \A s \in Sessions :
         execer'[s] = "unused" => server'[s] = "none" /\ fate'[s] = "none"
  BY DEF TxInv, Calm, Same
<1> QED
  BY <1>1, <1>2, <1>3, <1>4 DEF Settled

\* A step of one caller.
LEMMA CallStep ==
    ASSUME TypeOK, TxInv, NEW c \in Callers, TellsTruth,
           \A d \in Callers \ {c} : pc'[d] = pc[d] /\ call'[d] = call[d],
           \A s \in Sessions : CalmOrOpened(s, c),
           \A d \in Owners \ {c} : Keeps(call[d].tx),
           \A d \in Callers \ {c} :
               call[d].op = "start" => call'[c].tx # call[d].tx,
           PendingIsUndecided',
           \/ AbortsOnError
           \/ \A s \in Sessions : server'[s] = "aborted" => server[s] = "aborted",
           shutdown' # "drain" => pending' = {} /\ closing' = {},
           OwnerOK', CallOK(c)'
    PROVE  TxInv'
<1>1. Settled'
  BY SettledFrame DEF CalmOrOpened
<1>2. ASSUME NEW d \in Callers \ {c} PROVE CallOK(d)'
  <2>1. call[d].tx \in Sessions => Calm(call[d].tx)
    BY ConstantsAssumption DEF CalmOrOpened, TxInv, CallOK
  <2>2. call[d].op = "start" =>
           \A e \in Callers \ {d} : call'[e].tx # call[d].tx
    BY DEF TxInv, CallOK
  <2> QED
    BY <2>1, <2>2, OtherCall
<1>3. OneOwner'
  BY OwnerView DEF OneOwner, OwnerOK, Owners, Owns
<1> QED
  BY <1>1, <1>2, <1>3 DEF TxInv, Settled

\* A step of Shutdown or of the environment.
LEMMA QuietStep ==
    ASSUME TypeOK, TxInv, pc' = pc, call' = call, told' = told,
           \A s \in Sessions : Calm(s),
           \A d \in Owners : Keeps(call[d].tx),
           PendingIsUndecided',
           \A s \in Sessions : server'[s] = "aborted" => server[s] = "aborted",
           shutdown' # "drain" => pending' = {} /\ closing' = {},
           OwnerOK'
    PROVE  TxInv'
<1>1. Settled'
  BY SettledFrame DEF TellsTruth
<1>2. ASSUME NEW d \in Callers PROVE CallOK(d)'
  <2>1. call[d].op = "start" =>
           \A e \in Callers \ {d} : call'[e].tx # call[d].tx
    BY DEF TxInv, CallOK
  <2> QED
    BY <2>1, OtherCall
<1>3. OneOwner'
  BY DEF OneOwner, OwnerOK, Owners, Owns
<1> QED
  BY <1>1, <1>2, <1>3 DEF TxInv, Settled
----------------------------------------------------------------------------
(* The inductive step, action by action.                                   *)

\* A step that only caller c takes part in.
OnlyMoves(c) ==
    \A d \in Callers \ {c} : pc'[d] = pc[d] /\ call'[d] = call[d]

LEMMA OwnersStep ==
    ASSUME NEW c \in Callers, OnlyMoves(c)
    PROVE  /\ c \in Owners <=>
                 \/ call[c].op = "start" /\ pc[c] # "open"
                 \/ call[c].op \in Ends /\ pc[c] # "drop"
           /\ c \in Owners' <=>
                 \/ call'[c].op = "start" /\ pc'[c] # "open"
                 \/ call'[c].op \in Ends /\ pc'[c] # "drop"
           /\ Owners' \ {c} = Owners \ {c}
<1>1. Owners' = {d \in Callers :
                    \/ call'[d].op = "start" /\ pc'[d] # "open"
                    \/ call'[d].op \in Ends /\ pc'[d] # "drop"}
  BY DEF Owners, Ends
<1> QED
  BY <1>1 DEF Owners, OnlyMoves

\* Two sets that differ in c at most, and agree on c.
LEMMA SameButOne ==
    ASSUME NEW S, NEW T, NEW c, S \ {c} = T \ {c}, c \in S <=> c \in T
    PROVE  S = T
OBVIOUS

LEMMA Untouched ==
    ASSUME UNCHANGED sessionVars
    PROVE  /\ Live' = Live /\ server' = server
           /\ \A s \in Sessions : Calm(s) /\ Keeps(s)
BY DEF sessionVars, Live, Calm, Keeps, Same, Undecided, Filling

LEMMA PendingFrame ==
    ASSUME TxInv,
           sqlTransactions' \cup pending' \subseteq sqlTransactions \cup pending,
           \A s \in sqlTransactions' \cup pending' : Keeps(s)
    PROVE  PendingIsUndecided'
BY DEF TxInv, PendingIsUndecided, Keeps

\* A call that neither takes nor gives a session.
LEMMA SessionCall ==
    ASSUME TypeOK, TxInv, NEW c \in Callers, OnlyMoves(c),
           UNCHANGED <<told, sqlTransactions, shutdown, pending, closing>>,
           Live' = Live,
           \A s \in Sessions : Calm(s),
           \A s \in Sessions : Keeps(s) \/ (s = call[c].tx /\ c \in Owners),
           \/ AbortsOnError
           \/ \A s \in Sessions : server'[s] = "aborted" => server[s] = "aborted",
           c \in Owners' <=> c \in Owners,
           c \in Owners => call'[c].tx = call[c].tx,
           \A d \in Callers \ {c} :
               call[d].op = "start" => call'[c].tx # call[d].tx,
           CallOK(c)'
    PROVE  TxInv'
<1>1. OwnerOK
  BY OwnerView DEF TxInv
<1>2. Owners' = Owners
  <2>1. Owners' \ {c} = Owners \ {c}
    BY OwnersStep
  <2> QED
    BY ONLY <2>1, c \in Owners' <=> c \in Owners, SameButOne
<1>3. Owners \subseteq Callers
  BY DEF Owners
<1>4. OwnerOK'
  <2>1. \A d \in Owners : call'[d].tx = call[d].tx
    BY <1>3 DEF OnlyMoves
  <2> QED
    BY <1>1, <1>2, <2>1, OwnerFrame
<1>5. \A s \in sqlTransactions \cup pending : Keeps(s)
  BY <1>1 DEF OwnerOK, Listed, TypeOK
<1>6. PendingIsUndecided'
  BY <1>5, PendingFrame
<1>7. \A d \in Owners \ {c} : Keeps(call[d].tx)
  <2>1. \A d \in Owners \ {c} : call[d].tx \in Sessions
    BY <1>1 DEF OwnerOK, Live
  <2>2. \A d \in Owners \ {c} : c \in Owners => call[d].tx # call[c].tx
    BY <1>1 DEF OwnerOK
  <2> QED
    BY <2>1, <2>2
<1>8. shutdown' # "drain" => pending' = {} /\ closing' = {}
  BY DEF TxInv
<1>9. TellsTruth /\ \A s \in Sessions : CalmOrOpened(s, c)
  BY DEF TellsTruth, CalmOrOpened
<1> QED
  BY <1>4, <1>6, <1>7, <1>8, <1>9, CallStep DEF OnlyMoves

LEMMA BeginStartInv ==
    ASSUME TypeOK, TxInv, NEW c \in Callers, NEW t \in Sessions,
           NEW n \in 1..MaxStatements, BeginStart(c, t, n)
    PROVE  TxInv'
<1>1. /\ pc[c] = "idle" /\ pc'[c] = "open" /\ OnlyMoves(c)
      /\ call'[c].op = "start" /\ call'[c].tx = t /\ call'[c].left = n
  BY DEF BeginStart, Enter, Goto, TypeOK, OnlyMoves
<1>2. call[c].op = "none" /\ \A d \in Callers : call[d].tx # t
  BY <1>1, IdleView DEF BeginStart
<1>3. /\ UNCHANGED sessionVars
      /\ UNCHANGED <<told, sqlTransactions, shutdown, pending, closing>>
  BY DEF BeginStart, shutdownVars
<1>4. c \notin Owners /\ c \notin Owners'
  BY <1>1, <1>2, OwnersStep DEF Ends
<1>5. CallOK(c)'
  <2>1. execer'[t] = "unused" /\ server'[t] = "none" /\ fate'[t] = "none"
    BY <1>3 DEF BeginStart, TxInv, sessionVars
  <2>2. t # NoTx /\ n > 0
    BY ConstantsAssumption
  <2>3. \A d \in Callers \ {c} : call'[d].tx # t
    BY <1>1, <1>2 DEF OnlyMoves
  <2> QED
    BY <1>1, <2>1, <2>2, <2>3 DEF CallOK, InPlace, Ends
<1> QED
  BY <1>1, <1>2, <1>3, <1>4, <1>5, Untouched, SessionCall

LEMMA OpenFailsInv ==
    ASSUME TypeOK, TxInv, NEW c \in Callers, OpenFails(c)
    PROVE  TxInv'
<1>1. /\ pc[c] = "open" /\ pc'[c] = "idle" /\ OnlyMoves(c)
      /\ call'[c].op = "none" /\ call'[c].tx = NoTx
  BY ReturnView DEF OpenFails, OnlyMoves
<1>2. call[c].op = "start"
  BY <1>1 DEF TxInv, CallOK, InPlace
<1>3. /\ UNCHANGED sessionVars
      /\ UNCHANGED <<told, sqlTransactions, shutdown, pending, closing>>
  BY DEF OpenFails, shutdownVars
<1>4. c \notin Owners /\ c \notin Owners'
  BY <1>1, <1>2, OwnersStep DEF Ends
<1>5. CallOK(c)'
  BY <1>1 DEF CallOK, InPlace, Ends
<1>6. \A d \in Callers \ {c} : call[d].op = "start" => call'[c].tx # call[d].tx
  BY <1>1 DEF TxInv, CallOK
<1> QED
  BY <1>1, <1>3, <1>4, <1>5, <1>6, Untouched, SessionCall
\* What every step of a call under way finds.
LEMMA UnderWay ==
    ASSUME TypeOK, TxInv, NEW c \in Callers, pc[c] # "idle"
    PROVE  /\ call[c].tx \in Sessions
           /\ InPlace(call[c].op, pc[c])
           /\ CallOK(c)
           /\ OwnerOK
           /\ \A d \in Callers \ {c} :
                 call[d].op = "start" => call[c].tx # call[d].tx
BY CallHasSession, OwnerView DEF TxInv, CallOK

LEMMA OpenSessionInv ==
    ASSUME TypeOK, TxInv, NEW c \in Callers, OpenSession(c)
    PROVE  TxInv'
<1> DEFINE t == call[c].tx
<1>1. /\ pc[c] = "open" /\ pc'[c] \in {"begin", "check", "run"} /\ OnlyMoves(c)
      /\ call' = call
  <2>1. pc[c] = "open" /\ call' = call /\ pc \in [Callers -> Places]
    BY DEF OpenSession, TypeOK
  <2>2. PICK p \in {"begin", "check", "run"} : pc' = [pc EXCEPT ![c] = p]
    BY DEF OpenSession, Goto, Statement
  <2> QED
    BY <2>1, <2>2 DEF OnlyMoves
<1>2. /\ t \in Sessions /\ call[c].op = "start" /\ execer[t] = "unused"
      /\ server[t] = "none" /\ fate[t] = "none"
      /\ \A d \in Callers \ {c} : call[d].tx # t
      /\ OwnerOK
  BY <1>1, UnderWay DEF CallOK, InPlace
<1>3. /\ execer'[t] = "open" /\ server' = server /\ fate' = fate
      /\ \A s \in Sessions \ {t} : Same(s)
  BY <1>2 DEF OpenSession, TypeOK, Same
<1>4. Live' = Live \cup {t} /\ t \notin Live
  BY <1>2, <1>3 DEF Live, Same
<1>5. Owners' = Owners \cup {c} /\ c \notin Owners /\ Owners \subseteq Callers
  <2>1. Owners \subseteq Callers
    BY DEF Owners
  <2>2. c \in Owners' /\ c \notin Owners /\ Owners' \ {c} = Owners \ {c}
    BY <1>1, <1>2, OwnersStep DEF Ends
  <2> QED
    BY <2>1, <2>2
<1>6. UNCHANGED <<told, sqlTransactions, shutdown, pending, closing>>
  BY DEF OpenSession, registryVars, shutdownVars
<1>7. OwnerOK'
  <2>1. Listed' = Listed
    BY <1>6 DEF Listed
  <2> QED
    BY <1>1, <1>2, <1>4, <1>5, <1>6, <2>1 DEF OwnerOK
<1>8. \A s \in Sessions \ {t} : Calm(s) /\ Keeps(s)
  BY <1>3, SameIsCalm
<1>9. PendingIsUndecided'
  <2>1. \A s \in sqlTransactions \cup pending : s \in Live
    BY <1>2 DEF OwnerOK, Listed
  <2> QED
    BY <1>4, <1>6, <1>8, <2>1, PendingFrame DEF Live
<1>10. \A d \in Owners \ {c} : Keeps(call[d].tx)
  <2>1. \A d \in Owners \ {c} : call[d].tx \in Sessions \ {t}
    BY <1>2, <1>5 DEF OwnerOK, Live
  <2> QED
    BY <1>8, <2>1
<1>11. \A s \in Sessions : CalmOrOpened(s, c)
  BY <1>2, <1>3, <1>8 DEF CalmOrOpened
<1>12. CallOK(c)'
  <2>1. Filling(t)'
    BY <1>1, <1>2, <1>3 DEF Filling
  <2> QED
    BY <1>1, <1>2, <1>3, <2>1 DEF TxInv, CallOK, InPlace, Ends
<1>13. shutdown' # "drain" => pending' = {} /\ closing' = {}
  BY <1>6 DEF TxInv
<1>14. TellsTruth
  BY <1>6 DEF TellsTruth
<1>15. \A d \in Callers \ {c} : call[d].op = "start" => call'[c].tx # call[d].tx
  BY <1>1, <1>2
<1> QED
  BY <1>1, <1>3, <1>7, <1>9, <1>10, <1>11, <1>12, <1>13, <1>14, <1>15,
     CallStep DEF OnlyMoves

LEMMA BeginSQLInv ==
    ASSUME TypeOK, TxInv, NEW c \in Callers, BeginSQL(c)
    PROVE  TxInv'
<1> DEFINE t == call[c].tx
<1>1. /\ pc[c] = "begin" /\ pc'[c] \in {"check", "run", "close"} /\ OnlyMoves(c)
      /\ call' = call
  BY DEF BeginSQL, Goto, Statement, TypeOK, OnlyMoves
<1>2. t \in Sessions /\ call[c].op = "start" /\ Filling(t) /\ CallOK(c)
  BY <1>1, UnderWay DEF CallOK, InPlace
<1>3. c \in Owners /\ c \in Owners'
  BY <1>1, <1>2, OwnersStep
<1>4. /\ UNCHANGED execer
      /\ UNCHANGED <<told, sqlTransactions, shutdown, pending, closing>>
  BY DEF BeginSQL, registryVars, shutdownVars
<1>5. Live' = Live
  BY <1>4 DEF Live
<1>6. \A s \in Sessions \ {t} : Same(s)
  BY DEF BeginSQL, TypeOK, Same
<1>7. \/ server'[t] = "active" /\ fate'[t] = "open" /\ fate[t] # "rolledback"
      \/ server'[t] = server[t] /\ fate'[t] = fate[t]
  BY <1>2 DEF BeginSQL, TypeOK, Filling, Reachable
<1>8. Calm(t) /\ Filling(t)'
  BY <1>1, <1>2, <1>4, <1>7 DEF Calm, Filling
<1>9. \A s \in Sessions : Calm(s)
  BY <1>6, <1>8, SameIsCalm
<1>10. \A s \in Sessions : Keeps(s) \/ (s = call[c].tx /\ c \in Owners)
  BY <1>3, <1>6, SameIsCalm
<1>11. \A s \in Sessions : server'[s] = "aborted" => server[s] = "aborted"
  BY <1>6, <1>7 DEF Same
<1>12. CallOK(c)'
  BY <1>1, <1>2, <1>8 DEF CallOK, InPlace, Ends
<1>13. \A d \in Callers \ {c} : call[d].op = "start" => call'[c].tx # call[d].tx
  BY <1>1, UnderWay
<1> QED
  BY <1>1, <1>3, <1>4, <1>5, <1>9, <1>10, <1>11, <1>12, <1>13, SessionCall

LEMMA CheckActiveInv ==
    ASSUME TypeOK, TxInv, NEW c \in Callers, CheckActive(c)
    PROVE  TxInv'
<1> DEFINE t == call[c].tx
<1>1. /\ pc[c] = "check" /\ OnlyMoves(c) /\ call' = call
      /\ \/ pc'[c] = "run"
         \/ pc'[c] = "undo" /\ call[c].op = "start"
         \/ pc'[c] = "reply" /\ call[c].op # "start"
  BY DEF CheckActive, Goto, TypeOK, OnlyMoves
<1>2. /\ t \in Sessions /\ call[c].op \in {"start", "query"} /\ CallOK(c)
  BY <1>1, UnderWay DEF InPlace
<1>3. /\ UNCHANGED sessionVars
      /\ UNCHANGED <<told, sqlTransactions, shutdown, pending, closing>>
  BY DEF CheckActive, registryVars, shutdownVars
<1>4. c \in Owners' <=> c \in Owners
  BY <1>1, <1>2, OwnersStep DEF Ends
<1>5. CallOK(c)'
  BY <1>1, <1>2, <1>3 DEF CallOK, InPlace, Ends, Filling, sessionVars
<1>6. \A d \in Callers \ {c} : call[d].op = "start" => call'[c].tx # call[d].tx
  BY <1>1, UnderWay
<1> QED
  BY <1>1, <1>3, <1>4, <1>5, <1>6, Untouched, SessionCall
LEMMA StatementOkInv ==
    ASSUME TypeOK, TxInv, NEW c \in Callers, StatementOk(c)
    PROVE  TxInv'
<1> DEFINE t == call[c].tx
<1>1. pc[c] = "run" /\ pc \in [Callers -> Places] /\ call \in [Callers -> Call]
  BY DEF StatementOk, TypeOK
<1>2. /\ t \in Sessions /\ call[c].op \in {"start", "query"} /\ CallOK(c)
      /\ call[c].left \in Nat /\ call[c].left > 0 /\ call[c] \in Call
  BY <1>1, UnderWay, CallFieldTypes DEF InPlace, CallOK
<1>3. /\ OnlyMoves(c)
      /\ call'[c].op = call[c].op /\ call'[c].tx = t
      /\ call'[c].left = call[c].left - 1
  <2>1. call' = [call EXCEPT ![c] = [call[c] EXCEPT !.left = @ - 1]]
    BY <1>1 DEF StatementOk
  <2>2. pc' = [pc EXCEPT ![c] = pc'[c]]
    BY <1>1 DEF StatementOk, Goto, Statement
  <2> QED
    BY <1>1, <1>2, <2>1, <2>2, LeftUpdate DEF OnlyMoves
<1>4. \/ pc'[c] \in {"check", "run"} /\ call'[c].left > 0
      \/ pc'[c] = "register" /\ call[c].op = "start"
      \/ pc'[c] = "reply" /\ call[c].op # "start"
  BY <1>1, <1>2, <1>3 DEF StatementOk, Goto, Statement
<1>5. /\ UNCHANGED execer
      /\ UNCHANGED <<told, sqlTransactions, shutdown, pending, closing>>
  BY DEF StatementOk, registryVars, shutdownVars
<1>6. /\ server[t] \in {"none", "active", "over"}
      /\ server'[t] \in {"active", "over"}
      /\ server[t] # "over" => server'[t] = "active"
      /\ fate'[t] = IF fate[t] = "none" THEN "open" ELSE fate[t]
      /\ \A s \in Sessions \ {t} : Same(s)
  BY <1>2, <1>5 DEF StatementOk, TypeOK, Same
<1>7. execer[t] # "unused"
  BY <1>1, <1>2 DEF CallOK, Filling
<1>8. Calm(t) /\ Keeps(t)
  <2>1. Calm(t)
    BY <1>5, <1>6, <1>7 DEF Calm
  <2>2. /\ Undecided(t) =>
             execer'[t] = "open" /\ server'[t] = "active" /\ fate'[t] = "open"
        /\ Filling(t) =>
             execer'[t] = "open" /\ server'[t] = "active" /\ fate'[t] = "open"
    BY <1>5, <1>6 DEF Undecided, Filling
  <2>3. Keeps(t)
    <3>1. ASSUME Undecided(t) PROVE Undecided(t)'
      BY <1>3, <2>2, <3>1 DEF Undecided
    <3>2. ASSUME Filling(t) PROVE Filling(t)'
      BY <1>3, <2>2, <3>2 DEF Filling
    <3> QED
      BY <1>3, <3>1, <3>2 DEF Keeps
  <2> QED
    BY <2>1, <2>3
<1>9. \A s \in Sessions : Calm(s) /\ Keeps(s)
  BY <1>6, <1>8, SameIsCalm
<1>10. \A s \in Sessions : server'[s] = "aborted" => server[s] = "aborted"
  BY <1>6 DEF Same
<1>11. (c \in Owners' <=> c \in Owners) /\ Live' = Live
  BY <1>1, <1>2, <1>3, <1>4, <1>5, OwnersStep DEF Ends, Live
<1>12. CallOK(c)'
  <2>1. call[c].op = "start" =>
           execer'[t] = "open" /\ server'[t] = "active" /\ fate'[t] = "open"
    BY <1>1, <1>2, <1>5, <1>6 DEF CallOK, Filling
  <2>2. \A d \in Callers \ {c} : call[c].op = "start" => call'[d].tx # t
    BY <1>2, <1>3 DEF CallOK, OnlyMoves
  <2>3. call[c].op = "start" => Filling(t)' /\ Undecided(t)'
    BY <1>3, <2>1 DEF Filling, Undecided
  <2>4. t # NoTx /\ execer'[t] # "unused"
    BY <1>2, <1>5, <1>7, ConstantsAssumption
  <2> QED
    BY <1>2, <1>3, <1>4, <2>2, <2>3, <2>4 DEF CallOK, InPlace, Ends
<1>13. \A d \in Callers \ {c} : call[d].op = "start" => call'[c].tx # call[d].tx
  BY <1>1, <1>3, UnderWay
<1> QED
  BY <1>3, <1>5, <1>9, <1>10, <1>11, <1>12, <1>13, SessionCall

LEMMA StatementFailsInv ==
    ASSUME TypeOK, TxInv, NEW c \in Callers, StatementFails(c)
    PROVE  TxInv'
<1> DEFINE t == call[c].tx
<1>1. /\ pc[c] = "run" /\ OnlyMoves(c) /\ call' = call
      /\ \/ pc'[c] = "undo" /\ call[c].op = "start"
         \/ pc'[c] = "reply" /\ call[c].op # "start"
  BY DEF StatementFails, Goto, TypeOK, OnlyMoves
<1>2. /\ t \in Sessions /\ call[c].op \in {"start", "query"} /\ CallOK(c)
  BY <1>1, UnderWay DEF InPlace
<1>3. /\ UNCHANGED <<execer, fate>>
      /\ UNCHANGED <<told, sqlTransactions, shutdown, pending, closing>>
  BY DEF StatementFails, registryVars, shutdownVars
<1>4. /\ \/ server'[t] = server[t]
         \/ AbortsOnError /\ server[t] = "active" /\ server'[t] = "aborted"
      /\ \A s \in Sessions \ {t} : Same(s)
  BY <1>2, <1>3 DEF StatementFails, TypeOK, Same
<1>5. execer[t] # "unused"
  BY <1>1, <1>2 DEF CallOK, Filling
<1>6. Calm(t) /\ Keeps(t)
  <2>1. Calm(t)
    BY <1>3, <1>5 DEF Calm
  <2>2. Keeps(t)
    BY <1>1, <1>3, <1>4 DEF Keeps, Undecided, Filling
  <2> QED
    BY <2>1, <2>2
<1>7. \A s \in Sessions : Calm(s) /\ Keeps(s)
  BY <1>4, <1>6, SameIsCalm
<1>8. \/ AbortsOnError
      \/ \A s \in Sessions : server'[s] = "aborted" => server[s] = "aborted"
  BY <1>4 DEF Same
<1>9. (c \in Owners' <=> c \in Owners) /\ Live' = Live
  BY <1>1, <1>2, <1>3, OwnersStep DEF Ends, Live
<1>10. CallOK(c)'
  <2>1. call[c].op = "start" => Filling(t)'
    BY <1>1, <1>2, <1>6 DEF CallOK, Keeps
  <2>2. execer'[t] # "unused"
    BY <1>3, <1>5
  <2> QED
    BY <1>1, <1>2, <2>1, <2>2 DEF CallOK, InPlace, Ends
<1>11. \A d \in Callers \ {c} : call[d].op = "start" => call'[c].tx # call[d].tx
  BY <1>1, UnderWay
<1> QED
  BY <1>1, <1>3, <1>7, <1>8, <1>9, <1>10, <1>11, SessionCall

LEMMA UndoStartInv ==
    ASSUME TypeOK, TxInv, NEW c \in Callers, UndoStart(c)
    PROVE  TxInv'
<1> DEFINE t == call[c].tx
<1>1. pc[c] = "undo" /\ pc'[c] = "close" /\ OnlyMoves(c) /\ call' = call
  BY DEF UndoStart, Goto, TypeOK, OnlyMoves
<1>2. t \in Sessions /\ call[c].op = "start" /\ CallOK(c) /\ Filling(t)
  BY <1>1, UnderWay DEF InPlace, CallOK
<1>3. UNCHANGED <<told, sqlTransactions, shutdown, pending, closing>>
  BY DEF UndoStart, registryVars, shutdownVars
<1>4. c \in Owners /\ c \in Owners'
  BY <1>1, <1>2, OwnersStep
<1>5. /\ \A s \in Sessions \ {t} : Same(s)
      /\ execer[t] \in {"open", "done"} /\ execer'[t] \in {"open", "done"}
      /\ server'[t] = "aborted" => server[t] = "aborted"
      /\ fate[t] # "open" => fate'[t] = fate[t]
  BY <1>2, ControlView DEF UndoStart, Filling
<1>6. Calm(t)
  BY <1>5 DEF Calm
<1>7. \A s \in Sessions : Calm(s)
  BY <1>5, <1>6, SameIsCalm
<1>8. \A s \in Sessions : Keeps(s) \/ (s = call[c].tx /\ c \in Owners)
  BY <1>4, <1>5, SameIsCalm
<1>9. /\ Live' = Live
      /\ \A s \in Sessions : server'[s] = "aborted" => server[s] = "aborted"
  BY <1>5 DEF Live, Same
<1>10. CallOK(c)'
  BY <1>1, <1>2 DEF CallOK, InPlace, Ends
<1>11. \A d \in Callers \ {c} : call[d].op = "start" => call'[c].tx # call[d].tx
  BY <1>1, UnderWay
<1> QED
  BY <1>1, <1>3, <1>4, <1>7, <1>8, <1>9, <1>10, <1>11, SessionCall
LEMMA RegisterInv ==
    ASSUME TypeOK, TxInv, NEW c \in Callers, Register(c)
    PROVE  TxInv'
<1> DEFINE t == call[c].tx
<1>1. /\ pc[c] = "register" /\ pc'[c] = "idle" /\ OnlyMoves(c)
      /\ call'[c].op = "none" /\ call'[c].tx = NoTx
  BY ReturnView DEF Register, OnlyMoves
<1>2. /\ t \in Sessions /\ call[c].op = "start" /\ Undecided(t) /\ OwnerOK
  BY <1>1, UnderWay DEF InPlace, CallOK
<1>3. /\ UNCHANGED sessionVars
      /\ UNCHANGED <<told, shutdown, pending, closing>>
      /\ sqlTransactions' = sqlTransactions \cup {t}
  BY DEF Register, shutdownVars
<1>4. /\ Live' = Live /\ server' = server
      /\ \A s \in Sessions : Calm(s) /\ Keeps(s)
  BY <1>3, Untouched
<1>5. c \in Owners /\ Owners' = Owners \ {c} /\ Owners \subseteq Callers
  <2>1. c \in Owners /\ c \notin Owners' /\ Owners' \ {c} = Owners \ {c}
    BY <1>1, <1>2, OwnersStep DEF Ends
  <2>2. Owners \subseteq Callers
    BY DEF Owners
  <2> QED
    BY <2>1, <2>2
<1>6. t \in Live /\ t \notin Listed /\ Listed' = Listed \cup {t}
  BY <1>2, <1>3, <1>5 DEF OwnerOK, Listed
<1>7. OwnerOK'
  <2>1. \A d \in Owners' : call'[d].tx = call[d].tx /\ call[d].tx # t
    BY <1>1, <1>2, <1>5 DEF OnlyMoves, OwnerOK
  <2> QED
    BY <1>2, <1>3, <1>4, <1>5, <1>6, <2>1 DEF OwnerOK, Listed
<1>8. PendingIsUndecided'
  BY <1>2, <1>3
     DEF TxInv, PendingIsUndecided, Undecided, sessionVars
<1>9. CallOK(c)'
  BY <1>1 DEF CallOK, InPlace, Ends
<1>10. \A d \in Owners \ {c} : Keeps(call[d].tx)
  BY <1>2, <1>4 DEF OwnerOK, Live
<1>11. TellsTruth /\ \A s \in Sessions : CalmOrOpened(s, c)
  BY <1>3, <1>4 DEF TellsTruth, CalmOrOpened
<1>12. shutdown' # "drain" => pending' = {} /\ closing' = {}
  BY <1>3 DEF TxInv
<1>13. \A d \in Callers \ {c} : call[d].op = "start" => call'[c].tx # call[d].tx
  BY <1>1 DEF TxInv, CallOK
<1> QED
  BY <1>1, <1>4, <1>7, <1>8, <1>9, <1>10, <1>11, <1>12, <1>13, CallStep
     DEF OnlyMoves

\* A session that is listed is not the session of a start under way.
LEMMA ListedIsNotStarted ==
    ASSUME TypeOK, TxInv, NEW t \in Listed, NEW d \in Callers,
           call[d].op = "start"
    PROVE  call[d].tx # t /\ t \in Live
<1>1. OwnerOK
  BY OwnerView DEF TxInv
<1>2. CASE pc[d] = "open"
  BY <1>1, <1>2 DEF TxInv, CallOK, OwnerOK, Live
<1>3. CASE pc[d] # "open"
  BY <1>1, <1>3 DEF OwnerOK, Owners
<1> QED
  BY <1>2, <1>3

LEMMA LookupTransactionInv ==
    ASSUME TypeOK, TxInv, NEW c \in Callers, NEW t \in Sessions,
           NEW n \in 1..MaxStatements, LookupTransaction(c, t, n)
    PROVE  TxInv'
<1>1. /\ pc[c] = "idle" /\ pc'[c] = "lookup" /\ OnlyMoves(c)
      /\ call'[c].op = "query" /\ call'[c].tx = t /\ call'[c].left = n
  BY DEF LookupTransaction, Enter, Goto, TypeOK, OnlyMoves
<1>2. call[c].op = "none" /\ t \in Listed
  BY <1>1, IdleView DEF LookupTransaction, Listed
<1>3. t \in Live /\ \A d \in Callers : call[d].op = "start" => call[d].tx # t
  BY <1>2, ListedIsNotStarted, OwnerView DEF TxInv, OwnerOK
<1>4. /\ UNCHANGED sessionVars
      /\ UNCHANGED <<told, sqlTransactions, shutdown, pending, closing>>
  BY DEF LookupTransaction, registryVars, shutdownVars
<1>5. c \notin Owners /\ c \notin Owners'
  BY <1>1, <1>2, OwnersStep DEF Ends
<1>6. CallOK(c)'
  <2>1. t # NoTx /\ n > 0 /\ execer'[t] # "unused"
    BY <1>3, <1>4, ConstantsAssumption DEF Live, sessionVars
  <2> QED
    BY <1>1, <2>1 DEF CallOK, InPlace, Ends
<1> QED
  BY <1>1, <1>3, <1>4, <1>5, <1>6, Untouched, SessionCall

LEMMA RegisterQueryInv ==
    ASSUME TypeOK, TxInv, NEW c \in Callers, RegisterQuery(c)
    PROVE  TxInv'
<1>1. /\ pc[c] = "lookup" /\ pc'[c] \in {"check", "run"} /\ OnlyMoves(c)
      /\ call' = call
  BY DEF RegisterQuery, Goto, Statement, TypeOK, OnlyMoves
<1>2. call[c].op = "query" /\ CallOK(c)
  BY <1>1, UnderWay DEF InPlace
<1>3. /\ UNCHANGED sessionVars
      /\ UNCHANGED <<told, sqlTransactions, shutdown, pending, closing>>
  BY DEF RegisterQuery, shutdownVars
<1>4. c \notin Owners /\ c \notin Owners'
  BY <1>1, <1>2, OwnersStep DEF Ends
<1>5. CallOK(c)'
  BY <1>1, <1>2, <1>3 DEF CallOK, InPlace, Ends, sessionVars
<1>6. \A d \in Callers \ {c} : call[d].op = "start" => call'[c].tx # call[d].tx
  BY <1>1, UnderWay
<1> QED
  BY <1>1, <1>3, <1>4, <1>5, <1>6, Untouched, SessionCall

LEMMA ReplyInv ==
    ASSUME TypeOK, TxInv, NEW c \in Callers, Reply(c)
    PROVE  TxInv'
<1>1. /\ pc[c] = "reply" /\ pc'[c] = "idle" /\ OnlyMoves(c)
      /\ call'[c].op = "none" /\ call'[c].tx = NoTx
  BY ReturnView DEF Reply, OnlyMoves
<1>2. call[c].op = "query"
  BY <1>1 DEF TxInv, CallOK, InPlace
<1>3. /\ UNCHANGED sessionVars
      /\ UNCHANGED <<told, sqlTransactions, shutdown, pending, closing>>
  BY DEF Reply, shutdownVars
<1>4. c \notin Owners /\ c \notin Owners'
  BY <1>1, <1>2, OwnersStep DEF Ends
<1>5. CallOK(c)'
  BY <1>1 DEF CallOK, InPlace, Ends
<1>6. \A d \in Callers \ {c} : call[d].op = "start" => call'[c].tx # call[d].tx
  BY <1>1 DEF TxInv, CallOK
<1> QED
  BY <1>1, <1>3, <1>4, <1>5, <1>6, Untouched, SessionCall
\* A caller deletes an entry of the registry and goes on to end it.
LEMMA TakesEntry ==
    ASSUME TypeOK, TxInv, NEW c \in Callers, NEW t \in sqlTransactions,
           OnlyMoves(c), UNCHANGED sessionVars,
           UNCHANGED <<told, shutdown, pending, closing>>,
           sqlTransactions' = sqlTransactions \ {t},
           c \notin Owners, pc'[c] = "control",
           call'[c].tx = t, call'[c].op \in Ends
    PROVE  TxInv'
<1>1. OwnerOK /\ t \in Sessions /\ t \in Live /\ t \in Listed
  BY OwnerView DEF TxInv, TypeOK, OwnerOK, Listed
<1>2. Owners' = Owners \cup {c} /\ Owners \subseteq Callers
  <2>1. c \in Owners' /\ Owners' \ {c} = Owners \ {c}
    BY OwnersStep
  <2>2. Owners \subseteq Callers
    BY DEF Owners
  <2> QED
    BY <2>1, <2>2
<1>3. /\ Live' = Live /\ server' = server
      /\ \A s \in Sessions : Calm(s) /\ Keeps(s)
  BY Untouched
<1>4. Listed' = Listed \ {t}
  BY <1>1 DEF OwnerOK, Listed
<1>5. OwnerOK'
  <2>1. \A d \in Owners : call'[d].tx = call[d].tx /\ call[d].tx # t
    BY <1>1, <1>2 DEF OnlyMoves, OwnerOK
  <2>2. Listed' \subseteq Live' /\ t \in Live' \ Listed'
    BY <1>1, <1>3, <1>4 DEF OwnerOK
  <2>3. /\ sqlTransactions' \cap (pending' \cup closing') = {}
        /\ pending' \cap closing' = {}
    BY <1>1 DEF OwnerOK
  <2>4. \A d \in Owners' : call'[d].tx \in Live' \ Listed'
    BY <1>1, <1>2, <1>3, <1>4, <2>1, <2>2 DEF OwnerOK
  <2>5. \A d, e \in Owners' : call'[d].tx = call'[e].tx => d = e
    BY <1>1, <1>2, <2>1 DEF OwnerOK
  <2>6. \A s \in Live' \ Listed' : \E d \in Owners' : call'[d].tx = s
    BY <1>1, <1>2, <1>3, <1>4, <2>1 DEF OwnerOK
  <2> QED
    BY <2>2, <2>3, <2>4, <2>5, <2>6 DEF OwnerOK
<1>6. PendingIsUndecided'
  BY <1>3, PendingFrame DEF TypeOK
<1>7. CallOK(c)'
  <2>1. Undecided(t)
    BY DEF TxInv, PendingIsUndecided
  <2>2. /\ execer'[t] = "open" /\ t # NoTx
        /\ \/ server'[t] \in {"active", "aborted"} /\ fate'[t] = "open"
           \/ server'[t] = "lost" /\ fate'[t] = "rolledback"
    BY <1>1, <2>1, ConstantsAssumption DEF Undecided, sessionVars
  <2> QED
    BY <2>2 DEF CallOK, InPlace, Ends, Undecided
<1>8. \A d \in Owners \ {c} : Keeps(call[d].tx)
  BY <1>1, <1>3 DEF OwnerOK, Live
<1>9. TellsTruth /\ \A s \in Sessions : CalmOrOpened(s, c)
  BY <1>3 DEF TellsTruth, CalmOrOpened
<1>10. shutdown' # "drain" => pending' = {} /\ closing' = {}
  BY DEF TxInv
<1>11. \A d \in Callers \ {c} : call[d].op = "start" => call'[c].tx # call[d].tx
  BY <1>1, ListedIsNotStarted
<1> QED
  BY <1>3, <1>5, <1>6, <1>7, <1>8, <1>9, <1>10, <1>11, CallStep DEF OnlyMoves

LEMMA BeginFinishInv ==
    ASSUME TypeOK, TxInv, NEW c \in Callers, NEW t \in Sessions,
           NEW op \in {"commit", "rollback"}, BeginFinish(c, op, t)
    PROVE  TxInv'
<1>1. /\ pc[c] = "idle" /\ pc'[c] = "control" /\ OnlyMoves(c)
      /\ call'[c].op = op /\ call'[c].tx = t
  BY DEF BeginFinish, Enter, Goto, TypeOK, OnlyMoves
<1>2. call[c].op = "none"
  BY <1>1, IdleView
<1>3. /\ UNCHANGED sessionVars
      /\ UNCHANGED <<told, shutdown, pending, closing>>
      /\ t \in sqlTransactions
      /\ sqlTransactions' = sqlTransactions \ {t}
  BY DEF BeginFinish, shutdownVars
<1>4. c \notin Owners
  BY <1>1, <1>2, OwnersStep DEF Ends
<1> QED
  BY <1>1, <1>3, <1>4, TakesEntry DEF Ends

LEMMA ForceStopInv ==
    ASSUME TypeOK, TxInv, NEW c \in Callers, ForceStop(c)
    PROVE  TxInv'
<1> DEFINE t == call[c].tx
<1>1. pc[c] = "drop"
  BY DEF ForceStop
<1>2. call[c].op = "cancel" /\ t \in Sessions
  BY <1>1, UnderWay DEF InPlace
<1>3. /\ UNCHANGED sessionVars
      /\ UNCHANGED <<told, shutdown, pending, closing>>
  BY DEF ForceStop, shutdownVars
<1>4. CASE t \in sqlTransactions
  <2>1. pc'[c] = "control" /\ OnlyMoves(c) /\ call' = call
    BY <1>4 DEF ForceStop, Goto, TypeOK, OnlyMoves
  <2>2. c \notin Owners
    BY <1>1, <1>2, <2>1, OwnersStep
  <2>3. sqlTransactions' = sqlTransactions \ {t}
    BY <1>4 DEF ForceStop
  <2> QED
    BY <1>2, <1>3, <1>4, <2>1, <2>2, <2>3, TakesEntry DEF Ends
<1>5. CASE t \notin sqlTransactions
  <2>1. /\ pc'[c] = "idle" /\ OnlyMoves(c)
        /\ call'[c].op = "none" /\ call'[c].tx = NoTx
    BY <1>5, ReturnView DEF ForceStop, OnlyMoves
  <2>2. c \notin Owners /\ c \notin Owners'
    BY <1>1, <1>2, <2>1, OwnersStep DEF Ends
  <2>3. CallOK(c)'
    BY <2>1 DEF CallOK, InPlace, Ends
  <2>4. \A d \in Callers \ {c} : call[d].op = "start" => call'[c].tx # call[d].tx
    BY <2>1 DEF TxInv, CallOK
  <2>5. sqlTransactions' = sqlTransactions
    BY <1>5 DEF ForceStop
  <2> QED
    BY <1>3, <2>1, <2>2, <2>3, <2>4, <2>5, Untouched, SessionCall
<1> QED
  BY <1>4, <1>5

LEMMA CancelInv ==
    ASSUME TypeOK, TxInv, NEW c \in Callers, NEW d \in Callers, Cancel(c, d)
    PROVE  TxInv'
<1>1. /\ UNCHANGED sessionVars
      /\ UNCHANGED <<told, sqlTransactions, shutdown, pending, closing>>
  BY DEF Cancel, shutdownVars
<1>2. pc[c] = "idle"
  BY DEF Cancel, Enter
<1>3. call[c].op = "none" /\ call[c].tx = NoTx
  BY <1>2, IdleView
<1>4. CASE call[d].op = "query"
  <2> DEFINE t == call[d].tx
  <2>1. /\ pc'[c] = "drop" /\ OnlyMoves(c)
        /\ call'[c].op = "cancel" /\ call'[c].tx = t
    BY <1>4 DEF Cancel, Enter, Goto, TypeOK, OnlyMoves
  <2>2. pc[d] # "idle"
    BY <1>4, IdleView
  <2>3. /\ t \in Sessions /\ execer[t] # "unused"
        /\ \A e \in Callers \ {d} : call[e].op = "start" => t # call[e].tx
    BY <1>4, <2>2, UnderWay DEF CallOK
  <2>4. c \notin Owners /\ c \notin Owners'
    BY <1>3, <2>1, OwnersStep DEF Ends
  <2>5. CallOK(c)'
    <3>1. t # NoTx /\ execer'[t] # "unused"
      BY <1>1, <2>3, ConstantsAssumption DEF sessionVars
    <3> QED
      BY <2>1, <3>1 DEF CallOK, InPlace, Ends
  <2>6. \A e \in Callers \ {c} : call[e].op = "start" => call'[c].tx # call[e].tx
    BY <1>4, <2>1, <2>3
  <2> QED
    BY <1>1, <2>1, <2>4, <2>5, <2>6, Untouched, SessionCall
<1>5. CASE call[d].op # "query"
  <2>1. pc' = pc /\ call' = call /\ OnlyMoves(c)
    BY <1>5 DEF Cancel, OnlyMoves
  <2>2. c \notin Owners /\ c \notin Owners'
    BY <1>3, <2>1, OwnersStep DEF Ends
  <2>3. CallOK(c)'
    BY <1>2, <1>3, <2>1 DEF CallOK, InPlace, Ends
  <2>4. \A e \in Callers \ {c} : call[e].op = "start" => call'[c].tx # call[e].tx
    BY <1>3, <2>1 DEF TxInv, CallOK
  <2> QED
    BY <1>1, <2>1, <2>2, <2>3, <2>4, Untouched, SessionCall
<1> QED
  BY <1>4, <1>5
LEMMA ControlSessionInv ==
    ASSUME TypeOK, TxInv, NEW c \in Callers, ControlSession(c)
    PROVE  TxInv'
<1> DEFINE t == call[c].tx
           how == IF call[c].op = "commit" THEN "commit" ELSE "rollback"
<1>1. pc[c] = "control" /\ call[c] \in Call
  BY CallFieldTypes DEF ControlSession
<1>2. /\ t \in Sessions /\ call[c].op \in Ends /\ Undecided(t) /\ CallOK(c)
  BY <1>1, UnderWay DEF InPlace, CallOK, Ends
<1>0. PICK taken \in BOOLEAN, ok \in BOOLEAN :
           /\ ok => ControlOk(t, taken)
           /\ Control(t, how, taken)
           /\ call' = [call EXCEPT ![c].ok = ok]
  BY DEF ControlSession
<1>3. /\ pc'[c] = "close" /\ OnlyMoves(c)
      /\ call'[c].op = call[c].op /\ call'[c].tx = t
      /\ call'[c].ok = ok
  <2>1. pc' = [pc EXCEPT ![c] = "close"] /\ pc \in [Callers -> Places]
    BY DEF ControlSession, Goto, TypeOK
  <2>2. call' = [call EXCEPT ![c] = [call[c] EXCEPT !.ok = ok]]
    BY <1>0 DEF TypeOK
  <2>3. call \in [Callers -> Call]
    BY DEF TypeOK
  <2> QED
    BY <1>1, <2>1, <2>2, <2>3, OkUpdate DEF OnlyMoves
<1>4. UNCHANGED <<told, sqlTransactions, shutdown, pending, closing>>
  BY DEF ControlSession, registryVars, shutdownVars
<1>5. c \in Owners /\ c \in Owners'
  BY <1>1, <1>2, <1>3, OwnersStep DEF Ends
<1>6. Control(t, how, taken)
  BY <1>0
<1>7. /\ \A s \in Sessions \ {t} : Same(s)
      /\ execer'[t] \in {"open", "done"}
      /\ server'[t] = "aborted" => server[t] = "aborted"
      /\ fate[t] # "open" => fate'[t] = fate[t]
      /\ Reachable(t) /\ taken =>
            fate'[t] = IF how = "commit" /\ server[t] = "active"
                       THEN "committed" ELSE "rolledback"
      /\ ControlOk(t, taken) => Reachable(t) /\ taken
  BY <1>2, <1>6, ControlView DEF Undecided
<1>8. execer[t] = "open" /\ Calm(t)
  BY <1>2, <1>7 DEF Calm, Undecided
<1>9. \A s \in Sessions : Calm(s)
  BY <1>7, <1>8, SameIsCalm
<1>10. \A s \in Sessions : Keeps(s) \/ (s = call[c].tx /\ c \in Owners)
  BY <1>5, <1>7, SameIsCalm
<1>11. /\ Live' = Live
       /\ \A s \in Sessions : server'[s] = "aborted" => server[s] = "aborted"
  BY <1>7, <1>8 DEF Live, Same
<1>12. CallOK(c)'
  <2>1. call'[c].ok => IF call[c].op = "commit"
                       THEN \/ fate'[t] = "committed"
                            \/ AbortsOnError /\ fate'[t] = "rolledback"
                       ELSE fate'[t] = "rolledback"
    <3>1. ASSUME call'[c].ok PROVE Reachable(t) /\ taken
      BY <1>0, <1>3, <1>7, <3>1
    <3>2. Reachable(t) /\ server[t] # "active" => AbortsOnError
      BY <1>2 DEF TxInv, Undecided, Reachable
    <3> QED
      BY <1>7, <3>1, <3>2
  <2>2. t # NoTx /\ execer'[t] # "unused"
    BY <1>2, <1>7, ConstantsAssumption
  <2>3. /\ call'[c].op # "start" /\ call'[c].op # "none"
        /\ InPlace(call'[c].op, pc'[c])
    BY <1>2, <1>3 DEF InPlace, Ends, CallOK
  <2> QED
    BY <1>3, <2>1, <2>2, <2>3 DEF CallOK
<1>13. \A d \in Callers \ {c} : call[d].op = "start" => call'[c].tx # call[d].tx
  BY <1>1, <1>3, UnderWay
<1> QED
  BY <1>3, <1>4, <1>5, <1>9, <1>10, <1>11, <1>12, <1>13, SessionCall

LEMMA CloseSessionInv ==
    ASSUME TypeOK, TxInv, NEW c \in Callers, CloseSession(c)
    PROVE  TxInv'
<1> DEFINE t == call[c].tx
<1>1. /\ pc[c] = "close" /\ pc'[c] = "idle" /\ OnlyMoves(c)
      /\ call'[c].op = "none" /\ call'[c].tx = NoTx
  BY ReturnView DEF CloseSession, OnlyMoves
<1>2. /\ t \in Sessions /\ call[c].op \in Ends \cup {"start"} /\ CallOK(c)
      /\ OwnerOK
  BY <1>1, UnderWay DEF InPlace, Ends
<1>3. UNCHANGED <<sqlTransactions, shutdown, pending, closing>>
  BY DEF CloseSession, shutdownVars
<1>4. c \in Owners /\ Owners' = Owners \ {c} /\ Owners \subseteq Callers
  <2>1. c \in Owners /\ c \notin Owners' /\ Owners' \ {c} = Owners \ {c}
    BY <1>1, <1>2, OwnersStep DEF Ends
  <2>2. Owners \subseteq Callers
    BY DEF Owners
  <2> QED
    BY <2>1, <2>2
<1>5. t \in Live /\ t \notin Listed
  BY <1>2, <1>4 DEF OwnerOK
<1>6. /\ \A s \in Sessions \ {t} : Same(s)
      /\ execer'[t] = "closed"
      /\ server'[t] = "aborted" => server[t] = "aborted"
      /\ fate[t] # "open" => fate'[t] = fate[t]
  BY <1>2, CloseView DEF CloseSession
<1>7. Calm(t)
  BY <1>5, <1>6 DEF Calm, Live
<1>8. \A s \in Sessions : Calm(s)
  BY <1>6, <1>7, SameIsCalm
<1>9. \A s \in Sessions \ {t} : Keeps(s)
  BY <1>6, SameIsCalm
<1>10. Live' = Live \ {t} /\ Listed' = Listed
  BY <1>3, <1>6 DEF Live, Listed, Same
<1>11. OwnerOK'
  <2>1. \A d \in Owners' : call'[d].tx = call[d].tx /\ call[d].tx # t
    BY <1>1, <1>2, <1>4 DEF OnlyMoves, OwnerOK
  <2>2. \A s \in Live' \ Listed' : \E d \in Owners' : call'[d].tx = s
    BY <1>2, <1>4, <1>10, <2>1 DEF OwnerOK
  <2>3. Listed' \subseteq Live'
    BY <1>2, <1>5, <1>10 DEF OwnerOK
  <2>4. \A d \in Owners' : call'[d].tx \in Live' \ Listed'
    BY <1>2, <1>4, <1>10, <2>1 DEF OwnerOK
  <2> QED
    BY <1>2, <1>3, <1>4, <2>1, <2>2, <2>3, <2>4 DEF OwnerOK
<1>12. PendingIsUndecided'
  <2>1. \A s \in sqlTransactions \cup pending : s \in Sessions \ {t}
    BY <1>5 DEF Listed, TypeOK
  <2> QED
    BY <1>3, <1>9, <2>1, PendingFrame
<1>13. \A d \in Owners \ {c} : Keeps(call[d].tx)
  <2>1. \A d \in Owners \ {c} : call[d].tx \in Sessions \ {t}
    BY <1>2, <1>4 DEF OwnerOK, Live
  <2> QED
    BY <1>9, <2>1
<1>14. TellsTruth
  <2>1. \A s \in Sessions \ {t} : told'[s] = told[s]
    BY <1>2 DEF CloseSession, TypeOK
  <2>2. CASE call[c].op \in {"commit", "rollback"}
    <3>1. told'[t] \in {Verdict(c), "failed"}
      BY <1>2, <2>2 DEF CloseSession, TypeOK
    <3>2. call[c].ok =>
             IF call[c].op = "commit"
             THEN fate[t] = "committed" \/ (AbortsOnError /\ fate[t] = "rolledback")
             ELSE fate[t] = "rolledback"
      BY <1>1, <1>2, <2>2 DEF CallOK, Ends
    <3>3. fate[t] \in {"committed", "rolledback"} => fate'[t] = fate[t]
      BY <1>6
    <3> QED
      BY <2>1, <2>2, <3>1, <3>2, <3>3 DEF TellsTruth, Verdict
  <2>3. CASE call[c].op \notin {"commit", "rollback"}
    BY <2>3 DEF CloseSession, TellsTruth
  <2> QED
    BY <2>2, <2>3
<1>15. \A s \in Sessions : server'[s] = "aborted" => server[s] = "aborted"
  BY <1>6 DEF Same
<1>16. CallOK(c)'
  BY <1>1 DEF CallOK, InPlace, Ends
<1>17. shutdown' # "drain" => pending' = {} /\ closing' = {}
  BY <1>3 DEF TxInv
<1>18. \A d \in Callers \ {c} : call[d].op = "start" => call'[c].tx # call[d].tx
  BY <1>1 DEF TxInv, CallOK
<1>19. \A s \in Sessions : CalmOrOpened(s, c)
  BY <1>8 DEF CalmOrOpened
<1> QED
  BY <1>1, <1>11, <1>12, <1>13, <1>14, <1>15, <1>16, <1>17, <1>18, <1>19,
     CallStep DEF OnlyMoves
----------------------------------------------------------------------------
(* Shutdown and the environment.                                           *)

LEMMA BeginShutdownInv ==
    ASSUME TypeOK, TxInv, BeginShutdown
    PROVE  TxInv'
<1>1. /\ UNCHANGED sessionVars
      /\ pc' = pc /\ call' = call /\ told' = told
      /\ shutdown = "no" /\ shutdown' = "drain" /\ closing' = closing
      /\ pending' = sqlTransactions /\ sqlTransactions' = {}
  BY DEF BeginShutdown
<1>2. pending = {} /\ closing = {} /\ OwnerOK
  BY <1>1, OwnerView DEF TxInv
<1>3. /\ Live' = Live /\ server' = server
      /\ \A s \in Sessions : Calm(s) /\ Keeps(s)
  BY <1>1, Untouched
<1>4. Listed' = Listed /\ Owners' = Owners
  BY <1>1, <1>2 DEF Listed, Owners
<1>5. OwnerOK'
  BY <1>1, <1>2, <1>3, <1>4 DEF OwnerOK
<1>6. PendingIsUndecided'
  BY <1>1, <1>3, PendingFrame DEF TypeOK
<1>7. \A d \in Owners : Keeps(call[d].tx)
  BY <1>2, <1>3 DEF OwnerOK, Live
<1> QED
  BY <1>1, <1>3, <1>5, <1>6, <1>7, QuietStep

LEMMA EndShutdownInv ==
    ASSUME TypeOK, TxInv, EndShutdown
    PROVE  TxInv'
<1>1. /\ UNCHANGED sessionVars
      /\ pc' = pc /\ call' = call /\ told' = told
      /\ pending = {} /\ closing = {}
      /\ UNCHANGED <<sqlTransactions, pending, closing>>
  BY DEF EndShutdown, registryVars
<1>2. OwnerOK
  BY OwnerView DEF TxInv
<1>3. /\ Live' = Live /\ server' = server
      /\ \A s \in Sessions : Calm(s) /\ Keeps(s)
  BY <1>1, Untouched
<1>4. Owners' = Owners /\ \A d \in Owners : call'[d].tx = call[d].tx
  BY <1>1 DEF Owners
<1>5. OwnerOK'
  BY <1>1, <1>2, <1>3, <1>4, OwnerFrame
<1>6. PendingIsUndecided'
  BY <1>1, <1>3, PendingFrame DEF TypeOK
<1>7. \A d \in Owners : Keeps(call[d].tx)
  BY <1>2, <1>3 DEF OwnerOK, Live
<1> QED
  BY <1>1, <1>3, <1>5, <1>6, <1>7, QuietStep

LEMMA RollbackPendingInv ==
    ASSUME TypeOK, TxInv, NEW t \in Sessions, RollbackPending(t)
    PROVE  TxInv'
<1>1. /\ pc' = pc /\ call' = call /\ told' = told /\ shutdown' = shutdown
      /\ sqlTransactions' = sqlTransactions /\ closing = {} /\ t \in pending
      /\ pending' = pending \ {t} /\ closing' = {t}
  BY DEF RollbackPending, registryVars
<1>2. OwnerOK /\ t \in Live /\ t \in Listed /\ execer[t] = "open"
  BY <1>1, OwnerView
     DEF TxInv, OwnerOK, Listed, PendingIsUndecided, Undecided
<1>3. /\ \A s \in Sessions \ {t} : Same(s)
      /\ execer'[t] \in {"open", "done"}
      /\ server'[t] = "aborted" => server[t] = "aborted"
      /\ fate[t] # "open" => fate'[t] = fate[t]
  BY <1>2, ControlView DEF RollbackPending
<1>4. Calm(t)
  BY <1>2, <1>3 DEF Calm
<1>5. /\ \A s \in Sessions : Calm(s)
      /\ \A s \in Sessions \ {t} : Keeps(s)
  BY <1>3, <1>4, SameIsCalm
<1>6. /\ Live' = Live /\ Owners' = Owners
      /\ \A s \in Sessions : server'[s] = "aborted" => server[s] = "aborted"
  BY <1>1, <1>2, <1>3 DEF Live, Same, Owners
<1>7. Listed' = Listed
  BY <1>1 DEF Listed
<1>8. OwnerOK'
  BY <1>1, <1>2, <1>6, <1>7 DEF OwnerOK
<1>9. PendingIsUndecided'
  <2>1. \A s \in sqlTransactions' \cup pending' : s \in Sessions \ {t}
    BY <1>1, <1>2 DEF OwnerOK, TypeOK
  <2> QED
    BY <1>1, <1>5, <2>1, PendingFrame
<1>10. \A d \in Owners : Keeps(call[d].tx)
  <2>1. \A d \in Owners : call[d].tx \in Sessions \ {t}
    BY <1>2 DEF OwnerOK, Live
  <2> QED
    BY <1>5, <2>1
<1>11. shutdown' # "drain" => pending' = {} /\ closing' = {}
  BY <1>1 DEF TxInv
<1> QED
  BY <1>1, <1>5, <1>6, <1>8, <1>9, <1>10, <1>11, QuietStep

LEMMA ClosePendingInv ==
    ASSUME TypeOK, TxInv, NEW t \in Sessions, ClosePending(t)
    PROVE  TxInv'
<1>1. /\ pc' = pc /\ call' = call /\ told' = told /\ shutdown' = shutdown
      /\ sqlTransactions' = sqlTransactions /\ pending' = pending
      /\ t \in closing /\ closing' = closing \ {t}
  BY DEF ClosePending, registryVars
<1>2. OwnerOK /\ t \in Live /\ t \in Listed
  BY <1>1, OwnerView DEF TxInv, OwnerOK, Listed
<1>3. /\ \A s \in Sessions \ {t} : Same(s)
      /\ execer'[t] = "closed"
      /\ server'[t] = "aborted" => server[t] = "aborted"
      /\ fate[t] # "open" => fate'[t] = fate[t]
  BY CloseView DEF ClosePending
<1>4. Calm(t)
  BY <1>2, <1>3 DEF Calm, Live
<1>5. /\ \A s \in Sessions : Calm(s)
      /\ \A s \in Sessions \ {t} : Keeps(s)
  BY <1>3, <1>4, SameIsCalm
<1>7. /\ Live' = Live \ {t} /\ Listed' = Listed \ {t} /\ Owners' = Owners
      /\ \A s \in Sessions : server'[s] = "aborted" => server[s] = "aborted"
  BY <1>1, <1>2, <1>3 DEF Live, Same, Owners, Listed, OwnerOK
<1>8. OwnerOK'
  BY <1>1, <1>2, <1>7 DEF OwnerOK
<1>9. PendingIsUndecided'
  <2>1. \A s \in sqlTransactions \cup pending : s \in Sessions \ {t}
    BY <1>1, <1>2 DEF OwnerOK, TypeOK
  <2> QED
    BY <1>1, <1>5, <2>1, PendingFrame
<1>10. \A d \in Owners : Keeps(call[d].tx)
  <2>1. \A d \in Owners : call[d].tx \in Sessions \ {t}
    BY <1>2 DEF OwnerOK, Live
  <2> QED
    BY <1>5, <2>1
<1>11. shutdown' # "drain" => pending' = {} /\ closing' = {}
  BY <1>1 DEF TxInv
<1> QED
  BY <1>1, <1>5, <1>7, <1>8, <1>9, <1>10, <1>11, QuietStep

LEMMA LoseConnectionInv ==
    ASSUME TypeOK, TxInv, NEW t \in Sessions, LoseConnection(t)
    PROVE  TxInv'
<1>1. /\ pc' = pc /\ call' = call /\ told' = told /\ shutdown' = shutdown
      /\ UNCHANGED <<sqlTransactions, pending, closing, execer>>
      /\ execer[t] \in {"open", "done"} /\ server[t] # "lost"
  BY DEF LoseConnection, registryVars, shutdownVars
<1>2. OwnerOK
  BY OwnerView DEF TxInv
<1>3. /\ server'[t] = "lost"
      /\ fate'[t] = IF fate[t] = "open" THEN "rolledback" ELSE fate[t]
      /\ \A s \in Sessions \ {t} : Same(s)
  BY DEF LoseConnection, TypeOK, Ended, Same
<1>4. Calm(t) /\ Keeps(t)
  BY <1>1, <1>3 DEF Calm, Keeps, Undecided, Filling
<1>5. \A s \in Sessions : Calm(s) /\ Keeps(s)
  BY <1>3, <1>4, SameIsCalm
<1>6. /\ Live' = Live /\ Owners' = Owners
      /\ \A d \in Owners : call'[d].tx = call[d].tx
      /\ \A s \in Sessions : server'[s] = "aborted" => server[s] = "aborted"
  BY <1>1, <1>3 DEF Live, Same, Owners
<1>7. OwnerOK'
  BY <1>1, <1>2, <1>6, OwnerFrame
<1>8. PendingIsUndecided'
  BY <1>1, <1>5, PendingFrame DEF TypeOK
<1>9. \A d \in Owners : Keeps(call[d].tx)
  BY <1>2, <1>5 DEF OwnerOK, Live
<1>10. shutdown' # "drain" => pending' = {} /\ closing' = {}
  BY <1>1 DEF TxInv
<1> QED
  BY <1>1, <1>5, <1>6, <1>7, <1>8, <1>9, <1>10, QuietStep
----------------------------------------------------------------------------
LEMMA TxInit == Init => TxInv
<1> SUFFICES ASSUME Init PROVE TxInv
  OBVIOUS
<1>1. Live = {} /\ Listed = {} /\ Owners = {}
  BY DEF Init, Live, Listed, Owners, NoCall, Ends
<1>2. OneOwner
  BY <1>1, OwnerView DEF OwnerOK, Listed
<1>3. PendingIsUndecided /\ RollbackReplyIsTrue /\ CommitReplyIsTrue
  BY DEF Init, PendingIsUndecided, RollbackReplyIsTrue, CommitReplyIsTrue
<1>4. \A c \in Callers : CallOK(c)
  BY DEF Init, CallOK, InPlace, NoCall, Ends
<1> QED
  BY <1>2, <1>3, <1>4 DEF Init, TxInv

LEMMA TxStep ==
    ASSUME TypeOK, TxInv, [Next]_vars
    PROVE  TxInv'
<1>1. ASSUME NEW c \in Callers, Request(c) PROVE TxInv'
  BY <1>1, BeginStartInv, LookupTransactionInv, BeginFinishInv, CancelInv
     DEF Request
<1>2. ASSUME NEW c \in Callers, Progress(c) PROVE TxInv'
  BY <1>2, OpenSessionInv, OpenFailsInv, BeginSQLInv, CheckActiveInv,
     StatementOkInv, StatementFailsInv, UndoStartInv, RegisterInv,
     RegisterQueryInv, ReplyInv, ControlSessionInv, CloseSessionInv,
     ForceStopInv
     DEF Progress
<1>3. CASE ShutdownStep
  BY <1>3, BeginShutdownInv, EndShutdownInv, RollbackPendingInv,
     ClosePendingInv
     DEF ShutdownStep
<1>4. ASSUME NEW t \in Sessions, LoseConnection(t) PROVE TxInv'
  BY <1>4, LoseConnectionInv
<1>5. CASE UNCHANGED vars
  <2>1. /\ UNCHANGED sessionVars
        /\ pc' = pc /\ call' = call /\ told' = told /\ shutdown' = shutdown
        /\ UNCHANGED <<sqlTransactions, pending, closing>>
    BY <1>5 DEF vars, registryVars, shutdownVars
  <2>2. OwnerOK
    BY OwnerView DEF TxInv
  <2>3. /\ Live' = Live /\ server' = server
        /\ \A s \in Sessions : Calm(s) /\ Keeps(s)
    BY <2>1, Untouched
  <2>4. Owners' = Owners /\ \A d \in Owners : call'[d].tx = call[d].tx
    BY <2>1 DEF Owners
  <2>5. OwnerOK'
    BY <2>1, <2>2, <2>3, <2>4, OwnerFrame
  <2>6. PendingIsUndecided'
    BY <2>1, <2>3, PendingFrame DEF TypeOK
  <2>7. \A d \in Owners : Keeps(call[d].tx)
    BY <2>2, <2>3 DEF OwnerOK, Live
  <2>8. shutdown' # "drain" => pending' = {} /\ closing' = {}
    BY <2>1 DEF TxInv
  <2> QED
    BY <2>1, <2>3, <2>5, <2>6, <2>7, <2>8, QuietStep
<1> QED
  BY <1>1, <1>2, <1>3, <1>4, <1>5 DEF Next

----------------------------------------------------------------------------
(* CloseInv is kept: a session is settled before it is closed.             *)

\* What CloseInv says of one caller.
RestOK(c) ==
    /\ call[c].op \notin {"none", "start"} => fate[call[c].tx] # "none"
    /\ pc[c] = "close" => AtRest(call[c].tx)
    /\ pc[c] = "begin" => server[call[c].tx] \in {"none", "lost"}

\* A step that begins nothing on a session.
Rests(t) ==
    /\ fate[t] # "none" => fate'[t] # "none"
    /\ fate[t] = "rolledback" => fate'[t] = "rolledback"
    /\ AtRest(t) => AtRest(t)'
    /\ t \in unsettled => t \in unsettled'
    /\ server'[t] = "none" => server[t] = "none" /\ fate'[t] = fate[t]
    /\ server[t] \in {"none", "lost"} => server'[t] \in {"none", "lost"}

\* A drained session is undone, or the server has kept its transaction.
Undone(t) == fate[t] = "rolledback" \/ t \in unsettled

LEMMA SameRests ==
    ASSUME NEW t, Same(t)
    PROVE  Rests(t)
BY DEF Same, Rests, AtRest, InTransaction

\* What COMMIT or ROLLBACK does to a session, refused or not.
LEMMA SettleView ==
    ASSUME TypeOK, NEW t \in Sessions, NEW how, NEW taken \in BOOLEAN,
           Settle(t, how, taken)
    PROVE  /\ Reachable(t) /\ taken =>
                 /\ server'[t] = IF InTransaction(t) THEN "over" ELSE server[t]
                 /\ fate'[t] = Ended(t, how)
           /\ ~ (Reachable(t) /\ taken) =>
                 server'[t] = server[t] /\ fate'[t] = fate[t]
           /\ Reachable(t) /\ ~ taken /\ InTransaction(t) => t \in unsettled'
           /\ t \in unsettled => t \in unsettled'
BY DEF TypeOK, Settle

LEMMA SettleRests ==
    ASSUME TypeOK, CloseInv, NEW t \in Sessions, NEW how, NEW taken \in BOOLEAN,
           Settle(t, how, taken)
    PROVE  Rests(t)
<1>1. server[t] = "none" => fate[t] = "none"
  BY DEF CloseInv
<1> QED
  BY <1>1, SettleView DEF Rests, AtRest, Reachable, Ended, InTransaction

\* The transaction is decided, or the server has kept it open.
SettledAs(t, ends) == fate'[t] \in ends \/ (fate'[t] = "open" /\ t \in unsettled')

LEMMA ControlRests ==
    ASSUME TypeOK, CloseInv, NEW t \in Sessions, NEW how, NEW taken \in BOOLEAN,
           Control(t, how, taken)
    PROVE  /\ \A s \in Sessions : Rests(s)
           /\ execer'[t] # execer[t] => execer'[t] = "done"
           /\ Undecided(t) =>
                 AtRest(t)' /\ SettledAs(t, {"committed", "rolledback"})
           /\ Undecided(t) /\ how # "commit" => SettledAs(t, {"rolledback"})
           /\ Filling(t) /\ how # "commit" =>
                 AtRest(t)' /\ SettledAs(t, {"none", "rolledback"})
<1>1. \A s \in Sessions \ {t} : Same(s)
  BY ControlView
<1>2. Settle(t, how, taken)
  BY DEF Control
<1>3. Rests(t)
  BY <1>2, SettleRests
<1>4. execer'[t] # execer[t] => execer'[t] = "done"
  BY DEF TypeOK, Control
<1>5. ASSUME Undecided(t)
      PROVE  /\ AtRest(t)' /\ SettledAs(t, {"committed", "rolledback"})
             /\ how # "commit" => SettledAs(t, {"rolledback"})
  BY <1>2, <1>5, SettleView
     DEF Undecided, AtRest, Reachable, Ended, InTransaction, SettledAs
<1>6. ASSUME Filling(t), how # "commit"
      PROVE  AtRest(t)' /\ SettledAs(t, {"none", "rolledback"})
  BY <1>2, <1>6, SettleView
     DEF Filling, AtRest, Reachable, Ended, InTransaction, SettledAs
<1> QED
  BY <1>1, <1>3, <1>4, <1>5, <1>6, SameRests

LEMMA CloseRests ==
    ASSUME TypeOK, CloseInv, NEW t \in Sessions, Close(t)
    PROVE  /\ \A s \in Sessions : Rests(s)
           /\ \A s \in Sessions \ {t} : Same(s)
           /\ execer'[t] = "closed"
           /\ \/ fate'[t] = fate[t]
              \/ fate[t] = "open" /\ fate'[t] = "rolledback"
<1>1. \A s \in Sessions \ {t} : Same(s)
  BY CloseView
<1>2. execer'[t] = "closed"
  BY CloseView
<1>3. CASE Kind[t] = "conn"
  <2>1. PICK taken \in BOOLEAN : Settle(t, "rollback", taken)
    BY <1>3 DEF Close
  <2>2. Rests(t)
    BY <2>1, SettleRests
  <2>3. fate'[t] = fate[t] \/ (fate[t] = "open" /\ fate'[t] = "rolledback")
    BY <2>1, SettleView DEF Ended
  <2> QED
    BY <1>1, <1>2, <2>2, <2>3, SameRests
<1>4. CASE Kind[t] # "conn"
  <2>1. UNCHANGED <<server, fate, unsettled>>
    BY <1>4 DEF Close
  <2>2. Rests(t)
    BY <2>1 DEF Rests, AtRest, InTransaction
  <2> QED
    BY <1>1, <1>2, <2>1, <2>2, SameRests
<1> QED
  BY <1>3, <1>4

\* A start fills its session; every other step of a caller lets all rest.
LEMMA RestStep ==
    ASSUME TypeOK, TxInv, CloseInv, NEW c \in Callers, OnlyMoves(c),
           closing' = closing,
           \A s \in Sessions :
               \/ Rests(s)
               \/ /\ call[c].op = "start" /\ pc[c] # "open" /\ pc[c] # "idle"
                  /\ s = call[c].tx
                  /\ execer'[s] # "closed" /\ server'[s] # "none",
           \A s \in Sessions :
               execer'[s] = "closed" => execer[s] = "closed" \/ AtRest(s)',
           RestOK(c)'
    PROVE  CloseInv'
<1> DEFINE Fills(s) == /\ call[c].op = "start" /\ pc[c] # "open"
                       /\ s = call[c].tx
                       /\ execer'[s] # "closed" /\ server'[s] # "none"
<1>1. OwnerOK /\ closing \subseteq Sessions
  BY OwnerView DEF TxInv, TypeOK
<1>2. \A s \in Sessions : server'[s] = "none" => fate'[s] = "none"
  BY DEF Rests, CloseInv
<1>3. \A s \in Sessions : execer'[s] = "closed" => AtRest(s)'
  BY DEF Rests, CloseInv
<1>4. \A s \in closing : Rests(s)
  <2>1. call[c].op = "start" /\ pc[c] # "open" => call[c].tx \notin closing
    BY <1>1 DEF OwnerOK, Owners, Listed
  <2> QED
    BY <1>1, <2>1
<1>5. \A s \in closing' : Undone(s)' /\ AtRest(s)'
  BY <1>4 DEF Rests, CloseInv, Undone
<1>6. ASSUME NEW d \in Callers \ {c} PROVE RestOK(d)'
  <2>1. pc'[d] = pc[d] /\ call'[d] = call[d] /\ RestOK(d)
    BY DEF OnlyMoves, CloseInv, RestOK
  <2>2. CASE pc[d] = "idle"
    BY <2>1, <2>2, IdleView DEF RestOK
  <2>3. CASE pc[d] # "idle"
    <3>1. call[d].tx \in Sessions
      BY <2>3, CallHasSession
    <3>2. call[c].op = "start" => call[d].tx # call[c].tx
      BY DEF TxInv, CallOK
    <3>3. Rests(call[d].tx)
      BY <3>1, <3>2
    <3> QED
      BY <2>1, <3>3 DEF RestOK, Rests
  <2> QED
    BY <2>2, <2>3
<1> QED
  BY <1>2, <1>3, <1>5, <1>6 DEF CloseInv, RestOK, Undone

\* A step of one caller that touches no session.
LEMMA RestStill ==
    ASSUME TypeOK, TxInv, CloseInv, NEW c \in Callers, OnlyMoves(c),
           UNCHANGED sessionVars, closing' = closing, RestOK(c)'
    PROVE  CloseInv'
<1>1. \A s \in Sessions : Rests(s)
  BY SameRests DEF Same, sessionVars
<1>2. \A s \in Sessions : execer'[s] = "closed" => execer[s] = "closed"
  BY DEF sessionVars
<1> QED
  BY <1>1, <1>2, RestStep

\* A step of Shutdown or of the environment.
LEMMA RestQuiet ==
    ASSUME TypeOK, TxInv, CloseInv, pc' = pc, call' = call,
           \A s \in Sessions : Rests(s),
           \A s \in Sessions :
               execer'[s] = "closed" => execer[s] = "closed" \/ AtRest(s)',
           \A s \in closing' : Undone(s)' /\ AtRest(s)'
    PROVE  CloseInv'
<1>1. \A s \in Sessions : server'[s] = "none" => fate'[s] = "none"
  BY DEF Rests, CloseInv
<1>2. \A s \in Sessions : execer'[s] = "closed" => AtRest(s)'
  BY DEF Rests, CloseInv
<1>3. ASSUME NEW d \in Callers PROVE RestOK(d)'
  <2>1. RestOK(d)
    BY DEF CloseInv, RestOK
  <2>2. CASE pc[d] = "idle"
    BY <2>1, <2>2, IdleView DEF RestOK
  <2>3. CASE pc[d] # "idle"
    <3>1. Rests(call[d].tx)
      BY <2>3, CallHasSession
    <3> QED
      BY <2>1, <3>1 DEF RestOK, Rests
  <2> QED
    BY <2>2, <2>3
<1> QED
  BY <1>1, <1>2, <1>3 DEF CloseInv, RestOK, Undone
----------------------------------------------------------------------------
(* What each action of a caller does to its session, its hold on it and    *)
(* the lists: enough for CloseInv and for the step of ManagedTransaction.  *)

ListsKept ==
    /\ sqlTransactions' = sqlTransactions
    /\ pending' = pending
    /\ closing' = closing

\* The caller goes on to hold what it holds, for the same request.
HoldKept(c) ==
    /\ Owns(c)' <=> Owns(c)
    /\ Owns(c) => call'[c].tx = call[c].tx /\ call'[c].op = call[c].op

LEMMA StillView ==
    ASSUME TypeOK, TxInv, CloseInv, NEW c \in Callers,
           \/ \E t \in Sessions, n \in 1..MaxStatements :
                 BeginStart(c, t, n) \/ LookupTransaction(c, t, n)
           \/ OpenFails(c) \/ CheckActive(c) \/ RegisterQuery(c) \/ Reply(c)
           \/ \E d \in Callers : Cancel(c, d)
    PROVE  /\ OnlyMoves(c) /\ UNCHANGED sessionVars /\ ListsKept
           /\ HoldKept(c) /\ RestOK(c)'
<1> USE DEF registryVars, shutdownVars
<1>1. ASSUME NEW t \in Sessions, NEW n \in 1..MaxStatements,
             BeginStart(c, t, n)
      PROVE  /\ OnlyMoves(c) /\ UNCHANGED sessionVars /\ ListsKept
             /\ HoldKept(c) /\ RestOK(c)'
  <2>1. /\ pc[c] = "idle" /\ pc'[c] = "open" /\ OnlyMoves(c)
        /\ call'[c].op = "start"
    BY <1>1 DEF BeginStart, Enter, Goto, TypeOK, OnlyMoves
  <2>2. ~ Owns(c) /\ ~ Owns(c)'
    BY <2>1, IdleView DEF Owns, Ends
  <2> QED
    BY <1>1, <2>1, <2>2 DEF BeginStart, ListsKept, HoldKept, RestOK
<1>2. ASSUME NEW t \in Sessions, NEW n \in 1..MaxStatements,
             LookupTransaction(c, t, n)
      PROVE  /\ OnlyMoves(c) /\ UNCHANGED sessionVars /\ ListsKept
             /\ HoldKept(c) /\ RestOK(c)'
  <2>1. /\ pc[c] = "idle" /\ pc'[c] = "lookup" /\ OnlyMoves(c)
        /\ call'[c].op = "query" /\ call'[c].tx = t
    BY <1>2 DEF LookupTransaction, Enter, Goto, TypeOK, OnlyMoves
  <2>2. ~ Owns(c) /\ ~ Owns(c)'
    BY <2>1, IdleView DEF Owns, Ends
  <2>3. fate'[t] # "none" /\ UNCHANGED sessionVars
    BY <1>2 DEF LookupTransaction, TxInv, PendingIsUndecided, Undecided,
                sessionVars
  <2> QED
    BY <1>2, <2>1, <2>2, <2>3 DEF LookupTransaction, ListsKept, HoldKept, RestOK
<1>3. ASSUME OpenFails(c) \/ Reply(c)
      PROVE  /\ OnlyMoves(c) /\ UNCHANGED sessionVars /\ ListsKept
             /\ HoldKept(c) /\ RestOK(c)'
  <2>1. /\ pc[c] \in {"open", "reply"} /\ pc'[c] = "idle" /\ OnlyMoves(c)
        /\ call'[c].op = "none"
    BY <1>3, ReturnView DEF OpenFails, Reply, OnlyMoves
  <2>2. ~ Owns(c) /\ ~ Owns(c)'
    BY <2>1, UnderWay DEF InPlace, Owns, Ends
  <2> QED
    BY <1>3, <2>1, <2>2 DEF OpenFails, Reply, ListsKept, HoldKept, RestOK
<1>4. ASSUME CheckActive(c) \/ RegisterQuery(c)
      PROVE  /\ OnlyMoves(c) /\ UNCHANGED sessionVars /\ ListsKept
             /\ HoldKept(c) /\ RestOK(c)'
  <2>1. /\ pc[c] \in {"check", "lookup"} /\ OnlyMoves(c) /\ call' = call
        /\ pc'[c] \in {"run", "undo", "reply", "check"}
    BY <1>4 DEF CheckActive, RegisterQuery, Goto, Statement, TypeOK, OnlyMoves
  <2>2. call[c].op \in {"start", "query"}
    BY <2>1, UnderWay DEF InPlace
  <2>3. Owns(c)' <=> Owns(c)
    BY <2>1, <2>2 DEF Owns, Ends
  <2>4. UNCHANGED sessionVars
    BY <1>4 DEF CheckActive, RegisterQuery
  <2>5. RestOK(c)'
    BY <2>1, <2>4 DEF CloseInv, RestOK, sessionVars
  <2> QED
    BY <1>4, <2>1, <2>3, <2>4, <2>5
       DEF CheckActive, RegisterQuery, ListsKept, HoldKept
<1>5. ASSUME NEW d \in Callers, Cancel(c, d)
      PROVE  /\ OnlyMoves(c) /\ UNCHANGED sessionVars /\ ListsKept
             /\ HoldKept(c) /\ RestOK(c)'
  <2>1. pc[c] = "idle" /\ ~ Owns(c)
    BY <1>5, IdleView DEF Cancel, Enter
  <2>2. UNCHANGED sessionVars /\ ListsKept
    BY <1>5 DEF Cancel, ListsKept
  <2>3. CASE call[d].op = "query"
    <3>1. /\ pc'[c] = "drop" /\ OnlyMoves(c)
          /\ call'[c].op = "cancel" /\ call'[c].tx = call[d].tx
      BY <1>5, <2>3 DEF Cancel, Enter, Goto, TypeOK, OnlyMoves
    <3>2. ~ Owns(c)'
      BY <3>1 DEF Owns, Ends
    <3>3. fate'[call[d].tx] # "none"
      BY <2>2, <2>3 DEF CloseInv, sessionVars
    <3> QED
      BY <2>1, <2>2, <3>1, <3>2, <3>3 DEF HoldKept, RestOK
  <2>4. CASE call[d].op # "query"
    <3>1. pc' = pc /\ call' = call
      BY <1>5, <2>4 DEF Cancel
    <3> QED
      BY <2>1, <2>2, <3>1, IdleView DEF HoldKept, RestOK, Owns, OnlyMoves
  <2> QED
    BY <2>3, <2>4
<1> QED
  BY <1>1, <1>2, <1>3, <1>4, <1>5

LEMMA OpenSessionView ==
    ASSUME TypeOK, TxInv, CloseInv, NEW c \in Callers, OpenSession(c)
    PROVE  /\ OnlyMoves(c) /\ ListsKept /\ RestOK(c)'
           /\ call'[c] = call[c] /\ call[c].op = "start"
           /\ call[c].tx \in Sessions /\ ~ Owns(c) /\ Owns(c)'
           /\ execer[call[c].tx] = "unused" /\ fate'[call[c].tx] = "none"
           /\ execer'[call[c].tx] = "open"
           /\ \A s \in Sessions : Rests(s)
           /\ \A s \in Sessions \ {call[c].tx} : Same(s)
<1> DEFINE t == call[c].tx
<1>1. /\ pc[c] = "open" /\ pc'[c] \in {"begin", "check", "run"} /\ OnlyMoves(c)
      /\ call' = call
  <2>1. pc[c] = "open" /\ call' = call /\ pc \in [Callers -> Places]
    BY DEF OpenSession, TypeOK
  <2>2. PICK p \in {"begin", "check", "run"} : pc' = [pc EXCEPT ![c] = p]
    BY DEF OpenSession, Goto, Statement
  <2> QED
    BY <2>1, <2>2 DEF OnlyMoves
<1>2. /\ t \in Sessions /\ call[c].op = "start" /\ execer[t] = "unused"
      /\ server[t] = "none" /\ fate[t] = "none"
  BY <1>1, UnderWay DEF CallOK, InPlace
<1>3. /\ execer'[t] = "open" /\ server' = server /\ fate' = fate
      /\ unsettled' = unsettled
      /\ \A s \in Sessions \ {t} : Same(s)
  BY <1>2 DEF OpenSession, TypeOK, Same
<1>4. ListsKept
  BY DEF OpenSession, registryVars, shutdownVars, ListsKept
<1>5. ~ Owns(c) /\ Owns(c)'
  BY <1>1, <1>2 DEF Owns, Ends
<1>6. \A s \in Sessions : Rests(s)
  BY <1>3 DEF Rests, AtRest, InTransaction
<1>7. RestOK(c)'
  BY <1>1, <1>2, <1>3 DEF RestOK
<1> QED
  BY <1>1, <1>2, <1>3, <1>4, <1>5, <1>6, <1>7

LEMMA BeginSQLView ==
    ASSUME TypeOK, TxInv, CloseInv, NEW c \in Callers, BeginSQL(c)
    PROVE  /\ OnlyMoves(c) /\ ListsKept /\ RestOK(c)' /\ HoldKept(c)
           /\ pc[c] = "begin" /\ call[c].op = "start" /\ Owns(c)
           /\ call[c].tx \in Sessions /\ UNCHANGED execer
           /\ \A s \in Sessions \ {call[c].tx} : Same(s)
           /\ \/ \A s \in Sessions : Same(s)
              \/ /\ server'[call[c].tx] = "active"
                 /\ fate[call[c].tx] \in {"none", "open"}
                 /\ fate'[call[c].tx] = "open"
           /\ execer[call[c].tx] = "open"
<1> DEFINE t == call[c].tx
<1>1. /\ pc[c] = "begin" /\ pc'[c] \in {"check", "run", "close"} /\ OnlyMoves(c)
      /\ call' = call
  BY DEF BeginSQL, Goto, Statement, TypeOK, OnlyMoves
<1>2. t \in Sessions /\ call[c].op = "start" /\ Filling(t)
  BY <1>1, UnderWay DEF CallOK, InPlace
<1>3. ListsKept /\ UNCHANGED execer
  BY DEF BeginSQL, registryVars, shutdownVars, ListsKept
<1>4. \A s \in Sessions \ {t} : Same(s)
  BY DEF BeginSQL, TypeOK, Same
<1>5. \/ /\ server'[t] = "active" /\ fate'[t] = "open"
         /\ pc'[c] \in {"check", "run"} \/ t \in unsettled'
         /\ fate[t] \in {"none", "open"}
      \/ server'[t] = server[t] /\ fate'[t] = fate[t] /\ unsettled' = unsettled
  BY <1>1, <1>2 DEF BeginSQL, TypeOK, Filling, Reachable, Goto, Statement
<1>6. Owns(c) /\ Owns(c)'
  BY <1>1, <1>2 DEF Owns
<1>7. server[t] \in {"none", "lost"}
  BY <1>1 DEF CloseInv
<1>8. RestOK(c)'
  <2>1. pc'[c] = "close" => AtRest(t)'
    BY <1>1, <1>2, <1>5, <1>7 DEF AtRest, Filling, InTransaction
  <2> QED
    BY <1>1, <1>2, <2>1 DEF RestOK
<1>9. execer[t] = "open"
  BY <1>2 DEF Filling
<1> QED
  BY <1>1, <1>2, <1>3, <1>4, <1>5, <1>6, <1>8, <1>9 DEF HoldKept, Same

LEMMA StatementOkView ==
    ASSUME TypeOK, TxInv, CloseInv, NEW c \in Callers, StatementOk(c)
    PROVE  /\ OnlyMoves(c) /\ ListsKept /\ RestOK(c)' /\ HoldKept(c)
           /\ pc[c] = "run" /\ call[c].tx \in Sessions /\ UNCHANGED execer
           /\ \A s \in Sessions \ {call[c].tx} : Same(s)
           /\ \/ /\ \A s \in Sessions : Rests(s)
                 /\ fate'[call[c].tx] = fate[call[c].tx]
              \/ /\ call[c].op = "start" /\ Owns(c)
                 /\ execer[call[c].tx] = "open"
                 /\ server'[call[c].tx] = "active"
                 /\ fate[call[c].tx] \in {"none", "open"}
                 /\ fate'[call[c].tx] = "open"
<1> DEFINE t == call[c].tx
<1>1. pc[c] = "run" /\ pc \in [Callers -> Places] /\ call \in [Callers -> Call]
  BY DEF StatementOk, TypeOK
<1>2. /\ t \in Sessions /\ call[c].op \in {"start", "query"} /\ CallOK(c)
      /\ call[c].left \in Nat /\ call[c].left > 0 /\ call[c] \in Call
  BY <1>1, UnderWay, CallFieldTypes DEF InPlace, CallOK
<1>3. /\ OnlyMoves(c) /\ call'[c].op = call[c].op /\ call'[c].tx = t
      /\ pc'[c] \in {"check", "run", "register", "reply"}
  <2>1. call' = [call EXCEPT ![c] = [call[c] EXCEPT !.left = @ - 1]]
    BY <1>1 DEF StatementOk
  <2>2. pc' = [pc EXCEPT ![c] = pc'[c]] /\ pc'[c] \in {"check", "run", "register", "reply"}
    BY <1>1 DEF StatementOk, Goto, Statement
  <2> QED
    BY <1>1, <1>2, <2>1, <2>2, LeftUpdate DEF OnlyMoves
<1>4. ListsKept /\ UNCHANGED execer /\ execer[t] # "closed"
  BY DEF StatementOk, registryVars, shutdownVars, ListsKept
<1>5. /\ server[t] \in {"none", "active", "over"}
      /\ server'[t] = IF server[t] = "over" /\ Kind[t] = "text"
                      THEN "over" ELSE "active"
      /\ fate'[t] = IF fate[t] = "none" THEN "open" ELSE fate[t]
      /\ unsettled' = unsettled
      /\ \A s \in Sessions \ {t} : Same(s)
  BY <1>2, <1>4 DEF StatementOk, TypeOK, Same
<1>6. CASE call[c].op = "start"
  <2>1. Filling(t) /\ Owns(c) /\ Owns(c)'
    BY <1>1, <1>2, <1>3, <1>6 DEF CallOK, Owns
  <2>2. RestOK(c)'
    BY <1>3, <1>6 DEF RestOK
  <2>3. /\ execer[t] = "open" /\ server'[t] = "active"
        /\ fate[t] \in {"none", "open"} /\ fate'[t] = "open"
    BY <1>5, <2>1 DEF Filling
  <2> QED
    BY <1>1, <1>2, <1>3, <1>4, <1>5, <1>6, <2>1, <2>2, <2>3 DEF HoldKept
<1>7. CASE call[c].op = "query"
  <2>1. fate[t] # "none" /\ server[t] # "none"
    BY <1>2, <1>7 DEF CloseInv
  <2>2. Rests(t) /\ fate'[t] = fate[t]
    BY <1>3, <1>5, <2>1 DEF Rests, AtRest, InTransaction
  <2>3. ~ Owns(c) /\ ~ Owns(c)'
    BY <1>3, <1>7 DEF Owns, Ends
  <2>4. RestOK(c)'
    BY <1>3, <1>7, <2>1, <2>2 DEF RestOK
  <2>5. \A s \in Sessions : Rests(s)
    BY <1>3, <1>5, <2>2, SameRests DEF Rests
  <2> QED
    BY <1>1, <1>2, <1>3, <1>4, <1>5, <2>2, <2>3, <2>4, <2>5 DEF HoldKept
<1> QED
  BY <1>2, <1>6, <1>7

LEMMA StatementFailsView ==
    ASSUME TypeOK, TxInv, CloseInv, NEW c \in Callers, StatementFails(c)
    PROVE  /\ OnlyMoves(c) /\ ListsKept /\ RestOK(c)' /\ HoldKept(c)
           /\ UNCHANGED <<execer, fate>>
           /\ \A s \in Sessions : Rests(s)
<1> DEFINE t == call[c].tx
<1>1. /\ pc[c] = "run" /\ OnlyMoves(c) /\ call' = call
      /\ \/ pc'[c] = "undo" /\ call[c].op = "start"
         \/ pc'[c] = "reply" /\ call[c].op # "start"
  BY DEF StatementFails, Goto, TypeOK, OnlyMoves
<1>2. t \in Sessions /\ call[c].op \in {"start", "query"} /\ CallOK(c)
  BY <1>1, UnderWay DEF InPlace
<1>3. UNCHANGED <<execer, fate>> /\ ListsKept
  BY DEF StatementFails, registryVars, shutdownVars, ListsKept
<1>4. /\ \/ server'[t] = server[t]
         \/ server[t] = "active" /\ server'[t] = "aborted"
      /\ unsettled' = unsettled
      /\ \A s \in Sessions \ {t} : Same(s)
  BY <1>2, <1>3 DEF StatementFails, TypeOK, Same
<1>5. HoldKept(c)
  BY <1>1, <1>2 DEF HoldKept, Owns, Ends
<1>6. Rests(t)
  BY <1>1, <1>3, <1>4 DEF Rests, AtRest, InTransaction
<1>7. RestOK(c)'
  BY <1>1, <1>2, <1>3 DEF RestOK, CloseInv
<1>8. \A s \in Sessions : Rests(s)
  BY <1>1, <1>4, <1>6, SameRests DEF Rests
<1> QED
  BY <1>1, <1>3, <1>5, <1>7, <1>8

LEMMA UndoStartView ==
    ASSUME TypeOK, TxInv, CloseInv, NEW c \in Callers, UndoStart(c)
    PROVE  /\ OnlyMoves(c) /\ ListsKept /\ RestOK(c)' /\ HoldKept(c)
           /\ call[c].op = "start" /\ Owns(c) /\ call[c].tx \in Sessions
           /\ \A s \in Sessions : Rests(s)
           /\ \A s \in Sessions \ {call[c].tx} : Same(s)
           /\ execer[call[c].tx] = "open"
           /\ execer'[call[c].tx] \in {"open", "done"}
           /\ SettledAs(call[c].tx, {"none", "rolledback"})
           /\ fate'[call[c].tx] # fate[call[c].tx] =>
                 fate[call[c].tx] = "open" /\ fate'[call[c].tx] = "rolledback"
<1> DEFINE t == call[c].tx
<1>1. pc[c] = "undo" /\ pc'[c] = "close" /\ OnlyMoves(c) /\ call' = call
  BY DEF UndoStart, Goto, TypeOK, OnlyMoves
<1>2. t \in Sessions /\ call[c].op = "start" /\ Filling(t)
  BY <1>1, UnderWay DEF InPlace, CallOK
<1>3. ListsKept
  BY DEF UndoStart, registryVars, shutdownVars, ListsKept
<1>4. Owns(c) /\ Owns(c)'
  BY <1>1, <1>2 DEF Owns
<1>5. PICK u \in Sessions : u = t
  BY <1>2
<1>6. Filling(u) /\ \E taken \in BOOLEAN : Control(u, "rollback", taken)
  BY <1>2, <1>5 DEF UndoStart
<1>7. /\ \A s \in Sessions : Rests(s)
      /\ execer'[u] # execer[u] => execer'[u] = "done"
      /\ AtRest(u)' /\ SettledAs(u, {"none", "rolledback"})
  BY <1>6, ControlRests
<1>8. /\ \A s \in Sessions \ {u} : Same(s)
      /\ fate[u] # "open" => fate'[u] = fate[u]
  BY <1>6, ControlView
<1>9. fate'[u] # fate[u] => fate[u] = "open" /\ fate'[u] = "rolledback"
  BY <1>6, <1>7, <1>8 DEF SettledAs, Rests
<1>10. RestOK(c)'
  BY <1>1, <1>2, <1>5, <1>7 DEF RestOK
<1>11. execer[u] = "open"
  BY <1>6 DEF Filling
<1> QED
  BY <1>1, <1>2, <1>3, <1>4, <1>5, <1>7, <1>8, <1>9, <1>10, <1>11 DEF HoldKept

LEMMA RegisterView ==
    ASSUME TypeOK, TxInv, CloseInv, NEW c \in Callers, Register(c)
    PROVE  /\ OnlyMoves(c) /\ RestOK(c)' /\ UNCHANGED sessionVars
           /\ sqlTransactions' = sqlTransactions \cup {call[c].tx}
           /\ pending' = pending /\ closing' = closing
           /\ call[c].op = "start" /\ Owns(c) /\ ~ Owns(c)'
           /\ call[c].tx \in Sessions /\ Undecided(call[c].tx)
<1>1. /\ pc[c] = "register" /\ pc'[c] = "idle" /\ OnlyMoves(c)
      /\ call'[c].op = "none" /\ call'[c].tx = NoTx
  BY ReturnView DEF Register, OnlyMoves
<1>2. call[c].tx \in Sessions /\ call[c].op = "start" /\ Undecided(call[c].tx)
  BY <1>1, UnderWay DEF InPlace, CallOK
<1>3. RestOK(c)' /\ Owns(c) /\ ~ Owns(c)'
  BY <1>1, <1>2 DEF RestOK, Owns, Ends
<1> QED
  BY <1>1, <1>2, <1>3 DEF Register, shutdownVars

\* A caller deletes an entry of the registry and goes on to end it.
TakesOut(c, t) ==
    /\ OnlyMoves(c) /\ UNCHANGED sessionVars
    /\ t \in sqlTransactions /\ sqlTransactions' = sqlTransactions \ {t}
    /\ pending' = pending /\ closing' = closing
    /\ ~ Owns(c) /\ pc'[c] = "control"
    /\ call'[c].tx = t /\ call'[c].op \in Ends

LEMMA TakesOutView ==
    ASSUME TypeOK, TxInv, CloseInv, NEW c \in Callers, NEW t, TakesOut(c, t)
    PROVE  RestOK(c)' /\ Undecided(t) /\ t \in Sessions /\ Owns(c)'
<1>1. t \in Sessions /\ Undecided(t)
  BY DEF TypeOK, TakesOut, TxInv, PendingIsUndecided
<1>2. fate'[t] # "none"
  BY <1>1 DEF Undecided, TakesOut, sessionVars
<1> QED
  BY <1>1, <1>2 DEF RestOK, TakesOut, Owns

LEMMA BeginFinishView ==
    ASSUME TypeOK, TxInv, NEW c \in Callers, NEW t \in Sessions,
           NEW op \in {"commit", "rollback"}, BeginFinish(c, op, t)
    PROVE  TakesOut(c, t) /\ call'[c].op = op
<1>1. /\ pc[c] = "idle" /\ pc'[c] = "control" /\ OnlyMoves(c)
      /\ call'[c].op = op /\ call'[c].tx = t
  BY DEF BeginFinish, Enter, Goto, TypeOK, OnlyMoves
<1>2. ~ Owns(c)
  BY <1>1, IdleView
<1> QED
  BY <1>1, <1>2 DEF BeginFinish, shutdownVars, TakesOut, Ends

LEMMA ForceStopView ==
    ASSUME TypeOK, TxInv, CloseInv, NEW c \in Callers, ForceStop(c)
    PROVE  \/ TakesOut(c, call[c].tx) /\ call'[c].op = "cancel"
           \/ /\ OnlyMoves(c) /\ UNCHANGED sessionVars /\ ListsKept
              /\ HoldKept(c) /\ RestOK(c)'
<1>1. pc[c] = "drop" /\ ~ Owns(c)
  <2>1. pc[c] = "drop"
    BY DEF ForceStop
  <2> QED
    BY <2>1, UnderWay DEF InPlace, Owns, Ends
<1>2. call[c].op = "cancel"
  BY <1>1, UnderWay DEF InPlace
<1>3. CASE call[c].tx \in sqlTransactions
  <2>1. pc'[c] = "control" /\ OnlyMoves(c) /\ call' = call
    BY <1>3 DEF ForceStop, Goto, TypeOK, OnlyMoves
  <2> QED
    BY <1>1, <1>2, <1>3, <2>1 DEF ForceStop, shutdownVars, TakesOut, Ends
<1>4. CASE call[c].tx \notin sqlTransactions
  <2>1. /\ pc'[c] = "idle" /\ OnlyMoves(c)
        /\ call'[c].op = "none" /\ call'[c].tx = NoTx
    BY <1>4, ReturnView DEF ForceStop, OnlyMoves
  <2>2. ~ Owns(c)' /\ RestOK(c)'
    BY <2>1 DEF Owns, Ends, RestOK
  <2> QED
    BY <1>1, <1>4, <2>1, <2>2 DEF ForceStop, shutdownVars, ListsKept, HoldKept
<1> QED
  BY <1>3, <1>4

LEMMA ControlSessionView ==
    ASSUME TypeOK, TxInv, CloseInv, NEW c \in Callers, ControlSession(c)
    PROVE  /\ OnlyMoves(c) /\ ListsKept /\ RestOK(c)' /\ HoldKept(c)
           /\ call[c].op \in Ends /\ Owns(c) /\ call[c].tx \in Sessions
           /\ Undecided(call[c].tx)
           /\ \A s \in Sessions : Rests(s)
           /\ \A s \in Sessions \ {call[c].tx} : Same(s)
           /\ execer'[call[c].tx] \in {"open", "done"}
           /\ SettledAs(call[c].tx, {"committed", "rolledback"})
           /\ fate[call[c].tx] # "open" => fate'[call[c].tx] = fate[call[c].tx]
           /\ call[c].op # "commit" => SettledAs(call[c].tx, {"rolledback"})
<1> DEFINE t == call[c].tx
           how == IF call[c].op = "commit" THEN "commit" ELSE "rollback"
<1>1. pc[c] = "control" /\ call[c] \in Call
  BY CallFieldTypes DEF ControlSession
<1>2. t \in Sessions /\ call[c].op \in Ends /\ Undecided(t)
  BY <1>1, UnderWay DEF InPlace, CallOK, Ends
<1>3. /\ pc'[c] = "close" /\ OnlyMoves(c)
      /\ call'[c].op = call[c].op /\ call'[c].tx = t
  <2>1. pc' = [pc EXCEPT ![c] = "close"] /\ pc \in [Callers -> Places]
    BY DEF ControlSession, Goto, TypeOK
  <2>2. /\ call \in [Callers -> Call]
        /\ \E ok \in BOOLEAN : call' = [call EXCEPT ![c].ok = ok]
    BY DEF ControlSession, TypeOK
  <2>3. PICK ok \in BOOLEAN :
           call' = [call EXCEPT ![c] = [call[c] EXCEPT !.ok = ok]]
    BY <2>2
  <2> QED
    BY <1>1, <2>1, <2>2, <2>3, OkUpdate DEF OnlyMoves
<1>4. ListsKept
  BY DEF ControlSession, registryVars, shutdownVars, ListsKept
<1>5. Owns(c) /\ Owns(c)'
  BY <1>1, <1>2, <1>3 DEF Owns
<1>6. PICK u \in Sessions : u = t
  BY <1>2
<1>7. Undecided(u) /\ \E taken \in BOOLEAN : Control(u, how, taken)
  BY <1>2, <1>6 DEF ControlSession
<1>8. /\ \A s \in Sessions : Rests(s)
      /\ execer'[u] # execer[u] => execer'[u] = "done"
      /\ AtRest(u)' /\ SettledAs(u, {"committed", "rolledback"})
      /\ call[c].op # "commit" => SettledAs(u, {"rolledback"})
  BY <1>7, ControlRests
<1>9. /\ \A s \in Sessions \ {u} : Same(s)
      /\ fate[u] # "open" => fate'[u] = fate[u]
  BY <1>7, ControlView
<1>10. execer'[u] \in {"open", "done"}
  BY <1>7, <1>8 DEF Undecided
<1>11. RestOK(c)'
  BY <1>3, <1>6, <1>8 DEF RestOK, SettledAs
<1> QED
  BY <1>2, <1>3, <1>4, <1>5, <1>6, <1>8, <1>9, <1>10, <1>11 DEF HoldKept

LEMMA CloseSessionView ==
    ASSUME TypeOK, TxInv, CloseInv, NEW c \in Callers, CloseSession(c)
    PROVE  /\ OnlyMoves(c) /\ ListsKept /\ RestOK(c)'
           /\ call[c].op \in Ends \cup {"start"} /\ Owns(c) /\ ~ Owns(c)'
           /\ call[c].tx \in Sessions
           /\ \A s \in Sessions : Rests(s)
           /\ \A s \in Sessions \ {call[c].tx} : Same(s)
           /\ AtRest(call[c].tx) /\ execer'[call[c].tx] = "closed"
           /\ \/ fate'[call[c].tx] = fate[call[c].tx]
              \/ fate[call[c].tx] = "open" /\ fate'[call[c].tx] = "rolledback"
           /\ \A s \in Sessions :
                 execer'[s] = "closed" => execer[s] = "closed" \/ AtRest(s)'
<1> DEFINE t == call[c].tx
<1>1. /\ pc[c] = "close" /\ pc'[c] = "idle" /\ OnlyMoves(c)
      /\ call'[c].op = "none" /\ call'[c].tx = NoTx
  BY ReturnView DEF CloseSession, OnlyMoves
<1>2. t \in Sessions /\ call[c].op \in Ends \cup {"start"} /\ AtRest(t)
  BY <1>1, UnderWay DEF InPlace, Ends, CloseInv
<1>3. ListsKept
  BY DEF CloseSession, shutdownVars, ListsKept
<1>4. Owns(c) /\ ~ Owns(c)'
  BY <1>1, <1>2 DEF Owns, Ends
<1>5. PICK u \in Sessions : u = t
  BY <1>2
<1>6. Close(u) /\ AtRest(u)
  BY <1>2, <1>5 DEF CloseSession
<1>7. /\ \A s \in Sessions : Rests(s)
      /\ \A s \in Sessions \ {u} : Same(s)
      /\ execer'[u] = "closed"
      /\ fate'[u] = fate[u] \/ (fate[u] = "open" /\ fate'[u] = "rolledback")
  BY <1>6, CloseRests
<1>8. \A s \in Sessions :
         execer'[s] = "closed" => execer[s] = "closed" \/ AtRest(s)'
  BY <1>6, <1>7 DEF Rests, Same
<1>9. RestOK(c)'
  BY <1>1 DEF RestOK
<1> QED
  BY <1>1, <1>2, <1>3, <1>4, <1>5, <1>7, <1>8, <1>9

LEMMA RollbackPendingView ==
    ASSUME TypeOK, TxInv, CloseInv, NEW t \in Sessions, RollbackPending(t)
    PROVE  /\ pc' = pc /\ call' = call /\ sqlTransactions' = sqlTransactions
           /\ t \in pending /\ pending' = pending \ {t}
           /\ closing = {} /\ closing' = {t}
           /\ Undecided(t)
           /\ \A s \in Sessions : Rests(s)
           /\ \A s \in Sessions \ {t} : Same(s)
           /\ execer'[t] \in {"open", "done"}
           /\ SettledAs(t, {"rolledback"}) /\ AtRest(t)'
<1>1. /\ pc' = pc /\ call' = call /\ sqlTransactions' = sqlTransactions
      /\ closing = {} /\ closing' = {t}
      /\ t \in pending /\ pending' = pending \ {t}
      /\ \E taken \in BOOLEAN : Control(t, "rollback", taken)
  BY DEF RollbackPending, registryVars
<1>2. Undecided(t) /\ execer[t] = "open"
  BY <1>1 DEF TxInv, PendingIsUndecided, Undecided
<1>3. \A s \in Sessions \ {t} : Same(s)
  BY <1>1, ControlView
<1> QED
  BY <1>1, <1>2, <1>3, ControlRests

LEMMA ClosePendingView ==
    ASSUME TypeOK, TxInv, CloseInv, NEW t \in Sessions, ClosePending(t)
    PROVE  /\ pc' = pc /\ call' = call /\ sqlTransactions' = sqlTransactions
           /\ pending' = pending /\ t \in closing /\ closing' = closing \ {t}
           /\ \A s \in Sessions : Rests(s)
           /\ \A s \in Sessions \ {t} : Same(s)
           /\ execer'[t] = "closed" /\ AtRest(t)'
           /\ Undone(t) /\ Undone(t)'
           /\ \/ fate'[t] = fate[t]
              \/ fate[t] = "open" /\ fate'[t] = "rolledback"
<1>1. /\ pc' = pc /\ call' = call /\ sqlTransactions' = sqlTransactions
      /\ pending' = pending /\ t \in closing /\ closing' = closing \ {t}
      /\ Close(t)
  BY DEF ClosePending, registryVars
<1>2. Undone(t) /\ AtRest(t)
  BY <1>1 DEF CloseInv, Undone
<1>3. AtRest(t)' /\ Undone(t)'
  BY <1>1, <1>2, CloseRests DEF Rests, Undone
<1> QED
  BY <1>1, <1>2, <1>3, CloseRests

LEMMA LoseConnectionView ==
    ASSUME TypeOK, TxInv, CloseInv, NEW t \in Sessions, LoseConnection(t)
    PROVE  /\ pc' = pc /\ call' = call /\ ListsKept
           /\ UNCHANGED execer /\ execer[t] \in {"open", "done"}
           /\ \A s \in Sessions : Rests(s)
           /\ \A s \in Sessions \ {t} : Same(s)
           /\ fate'[t] = IF fate[t] = "open" THEN "rolledback" ELSE fate[t]
<1>1. /\ pc' = pc /\ call' = call /\ ListsKept
      /\ UNCHANGED execer /\ execer[t] \in {"open", "done"}
  BY DEF LoseConnection, registryVars, shutdownVars, ListsKept
<1>2. /\ server'[t] = "lost" /\ unsettled' = unsettled
      /\ fate'[t] = IF fate[t] = "open" THEN "rolledback" ELSE fate[t]
      /\ \A s \in Sessions \ {t} : Same(s)
  BY DEF LoseConnection, TypeOK, Ended, Same
<1>3. Rests(t)
  BY <1>2 DEF Rests, AtRest, InTransaction
<1> QED
  BY <1>1, <1>2, <1>3, SameRests

LEMMA RestShutdown ==
    ASSUME TypeOK, TxInv, CloseInv, ShutdownStep
    PROVE  CloseInv'
<1>1. CASE BeginShutdown \/ EndShutdown
  <2>1. pc' = pc /\ call' = call /\ UNCHANGED sessionVars /\ closing' = closing
    BY <1>1 DEF BeginShutdown, EndShutdown
  <2>2. \A s \in Sessions : Same(s) /\ Rests(s)
    BY <2>1, SameRests DEF Same, sessionVars
  <2>3. \A s \in closing' : Undone(s)' /\ AtRest(s)'
    BY <2>1, <2>2 DEF TypeOK, Rests, CloseInv, Undone
  <2> QED
    BY <2>1, <2>2, <2>3, RestQuiet DEF Same
<1>2. ASSUME NEW t \in Sessions, RollbackPending(t) PROVE CloseInv'
  <2>1. \A s \in Sessions :
           execer'[s] = "closed" => execer[s] = "closed" \/ AtRest(s)'
    BY <1>2, RollbackPendingView DEF Same
  <2>2. \A s \in closing' : Undone(s)' /\ AtRest(s)'
    BY <1>2, RollbackPendingView DEF SettledAs, Undone
  <2> QED
    BY <1>2, <2>1, <2>2, RollbackPendingView, RestQuiet
<1>3. ASSUME NEW t \in Sessions, ClosePending(t) PROVE CloseInv'
  <2>1. \A s \in Sessions :
           execer'[s] = "closed" => execer[s] = "closed" \/ AtRest(s)'
    BY <1>3, ClosePendingView DEF Same
  <2>2. closing \subseteq Sessions
    BY DEF TypeOK
  <2>3. \A s \in closing' : Undone(s)' /\ AtRest(s)'
    BY <1>3, <2>2, ClosePendingView DEF Rests, CloseInv, Undone
  <2> QED
    BY <1>3, <2>1, <2>3, ClosePendingView, RestQuiet
<1> QED
  BY <1>1, <1>2, <1>3 DEF ShutdownStep

LEMMA RestProgress ==
    ASSUME TypeOK, TxInv, CloseInv, NEW c \in Callers, Progress(c)
    PROVE  CloseInv'
<1>1. CASE OpenFails(c) \/ CheckActive(c) \/ RegisterQuery(c) \/ Reply(c)
  BY <1>1, StillView, RestStill DEF ListsKept
<1>2. CASE OpenSession(c)
  <2>1. \A s \in Sessions : execer'[s] = "closed" => execer[s] = "closed"
    BY <1>2, OpenSessionView DEF Same
  <2> QED
    BY <1>2, <2>1, OpenSessionView, RestStep DEF ListsKept
<1>3. CASE BeginSQL(c)
  <2>1. \A s \in Sessions :
           \/ Rests(s)
           \/ /\ call[c].op = "start" /\ pc[c] # "open" /\ pc[c] # "idle"
              /\ s = call[c].tx
              /\ execer'[s] # "closed" /\ server'[s] # "none"
    BY <1>3, BeginSQLView, SameRests
  <2> QED
    BY <1>3, <2>1, BeginSQLView, RestStep DEF ListsKept
<1>4. CASE StatementOk(c)
  <2>1. \A s \in Sessions :
           \/ Rests(s)
           \/ /\ call[c].op = "start" /\ pc[c] # "open" /\ pc[c] # "idle"
              /\ s = call[c].tx
              /\ execer'[s] # "closed" /\ server'[s] # "none"
    BY <1>4, StatementOkView, SameRests
  <2> QED
    BY <1>4, <2>1, StatementOkView, RestStep DEF ListsKept
<1>5. CASE StatementFails(c)
  BY <1>5, StatementFailsView, RestStep DEF ListsKept
<1>6. CASE UndoStart(c)
  <2>1. \A s \in Sessions : execer'[s] = "closed" => execer[s] = "closed"
    BY <1>6, UndoStartView DEF Same
  <2> QED
    BY <1>6, <2>1, UndoStartView, RestStep DEF ListsKept
<1>7. CASE Register(c)
  BY <1>7, RegisterView, RestStill
<1>8. CASE ControlSession(c)
  <2>1. \A s \in Sessions : execer'[s] = "closed" => execer[s] = "closed"
    BY <1>8, ControlSessionView DEF Same
  <2> QED
    BY <1>8, <2>1, ControlSessionView, RestStep DEF ListsKept
<1>9. CASE CloseSession(c)
  BY <1>9, CloseSessionView, RestStep DEF ListsKept
<1>10. CASE ForceStop(c)
  <2>1. OnlyMoves(c) /\ UNCHANGED sessionVars /\ closing' = closing /\ RestOK(c)'
    BY <1>10, ForceStopView, TakesOutView DEF TakesOut, ListsKept
  <2> QED
    BY <2>1, RestStill
<1> QED
  BY <1>1, <1>2, <1>3, <1>4, <1>5, <1>6, <1>7, <1>8, <1>9, <1>10 DEF Progress

LEMMA RestInit == Init => CloseInv
BY DEF Init, CloseInv, NoCall

LEMMA RestNext ==
    ASSUME TypeOK, TxInv, CloseInv, [Next]_vars
    PROVE  CloseInv'
<1>1. ASSUME NEW c \in Callers, Request(c) PROVE CloseInv'
  <2>1. ASSUME NEW t \in Sessions, NEW op \in {"commit", "rollback"},
               BeginFinish(c, op, t)
        PROVE  CloseInv'
    <3>1. OnlyMoves(c) /\ UNCHANGED sessionVars /\ closing' = closing /\ RestOK(c)'
      BY <2>1, BeginFinishView, TakesOutView DEF TakesOut
    <3> QED
      BY <3>1, RestStill
  <2>2. ASSUME \/ \E t \in Sessions, n \in 1..MaxStatements :
                     BeginStart(c, t, n) \/ LookupTransaction(c, t, n)
               \/ \E d \in Callers : Cancel(c, d)
        PROVE  CloseInv'
    BY <2>2, StillView, RestStill DEF ListsKept
  <2> QED
    BY <1>1, <2>1, <2>2 DEF Request
<1>2. ASSUME NEW t \in Sessions, LoseConnection(t) PROVE CloseInv'
  <2>1. \A s \in closing' : Undone(s)' /\ AtRest(s)'
    BY <1>2, LoseConnectionView DEF TypeOK, ListsKept, Rests, CloseInv, Undone
  <2> QED
    BY <1>2, <2>1, LoseConnectionView, RestQuiet
<1>3. CASE UNCHANGED vars
  <2>1. pc' = pc /\ call' = call /\ UNCHANGED sessionVars /\ closing' = closing
    BY <1>3 DEF vars, shutdownVars
  <2>2. \A s \in Sessions : Same(s) /\ Rests(s)
    BY <2>1, SameRests DEF Same, sessionVars
  <2>3. \A s \in closing' : Undone(s)' /\ AtRest(s)'
    BY <2>1, <2>2 DEF TypeOK, Rests, CloseInv, Undone
  <2> QED
    BY <2>1, <2>2, <2>3, RestQuiet DEF Same
<1> QED
  BY <1>1, <1>2, <1>3, RestProgress, RestShutdown DEF Next
----------------------------------------------------------------------------
(* Every step is a step of ManagedTransaction, or leaves all phases alone. *)

\* The phase of a session, read off where it is.
PhaseFacts(s) ==
    /\ execer[s] = "unused" => Phase(s) = "absent"
    /\ execer[s] # "unused" /\ fate[s] \in {"committed", "rolledback"} =>
          Phase(s) = fate[s]
    /\ fate[s] \in {"none", "open"} =>
          /\ s \in sqlTransactions => Phase(s) = "pending"
          /\ s \in pending \cup closing => Phase(s) = "rollingback"
          /\ \A c \in Callers : Owns(c) /\ call[c].tx = s =>
                Phase(s) = IF call[c].op = "start" THEN "working"
                           ELSE IF call[c].op = "commit" THEN "committing"
                           ELSE "rollingback"
          /\ execer[s] = "closed" =>
                Phase(s) = IF fate[s] = "none" THEN "rolledback"
                           ELSE "abandoned"

LEMMA PhaseView == Inv => \A s \in Sessions : PhaseFacts(s)
<1> SUFFICES ASSUME Inv, NEW s \in Sessions PROVE PhaseFacts(s)
  OBVIOUS
<1>1. TypeOK /\ TxInv /\ OwnerOK /\ CloseInv
  BY OwnerView DEF Inv, TxInv
<1>2. ASSUME NEW c \in Callers, Owns(c), call[c].tx = s
      PROVE  /\ execer[s] # "unused" /\ s \notin Listed
             /\ call[c].op \in {"start", "commit", "rollback", "cancel"}
             /\ \A ops : HeldFor(s, ops) <=> call[c].op \in ops
  BY <1>1, <1>2 DEF OneOwner, TxInv, HeldFor, Live, Owns, Ends
<1>3. s \in Listed => execer[s] # "unused"
  BY <1>1 DEF OwnerOK, Live
<1>4. sqlTransactions \cap (pending \cup closing) = {}
  BY <1>1 DEF OwnerOK
<1>5. execer[s] = "closed" => s \notin Listed /\ \A ops : ~ HeldFor(s, ops)
  BY <1>1 DEF OneOwner, TxInv, Live, HeldFor
<1>6. execer[s] = "unused" => Phase(s) = "absent"
  BY DEF Phase
<1>7. execer[s] # "unused" /\ fate[s] \in {"committed", "rolledback"} =>
         Phase(s) = fate[s]
  BY DEF Phase
<1>8. fate[s] \in {"none", "open"} /\ s \in sqlTransactions =>
         Phase(s) = "pending"
  BY <1>3 DEF Phase, Listed
<1>9. fate[s] \in {"none", "open"} /\ s \in pending \cup closing =>
         Phase(s) = "rollingback"
  BY <1>3, <1>4 DEF Phase, Listed
<1>10. ASSUME fate[s] \in {"none", "open"},
              NEW c \in Callers, Owns(c), call[c].tx = s
       PROVE  Phase(s) = IF call[c].op = "start" THEN "working"
                         ELSE IF call[c].op = "commit" THEN "committing"
                         ELSE "rollingback"
  <2>1. s \notin sqlTransactions /\ s \notin pending \cup closing
    BY <1>2, <1>10 DEF Listed
  <2>2. /\ HeldFor(s, {"start"}) <=> call[c].op = "start"
        /\ HeldFor(s, {"commit"}) <=> call[c].op = "commit"
        /\ HeldFor(s, {"rollback", "cancel"}) <=>
              call[c].op \in {"rollback", "cancel"}
    BY <1>2, <1>10
  <2> QED
    BY <1>2, <1>10, <2>1, <2>2 DEF Phase
<1>11. fate[s] \in {"none", "open"} /\ execer[s] = "closed" =>
          Phase(s) = IF fate[s] = "none" THEN "rolledback" ELSE "abandoned"
  BY <1>5 DEF Phase, Listed
<1> QED
  BY <1>6, <1>7, <1>8, <1>9, <1>10, <1>11 DEF PhaseFacts

LEMMA PhaseViewNext == Inv' => (\A s \in Sessions : PhaseFacts(s))'
BY PhaseView, PTL

\* What the phases before and after a step are.
Phases == \A s \in Sessions : PhaseFacts(s)

LEMMA PhasesOfStep ==
    ASSUME Inv, Inv'
    PROVE  /\ Phases /\ Phases'
           /\ TypeOK /\ TxInv /\ CloseInv /\ OwnerOK
<1>1. Phases
  BY PhaseView DEF Phases
<1>2. Phases'
  BY PhaseViewNext DEF Phases
<1> QED
  BY <1>1, <1>2, OwnerView DEF Inv, TxInv

\* The lists hold the session or not, as before.
ListedAlike(s) ==
    /\ s \in sqlTransactions' <=> s \in sqlTransactions
    /\ s \in pending' \cup closing' <=> s \in pending \cup closing

LEMMA PhaseFrame ==
    ASSUME NEW c \in Callers, OnlyMoves(c), NEW s \in Sessions,
           execer'[s] = "unused" <=> execer[s] = "unused",
           fate'[s] = fate[s], ListedAlike(s),
           Owns(c)' /\ call'[c].tx = s <=> Owns(c) /\ call[c].tx = s,
           Owns(c) /\ call[c].tx = s => call'[c].op = call[c].op
    PROVE  Phase(s)' = Phase(s)
<1>1. ASSUME NEW ops PROVE HeldFor(s, ops)' <=> HeldFor(s, ops)
  BY DEF HeldFor, OnlyMoves, Owns, Ends
<1>2. /\ HeldFor(s, {"start"})' <=> HeldFor(s, {"start"})
      /\ HeldFor(s, {"commit"})' <=> HeldFor(s, {"commit"})
      /\ HeldFor(s, {"rollback", "cancel"})' <=>
            HeldFor(s, {"rollback", "cancel"})
  BY <1>1
<1> QED
  BY <1>2 DEF Phase, ListedAlike

LEMMA PhaseQuiet ==
    ASSUME pc' = pc, call' = call, NEW s \in Sessions,
           execer'[s] = "unused" <=> execer[s] = "unused",
           fate'[s] = fate[s], ListedAlike(s)
    PROVE  Phase(s)' = Phase(s)
<1>1. /\ HeldFor(s, {"start"})' <=> HeldFor(s, {"start"})
      /\ HeldFor(s, {"commit"})' <=> HeldFor(s, {"commit"})
      /\ HeldFor(s, {"rollback", "cancel"})' <=>
            HeldFor(s, {"rollback", "cancel"})
  BY DEF HeldFor, Owns, Ends
<1> QED
  BY <1>1 DEF Phase, ListedAlike

LEMMA PhaseSame ==
    ASSUME \A s \in Sessions : Phase(s)' = Phase(s)
    PROVE  UNCHANGED phaseOf
BY DEF phaseOf

LEMMA PhaseMoves ==
    ASSUME NEW t \in Sessions, NEW from, NEW to,
           \A s \in Sessions \ {t} : Phase(s)' = Phase(s),
           Phase(t) \in from, Phase(t)' = to
    PROVE  Promise!Move(t, from, to)
BY DEF phaseOf, Promise!Move

LEMMA StillPhases ==
    ASSUME NEW c \in Callers, OnlyMoves(c), UNCHANGED <<execer, fate>>,
           ListsKept, HoldKept(c)
    PROVE  UNCHANGED phaseOf
<1>1. ASSUME NEW s \in Sessions PROVE Phase(s)' = Phase(s)
  BY PhaseFrame DEF ListsKept, ListedAlike, HoldKept
<1> QED
  BY <1>1, PhaseSame

\* A caller that touches one session leaves the phases of the others alone.
LEMMA OtherPhases ==
    ASSUME NEW c \in Callers, OnlyMoves(c), NEW t \in Sessions,
           Owns(c) => call[c].tx = t, Owns(c)' => call'[c].tx = t,
           \A s \in Sessions \ {t} : Same(s) /\ ListedAlike(s)
    PROVE  \A s \in Sessions \ {t} : Phase(s)' = Phase(s)
<1> SUFFICES ASSUME NEW s \in Sessions \ {t} PROVE Phase(s)' = Phase(s)
  OBVIOUS
<1>1. Same(s) /\ ListedAlike(s)
  OBVIOUS
<1> QED
  BY <1>1, PhaseFrame DEF Same

LEMMA OpenSessionPhases ==
    ASSUME Inv, Inv', NEW c \in Callers, NEW t \in Sessions, t = call[c].tx,
           OpenSession(c)
    PROVE  Promise!Open(t)
<1>1. Phases /\ Phases' /\ TypeOK /\ TxInv /\ CloseInv
  BY PhasesOfStep
<1>2. /\ OnlyMoves(c) /\ ListsKept /\ call'[c] = call[c]
      /\ call[c].op = "start" /\ ~ Owns(c) /\ Owns(c)'
      /\ execer[t] = "unused" /\ fate'[t] = "none"
      /\ \A s \in Sessions \ {t} : Same(s)
  BY <1>1, OpenSessionView
<1>3. \A s \in Sessions \ {t} : Phase(s)' = Phase(s)
  BY <1>2, OtherPhases DEF ListsKept, ListedAlike
<1>4. Phase(t) = "absent"
  BY <1>1, <1>2 DEF Phases, PhaseFacts
<1>5. Phase(t)' = "working"
  BY <1>1, <1>2 DEF Phases, PhaseFacts
<1> QED
  BY <1>3, <1>4, <1>5, PhaseMoves DEF Promise!Open

\* A statement that finds the session undecided leaves it so.
LEMMA WorkingPhases ==
    ASSUME Inv, Inv', NEW c \in Callers, NEW t \in Sessions, t = call[c].tx,
           OnlyMoves(c), ListsKept, HoldKept(c), Owns(c), call[c].op = "start",
           \A s \in Sessions \ {t} : Same(s),
           fate[t] \in {"none", "open"}, fate'[t] = "open"
    PROVE  UNCHANGED phaseOf
<1>1. Phases /\ Phases'
  BY PhasesOfStep
<1>2. Owns(c)' /\ call'[c].tx = t /\ call'[c].op = "start"
  BY DEF HoldKept
<1>3. \A s \in Sessions \ {t} : Phase(s)' = Phase(s)
  BY <1>2, OtherPhases DEF ListsKept, ListedAlike
<1>4. Phase(t) = "working" /\ Phase(t)' = "working"
  BY <1>1, <1>2 DEF Phases, PhaseFacts
<1> QED
  BY <1>3, <1>4, PhaseSame

LEMMA StatementPhases ==
    ASSUME Inv, Inv', NEW c \in Callers,
           BeginSQL(c) \/ StatementOk(c) \/ StatementFails(c)
    PROVE  UNCHANGED phaseOf
<1>1. TypeOK /\ TxInv /\ CloseInv
  BY PhasesOfStep
<1>2. CASE StatementFails(c)
  BY <1>1, <1>2, StatementFailsView, StillPhases
<1>3. CASE BeginSQL(c)
  <2>1. PICK t \in Sessions : t = call[c].tx
    BY <1>1, <1>3, BeginSQLView
  <2>2. CASE \A s \in Sessions : Same(s)
    <3>1. ASSUME NEW s \in Sessions PROVE Phase(s)' = Phase(s)
      BY <1>1, <1>3, <2>2, BeginSQLView, PhaseFrame
         DEF Same, ListsKept, ListedAlike, HoldKept
    <3> QED
      BY <3>1, PhaseSame
  <2>3. CASE fate[t] \in {"none", "open"} /\ fate'[t] = "open"
    BY <1>1, <1>3, <2>1, <2>3, BeginSQLView, WorkingPhases
  <2> QED
    BY <1>1, <1>3, <2>1, <2>2, <2>3, BeginSQLView
<1>4. CASE StatementOk(c)
  <2>1. PICK t \in Sessions : t = call[c].tx
    BY <1>1, <1>4, StatementOkView
  <2>2. CASE fate'[t] = fate[t]
    <3>1. ASSUME NEW s \in Sessions PROVE Phase(s)' = Phase(s)
      BY <1>1, <1>4, <2>1, <2>2, StatementOkView, PhaseFrame
         DEF Same, ListsKept, ListedAlike, HoldKept
    <3> QED
      BY <3>1, PhaseSame
  <2>3. CASE /\ fate[t] \in {"none", "open"} /\ fate'[t] = "open"
             /\ call[c].op = "start" /\ Owns(c)
    BY <1>1, <1>4, <2>1, <2>3, StatementOkView, WorkingPhases
  <2> QED
    BY <1>1, <1>4, <2>1, <2>2, <2>3, StatementOkView
<1> QED
  BY <1>2, <1>3, <1>4

LEMMA UndoStartPhases ==
    ASSUME Inv, Inv', NEW c \in Callers, NEW t \in Sessions, t = call[c].tx,
           UndoStart(c)
    PROVE  Promise!Undo(t) \/ UNCHANGED phaseOf
<1>1. Phases /\ Phases' /\ TypeOK /\ TxInv /\ CloseInv
  BY PhasesOfStep
<1>2. /\ OnlyMoves(c) /\ ListsKept /\ HoldKept(c)
      /\ call[c].op = "start" /\ Owns(c)
      /\ \A s \in Sessions \ {t} : Same(s)
      /\ execer[t] = "open" /\ execer'[t] \in {"open", "done"}
      /\ fate'[t] # fate[t] => fate[t] = "open" /\ fate'[t] = "rolledback"
  BY <1>1, UndoStartView
<1>3. CASE fate'[t] = fate[t]
  <2>1. ASSUME NEW s \in Sessions PROVE Phase(s)' = Phase(s)
    BY <1>2, <1>3, PhaseFrame DEF Same, ListsKept, ListedAlike, HoldKept
  <2> QED
    BY <2>1, PhaseSame
<1>4. CASE fate'[t] # fate[t]
  <2>1. \A s \in Sessions \ {t} : Phase(s)' = Phase(s)
    BY <1>2, OtherPhases DEF ListsKept, ListedAlike, HoldKept
  <2>2. Phase(t) = "working"
    BY <1>1, <1>2, <1>4 DEF Phases, PhaseFacts
  <2>3. fate'[t] = "rolledback"
    BY <1>2, <1>4
  <2>4. Phase(t)' = "rolledback"
    BY <1>1, <1>2, <2>3 DEF Phases, PhaseFacts
  <2> QED
    BY <2>1, <2>2, <2>4, PhaseMoves DEF Promise!Undo
<1> QED
  BY <1>3, <1>4

LEMMA RegisterPhases ==
    ASSUME Inv, Inv', NEW c \in Callers, NEW t \in Sessions, t = call[c].tx,
           Register(c)
    PROVE  Promise!Expose(t) \/ UNCHANGED phaseOf
<1>1. Phases /\ Phases' /\ TypeOK /\ TxInv /\ CloseInv /\ OwnerOK
  BY PhasesOfStep
<1>2. /\ OnlyMoves(c) /\ UNCHANGED sessionVars
      /\ sqlTransactions' = sqlTransactions \cup {t}
      /\ pending' = pending /\ closing' = closing
      /\ call[c].op = "start" /\ Owns(c) /\ ~ Owns(c)' /\ Undecided(t)
  BY <1>1, RegisterView
<1>3. \A s \in Sessions \ {t} : Phase(s)' = Phase(s)
  BY <1>2, OtherPhases DEF ListedAlike, Same, sessionVars
<1>4. execer[t] = "open" /\ execer'[t] = "open" /\ fate'[t] = fate[t]
  BY <1>2 DEF Undecided, sessionVars
<1>5. CASE fate[t] = "open"
  <2>1. Phase(t) = "working"
    BY <1>1, <1>2, <1>5 DEF Phases, PhaseFacts
  <2>2. Phase(t)' = "pending"
    BY <1>1, <1>2, <1>4, <1>5 DEF Phases, PhaseFacts
  <2> QED
    BY <1>3, <2>1, <2>2, PhaseMoves DEF Promise!Expose
<1>6. CASE fate[t] = "rolledback"
  <2>1. Phase(t) = "rolledback" /\ Phase(t)' = "rolledback"
    BY <1>1, <1>4, <1>6 DEF Phases, PhaseFacts
  <2> QED
    BY <1>3, <2>1, PhaseSame
<1> QED
  BY <1>2, <1>5, <1>6 DEF Undecided

LEMMA TakesOutPhases ==
    ASSUME Inv, Inv', NEW c \in Callers, NEW t, TakesOut(c, t)
    PROVE  /\ t \in Sessions
           /\ \/ Promise!RequestCommit(t) \/ Promise!RequestRollback(t)
              \/ UNCHANGED phaseOf
<1>1. Phases /\ Phases' /\ TypeOK /\ TxInv /\ CloseInv
  BY PhasesOfStep
<1>2. t \in Sessions /\ Undecided(t) /\ Owns(c)'
  BY <1>1, TakesOutView
<1>3. /\ OnlyMoves(c) /\ UNCHANGED sessionVars
      /\ t \in sqlTransactions /\ sqlTransactions' = sqlTransactions \ {t}
      /\ pending' = pending /\ closing' = closing
      /\ ~ Owns(c) /\ call'[c].tx = t /\ call'[c].op \in Ends
  BY DEF TakesOut
<1>4. \A s \in Sessions \ {t} : Phase(s)' = Phase(s)
  BY <1>2, <1>3, OtherPhases DEF ListedAlike, Same, sessionVars
<1>5. execer[t] = "open" /\ execer'[t] = "open" /\ fate'[t] = fate[t]
  BY <1>2, <1>3 DEF Undecided, sessionVars
<1>6. CASE fate[t] = "open"
  <2>1. Phase(t) = "pending"
    BY <1>1, <1>2, <1>3, <1>6 DEF Phases, PhaseFacts
  <2>2. Phase(t)' \in {"committing", "rollingback"}
    BY <1>1, <1>2, <1>3, <1>5, <1>6 DEF Phases, PhaseFacts, Ends
  <2> QED
    BY <1>2, <1>4, <2>1, <2>2, PhaseMoves
       DEF Promise!RequestCommit, Promise!RequestRollback
<1>7. CASE fate[t] = "rolledback"
  <2>1. Phase(t) = "rolledback" /\ Phase(t)' = "rolledback"
    BY <1>1, <1>2, <1>5, <1>7 DEF Phases, PhaseFacts
  <2> QED
    BY <1>2, <1>4, <2>1, PhaseSame
<1> QED
  BY <1>2, <1>6, <1>7 DEF Undecided

LEMMA ControlSessionPhases ==
    ASSUME Inv, Inv', NEW c \in Callers, NEW t \in Sessions, t = call[c].tx,
           ControlSession(c)
    PROVE  Promise!Commit(t) \/ Promise!Undo(t) \/ UNCHANGED phaseOf
<1>1. Phases /\ Phases' /\ TypeOK /\ TxInv /\ CloseInv
  BY PhasesOfStep
<1>2. /\ OnlyMoves(c) /\ ListsKept /\ HoldKept(c)
      /\ call[c].op \in Ends /\ Owns(c) /\ Undecided(t)
      /\ \A s \in Sessions \ {t} : Same(s)
      /\ execer'[t] \in {"open", "done"}
      /\ SettledAs(t, {"committed", "rolledback"})
      /\ fate[t] # "open" => fate'[t] = fate[t]
      /\ call[c].op # "commit" => SettledAs(t, {"rolledback"})
  BY <1>1, ControlSessionView
<1>3. \A s \in Sessions \ {t} : Phase(s)' = Phase(s)
  BY <1>2, OtherPhases DEF ListsKept, ListedAlike, HoldKept
<1>4. fate'[t] # "open" => Phase(t)' = fate'[t]
  BY <1>1, <1>2 DEF Phases, PhaseFacts, SettledAs
<1>5. CASE fate[t] = "open" /\ fate'[t] # "open"
  <2>1. Phase(t) = IF call[c].op = "commit" THEN "committing" ELSE "rollingback"
    BY <1>1, <1>2, <1>5 DEF Phases, PhaseFacts, Ends
  <2> QED
    BY <1>2, <1>3, <1>4, <1>5, <2>1, PhaseMoves
       DEF SettledAs, Promise!Commit, Promise!Undo
<1>6. CASE fate[t] = "open" /\ fate'[t] = "open"
  <2>1. ASSUME NEW s \in Sessions PROVE Phase(s)' = Phase(s)
    BY <1>2, <1>6, PhaseFrame
       DEF Undecided, Same, ListsKept, ListedAlike, HoldKept
  <2> QED
    BY <2>1, PhaseSame
<1>7. CASE fate[t] # "open"
  <2>1. execer[t] = "open" /\ fate[t] = "rolledback"
    BY <1>2, <1>7 DEF Undecided
  <2>2. Phase(t) = "rolledback" /\ Phase(t)' = "rolledback"
    BY <1>1, <1>2, <1>4, <2>1 DEF Phases, PhaseFacts
  <2> QED
    BY <1>3, <2>2, PhaseSame
<1> QED
  BY <1>5, <1>6, <1>7

LEMMA CloseSessionPhases ==
    ASSUME Inv, Inv', NEW c \in Callers, NEW t \in Sessions, t = call[c].tx,
           CloseSession(c)
    PROVE  Promise!Undo(t) \/ Promise!Abandon(t) \/ UNCHANGED phaseOf
<1>1. Phases /\ Phases' /\ TypeOK /\ TxInv /\ CloseInv /\ OwnerOK
  BY PhasesOfStep
<1>2. /\ OnlyMoves(c) /\ ListsKept
      /\ call[c].op \in Ends \cup {"start"} /\ Owns(c) /\ ~ Owns(c)'
      /\ \A s \in Sessions \ {t} : Same(s)
      /\ execer'[t] = "closed"
      /\ fate'[t] = fate[t] \/ (fate[t] = "open" /\ fate'[t] = "rolledback")
  BY <1>1, CloseSessionView
<1>3. \A s \in Sessions \ {t} : Phase(s)' = Phase(s)
  BY <1>2, OtherPhases DEF ListsKept, ListedAlike
<1>4. execer[t] # "unused"
  BY <1>1, <1>2 DEF TxInv, OneOwner, Live
<1>5. CASE fate[t] = "none"
  <2>1. call[c].op = "start"
    BY <1>1, <1>2, <1>5 DEF CloseInv, Ends
  <2>2. Phase(t) = "working"
    BY <1>1, <1>2, <1>5, <2>1 DEF Phases, PhaseFacts
  <2>3. Phase(t)' = "rolledback"
    BY <1>1, <1>2, <1>5 DEF Phases, PhaseFacts
  <2> QED
    BY <1>3, <2>2, <2>3, PhaseMoves DEF Promise!Undo
<1>6. CASE fate[t] \in {"committed", "rolledback"}
  <2>1. Phase(t) = fate[t]
    BY <1>1, <1>4, <1>6 DEF Phases, PhaseFacts
  <2>2. Phase(t)' = fate[t]
    BY <1>1, <1>2, <1>6 DEF Phases, PhaseFacts
  <2> QED
    BY <1>3, <2>1, <2>2, PhaseSame
<1>7. CASE fate[t] = "open"
  <2>1. Phase(t) \in {"working", "committing", "rollingback"}
    BY <1>1, <1>2, <1>7 DEF Phases, PhaseFacts
  <2>2. Phase(t)' \in {"rolledback", "abandoned"}
    BY <1>1, <1>2, <1>7 DEF Phases, PhaseFacts
  <2> QED
    BY <1>3, <2>1, <2>2, PhaseMoves DEF Promise!Undo, Promise!Abandon
<1> QED
  BY <1>1, <1>5, <1>6, <1>7 DEF TypeOK

LEMMA BeginShutdownPhases ==
    ASSUME Inv, Inv', BeginShutdown
    PROVE  \E S \in SUBSET Sessions : Promise!Drain(S)
<1>1. Phases /\ Phases' /\ TypeOK /\ TxInv /\ CloseInv /\ OwnerOK
  BY PhasesOfStep
<1>2. /\ UNCHANGED sessionVars /\ pc' = pc /\ call' = call
      /\ shutdown = "no" /\ closing' = closing
      /\ pending' = sqlTransactions /\ sqlTransactions' = {}
      /\ pending = {} /\ closing = {} /\ sqlTransactions \subseteq Sessions
  BY <1>1 DEF BeginShutdown, TxInv, TypeOK
<1>3. ASSUME NEW s \in Sessions, s \notin sqlTransactions
      PROVE  Phase(s)' = Phase(s)
  BY <1>2, <1>3, PhaseQuiet DEF ListedAlike, sessionVars
<1>4. ASSUME NEW s \in sqlTransactions
      PROVE  \/ Phase(s) = "pending" /\ Phase(s)' = "rollingback"
             \/ Phase(s) = "rolledback" /\ Phase(s)' = "rolledback"
  <2>1. Undecided(s) /\ s \in Sessions
    BY <1>1, <1>2 DEF TxInv, PendingIsUndecided
  <2>2. execer[s] = "open" /\ execer'[s] = "open" /\ fate'[s] = fate[s]
    BY <1>2, <2>1 DEF Undecided, sessionVars
  <2>3. CASE fate[s] = "open"
    BY <1>1, <1>2, <2>1, <2>2, <2>3 DEF Phases, PhaseFacts
  <2>4. CASE fate[s] = "rolledback"
    BY <1>1, <1>2, <2>1, <2>2, <2>4 DEF Phases, PhaseFacts
  <2> QED
    BY <2>1, <2>3, <2>4 DEF Undecided
<1>5. \A s \in sqlTransactions : phaseOf[s] \in {"pending", "rolledback"}
  BY <1>2, <1>4 DEF phaseOf
<1>6. phaseOf' = [s \in Sessions |->
                     IF s \in sqlTransactions /\ phaseOf[s] = "pending"
                     THEN "rollingback" ELSE phaseOf[s]]
  BY <1>2, <1>3, <1>4 DEF phaseOf
<1> QED
  BY <1>2, <1>5, <1>6 DEF Promise!Drain

LEMMA DrainPhases ==
    ASSUME Inv, Inv', NEW t \in Sessions,
           RollbackPending(t) \/ ClosePending(t)
    PROVE  Promise!Undo(t) \/ Promise!Abandon(t) \/ UNCHANGED phaseOf
<1>1. Phases /\ Phases' /\ TypeOK /\ TxInv /\ CloseInv /\ OwnerOK
  BY PhasesOfStep
<1>2. /\ pc' = pc /\ call' = call /\ sqlTransactions' = sqlTransactions
      /\ t \in pending \cup closing
      /\ \/ fate'[t] = fate[t]
         \/ fate[t] = "open" /\ fate'[t] = "rolledback"
      /\ \/ pending' \cup closing' = pending \cup closing
         \/ /\ pending' \cup closing' = (pending \cup closing) \ {t}
            /\ execer'[t] = "closed"
      /\ execer'[t] # "unused"
      /\ \A s \in Sessions \ {t} : Same(s)
  <2>1. CASE RollbackPending(t)
    <3>1. fate'[t] = fate[t] \/ (fate[t] = "open" /\ fate'[t] = "rolledback")
      BY <1>1, <2>1, RollbackPendingView DEF Undecided, SettledAs, Rests
    <3>2. pending' \cup closing' = pending \cup closing
      BY <1>1, <2>1, RollbackPendingView
    <3> QED
      BY <1>1, <2>1, <3>1, <3>2, RollbackPendingView
  <2>2. CASE ClosePending(t)
    <3>1. t \notin pending
      BY <1>1, <2>2, ClosePendingView DEF OwnerOK
    <3>2. pending' \cup closing' = (pending \cup closing) \ {t}
      BY <1>1, <2>2, <3>1, ClosePendingView
    <3> QED
      BY <1>1, <2>2, <3>2, ClosePendingView
  <2> QED
    BY <2>1, <2>2
<1>3. ASSUME NEW s \in Sessions \ {t} PROVE Phase(s)' = Phase(s)
  <2>1. Same(s) /\ ListedAlike(s)
    BY <1>2 DEF ListedAlike
  <2> QED
    BY <1>2, <2>1, PhaseQuiet DEF Same
<1>4. execer[t] # "unused"
  BY <1>1, <1>2 DEF OwnerOK, Listed, Live
<1>5. CASE fate[t] \in {"committed", "rolledback"}
  <2>1. Phase(t) = fate[t] /\ Phase(t)' = fate[t]
    BY <1>1, <1>2, <1>4, <1>5 DEF Phases, PhaseFacts
  <2> QED
    BY <1>3, <2>1, PhaseSame
<1>6. CASE fate[t] \in {"none", "open"}
  <2>1. Phase(t) = "rollingback"
    BY <1>1, <1>2, <1>6 DEF Phases, PhaseFacts
  <2>2. Phase(t)' \in {"rolledback", "rollingback", "abandoned"}
    BY <1>1, <1>2, <1>6 DEF Phases, PhaseFacts
  <2> QED
    BY <1>3, <2>1, <2>2, PhaseMoves, PhaseSame
       DEF Promise!Undo, Promise!Abandon
<1> QED
  BY <1>1, <1>5, <1>6 DEF TypeOK

LEMMA LoseConnectionPhases ==
    ASSUME Inv, Inv', NEW t \in Sessions, LoseConnection(t)
    PROVE  Promise!Undo(t) \/ UNCHANGED phaseOf
<1>1. Phases /\ Phases' /\ TypeOK /\ TxInv /\ CloseInv /\ OwnerOK
  BY PhasesOfStep
<1>2. /\ pc' = pc /\ call' = call /\ ListsKept
      /\ UNCHANGED execer /\ execer[t] \in {"open", "done"}
      /\ \A s \in Sessions \ {t} : Same(s)
      /\ fate'[t] = IF fate[t] = "open" THEN "rolledback" ELSE fate[t]
  BY <1>1, LoseConnectionView
<1>3. ASSUME NEW s \in Sessions, s # t \/ fate[t] # "open"
      PROVE  Phase(s)' = Phase(s)
  <2>1. fate'[s] = fate[s] /\ execer'[s] = execer[s] /\ ListedAlike(s)
    BY <1>2, <1>3 DEF Same, ListsKept, ListedAlike
  <2> QED
    BY <1>2, <2>1, PhaseQuiet
<1>4. CASE fate[t] = "open"
  <2>1. Phase(t)' = "rolledback"
    BY <1>1, <1>2, <1>4 DEF Phases, PhaseFacts
  <2>2. t \in Listed \/ \E c \in Callers : Owns(c) /\ call[c].tx = t
    BY <1>1, <1>2 DEF TxInv, OneOwner, Live
  <2>3. Phase(t) \in {"pending", "working", "committing", "rollingback"}
    BY <1>1, <1>4, <2>2 DEF Phases, PhaseFacts, Listed
  <2> QED
    BY <1>3, <2>1, <2>3, PhaseMoves DEF Promise!Undo
<1>5. CASE fate[t] # "open"
  BY <1>3, <1>5, PhaseSame
<1> QED
  BY <1>4, <1>5

LEMMA PhaseInit == Init => Promise!MTInit
BY DEF Init, Promise!MTInit, phaseOf, Phase

LEMMA PhaseStep ==
    ASSUME Inv, Inv', [Next]_vars
    PROVE  [Promise!MTNext]_phaseOf
<1>1. TypeOK /\ TxInv /\ CloseInv
  BY PhasesOfStep
<1>2. ASSUME NEW c \in Callers, Request(c)
      PROVE  Promise!MTNext \/ UNCHANGED phaseOf
  <2>1. ASSUME NEW t \in Sessions, NEW op \in {"commit", "rollback"},
               BeginFinish(c, op, t)
        PROVE  Promise!MTNext \/ UNCHANGED phaseOf
    BY <1>1, <2>1, BeginFinishView, TakesOutPhases DEF Promise!MTNext
  <2>2. ASSUME \/ \E t \in Sessions, n \in 1..MaxStatements :
                     BeginStart(c, t, n) \/ LookupTransaction(c, t, n)
               \/ \E d \in Callers : Cancel(c, d)
        PROVE  UNCHANGED phaseOf
    BY <1>1, <2>2, StillView, StillPhases DEF sessionVars
  <2> QED
    BY <1>2, <2>1, <2>2 DEF Request
<1>3. ASSUME NEW c \in Callers, Progress(c)
      PROVE  Promise!MTNext \/ UNCHANGED phaseOf
  <2>1. CASE OpenFails(c) \/ CheckActive(c) \/ RegisterQuery(c) \/ Reply(c)
    BY <1>1, <2>1, StillView, StillPhases DEF sessionVars
  <2>2. CASE BeginSQL(c) \/ StatementOk(c) \/ StatementFails(c)
    BY <2>2, StatementPhases
  <2>3. CASE OpenSession(c)
    BY <1>1, <2>3, OpenSessionView, OpenSessionPhases DEF Promise!MTNext
  <2>4. CASE UndoStart(c)
    BY <1>1, <2>4, UndoStartView, UndoStartPhases DEF Promise!MTNext
  <2>5. CASE Register(c)
    BY <1>1, <2>5, RegisterView, RegisterPhases DEF Promise!MTNext
  <2>6. CASE ControlSession(c)
    BY <1>1, <2>6, ControlSessionView, ControlSessionPhases
       DEF Promise!MTNext
  <2>7. CASE CloseSession(c)
    BY <1>1, <2>7, CloseSessionView, CloseSessionPhases DEF Promise!MTNext
  <2>8. CASE ForceStop(c)
    <3>1. CASE TakesOut(c, call[c].tx)
      BY <3>1, TakesOutPhases DEF Promise!MTNext
    <3>2. CASE ~ TakesOut(c, call[c].tx)
      BY <1>1, <2>8, <3>2, ForceStopView, StillPhases DEF sessionVars
    <3> QED
      BY <3>1, <3>2
  <2> QED
    BY <1>3, <2>1, <2>2, <2>3, <2>4, <2>5, <2>6, <2>7, <2>8 DEF Progress
<1>4. CASE ShutdownStep
  <2>1. CASE BeginShutdown
    BY <2>1, BeginShutdownPhases DEF Promise!MTNext
  <2>2. CASE EndShutdown
    <3>1. \A s \in Sessions : Phase(s)' = Phase(s)
      BY <2>2, PhaseQuiet
         DEF EndShutdown, registryVars, sessionVars, ListedAlike
    <3> QED
      BY <3>1, PhaseSame
  <2>3. ASSUME NEW t \in Sessions, RollbackPending(t) \/ ClosePending(t)
        PROVE  Promise!MTNext \/ UNCHANGED phaseOf
    BY <2>3, DrainPhases DEF Promise!MTNext
  <2> QED
    BY <1>4, <2>1, <2>2, <2>3 DEF ShutdownStep
<1>5. ASSUME NEW t \in Sessions, LoseConnection(t)
      PROVE  Promise!MTNext \/ UNCHANGED phaseOf
  BY <1>5, LoseConnectionPhases DEF Promise!MTNext
<1>6. CASE UNCHANGED vars
  <2>1. \A s \in Sessions : Phase(s)' = Phase(s)
    BY <1>6, PhaseQuiet
       DEF vars, registryVars, sessionVars, shutdownVars, ListedAlike
  <2> QED
    BY <2>1, PhaseSame
<1> QED
  BY <1>2, <1>3, <1>4, <1>5, <1>6 DEF Next

(***************************************************************************)
(* Types and the invariant of the managed transactions hold in every       *)
(* reachable state, for any number of callers and sessions, any mixture of *)
(* drivers, with and without servers that abort at an error.               *)
(***************************************************************************)
THEOREM TransactionInvariance == Spec => []Inv
<1>1. Init => Inv
  BY TypeInit, TxInit, RestInit DEF Inv
<1>2. Inv /\ [Next]_vars => Inv'
  BY TypeStep, TxStep, RestNext DEF Inv
<1> QED
  BY <1>1, <1>2, PTL DEF Spec

(***************************************************************************)
(* Every open session is in the registry, in Shutdown's list or in the     *)
(* hands of exactly one goroutine: it is ended once, and never forgotten.  *)
(***************************************************************************)
THEOREM EndedByOne == Spec => []OneOwner
<1>1. Inv => OneOwner
  BY DEF Inv, TxInv
<1> QED
  BY <1>1, TransactionInvariance, PTL

(***************************************************************************)
(* What the registry offers can still be committed or rolled back.         *)
(***************************************************************************)
THEOREM RegisteredIsUndecided == Spec => []PendingIsUndecided
<1>1. Inv => PendingIsUndecided
  BY DEF Inv, TxInv
<1> QED
  BY <1>1, TransactionInvariance, PTL

(***************************************************************************)
(* "Rolled back" is answered only of a transaction that is undone, and     *)
(* "committed" only of one that is committed, on servers that do not abort *)
(* a transaction at a failed statement.                                    *)
(***************************************************************************)
THEOREM RepliesAreHonest == Spec => []RepliesAreTrue
<1>1. Inv => RepliesAreTrue
  BY DEF Inv, TxInv, RepliesAreTrue
<1> QED
  BY <1>1, TransactionInvariance, PTL

(***************************************************************************)
(* A session of a driver with BEGIN as text goes back to the pool with no  *)
(* transaction open, unless its BEGIN, COMMIT or ROLLBACK came back with   *)
(* an error and left one.                                                  *)
(***************************************************************************)
THEOREM PoolStaysClean == Spec => []PoolIsClean
<1>1. Inv => PoolIsClean
  BY DEF Inv, CloseInv, AtRest, PoolIsClean
<1> QED
  BY <1>1, TransactionInvariance, PTL

(***************************************************************************)
(* Every transaction that Shutdown's drain took is undone when the drain   *)
(* has closed its session, unless the server kept it open.                 *)
(***************************************************************************)
THEOREM DrainUndoes == Spec => DrainedAreUndone
<1>1. ASSUME Inv, [Next]_vars
      PROVE  [\A t \in closing : t \notin closing' =>
                 /\ execer'[t] = "closed"
                 /\ fate'[t] = "rolledback" \/ t \in unsettled]_vars
  <2>1. TypeOK /\ TxInv /\ CloseInv
    BY <1>1 DEF Inv
  <2>2. CASE closing' = closing
    BY <2>2
  <2>3. ASSUME NEW s \in Sessions, ClosePending(s)
        PROVE  \A t \in closing : t \notin closing' =>
                   /\ execer'[t] = "closed"
                   /\ fate'[t] = "rolledback" \/ t \in unsettled
    BY <2>1, <2>3, ClosePendingView DEF Undone
  <2>4. ASSUME NEW s \in Sessions, RollbackPending(s) PROVE closing = {}
    BY <2>4 DEF RollbackPending
  <2>5. ASSUME NEW c \in Callers, Request(c) \/ Progress(c)
        PROVE  closing' = closing
    <3> USE <2>5 DEF Request, Progress, shutdownVars
    <3>1. CASE Request(c)
      BY <3>1 DEF BeginStart, LookupTransaction, BeginFinish, Cancel
    <3>2. CASE Progress(c)
      BY <3>2 DEF OpenSession, OpenFails, BeginSQL, CheckActive, StatementOk,
                  StatementFails, UndoStart, Register, RegisterQuery, Reply,
                  ControlSession, CloseSession, ForceStop
    <3> QED
      BY <3>1, <3>2
  <2>6. ASSUME \/ BeginShutdown \/ EndShutdown
               \/ \E t \in Sessions : LoseConnection(t)
               \/ UNCHANGED vars
        PROVE  closing' = closing
    BY <2>6 DEF BeginShutdown, EndShutdown, LoseConnection, shutdownVars, vars
  <2> QED
    BY <1>1, <2>2, <2>3, <2>4, <2>5, <2>6 DEF Next, ShutdownStep
<1> QED
  BY <1>1, TransactionInvariance, PTL DEF Spec, DrainedAreUndone

(***************************************************************************)
(* The goroutines, Shutdown and the connections that get lost implement    *)
(* ManagedTransaction: a transaction is offered only after its statements  *)
(* succeeded, committed only on request, and decided once.                 *)
(***************************************************************************)
THEOREM TransactionsKeepPromise == Spec => ImplementsPromise
<1>1. Init => Promise!MTInit
  BY PhaseInit
<1>2. Inv /\ Inv' /\ [Next]_vars => [Promise!MTNext]_phaseOf
  BY PhaseStep
<1> QED
  BY <1>1, <1>2, TransactionInvariance, PTL
     DEF Spec, ImplementsPromise, Promise!MTSpec

\* Every step of the promise moves transactions on.
LEMMA PromiseMovesOn ==
    ASSUME [Promise!MTNext]_phaseOf
    PROVE  [\A t \in Sessions : Promise!MovesOn(t)]_phaseOf
<1>. DEFINE phase == phaseOf
<1>1. phase = [t \in Sessions |-> phase[t]]
  BY DEF phaseOf
<1>2. CASE \E t \in Sessions :
              \/ Promise!Open(t) \/ Promise!Expose(t) \/ Promise!RequestCommit(t)
              \/ Promise!RequestRollback(t) \/ Promise!Commit(t) \/ Promise!Undo(t)
              \/ Promise!Abandon(t)
  <2>1. PICK t \in Sessions :
              \/ Promise!Open(t) \/ Promise!Expose(t) \/ Promise!RequestCommit(t)
              \/ Promise!RequestRollback(t) \/ Promise!Commit(t) \/ Promise!Undo(t)
              \/ Promise!Abandon(t)
    BY <1>2
  <2>2. PICK to \in Promise!Phases, from \in SUBSET Promise!Phases :
              Promise!Move(t, from, to) /\ Promise!Ended \cap from = {}
              /\ (to = "committed" => from = {"committing"})
              /\ (to = "committing" => from = {"pending"})
              /\ (to = "pending" => from = {"working"})
              /\ (to = "abandoned" => "pending" \notin from)
    BY <2>1 DEF Promise!Open, Promise!Expose, Promise!RequestCommit,
         Promise!RequestRollback, Promise!Commit, Promise!Undo, Promise!Abandon,
         Promise!Phases, Promise!Decided, Promise!Ended
  <2>3. phase'[t] = to /\ phase[t] \in from
        /\ \A s \in Sessions \ {t} : phase'[s] = phase[s]
    BY <1>1, <2>2 DEF Promise!Move
  <2>. HIDE DEF phase
  <2>4. \A s \in Sessions : Promise!MovesOn(s)
    BY <2>2, <2>3 DEF Promise!MovesOn, phase, Promise!Ended, Promise!Decided
  <2>. QED  BY <2>4
<1>3. CASE \E S \in SUBSET Sessions : Promise!Drain(S)
  <2>1. \A s \in Sessions : phase'[s] = phase[s]
            \/ (phase[s] = "pending" /\ phase'[s] = "rollingback")
    BY <1>3 DEF Promise!Drain
  <2>. HIDE DEF phase
  <2>2. \A s \in Sessions : Promise!MovesOn(s)
    BY <2>1 DEF Promise!MovesOn, phase, Promise!Ended, Promise!Decided
  <2>. QED  BY <2>2
<1>. QED  BY <1>2, <1>3 DEF Promise!MTNext

\* Every transaction is ended once, by whichever of commit, rollback, cancel,
\* failure, lost connection and Shutdown comes first, is committed only after
\* a commit was asked for while it was pending, and is abandoned to its server
\* only after its end was asked for.
THEOREM DecisionsAreFinal == Spec => Promise!DecidedOnce
  BY TransactionsKeepPromise, PromiseMovesOn, PTL
  DEF ImplementsPromise, Promise!MTSpec, Promise!DecidedOnce

----------------------------------------------------------------------------
(* Calls and the drain come to their ends.                                 *)

LEMMA PlaceNumbers ==
    /\ PlaceNo["idle"] = 0 /\ PlaceNo["reply"] = 1 /\ PlaceNo["register"] = 1
    /\ PlaceNo["close"] = 1 /\ PlaceNo["undo"] = 2 /\ PlaceNo["control"] = 2
    /\ PlaceNo["drop"] = 3 /\ PlaceNo["run"] = 4 /\ PlaceNo["check"] = 5
    /\ PlaceNo["begin"] = 6 /\ PlaceNo["lookup"] = 6 /\ PlaceNo["open"] = 7
BY DEF PlaceNo

\* What a step does to the measure: the place, or a statement less.
LEMMA NearerByPlace ==
    ASSUME TypeOK, TypeOK', NEW c \in Callers,
           \/ /\ call'[c].left <= call[c].left
              /\ PlaceNo[pc'[c]] < PlaceNo[pc[c]]
           \/ /\ call'[c].left = call[c].left - 1
              /\ PlaceNo[pc'[c]] <= PlaceNo[pc[c]] + 1
    PROVE  Ahead(c)' < Ahead(c)
<1>1. call[c].left \in Nat /\ call'[c].left \in Nat
  BY ConstantsAssumption DEF TypeOK, Call
<1>2. \A p \in Places : PlaceNo[p] \in Nat
  BY PlaceNumbers DEF Places
<1>3. pc[c] \in Places /\ pc'[c] \in Places
  BY DEF TypeOK
<1>. HIDE DEF Places
<1> QED
  BY <1>1, <1>2, <1>3 DEF Ahead

LEMMA ReturnIsNearer ==
    ASSUME TypeOK, TypeOK', NEW c \in Callers, pc[c] # "idle", Return(c)
    PROVE  Ahead(c)' < Ahead(c)
<1>1. pc'[c] = "idle" /\ call'[c] = NoCall
  BY DEF Return, Goto, TypeOK
<1>2. PlaceNo[pc'[c]] < PlaceNo[pc[c]]
  BY <1>1, PlaceNumbers DEF TypeOK, Places
<1>3. call'[c].left <= call[c].left
  BY <1>1, ConstantsAssumption DEF NoCall, TypeOK, Call
<1> QED
  BY <1>2, <1>3, NearerByPlace

LEMMA ProgressIsNearer ==
    ASSUME TypeOK, TypeOK', NEW c \in Callers, Progress(c)
    PROVE  Ahead(c)' < Ahead(c)
<1>0. /\ pc \in [Callers -> Places] /\ call \in [Callers -> Call]
      /\ call[c].left \in Nat
  BY ConstantsAssumption DEF TypeOK, Call
<1> DEFINE Onward == call'[c] = call[c] /\ PlaceNo[pc'[c]] < PlaceNo[pc[c]]
<1>1. ASSUME Onward PROVE Ahead(c)' < Ahead(c)
  BY <1>0, <1>1, NearerByPlace
<1>2. CASE OpenSession(c)
  <2>1. pc[c] = "open" /\ pc'[c] \in {"begin", "check", "run"} /\ call' = call
    BY <1>0, <1>2 DEF OpenSession, Goto, Statement
  <2> QED
    BY <1>1, <2>1, PlaceNumbers
<1>3. CASE OpenFails(c) \/ Register(c) \/ Reply(c) \/ CloseSession(c)
  <2>1. pc[c] # "idle" /\ Return(c)
    BY <1>3 DEF OpenFails, Register, Reply, CloseSession
  <2> QED
    BY <2>1, ReturnIsNearer
<1>4. CASE BeginSQL(c)
  <2>1. pc[c] = "begin" /\ pc'[c] \in {"check", "run", "close"} /\ call' = call
    BY <1>0, <1>4 DEF BeginSQL, Goto, Statement
  <2> QED
    BY <1>1, <2>1, PlaceNumbers
<1>5. CASE CheckActive(c)
  <2>1. pc[c] = "check" /\ pc'[c] \in {"undo", "reply", "run"} /\ call' = call
    BY <1>0, <1>5 DEF CheckActive, Goto
  <2> QED
    BY <1>1, <2>1, PlaceNumbers
<1>6. CASE StatementOk(c)
  <2>1. pc[c] = "run" /\ pc'[c] \in {"check", "run", "register", "reply"}
    BY <1>0, <1>6 DEF StatementOk, Goto, Statement
  <2>2. call'[c].left = call[c].left - 1
    BY <1>0, <1>6 DEF StatementOk, Call
  <2> QED
    BY <2>1, <2>2, PlaceNumbers, NearerByPlace
<1>7. CASE StatementFails(c)
  <2>1. pc[c] = "run" /\ pc'[c] \in {"undo", "reply"} /\ call' = call
    BY <1>0, <1>7 DEF StatementFails, Goto
  <2> QED
    BY <1>1, <2>1, PlaceNumbers
<1>8. CASE UndoStart(c)
  <2>1. pc[c] = "undo" /\ pc'[c] = "close" /\ call' = call
    BY <1>0, <1>8 DEF UndoStart, Goto
  <2> QED
    BY <1>1, <2>1, PlaceNumbers
<1>9. CASE RegisterQuery(c)
  <2>1. pc[c] = "lookup" /\ pc'[c] \in {"check", "run"} /\ call' = call
    BY <1>0, <1>9 DEF RegisterQuery, Goto, Statement
  <2> QED
    BY <1>1, <2>1, PlaceNumbers
<1>10. CASE ControlSession(c)
  <2>1. pc[c] = "control" /\ pc'[c] = "close"
    BY <1>0, <1>10 DEF ControlSession, Goto
  <2>2. \E ok \in BOOLEAN : call' = [call EXCEPT ![c].ok = ok]
    BY <1>10 DEF ControlSession
  <2>3. call'[c].left = call[c].left
    BY <1>0, <2>2 DEF Call
  <2> QED
    BY <1>0, <2>1, <2>3, PlaceNumbers, NearerByPlace
<1>11. CASE ForceStop(c)
  <2>1. CASE Return(c)
    BY <1>11, <2>1, ReturnIsNearer DEF ForceStop
  <2>2. CASE ~Return(c)
    <3>1. pc[c] = "drop" /\ pc'[c] = "control" /\ call' = call
      BY <1>0, <1>11, <2>2 DEF ForceStop, Goto
    <3> QED
      BY <1>1, <3>1, PlaceNumbers
  <2> QED
    BY <2>1, <2>2
<1> QED
  BY <1>2, <1>3, <1>4, <1>5, <1>6, <1>7, <1>8, <1>9, <1>10, <1>11 DEF Progress

\* The locals of a call that has begun are its own.
LEMMA OthersLeaveCall ==
    ASSUME TypeOK, NEW c \in Callers, pc[c] # "idle", [Next]_vars, ~Progress(c)
    PROVE  pc'[c] = pc[c] /\ call'[c] = call[c]
<1>0. pc \in [Callers -> Places] /\ call \in [Callers -> Call]
  BY DEF TypeOK
<1>1. ASSUME NEW d \in Callers, d # c, Progress(d)
      PROVE  pc'[c] = pc[c] /\ call'[c] = call[c]
  <2> USE <1>0 DEF Goto, Return
  <2>1. CASE OpenSession(d) \/ OpenFails(d) \/ BeginSQL(d) \/ CheckActive(d)
    BY <1>1, <2>1 DEF OpenSession, OpenFails, BeginSQL, CheckActive
  <2>2. CASE StatementOk(d) \/ StatementFails(d) \/ UndoStart(d) \/ Register(d)
    BY <1>1, <2>2 DEF StatementOk, StatementFails, UndoStart, Register
  <2>3. CASE RegisterQuery(d) \/ Reply(d) \/ ControlSession(d)
    BY <1>1, <2>3 DEF RegisterQuery, Reply, ControlSession
  <2>4. CASE CloseSession(d) \/ ForceStop(d)
    BY <1>1, <2>4 DEF CloseSession, ForceStop
  <2> QED
    BY <1>1, <2>1, <2>2, <2>3, <2>4 DEF Progress
<1>2. ASSUME NEW d \in Callers, Request(d)
      PROVE  pc'[c] = pc[c] /\ call'[c] = call[c]
  BY <1>0, <1>2 DEF Request, BeginStart, LookupTransaction, BeginFinish, Cancel,
     Enter, Goto
<1>3. CASE ShutdownStep \/ (\E t \in Sessions : LoseConnection(t)) \/ UNCHANGED vars
  BY <1>3 DEF ShutdownStep, BeginShutdown, EndShutdown, RollbackPending,
     ClosePending, LoseConnection, vars
<1> QED
  BY <1>1, <1>2, <1>3 DEF Next

\* Every bound method of the managed transactions comes nearer to its return with
\* each of its steps, whatever cancels it or ends its transaction beside it.
THEOREM MethodsEndInTime == Spec => CallsWindDown
<1>1. ASSUME TypeOK, TypeOK', [Next]_vars
      PROVE  [\A c \in Callers : pc[c] # "idle" =>
                IF Progress(c) THEN Ahead(c)' < Ahead(c)
                               ELSE Ahead(c)' = Ahead(c)]_vars
  <2>1. ASSUME NEW c \in Callers, pc[c] # "idle", ~Progress(c)
        PROVE  Ahead(c)' = Ahead(c)
    BY <1>1, <2>1, OthersLeaveCall DEF Ahead
  <2> QED
    BY <1>1, <2>1, ProgressIsNearer
<1>2. Inv => TypeOK
  BY DEF Inv
<1> QED
  BY <1>1, <1>2, TransactionInvariance, PTL DEF Spec, CallsWindDown

\* The drain of rollbackPendingSQLTransactionsOnShutdown ends: nothing is added to
\* its list, and each of its steps takes something off.
THEOREM DrainEndsInTime == Spec => DrainWindsDown
<1>1. ASSUME [Next]_vars, shutdown = "drain"
      PROVE  /\ pending' \subseteq pending
             /\ closing' \subseteq closing \cup (pending \ pending')
             /\ ShutdownStep =>
                   pending' # pending \/ closing' # closing \/ shutdown' = "done"
  <2>1. ASSUME NEW c \in Callers, Request(c) \/ Progress(c)
        PROVE  UNCHANGED shutdownVars
    <3>1. CASE Request(c)
      BY <3>1 DEF Request, BeginStart, LookupTransaction, BeginFinish, Cancel
    <3>2. CASE OpenSession(c) \/ OpenFails(c) \/ BeginSQL(c) \/ CheckActive(c)
      BY <3>2 DEF OpenSession, OpenFails, BeginSQL, CheckActive
    <3>3. CASE StatementOk(c) \/ StatementFails(c) \/ UndoStart(c) \/ Register(c)
      BY <3>3 DEF StatementOk, StatementFails, UndoStart, Register
    <3>4. CASE \/ RegisterQuery(c) \/ Reply(c) \/ ControlSession(c)
               \/ CloseSession(c) \/ ForceStop(c)
      BY <3>4 DEF RegisterQuery, Reply, ControlSession, CloseSession, ForceStop
    <3> QED
      BY <2>1, <3>1, <3>2, <3>3, <3>4 DEF Progress
  <2>2. ASSUME (\E t \in Sessions : LoseConnection(t)) \/ UNCHANGED vars
        PROVE  UNCHANGED shutdownVars
    BY <2>2 DEF LoseConnection, vars
  <2>3. CASE ShutdownStep
    BY <1>1, <2>3 DEF ShutdownStep, BeginShutdown, EndShutdown, RollbackPending,
       ClosePending
  <2> QED
    BY <1>1, <2>1, <2>2, <2>3 DEF Next, shutdownVars
<1> QED
  BY <1>1, PTL DEF Spec, DrainWindsDown

=============================================================================
