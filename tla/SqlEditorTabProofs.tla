-------------------------- MODULE SqlEditorTabProofs --------------------------
(* Proofs about the editor's side of managed transactions, for any number  *)
(* of tabs, mounts and transactions.                                       *)
EXTENDS SqlEditorTab, TLAPS

\* On the way back, or where a way back is still open.
Gone == {"rolledback", "abandoned"}
Undone == {"pending", "rollingback"} \cup Gone

\* What an editor has in its hands nobody has asked to finish, and nobody else
\* has.
HandsOK ==
    \A e \in Editors :
        /\ pendingRef[e] # NoTx =>
             /\ phase[pendingRef[e]] \in Undone
             /\ pendingRef[e] \notin asked
             /\ run[e] = NoRun
        /\ run[e].tx # NoTx =>
             /\ phase[run[e].tx] # "absent"
             /\ run[e].tx \notin asked
        /\ run[e].tx = NoTx => run[e].reply = "none"
        /\ run[e].reply = "pending" => phase[run[e].tx] \in Undone
        /\ run[e].reply = "failed" => phase[run[e].tx] \in Gone
        /\ timer[e] # NoTx => timer[e] = pendingRef[e]

ApartOK ==
    \A e, d \in Editors : e # d =>
        /\ pendingRef[e] # NoTx => pendingRef[e] # pendingRef[d]
        /\ run[e].tx # NoTx => run[e].tx \notin {run[d].tx, pendingRef[d]}

\* Requests of editors are remembered, and the quit asks for rollbacks only.
AskedOK ==
    /\ \A t \in asked : phase[t] # "absent"
    /\ \A e \in Editors : finishing[e] \subseteq asked
    /\ \A r \in rpc : IF r.from \in Editors THEN r.tx \in asked
                                            ELSE r.do = "rollback"

ClosedOK ==
    \A t \in closedWith :
        /\ t \in asked
        /\ phase[t] \in Undone
        /\ \A r \in rpc : r.tx = t => r.do = "rollback"

\* As long as no reply came late the store shows what the mounted editor of
\* the tab has.
ViewOK ==
    /\ \A e \in Editors :
          /\ view[e] = "unborn" => run[e] = NoRun /\ pendingRef[e] = NoTx
          /\ pendingRef[e] # NoTx => Mounted(e) \/ pendingRef[e] \in late
    /\ \A e, d \in Editors :
          Mounted(e) /\ Mounted(d) /\ TabOf[e] = TabOf[d] => e = d

StoreOK ==
    late = {} /\ Up =>
        /\ \A e \in Editors : Mounted(e) => store[TabOf[e]] = pendingRef[e]
        /\ \A b \in Tabs : store[b] # NoTx =>
             \E e \in Editors : Mounted(e) /\ TabOf[e] = b

TrackOK ==
    Up => \A t \in Txs : phase[t] = "pending" =>
        (\E e \in Editors : pendingRef[e] = t) \/ OnTheWay(t)

IInv ==
    /\ TypeOK /\ HandsOK /\ ApartOK /\ AskedOK /\ ClosedOK
    /\ ViewOK /\ StoreOK /\ TrackOK

EditorStep(e) ==
    \/ Mount(e) \/ Run(e) \/ RunEnds(e) \/ RunReturns(e)
    \/ Click(e, "commit") \/ Click(e, "rollback")
    \/ TimerFires(e) \/ Unmount(e)

----------------------------------------------------------------------------
(* The initial states.                                                     *)

LEMMA EditorInit == Init => IInv
<1> SUFFICES ASSUME Init PROVE IInv
  OBVIOUS
<1>1. TypeOK
  <2>1. phase \in [Txs -> Backend!Phases]
    BY DEF Init, Backend!MTInit, Backend!Phases
  <2> QED
    BY <2>1, ConstantsAssumption DEF Init, TypeOK, OptTx, NoRun
<1>2. \A t \in Txs : phase[t] = "absent"
  BY DEF Init, Backend!MTInit
<1>3. HandsOK /\ ApartOK /\ AskedOK /\ ClosedOK
  BY DEF Init, HandsOK, ApartOK, AskedOK, ClosedOK, NoRun
<1>4. ViewOK /\ StoreOK
  BY ConstantsAssumption DEF Init, ViewOK, StoreOK, Mounted
<1>5. TrackOK
  BY <1>2 DEF TrackOK
<1> QED
  BY <1>1, <1>3, <1>4, <1>5 DEF IInv

----------------------------------------------------------------------------
(* The types.                                                              *)

\* A move of the backend's specification changes the phase of one transaction.
LEMMA MoveTypes ==
    ASSUME TypeOK, NEW t \in Txs, NEW from, NEW to \in Backend!Phases,
           Backend!Move(t, from, to)
    PROVE  /\ phase' \in [Txs -> Backend!Phases]
           /\ phase[t] \in from
           /\ phase'[t] = to
           /\ \A u \in Txs : u # t => phase'[u] = phase[u]
BY DEF TypeOK, Backend!Move

LEMMA EditorTypes ==
    ASSUME TypeOK, HandsOK, NEW e \in Editors, EditorStep(e)
    PROVE  TypeOK'
<1> USE DEF TypeOK
<1>t. TabOf[e] \in Tabs /\ NoTx \in OptTx /\ Txs \subseteq OptTx
  BY ConstantsAssumption DEF OptTx
<1>f. ASSUME NEW do \in {"commit", "rollback"}, FinishPending(e, do)
      PROVE  /\ rpc' \in SUBSET Request
             /\ pendingRef' \in [Editors -> OptTx]
             /\ finishing' \in [Editors -> SUBSET Txs]
             /\ timer' \in [Editors -> OptTx]
             /\ store' \in [Tabs -> OptTx]
             /\ asked' \in SUBSET Txs
  <2>1. pendingRef[e] \in Txs
    BY <1>f DEF FinishPending, OptTx
  <2>2. rpc' \in SUBSET Request
    BY <1>f, <2>1 DEF FinishPending, Ask, Request
  <2>3. pendingRef' \in [Editors -> OptTx] /\ store' \in [Tabs -> OptTx]
    BY <1>f, <1>t DEF FinishPending, Hide
  <2>4. finishing' \in [Editors -> SUBSET Txs]
    BY <1>f, <2>1 DEF FinishPending
  <2>5. timer' \in [Editors -> OptTx] /\ asked' \in SUBSET Txs
    BY <1>f, <2>1, <1>t DEF FinishPending
  <2> QED
    BY <2>2, <2>3, <2>4, <2>5
<1>1. CASE Mount(e)
  BY <1>1 DEF Mount, histVars
<1>2. CASE Run(e)
  <2>1. phase' \in [Txs -> Backend!Phases]
    BY <1>2, MoveTypes DEF Run, Backend!Open, Backend!Phases
  <2>2. run' \in [Editors -> [tx : OptTx, reply : {"none", "pending", "failed"}]]
    BY <1>2, <1>t DEF Run
  <2> QED
    BY <1>2, <2>1, <2>2 DEF Run, histVars
<1>3. CASE RunEnds(e)
  <2>0. run[e].tx \in Txs
    BY <1>3 DEF RunEnds, OptTx
  <2>1. phase' \in [Txs -> Backend!Phases]
    BY <1>3, <2>0, MoveTypes DEF RunEnds, Backend!Expose, Backend!Undo,
       Backend!Abandon, Undoes, Backend!Phases, Backend!Decided, Backend!Ended
  <2>2. run' \in [Editors -> [tx : OptTx, reply : {"none", "pending", "failed"}]]
    BY <1>3 DEF RunEnds
  <2> QED
    BY <1>3, <2>1, <2>2 DEF RunEnds, histVars
<1>4. CASE RunReturns(e)
  <2>1. run' \in [Editors -> [tx : OptTx, reply : {"none", "pending", "failed"}]]
    BY <1>4, <1>t DEF RunReturns, NoRun
  <2>2. CASE run[e].reply = "pending"
    <3>1. run[e].tx \in OptTx
      OBVIOUS
    <3>2. Activate(e, run[e].tx)
      BY <1>4, <2>2 DEF RunReturns
    <3>3. /\ timer' \in [Editors -> OptTx]
          /\ pendingRef' \in [Editors -> OptTx]
          /\ store' \in [Tabs -> OptTx]
      BY <3>1, <3>2, <1>t DEF Activate
    <3>4. run[e].tx \in Txs
      BY <2>2, <3>1 DEF HandsOK, OptTx
    <3>5. late' \in SUBSET Txs
      BY <1>4, <2>2, <3>4 DEF RunReturns
    <3> QED
      BY <1>4, <2>1, <3>3, <3>5 DEF RunReturns
  <2>3. CASE run[e].reply # "pending"
    BY <1>4, <2>1, <2>3 DEF RunReturns
  <2> QED
    BY <2>2, <2>3
<1>5. CASE Click(e, "commit") \/ Click(e, "rollback")
  BY <1>5, <1>f DEF Click
<1>6. CASE TimerFires(e)
  <2>1. CASE FinishPending(e, "commit")
    BY <1>6, <2>1, <1>f DEF TimerFires
  <2>2. CASE ~FinishPending(e, "commit")
    BY <1>6, <2>2, <1>t DEF TimerFires
  <2> QED
    BY <2>1, <2>2
<1>7. CASE Unmount(e)
  <2>1. view' \in [Editors -> {"unborn", "mounted", "unmounted"}]
        /\ timer' \in [Editors -> OptTx]
    BY <1>7, <1>t DEF Unmount
  <2>2. CASE pendingRef[e] = NoTx
    BY <1>7, <2>1, <2>2 DEF Unmount
  <2>3. CASE pendingRef[e] # NoTx
    <3>1. pendingRef[e] \in Txs
      BY <2>3 DEF OptTx
    <3>2. rpc' \in SUBSET Request
      BY <1>7, <2>3, <3>1 DEF Unmount, Ask, Request
    <3>3. pendingRef' \in [Editors -> OptTx] /\ store' \in [Tabs -> OptTx]
      BY <1>7, <2>3, <1>t DEF Unmount, Hide
    <3> QED
      BY <1>7, <2>1, <2>3, <3>1, <3>2, <3>3 DEF Unmount
  <2> QED
    BY <2>2, <2>3
<1> QED
  BY <1>1, <1>2, <1>3, <1>4, <1>5, <1>6, <1>7 DEF EditorStep

LEMMA BackendTypes ==
    ASSUME TypeOK,
           \/ \E r \in rpc : Serve(r) \/ Reply(r)
           \/ Quit \/ QuitEnds
           \/ \E t \in Txs : DrainUndoes(t)
    PROVE  TypeOK'
<1> USE DEF TypeOK
<1>1. ASSUME NEW r \in rpc, Serve(r)
      PROVE  TypeOK'
  <2>1. r \in Request /\ r.tx \in Txs
    BY DEF Request
  <2>2. phase' \in [Txs -> Backend!Phases]
    BY <1>1, <2>1, MoveTypes DEF Serve, Backend!RequestCommit, Backend!RequestRollback,
       Backend!Phases
  <2>3. rpc' \in SUBSET Request
    BY <1>1, <2>1 DEF Serve, Request
  <2>4. finishing' \in [Editors -> SUBSET Txs]
    BY <1>1 DEF Serve
  <2> QED
    BY <1>1, <2>2, <2>3, <2>4 DEF Serve, histVars
<1>2. ASSUME NEW r \in rpc, Reply(r)
      PROVE  TypeOK'
  <2>1. r \in Request /\ r.tx \in Txs
    BY DEF Request
  <2>2. phase' \in [Txs -> Backend!Phases]
    BY <1>2, <2>1, MoveTypes DEF Reply, Backend!Commit, Backend!Undo,
       Backend!Abandon, Undoes, Backend!Phases, Backend!Decided, Backend!Ended
  <2>3. rpc' \in SUBSET Request
    BY <1>2 DEF Reply
  <2>4. finishing' \in [Editors -> SUBSET Txs]
    BY <1>2 DEF Reply
  <2> QED
    BY <1>2, <2>2, <2>3, <2>4 DEF Reply, histVars
<1>3. CASE Quit
  <2>1. rpc' \in SUBSET Request
    BY <1>3 DEF Quit, Request, OptTx
  <2> QED
    BY <1>3, <2>1 DEF Quit, editVars, histVars
<1>4. CASE QuitEnds
  <2>1. phase' \in [Txs -> Backend!Phases]
    BY <1>4 DEF QuitEnds, Backend!Drain, Backend!Phases
  <2>2. store' \in [Tabs -> OptTx]
    BY <1>4 DEF QuitEnds, OptTx
  <2> QED
    BY <1>4, <2>1, <2>2 DEF QuitEnds, histVars
<1>5. ASSUME NEW t \in Txs, DrainUndoes(t)
      PROVE  TypeOK'
  <2>1. phase' \in [Txs -> Backend!Phases]
    BY <1>5, MoveTypes DEF DrainUndoes, Backend!Undo, Backend!Abandon,
         Undoes, Gone, Backend!Phases, Backend!Decided, Backend!Ended
  <2> QED
    BY <1>5, <2>1 DEF DrainUndoes, editVars, histVars
<1> QED
  BY <1>1, <1>2, <1>3, <1>4, <1>5

----------------------------------------------------------------------------
(* What an editor does.                                                    *)

LEMMA MountStep ==
    ASSUME IInv, NEW e \in Editors, Mount(e)
    PROVE  /\ HandsOK' /\ ApartOK' /\ AskedOK' /\ ClosedOK'
           /\ ViewOK' /\ StoreOK' /\ TrackOK'
<1>1. /\ UNCHANGED <<phase, rpc, run, pendingRef, finishing, timer, store, quitting>>
      /\ UNCHANGED <<asked, closedWith, late>>
  BY DEF Mount, histVars
<1>2. /\ view[e] = "unborn" /\ view'[e] = "mounted"
      /\ \A d \in Editors : d # e => view'[d] = view[d]
      /\ \A d \in Editors : TabOf[d] = TabOf[e] => ~Mounted(d)
  BY DEF Mount, IInv, TypeOK
<1>3. HandsOK' /\ ApartOK' /\ AskedOK' /\ ClosedOK'
  BY <1>1 DEF IInv, HandsOK, ApartOK, AskedOK, ClosedOK
<1>4. ViewOK'
  BY <1>1, <1>2 DEF IInv, ViewOK, Mounted
<1>5. StoreOK'
  <2>1. pendingRef[e] = NoTx
    BY <1>2 DEF IInv, ViewOK
  <2>2. TabOf[e] \in Tabs
    BY ConstantsAssumption
  <2>3. late = {} /\ Up => store[TabOf[e]] = NoTx
    BY <1>2, <2>2 DEF IInv, StoreOK
  <2> QED
    BY <1>1, <1>2, <2>1, <2>3 DEF IInv, StoreOK, Mounted, Up
<1>6. TrackOK'
  BY <1>1 DEF IInv, TrackOK, OnTheWay, Up
<1> QED
  BY <1>3, <1>4, <1>5, <1>6

LEMMA RunStep ==
    ASSUME IInv, NEW e \in Editors, Run(e)
    PROVE  /\ HandsOK' /\ ApartOK' /\ AskedOK' /\ ClosedOK'
           /\ ViewOK' /\ StoreOK' /\ TrackOK'
<1> DEFINE t == NewTx
<1> HIDE DEF t
<1>1. /\ UNCHANGED <<rpc, view, pendingRef, finishing, timer, store, quitting>>
      /\ UNCHANGED <<asked, closedWith, late>>
  BY DEF Run, histVars
<1>2. /\ t \in Txs /\ phase[t] = "absent" /\ phase'[t] = "working"
      /\ \A u \in Txs : u # t => phase'[u] = phase[u]
  <2>1. t \in Txs /\ Backend!Move(t, {"absent"}, "working")
    BY DEF Run, Backend!Open, t
  <2> QED
    BY <2>1, MoveTypes DEF IInv, Backend!Phases
<1>3. /\ Mounted(e) /\ run[e] = NoRun /\ pendingRef[e] = NoTx
      /\ run'[e] = [tx |-> t, reply |-> "none"]
      /\ \A d \in Editors : d # e => run'[d] = run[d]
  BY DEF Run, IInv, TypeOK, t
<1>4. t # NoTx
  BY <1>2, ConstantsAssumption
<1>5. \A d \in Editors : /\ pendingRef[d] \in Txs \cup {NoTx}
                         /\ run[d].tx \in Txs \cup {NoTx}
  BY DEF IInv, TypeOK, OptTx
<1>6. \A d \in Editors : /\ pendingRef[d] # t
                         /\ run[d].tx # t
  BY <1>2, <1>4, <1>5 DEF IInv, HandsOK, Undone, Gone
<1>7. t \notin asked
  BY <1>2 DEF IInv, AskedOK
<1>8. HandsOK'
  <2>1. ASSUME NEW d \in Editors, d # e
        PROVE  /\ run'[d] = run[d]
               /\ pendingRef[d] # NoTx => phase'[pendingRef[d]] = phase[pendingRef[d]]
               /\ run[d].tx # NoTx => phase'[run[d].tx] = phase[run[d].tx]
    BY <2>1, <1>2, <1>3, <1>5, <1>6
  <2>2. ASSUME NEW d \in Editors, d # e
        PROVE  /\ run[d].reply # "none" => run[d].tx # NoTx
    BY DEF IInv, HandsOK
  <2> QED
    BY <1>1, <1>2, <1>3, <1>4, <1>7, <2>1, <2>2 DEF IInv, HandsOK
<1>9. ApartOK'
  BY <1>1, <1>3, <1>4, <1>6 DEF IInv, ApartOK, NoRun
<1>10. AskedOK'
  BY <1>1, <1>2, <1>7 DEF IInv, AskedOK, TypeOK
<1>11. ClosedOK'
  BY <1>1, <1>2, <1>7 DEF IInv, ClosedOK, TypeOK
<1>12. ViewOK'
  BY <1>1, <1>3 DEF IInv, ViewOK, Mounted
<1>13. StoreOK'
  BY <1>1 DEF IInv, StoreOK, Mounted, Up
<1>14. TrackOK'
  BY <1>1, <1>2, <1>3 DEF IInv, TrackOK, OnTheWay, Up, NoRun
<1> QED
  BY <1>8, <1>9, <1>10, <1>11, <1>12, <1>13, <1>14

LEMMA RunEndsStep ==
    ASSUME IInv, NEW e \in Editors, RunEnds(e)
    PROVE  /\ HandsOK' /\ ApartOK' /\ AskedOK' /\ ClosedOK'
           /\ ViewOK' /\ StoreOK' /\ TrackOK'
<1> DEFINE t == run[e].tx
<1> HIDE DEF t
<1>1. /\ UNCHANGED <<rpc, view, pendingRef, finishing, timer, store, quitting>>
      /\ UNCHANGED <<asked, closedWith, late>>
  BY DEF RunEnds, histVars
<1>2. t \in Txs /\ t # NoTx
  BY ConstantsAssumption DEF RunEnds, IInv, TypeOK, OptTx, t
<1>3. /\ phase[t] # "absent" /\ phase'[t] # "absent"
      /\ \A u \in Txs : u # t => phase'[u] = phase[u]
      /\ \/ phase'[t] = "pending" /\ run' = [run EXCEPT ![e].reply = "pending"]
         \/ phase'[t] \in Gone /\ run' = [run EXCEPT ![e].reply = "failed"]
  BY <1>2, MoveTypes
     DEF RunEnds, IInv, t, Backend!Expose, Backend!Undo, Backend!Abandon,
         Undoes, Gone, Backend!Phases, Backend!Decided, Backend!Ended
<1>4. /\ run'[e].tx = t
      /\ \/ run'[e].reply = "pending" /\ phase'[t] = "pending"
         \/ run'[e].reply = "failed" /\ phase'[t] \in Gone
      /\ \A d \in Editors : d # e => run'[d] = run[d]
  BY <1>3 DEF IInv, TypeOK, t
<1>5. \A d \in Editors : /\ pendingRef[d] \in Txs \cup {NoTx}
                         /\ run[d].tx \in Txs \cup {NoTx}
  BY DEF IInv, TypeOK, OptTx
<1>6. /\ run[e].tx = t /\ t \notin asked /\ run[e] # NoRun /\ pendingRef[e] = NoTx
      /\ \A d \in Editors : pendingRef[d] # t
      /\ \A d \in Editors : d # e => run[d].tx # t
  <2>1. run[e].tx = t /\ run[e] # NoRun
    BY <1>2 DEF t, NoRun
  <2> QED
    BY <2>1, <1>2 DEF IInv, HandsOK, ApartOK
<1>8. HandsOK'
  <2>1. ASSUME NEW d \in Editors, d # e
        PROVE  /\ run'[d] = run[d]
               /\ pendingRef[d] # NoTx => phase'[pendingRef[d]] = phase[pendingRef[d]]
               /\ run[d].tx # NoTx => phase'[run[d].tx] = phase[run[d].tx]
    BY <2>1, <1>3, <1>4, <1>5, <1>6
  <2>2. ASSUME NEW d \in Editors, d # e
        PROVE  /\ run[d].reply # "none" => run[d].tx # NoTx
    BY DEF IInv, HandsOK
  <2> QED
    BY <1>1, <1>2, <1>3, <1>4, <1>6, <2>1, <2>2 DEF IInv, HandsOK, Undone
<1>9. ApartOK'
  <2>1. \A d \in Editors : run'[d].tx = run[d].tx
    BY <1>4, <1>6
  <2> QED
    BY <1>1, <2>1 DEF IInv, ApartOK
<1>10. AskedOK'
  BY <1>1, <1>3, <1>6 DEF IInv, AskedOK, TypeOK
<1>11. ClosedOK'
  BY <1>1, <1>3, <1>6 DEF IInv, ClosedOK, TypeOK
<1>12. ViewOK'
  BY <1>1, <1>4, <1>6 DEF IInv, ViewOK, Mounted
<1>13. StoreOK'
  BY <1>1 DEF IInv, StoreOK, Mounted, Up
<1>14. TrackOK'
  BY <1>1, <1>3, <1>4, <1>6 DEF IInv, TrackOK, OnTheWay, Up
<1> QED
  BY <1>8, <1>9, <1>10, <1>11, <1>12, <1>13, <1>14

LEMMA RunReturnsStep ==
    ASSUME IInv, NEW e \in Editors, RunReturns(e)
    PROVE  /\ HandsOK' /\ ApartOK' /\ AskedOK' /\ ClosedOK'
           /\ ViewOK' /\ StoreOK' /\ TrackOK'
<1> DEFINE t == run[e].tx
<1> HIDE DEF t
<1>1. UNCHANGED <<phase, rpc, view, finishing, quitting, asked, closedWith>>
  BY DEF RunReturns
<1>2. /\ run'[e] = NoRun
      /\ \A d \in Editors : d # e => run'[d] = run[d]
  BY DEF RunReturns, IInv, TypeOK
<1>3. run[e].reply # "none" /\ t \in Txs /\ t # NoTx /\ run[e] # NoRun
  <2>1. run[e].reply # "none"
    BY DEF RunReturns
  <2>2. t # NoTx
    BY <2>1 DEF IInv, HandsOK, t
  <2> QED
    BY <2>1, <2>2 DEF IInv, TypeOK, OptTx, t, NoRun
<1>4. /\ pendingRef[e] = NoTx /\ t \notin asked /\ view[e] # "unborn"
      /\ \A d \in Editors : d # e => pendingRef[d] # t /\ run[d].tx # t
  BY <1>3 DEF IInv, HandsOK, ApartOK, ViewOK, t
<1>5. NoRun.tx = NoTx /\ NoRun.reply = "none"
  BY DEF NoRun
<1>6. AskedOK' /\ ClosedOK'
  BY <1>1 DEF IInv, AskedOK, ClosedOK
<1>7. CASE run[e].reply = "pending"
  <2>1. /\ Activate(e, t)
        /\ late' = IF Mounted(e) THEN late ELSE late \cup {t}
    BY <1>7 DEF RunReturns, t
  <2>2. phase[t] \in Undone
    BY <1>7 DEF IInv, HandsOK, t
  <2>3. /\ pendingRef'[e] = t
        /\ \A d \in Editors : d # e => pendingRef'[d] = pendingRef[d]
    BY <2>1 DEF Activate, IInv, TypeOK
  <2>4. /\ timer'[e] # NoTx => timer'[e] = t
        /\ \A d \in Editors : d # e => timer'[d] = timer[d]
    BY <2>1 DEF Activate, IInv, TypeOK
  <2>5. /\ TabOf[e] \in Tabs
        /\ store'[TabOf[e]] = t
        /\ \A b \in Tabs : b # TabOf[e] => store'[b] = store[b]
    BY <2>1, ConstantsAssumption DEF Activate, IInv, TypeOK
  <2>6. HandsOK'
    BY <1>1, <1>2, <1>4, <1>5, <2>2, <2>3, <2>4 DEF IInv, HandsOK
  <2>7. ApartOK'
    BY <1>2, <1>3, <1>4, <1>5, <2>3 DEF IInv, ApartOK
  <2>8. ViewOK'
    <3>1. \A d \in Editors : d # e /\ pendingRef[d] \in late => pendingRef[d] \in late'
      BY <2>1
    <3>2. Mounted(e) \/ t \in late'
      BY <2>1
    <3> QED
      BY <1>1, <1>2, <1>4, <2>3, <3>1, <3>2 DEF IInv, ViewOK, Mounted
  <2>9. StoreOK'
    <3>1. SUFFICES ASSUME late' = {}, Up'
                   PROVE  StoreOK'
      BY DEF StoreOK
    <3>2. Mounted(e) /\ late = {} /\ Up
      BY <1>1, <2>1, <3>1 DEF Up
    <3>3. \A d \in Editors : Mounted(d) /\ d # e => TabOf[d] # TabOf[e]
      BY <3>2 DEF IInv, ViewOK
    <3>4. \A d \in Editors : TabOf[d] \in Tabs
      BY ConstantsAssumption
    <3>5. \A d \in Editors : Mounted(d) => store'[TabOf[d]] = pendingRef'[d]
      BY <2>3, <2>5, <3>2, <3>3, <3>4 DEF IInv, StoreOK
    <3>6. ASSUME NEW b \in Tabs, store'[b] # NoTx
          PROVE  \E d \in Editors : Mounted(d) /\ TabOf[d] = b
      BY <2>5, <3>2, <3>6 DEF IInv, StoreOK
    <3> QED
      BY <1>1, <3>5, <3>6 DEF StoreOK, Mounted
  <2>10. TrackOK'
    <3>1. SUFFICES ASSUME Up', NEW u \in Txs, phase'[u] = "pending"
                   PROVE  (\E d \in Editors : pendingRef'[d] = u) \/ OnTheWay(u)'
      BY DEF TrackOK
    <3>2. (\E d \in Editors : pendingRef[d] = u) \/ OnTheWay(u)
      BY <1>1, <3>1 DEF IInv, TrackOK, Up
    <3>3. CASE \E d \in Editors : pendingRef[d] = u
      BY <2>3, <1>4, <3>3, ConstantsAssumption
    <3>4. CASE \E r \in rpc : r.tx = u
      BY <1>1, <3>4 DEF OnTheWay
    <3>5. CASE \E d \in Editors : run[d].tx = u
      BY <1>2, <2>3, <3>5 DEF OnTheWay, t
    <3> QED
      BY <3>2, <3>3, <3>4, <3>5 DEF OnTheWay
  <2> QED
    BY <1>6, <2>6, <2>7, <2>8, <2>9, <2>10
<1>8. CASE run[e].reply # "pending"
  <2>1. UNCHANGED <<timer, pendingRef, store, late>>
    BY <1>8 DEF RunReturns
  <2>2. phase[t] \in Gone
    BY <1>3, <1>8 DEF IInv, HandsOK, TypeOK, t
  <2>3. HandsOK'
    BY <1>1, <1>2, <1>4, <1>5, <2>1 DEF IInv, HandsOK
  <2>4. ApartOK'
    BY <1>2, <1>5, <2>1 DEF IInv, ApartOK
  <2>5. ViewOK' /\ StoreOK'
    BY <1>1, <1>2, <2>1 DEF IInv, ViewOK, StoreOK, Mounted, Up
  <2>6. TrackOK'
    BY <1>1, <1>2, <2>1, <2>2 DEF IInv, TrackOK, OnTheWay, Up, t, Gone
  <2> QED
    BY <1>6, <2>3, <2>4, <2>5, <2>6
<1> QED
  BY <1>7, <1>8

\* The editor e asks to finish what it has pending: on a click, when its timer
\* fires, or as it is unmounted.
Asks(e, do, t) ==
    /\ t = pendingRef[e] /\ t # NoTx
    /\ Hide(e)
    /\ Ask(t, do, e)
    /\ asked' = asked \cup {t}
    /\ timer' = [timer EXCEPT ![e] = NoTx]
    /\ \/ UNCHANGED finishing
       \/ finishing' = [finishing EXCEPT ![e] = @ \cup {t}]
    /\ UNCHANGED <<phase, run, quitting, late>>
    /\ \/ UNCHANGED <<view, closedWith>>
       \/ /\ do = "rollback"
          /\ Mounted(e)
          /\ view' = [view EXCEPT ![e] = "unmounted"]
          /\ closedWith' = closedWith \cup {t}

LEMMA AskStep ==
    ASSUME IInv, NEW e \in Editors, NEW do \in {"commit", "rollback"}, NEW t,
           Asks(e, do, t)
    PROVE  /\ HandsOK' /\ ApartOK' /\ AskedOK' /\ ClosedOK'
           /\ ViewOK' /\ StoreOK' /\ TrackOK'
<1>1. UNCHANGED <<phase, run, quitting, late>>
  BY DEF Asks
<1>2. /\ t # NoTx /\ t \in Txs /\ t = pendingRef[e]
      /\ phase[t] \in Undone /\ t \notin asked
      /\ \A d \in Editors : d # e => pendingRef[d] # t /\ run[d].tx # t
      /\ run[e].tx # t
  <2>1. t # NoTx /\ t = pendingRef[e]
    BY DEF Asks
  <2>2. t \in Txs
    BY <2>1 DEF IInv, TypeOK, OptTx
  <2>3. phase[t] \in Undone /\ t \notin asked /\ run[e].tx # t
    BY <2>1 DEF IInv, HandsOK, NoRun
  <2>4. \A d \in Editors : d # e => pendingRef[d] # t /\ run[d].tx # t
    BY <2>1 DEF IInv, ApartOK
  <2> QED
    BY <2>1, <2>2, <2>3, <2>4
<1>3. /\ pendingRef'[e] = NoTx
      /\ \A d \in Editors : d # e => pendingRef'[d] = pendingRef[d]
  BY DEF Asks, Hide, IInv, TypeOK
<1>4. /\ timer'[e] = NoTx
      /\ \A d \in Editors : d # e => timer'[d] = timer[d]
  BY DEF Asks, IInv, TypeOK
<1>5. /\ TabOf[e] \in Tabs
      /\ store'[TabOf[e]] = NoTx
      /\ \A b \in Tabs : b # TabOf[e] => store'[b] = store[b]
  BY ConstantsAssumption DEF Asks, Hide, IInv, TypeOK
<1>6. rpc' = rpc \cup {[tx |-> t, do |-> do, from |-> e, at |-> "sent"]}
  BY DEF Asks, Ask
<1>7. asked' = asked \cup {t}
  BY DEF Asks
<1>8. \A d \in Editors : d # e => view'[d] = view[d]
  BY DEF Asks, IInv, TypeOK
<1>9. \/ view' = view
      \/ Mounted(e) /\ view'[e] = "unmounted"
  BY DEF Asks, IInv, TypeOK
<1>10. HandsOK'
  BY <1>1, <1>2, <1>3, <1>4, <1>7 DEF IInv, HandsOK
<1>11. ApartOK'
  BY <1>1, <1>3 DEF IInv, ApartOK
<1>12. AskedOK'
  <2>1. \A u \in asked' : phase'[u] # "absent"
    BY <1>1, <1>2, <1>7 DEF IInv, AskedOK, Undone, Gone
  <2>2. \A d \in Editors : finishing'[d] \subseteq asked'
    BY <1>7 DEF Asks, IInv, AskedOK, TypeOK
  <2>3. \A r \in rpc' : IF r.from \in Editors THEN r.tx \in asked' ELSE r.do = "rollback"
    BY <1>6, <1>7 DEF IInv, AskedOK
  <2> QED
    BY <2>1, <2>2, <2>3 DEF AskedOK
<1>13. ClosedOK'
  <2>1. ASSUME NEW u \in closedWith
        PROVE  u \in asked' /\ phase'[u] \in Undone
                 /\ \A r \in rpc' : r.tx = u => r.do = "rollback"
    BY <1>1, <1>2, <1>6, <1>7, <2>1 DEF IInv, ClosedOK
  <2>2. do = "rollback" => \A r \in rpc' : r.tx = t => r.do = "rollback"
    BY <1>2, <1>6 DEF IInv, AskedOK
  <2>3. t \in closedWith' => t \in closedWith \/ do = "rollback"
    BY DEF Asks
  <2>4. closedWith' \subseteq closedWith \cup {t}
    BY DEF Asks
  <2> QED
    BY <1>1, <1>2, <1>7, <2>1, <2>2, <2>3, <2>4 DEF ClosedOK
<1>14. ViewOK'
  <2>1. \A d \in Editors : view'[d] = "mounted" => view[d] = "mounted"
    BY <1>8, <1>9 DEF Mounted
  <2>2. \A d \in Editors : view'[d] = "unborn" => view[d] = "unborn"
    BY <1>8, <1>9
  <2> QED
    BY <1>1, <1>3, <1>8, <2>1, <2>2 DEF IInv, ViewOK, Mounted
<1>15. StoreOK'
  <2>1. SUFFICES ASSUME late' = {}, Up'
                 PROVE  StoreOK'
    BY DEF StoreOK
  <2>2. Mounted(e) /\ late = {} /\ Up
    BY <1>1, <1>2, <2>1 DEF Up, IInv, ViewOK
  <2>3. \A d \in Editors : Mounted(d) /\ d # e => TabOf[d] # TabOf[e]
    BY <2>2 DEF IInv, ViewOK
  <2>4. \A d \in Editors : TabOf[d] \in Tabs
    BY ConstantsAssumption
  <2>5. ASSUME NEW d \in Editors, Mounted(d)'
        PROVE  store'[TabOf[d]] = pendingRef'[d]
    <3>1. Mounted(d)
      BY <1>8, <1>9, <2>5 DEF Mounted
    <3> QED
      BY <1>3, <1>5, <2>2, <2>3, <2>4, <3>1 DEF IInv, StoreOK
  <2>6. ASSUME NEW b \in Tabs, store'[b] # NoTx
        PROVE  \E d \in Editors : Mounted(d)' /\ TabOf[d] = b
    <3>1. b # TabOf[e] /\ store[b] # NoTx
      BY <1>5, <2>6
    <3>2. PICK d \in Editors : Mounted(d) /\ TabOf[d] = b
      BY <2>2, <3>1 DEF IInv, StoreOK
    <3>3. Mounted(d)'
      BY <1>8, <3>1, <3>2 DEF Mounted
    <3> QED
      BY <3>2, <3>3
  <2> QED
    BY <2>5, <2>6 DEF StoreOK
<1>16. TrackOK'
  <2>1. SUFFICES ASSUME Up', NEW u \in Txs, phase'[u] = "pending"
                 PROVE  (\E d \in Editors : pendingRef'[d] = u) \/ OnTheWay(u)'
    BY DEF TrackOK
  <2>2. (\E d \in Editors : pendingRef[d] = u) \/ OnTheWay(u)
    BY <1>1, <2>1 DEF IInv, TrackOK, Up
  <2>3. CASE u = t
    <3>1. [tx |-> t, do |-> do, from |-> e, at |-> "sent"].tx = u
      BY <2>3
    <3> QED
      BY <1>6, <3>1 DEF OnTheWay
  <2>4. CASE u # t
    BY <1>1, <1>2, <1>3, <1>6, <2>2, <2>4 DEF OnTheWay
  <2> QED
    BY <2>3, <2>4
<1> QED
  BY <1>10, <1>11, <1>12, <1>13, <1>14, <1>15, <1>16

LEMMA EditorKeeps ==
    ASSUME IInv, NEW e \in Editors, EditorStep(e)
    PROVE  IInv'
<1>t. TypeOK'
  BY EditorTypes DEF IInv
<1>1. CASE Mount(e)
  BY <1>1, <1>t, MountStep DEF IInv
<1>2. CASE Run(e)
  BY <1>2, <1>t, RunStep DEF IInv
<1>3. CASE RunEnds(e)
  BY <1>3, <1>t, RunEndsStep DEF IInv
<1>4. CASE RunReturns(e)
  BY <1>4, <1>t, RunReturnsStep DEF IInv
<1>5. ASSUME NEW do \in {"commit", "rollback"}, Click(e, do)
      PROVE  IInv'
  <2>1. Asks(e, do, pendingRef[e])
    BY <1>5 DEF Click, FinishPending, Asks
  <2> QED
    BY <1>t, <2>1, AskStep DEF IInv
<1>6. CASE TimerFires(e)
  <2>1. timer[e] = pendingRef[e]
    BY <1>6 DEF TimerFires, IInv, HandsOK
  <2>2. Asks(e, "commit", pendingRef[e])
    BY <1>6, <2>1 DEF TimerFires, FinishPending, Asks
  <2> QED
    BY <1>t, <2>2, AskStep DEF IInv
<1>7. CASE Unmount(e)
  <2>1. CASE pendingRef[e] # NoTx
    <3>1. Asks(e, "rollback", pendingRef[e])
      BY <1>7, <2>1 DEF Unmount, Asks
    <3> QED
      BY <1>t, <3>1, AskStep DEF IInv
  <2>2. CASE pendingRef[e] = NoTx
    <3>1. /\ UNCHANGED <<phase, rpc, run, pendingRef, finishing, store, quitting>>
          /\ UNCHANGED <<asked, closedWith, late>>
      BY <1>7, <2>2 DEF Unmount
    <3>2. /\ Mounted(e) /\ view'[e] = "unmounted"
          /\ \A d \in Editors : d # e => view'[d] = view[d]
          /\ timer'[e] = NoTx
          /\ \A d \in Editors : d # e => timer'[d] = timer[d]
      BY <1>7 DEF Unmount, IInv, TypeOK
    <3>3. HandsOK' /\ ApartOK' /\ AskedOK' /\ ClosedOK'
      BY <3>1, <3>2 DEF IInv, HandsOK, ApartOK, AskedOK, ClosedOK
    <3>4. ViewOK'
      BY <2>2, <3>1, <3>2 DEF IInv, ViewOK, Mounted
    <3>5. StoreOK'
      <4>1. late = {} /\ Up => store[TabOf[e]] = NoTx
        BY <2>2, <3>2 DEF IInv, StoreOK
      <4>2. ASSUME late = {}, Up, NEW b \in Tabs, store[b] # NoTx
            PROVE  \E d \in Editors : Mounted(d)' /\ TabOf[d] = b
        <5>1. PICK d \in Editors : Mounted(d) /\ TabOf[d] = b
          BY <4>2 DEF IInv, StoreOK
        <5>2. Mounted(d)'
          BY <4>1, <4>2, <3>2, <5>1 DEF Mounted
        <5> QED
          BY <5>1, <5>2
      <4> QED
        BY <2>2, <3>1, <3>2, <4>2 DEF IInv, StoreOK, Mounted, Up
    <3>6. TrackOK'
      BY <3>1 DEF IInv, TrackOK, OnTheWay, Up
    <3> QED
      BY <1>t, <3>3, <3>4, <3>5, <3>6 DEF IInv
  <2> QED
    BY <2>1, <2>2
<1> QED
  BY <1>1, <1>2, <1>3, <1>4, <1>5, <1>6, <1>7 DEF EditorStep

----------------------------------------------------------------------------
(* What the backend does.                                                  *)

\* Every transaction moves on, and only those of S are committed.
Moves(S) ==
    \A u \in Txs :
        /\ phase[u] # "absent" => phase'[u] # "absent"
        /\ phase[u] \in Gone => phase'[u] \in Gone
        /\ u \notin S /\ phase[u] \in Undone => phase'[u] \in Undone
        /\ phase'[u] = "pending" => phase[u] = "pending"

\* Requests in the hands of the backend keep what they ask for.
LEMMA BackendFrame ==
    ASSUME IInv, NEW S, Moves(S),
           /\ \A e \in Editors : pendingRef[e] \notin S /\ run[e].tx \notin S
           /\ S \cap closedWith = {},
           \A r \in rpc' : \E q \in rpc : r.tx = q.tx /\ r.do = q.do /\ r.from = q.from,
           \A e \in Editors : finishing'[e] \subseteq finishing[e],
           \A q \in rpc : phase'[q.tx] = "pending" => \E r \in rpc' : r.tx = q.tx,
           UNCHANGED <<view, run, pendingRef, timer, store, quitting, histVars>>
    PROVE  /\ HandsOK' /\ ApartOK' /\ AskedOK' /\ ClosedOK'
           /\ ViewOK' /\ StoreOK' /\ TrackOK'
<1>1. UNCHANGED <<asked, closedWith, late>>
  BY DEF histVars
<1>2. \A e \in Editors : /\ pendingRef[e] \in Txs \cup {NoTx}
                         /\ run[e].tx \in Txs \cup {NoTx}
  BY DEF IInv, TypeOK, OptTx
<1>3. HandsOK'
  <2>1. ASSUME NEW e \in Editors
        PROVE  run[e].reply # "none" => run[e].tx # NoTx
    BY DEF IInv, HandsOK
  <2> QED
    BY <1>1, <1>2, <2>1 DEF IInv, HandsOK, Moves
<1>4. ApartOK'
  BY DEF IInv, ApartOK
<1>5. AskedOK'
  <2>1. asked \subseteq Txs
    BY DEF IInv, TypeOK
  <2> QED
    BY <1>1, <2>1 DEF IInv, AskedOK, Moves
<1>6. ClosedOK'
  <2>1. closedWith \subseteq Txs
    BY DEF IInv, TypeOK
  <2> QED
    BY <1>1, <2>1 DEF IInv, ClosedOK, Moves
<1>7. ViewOK' /\ StoreOK'
  BY <1>1 DEF IInv, ViewOK, StoreOK, Mounted, Up
<1>8. TrackOK'
  <2>1. SUFFICES ASSUME Up', NEW u \in Txs, phase'[u] = "pending"
                 PROVE  (\E d \in Editors : pendingRef'[d] = u) \/ OnTheWay(u)'
    BY DEF TrackOK
  <2>2. (\E d \in Editors : pendingRef[d] = u) \/ OnTheWay(u)
    BY <2>1 DEF IInv, TrackOK, Up, Moves
  <2> QED
    BY <2>1, <2>2 DEF OnTheWay
<1> QED
  BY <1>3, <1>4, <1>5, <1>6, <1>7, <1>8

\* Only what was asked for by an editor is committed.
LEMMA CommitsWereAsked ==
    ASSUME IInv, NEW r \in rpc, r.do = "commit"
    PROVE  /\ \A e \in Editors : r.tx # pendingRef[e] /\ r.tx # run[e].tx
           /\ r.tx \notin closedWith
<1>1. r.tx \in asked
  BY DEF IInv, AskedOK
<1>2. r.tx \in Txs /\ r.tx # NoTx
  BY ConstantsAssumption DEF IInv, TypeOK, Request
<1> QED
  BY <1>1, <1>2 DEF IInv, HandsOK, ClosedOK

\* A request and the transactions it may commit.
Commits(r) == IF r.do = "commit" THEN {r.tx} ELSE {}

LEMMA CommitsApart ==
    ASSUME IInv, NEW r \in rpc
    PROVE  /\ \A e \in Editors : pendingRef[e] \notin Commits(r)
                                   /\ run[e].tx \notin Commits(r)
           /\ Commits(r) \cap closedWith = {}
BY CommitsWereAsked DEF Commits

LEMMA ServeStep ==
    ASSUME IInv, NEW r \in rpc, Serve(r)
    PROVE  IInv'
<1>1. r.tx \in Txs /\ r.do \in {"commit", "rollback"}
  BY DEF IInv, TypeOK, Request
<1>2. TypeOK'
  BY BackendTypes DEF IInv
<1>3. UNCHANGED <<view, run, pendingRef, timer, store, quitting, histVars>>
  BY DEF Serve
<1>4. \A e \in Editors : finishing'[e] \subseteq finishing[e]
  BY DEF Serve, IInv, TypeOK
<1>5. CASE phase[r.tx] = "pending"
  <2>1. /\ phase'[r.tx] = IF r.do = "commit" THEN "committing" ELSE "rollingback"
        /\ \A u \in Txs : u # r.tx => phase'[u] = phase[u]
    BY <1>1, <1>5, MoveTypes
       DEF Serve, IInv, Backend!RequestCommit, Backend!RequestRollback, Backend!Phases
  <2>2. Moves(Commits(r))
    BY <1>1, <1>5, <2>1 DEF Moves, Commits, Undone, Gone
  <2>3. rpc' = (rpc \ {r}) \cup {[r EXCEPT !.at = "served"]}
    BY <1>5 DEF Serve
  <2>4. /\ [r EXCEPT !.at = "served"].tx = r.tx
        /\ [r EXCEPT !.at = "served"].do = r.do
        /\ [r EXCEPT !.at = "served"].from = r.from
    BY DEF IInv, TypeOK, Request
  <2>5. \A q \in rpc' : \E s \in rpc : q.tx = s.tx /\ q.do = s.do /\ q.from = s.from
    BY <2>3, <2>4
  <2>6. \A q \in rpc : phase'[q.tx] = "pending" => \E s \in rpc' : s.tx = q.tx
    BY <2>3, <2>4
  <2> QED
    BY <1>2, <1>3, <1>4, <2>2, <2>5, <2>6, CommitsApart, BackendFrame DEF IInv
<1>6. CASE phase[r.tx] # "pending"
  <2>1. rpc' = rpc \ {r} /\ UNCHANGED phase
    BY <1>6 DEF Serve
  <2>2. Moves(Commits(r))
    BY <2>1 DEF Moves
  <2>3. \A q \in rpc : phase'[q.tx] = "pending" => \E s \in rpc' : s.tx = q.tx
    BY <1>6, <2>1
  <2> QED
    BY <1>2, <1>3, <1>4, <2>1, <2>2, <2>3, CommitsApart, BackendFrame DEF IInv
<1> QED
  BY <1>5, <1>6

LEMMA ReplyStep ==
    ASSUME IInv, NEW r \in rpc, Reply(r)
    PROVE  IInv'
<1>1. r.tx \in Txs /\ r.do \in {"commit", "rollback"}
  BY DEF IInv, TypeOK, Request
<1>2. TypeOK'
  BY BackendTypes DEF IInv
<1>3. UNCHANGED <<view, run, pendingRef, timer, store, quitting, histVars>>
  BY DEF Reply
<1>4. \A e \in Editors : finishing'[e] \subseteq finishing[e]
  BY DEF Reply, IInv, TypeOK
<1>5. /\ \/ phase'[r.tx] = "committed" /\ r.do = "commit" /\ phase[r.tx] = "committing"
         \/ phase'[r.tx] \in Gone
      /\ \A u \in Txs : u # r.tx => phase'[u] = phase[u]
  BY <1>1, MoveTypes
     DEF Reply, IInv, Backend!Commit, Backend!Undo, Backend!Abandon,
         Undoes, Gone, Backend!Phases, Backend!Decided, Backend!Ended
<1>6. Moves(Commits(r))
  BY <1>1, <1>5 DEF Moves, Commits, Undone, Gone
<1>7. rpc' = rpc \ {r}
  BY DEF Reply
<1>8. \A q \in rpc : phase'[q.tx] = "pending" => \E s \in rpc' : s.tx = q.tx
  BY <1>5, <1>7 DEF Gone
<1> QED
  BY <1>2, <1>3, <1>4, <1>6, <1>7, <1>8, CommitsApart, BackendFrame DEF IInv

LEMMA DrainUndoesStep ==
    ASSUME IInv, NEW t \in Txs, DrainUndoes(t)
    PROVE  IInv'
<1>1. TypeOK'
  BY BackendTypes DEF IInv
<1>2. /\ phase'[t] \in Gone
      /\ \A u \in Txs : u # t => phase'[u] = phase[u]
  BY MoveTypes DEF DrainUndoes, IInv, Backend!Undo, Backend!Abandon,
         Undoes, Gone, Backend!Phases, Backend!Decided, Backend!Ended
<1>3. Moves({})
  BY <1>2 DEF Moves, Undone, Gone
<1>4. UNCHANGED <<rpc, view, run, pendingRef, finishing, timer, store, quitting, histVars>>
  BY DEF DrainUndoes, editVars
<1> QED
  BY <1>1, <1>3, <1>4, BackendFrame DEF IInv

LEMMA QuitStep ==
    ASSUME IInv, Quit
    PROVE  IInv'
<1>1. TypeOK'
  BY BackendTypes DEF IInv
<1>2. /\ UNCHANGED <<phase, view, run, pendingRef, finishing, timer, store>>
      /\ UNCHANGED <<asked, closedWith, late>>
      /\ quitting = "no" /\ quitting' = "rolling"
  BY DEF Quit, editVars, histVars
<1>3. /\ rpc \subseteq rpc'
      /\ \A r \in rpc' \ rpc : r.from = Quitter /\ r.do = "rollback"
  BY DEF Quit
<1>4. HandsOK' /\ ApartOK'
  BY <1>2 DEF IInv, HandsOK, ApartOK
<1>5. AskedOK' /\ ClosedOK'
  BY <1>2, <1>3, QuitterAssumption DEF IInv, AskedOK, ClosedOK
<1>6. ViewOK' /\ StoreOK'
  BY <1>2 DEF IInv, ViewOK, StoreOK, Mounted, Up
<1>7. TrackOK'
  BY <1>2, <1>3 DEF IInv, TrackOK, OnTheWay, Up
<1> QED
  BY <1>1, <1>4, <1>5, <1>6, <1>7 DEF IInv

LEMMA QuitEndsStep ==
    ASSUME IInv, QuitEnds
    PROVE  IInv'
<1>1. TypeOK'
  BY BackendTypes DEF IInv
<1>2. /\ UNCHANGED <<rpc, view, run, pendingRef, finishing, timer>>
      /\ UNCHANGED <<asked, closedWith, late>>
      /\ ~Up'
  BY DEF QuitEnds, histVars, Up
<1>3. \A u \in Txs : phase'[u] = IF phase[u] = "pending" THEN "rollingback" ELSE phase[u]
  BY DEF QuitEnds, Backend!Drain
<1>4. \A u \in Txs : phase[u] \in Undone => phase'[u] \in Undone
  BY <1>3 DEF Undone
<1>5. HandsOK'
  <2>1. \A e \in Editors : /\ pendingRef[e] \in Txs \cup {NoTx}
                           /\ run[e].tx \in Txs \cup {NoTx}
    BY DEF IInv, TypeOK, OptTx
  <2>2. ASSUME NEW e \in Editors
        PROVE  run[e].reply # "none" => run[e].tx # NoTx
    BY DEF IInv, HandsOK
  <2> QED
    BY <1>2, <1>3, <1>4, <2>1, <2>2 DEF IInv, HandsOK, Gone
<1>6. ApartOK'
  BY <1>2 DEF IInv, ApartOK
<1>7. AskedOK' /\ ClosedOK'
  <2>1. asked \subseteq Txs /\ closedWith \subseteq Txs
    BY DEF IInv, TypeOK
  <2> QED
    BY <1>2, <1>3, <1>4, <2>1 DEF IInv, AskedOK, ClosedOK
<1>8. ViewOK' /\ StoreOK' /\ TrackOK'
  BY <1>2 DEF IInv, ViewOK, StoreOK, TrackOK, Mounted
<1> QED
  BY <1>1, <1>5, <1>6, <1>7, <1>8 DEF IInv

\* What is committed was asked for, by a step of the editors or of the backend.
AskedCommits ==
    \A t \in Txs : phase[t] \in {"committing", "committed"} => t \in asked

LEMMA CommitsStayAsked ==
    ASSUME IInv, AskedCommits, [Next]_vars
    PROVE  AskedCommits'
<1>0. asked \subseteq asked' /\ phase \in [Txs -> Backend!Phases]
  BY DEF IInv, TypeOK, Next, Mount, Run, RunEnds, RunReturns, Click, TimerFires,
         FinishPending, Unmount, Serve, Reply, Quit, QuitEnds, DrainUndoes,
         histVars, vars
<1>1. ASSUME NEW t \in Txs, Backend!Open(t) \/ Backend!Expose(t)
                \/ Backend!RequestRollback(t) \/ Undoes(t) \/ Backend!Commit(t)
      PROVE  AskedCommits'
  BY <1>0, <1>1 DEF AskedCommits, Backend!Move, Backend!Open, Backend!Expose,
     Backend!RequestRollback, Undoes, Backend!Undo, Backend!Abandon,
     Backend!Commit
<1>2. ASSUME NEW r \in rpc, Serve(r)
      PROVE  AskedCommits'
  <2>1. r.tx \in Txs /\ (r.do = "commit" => r.tx \in asked)
    BY CommitsWereAsked DEF IInv, TypeOK, Request, AskedOK
  <2>2. CASE UNCHANGED phase
    BY <1>0, <2>2 DEF AskedCommits
  <2>3. CASE Backend!RequestRollback(r.tx)
    BY <1>1, <2>1, <2>3
  <2>4. CASE Backend!RequestCommit(r.tx) /\ r.do = "commit"
    BY <1>0, <2>1, <2>4 DEF AskedCommits, Backend!Move, Backend!RequestCommit
  <2> QED
    BY <1>2, <2>2, <2>3, <2>4 DEF Serve
<1>3. ASSUME NEW r \in rpc, Reply(r)
      PROVE  AskedCommits'
  <2>1. r.tx \in Txs
    BY DEF IInv, TypeOK, Request
  <2> QED
    BY <1>1, <1>3, <2>1 DEF Reply
<1>4. ASSUME NEW e \in Editors, EditorStep(e)
      PROVE  AskedCommits'
  <2>1. CASE Run(e)
    BY <1>1, <2>1 DEF Run
  <2>2. CASE RunEnds(e)
    <3>1. run[e].tx \in Txs
      BY <2>2 DEF RunEnds, IInv, TypeOK, OptTx
    <3> QED
      BY <1>1, <2>2, <3>1 DEF RunEnds
  <2>3. CASE \/ Mount(e) \/ RunReturns(e) \/ TimerFires(e) \/ Unmount(e)
             \/ Click(e, "commit") \/ Click(e, "rollback")
    <3>1. UNCHANGED phase
      BY <2>3 DEF Mount, RunReturns, TimerFires, Unmount, Click
    <3> QED
      BY <1>0, <3>1 DEF AskedCommits
  <2> QED
    BY <1>4, <2>1, <2>2, <2>3 DEF EditorStep
<1>5. CASE QuitEnds
  BY <1>0, <1>5 DEF QuitEnds, Backend!Drain, AskedCommits
<1>6. ASSUME NEW t \in Txs, DrainUndoes(t)
      PROVE  AskedCommits'
  BY <1>1, <1>6 DEF DrainUndoes
<1>7. CASE Quit \/ UNCHANGED vars
  BY <1>0, <1>7 DEF Quit, vars, AskedCommits
<1> QED
  BY <1>2, <1>3, <1>4, <1>5, <1>6, <1>7 DEF Next, EditorStep

----------------------------------------------------------------------------
(* The theorems.                                                           *)

LEMMA EditorKeepsIInv == IInv /\ [Next]_vars => IInv'
<1> SUFFICES ASSUME IInv, [Next]_vars PROVE IInv'
  OBVIOUS
<1>1. CASE Next
  <2>1. ASSUME NEW e \in Editors, EditorStep(e)
        PROVE  IInv'
    BY <2>1, EditorKeeps
  <2> QED
    BY <1>1, <2>1, ServeStep, ReplyStep, QuitStep, QuitEndsStep, DrainUndoesStep
       DEF Next, EditorStep
<1>2. CASE UNCHANGED vars
  <2>1. /\ UNCHANGED <<phase, rpc, view, run, pendingRef, finishing, timer, store>>
        /\ UNCHANGED <<quitting, asked, closedWith, late>>
    BY <1>2 DEF vars, editVars, histVars
  <2>2. TypeOK'
    BY <2>1 DEF IInv, TypeOK
  <2>3. HandsOK' /\ ApartOK' /\ AskedOK' /\ ClosedOK'
    BY <2>1 DEF IInv, HandsOK, ApartOK, AskedOK, ClosedOK
  <2>4. ViewOK' /\ StoreOK' /\ TrackOK'
    BY <2>1 DEF IInv, ViewOK, StoreOK, TrackOK, OnTheWay, Mounted, Up
  <2> QED
    BY <2>2, <2>3, <2>4 DEF IInv
<1> QED
  BY <1>1, <1>2

LEMMA EditorAlways == Spec => []IInv
<1> QED
  BY EditorInit, EditorKeepsIInv, PTL DEF Spec

\* Nothing is committed that no button, timer or closed tab asked to finish,
\* and no tab shows as pending what is committed or about to be
\* (useSqlEditorTransactionController.ts, finishPendingSqlTransaction).
THEOREM CommitsOnRequest == Spec => []CommitsAreAsked
<1>1. Init => AskedCommits
  BY DEF Init, Backend!MTInit, AskedCommits
<1>2. IInv /\ AskedCommits /\ [Next]_vars => AskedCommits'
  BY CommitsStayAsked
<1>3. IInv /\ AskedCommits => CommitsAreAsked
  BY DEF IInv, HandsOK, Undone, Gone, AskedCommits, CommitsAreAsked
<1> QED
  BY <1>1, <1>2, <1>3, EditorAlways, PTL DEF Spec

\* What the controller keeps of a tab fits together: a pending transaction of
\* the backend, the timer for it, and no finish of it under way
\* (useSqlEditorTransactionController.ts).
THEOREM EditorInvariance == Spec => []Inv
<1>1. IInv => TypeOK /\ EditorsOK
  <2>1. ASSUME IInv PROVE EditorsOK
    <3>1. \A e \in Editors : finishing[e] \subseteq asked /\ finishing[e] \subseteq Txs
      BY <2>1 DEF IInv, AskedOK, TypeOK
    <3>2. NoTx \notin Txs
      BY ConstantsAssumption
    <3> QED
      BY <2>1, <3>1, <3>2 DEF IInv, HandsOK, EditorsOK, Undone, Gone
  <2> QED
    BY <2>1 DEF IInv
<1> QED
  BY <1>1, EditorAlways, CommitsOnRequest, PTL DEF Inv

\* A transaction that was pending in a tab when it was closed is never
\* committed (the cleanup in useSqlEditorTransactionController.ts).
THEOREM ClosedTabsUndo == Spec => []ClosedIsUndone
<1>1. IInv => ClosedIsUndone
  BY DEF IInv, ClosedOK, ClosedIsUndone, Gone, Undone, Gone
<1> QED
  BY <1>1, EditorAlways, PTL

\* What is pending is shown in an open tab or somebody is on the way with it,
\* unless its reply came after its tab was closed (QueryEditor.tsx).
THEOREM NothingGoesOutOfSight == Spec => []PendingIsTracked
<1>1. ASSUME IInv, Up, NEW t \in Txs \ late, phase[t] = "pending"
      PROVE  Shown(t) \/ OnTheWay(t)
  <2>1. CASE OnTheWay(t)
    BY <2>1
  <2>2. CASE \E e \in Editors : pendingRef[e] = t
    <3>1. PICK e \in Editors : pendingRef[e] = t
      BY <2>2
    <3>2. t # NoTx
      BY ConstantsAssumption
    <3>3. Mounted(e)
      BY <1>1, <3>1, <3>2 DEF IInv, ViewOK
    <3>4. store[TabOf[e]] = t \/ late # {}
      BY <1>1, <3>1, <3>3 DEF IInv, StoreOK
    <3> QED
      BY <3>1, <3>3, <3>4 DEF Shown
  <2> QED
    BY <1>1, <2>1, <2>2 DEF IInv, TrackOK
<1>2. IInv => PendingIsTracked
  BY <1>1 DEF PendingIsTracked
<1> QED
  BY <1>2, EditorAlways, PTL

\* Clicks, timers and closed tabs together ask the backend at most once to
\* finish a transaction (finishingTransactionIdsRef and the hidden entry).
THEOREM AskedOnce == Spec => EditorsAskOnce
<1> DEFINE Once == \A r \in rpc' \ rpc :
                      r.from \in Editors /\ r.at = "sent" => r.tx \notin asked
<1>1. ASSUME IInv, NEW e \in Editors, NEW do \in {"commit", "rollback"},
             NEW t, t = pendingRef[e], t # NoTx, Ask(t, do, e)
      PROVE  Once
  <2>1. t \notin asked
    BY <1>1 DEF IInv, HandsOK
  <2> QED
    BY <1>1, <2>1 DEF Ask
<1>2. ASSUME IInv, NEW e \in Editors, EditorStep(e)
      PROVE  Once
  <2>1. CASE \/ Mount(e) \/ Run(e) \/ RunEnds(e) \/ RunReturns(e)
    BY <2>1 DEF Mount, Run, RunEnds, RunReturns
  <2>2. ASSUME NEW do \in {"commit", "rollback"}, FinishPending(e, do)
        PROVE  Once
    BY <1>1, <1>2, <2>2 DEF FinishPending
  <2>3. CASE Click(e, "commit") \/ Click(e, "rollback")
    BY <2>2, <2>3 DEF Click
  <2>4. CASE TimerFires(e)
    BY <2>2, <2>4 DEF TimerFires
  <2>5. CASE Unmount(e)
    BY <1>1, <1>2, <2>5 DEF Unmount
  <2> QED
    BY <1>2, <2>1, <2>3, <2>4, <2>5 DEF EditorStep
<1>3. ASSUME NEW r \in rpc, Serve(r) \/ Reply(r), IInv
      PROVE  Once
  <2>1. [r EXCEPT !.at = "served"].at = "served"
    BY <1>3 DEF IInv, TypeOK, Request
  <2> QED
    BY <1>3, <2>1 DEF Serve, Reply
<1>4. ASSUME Quit \/ QuitEnds \/ (\E t \in Txs : DrainUndoes(t))
      PROVE  Once
  BY <1>4, QuitterAssumption DEF Quit, QuitEnds, DrainUndoes
<1>5. ASSUME IInv, [Next]_vars
      PROVE  [Once]_vars
  <2>1. CASE Next
    BY <1>2, <1>3, <1>4, <1>5, <2>1 DEF Next, EditorStep
  <2> QED
    BY <1>5, <2>1
<1> QED
  BY <1>5, EditorAlways, PTL DEF Spec, EditorsAskOnce

=============================================================================
