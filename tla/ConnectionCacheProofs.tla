----------------------- MODULE ConnectionCacheProofs -----------------------
(* Proofs about the connection cache, for every value of its constants.    *)
EXTENDS ConnectionCache, TLAPS

\* The null values are of their types: some configuration exists.
LEMMA NullTypes ==
    /\ NoKey \in Keys
    /\ NoEntry \in Entry
    /\ NoCall \in Call
    /\ NoTarget \in Target
    /\ \A i \in OptInst : Only(i) \in Entry
<1>1. PICK cfg \in Configs : TRUE
  BY ConstantsAssumption
<1>2. <<cfg, "direct">> \in Keys
  BY <1>1 DEF Keys, Routes
<1>3. NoKey \in Keys
  BY <1>2 DEF NoKey
<1>4. NoEntry \in Entry /\ \A i \in OptInst : Only(i) \in Entry
  BY DEF NoEntry, Entry, OptInst, Only, Ages
<1>5. NoKey[1] \in Configs
  BY <1>3 DEF Keys
<1>6. NoCall \in Call
  BY <1>3, <1>4, <1>5, ConstantsAssumption DEF NoCall, Call, Ops, OptInst
<1>7. NoTarget \in Target
  BY <1>3 DEF NoTarget, Target, OptInst
<1> QED
  BY <1>3, <1>4, <1>6, <1>7

LEMMA TypeInit == Init => TypeOK
<1> SUFFICES ASSUME Init PROVE TypeOK
  OBVIOUS
<1> USE DEF Init
<1>1. dbCache \in [Keys -> Entry] /\ call \in [Callers -> Call]
  BY NullTypes
<1>2. loop \in [pc : {"wait", "scan", "mark", "evict", "close", "stopped"},
                targets : SUBSET Target, cur : Target]
  BY NullTypes
<1>3. proxyChanges \in 0..MaxProxyChanges
  BY ConstantsAssumption
<1> QED
  BY <1>1, <1>2, <1>3 DEF TypeOK, Routes, Places, OptInst

----------------------------------------------------------------------------
(* Types of the helpers, and the steps that preserve the types.            *)

LEMMA EntryUpdate ==
    ASSUME NEW e \in Entry, NEW flying \in BOOLEAN, NEW age \in Ages
    PROVE  /\ [e EXCEPT !.inFlight = flying] \in Entry
           /\ [e EXCEPT !.inFlight = flying, !.age = age] \in Entry
BY DEF Entry

LEMMA AgeUpdate ==
    ASSUME TypeOK, NEW k \in Keys, NEW age \in Ages
    PROVE  [dbCache EXCEPT ![k].age = age] \in [Keys -> Entry]
<1> DEFINE e == [dbCache[k] EXCEPT !.age = age]
<1>1. dbCache \in [Keys -> Entry] /\ dbCache[k] \in Entry
  BY DEF TypeOK
<1>2. e \in Entry
  BY <1>1 DEF Entry
<1>3. [dbCache EXCEPT ![k].age = age] = [dbCache EXCEPT ![k] = e]
  OBVIOUS
<1> HIDE DEF e
<1> QED
  BY <1>1, <1>2, <1>3

\* A call with one field changed is a call.
LEMMA FieldUpdate ==
    ASSUME TypeOK, NEW c \in Callers
    PROVE  /\ \A k \in Keys : [call EXCEPT ![c].ckey = k] \in [Callers -> Call]
           /\ \A e \in Entry : [call EXCEPT ![c].seen = e] \in [Callers -> Call]
           /\ \A n \in 1..MaxAttempts :
                 [call EXCEPT ![c].attempt = n] \in [Callers -> Call]
<1>0. call \in [Callers -> Call] /\ call[c] \in Call
  BY DEF TypeOK
<1>1. ASSUME NEW k \in Keys
      PROVE  [call EXCEPT ![c].ckey = k] \in [Callers -> Call]
  <2> DEFINE r == [call[c] EXCEPT !.ckey = k]
  <2>1. r \in Call
    BY <1>0 DEF Call
  <2>2. [call EXCEPT ![c].ckey = k] = [call EXCEPT ![c] = r]
    OBVIOUS
  <2> HIDE DEF r
  <2> QED
    BY <1>0, <2>1, <2>2
<1>2. ASSUME NEW e \in Entry
      PROVE  [call EXCEPT ![c].seen = e] \in [Callers -> Call]
  <2> DEFINE r == [call[c] EXCEPT !.seen = e]
  <2>1. r \in Call
    BY <1>0 DEF Call
  <2>2. [call EXCEPT ![c].seen = e] = [call EXCEPT ![c] = r]
    OBVIOUS
  <2> HIDE DEF r
  <2> QED
    BY <1>0, <2>1, <2>2
<1>3. ASSUME NEW n \in 1..MaxAttempts
      PROVE  [call EXCEPT ![c].attempt = n] \in [Callers -> Call]
  <2> DEFINE r == [call[c] EXCEPT !.attempt = n]
  <2>1. r \in Call
    BY <1>0 DEF Call
  <2>2. [call EXCEPT ![c].attempt = n] = [call EXCEPT ![c] = r]
    OBVIOUS
  <2> HIDE DEF r
  <2> QED
    BY <1>0, <2>1, <2>2
<1> QED
  BY <1>1, <1>2, <1>3

LEMMA HelperTypes ==
    ASSUME TypeOK
    PROVE  /\ \A K : InstsAt(K \cap Keys) \subseteq Insts
           /\ \A K : Without(K) \in [Keys -> Entry]
           /\ \A S : Closing(S) \in [Insts -> {"unused", "open", "closed", "overclosed"}]
           /\ \A c \in Callers : NewEntry(c) \in Entry
<1> USE DEF TypeOK
<1>1. \A K : InstsAt(K \cap Keys) \subseteq Insts
  BY DEF InstsAt, Entry, OptInst
<1>2. \A K : Without(K) \in [Keys -> Entry]
  BY NullTypes DEF Without
<1>3. \A S : Closing(S) \in [Insts -> {"unused", "open", "closed", "overclosed"}]
  BY DEF Closing
<1>4. \A c \in Callers : NewEntry(c) \in Entry
  BY DEF NewEntry, Entry, Call, Ages
<1> QED
  BY <1>1, <1>2, <1>3, <1>4

LEMMA TypeArrive ==
    ASSUME TypeOK, NEW c \in Callers, Arrive(c)
    PROVE  TypeOK'
<1> USE DEF TypeOK
<1>1. ASSUME NEW op \in Methods, NEW cfg \in Configs, NEW keep \in Settings,
             Begin(c, op, cfg, keep)
      PROVE  TypeOK'
  <2> DEFINE new == [NoCall EXCEPT !.op = op, !.cfg = cfg, !.keep = keep,
                                   !.key = <<cfg, route>>, !.ckey = <<cfg, route>>]
  <2>1. <<cfg, route>> \in Keys /\ op \in Ops /\ keep \in BOOLEAN
    BY ConstantsAssumption DEF Keys, Ops
  <2>2. new \in Call
    BY <2>1, NullTypes DEF Call
  <2>3. call' \in [Callers -> Call]
    BY <1>1, <2>2 DEF Begin
  <2>4. pc' \in [Callers -> Places]
    BY <1>1 DEF Begin, Goto, Places
  <2> QED
    BY <1>1, <2>3, <2>4 DEF Begin, cacheVars, envVars
<1>2. ASSUME NEW d \in Callers, BeginCancel(c, d)
      PROVE  TypeOK'
  <2> DEFINE new == [NoCall EXCEPT !.op = "cancel", !.cfg = call[d].cfg]
  <2>1. new \in Call
    BY NullTypes DEF Call, Ops
  <2>2. call' \in [Callers -> Call]
    BY <1>2, <2>1 DEF BeginCancel
  <2>3. pc' \in [Callers -> Places]
    BY <1>2 DEF BeginCancel, Goto, Places
  <2> QED
    BY <1>2, <2>2, <2>3 DEF BeginCancel, cacheVars, envVars
<1> QED
  BY <1>1, <1>2 DEF Arrive

\* Return and Serve keep the types of what they change.
LEMMA TypeReturn ==
    ASSUME TypeOK, NEW c \in Callers
    PROVE  /\ Return(c) => /\ pc' \in [Callers -> Places]
                           /\ call' \in [Callers -> Call]
                           /\ proven' \in [Callers -> SUBSET Insts]
           /\ \A i \in OptInst : Serve(c, i) => /\ pc' \in [Callers -> Places]
                                                /\ call' \in [Callers -> Call]
           /\ \A p \in Places : Goto(c, p) => pc' \in [Callers -> Places]
<1> USE DEF TypeOK
<1>1. Return(c) => /\ pc' \in [Callers -> Places]
                   /\ call' \in [Callers -> Call]
                   /\ proven' \in [Callers -> SUBSET Insts]
  BY NullTypes DEF Return, Goto, Places
<1>2. ASSUME NEW i \in OptInst, Serve(c, i)
      PROVE  pc' \in [Callers -> Places] /\ call' \in [Callers -> Call]
  <2>1. call' \in [Callers -> Call]
    BY <1>2, NullTypes, FieldUpdate DEF Serve
  <2> QED
    BY <1>2, <2>1 DEF Serve, Goto, Places
<1>3. \A p \in Places : Goto(c, p) => pc' \in [Callers -> Places]
  BY DEF Goto
<1> QED
  BY <1>1, <1>2, <1>3

\* Steps of getDatabaseWithPing up to the cooldown.
LEMMA TypeLookup ==
    ASSUME TypeOK, LocalsOK, NEW c \in Callers,
           \/ Unsupported(c) \/ Lookup(c) \/ ApplySettings(c)
           \/ PingOk(c) \/ PingFails(c) \/ Touch(c) \/ EvictAfterPing(c)
           \/ CheckCooldown(c) \/ ClearExpired(c)
    PROVE  TypeOK'
<1> USE DEF TypeOK
<1>k. call[c].key \in Keys /\ call[c].seen \in Entry /\ call[c].seen.inst \in OptInst
  BY DEF Call, Entry
<1>1. CASE Unsupported(c)
  BY <1>1, HelperTypes, TypeReturn DEF Unsupported, CloseAt, envVars
<1>2. CASE Lookup(c)
  <2>1. dbCache[call[c].key] \in Entry
    BY <1>k
  <2>2. call' \in [Callers -> Call]
    BY <1>2, <2>1, FieldUpdate DEF Lookup
  <2>3. pc' \in [Callers -> Places]
    BY <1>2 DEF Lookup, Goto, Places
  <2> QED
    BY <1>2, <2>2, <2>3 DEF Lookup, cacheVars, envVars
<1>3. CASE ApplySettings(c)
  <2> DEFINE new == [dbCache[call[c].key] EXCEPT
                       !.keep = call[c].keep, !.inFlight = @ /\ call[c].keep]
             entry == IF call[c].seen.keep # call[c].keep
                         /\ dbCache[call[c].key].inst = call[c].seen.inst
                      THEN new ELSE call[c].seen
  <2>1. new \in Entry
    <3> DEFINE b == call[c].keep
               f == dbCache[call[c].key].inFlight /\ b
    <3>1. b \in BOOLEAN /\ f \in BOOLEAN /\ dbCache[call[c].key] \in Entry
      BY <1>k DEF Call
    <3>2. new = [dbCache[call[c].key] EXCEPT !.keep = b, !.inFlight = f]
      OBVIOUS
    <3> HIDE DEF b, f
    <3> QED
      BY <3>1, <3>2 DEF Entry
  <2>2. entry.inst \in OptInst
    BY <1>k, <2>1 DEF Entry
  <2>3. dbCache' \in [Keys -> Entry]
    BY <1>3, <2>1 DEF ApplySettings
  <2>4. call' = [call EXCEPT ![c].seen = Only(entry.inst)]
    BY <1>3 DEF ApplySettings
  <2>5. call' \in [Callers -> Call]
    BY <2>2, <2>4, NullTypes, FieldUpdate
  <2>6. pc' \in [Callers -> Places]
    BY <1>3 DEF ApplySettings, Goto, Places
  <2> QED
    BY <1>3, <2>3, <2>5, <2>6 DEF ApplySettings, envVars
<1>4. CASE PingOk(c)
  <2>1. call[c].seen.inst \in Insts
    BY <1>4, <1>k DEF PingOk, OptInst, LocalsOK, CallerOK
  <2>2. pc' \in [Callers -> Places] /\ proven' \in [Callers -> SUBSET Insts]
    BY <1>4, <2>1 DEF PingOk, Goto, Places
  <2> QED
    BY <1>4, <2>2 DEF PingOk, cacheVars, envVars
<1>5. CASE PingFails(c)
  BY <1>5 DEF PingFails, Goto, Places, cacheVars, envVars
<1>6. CASE Touch(c)
  <2>1. dbCache' \in [Keys -> Entry]
    BY <1>6, <1>k, AgeUpdate DEF Touch, Ages
  <2> QED
    BY <1>6, <1>k, <2>1, TypeReturn DEF Touch, envVars
<1>7. CASE EvictAfterPing(c)
  <2>1. dbCache' \in [Keys -> Entry] /\ life' \in [Insts -> {"unused", "open", "closed", "overclosed"}]
    BY <1>7, HelperTypes DEF EvictAfterPing, CloseAt
  <2>2. call' \in [Callers -> Call]
    BY <1>7, NullTypes, FieldUpdate DEF EvictAfterPing
  <2> QED
    BY <1>7, <2>1, <2>2 DEF EvictAfterPing, Goto, Places, envVars
<1>8. CASE CheckCooldown(c)
  <2>1. pc' \in [Callers -> Places] /\ call' \in [Callers -> Call]
        /\ proven' \in [Callers -> SUBSET Insts]
    BY <1>8, TypeReturn DEF CheckCooldown, Goto, Places
  <2> QED
    BY <1>8, <2>1 DEF CheckCooldown, cacheVars, envVars
<1>9. CASE ClearExpired(c)
  BY <1>9, <1>k DEF ClearExpired, Goto, Places, envVars
<1> QED
  BY <1>1, <1>2, <1>3, <1>4, <1>5, <1>6, <1>7, <1>8, <1>9

\* Steps that connect, relieve the server and publish.
LEMMA TypeConnect ==
    ASSUME TypeOK, LocalsOK, NEW c \in Callers,
           \/ \E i \in Insts : ConnectOk(c, i)
           \/ ConnectRetry(c) \/ ConnectFails(c) \/ TooManyConnections(c)
           \/ Release(c) \/ (\E i \in Insts : CloseDoomed(c, i)) \/ Released(c)
           \/ RecordFailure(c) \/ ClearFirstKey(c) \/ ClearSecondKey(c)
           \/ Insert(c) \/ Discard(c)
    PROVE  TypeOK'
<1> USE DEF TypeOK
<1>k. /\ call[c].key \in Keys /\ call[c].ckey \in Keys /\ call[c].cfg \in Configs
      /\ call[c].seen.inst \in OptInst
      /\ <<call[c].cfg, route>> \in Keys
  BY DEF Call, Entry, Keys
<1>1. ASSUME NEW i \in Insts, ConnectOk(c, i) PROVE TypeOK'
  <2>1. call' \in [Callers -> Call]
    BY <1>1, <1>k, FieldUpdate DEF ConnectOk
  <2>2. pc' \in [Callers -> Places]
    BY <1>1 DEF ConnectOk, Goto, Places
  <2> QED
    BY <1>1, <2>1, <2>2 DEF ConnectOk, OptInst, envVars
<1>2. CASE ConnectRetry(c)
  <2>1. call[c].attempt + 1 \in 1..MaxAttempts
    BY <1>2, ConstantsAssumption DEF ConnectRetry, Call
  <2>2. call' \in [Callers -> Call]
    BY <1>2, <2>1, FieldUpdate DEF ConnectRetry
  <2> QED
    BY <1>2, <2>2 DEF ConnectRetry, cacheVars, envVars
<1>3. CASE ConnectFails(c)
  <2>1. CASE call[c].op = "test"
    BY <1>3, <2>1, TypeReturn DEF ConnectFails, cacheVars, envVars
  <2>2. CASE call[c].op # "test"
    <3> DEFINE k == <<call[c].cfg, route>>
    <3>0. k \in Keys /\ call' = [call EXCEPT ![c].ckey = k]
      BY <1>3, <1>k, <2>2 DEF ConnectFails
    <3>1. call' \in [Callers -> Call]
      <4> HIDE DEF k
      <4> QED BY <3>0, FieldUpdate
    <3> QED
      BY <1>3, <2>2, <3>1 DEF ConnectFails, Goto, Places, cacheVars, envVars
  <2> QED
    BY <2>1, <2>2
<1>4. CASE TooManyConnections(c)
  BY <1>4, <1>k DEF TooManyConnections, Goto, Places, Call, cacheVars, envVars
<1>5. CASE Release(c)
  <2> DEFINE K == {k \in Occupied : SameServer(k, call[c].ckey)}
  <2>1. dbCache' \in [Keys -> Entry]
    BY <1>5, HelperTypes DEF Release
  <2>2. doomed' \in [Callers -> SUBSET Insts]
    <3>1. K \cap Keys = K
      BY DEF Occupied
    <3>2. InstsAt(K) \subseteq Insts
      BY <3>1, HelperTypes
    <3> QED
      BY <1>5, <3>2 DEF Release
  <2>3. pc' \in [Callers -> Places] /\ call' \in [Callers -> Call]
        /\ proven' \in [Callers -> SUBSET Insts]
    BY <1>5, TypeReturn DEF Release, Goto, Places
  <2> QED
    BY <1>5, <2>1, <2>2, <2>3 DEF Release, envVars
<1>6. ASSUME NEW i \in Insts, CloseDoomed(c, i) PROVE TypeOK'
  BY <1>6, HelperTypes DEF CloseDoomed, envVars
<1>7. CASE Released(c)
  <2>1. CASE call[c].op = "release"
    BY <1>7, <2>1, TypeReturn DEF Released, cacheVars, envVars
  <2>2. CASE call[c].op # "release"
    <3>1. call' \in [Callers -> Call]
      <4>1. 1 \in 1..MaxAttempts
        BY ConstantsAssumption
      <4>2. call' = [call EXCEPT ![c].attempt = 1]
        BY <1>7, <2>2 DEF Released
      <4> QED
        BY <4>1, <4>2, FieldUpdate
    <3> QED
      BY <1>7, <2>2, <3>1 DEF Released, Goto, Places, cacheVars, envVars
  <2> QED
    BY <2>1, <2>2
<1>8. CASE RecordFailure(c)
  BY <1>8, <1>k, TypeReturn DEF RecordFailure, envVars
<1>9. CASE ClearFirstKey(c)
  BY <1>9 DEF ClearFirstKey, Goto, Places, envVars
<1>10. CASE ClearSecondKey(c)
  BY <1>10 DEF ClearSecondKey, Goto, Places, envVars
<1>11. CASE Insert(c)
  <2>1. CASE dbCache[call[c].ckey].inst # NoInst
    <3>1. Only(dbCache[call[c].ckey].inst) \in Entry
      BY <1>k, NullTypes DEF Entry
    <3>2. call' = [call EXCEPT ![c].seen = Only(dbCache[call[c].ckey].inst)]
      BY <1>11, <2>1 DEF Insert
    <3>3. call' \in [Callers -> Call]
      BY <3>1, <3>2, FieldUpdate
    <3> QED
      BY <1>11, <2>1, <3>3 DEF Insert, Goto, Places, envVars
  <2>2. CASE dbCache[call[c].ckey].inst = NoInst
    <3>1. dbCache' \in [Keys -> Entry]
      BY <1>11, <2>2, HelperTypes DEF Insert
    <3>2. pc' \in [Callers -> Places] /\ call' \in [Callers -> Call]
      BY <1>11, <2>2, TypeReturn DEF Insert
    <3>3. mine' \in [Callers -> OptInst]
      BY <1>11, <2>2 DEF Insert, OptInst
    <3>4. mine[c] \in Insts
      BY <1>11 DEF Insert, LocalsOK, CallerOK, OptInst
    <3>5. proven' \in [Callers -> SUBSET Insts]
      <4>1. \A d \in Callers : proven[d] \cup {mine[c]} \in SUBSET Insts
        BY <3>4
      <4>2. proven' = [d \in Callers |-> IF Forced(d) THEN proven[d] \cup {mine[c]}
                                         ELSE proven[d]]
        BY <1>11, <2>2 DEF Insert
      <4> QED
        BY <4>1, <4>2
    <3> QED
      BY <1>11, <2>2, <3>1, <3>2, <3>3, <3>5 DEF Insert, envVars
  <2> QED
    BY <2>1, <2>2
<1>12. CASE Discard(c)
  BY <1>12, <1>k, HelperTypes, TypeReturn DEF Discard, OptInst, envVars
<1> QED
  BY <1>1, <1>2, <1>3, <1>4, <1>5, <1>6, <1>7, <1>8, <1>9, <1>10, <1>11, <1>12

\* A query that is executed after it failed as a query, and one that reconnects.
LEMMA ExecTypes ==
    ASSUME NEW l \in Call
    PROVE  /\ Exec(l) \in Call
           /\ Exec(l).op = l.op /\ Exec(l).round = 2 /\ ~Exec(l).again
           /\ Exec(l).relieved = l.relieved
           /\ Exec(l).seen.inst = IF l.again THEN l.first ELSE l.seen.inst
<1> DEFINE e == IF l.again THEN Only(l.first) ELSE l.seen
           new == [l EXCEPT !.round = 2, !.again = FALSE, !.first = NoInst,
                            !.seen = e]
<1>1. e \in Entry /\ e.inst = IF l.again THEN l.first ELSE l.seen.inst
  <2>1. Only(l.first) \in Entry /\ l.seen \in Entry
    BY NullTypes DEF Call
  <2>2. Only(l.first).inst = l.first
    BY DEF Only, NoEntry
  <2>. QED  BY <2>1, <2>2
<1>2. Exec(l) = new
  BY DEF Exec
<1> HIDE DEF e
<1>3. new \in Call
  <2>1. 2 \in 1..2 /\ FALSE \in BOOLEAN /\ NoInst \in OptInst /\ e \in Entry
    BY <1>1 DEF OptInst
  <2>. QED  BY <2>1 DEF Call
<1>4. /\ new.op = l.op /\ new.round = 2 /\ ~new.again
      /\ new.relieved = l.relieved /\ new.seen = e
  BY DEF Call
<1> HIDE DEF new
<1>. QED  BY <1>1, <1>2, <1>3, <1>4

LEMMA AgainTypes ==
    ASSUME NEW l \in Call, NEW k \in Keys
    PROVE  /\ Again(l, k) \in Call
           /\ Again(l, k).round = l.round /\ Again(l, k).again
           /\ l.round = 1 => Again(l, k).first = l.seen.inst
<1> DEFINE f == IF l.round = 1 THEN l.seen.inst ELSE NoInst
<1>1. f \in OptInst /\ l.cfg \in Configs /\ l.keep \in BOOLEAN /\ l.round \in 1..2
  BY DEF Call, Entry, OptInst
<1>2. Again(l, k) = [NoCall EXCEPT !.cfg = l.cfg, !.keep = l.keep,
                                   !.round = l.round, !.again = TRUE,
                                   !.first = f, !.key = k, !.ckey = k]
  BY DEF Again
<1>3. l.round = 1 => f = l.seen.inst
  OBVIOUS
<1> HIDE DEF f
<1>. QED  BY <1>1, <1>2, <1>3, NullTypes DEF Call

\* Steps of the method that asked for the instance.
LEMMA TypeUse ==
    ASSUME TypeOK, NEW c \in Callers,
           Finish(c) \/ MeetDeadConnection(c) \/ ExecAfterQuery(c) \/ Invalidate(c)
    PROVE  TypeOK'
<1> USE DEF TypeOK
<1>1. CASE Finish(c)
  BY <1>1, TypeReturn DEF Finish, cacheVars, envVars
<1>2. CASE MeetDeadConnection(c)
  BY <1>2, TypeReturn DEF MeetDeadConnection, Places, cacheVars, envVars
<1>3. CASE ExecAfterQuery(c)
  <2>1. call[c] \in Call /\ call' = [call EXCEPT ![c] = Exec(call[c])]
    BY <1>3 DEF ExecAfterQuery
  <2>2. call' \in [Callers -> Call]
    BY <2>1, ExecTypes
  <2> QED
    BY <1>3, <2>2 DEF ExecAfterQuery, cacheVars, envVars
<1>4. CASE Invalidate(c)
  <2> DEFINE k == <<call[c].cfg, route>>
  <2>1. call[c] \in Call /\ k \in Keys
    BY DEF Call, Keys
  <2>3. dbCache' \in [Keys -> Entry]
        /\ life' \in [Insts -> {"unused", "open", "closed", "overclosed"}]
    BY <1>4, HelperTypes DEF Invalidate, CloseAt
  <2>4. CASE dbCache[k].inst # NoInst /\ call[c].op = "query"
    <3>1. call' = [call EXCEPT ![c] = Again(call[c], k)]
          /\ proven' = [proven EXCEPT ![c] = {}] /\ Goto(c, "lookup")
      BY <1>4, <2>4 DEF Invalidate
    <3>2. call' \in [Callers -> Call]
      <4> HIDE DEF k
      <4> QED BY <2>1, <3>1, AgainTypes
    <3> QED
      BY <1>4, <2>3, <3>1, <3>2 DEF Invalidate, Goto, Places, envVars
  <2>5. CASE ~(dbCache[k].inst # NoInst /\ call[c].op = "query")
    <3>1. CASE Return(c)
      BY <1>4, <2>3, <3>1, TypeReturn DEF Invalidate, envVars
    <3>2. CASE ~Return(c)
      <4>1. call' = [call EXCEPT ![c] = Exec(call[c])] /\ Goto(c, "using")
            /\ proven' = proven
        BY <1>4, <2>5, <3>2 DEF Invalidate
      <4>2. call' \in [Callers -> Call]
        BY <2>1, <4>1, ExecTypes
      <4> QED
        BY <1>4, <2>3, <4>1, <4>2 DEF Invalidate, Goto, Places, envVars
    <3> QED
      BY <3>1, <3>2
  <2> QED
    BY <2>4, <2>5
<1> QED
  BY <1>1, <1>2, <1>3, <1>4

\* Steps of the keep-alive loop.
LEMMA TypeKeepAlive ==
    ASSUME TypeOK, KeepAlive
    PROVE  TypeOK'
<1> USE DEF TypeOK
<1> DEFINE Loop == [pc : {"wait", "scan", "mark", "evict", "close", "stopped"},
                    targets : SUBSET Target, cur : Target]
<1>k. loop.cur.key \in Keys /\ loop.cur \in Target /\ loop.targets \subseteq Target
  BY DEF Target
<1>1. CASE KeepAliveCollect
  <2> DEFINE K == {k \in Keys : Due(k)}
             T == {[key |-> k, inst |-> dbCache[k].inst] : k \in K}
  <2>1. T \subseteq Target
    BY DEF Target, Entry
  <2>2. loop' \in Loop
    BY <1>1, <2>1 DEF KeepAliveCollect
  <2>3. dbCache' \in [Keys -> Entry]
    <3>1. \A k \in Keys : [dbCache[k] EXCEPT !.inFlight = TRUE] \in Entry
      <4>1. TRUE \in BOOLEAN /\ "fresh" \in Ages
        BY DEF Ages
      <4> QED
        BY <4>1, EntryUpdate
    <3> QED
      <4>1. dbCache' = [k \in Keys |-> IF k \in K
                                       THEN [dbCache[k] EXCEPT !.inFlight = TRUE]
                                       ELSE dbCache[k]]
        BY <1>1 DEF KeepAliveCollect
      <4> HIDE DEF K
      <4> QED
        BY <3>1, <4>1
  <2> QED
    BY <1>1, <2>2, <2>3 DEF KeepAliveCollect, envVars, callerVars
<1>2. ASSUME NEW t \in loop.targets, NEW ok \in BOOLEAN, KeepAlivePing(t, ok)
      PROVE  TypeOK'
  <2>1. loop' \in Loop
    BY <1>2, <1>k DEF KeepAlivePing
  <2> QED
    BY <1>2, <2>1 DEF KeepAlivePing, cacheVars, envVars, callerVars
<1>3. CASE KeepAliveMark
  <2>1. dbCache' \in [Keys -> Entry]
    <3> DEFINE k == loop.cur.key
               new == [dbCache[k] EXCEPT !.inFlight = FALSE, !.age = "fresh"]
    <3>1. new \in Entry
      <4>1. FALSE \in BOOLEAN /\ "fresh" \in Ages /\ dbCache[k] \in Entry
        BY <1>k DEF Ages
      <4> QED
        BY <4>1, EntryUpdate
    <3>2. dbCache' = dbCache \/ dbCache' = [dbCache EXCEPT ![k] = new]
      BY <1>3, <1>k DEF KeepAliveMark
    <3> QED
      BY <3>1, <3>2
  <2>2. loop' \in Loop
    BY <1>3, NullTypes DEF KeepAliveMark
  <2> QED
    BY <1>3, <2>1, <2>2 DEF KeepAliveMark, envVars, callerVars
<1>4. CASE KeepAliveEvict
  <2>1. dbCache' \in [Keys -> Entry]
    BY <1>4, HelperTypes DEF KeepAliveEvict
  <2>2. loop' \in Loop
    BY <1>4, NullTypes DEF KeepAliveEvict
  <2> QED
    BY <1>4, <2>1, <2>2 DEF KeepAliveEvict, envVars, callerVars
<1>5. CASE KeepAliveClose
  <2>1. loop' \in Loop
    BY <1>5, NullTypes DEF KeepAliveClose
  <2> QED
    BY <1>5, <2>1, HelperTypes DEF KeepAliveClose, envVars, callerVars
<1>6. CASE KeepAliveTickDone
  BY <1>6 DEF KeepAliveTickDone, cacheVars, envVars, callerVars
<1> QED
  BY <1>1, <1>2, <1>3, <1>4, <1>5, <1>6 DEF KeepAlive

\* Shutdown, time and the user.
LEMMA TypeOthers ==
    ASSUME TypeOK, Stop \/ Environment
    PROVE  TypeOK'
<1> USE DEF TypeOK
<1>1. CASE BeginShutdown
  BY <1>1 DEF BeginShutdown, cacheVars, envVars, callerVars
<1>2. CASE StopLoop
  BY <1>2 DEF StopLoop, cacheVars, envVars, callerVars
<1>3. CASE CloseAll
  BY <1>3, HelperTypes DEF CloseAll, CloseAt, envVars, callerVars
<1>4. ASSUME NEW k \in Keys, EntryAges(k) PROVE TypeOK'
  BY <1>4 DEF EntryAges, Older, Entry, Ages, envVars, callerVars
<1>5. ASSUME NEW k \in Keys, CooldownExpires(k) PROVE TypeOK'
  BY <1>5 DEF CooldownExpires, envVars, callerVars
<1>6. CASE ToggleProxy
  <2>1. proxyChanges' \in 0..MaxProxyChanges
    BY <1>6, ConstantsAssumption DEF ToggleProxy
  <2> QED
    BY <1>6, <2>1 DEF ToggleProxy, Routes, cacheVars, callerVars
<1> QED
  BY <1>1, <1>2, <1>3, <1>4, <1>5, <1>6 DEF Stop, Environment

----------------------------------------------------------------------------
(* Ownership.  Most steps move no instance; the others move instances      *)
(* between the cache, the goroutines and the closed ones.                  *)

Owned ==
    /\ CachedIsOpen
    /\ CacheOwnsAlone
    /\ HeldApart
    /\ NothingLeaks
    /\ ClosedOnce

LEMMA OwnedInit == Init => LocalsOK /\ Owned
<1> SUFFICES ASSUME Init PROVE LocalsOK /\ Owned
  OBVIOUS
<1> USE DEF Init
<1>1. InstsAt(Keys) = {} /\ Occupied = {}
  BY DEF InstsAt, Occupied, NoEntry
<1>2. LocalsOK
  BY DEF LocalsOK, LoopOK, CallerOK, RoundOK, NoCall, NoTarget
<1>3. \A i \in Insts : ~HeldByLoop(i) /\ \A c \in Callers : ~HeldBy(c, i)
  BY ConstantsAssumption DEF HeldByLoop, HeldBy
<1> QED
  BY <1>1, <1>2, <1>3 DEF Owned, CachedIsOpen, CacheOwnsAlone, HeldApart,
                          NothingLeaks, ClosedOnce

\* A step that moves no instance.
LEMMA OwnedKept ==
    ASSUME TypeOK, TypeOK', Owned,
           \A k \in Keys : dbCache'[k].inst = dbCache[k].inst,
           life' = life, mine' = mine, doomed' = doomed,
           \A i \in Insts : HeldByLoop(i)' <=> HeldByLoop(i)
    PROVE  Owned'
<1>1. InstsAt(Keys)' = InstsAt(Keys) /\ Occupied' = Occupied
  BY DEF InstsAt, Occupied
<1>2. InstsAt(Keys) \subseteq Insts
  BY HelperTypes
<1>3. \A c \in Callers : \A i : HeldBy(c, i)' <=> HeldBy(c, i)
  BY DEF HeldBy
<1>4. CachedIsOpen'
  BY <1>1 DEF Owned, CachedIsOpen
<1>5. CacheOwnsAlone'
  BY <1>1, <1>2, <1>3 DEF Owned, CacheOwnsAlone, Occupied
<1>6. HeldApart'
  BY <1>3 DEF Owned, HeldApart
<1>7. NothingLeaks'
  BY <1>1, <1>3 DEF Owned, NothingLeaks
<1>8. ClosedOnce'
  BY DEF Owned, ClosedOnce
<1> QED
  BY <1>4, <1>5, <1>6, <1>7, <1>8 DEF Owned

\* What is left in the cache when the entries of K are taken out.
LEMMA TakenOut ==
    ASSUME TypeOK, Owned, NEW K, dbCache' = Without(K), K \subseteq Keys
    PROVE  /\ InstsAt(Keys)' = InstsAt(Keys) \ InstsAt(K)
           /\ InstsAt(K) \subseteq InstsAt(Keys)
           /\ Occupied' = Occupied \ K
           /\ \A k \in Occupied' : dbCache'[k] = dbCache[k]
<1>1. \A k \in Keys : dbCache'[k] = IF k \in K THEN NoEntry ELSE dbCache[k]
  BY DEF Without
<1>2. Occupied' = Occupied \ K
  BY <1>1 DEF Occupied, NoEntry
<1>3. \A k \in Occupied' : dbCache'[k] = dbCache[k]
  BY <1>1, <1>2 DEF Occupied
<1>4. InstsAt(K) \subseteq InstsAt(Keys)
  BY DEF InstsAt
<1>5. InstsAt(Keys)' \subseteq InstsAt(Keys) \ InstsAt(K)
  <2> SUFFICES ASSUME NEW k \in Keys, dbCache'[k].inst # NoInst
               PROVE  dbCache'[k].inst \in InstsAt(Keys) \ InstsAt(K)
    BY DEF InstsAt
  <2>1. k \notin K /\ dbCache'[k] = dbCache[k] /\ k \in Occupied
    BY <1>2, <1>3 DEF Occupied
  <2>2. \A j \in K : dbCache[j].inst # dbCache[k].inst
    BY <2>1 DEF Owned, CacheOwnsAlone, Occupied
  <2> QED
    BY <2>1, <2>2 DEF InstsAt
<1>6. InstsAt(Keys) \ InstsAt(K) \subseteq InstsAt(Keys)'
  <2> SUFFICES ASSUME NEW k \in Keys, dbCache[k].inst # NoInst,
                      dbCache[k].inst \notin InstsAt(K)
               PROVE  dbCache[k].inst \in InstsAt(Keys)'
    BY DEF InstsAt
  <2>1. k \notin K
    BY DEF InstsAt
  <2> QED
    BY <1>1, <2>1 DEF InstsAt
<1> QED
  BY <1>2, <1>3, <1>4, <1>5, <1>6

\* Entries are closed and taken out in one critical section.
LEMMA OwnedCloseAt ==
    ASSUME TypeOK, TypeOK', Owned, NEW K, K \subseteq Keys, CloseAt(K),
           mine' = mine, doomed' = doomed,
           \A i \in Insts : HeldByLoop(i)' <=> HeldByLoop(i)
    PROVE  Owned'
<1> DEFINE S == InstsAt(K)
<1>1. /\ InstsAt(Keys)' = InstsAt(Keys) \ S
      /\ S \subseteq InstsAt(Keys)
      /\ Occupied' = Occupied \ K
      /\ \A k \in Occupied' : dbCache'[k] = dbCache[k]
  BY TakenOut DEF CloseAt
<1>2. InstsAt(Keys) \subseteq Insts
  BY HelperTypes
<1>3. \A c \in Callers : \A i : HeldBy(c, i)' <=> HeldBy(c, i)
  BY DEF HeldBy
<1>4. \A i \in Insts : life'[i] = IF i \in S THEN "closed" ELSE life[i]
  BY <1>1, <1>2 DEF CloseAt, Closing, Owned, CachedIsOpen
<1> HIDE DEF S
<1>5. CachedIsOpen'
  BY <1>1, <1>2, <1>4 DEF Owned, CachedIsOpen
<1>6. CacheOwnsAlone'
  BY <1>1, <1>2, <1>3 DEF Owned, CacheOwnsAlone
<1>7. HeldApart'
  BY <1>1, <1>2, <1>3, <1>4 DEF Owned, HeldApart, CacheOwnsAlone
<1>8. NothingLeaks'
  BY <1>1, <1>3, <1>4 DEF Owned, NothingLeaks
<1>9. ClosedOnce'
  BY <1>4 DEF Owned, ClosedOnce
<1> QED
  BY <1>5, <1>6, <1>7, <1>8, <1>9 DEF Owned

\* The other steps that move instances, one lemma each.
LEMMA OwnedConnectOk ==
    ASSUME TypeOK, TypeOK', LocalsOK, Owned, NEW c \in Callers, NEW i \in Insts,
           ConnectOk(c, i)
    PROVE  Owned'
<1>1. /\ dbCache' = dbCache /\ loop' = loop /\ doomed' = doomed
      /\ life[i] = "unused"
      /\ life' = [life EXCEPT ![i] = "open"]
      /\ mine' = [mine EXCEPT ![c] = i]
      /\ mine[c] = NoInst
  BY DEF ConnectOk, LocalsOK, CallerOK
<1>2. InstsAt(Keys)' = InstsAt(Keys) /\ Occupied' = Occupied
      /\ InstsAt(Keys) \subseteq Insts
  BY <1>1, HelperTypes DEF InstsAt, Occupied
<1>3. /\ i \notin InstsAt(Keys) /\ ~HeldByLoop(i)
      /\ \A d \in Callers : ~HeldBy(d, i)
  BY <1>1 DEF Owned, CachedIsOpen, HeldApart
<1>4. \A d \in Callers, j \in Insts : HeldBy(d, j)' <=> HeldBy(d, j) \/ (d = c /\ j = i)
  BY <1>1, ConstantsAssumption DEF HeldBy, TypeOK
<1>5. \A j \in Insts : HeldByLoop(j)' <=> HeldByLoop(j)
  BY <1>1 DEF HeldByLoop
<1>6. \A j \in Insts : life'[j] = IF j = i THEN "open" ELSE life[j]
  BY <1>1 DEF TypeOK
<1>7. CachedIsOpen'
  BY <1>2, <1>6 DEF Owned, CachedIsOpen
<1>8. CacheOwnsAlone'
  BY <1>1, <1>2, <1>3, <1>4, <1>5 DEF Owned, CacheOwnsAlone
<1>9. HeldApart'
  BY <1>3, <1>4, <1>5, <1>6 DEF Owned, HeldApart
<1>10. NothingLeaks'
  BY <1>2, <1>4, <1>5, <1>6 DEF Owned, NothingLeaks
<1>11. ClosedOnce'
  BY <1>6 DEF Owned, ClosedOnce
<1> QED
  BY <1>7, <1>8, <1>9, <1>10, <1>11 DEF Owned

LEMMA OwnedRelease ==
    ASSUME TypeOK, TypeOK', LocalsOK, Owned, NEW c \in Callers, Release(c)
    PROVE  Owned'
<1> DEFINE K == {k \in Occupied : SameServer(k, call[c].ckey)}
           S == InstsAt(K)
<1>1. /\ dbCache' = Without(K) /\ loop' = loop /\ mine' = mine /\ life' = life
      /\ doomed' = [doomed EXCEPT ![c] = S]
      /\ doomed[c] = {}
      /\ K \subseteq Keys
  BY DEF Release, LocalsOK, CallerOK, Occupied
<1> HIDE DEF K
<1>2a. InstsAt(Keys) \subseteq Insts
  BY HelperTypes
<1>2. /\ InstsAt(Keys)' = InstsAt(Keys) \ S
      /\ S \subseteq InstsAt(Keys)
      /\ Occupied' = Occupied \ K
      /\ \A k \in Occupied' : dbCache'[k] = dbCache[k]
      /\ InstsAt(Keys) \subseteq Insts
  BY <1>1, <1>2a, TakenOut
<1> HIDE DEF S
<1>3. \A d \in Callers, j \in Insts :
         HeldBy(d, j)' <=> HeldBy(d, j) \/ (d = c /\ j \in S)
  BY <1>1 DEF HeldBy, TypeOK
<1>4. \A j \in Insts : HeldByLoop(j)' <=> HeldByLoop(j)
  BY <1>1 DEF HeldByLoop
<1>5. CachedIsOpen'
  BY <1>1, <1>2 DEF Owned, CachedIsOpen
<1>6. CacheOwnsAlone'
  BY <1>2, <1>3, <1>4 DEF Owned, CacheOwnsAlone
<1>7. HeldApart'
  BY <1>1, <1>2, <1>3, <1>4 DEF Owned, HeldApart, CacheOwnsAlone, CachedIsOpen
<1>8. NothingLeaks'
  BY <1>1, <1>2, <1>3, <1>4 DEF Owned, NothingLeaks
<1>9. ClosedOnce'
  BY <1>1 DEF Owned, ClosedOnce
<1> QED
  BY <1>5, <1>6, <1>7, <1>8, <1>9 DEF Owned

\* A goroutine closes the one instance it holds.
LEMMA OwnedClosed ==
    ASSUME TypeOK, TypeOK', Owned, NEW i \in Insts,
           dbCache' = dbCache, life' = Closing({i}),
           HeldByLoop(i) \/ \E c \in Callers : HeldBy(c, i),
           \A c \in Callers, j \in Insts : HeldBy(c, j)' <=> HeldBy(c, j) /\ j # i,
           \A j \in Insts : HeldByLoop(j)' <=> HeldByLoop(j) /\ j # i
    PROVE  Owned'
<1>1. InstsAt(Keys)' = InstsAt(Keys) /\ Occupied' = Occupied
      /\ InstsAt(Keys) \subseteq Insts
  BY HelperTypes DEF InstsAt, Occupied
<1>2. life[i] = "open" /\ i \notin InstsAt(Keys)
  BY DEF Owned, HeldApart, CacheOwnsAlone
<1>3. \A j \in Insts : life'[j] = IF j = i THEN "closed" ELSE life[j]
  BY <1>2 DEF Closing
<1>4. CachedIsOpen'
  BY <1>1, <1>2, <1>3 DEF Owned, CachedIsOpen
<1>5. CacheOwnsAlone'
  BY <1>1 DEF Owned, CacheOwnsAlone
<1>6. HeldApart'
  BY <1>3 DEF Owned, HeldApart
<1>7. NothingLeaks'
  BY <1>1, <1>2, <1>3 DEF Owned, NothingLeaks
<1>8. ClosedOnce'
  BY <1>3 DEF Owned, ClosedOnce
<1> QED
  BY <1>4, <1>5, <1>6, <1>7, <1>8 DEF Owned

\* An instance is published.
LEMMA OwnedInsert ==
    ASSUME TypeOK, TypeOK', LocalsOK, Owned, NEW c \in Callers, Insert(c),
           dbCache[call[c].ckey].inst = NoInst
    PROVE  Owned'
<1> DEFINE k == call[c].ckey
           i == mine[c]
<1>1. /\ dbCache' = [dbCache EXCEPT ![k] = NewEntry(c)]
      /\ mine' = [mine EXCEPT ![c] = NoInst]
      /\ life' = life /\ doomed' = doomed /\ loop' = loop
      /\ k \in Keys /\ dbCache[k].inst = NoInst /\ i # NoInst
  BY DEF Insert, TypeOK, Call, LocalsOK, CallerOK
<1>2. NewEntry(c).inst = i /\ i \in Insts
  BY <1>1 DEF NewEntry, TypeOK, OptInst
<1>3. \A j \in Keys : dbCache'[j] = IF j = k THEN NewEntry(c) ELSE dbCache[j]
  BY <1>1 DEF TypeOK
<1> HIDE DEF k, i
<1>4. InstsAt(Keys)' = InstsAt(Keys) \cup {i} /\ Occupied' = Occupied \cup {k}
      /\ k \notin Occupied /\ InstsAt(Keys) \subseteq Insts
  <2>1. Occupied' = Occupied \cup {k} /\ k \notin Occupied
    BY <1>1, <1>2, <1>3 DEF Occupied
  <2>2. InstsAt(Keys)' = InstsAt(Keys) \cup {i}
    BY <1>1, <1>2, <1>3 DEF InstsAt
  <2> QED
    BY <2>1, <2>2, HelperTypes
<1>5. HeldBy(c, i) /\ life[i] = "open"
  BY <1>2 DEF HeldBy, Owned, HeldApart, i
<1>6. i \notin InstsAt(Keys) /\ ~HeldByLoop(i) /\ i \notin doomed[c]
  BY <1>1, <1>2, <1>5 DEF Owned, CacheOwnsAlone, HeldApart, LocalsOK, CallerOK, Insert
<1>7. \A d \in Callers, j \in Insts : HeldBy(d, j)' <=> HeldBy(d, j) /\ j # i
  <2>1. \A d \in Callers : HeldBy(d, i) => d = c
    BY <1>2, <1>5 DEF Owned, HeldApart
  <2>2. \A d \in Callers : mine'[d] = IF d = c THEN NoInst ELSE mine[d]
    BY <1>1 DEF TypeOK
  <2> QED
    BY <1>1, <1>2, <1>6, <2>1, <2>2, ConstantsAssumption DEF HeldBy, i
<1>8. \A j \in Insts : HeldByLoop(j)' <=> HeldByLoop(j)
  BY <1>1 DEF HeldByLoop
<1>9. CachedIsOpen'
  BY <1>1, <1>4, <1>5 DEF Owned, CachedIsOpen
<1>10. CacheOwnsAlone'
  <2>1. ASSUME NEW k1 \in Occupied', NEW k2 \in Occupied',
               dbCache'[k1].inst = dbCache'[k2].inst
        PROVE  k1 = k2
    <3>1. \A j \in Occupied : j # k /\ dbCache'[j] = dbCache[j] /\ dbCache[j].inst # i
      BY <1>3, <1>4, <1>6 DEF Occupied, InstsAt
    <3>2. dbCache'[k].inst = i
      BY <1>1, <1>2, <1>3
    <3> QED
      BY <1>4, <2>1, <3>1, <3>2 DEF Owned, CacheOwnsAlone
  <2>2. \A j \in InstsAt(Keys)' :
           ~HeldByLoop(j)' /\ \A d \in Callers : ~HeldBy(d, j)'
    BY <1>2, <1>4, <1>6, <1>7, <1>8 DEF Owned, CacheOwnsAlone
  <2> QED
    BY <2>1, <2>2 DEF CacheOwnsAlone
<1>11. HeldApart'
  BY <1>1, <1>7, <1>8 DEF Owned, HeldApart
<1>12. NothingLeaks'
  BY <1>1, <1>4, <1>7, <1>8 DEF Owned, NothingLeaks
<1>13. ClosedOnce'
  BY <1>1 DEF Owned, ClosedOnce
<1> QED
  BY <1>9, <1>10, <1>11, <1>12, <1>13 DEF Owned

\* The keep-alive loop takes a dead instance out, to close it later.
LEMMA OwnedKeepAliveEvict ==
    ASSUME TypeOK, TypeOK', LocalsOK, Owned, KeepAliveEvict
    PROVE  Owned'
<1> DEFINE k == loop.cur.key
           i == loop.cur.inst
<1>0. k \in Keys /\ i \in Insts /\ \A j \in Insts : ~HeldByLoop(j)
  BY DEF KeepAliveEvict, LocalsOK, LoopOK, HeldByLoop, TypeOK, Target, OptInst
<1>1. CASE ~StillTarget
  <2>1. \A j \in Insts : ~HeldByLoop(j)'
    BY <1>1 DEF KeepAliveEvict, HeldByLoop, TypeOK
  <2>2. dbCache' = dbCache /\ life' = life /\ mine' = mine /\ doomed' = doomed
    BY <1>1 DEF KeepAliveEvict, callerVars
  <2> QED
    BY <1>0, <2>1, <2>2, OwnedKept
<1>2. CASE StillTarget
  <2>1. /\ dbCache' = Without({k}) /\ life' = life /\ mine' = mine
        /\ doomed' = doomed
        /\ loop' = [loop EXCEPT !.pc = "close"]
        /\ dbCache[k].inst = i
    BY <1>2 DEF KeepAliveEvict, StillTarget, callerVars
  <2>2. InstsAt({k}) = {i}
    BY <1>0, <2>1, ConstantsAssumption DEF InstsAt
  <2>3. /\ InstsAt(Keys)' = InstsAt(Keys) \ {i}
        /\ i \in InstsAt(Keys)
        /\ Occupied' = Occupied \ {k}
        /\ \A j \in Occupied' : dbCache'[j] = dbCache[j]
        /\ InstsAt(Keys) \subseteq Insts
    <3>1. InstsAt(Keys) \subseteq Insts
      BY HelperTypes
    <3>2. {k} \subseteq Keys
      BY <1>0
    <3> HIDE DEF k, i
    <3> QED
      BY <2>1, <2>2, <3>1, <3>2, TakenOut
  <2>4. \A j \in Insts : HeldByLoop(j)' <=> j = i
    BY <2>1 DEF HeldByLoop, TypeOK
  <2>5. \A d \in Callers, j \in Insts : HeldBy(d, j)' <=> HeldBy(d, j)
    BY <2>1 DEF HeldBy
  <2> HIDE DEF i, k
  <2>6. CachedIsOpen'
    BY <2>1, <2>3 DEF Owned, CachedIsOpen
  <2>7. CacheOwnsAlone'
    BY <2>3, <2>4, <2>5 DEF Owned, CacheOwnsAlone
  <2>8. HeldApart'
    BY <1>0, <2>1, <2>3, <2>4, <2>5 DEF Owned, HeldApart, CacheOwnsAlone, CachedIsOpen
  <2>9. NothingLeaks'
    BY <1>0, <2>1, <2>3, <2>4, <2>5 DEF Owned, NothingLeaks
  <2>10. ClosedOnce'
    BY <2>1 DEF Owned, ClosedOnce
  <2> QED
    BY <2>6, <2>7, <2>8, <2>9, <2>10 DEF Owned
<1> QED
  BY <1>1, <1>2

----------------------------------------------------------------------------
(* The locals of the goroutines.                                           *)

\* A step of c leaves the locals of the others alone.
LEMMA LocalsFrame ==
    ASSUME LocalsOK, NEW c \in Callers, loop' = loop, CallerOK(c)', RoundOK(c)',
           \A d \in Callers \ {c} :
              /\ pc'[d] = pc[d] /\ call'[d] = call[d]
              /\ mine'[d] = mine[d] /\ doomed'[d] = doomed[d]
    PROVE  LocalsOK'
<1>1. \A d \in Callers \ {c} : CallerOK(d)' /\ RoundOK(d)'
  BY DEF LocalsOK, CallerOK, RoundOK
<1> QED
  BY <1>1 DEF LocalsOK, LoopOK

\* Within a round a call keeps the instance it got first, and only a query that
\* has not reconnected in this round invalidates.
LEMMA RoundsProgress ==
    ASSUME TypeOK, LocalsOK, NEW c \in Callers, Progress(c)
    PROVE  RoundOK(c)'
<1> DEFINE Kept == /\ call'[c].again = call[c].again /\ call'[c].round = call[c].round
                   /\ call'[c].first = call[c].first
                   /\ pc'[c] # "invalidate"
<1>0. /\ pc \in [Callers -> Places] /\ call \in [Callers -> Call]
      /\ CallerOK(c) /\ RoundOK(c)
  BY DEF LocalsOK, TypeOK
<1>1. CASE Return(c)
  <2>1. call'[c] = NoCall /\ pc'[c] = "idle"
    BY <1>0, <1>1 DEF Return, Goto
  <2>. QED  BY <2>1 DEF RoundOK, NoCall
<1>2. CASE Kept
  BY <1>0, <1>2 DEF RoundOK
<1>3. CASE Lookup(c) \/ ApplySettings(c)
  <2>1. Kept
    <3>1. CASE Lookup(c)
      BY <1>0, <3>1 DEF Lookup, Goto, Call
    <3>2. CASE ApplySettings(c)
      BY <1>0, <3>2 DEF ApplySettings, Goto, Call
    <3>. QED  BY <1>3, <3>1, <3>2
  <2>. QED  BY <1>2, <2>1
<1>4. CASE PingOk(c) \/ PingFails(c) \/ Touch(c) \/ EvictAfterPing(c)
  <2>1. Kept
    <3>1. CASE PingOk(c) \/ PingFails(c)
      BY <1>0, <3>1 DEF PingOk, PingFails, Goto
    <3>2. CASE Touch(c)
      BY <1>0, <3>2 DEF Touch, Serve, Goto, Call
    <3>3. CASE EvictAfterPing(c)
      BY <1>0, <3>3 DEF EvictAfterPing, Goto, Call
    <3>. QED  BY <1>4, <3>1, <3>2, <3>3
  <2>. QED  BY <1>2, <2>1
<1>5. CASE (CheckCooldown(c) \/ ClearExpired(c)) /\ ~Return(c)
  <2>1. Kept
    BY <1>0, <1>5 DEF CheckCooldown, ClearExpired, Goto
  <2>. QED  BY <1>2, <2>1
<1>6. CASE \/ \E i \in Insts : ConnectOk(c, i)
           \/ ConnectRetry(c)
  <2>1. Kept
    <3>1. CASE ConnectRetry(c)
      BY <1>0, <3>1 DEF ConnectRetry, Call
    <3>2. ASSUME NEW i \in Insts, ConnectOk(c, i) PROVE Kept
      BY <1>0, <3>2 DEF ConnectOk, Goto, Call
    <3>. QED  BY <1>6, <3>1, <3>2
  <2>. QED  BY <1>2, <2>1
<1>7. CASE (ConnectFails(c) \/ TooManyConnections(c)) /\ ~Return(c)
  <2>1. Kept
    <3>1. CASE ConnectFails(c)
      BY <1>0, <1>7, <3>1 DEF ConnectFails, Goto, Call
    <3>2. CASE TooManyConnections(c)
      BY <1>0, <1>7, <3>2 DEF TooManyConnections, Goto, Call
    <3>. QED  BY <1>7, <3>1, <3>2
  <2>. QED  BY <1>2, <2>1
<1>8. CASE \/ (Release(c) \/ Released(c)) /\ ~Return(c)
           \/ \E i \in Insts : CloseDoomed(c, i)
  <2>1. Kept
    <3>1. CASE Release(c) /\ ~Return(c)
      BY <1>0, <3>1 DEF Release, Goto
    <3>2. CASE Released(c) /\ ~Return(c)
      BY <1>0, <3>2 DEF Released, Goto, Call
    <3>3. ASSUME NEW i \in Insts, CloseDoomed(c, i) PROVE Kept
      BY <1>0, <3>3 DEF CloseDoomed
    <3>. QED  BY <1>8, <3>1, <3>2, <3>3
  <2>. QED  BY <1>2, <2>1
<1>9. CASE ClearFirstKey(c) \/ ClearSecondKey(c)
  <2>1. Kept
    BY <1>0, <1>9 DEF ClearFirstKey, ClearSecondKey, Goto
  <2>. QED  BY <1>2, <2>1
<1>10. CASE (Insert(c) \/ Discard(c)) /\ ~Return(c)
  <2>1. Kept
    <3>1. CASE Insert(c)
      BY <1>0, <3>1 DEF Insert, Serve, Goto, Call
    <3>2. CASE Discard(c)
      BY <1>0, <1>10, <3>2 DEF Discard, Serve, Goto, Call
    <3>. QED  BY <1>10, <3>1, <3>2
  <2>. QED  BY <1>2, <2>1
<1>11. CASE MeetDeadConnection(c)
  <2>1. call' = call /\ ~call[c].again /\ call[c].seen.inst # NoInst
    BY <1>0, <1>11 DEF MeetDeadConnection, CallerOK
  <2>. QED  BY <2>1 DEF RoundOK
<1>12. CASE ExecAfterQuery(c) \/ (Invalidate(c) /\ ~Return(c))
  <2>1. pc'[c] # "invalidate" /\ call[c] \in Call /\ <<call[c].cfg, route>> \in Keys
    BY <1>0, <1>12 DEF ExecAfterQuery, Invalidate, Goto, TypeOK, Call, Keys
  <2>2. \/ call'[c] = Exec(call[c])
        \/ /\ call'[c] = Again(call[c], <<call[c].cfg, route>>)
           /\ pc[c] = "invalidate" /\ call[c].op = "query"
    BY <1>0, <1>12 DEF ExecAfterQuery, Invalidate
  <2>3. CASE call'[c] = Exec(call[c])
    BY <2>1, <2>3, ExecTypes DEF RoundOK
  <2>4. CASE /\ call'[c] = Again(call[c], <<call[c].cfg, route>>)
             /\ pc[c] = "invalidate" /\ call[c].op = "query"
    <3>1. call[c].seen.inst # NoInst
      BY <1>0, <2>4 DEF RoundOK
    <3>. QED  BY <2>1, <2>4, <3>1, AgainTypes DEF RoundOK
  <2>. QED  BY <2>2, <2>3, <2>4
<1>13. CASE Unsupported(c) \/ RecordFailure(c) \/ Finish(c)
  BY <1>1, <1>13 DEF Unsupported, RecordFailure, Finish
<1>. QED
  BY <1>1, <1>3, <1>4, <1>5, <1>6, <1>7, <1>8, <1>9, <1>10, <1>11, <1>12, <1>13
  DEF Progress

LEMMA LocalsProgress ==
    ASSUME TypeOK, LocalsOK, NEW c \in Callers, Progress(c)
    PROVE  LocalsOK'
<1> DEFINE Others == \A d \in Callers \ {c} :
                       /\ pc'[d] = pc[d] /\ call'[d] = call[d]
                       /\ mine'[d] = mine[d] /\ doomed'[d] = doomed[d]
<1> USE DEF TypeOK
<1>0. CallerOK(c) /\ RoundOK(c)'
  BY RoundsProgress DEF LocalsOK
<1>1. CASE Unsupported(c)
  <2>1. CallerOK(c)'
    BY <1>0, <1>1, ConstantsAssumption DEF Unsupported, CallerOK, Goto, CloseAt, Return
  <2>2. Others /\ loop' = loop
    BY <1>1 DEF Unsupported, Goto, CloseAt, Return
  <2> QED
    BY <1>0, <2>1, <2>2, LocalsFrame
<1>2. CASE Lookup(c)
  <2>1. CallerOK(c)'
    BY <1>0, <1>2, ConstantsAssumption DEF Lookup, CallerOK, Goto, Call, Entry
  <2>2. Others /\ loop' = loop
    BY <1>2 DEF Lookup, Goto
  <2> QED
    BY <1>0, <2>1, <2>2, LocalsFrame
<1>3. CASE ApplySettings(c)
  <2>1. CallerOK(c)'
    BY <1>0, <1>3, ConstantsAssumption DEF ApplySettings, CallerOK, Goto, Only
  <2>2. Others /\ loop' = loop
    BY <1>3 DEF ApplySettings, Goto, Only
  <2> QED
    BY <1>0, <2>1, <2>2, LocalsFrame
<1>4. CASE PingOk(c)
  <2>1. CallerOK(c)'
    BY <1>0, <1>4, ConstantsAssumption DEF PingOk, CallerOK, Goto
  <2>2. Others /\ loop' = loop
    BY <1>4 DEF PingOk, Goto
  <2> QED
    BY <1>0, <2>1, <2>2, LocalsFrame
<1>5. CASE PingFails(c)
  <2>1. CallerOK(c)'
    BY <1>0, <1>5, ConstantsAssumption DEF PingFails, CallerOK, Goto
  <2>2. Others /\ loop' = loop
    BY <1>5 DEF PingFails, Goto
  <2> QED
    BY <1>0, <2>1, <2>2, LocalsFrame
<1>6. CASE Touch(c)
  <2>1. CallerOK(c)'
    BY <1>0, <1>6, ConstantsAssumption DEF Touch, CallerOK, Goto, Serve, Only
  <2>2. Others /\ loop' = loop
    BY <1>6 DEF Touch, Goto, Serve, Only
  <2> QED
    BY <1>0, <2>1, <2>2, LocalsFrame
<1>7. CASE EvictAfterPing(c)
  <2>1. CallerOK(c)'
    BY <1>0, <1>7, ConstantsAssumption DEF EvictAfterPing, CallerOK, Goto
  <2>2. Others /\ loop' = loop
    BY <1>7 DEF EvictAfterPing, Goto
  <2> QED
    BY <1>0, <2>1, <2>2, LocalsFrame
<1>8. CASE CheckCooldown(c)
  <2>1. CallerOK(c)'
    BY <1>0, <1>8, ConstantsAssumption DEF CheckCooldown, CallerOK, Goto, Return
  <2>2. Others /\ loop' = loop
    BY <1>8 DEF CheckCooldown, Goto, Return
  <2> QED
    BY <1>0, <2>1, <2>2, LocalsFrame
<1>9. CASE ClearExpired(c)
  <2>1. CallerOK(c)'
    BY <1>0, <1>9, ConstantsAssumption DEF ClearExpired, CallerOK, Goto
  <2>2. Others /\ loop' = loop
    BY <1>9 DEF ClearExpired, Goto
  <2> QED
    BY <1>0, <2>1, <2>2, LocalsFrame
<1>10. ASSUME NEW i \in Insts, ConnectOk(c, i) PROVE LocalsOK'
  <2>1. CallerOK(c)'
    BY <1>0, <1>10, ConstantsAssumption DEF ConnectOk, CallerOK, Goto
  <2>2. Others /\ loop' = loop
    BY <1>10 DEF ConnectOk, Goto
  <2> QED
    BY <1>0, <2>1, <2>2, LocalsFrame
<1>11. CASE ConnectRetry(c)
  <2>1. CallerOK(c)'
    BY <1>0, <1>11, ConstantsAssumption DEF ConnectRetry, CallerOK, Goto
  <2>2. Others /\ loop' = loop
    BY <1>11 DEF ConnectRetry, Goto
  <2> QED
    BY <1>0, <2>1, <2>2, LocalsFrame
<1>12. CASE ConnectFails(c)
  <2>1. CallerOK(c)'
    BY <1>0, <1>12, ConstantsAssumption DEF ConnectFails, CallerOK, Goto, Return
  <2>2. Others /\ loop' = loop
    BY <1>12 DEF ConnectFails, Goto, Return
  <2> QED
    BY <1>0, <2>1, <2>2, LocalsFrame
<1>13. CASE TooManyConnections(c)
  <2>1. CallerOK(c)'
    BY <1>0, <1>13, ConstantsAssumption DEF TooManyConnections, CallerOK, Goto
  <2>2. Others /\ loop' = loop
    BY <1>13 DEF TooManyConnections, Goto
  <2> QED
    BY <1>0, <2>1, <2>2, LocalsFrame
<1>14. CASE Release(c)
  <2>1. CallerOK(c)'
    <3>1. InstsAt({}) = {} /\ pc[c] = "release" /\ mine[c] = NoInst
          /\ mine' = mine
      BY <1>0, <1>14 DEF InstsAt, Release, CallerOK
    <3>2. doomed'[c] # {} => pc'[c] = "closing"
      BY <1>14, <3>1 DEF Release, Goto
    <3>3. pc'[c] \in {"closing", "idle", "record"}
      BY <1>14 DEF Release, Goto, Return
    <3> QED
      BY <3>1, <3>2, <3>3 DEF CallerOK
  <2>2. Others /\ loop' = loop
    BY <1>14 DEF Release, Goto, Return
  <2> QED
    BY <1>0, <2>1, <2>2, LocalsFrame
<1>15. ASSUME NEW i \in Insts, CloseDoomed(c, i) PROVE LocalsOK'
  <2>1. CallerOK(c)'
    BY <1>0, <1>15, ConstantsAssumption DEF CloseDoomed, CallerOK, Goto
  <2>2. Others /\ loop' = loop
    BY <1>15 DEF CloseDoomed, Goto
  <2> QED
    BY <1>0, <2>1, <2>2, LocalsFrame
<1>16. CASE Released(c)
  <2>1. CallerOK(c)'
    BY <1>0, <1>16, ConstantsAssumption DEF Released, CallerOK, Goto, Return
  <2>2. Others /\ loop' = loop
    BY <1>16 DEF Released, Goto, Return
  <2> QED
    BY <1>0, <2>1, <2>2, LocalsFrame
<1>17. CASE RecordFailure(c)
  <2>1. CallerOK(c)'
    BY <1>0, <1>17, ConstantsAssumption DEF RecordFailure, CallerOK, Goto, Return
  <2>2. Others /\ loop' = loop
    BY <1>17 DEF RecordFailure, Goto, Return
  <2> QED
    BY <1>0, <2>1, <2>2, LocalsFrame
<1>18. CASE ClearFirstKey(c)
  <2>1. CallerOK(c)'
    BY <1>0, <1>18, ConstantsAssumption DEF ClearFirstKey, CallerOK, Goto
  <2>2. Others /\ loop' = loop
    BY <1>18 DEF ClearFirstKey, Goto
  <2> QED
    BY <1>0, <2>1, <2>2, LocalsFrame
<1>19. CASE ClearSecondKey(c)
  <2>1. CallerOK(c)'
    BY <1>0, <1>19, ConstantsAssumption DEF ClearSecondKey, CallerOK, Goto
  <2>2. Others /\ loop' = loop
    BY <1>19 DEF ClearSecondKey, Goto
  <2> QED
    BY <1>0, <2>1, <2>2, LocalsFrame
<1>20. CASE Insert(c)
  <2>1. CallerOK(c)'
    <3>1. mine[c] # NoInst /\ doomed[c] = {} /\ doomed' = doomed
      BY <1>0, <1>20 DEF Insert, CallerOK
    <3>2. CASE dbCache[call[c].ckey].inst # NoInst
      <4>1. pc'[c] = "discard" /\ mine' = mine
            /\ call'[c].seen.inst = dbCache[call[c].ckey].inst
        BY <1>20, <3>2 DEF Insert, Goto, Only, NoEntry, Call
      <4> QED
        BY <3>1, <3>2, <4>1 DEF CallerOK
    <3>3. CASE dbCache[call[c].ckey].inst = NoInst
      <4>1. pc'[c] = "using" /\ mine'[c] = NoInst
            /\ call'[c].seen.inst = mine[c]
        BY <1>20, <3>3 DEF Insert, Goto, Serve, Only, NoEntry, Call
      <4> QED
        BY <3>1, <4>1 DEF CallerOK
    <3> QED
      BY <3>2, <3>3
  <2>2. Others /\ loop' = loop
    BY <1>20 DEF Insert, Goto, Serve, Only
  <2> QED
    BY <1>0, <2>1, <2>2, LocalsFrame
<1>21. CASE Discard(c)
  <2>1. CallerOK(c)'
    <3>1. doomed[c] = {} /\ doomed' = doomed /\ mine'[c] = NoInst
      BY <1>0, <1>21 DEF Discard, CallerOK
    <3>2. \/ pc'[c] = "idle"
          \/ /\ pc'[c] = "using" /\ call[c].op # "test"
             /\ call'[c].seen.inst = call[c].seen.inst
      <4>1. CASE call[c].op = "test"
        <5>1. Return(c)
          BY <1>21, <4>1 DEF Discard
        <5>2. pc'[c] = "idle"
          BY <5>1 DEF Return, Goto
        <5> QED
          BY <5>2
      <4>2. CASE call[c].op # "test"
        <5>1. Serve(c, call[c].seen.inst)
          BY <1>21, <4>2 DEF Discard
        <5> QED
          BY <4>2, <5>1 DEF Serve, Goto, Only, NoEntry, Call
      <4> QED
        BY <4>1, <4>2
    <3> QED
      BY <1>0, <1>21, <3>1, <3>2 DEF Discard, CallerOK
  <2>2. Others /\ loop' = loop
    BY <1>21 DEF Discard, Goto, Serve, Only, Return
  <2> QED
    BY <1>0, <2>1, <2>2, LocalsFrame
<1>22. CASE Finish(c)
  <2>1. CallerOK(c)'
    BY <1>0, <1>22, ConstantsAssumption DEF Finish, CallerOK, Goto, Return
  <2>2. Others /\ loop' = loop
    BY <1>22 DEF Finish, Goto, Return
  <2> QED
    BY <1>0, <2>1, <2>2, LocalsFrame
<1>23. CASE MeetDeadConnection(c)
  <2>1. CallerOK(c)'
    BY <1>0, <1>23, ConstantsAssumption DEF MeetDeadConnection, CallerOK, Goto
  <2>2. Others /\ loop' = loop
    BY <1>23 DEF MeetDeadConnection, Goto
  <2> QED
    BY <1>0, <2>1, <2>2, LocalsFrame
<1>24. CASE ExecAfterQuery(c) \/ Invalidate(c)
  <2>1. /\ mine' = mine /\ doomed' = doomed /\ loop' = loop /\ mine[c] = NoInst
        /\ doomed[c] = {} /\ call[c] \in Call
        /\ pc'[c] \in {"using", "lookup", "idle"}
    BY <1>0, <1>24, ConstantsAssumption
    DEF ExecAfterQuery, Invalidate, Goto, Return, CallerOK
  <2>2. pc'[c] = "using" => call'[c] = Exec(call[c])
    BY <1>24 DEF ExecAfterQuery, Invalidate, Goto, Return
  <2>3. pc'[c] = "using" => /\ call[c].op = "query" /\ call[c].round = 1
                            /\ pc[c] \in {"using", "invalidate"}
    BY <1>24 DEF ExecAfterQuery, Invalidate, Goto, Return
  <2>4. ASSUME pc'[c] = "using" PROVE CallerOK(c)'
    <3>0. RoundOK(c)
      BY DEF LocalsOK
    <3>1. call[c].seen.inst # NoInst
      BY <1>0, <2>3, <2>4, <3>0 DEF CallerOK, RoundOK
    <3>2. call[c].again => call[c].first # NoInst
      BY <2>3, <2>4, <3>0 DEF RoundOK
    <3>3. call'[c].seen.inst = IF call[c].again THEN call[c].first
                               ELSE call[c].seen.inst
      <4>1. call'[c] = Exec(call[c])
        BY <2>2, <2>4
      <4> HIDE DEF TypeOK
      <4>. QED  BY <2>1, <4>1, ExecTypes
    <3>4. call'[c].seen.inst # NoInst
      BY <3>1, <3>2, <3>3
    <3>. QED  BY <2>1, <2>4, <3>4 DEF CallerOK
  <2>5. ASSUME pc'[c] # "using" PROVE CallerOK(c)'
    BY <2>1, <2>5 DEF CallerOK
  <2>6. CallerOK(c)'
    BY <2>4, <2>5
  <2>7. Others
    BY <1>24 DEF ExecAfterQuery, Invalidate, Goto, Return
  <2> QED
    BY <1>0, <2>1, <2>6, <2>7, LocalsFrame
<1> QED
  BY <1>1, <1>2, <1>3, <1>4, <1>5, <1>6, <1>7, <1>8, <1>9, <1>10, <1>11, <1>12, <1>13, <1>14, <1>15, <1>16, <1>17, <1>18, <1>19, <1>20, <1>21, <1>22, <1>23, <1>24 DEF Progress

LEMMA LocalsArrive ==
    ASSUME TypeOK, LocalsOK, NEW c \in Callers, Arrive(c)
    PROVE  LocalsOK'
<1> DEFINE Others == \A d \in Callers \ {c} :
                       /\ pc'[d] = pc[d] /\ call'[d] = call[d]
                       /\ mine'[d] = mine[d] /\ doomed'[d] = doomed[d]
<1> USE DEF TypeOK
<1>0. CallerOK(c)
  BY DEF LocalsOK
<1>1. ASSUME NEW op \in Methods, NEW cfg \in Configs, NEW keep \in Settings,
             Begin(c, op, cfg, keep)
      PROVE  LocalsOK'
  <2>1. CallerOK(c)'
    BY <1>0, <1>1 DEF Begin, CallerOK, Goto
  <2>2. Others /\ loop' = loop
    BY <1>1 DEF Begin, Goto
  <2>3. pc'[c] # "invalidate" /\ ~call'[c].again
    BY <1>1, NullTypes DEF Begin, Goto, Call, NoCall
  <2>4. RoundOK(c)'
    BY <2>3 DEF RoundOK
  <2> QED
    BY <2>1, <2>2, <2>4, LocalsFrame
<1>2. ASSUME NEW d \in Callers, BeginCancel(c, d)
      PROVE  LocalsOK'
  <2>1. CallerOK(c)'
    BY <1>0, <1>2 DEF BeginCancel, CallerOK, Goto
  <2>2. Others /\ loop' = loop
    BY <1>2 DEF BeginCancel, Goto
  <2>3. call'[c].op = "cancel" /\ ~call'[c].again
    BY <1>2, NullTypes DEF BeginCancel, Call, NoCall
  <2>4. RoundOK(c)'
    BY <2>3 DEF RoundOK
  <2> QED
    BY <2>1, <2>2, <2>4, LocalsFrame
<1> QED
  BY <1>1, <1>2 DEF Arrive

LEMMA LocalsOthers ==
    ASSUME TypeOK, LocalsOK, KeepAlive \/ Stop \/ Environment
    PROVE  LocalsOK'
<1> USE DEF TypeOK
<1>1. (\A c \in Callers : CallerOK(c) /\ RoundOK(c)) /\ LoopOK
  BY DEF LocalsOK
<1>2. callerVars' = callerVars
  BY DEF KeepAlive, KeepAliveCollect, KeepAlivePing, KeepAliveMark,
         KeepAliveEvict, KeepAliveClose, KeepAliveTickDone, Stop, BeginShutdown,
         StopLoop, CloseAll, Environment, EntryAges, CooldownExpires, ToggleProxy
<1>3. \A c \in Callers : CallerOK(c)' /\ RoundOK(c)'
  BY <1>1, <1>2 DEF CallerOK, RoundOK, callerVars
<1>4. LoopOK'
  <2>1. CASE KeepAliveCollect
    BY <1>1, <2>1 DEF KeepAliveCollect, Due, LoopOK
  <2>2. ASSUME NEW t \in loop.targets, NEW ok \in BOOLEAN, KeepAlivePing(t, ok)
        PROVE  LoopOK'
    BY <1>1, <2>2 DEF KeepAlivePing, LoopOK
  <2>3. CASE KeepAliveMark
    BY <1>1, <2>3 DEF KeepAliveMark, LoopOK, NoTarget
  <2>4. CASE KeepAliveEvict
    <3>1. CASE StillTarget
      <4>1. loop' = [loop EXCEPT !.pc = "close"] /\ loop.pc = "evict"
        BY <2>4, <3>1 DEF KeepAliveEvict
      <4> QED
        BY <1>1, <4>1 DEF LoopOK
    <3>2. CASE ~StillTarget
      <4>1. loop' = [loop EXCEPT !.pc = "scan", !.cur = NoTarget]
        BY <2>4, <3>2 DEF KeepAliveEvict
      <4> QED
        BY <1>1, <4>1 DEF LoopOK, NoTarget
    <3> QED
      BY <3>1, <3>2
  <2>5. CASE KeepAliveClose
    BY <1>1, <2>5 DEF KeepAliveClose, LoopOK, NoTarget
  <2>6. CASE KeepAliveTickDone
    BY <1>1, <2>6 DEF KeepAliveTickDone, LoopOK
  <2>7. CASE StopLoop
    BY <1>1, <2>7 DEF StopLoop, LoopOK
  <2>8. CASE BeginShutdown \/ CloseAll \/ Environment
    <3>1. loop' = loop
      BY <2>8 DEF BeginShutdown, CloseAll, Environment, EntryAges,
                  CooldownExpires, ToggleProxy
    <3> QED
      BY <1>1, <3>1 DEF LoopOK
  <2> QED
    BY <2>1, <2>2, <2>3, <2>4, <2>5, <2>6, <2>7, <2>8 DEF KeepAlive, Stop
<1> QED
  BY <1>3, <1>4 DEF LocalsOK

----------------------------------------------------------------------------
(* The inductive step and the theorems.                                    *)

LEMMA TypeStep ==
    ASSUME TypeOK, LocalsOK, [Next]_vars
    PROVE  TypeOK'
<1>1. ASSUME NEW c \in Callers, Arrive(c) \/ Progress(c) PROVE TypeOK'
  BY <1>1, TypeArrive, TypeLookup, TypeConnect, TypeUse DEF Progress
<1>2. CASE UNCHANGED vars
  BY <1>2 DEF vars, cacheVars, envVars, callerVars, TypeOK
<1> QED
  BY <1>1, <1>2, TypeKeepAlive, TypeOthers DEF Next

LEMMA LocalsStep ==
    ASSUME TypeOK, LocalsOK, [Next]_vars
    PROVE  LocalsOK'
<1>1. CASE UNCHANGED vars
  BY <1>1 DEF vars, callerVars, LocalsOK, LoopOK, CallerOK, RoundOK
<1> QED
  BY <1>1, LocalsArrive, LocalsProgress, LocalsOthers DEF Next

\* Steps that move no instance, then the others.
LEMMA OwnedProgress ==
    ASSUME TypeOK, TypeOK', LocalsOK, Owned, NEW c \in Callers, Progress(c)
    PROVE  Owned'
<1> USE DEF TypeOK
<1>k. /\ call[c].key \in Keys /\ call[c].ckey \in Keys /\ call[c].cfg \in Configs
      /\ <<call[c].cfg, route>> \in Keys
  BY DEF Call, Keys
<1>0. \A i \in Insts : loop' = loop => (HeldByLoop(i)' <=> HeldByLoop(i))
  BY DEF HeldByLoop
<1>1. CASE \/ Lookup(c) \/ PingOk(c) \/ PingFails(c) \/ CheckCooldown(c)
           \/ ClearExpired(c) \/ ConnectRetry(c) \/ ConnectFails(c)
           \/ TooManyConnections(c) \/ Released(c) \/ RecordFailure(c)
           \/ ClearFirstKey(c) \/ ClearSecondKey(c) \/ Finish(c)
           \/ MeetDeadConnection(c) \/ ExecAfterQuery(c)
  <2>1. /\ dbCache' = dbCache /\ life' = life /\ mine' = mine
        /\ doomed' = doomed /\ loop' = loop
    BY <1>1 DEF Lookup, PingOk, PingFails, CheckCooldown, ClearExpired,
                ConnectRetry, ConnectFails, TooManyConnections, Released,
                RecordFailure, ClearFirstKey, ClearSecondKey, Finish,
                MeetDeadConnection, ExecAfterQuery, cacheVars
  <2> QED
    BY <1>0, <2>1, OwnedKept
<1>2. CASE ApplySettings(c) \/ Touch(c)
  <2>1. /\ life' = life /\ mine' = mine /\ doomed' = doomed /\ loop' = loop
    BY <1>2 DEF ApplySettings, Touch
  <2>2. \A k \in Keys : dbCache'[k].inst = dbCache[k].inst
    <3>1. CASE ApplySettings(c)
      <4> DEFINE k == call[c].key
                 new == [dbCache[k] EXCEPT !.keep = call[c].keep,
                                           !.inFlight = @ /\ call[c].keep]
      <4>1. dbCache' = dbCache \/ dbCache' = [dbCache EXCEPT ![k] = new]
        BY <3>1 DEF ApplySettings
      <4>2. new.inst = dbCache[k].inst
        BY <1>k DEF Entry
      <4> HIDE DEF new
      <4> QED
        BY <1>k, <4>1, <4>2
    <3>2. CASE Touch(c)
      BY <1>k, <3>2 DEF Touch, Entry
    <3> QED
      BY <1>2, <3>1, <3>2
  <2> QED
    BY <1>0, <2>1, <2>2, OwnedKept
<1>3. CASE Unsupported(c)
  BY <1>0, <1>3, <1>k, OwnedCloseAt DEF Unsupported
<1>4. CASE EvictAfterPing(c)
  <2>1. CASE SameInst(c)
    BY <1>0, <1>4, <1>k, <2>1, OwnedCloseAt DEF EvictAfterPing
  <2>2. CASE ~SameInst(c)
    BY <1>0, <1>4, <2>2, OwnedKept DEF EvictAfterPing
  <2> QED
    BY <2>1, <2>2
<1>5. CASE Invalidate(c)
  <2>1. CloseAt({<<call[c].cfg, route>>}) /\ mine' = mine /\ doomed' = doomed
        /\ loop' = loop
    BY <1>5 DEF Invalidate
  <2> QED
    BY <1>0, <1>k, <2>1, OwnedCloseAt
<1>6. ASSUME NEW i \in Insts, ConnectOk(c, i) PROVE Owned'
  BY <1>6, OwnedConnectOk
<1>7. CASE Release(c)
  BY <1>7, OwnedRelease
<1>8. ASSUME NEW i \in Insts, CloseDoomed(c, i) PROVE Owned'
  <2>1. /\ dbCache' = dbCache /\ life' = Closing({i}) /\ mine' = mine
        /\ doomed' = [doomed EXCEPT ![c] = @ \ {i}] /\ loop' = loop
        /\ mine[c] = NoInst /\ i \in doomed[c]
    BY <1>8 DEF CloseDoomed, LocalsOK, CallerOK
  <2>2. HeldBy(c, i) /\ ~HeldByLoop(i) /\ \A d \in Callers : HeldBy(d, i) => d = c
    BY <2>1 DEF HeldBy, Owned, HeldApart
  <2>3. \A d \in Callers, j \in Insts : HeldBy(d, j)' <=> HeldBy(d, j) /\ j # i
    BY <2>1, <2>2, ConstantsAssumption DEF HeldBy
  <2>4. \A j \in Insts : HeldByLoop(j)' <=> HeldByLoop(j) /\ j # i
    BY <1>0, <2>1, <2>2
  <2> QED
    BY <2>1, <2>2, <2>3, <2>4, OwnedClosed
<1>9. CASE Insert(c)
  <2>1. CASE dbCache[call[c].ckey].inst = NoInst
    BY <1>9, <2>1, OwnedInsert
  <2>2. CASE dbCache[call[c].ckey].inst # NoInst
    BY <1>0, <1>9, <2>2, OwnedKept DEF Insert
  <2> QED
    BY <2>1, <2>2
<1>10. CASE Discard(c)
  <2> DEFINE i == mine[c]
  <2>1. /\ dbCache' = dbCache /\ life' = Closing({i}) /\ doomed' = doomed
        /\ mine' = [mine EXCEPT ![c] = NoInst] /\ loop' = loop
        /\ i \in Insts /\ doomed[c] = {}
    BY <1>10 DEF Discard, LocalsOK, CallerOK, OptInst
  <2>2. HeldBy(c, i) /\ ~HeldByLoop(i) /\ \A d \in Callers : HeldBy(d, i) => d = c
    BY <2>1 DEF HeldBy, Owned, HeldApart
  <2>3. \A d \in Callers, j \in Insts : HeldBy(d, j)' <=> HeldBy(d, j) /\ j # i
    BY <2>1, <2>2, ConstantsAssumption DEF HeldBy
  <2>4. \A j \in Insts : HeldByLoop(j)' <=> HeldByLoop(j) /\ j # i
    BY <1>0, <2>1, <2>2
  <2> QED
    BY <2>1, <2>2, <2>3, <2>4, OwnedClosed
<1> QED
  BY <1>1, <1>2, <1>3, <1>4, <1>5, <1>6, <1>7, <1>8, <1>9, <1>10 DEF Progress

\* Marking an entry changes its age and its flag.
LEMMA MarkKeepsInst ==
    ASSUME TypeOK, KeepAliveMark
    PROVE  \A k \in Keys : dbCache'[k].inst = dbCache[k].inst
<1> DEFINE e == [dbCache[loop.cur.key] EXCEPT !.inFlight = FALSE, !.age = "fresh"]
<1>1. dbCache' = dbCache \/ dbCache' = [dbCache EXCEPT ![loop.cur.key] = e]
  BY DEF KeepAliveMark
<1>2. loop.cur.key \in Keys => e.inst = dbCache[loop.cur.key].inst
  BY DEF TypeOK, Entry
<1>3. dbCache \in [Keys -> Entry]
  BY DEF TypeOK
<1> HIDE DEF e
<1> QED
  BY <1>1, <1>2, <1>3

LEMMA CollectKeepsInst ==
    ASSUME TypeOK, KeepAliveCollect
    PROVE  \A k \in Keys : dbCache'[k].inst = dbCache[k].inst
<1>1. \A k \in Keys : dbCache[k] \in Entry
  BY DEF TypeOK
<1>2. \A k \in Keys : \/ dbCache'[k] = dbCache[k]
                      \/ dbCache'[k] = [dbCache[k] EXCEPT !.inFlight = TRUE]
  BY DEF KeepAliveCollect
<1> QED
  BY <1>1, <1>2 DEF Entry

LEMMA AgingKeepsInst ==
    ASSUME TypeOK, NEW j \in Keys, EntryAges(j)
    PROVE  \A k \in Keys : dbCache'[k].inst = dbCache[k].inst
<1> DEFINE age == Older(dbCache[j].age)
           e == [dbCache[j] EXCEPT !.age = age]
<1>1. dbCache' = [dbCache EXCEPT ![j] = e]
  BY DEF EntryAges
<1>2. dbCache \in [Keys -> Entry]
  BY DEF TypeOK
<1> HIDE DEF age
<1>3. e.inst = dbCache[j].inst
  BY <1>2 DEF Entry
<1> HIDE DEF e
<1> QED
  BY <1>1, <1>2, <1>3

LEMMA OwnedOthers ==
    ASSUME TypeOK, TypeOK', LocalsOK, Owned, KeepAlive \/ Stop \/ Environment
    PROVE  Owned'
<1> USE DEF TypeOK
<1>0. mine' = mine /\ doomed' = doomed
  BY DEF KeepAlive, KeepAliveCollect, KeepAlivePing, KeepAliveMark,
         KeepAliveEvict, KeepAliveClose, KeepAliveTickDone, Stop, BeginShutdown,
         StopLoop, CloseAll, Environment, EntryAges, CooldownExpires, ToggleProxy,
         callerVars
<1>1. CASE KeepAliveEvict
  BY <1>1, OwnedKeepAliveEvict
<1>2. CASE KeepAliveClose
  <2> DEFINE i == loop.cur.inst
  <2>1. /\ dbCache' = dbCache /\ life' = Closing({i})
        /\ loop' = [loop EXCEPT !.pc = "scan", !.cur = NoTarget]
        /\ i \in Insts /\ HeldByLoop(i)
    BY <1>2 DEF KeepAliveClose, LocalsOK, LoopOK, Target, OptInst, HeldByLoop
  <2>2. \A d \in Callers, j \in Insts : HeldBy(d, j)' <=> HeldBy(d, j) /\ j # i
    BY <1>0, <2>1 DEF HeldBy, Owned, HeldApart
  <2>3. \A j \in Insts : HeldByLoop(j)' <=> HeldByLoop(j) /\ j # i
    BY <2>1 DEF HeldByLoop
  <2> QED
    BY <2>1, <2>2, <2>3, OwnedClosed
<1>3. CASE CloseAll
  BY <1>0, <1>3, OwnedCloseAt DEF CloseAll, HeldByLoop
<1>4. CASE \/ KeepAliveCollect \/ KeepAliveMark \/ KeepAliveTickDone
           \/ (\E t \in loop.targets, ok \in BOOLEAN : KeepAlivePing(t, ok))
           \/ BeginShutdown \/ StopLoop \/ Environment
  <2>1. life' = life
    BY <1>4 DEF KeepAliveCollect, KeepAliveMark, KeepAliveTickDone, KeepAlivePing,
                BeginShutdown, StopLoop, Environment, EntryAges, CooldownExpires,
                ToggleProxy, cacheVars
  <2>2. \A k \in Keys : dbCache'[k].inst = dbCache[k].inst
    <3>1. CASE KeepAliveCollect
      BY <3>1, CollectKeepsInst
    <3>2. CASE KeepAliveMark
      BY <3>2, MarkKeepsInst
    <3>3. CASE \E k \in Keys : EntryAges(k)
      BY <3>3, AgingKeepsInst
    <3>4. CASE dbCache' = dbCache
      BY <3>4
    <3> QED
      BY <1>4, <3>1, <3>2, <3>3, <3>4 DEF KeepAliveTickDone, KeepAlivePing,
         BeginShutdown, StopLoop, Environment, CooldownExpires, ToggleProxy, cacheVars
  <2>3. \A i \in Insts : HeldByLoop(i)' <=> HeldByLoop(i)
    <3>1. \/ loop' = loop
          \/ loop.pc # "close" /\ loop'.pc # "close"
      <4>1. CASE KeepAliveCollect
        BY <4>1 DEF KeepAliveCollect
      <4>2. CASE KeepAliveMark \/ KeepAliveTickDone \/ StopLoop
        BY <4>2 DEF KeepAliveMark, KeepAliveTickDone, StopLoop
      <4>3. CASE \E t \in loop.targets, ok \in BOOLEAN : KeepAlivePing(t, ok)
        BY <4>3 DEF KeepAlivePing
      <4>4. CASE BeginShutdown \/ Environment
        BY <4>4 DEF BeginShutdown, Environment, EntryAges, CooldownExpires, ToggleProxy
      <4> QED
        BY <1>4, <4>1, <4>2, <4>3, <4>4
    <3> QED
      BY <3>1 DEF HeldByLoop
  <2> QED
    BY <1>0, <2>1, <2>2, <2>3, OwnedKept
<1> QED
  BY <1>1, <1>2, <1>3, <1>4 DEF KeepAlive, Stop

LEMMA OwnedStep ==
    ASSUME TypeOK, TypeOK', LocalsOK, Owned, [Next]_vars
    PROVE  Owned'
<1>1. ASSUME NEW c \in Callers, Arrive(c) PROVE Owned'
  <2>1. /\ dbCache' = dbCache /\ life' = life /\ mine' = mine
        /\ doomed' = doomed /\ loop' = loop
    BY <1>1 DEF Arrive, Begin, BeginCancel, cacheVars
  <2> QED
    BY <2>1, OwnedKept DEF HeldByLoop
<1>2. CASE UNCHANGED vars
  BY <1>2, OwnedKept DEF vars, cacheVars, callerVars, HeldByLoop
<1> QED
  BY <1>1, <1>2, OwnedProgress, OwnedOthers DEF Next

----------------------------------------------------------------------------
(* The keep-alive flag.                                                    *)

FlagsTracked == InFlightIsTracked /\ BetweenTicks

\* A step that leaves the loop alone keeps the flags tracked when a flag it
\* leaves behind was there before, on the same instance.
LEMMA FlagsKept ==
    ASSUME FlagsTracked, loop' = loop,
           \A k \in Keys : dbCache'[k].inFlight =>
               dbCache[k].inFlight /\ dbCache'[k].inst = dbCache[k].inst
    PROVE  FlagsTracked'
BY DEF FlagsTracked, InFlightIsTracked, BetweenTicks, Unsettled

\* An entry taken out carries no flag.
LEMMA CloseAtFlags ==
    ASSUME TypeOK, NEW K \in SUBSET Keys, dbCache' = Without(K)
    PROVE  \A k \in Keys : dbCache'[k].inFlight =>
               dbCache[k].inFlight /\ dbCache'[k].inst = dbCache[k].inst
BY DEF Without, NoEntry

\* One entry replaced by one without a flag, or with its flag and instance.
LEMMA UpdateFlags ==
    ASSUME TypeOK, NEW k \in Keys, NEW e \in Entry,
           dbCache' = [dbCache EXCEPT ![k] = e],
           e.inFlight => dbCache[k].inFlight /\ e.inst = dbCache[k].inst
    PROVE  \A j \in Keys : dbCache'[j].inFlight =>
               dbCache[j].inFlight /\ dbCache'[j].inst = dbCache[j].inst
BY DEF TypeOK

LEMMA SettingsFlags ==
    ASSUME TypeOK, NEW c \in Callers, ApplySettings(c)
    PROVE  \A j \in Keys : dbCache'[j].inFlight =>
               dbCache[j].inFlight /\ dbCache'[j].inst = dbCache[j].inst
<1> DEFINE k == call[c].key
           cur == dbCache[k]
           e == [cur EXCEPT !.keep = call[c].keep,
                            !.inFlight = @ /\ call[c].keep]
<1>1. k \in Keys /\ cur \in Entry /\ call[c].keep \in BOOLEAN
  BY DEF TypeOK, Call
<1>2. dbCache' = dbCache \/ dbCache' = [dbCache EXCEPT ![k] = e]
  BY DEF ApplySettings
<1>3. e \in Entry /\ e.inst = cur.inst /\ (e.inFlight => cur.inFlight)
  BY <1>1 DEF Entry
<1> HIDE DEF e
<1> QED
  BY <1>1, <1>2, <1>3, UpdateFlags

LEMMA TouchFlags ==
    ASSUME TypeOK, NEW c \in Callers, Touch(c)
    PROVE  \A j \in Keys : dbCache'[j].inFlight =>
               dbCache[j].inFlight /\ dbCache'[j].inst = dbCache[j].inst
<1> DEFINE k == call[c].key
           e == [dbCache[k] EXCEPT !.age = "fresh"]
<1>1. k \in Keys /\ dbCache[k] \in Entry
  BY DEF TypeOK, Call
<1>2. dbCache' = dbCache \/ dbCache' = [dbCache EXCEPT ![k] = e]
  BY DEF Touch
<1>3. e \in Entry /\ e.inst = dbCache[k].inst /\ e.inFlight = dbCache[k].inFlight
  BY <1>1 DEF Entry, Ages
<1> HIDE DEF e
<1> QED
  BY <1>1, <1>2, <1>3, UpdateFlags

LEMMA InsertFlags ==
    ASSUME TypeOK, NEW c \in Callers, Insert(c)
    PROVE  \A j \in Keys : dbCache'[j].inFlight =>
               dbCache[j].inFlight /\ dbCache'[j].inst = dbCache[j].inst
<1> DEFINE k == call[c].ckey
           e == NewEntry(c)
<1>1. k \in Keys /\ mine[c] \in OptInst /\ call[c].keep \in BOOLEAN
  BY DEF TypeOK, Call
<1>2. dbCache' = dbCache \/ dbCache' = [dbCache EXCEPT ![k] = e]
  BY DEF Insert
<1>3. e \in Entry /\ ~e.inFlight
  BY <1>1 DEF NewEntry, Entry, Ages
<1> HIDE DEF e
<1> QED
  BY <1>1, <1>2, <1>3, UpdateFlags

LEMMA AgingFlags ==
    ASSUME TypeOK, NEW k \in Keys, EntryAges(k)
    PROVE  \A j \in Keys : dbCache'[j].inFlight =>
               dbCache[j].inFlight /\ dbCache'[j].inst = dbCache[j].inst
<1> DEFINE age == Older(dbCache[k].age)
           e == [dbCache[k] EXCEPT !.age = age]
<1>1. dbCache[k] \in Entry
  BY DEF TypeOK
<1>2. dbCache' = [dbCache EXCEPT ![k] = e]
  BY DEF EntryAges
<1>3. age \in Ages
  BY DEF Older, Ages
<1> HIDE DEF age
<1>4. e \in Entry /\ e.inst = dbCache[k].inst /\ e.inFlight = dbCache[k].inFlight
  BY <1>1, <1>3 DEF Entry
<1> HIDE DEF e
<1> QED
  BY <1>1, <1>2, <1>4, UpdateFlags

\* The steps of a call.
LEMMA FlagsProgress ==
    ASSUME TypeOK, FlagsTracked, NEW c \in Callers, Progress(c)
    PROVE  FlagsTracked'
<1> DEFINE Fine == \A k \in Keys : dbCache'[k].inFlight =>
                       dbCache[k].inFlight /\ dbCache'[k].inst = dbCache[k].inst
<1>0. call[c].key \in Keys /\ <<call[c].cfg, route>> \in Keys
  BY DEF TypeOK, Call, Keys
<1>1. CASE Unsupported(c)
  BY <1>0, <1>1, CloseAtFlags, FlagsKept DEF Unsupported, CloseAt
<1>2. CASE EvictAfterPing(c)
  <2>1. loop' = loop /\ (dbCache' = dbCache \/ dbCache' = Without({call[c].key}))
    BY <1>2 DEF EvictAfterPing, CloseAt
  <2>2. Fine
    BY <1>0, <2>1, CloseAtFlags
  <2> QED
    BY <2>1, <2>2, FlagsKept
<1>3. CASE Invalidate(c)
  BY <1>0, <1>3, CloseAtFlags, FlagsKept DEF Invalidate, CloseAt
<1>4. CASE Release(c)
  <2>1. loop' = loop
    BY <1>4 DEF Release
  <2>2. dbCache' = Without({k \in Occupied : SameServer(k, call[c].ckey)})
    BY <1>4 DEF Release
  <2>3. {k \in Occupied : SameServer(k, call[c].ckey)} \in SUBSET Keys
    BY DEF Occupied
  <2>4. Fine
    BY <2>2, <2>3, CloseAtFlags
  <2> QED
    BY <2>1, <2>4, FlagsKept
<1>5. CASE ApplySettings(c)
  <2>1. loop' = loop
    BY <1>5 DEF ApplySettings
  <2> QED
    BY <1>5, <2>1, SettingsFlags, FlagsKept
<1>6. CASE Touch(c)
  <2>1. loop' = loop
    BY <1>6 DEF Touch
  <2> QED
    BY <1>6, <2>1, TouchFlags, FlagsKept
<1>7. CASE Insert(c)
  <2>1. loop' = loop
    BY <1>7 DEF Insert
  <2> QED
    BY <1>7, <2>1, InsertFlags, FlagsKept
<1>8. CASE \/ Lookup(c) \/ PingOk(c) \/ PingFails(c) \/ CheckCooldown(c)
           \/ ClearExpired(c) \/ ConnectRetry(c) \/ ConnectFails(c)
           \/ TooManyConnections(c) \/ Released(c) \/ RecordFailure(c)
           \/ ClearFirstKey(c) \/ ClearSecondKey(c) \/ Discard(c)
           \/ Finish(c) \/ MeetDeadConnection(c) \/ ExecAfterQuery(c)
           \/ (\E i \in Insts : ConnectOk(c, i) \/ CloseDoomed(c, i))
  <2>1. dbCache' = dbCache /\ loop' = loop
    BY <1>8 DEF Lookup, PingOk, PingFails, CheckCooldown, ClearExpired,
       ConnectRetry, ConnectFails, TooManyConnections, Released, RecordFailure,
       ClearFirstKey, ClearSecondKey, Discard, Finish, MeetDeadConnection,
       ExecAfterQuery,
       ConnectOk, CloseDoomed, cacheVars
  <2> QED
    BY <2>1, FlagsKept
<1> QED
  BY <1>1, <1>2, <1>3, <1>4, <1>5, <1>6, <1>7, <1>8 DEF Progress

\* A tick collects every flagged entry, new or old, or has none to collect.
LEMMA FlagsCollect ==
    ASSUME TypeOK, FlagsTracked, KeepAliveCollect
    PROVE  FlagsTracked'
<1> DEFINE K == {k \in Keys : Due(k)}
<1>1. /\ loop' = [loop EXCEPT !.pc = "scan",
             !.targets = {[key |-> k, inst |-> dbCache[k].inst] : k \in K}]
      /\ loop.pc = "wait"
      /\ loop.targets = {}
  BY DEF KeepAliveCollect, FlagsTracked, BetweenTicks
<1>2. /\ loop'.pc = "scan"
      /\ loop'.targets = {[key |-> k, inst |-> dbCache[k].inst] : k \in K}
  BY <1>1 DEF TypeOK
<1>3. ASSUME NEW k \in Keys, dbCache'[k].inFlight PROVE k \in K
  <2>1. \A j \in Keys : ~dbCache[j].inFlight
    BY <1>1 DEF FlagsTracked, InFlightIsTracked, Unsettled
  <2>2. k \notin K => dbCache'[k] = dbCache[k]
    BY DEF KeepAliveCollect
  <2> QED
    BY <1>3, <2>1, <2>2
<1>4. \A k \in Keys : dbCache'[k].inst = dbCache[k].inst
  BY CollectKeepsInst
<1> QED
  BY <1>2, <1>3, <1>4 DEF FlagsTracked, InFlightIsTracked, BetweenTicks, Unsettled

\* A good ping takes the flag down if the entry is still the one pinged.
LEMMA FlagsMark ==
    ASSUME TypeOK, FlagsTracked, KeepAliveMark
    PROVE  FlagsTracked'
<1> DEFINE k0 == loop.cur.key
           e == [dbCache[k0] EXCEPT !.inFlight = FALSE, !.age = "fresh"]
<1>1. /\ loop.pc = "mark"
      /\ dbCache' = IF StillTarget THEN [dbCache EXCEPT ![k0] = e] ELSE dbCache
      /\ loop'.pc = "scan" /\ loop'.targets = loop.targets
  BY DEF KeepAliveMark, TypeOK
<1>2. k0 \in Keys /\ dbCache[k0] \in Entry /\ dbCache \in [Keys -> Entry]
  BY DEF TypeOK, Target
<1>3. ~e.inFlight
  BY <1>2 DEF Entry
<1> HIDE DEF e
<1>4. ASSUME NEW k \in Keys, dbCache'[k].inFlight
      PROVE  [key |-> k, inst |-> dbCache'[k].inst] \in loop.targets
  <2>1. dbCache'[k] = dbCache[k] /\ ~(StillTarget /\ k = k0)
    BY <1>1, <1>2, <1>3, <1>4
  <2>2. [key |-> k, inst |-> dbCache[k].inst] \in loop.targets \cup {loop.cur}
    BY <1>1, <1>4, <2>1 DEF FlagsTracked, InFlightIsTracked, Unsettled
  <2>3. [key |-> k, inst |-> dbCache[k].inst] # loop.cur
    BY <2>1 DEF StillTarget
  <2> QED
    BY <2>1, <2>2, <2>3
<1> QED
  BY <1>1, <1>4 DEF FlagsTracked, InFlightIsTracked, BetweenTicks, Unsettled

\* A failed ping takes the entry out, if it is still the one pinged.
LEMMA FlagsEvict ==
    ASSUME TypeOK, FlagsTracked, KeepAliveEvict
    PROVE  FlagsTracked'
<1> DEFINE k0 == loop.cur.key
<1>1. /\ loop.pc = "evict"
      /\ dbCache' = IF StillTarget THEN Without({k0}) ELSE dbCache
      /\ loop'.pc \in {"scan", "close"} /\ loop'.targets = loop.targets
  BY DEF KeepAliveEvict, TypeOK
<1>2. ASSUME NEW k \in Keys, dbCache'[k].inFlight
      PROVE  [key |-> k, inst |-> dbCache'[k].inst] \in loop.targets
  <2>1. dbCache'[k] = dbCache[k] /\ ~(StillTarget /\ k = k0)
    BY <1>1, <1>2 DEF Without, NoEntry
  <2>2. [key |-> k, inst |-> dbCache[k].inst] \in loop.targets \cup {loop.cur}
    BY <1>1, <1>2, <2>1 DEF FlagsTracked, InFlightIsTracked, Unsettled
  <2>3. [key |-> k, inst |-> dbCache[k].inst] # loop.cur
    BY <2>1 DEF StillTarget
  <2> QED
    BY <2>1, <2>2, <2>3
<1> QED
  BY <1>1, <1>2 DEF FlagsTracked, InFlightIsTracked, BetweenTicks, Unsettled

LEMMA FlagsOthers ==
    ASSUME TypeOK, FlagsTracked, KeepAlive \/ Stop \/ Environment
    PROVE  FlagsTracked'
<1>1. ASSUME NEW t \in loop.targets, NEW ok \in BOOLEAN, KeepAlivePing(t, ok)
      PROVE  FlagsTracked'
  <2>1. /\ dbCache' = dbCache
        /\ loop.pc = "scan"
        /\ loop'.pc \in {"mark", "evict"}
        /\ loop'.targets = loop.targets \ {t} /\ loop'.cur = t
    BY <1>1 DEF KeepAlivePing, cacheVars
  <2>2. Unsettled \subseteq Unsettled'
    BY <2>1 DEF Unsettled
  <2> QED
    BY <2>1, <2>2 DEF FlagsTracked, InFlightIsTracked, BetweenTicks
<1>2. CASE KeepAliveClose \/ KeepAliveTickDone \/ StopLoop
  <2>1. /\ dbCache' = dbCache
        /\ loop.pc \notin {"mark", "evict"}
        /\ loop'.targets = loop.targets
        /\ loop'.pc = "wait" => loop'.targets = {}
    BY <1>2 DEF KeepAliveClose, KeepAliveTickDone, StopLoop, cacheVars, TypeOK
  <2>2. Unsettled \subseteq Unsettled'
    BY <2>1 DEF Unsettled
  <2> QED
    BY <2>1, <2>2 DEF FlagsTracked, InFlightIsTracked, BetweenTicks
<1>3. CASE CloseAll
  BY <1>3, CloseAtFlags, FlagsKept DEF CloseAll, CloseAt
<1>4. ASSUME NEW k \in Keys, EntryAges(k) PROVE FlagsTracked'
  <2>1. loop' = loop
    BY <1>4 DEF EntryAges
  <2> QED
    BY <1>4, <2>1, AgingFlags, FlagsKept
<1>5. CASE BeginShutdown \/ ToggleProxy \/ \E k \in Keys : CooldownExpires(k)
  BY <1>5, FlagsKept DEF BeginShutdown, ToggleProxy, CooldownExpires, cacheVars
<1> QED
  BY <1>1, <1>2, <1>3, <1>4, <1>5, FlagsCollect, FlagsMark, FlagsEvict
     DEF KeepAlive, Stop, Environment

LEMMA FlagsStep ==
    ASSUME TypeOK, FlagsTracked, [Next]_vars
    PROVE  FlagsTracked'
<1>1. ASSUME NEW c \in Callers, Arrive(c) PROVE FlagsTracked'
  BY <1>1, FlagsKept DEF Arrive, Begin, BeginCancel, cacheVars
<1>2. CASE UNCHANGED vars
  BY <1>2, FlagsKept DEF vars, cacheVars
<1> QED
  BY <1>1, <1>2, FlagsProgress, FlagsOthers DEF Next

LEMMA FlagsInit == Init => FlagsTracked
BY DEF Init, NoEntry, FlagsTracked, InFlightIsTracked, BetweenTicks

----------------------------------------------------------------------------
(* What forced calls know of the entries under their keys.                 *)

\* Entries are emptied or keep their instance.
SlotsKept ==
    \A k \in Keys : dbCache'[k].inst \in {dbCache[k].inst, NoInst}

\* A call at rest keeps what it knows.
LEMMA AnswerKept ==
    ASSUME TypeOK, SlotsKept, NEW d \in Callers, Forced(d) => AnswerOK(d),
           pc'[d] = pc[d], call'[d] = call[d], proven'[d] = proven[d]
    PROVE  (Forced(d) => AnswerOK(d))'
<1>1. call[d].key \in Keys
  BY DEF TypeOK, Call
<1>2. dbCache'[call[d].key].inst \in {dbCache[call[d].key].inst, NoInst}
  BY <1>1 DEF SlotsKept
<1> QED
  BY <1>2 DEF AnswerOK, Answered, Forced

\* Outside Insert no step of a call brings an instance into the cache.
LEMMA SlotsProgress ==
    ASSUME TypeOK, NEW c \in Callers, Progress(c), ~Insert(c)
    PROVE  SlotsKept
<1>k. call[c].key \in Keys
  BY DEF TypeOK, Call
<1>1. CASE dbCache' = dbCache
  BY <1>1 DEF SlotsKept
<1>2. ASSUME NEW K, dbCache' = Without(K) PROVE SlotsKept
  BY <1>2 DEF SlotsKept, Without, NoEntry
<1>3. CASE ApplySettings(c)
  <2> DEFINE k == call[c].key
             new == [dbCache[k] EXCEPT !.keep = call[c].keep,
                                       !.inFlight = @ /\ call[c].keep]
  <2>1. dbCache' = dbCache \/ dbCache' = [dbCache EXCEPT ![k] = new]
    BY <1>3 DEF ApplySettings
  <2>2. new.inst = dbCache[k].inst
    BY <1>k DEF TypeOK, Entry
  <2> HIDE DEF new
  <2> QED
    BY <1>k, <2>1, <2>2 DEF TypeOK, SlotsKept
<1>4. CASE Touch(c)
  BY <1>k, <1>4 DEF Touch, TypeOK, Entry, SlotsKept
<1>5. CASE Unsupported(c)
  BY <1>2, <1>5 DEF Unsupported, CloseAt
<1>6. CASE EvictAfterPing(c)
  BY <1>1, <1>2, <1>6 DEF EvictAfterPing, CloseAt
<1>7. CASE Invalidate(c)
  BY <1>2, <1>7 DEF Invalidate, CloseAt
<1>8. CASE Release(c)
  BY <1>2, <1>8 DEF Release
<1>9. CASE \/ Lookup(c) \/ PingOk(c) \/ PingFails(c) \/ CheckCooldown(c)
           \/ ClearExpired(c) \/ ConnectRetry(c) \/ ConnectFails(c)
           \/ TooManyConnections(c) \/ Released(c) \/ RecordFailure(c)
           \/ ClearFirstKey(c) \/ ClearSecondKey(c) \/ Discard(c)
           \/ Finish(c) \/ MeetDeadConnection(c) \/ ExecAfterQuery(c)
           \/ (\E i \in Insts : ConnectOk(c, i))
           \/ (\E i \in Insts : CloseDoomed(c, i))
  BY <1>1, <1>9 DEF Lookup, PingOk, PingFails, CheckCooldown, ClearExpired,
     ConnectRetry, ConnectFails, TooManyConnections, Released, RecordFailure,
     ClearFirstKey, ClearSecondKey, Discard, Finish, MeetDeadConnection,
       ExecAfterQuery,
     ConnectOk, CloseDoomed, cacheVars
<1> QED
  BY <1>3, <1>4, <1>5, <1>6, <1>7, <1>8, <1>9 DEF Progress

\* The locals of the other calls are their own.
LEMMA OthersRest ==
    ASSUME TypeOK, NEW c \in Callers, NEW d \in Callers, d # c, Progress(c)
    PROVE  /\ pc'[d] = pc[d]
           /\ call'[d] = call[d]
           /\ Insert(c) \/ proven'[d] = proven[d]
<1> USE DEF TypeOK, Return, Goto, Serve
<1>1. CASE Unsupported(c) \/ Lookup(c) \/ ApplySettings(c)
  BY <1>1 DEF Unsupported, Lookup, ApplySettings
<1>2. CASE PingOk(c) \/ PingFails(c) \/ Touch(c) \/ EvictAfterPing(c)
  BY <1>2 DEF PingOk, PingFails, Touch, EvictAfterPing
<1>3. CASE CheckCooldown(c) \/ ClearExpired(c)
  BY <1>3 DEF CheckCooldown, ClearExpired
<1>4. CASE \/ (\E i \in Insts : ConnectOk(c, i)) \/ ConnectRetry(c)
           \/ ConnectFails(c) \/ TooManyConnections(c)
  BY <1>4 DEF ConnectOk, ConnectRetry, ConnectFails, TooManyConnections
<1>5. CASE Release(c) \/ (\E i \in Insts : CloseDoomed(c, i)) \/ Released(c)
  BY <1>5 DEF Release, CloseDoomed, Released
<1>6. CASE RecordFailure(c) \/ ClearFirstKey(c) \/ ClearSecondKey(c)
  BY <1>6 DEF RecordFailure, ClearFirstKey, ClearSecondKey
<1>7. CASE Insert(c)
  BY <1>7 DEF Insert
<1>8. CASE \/ Discard(c) \/ Finish(c) \/ MeetDeadConnection(c)
           \/ ExecAfterQuery(c) \/ Invalidate(c)
  BY <1>8 DEF Discard, Finish, MeetDeadConnection, ExecAfterQuery, Invalidate
<1> QED
  BY <1>1, <1>2, <1>3, <1>4, <1>5, <1>6, <1>7, <1>8 DEF Progress

\* Outside these places a call has nothing to answer for.
LEMMA NothingToAnswer ==
    ASSUME NEW c \in Callers, pc'[c] \in {"idle", "lookup", "record", "invalidate"}
    PROVE  (Forced(c) => AnswerOK(c))'
BY DEF AnswerOK, Answered, BeforeProof, PastProof

LEMMA ReturnAnswers ==
    ASSUME TypeOK, NEW c \in Callers, Return(c)
    PROVE  (Forced(c) => AnswerOK(c))'
BY NothingToAnswer DEF Return, Goto, TypeOK

\* A new entry counts as proven for every forced call under way.
LEMMA AnswerInsert ==
    ASSUME TypeOK, NEW c \in Callers, Insert(c), AnswerInv
    PROVE  AnswerInv'
<1> DEFINE k == call[c].ckey
           i == mine[c]
<1>k. k \in Keys /\ dbCache \in [Keys -> Entry]
  BY DEF TypeOK, Call
<1>1. CASE dbCache[k].inst # NoInst
  <2>1. /\ dbCache' = dbCache /\ proven' = proven
        /\ pc'[c] = "discard"
        /\ call' = [call EXCEPT ![c].seen = Only(dbCache[k].inst)]
    BY <1>1 DEF Insert, Goto, TypeOK
  <2>2. ASSUME NEW d \in Callers, d # c PROVE (Forced(d) => AnswerOK(d))'
    <3>1. pc'[d] = pc[d] /\ call'[d] = call[d]
      BY <1>1, <2>2 DEF Insert, Goto, TypeOK
    <3> QED
      BY <2>1, <3>1, AnswerKept DEF AnswerInv, SlotsKept
  <2>3. (Forced(c) => AnswerOK(c))'
    <3>1. call'[c] = [call[c] EXCEPT !.seen = Only(dbCache[k].inst)]
      BY <2>1 DEF TypeOK
    <3>2. /\ call'[c].op = call[c].op /\ call'[c].again = call[c].again
          /\ call'[c].key = call[c].key /\ call'[c].ckey = k
          /\ call'[c].seen.inst = dbCache[k].inst
      BY <3>1 DEF TypeOK, Call, Only, NoEntry
    <3>3. Forced(c) => dbCache[call[c].key].inst \in proven[c] \cup {NoInst}
      BY DEF AnswerInv, AnswerOK, Insert, PastProof
    <3> QED
      BY <1>1, <2>1, <3>2, <3>3 DEF AnswerOK, Answered, Forced, BeforeProof, PastProof
  <2> QED
    BY <2>2, <2>3 DEF AnswerInv
<1>2. CASE dbCache[k].inst = NoInst
  <2>1. /\ dbCache' = [dbCache EXCEPT ![k] = NewEntry(c)]
        /\ pc'[c] = "using"
        /\ call' = [call EXCEPT ![c].seen = Only(i)]
    BY <1>2 DEF Insert, Serve, Goto, TypeOK
  <2>2. \A j \in Keys : dbCache'[j].inst = IF j = k THEN i ELSE dbCache[j].inst
    BY <1>k, <2>1 DEF NewEntry
  <2>3. \A d \in Callers : /\ proven[d] \subseteq proven'[d]
                           /\ Forced(d) => i \in proven'[d]
    <3>1. proven' = [d \in Callers |-> IF Forced(d) THEN proven[d] \cup {i}
                                                    ELSE proven[d]]
      BY <1>2 DEF Insert
    <3>2. \A d \in Callers : proven'[d] = IF Forced(d) THEN proven[d] \cup {i}
                                                       ELSE proven[d]
      BY <3>1
    <3> QED
      BY <3>2 DEF Forced
  <2>4. ASSUME NEW d \in Callers, d # c PROVE (Forced(d) => AnswerOK(d))'
    <3>1. pc'[d] = pc[d] /\ call'[d] = call[d] /\ call[d].key \in Keys
      BY <1>2, <2>4 DEF Insert, Serve, Goto, TypeOK, Call
    <3>2. Forced(d) => dbCache'[call[d].key].inst \in proven'[d]
                       \/ dbCache'[call[d].key].inst = dbCache[call[d].key].inst
      BY <2>2, <2>3, <3>1
    <3> QED
      BY <2>3, <3>1, <3>2 DEF AnswerInv, AnswerOK, Answered, Forced
  <2>5. (Forced(c) => AnswerOK(c))'
    <3>1. call'[c] = [call[c] EXCEPT !.seen = Only(i)]
      BY <2>1 DEF TypeOK
    <3>2. /\ call'[c].op = call[c].op /\ call'[c].again = call[c].again
          /\ call'[c].seen.inst = i
      BY <3>1 DEF TypeOK, Call, Only, NoEntry
    <3> QED
      BY <2>1, <2>3, <3>2 DEF AnswerOK, Answered, Forced, BeforeProof, PastProof
  <2> QED
    BY <2>4, <2>5 DEF AnswerInv
<1> QED
  BY <1>1, <1>2

\* Lookup, ping and eviction.
LEMMA AnswerLookup ==
    ASSUME TypeOK, NEW c \in Callers, Forced(c) => AnswerOK(c),
           \/ Unsupported(c) \/ Lookup(c) \/ ApplySettings(c)
           \/ PingOk(c) \/ PingFails(c) \/ Touch(c) \/ EvictAfterPing(c)
           \/ CheckCooldown(c) \/ ClearExpired(c),
           SlotsKept
    PROVE  (Forced(c) => AnswerOK(c))'
<1> DEFINE k == call[c].key
<1>k. /\ k \in Keys /\ dbCache[k] \in Entry /\ call[c] \in Call
      /\ call \in [Callers -> Call] /\ pc \in [Callers -> Places]
      /\ proven \in [Callers -> SUBSET Insts]
  BY DEF TypeOK, Call
<1>s. dbCache'[k].inst \in {dbCache[k].inst, NoInst}
  BY <1>k DEF SlotsKept
<1> USE DEF AnswerOK, Answered, Forced, BeforeProof, PastProof, Goto
<1>1. CASE Unsupported(c)
  BY <1>1, ReturnAnswers DEF Unsupported
<1>2. CASE Lookup(c)
  <2>1. CASE dbCache[k].inst = NoInst
    BY <1>2, <1>k, <2>1 DEF Lookup, cacheVars
  <2>2. CASE dbCache[k].inst # NoInst
    <3>1. call'[c] = [call[c] EXCEPT !.seen = dbCache[k]]
      BY <1>2, <1>k, <2>2 DEF Lookup
    <3>2. call'[c].key = k /\ call'[c].seen.inst = dbCache[k].inst
      BY <1>k, <3>1 DEF Call
    <3> QED
      BY <1>2, <1>k, <2>2, <3>2 DEF Lookup, cacheVars
  <2> QED
    BY <2>1, <2>2
<1>3. CASE ApplySettings(c)
  <2> DEFINE cur == dbCache[k]
             changed == call[c].seen.keep # call[c].keep
                        /\ cur.inst = call[c].seen.inst
             new == [cur EXCEPT !.keep = call[c].keep,
                                !.inFlight = @ /\ call[c].keep]
             entry == IF changed THEN new ELSE call[c].seen
  <2>1. entry.inst = call[c].seen.inst
    BY <1>k DEF Entry
  <2>2. call'[c] = [call[c] EXCEPT !.seen = Only(entry.inst)]
    BY <1>3, <1>k DEF ApplySettings
  <2>3. /\ call'[c].op = call[c].op /\ call'[c].again = call[c].again
        /\ call'[c].key = k /\ call'[c].seen.inst = call[c].seen.inst
    BY <1>k, <2>1, <2>2 DEF Call, Only, NoEntry
  <2>4. /\ pc[c] = "settings" /\ proven' = proven
        /\ pc'[c] \in {"ping", "using"}
        /\ Forced(c) => pc'[c] = "ping"
    BY <1>3, <1>k DEF ApplySettings, NeedsPing
  <2> HIDE DEF entry
  <2> QED
    BY <1>s, <2>3, <2>4
<1>4. CASE PingOk(c)
  <2>1. /\ pc[c] = "ping" /\ pc'[c] = "touch" /\ call' = call
        /\ proven'[c] = proven[c] \cup {call[c].seen.inst}
    BY <1>4, <1>k DEF PingOk
  <2> QED
    BY <1>s, <2>1
<1>5. CASE PingFails(c)
  BY <1>5, <1>k, <1>s DEF PingFails
<1>6. CASE Touch(c)
  <2>1. /\ pc[c] = "touch" /\ pc'[c] = "using" /\ proven' = proven
        /\ call'[c] = [call[c] EXCEPT !.seen = Only(call[c].seen.inst)]
    BY <1>6, <1>k DEF Touch, Serve
  <2>2. /\ call'[c].op = call[c].op /\ call'[c].again = call[c].again
        /\ call'[c].seen.inst = call[c].seen.inst
    BY <1>k, <2>1 DEF Call, Only, NoEntry
  <2> QED
    BY <2>1, <2>2
<1>7. CASE EvictAfterPing(c)
  <2>1. /\ pc[c] = "evict" /\ pc'[c] = "cooldown" /\ proven' = proven
        /\ call'[c] = [call[c] EXCEPT !.seen = NoEntry]
    BY <1>7, <1>k DEF EvictAfterPing
  <2>2. /\ call'[c].op = call[c].op /\ call'[c].again = call[c].again
        /\ call'[c].key = k
    BY <1>k, <2>1 DEF Call
  <2>3. dbCache'[k].inst = call[c].seen.inst => dbCache'[k].inst = NoInst
    BY <1>7, <1>k, <1>s DEF EvictAfterPing, SameInst, CloseAt, Without, NoEntry
  <2> QED
    BY <1>s, <2>1, <2>2, <2>3
<1>8. CASE CheckCooldown(c)
  <2>1. CASE Return(c)
    BY <2>1, ReturnAnswers
  <2>2. CASE ~Return(c)
    <3>1. /\ pc[c] = "cooldown" /\ pc'[c] \in {"uncool", "connect"}
          /\ call' = call /\ proven' = proven
      BY <1>8, <1>k, <2>2 DEF CheckCooldown
    <3> QED
      BY <1>s, <3>1
  <2> QED
    BY <2>1, <2>2
<1>9. CASE ClearExpired(c)
  BY <1>9, <1>k, <1>s DEF ClearExpired
<1> QED
  BY <1>1, <1>2, <1>3, <1>4, <1>5, <1>6, <1>7, <1>8, <1>9

\* Connecting, relieving the server and discarding what came too late.
LEMMA AnswerConnect ==
    ASSUME TypeOK, NEW c \in Callers, Forced(c) => AnswerOK(c), SlotsKept,
           \/ \E i \in Insts : ConnectOk(c, i)
           \/ ConnectRetry(c) \/ ConnectFails(c) \/ TooManyConnections(c)
           \/ Release(c) \/ (\E i \in Insts : CloseDoomed(c, i)) \/ Released(c)
           \/ RecordFailure(c) \/ ClearFirstKey(c) \/ ClearSecondKey(c)
           \/ Discard(c)
    PROVE  (Forced(c) => AnswerOK(c))'
<1> DEFINE k == call[c].key
           SameCall == /\ call'[c].op = call[c].op
                       /\ call'[c].again = call[c].again
                       /\ call'[c].key = k
           StillConnecting == /\ pc[c] \in PastProof /\ pc'[c] \in PastProof
                              /\ SameCall
                              /\ proven'[c] = proven[c]
<1>k. /\ k \in Keys /\ call[c] \in Call
      /\ call \in [Callers -> Call] /\ pc \in [Callers -> Places]
      /\ proven \in [Callers -> SUBSET Insts]
  BY DEF TypeOK, Call
<1>c. ASSUME StillConnecting PROVE (Forced(c) => AnswerOK(c))'
  <2>1. dbCache'[k].inst \in {dbCache[k].inst, NoInst}
    BY <1>k DEF SlotsKept
  <2> QED
    BY <1>c, <2>1 DEF AnswerOK, Answered, Forced, BeforeProof, PastProof
<1> USE DEF Goto
<1>1. ASSUME NEW i \in Insts, ConnectOk(c, i)
      PROVE  (Forced(c) => AnswerOK(c))'
  <2>1. call'[c] = [call[c] EXCEPT !.ckey = <<call[c].cfg, route>>]
    BY <1>1, <1>k DEF ConnectOk
  <2>2. SameCall
    BY <1>k, <2>1 DEF Call
  <2>3. CASE call[c].op = "test"
    <3>1. pc'[c] = "discard"
      BY <1>1, <1>k, <2>3 DEF ConnectOk
    <3> QED
      BY <2>2, <2>3, <3>1 DEF AnswerOK, Answered, BeforeProof, PastProof
  <2>4. CASE call[c].op # "test"
    <3>1. pc[c] = "connect" /\ pc'[c] = "clearFirst" /\ proven' = proven
      BY <1>1, <1>k, <2>4 DEF ConnectOk
    <3> QED
      BY <1>c, <2>2, <3>1 DEF PastProof
  <2> QED
    BY <2>3, <2>4
<1>2. CASE ConnectRetry(c)
  <2>1. call'[c] = [call[c] EXCEPT !.attempt = call[c].attempt + 1]
    BY <1>2, <1>k DEF ConnectRetry
  <2>2. SameCall
    BY <1>k, <2>1 DEF Call
  <2> QED
    BY <1>c, <1>2, <2>2 DEF ConnectRetry, PastProof
<1>3. CASE ConnectFails(c)
  BY <1>3, <1>k, ReturnAnswers, NothingToAnswer DEF ConnectFails
<1>4. CASE TooManyConnections(c)
  <2>1. call'[c] = [call[c] EXCEPT !.ckey = <<call[c].cfg, route>>,
                                   !.relieved = TRUE]
    BY <1>4, <1>k DEF TooManyConnections
  <2>2. SameCall
    BY <1>k, <2>1 DEF Call
  <2>3. pc[c] = "connect" /\ pc'[c] = "release" /\ proven' = proven
    BY <1>4, <1>k DEF TooManyConnections
  <2> QED
    BY <1>c, <2>2, <2>3 DEF PastProof
<1>5. CASE Release(c)
  <2>1. CASE Return(c)
    BY <2>1, ReturnAnswers
  <2>2. CASE ~Return(c)
    <3>1. /\ pc[c] = "release" /\ pc'[c] \in {"closing", "record"}
          /\ call' = call /\ proven' = proven
      BY <1>5, <1>k, <2>2 DEF Release
    <3> QED
      BY <1>c, <3>1, NothingToAnswer DEF PastProof
  <2> QED
    BY <2>1, <2>2
<1>6. ASSUME NEW i \in Insts, CloseDoomed(c, i)
      PROVE  (Forced(c) => AnswerOK(c))'
  BY <1>c, <1>6 DEF CloseDoomed, PastProof
<1>7. CASE Released(c)
  <2>1. CASE Return(c)
    BY <2>1, ReturnAnswers
  <2>2. CASE ~Return(c)
    <3>1. /\ pc[c] = "closing" /\ pc'[c] = "connect" /\ proven' = proven
          /\ call'[c] = [call[c] EXCEPT !.attempt = 1]
      BY <1>7, <1>k, <2>2 DEF Released
    <3>2. SameCall
      BY <1>k, <3>1 DEF Call
    <3> QED
      BY <1>c, <3>1, <3>2 DEF PastProof
  <2> QED
    BY <2>1, <2>2
<1>8. CASE RecordFailure(c)
  BY <1>8, ReturnAnswers DEF RecordFailure
<1>9. CASE ClearFirstKey(c) \/ ClearSecondKey(c)
  <2>1. /\ pc[c] \in PastProof /\ pc'[c] \in PastProof
        /\ call' = call /\ proven' = proven
    BY <1>9, <1>k DEF ClearFirstKey, ClearSecondKey, PastProof
  <2> QED
    BY <1>c, <2>1
<1>10. CASE Discard(c)
  <2>1. CASE call[c].op = "test"
    BY <1>10, <2>1, ReturnAnswers DEF Discard
  <2>2. CASE call[c].op # "test"
    <3>1. /\ pc[c] = "discard" /\ pc'[c] = "using" /\ proven' = proven
          /\ call'[c] = [call[c] EXCEPT !.seen = Only(call[c].seen.inst)]
      BY <1>10, <1>k, <2>2 DEF Discard, Serve
    <3>2. SameCall /\ call'[c].ckey = call[c].ckey
          /\ call'[c].seen.inst = call[c].seen.inst
      BY <1>k, <3>1 DEF Call, Only, NoEntry
    <3> QED
      BY <2>2, <3>1, <3>2
         DEF AnswerOK, Answered, Forced, BeforeProof, PastProof
  <2> QED
    BY <2>1, <2>2
<1> QED
  BY <1>1, <1>2, <1>3, <1>4, <1>5, <1>6, <1>7, <1>8, <1>9, <1>10

LEMMA AnswerProgress ==
    ASSUME TypeOK, AnswerInv, NEW c \in Callers, Progress(c)
    PROVE  AnswerInv'
<1>1. CASE Insert(c)
  BY <1>1, AnswerInsert
<1>2. CASE ~Insert(c)
  <2>1. SlotsKept
    BY <1>2, SlotsProgress
  <2>2. ASSUME NEW d \in Callers, d # c PROVE (Forced(d) => AnswerOK(d))'
    BY <1>2, <2>1, <2>2, OthersRest, AnswerKept DEF AnswerInv
  <2>3. CASE Finish(c) \/ MeetDeadConnection(c) \/ ExecAfterQuery(c) \/ Invalidate(c)
    <3>1. \/ Return(c) \/ pc'[c] \in {"invalidate", "lookup"}
          \/ call[c].op = "query" /\ call'[c] = Exec(call[c])
      BY <2>3 DEF Finish, MeetDeadConnection, ExecAfterQuery, Invalidate, Goto,
                  TypeOK
    <3>2. ASSUME call[c].op = "query", call'[c] = Exec(call[c])
          PROVE  (Forced(c) => AnswerOK(c))'
      <4>0. call[c] \in Call
        BY DEF TypeOK
      <4>1. call'[c].op = "query" /\ ~call'[c].again
        BY <3>2, <4>0, ExecTypes
      <4>. QED  BY <4>1 DEF Forced
    <3>3. (Forced(c) => AnswerOK(c))'
      BY <3>1, <3>2, ReturnAnswers, NothingToAnswer
    <3> QED
      BY <2>2, <3>3 DEF AnswerInv
  <2>4. Forced(c) => AnswerOK(c)
    BY DEF AnswerInv
  <2>5. CASE ~(\/ Finish(c) \/ MeetDeadConnection(c) \/ ExecAfterQuery(c)
               \/ Invalidate(c))
    <3>1. (Forced(c) => AnswerOK(c))'
      BY <1>2, <2>1, <2>4, <2>5, AnswerLookup, AnswerConnect DEF Progress
    <3> QED
      BY <2>2, <3>1 DEF AnswerInv
  <2> QED
    BY <2>3, <2>5
<1> QED
  BY <1>1, <1>2

\* A forced call begins with its lookup.
LEMMA AnswerArrive ==
    ASSUME TypeOK, AnswerInv, NEW c \in Callers, Arrive(c)
    PROVE  AnswerInv'
<1> DEFINE OthersWait ==
             /\ dbCache' = dbCache /\ proven' = proven
             /\ \A d \in Callers \ {c} : pc'[d] = pc[d] /\ call'[d] = call[d]
<1>0. OthersWait
  <2>1. ASSUME NEW op \in Methods, NEW cfg \in Configs, NEW keep \in Settings,
               Begin(c, op, cfg, keep)
        PROVE  OthersWait
    BY <2>1 DEF Begin, Goto, cacheVars, TypeOK
  <2>2. ASSUME NEW d \in Callers, BeginCancel(c, d)
        PROVE  OthersWait
    BY <2>2 DEF BeginCancel, Goto, cacheVars, TypeOK
  <2> QED
    BY <2>1, <2>2 DEF Arrive
<1>1. ASSUME NEW d \in Callers, d # c PROVE (Forced(d) => AnswerOK(d))'
  BY <1>0, <1>1, AnswerKept DEF AnswerInv, SlotsKept
<1>2. ASSUME NEW op \in Methods, NEW cfg \in Configs, NEW keep \in Settings,
             Begin(c, op, cfg, keep)
      PROVE  (Forced(c) => AnswerOK(c))'
  <2>1. CASE op \in {"release", "test"}
    <3>1. call'[c].op = op /\ call'[c].again = FALSE
      BY <1>2 DEF Begin, NoCall, TypeOK
    <3> QED
      BY <2>1, <3>1 DEF Forced
  <2>2. CASE op \notin {"release", "test"}
    <3>1. pc'[c] = "lookup"
      BY <1>2, <2>2 DEF Begin, Goto, TypeOK
    <3> QED
      BY <3>1, NothingToAnswer
  <2> QED
    BY <2>1, <2>2
<1>3. ASSUME NEW d \in Callers, BeginCancel(c, d)
      PROVE  (Forced(c) => AnswerOK(c))'
  BY <1>3, NothingToAnswer DEF BeginCancel, Goto, TypeOK
<1> QED
  BY <1>1, <1>2, <1>3 DEF Arrive, AnswerInv

\* The keep-alive loop, Shutdown and time.
LEMMA AnswerOthers ==
    ASSUME TypeOK, AnswerInv, KeepAlive \/ Stop \/ Environment
    PROVE  AnswerInv'
<1>1. pc' = pc /\ call' = call /\ proven' = proven
  BY DEF KeepAlive, KeepAliveCollect, KeepAlivePing, KeepAliveMark,
         KeepAliveEvict, KeepAliveClose, KeepAliveTickDone, Stop, BeginShutdown,
         StopLoop, CloseAll, Environment, EntryAges, CooldownExpires, ToggleProxy,
         callerVars
<1>2. ASSUME dbCache' = dbCache PROVE SlotsKept
  BY <1>2 DEF SlotsKept
<1>3. ASSUME NEW K, dbCache' = Without(K) PROVE SlotsKept
  BY <1>3 DEF SlotsKept, Without, NoEntry
<1>4. ASSUME \A k \in Keys : dbCache'[k].inst = dbCache[k].inst PROVE SlotsKept
  BY <1>4 DEF SlotsKept
<1>5. SlotsKept
  <2>1. CASE KeepAliveEvict
    BY <1>2, <1>3, <2>1 DEF KeepAliveEvict
  <2>2. CASE CloseAll
    BY <1>3, <2>2 DEF CloseAll, CloseAt
  <2>3. CASE KeepAliveCollect \/ KeepAliveMark
    BY <1>4, <2>3, CollectKeepsInst, MarkKeepsInst
  <2>4. ASSUME NEW k \in Keys, EntryAges(k) PROVE SlotsKept
    BY <1>4, <2>4, AgingKeepsInst
  <2>5. CASE \/ \E t \in loop.targets, ok \in BOOLEAN : KeepAlivePing(t, ok)
             \/ KeepAliveClose \/ KeepAliveTickDone \/ BeginShutdown \/ StopLoop
             \/ (\E k \in Keys : CooldownExpires(k)) \/ ToggleProxy
    <3>1. dbCache' = dbCache
      BY <2>5 DEF KeepAlivePing, KeepAliveClose, KeepAliveTickDone, BeginShutdown,
                  StopLoop, CooldownExpires, ToggleProxy, cacheVars
    <3> QED
      BY <1>2, <3>1
  <2> QED
    BY <2>1, <2>2, <2>3, <2>4, <2>5 DEF KeepAlive, Stop, Environment
<1> QED
  BY <1>1, <1>5, AnswerKept DEF AnswerInv

LEMMA AnswerStep ==
    ASSUME TypeOK, AnswerInv, [Next]_vars
    PROVE  AnswerInv'
<1>1. CASE UNCHANGED vars
  BY <1>1 DEF vars, cacheVars, callerVars, AnswerInv, AnswerOK, Answered, Forced
<1> QED
  BY <1>1, AnswerArrive, AnswerProgress, AnswerOthers DEF Next

LEMMA AnswerInit == Init => AnswerInv
BY DEF Init, AnswerInv, AnswerOK, Answered, BeforeProof, PastProof

----------------------------------------------------------------------------
(* InstancePool: what a step does to the phase of each instance and to the *)
(* slots of the cache.                                                     *)

LEMMA PoolStart == Init => Pool!PoolInit
<1> SUFFICES ASSUME Init PROVE Pool!PoolInit
  OBVIOUS
<1>1. \A k \in Keys : dbCache[k].inst = NoInst
  BY DEF Init, NoEntry
<1>2. \A i \in Insts : Where(i) = "unused"
  BY DEF Init, Where
<1> QED
  BY <1>1, <1>2 DEF Pool!PoolInit, wherePool, slotPool

\* A step that moves no instance.
LEMMA PoolKept ==
    ASSUME TypeOK, \A k \in Keys : dbCache'[k].inst = dbCache[k].inst,
           life' = life, mine' = mine
    PROVE  UNCHANGED <<wherePool, slotPool>>
<1>1. InstsAt(Keys)' = InstsAt(Keys)
  BY DEF InstsAt
<1>2. \A i \in Insts : Where(i)' = Where(i)
  BY <1>1 DEF Where
<1> QED
  BY <1>2 DEF wherePool, slotPool

\* The entries of K taken out, as a set of slots that are taken.
LEMMA SlotsTakenOut ==
    ASSUME TypeOK, NEW K, K \subseteq Keys, dbCache' = Without(K),
           NEW phase \in {"retired", "closed"},
           \A i \in Insts :
              Where(i)' = IF i \in InstsAt(K) THEN phase ELSE Where(i)
    PROVE  Pool!PoolNext
<1> DEFINE J == {k \in K : dbCache[k].inst # NoInst}
           out == {slotPool[k] : k \in J}
<1>1. J \in SUBSET Pool!Taken
  BY DEF Pool!Taken, slotPool
<1>2. \A k \in J : slotPool[k] = dbCache[k].inst
  BY DEF slotPool
<1>3. out = InstsAt(K)
  BY <1>2 DEF InstsAt
<1>4. \A k \in Keys : dbCache'[k].inst = IF k \in J THEN NoInst ELSE dbCache[k].inst
  BY DEF Without, NoEntry
<1>5. slotPool' = [k \in Keys |-> IF k \in J THEN NoInst ELSE slotPool[k]]
  BY <1>4 DEF slotPool
<1>6. wherePool' = [i \in Insts |-> IF i \in out THEN phase ELSE wherePool[i]]
  BY <1>3 DEF wherePool
<1> HIDE DEF J
<1>7. Pool!Withdraw(J, phase)
  BY <1>5, <1>6 DEF Pool!Withdraw
<1> QED
  BY <1>1, <1>7 DEF Pool!PoolNext

\* Entries are closed and taken out in one critical section.
LEMMA PoolCloseAt ==
    ASSUME TypeOK, Owned, NEW K, K \subseteq Keys, CloseAt(K), mine' = mine
    PROVE  Pool!PoolNext
<1>1. /\ InstsAt(Keys)' = InstsAt(Keys) \ InstsAt(K)
      /\ InstsAt(K) \subseteq InstsAt(Keys)
  BY TakenOut DEF CloseAt
<1>2. \A i \in Insts : life'[i] = IF i \in InstsAt(K) THEN "closed" ELSE life[i]
  BY <1>1 DEF CloseAt, Closing, Owned, CachedIsOpen
<1>3. \A i \in Insts : Where(i)' = IF i \in InstsAt(K) THEN "closed" ELSE Where(i)
  BY <1>1, <1>2 DEF Where
<1> QED
  BY <1>3, SlotsTakenOut DEF CloseAt

\* Entries are taken out, to be closed later.
LEMMA PoolTakeOut ==
    ASSUME TypeOK, Owned, NEW K, K \subseteq Keys, dbCache' = Without(K),
           life' = life, mine' = mine
    PROVE  Pool!PoolNext
<1>1. /\ InstsAt(Keys)' = InstsAt(Keys) \ InstsAt(K)
      /\ InstsAt(K) \subseteq InstsAt(Keys)
  BY TakenOut
<1>2. \A i \in InstsAt(K) : life[i] = "open" /\ \A c \in Callers : mine[c] # i
  BY <1>1 DEF Owned, CachedIsOpen, CacheOwnsAlone, HeldBy
<1>3. \A i \in Insts : Where(i)' = IF i \in InstsAt(K) THEN "retired" ELSE Where(i)
  BY <1>1, <1>2 DEF Where
<1> QED
  BY <1>3, SlotsTakenOut

LEMMA PoolConnect ==
    ASSUME TypeOK, Owned, NEW c \in Callers, NEW i \in Insts, LocalsOK,
           ConnectOk(c, i)
    PROVE  Pool!PoolNext
<1>1. /\ dbCache' = dbCache /\ life[i] = "unused"
      /\ \A j \in Insts : life'[j] = IF j = i THEN "open" ELSE life[j]
      /\ \A d \in Callers : mine'[d] = IF d = c THEN i ELSE mine[d]
      /\ mine[c] = NoInst
  BY DEF ConnectOk, TypeOK, LocalsOK, CallerOK
<1>2. InstsAt(Keys)' = InstsAt(Keys) /\ i \notin InstsAt(Keys)
  BY <1>1 DEF InstsAt, Owned, CachedIsOpen
<1>3. \A j \in Insts : Where(j)' = IF j = i THEN "private" ELSE Where(j)
  BY <1>1, <1>2, ConstantsAssumption DEF Where
<1>4. Where(i) = "unused"
  BY <1>1 DEF Where
<1>5. Pool!Connect(i)
  BY <1>1, <1>3, <1>4 DEF Pool!Connect, wherePool, slotPool
<1> QED
  BY <1>5 DEF Pool!PoolNext

LEMMA PoolPublish ==
    ASSUME TypeOK, LocalsOK, Owned, NEW c \in Callers, Insert(c),
           dbCache[call[c].ckey].inst = NoInst
    PROVE  Pool!PoolNext
<1> DEFINE k == call[c].ckey
           i == mine[c]
<1>1. /\ dbCache' = [dbCache EXCEPT ![k] = NewEntry(c)]
      /\ \A d \in Callers : mine'[d] = IF d = c THEN NoInst ELSE mine[d]
      /\ life' = life
      /\ k \in Keys /\ dbCache[k].inst = NoInst /\ i # NoInst
  BY DEF Insert, TypeOK, Call, LocalsOK, CallerOK
<1>2. NewEntry(c).inst = i /\ i \in Insts
  BY <1>1 DEF NewEntry, TypeOK, OptInst
<1>3. \A j \in Keys : dbCache'[j] = IF j = k THEN NewEntry(c) ELSE dbCache[j]
  BY <1>1 DEF TypeOK
<1>4. HeldBy(c, i) /\ life[i] = "open" /\ i \notin InstsAt(Keys)
  BY <1>2 DEF HeldBy, Owned, HeldApart, CacheOwnsAlone
<1>5. \E d \in Callers : mine[d] = i
  OBVIOUS
<1> HIDE DEF k
<1>6. InstsAt(Keys)' = InstsAt(Keys) \cup {i}
  BY <1>1, <1>2, <1>3 DEF InstsAt
<1>7. \A j \in Insts \ {i} : (\E d \in Callers : mine'[d] = j)
                               <=> (\E d \in Callers : mine[d] = j)
  BY <1>1, ConstantsAssumption
<1> HIDE DEF i
<1>8. \A j \in Insts : Where(j)' = IF j = i THEN "cached" ELSE Where(j)
  BY <1>1, <1>4, <1>6, <1>7 DEF Where
<1>9. Where(i) = "private"
  BY <1>4, <1>5 DEF Where
<1>10. wherePool[i] = "private"
         /\ wherePool' = [wherePool EXCEPT ![i] = "cached"]
  BY <1>2, <1>8, <1>9 DEF wherePool
<1>11. slotPool[k] = NoInst /\ slotPool' = [slotPool EXCEPT ![k] = i]
  <2>1. \A j \in Keys : dbCache'[j].inst = IF j = k THEN i ELSE dbCache[j].inst
    BY <1>2, <1>3
  <2>2. slotPool[k] = NoInst
    BY <1>1 DEF slotPool
  <2>3. slotPool' = [j \in Keys |-> IF j = k THEN i ELSE slotPool[j]]
    BY <2>1 DEF slotPool
  <2> QED
    BY <2>2, <2>3 DEF slotPool
<1>12. Pool!Publish(k, i)
  BY <1>10, <1>11 DEF Pool!Publish
<1> QED
  BY <1>1, <1>2, <1>12 DEF Pool!PoolNext

\* A goroutine closes an instance it holds.
LEMMA PoolClose ==
    ASSUME TypeOK, Owned, NEW i \in Insts, dbCache' = dbCache, life' = Closing({i}),
           HeldByLoop(i) \/ \E c \in Callers : HeldBy(c, i),
           \A j \in Insts \ {i} : (\E d \in Callers : mine'[d] = j)
                                    <=> (\E d \in Callers : mine[d] = j)
    PROVE  Pool!PoolNext
<1>1. InstsAt(Keys)' = InstsAt(Keys)
  BY DEF InstsAt
<1>2. life[i] = "open" /\ i \notin InstsAt(Keys)
  BY DEF Owned, HeldApart, CacheOwnsAlone
<1>3. \A j \in Insts : life'[j] = IF j = i THEN "closed" ELSE life[j]
  BY <1>2 DEF Closing
<1>4. \A j \in Insts : Where(j)' = IF j = i THEN "closed" ELSE Where(j)
  BY <1>1, <1>3 DEF Where
<1>5. Where(i) \in {"private", "retired"}
  BY <1>2 DEF Where
<1>6. wherePool[i] \in {"private", "retired"}
        /\ wherePool' = [wherePool EXCEPT ![i] = "closed"]
  BY <1>4, <1>5 DEF wherePool
<1>7. slotPool' = slotPool
  BY DEF slotPool
<1>8. Pool!CloseApart(i)
  BY <1>6, <1>7 DEF Pool!CloseApart
<1> QED
  BY <1>8 DEF Pool!PoolNext

\* The steps of a call: those that move no instance, then the others.
LEMMA PoolProgress ==
    ASSUME TypeOK, LocalsOK, Owned, NEW c \in Callers, Progress(c)
    PROVE  Pool!PoolNext \/ UNCHANGED <<wherePool, slotPool>>
<1>k. /\ call[c].key \in Keys /\ call[c].ckey \in Keys
      /\ <<call[c].cfg, route>> \in Keys
  BY DEF TypeOK, Call, Keys
<1>1. CASE \/ Lookup(c) \/ PingOk(c) \/ PingFails(c) \/ CheckCooldown(c)
           \/ ClearExpired(c) \/ ConnectRetry(c) \/ ConnectFails(c)
           \/ TooManyConnections(c) \/ Released(c) \/ RecordFailure(c)
           \/ ClearFirstKey(c) \/ ClearSecondKey(c) \/ Finish(c)
           \/ MeetDeadConnection(c) \/ ExecAfterQuery(c)
  <2>1. dbCache' = dbCache /\ life' = life /\ mine' = mine
    BY <1>1 DEF Lookup, PingOk, PingFails, CheckCooldown, ClearExpired,
                ConnectRetry, ConnectFails, TooManyConnections, Released,
                RecordFailure, ClearFirstKey, ClearSecondKey, Finish,
                MeetDeadConnection, ExecAfterQuery, cacheVars
  <2> QED
    BY <2>1, PoolKept
<1>2. CASE ApplySettings(c)
  <2> DEFINE k == call[c].key
             new == [dbCache[k] EXCEPT !.keep = call[c].keep,
                                       !.inFlight = @ /\ call[c].keep]
  <2>1. /\ dbCache' = dbCache \/ dbCache' = [dbCache EXCEPT ![k] = new]
        /\ life' = life /\ mine' = mine
    BY <1>2 DEF ApplySettings
  <2>2. new.inst = dbCache[k].inst
    BY <1>k DEF TypeOK, Entry
  <2> HIDE DEF new
  <2>3. \A j \in Keys : dbCache'[j].inst = dbCache[j].inst
    BY <1>k, <2>1, <2>2 DEF TypeOK
  <2> QED
    BY <2>1, <2>3, PoolKept
<1>3. CASE Touch(c)
  <2>1. \A j \in Keys : dbCache'[j].inst = dbCache[j].inst
    BY <1>k, <1>3 DEF Touch, TypeOK, Entry
  <2> QED
    BY <1>3, <2>1, PoolKept DEF Touch
<1>4. CASE Unsupported(c)
  BY <1>k, <1>4, PoolCloseAt DEF Unsupported
<1>5. CASE EvictAfterPing(c)
  <2>1. CASE SameInst(c)
    BY <1>k, <1>5, <2>1, PoolCloseAt DEF EvictAfterPing
  <2>2. CASE ~SameInst(c)
    BY <1>5, <2>2, PoolKept DEF EvictAfterPing
  <2> QED
    BY <2>1, <2>2
<1>6. CASE Invalidate(c)
  <2>1. CloseAt({<<call[c].cfg, route>>}) /\ mine' = mine
    BY <1>6 DEF Invalidate
  <2> QED
    BY <1>k, <2>1, PoolCloseAt
<1>7. CASE Release(c)
  <2> DEFINE K == {k \in Occupied : SameServer(k, call[c].ckey)}
  <2>1. dbCache' = Without(K) /\ life' = life /\ mine' = mine /\ K \subseteq Keys
    BY <1>7 DEF Release, Occupied
  <2> HIDE DEF K
  <2> QED
    BY <2>1, PoolTakeOut
<1>8. ASSUME NEW i \in Insts, ConnectOk(c, i) PROVE Pool!PoolNext
  BY <1>8, PoolConnect
<1>9. ASSUME NEW i \in Insts, CloseDoomed(c, i) PROVE Pool!PoolNext
  <2>1. /\ dbCache' = dbCache /\ life' = Closing({i}) /\ mine' = mine
        /\ HeldBy(c, i)
    BY <1>9 DEF CloseDoomed, HeldBy
  <2> QED
    BY <2>1, PoolClose
<1>10. CASE Insert(c)
  <2>1. CASE dbCache[call[c].ckey].inst = NoInst
    BY <1>10, <2>1, PoolPublish
  <2>2. CASE dbCache[call[c].ckey].inst # NoInst
    BY <1>10, <2>2, PoolKept DEF Insert
  <2> QED
    BY <2>1, <2>2
<1>11. CASE Discard(c)
  <2> DEFINE i == mine[c]
  <2>1. /\ dbCache' = dbCache /\ life' = Closing({i}) /\ i \in Insts
        /\ \A d \in Callers : mine'[d] = IF d = c THEN NoInst ELSE mine[d]
    BY <1>11 DEF Discard, LocalsOK, CallerOK, TypeOK, OptInst
  <2>2. HeldBy(c, i)
    BY DEF HeldBy
  <2>3. \A j \in Insts \ {i} : (\E d \in Callers : mine'[d] = j)
                                 <=> (\E d \in Callers : mine[d] = j)
    BY <2>1, ConstantsAssumption
  <2> HIDE DEF i
  <2> QED
    BY <2>1, <2>2, <2>3, PoolClose
<1> QED
  BY <1>1, <1>2, <1>3, <1>4, <1>5, <1>6, <1>7, <1>8, <1>9, <1>10, <1>11 DEF Progress

\* The keep-alive loop, Shutdown and time.
LEMMA PoolOthers ==
    ASSUME TypeOK, LocalsOK, Owned, KeepAlive \/ Stop \/ Environment
    PROVE  Pool!PoolNext \/ UNCHANGED <<wherePool, slotPool>>
<1>0. mine' = mine
  BY DEF KeepAlive, KeepAliveCollect, KeepAlivePing, KeepAliveMark,
         KeepAliveEvict, KeepAliveClose, KeepAliveTickDone, Stop, BeginShutdown,
         StopLoop, CloseAll, Environment, EntryAges, CooldownExpires, ToggleProxy,
         callerVars
<1>1. CASE KeepAliveEvict
  <2>1. life' = life /\ loop.cur.key \in Keys
    BY <1>1 DEF KeepAliveEvict, TypeOK, Target
  <2>2. CASE StillTarget
    <3>1. dbCache' = Without({loop.cur.key})
      BY <1>1, <2>2 DEF KeepAliveEvict
    <3> QED
      BY <1>0, <2>1, <3>1, PoolTakeOut
  <2>3. CASE ~StillTarget
    BY <1>0, <1>1, <2>1, <2>3, PoolKept DEF KeepAliveEvict
  <2> QED
    BY <2>2, <2>3
<1>2. CASE KeepAliveClose
  <2>1. /\ dbCache' = dbCache /\ life' = Closing({loop.cur.inst})
        /\ loop.cur.inst \in Insts /\ HeldByLoop(loop.cur.inst)
    BY <1>2 DEF KeepAliveClose, LocalsOK, LoopOK, TypeOK, Target, OptInst, HeldByLoop
  <2> QED
    BY <1>0, <2>1, PoolClose
<1>3. CASE CloseAll
  BY <1>0, <1>3, PoolCloseAt DEF CloseAll
<1>4. CASE \/ KeepAliveCollect \/ KeepAliveMark \/ KeepAliveTickDone
           \/ (\E t \in loop.targets, ok \in BOOLEAN : KeepAlivePing(t, ok))
           \/ BeginShutdown \/ StopLoop \/ Environment
  <2>1. life' = life
    BY <1>4 DEF KeepAliveCollect, KeepAliveMark, KeepAliveTickDone, KeepAlivePing,
                BeginShutdown, StopLoop, Environment, EntryAges, CooldownExpires,
                ToggleProxy, cacheVars
  <2>2. \A k \in Keys : dbCache'[k].inst = dbCache[k].inst
    <3>1. CASE dbCache' = dbCache
      BY <3>1
    <3> QED
      BY <1>4, <3>1, CollectKeepsInst, MarkKeepsInst, AgingKeepsInst
         DEF KeepAliveTickDone, KeepAlivePing, BeginShutdown, StopLoop,
             Environment, CooldownExpires, ToggleProxy, cacheVars
  <2> QED
    BY <1>0, <2>1, <2>2, PoolKept
<1> QED
  BY <1>1, <1>2, <1>3, <1>4 DEF KeepAlive, Stop

\* Every step of the goroutines is one of the pool or moves nothing.
LEMMA PoolStep ==
    ASSUME TypeOK, LocalsOK, Owned, [Next]_vars
    PROVE  Pool!PoolNext \/ UNCHANGED <<wherePool, slotPool>>
<1>1. ASSUME NEW c \in Callers, Arrive(c)
      PROVE  UNCHANGED <<wherePool, slotPool>>
  <2>1. UNCHANGED <<dbCache, life, mine>>
    BY <1>1 DEF Arrive, Begin, BeginCancel, cacheVars
  <2> QED
    BY <2>1, PoolKept
<1>2. CASE UNCHANGED vars
  BY <1>2, PoolKept DEF vars, cacheVars, callerVars
<1> QED
  BY <1>1, <1>2, PoolProgress, PoolOthers DEF Next

\* Every step of the pool leads onwards.
LEMMA CachedSlots ==
    ASSUME TypeOK, CachedIsOpen
    PROVE  Pool!SlotsAreCached
<1>1. \A k \in Pool!Taken : dbCache[k].inst \in InstsAt(Keys) \cap Insts
  BY DEF Pool!Taken, slotPool, InstsAt, TypeOK, Entry, OptInst
<1>2. \A i \in InstsAt(Keys) \cap Insts : wherePool[i] = "cached"
  BY DEF wherePool, Where, CachedIsOpen
<1>. QED  BY <1>1, <1>2 DEF Pool!SlotsAreCached, Pool!Taken, slotPool

LEMMA PoolLeadsOn ==
    ASSUME TypeOK, CachedIsOpen, ClosedOnce, [Pool!PoolNext]_<<wherePool, slotPool>>
    PROVE  [\A i \in Insts : Pool!Onwards(i)]_<<wherePool, slotPool>>
<1>1. \A i \in Insts : wherePool[i] \in Pool!Phases
  BY DEF wherePool, Where, Pool!Phases, TypeOK, ClosedOnce
<1>2. ASSUME NEW i \in Insts, Pool!Connect(i) \/ Pool!CloseApart(i)
      PROVE  \A j \in Insts : Pool!Onwards(j)
  <2>1. \A j \in Insts : \/ wherePool'[j] = wherePool[j]
                         \/ wherePool[j] = "unused"
                         \/ /\ wherePool[j] \in {"private", "retired"}
                            /\ wherePool'[j] = "closed"
    BY <1>2 DEF Pool!Connect, Pool!CloseApart, wherePool
  <2>. QED  BY <1>1, <2>1 DEF Pool!Onwards, Pool!Phases
<1>3. ASSUME NEW k \in Keys, NEW i \in Insts, Pool!Publish(k, i)
      PROVE  \A j \in Insts : Pool!Onwards(j)
  <2>1. \A j \in Insts : \/ wherePool'[j] = wherePool[j]
                         \/ wherePool[j] = "private" /\ wherePool'[j] = "cached"
    BY <1>3 DEF Pool!Publish, wherePool
  <2>. QED  BY <1>1, <2>1 DEF Pool!Onwards, Pool!Phases
<1>4. ASSUME NEW K \in SUBSET Pool!Taken, NEW phase \in {"retired", "closed"},
             Pool!Withdraw(K, phase)
      PROVE  \A j \in Insts : Pool!Onwards(j)
  <2>1. \A j \in Insts : \/ wherePool'[j] = wherePool[j]
                         \/ wherePool'[j] = phase /\ \E k \in K : j = slotPool[k]
    BY <1>4 DEF Pool!Withdraw
  <2>2. \A k \in K : wherePool[slotPool[k]] = "cached"
    BY CachedSlots DEF Pool!SlotsAreCached
  <2>. QED  BY <1>1, <2>1, <2>2 DEF Pool!Onwards, Pool!Phases
<1>. QED  BY <1>2, <1>3, <1>4 DEF Pool!PoolNext

----------------------------------------------------------------------------
(* Every call winds down.                                                   *)

LEMMA PlaceNumbers ==
    /\ PlaceNo["idle"] = 0 /\ PlaceNo["record"] = 1 /\ PlaceNo["invalidate"] = 1
    /\ PlaceNo["using"] = 2 /\ PlaceNo["touch"] = 3 /\ PlaceNo["discard"] = 3
    /\ PlaceNo["insert"] = 4 /\ PlaceNo["clearSecond"] = 5
    /\ PlaceNo["clearFirst"] = 6 /\ PlaceNo["connect"] = 7
    /\ PlaceNo["closing"] = 8 /\ PlaceNo["release"] = 9 /\ PlaceNo["uncool"] = 10
    /\ PlaceNo["cooldown"] = 11 /\ PlaceNo["evict"] = 12 /\ PlaceNo["ping"] = 13
    /\ PlaceNo["settings"] = 14 /\ PlaceNo["lookup"] = 15
BY DEF PlaceNo

LEMMA PlacesAreNumbered ==
    \A p \in Places : /\ PlaceNo[p] \in 0..15
                      /\ p # "idle" => PlaceNo[p] >= 1
                      /\ p # "connect" => PlaceNo[p] # 7
BY PlaceNumbers DEF Places

LEMMA AheadTypes ==
    ASSUME NEW l \in Call, NEW p \in Places
    PROVE  /\ PassesLeft(l) \in Nat
           /\ AttemptsLeft(p, l) \in 0..MaxAttempts
           /\ AheadOf(p, l) \in Nat
           /\ p # "idle" => AheadOf(p, l) = PassesLeft(l) + AttemptsLeft(p, l) + PlaceNo[p]
           /\ p # "idle" => AheadOf(p, l) > 0
<1>1. MaxAttempts \in Nat \ {0} /\ l.attempt \in 1..MaxAttempts
      /\ l.again \in BOOLEAN /\ l.relieved \in BOOLEAN
  BY ConstantsAssumption DEF Call
<1>2. PassesLeft(l) \in Nat
  <2>1. ReconnectsLeft(l) \in 0..3 /\ Pass \in Nat
    BY <1>1 DEF ReconnectsLeft, Pass
  <2>2. \A n \in 0..3 : 2 * Pass * n \in Nat
    BY <2>1
  <2>. QED  BY <1>1, <2>1, <2>2 DEF PassesLeft
<1>3. AttemptsLeft(p, l) \in 0..MaxAttempts
  BY <1>1, PlacesAreNumbered DEF AttemptsLeft
<1>. QED  BY <1>2, <1>3, <1>1, PlacesAreNumbered DEF AheadOf

\* A step to a later place of the same pass leads onwards.
LEMMA LaterPlace ==
    ASSUME NEW l \in Call, NEW m \in Call, NEW p \in Places, NEW q \in Places,
           m.again = l.again, m.round = l.round, m.relieved = l.relieved,
           PlaceNo[q] < PlaceNo[p]
    PROVE  AheadOf(q, m) < AheadOf(p, l)
<1>1. PassesLeft(m) = PassesLeft(l)
  BY DEF PassesLeft, ReconnectsLeft
<1>2. p # "idle"
  BY PlaceNumbers, PlacesAreNumbered
<1>3. CASE q = "idle"
  BY <1>2, <1>3, AheadTypes DEF AheadOf
<1>4. CASE q # "idle"
  <2>1. AttemptsLeft(q, m) <= AttemptsLeft(p, l)
    <3>1. CASE PlaceNo[p] > 7
      BY <3>1, AheadTypes, ConstantsAssumption DEF AttemptsLeft
    <3>2. CASE PlaceNo[p] <= 7
      <4>1. AttemptsLeft(q, m) = 0
        BY <3>2, PlacesAreNumbered, PlaceNumbers DEF AttemptsLeft
      <4>. QED  BY <4>1, AheadTypes, ConstantsAssumption
    <3>. QED  BY <3>1, <3>2, PlacesAreNumbered
  <2>. QED
    BY <1>1, <1>2, <1>4, <2>1, AheadTypes, PlacesAreNumbered, ConstantsAssumption
<1>. QED  BY <1>3, <1>4

LEMMA ReturnEnds ==
    ASSUME TypeOK, NEW c \in Callers, pc[c] # "idle", Return(c)
    PROVE  Ahead(c)' < Ahead(c)
<1>1. pc'[c] = "idle" /\ pc[c] \in Places /\ call[c] \in Call
  BY DEF Return, Goto, TypeOK
<1>2. Ahead(c)' = 0
  BY <1>1 DEF Ahead, AheadOf
<1>. QED  BY <1>1, <1>2, AheadTypes DEF Ahead

\* What a step within a pass does to the locals of its call.
SamePass(c) == /\ call'[c].again = call[c].again
               /\ call'[c].round = call[c].round
               /\ call'[c].relieved = call[c].relieved
               /\ PlaceNo[pc'[c]] < PlaceNo[pc[c]]

LEMMA SamePassEnds ==
    ASSUME TypeOK, TypeOK', NEW c \in Callers, SamePass(c)
    PROVE  Ahead(c)' < Ahead(c)
<1>1. /\ pc[c] \in Places /\ pc'[c] \in Places
      /\ call[c] \in Call /\ call'[c] \in Call
  BY DEF TypeOK
<1>. QED  BY <1>1, LaterPlace DEF SamePass, Ahead

LEMMA LookupEnds ==
    ASSUME TypeOK, NEW c \in Callers,
           \/ Lookup(c) \/ ApplySettings(c)
           \/ PingOk(c) \/ PingFails(c) \/ Touch(c) \/ EvictAfterPing(c)
           \/ CheckCooldown(c) /\ ~Return(c)
           \/ ClearExpired(c)
    PROVE  SamePass(c)
<1>0. pc \in [Callers -> Places] /\ call \in [Callers -> Call]
  BY DEF TypeOK
<1> USE <1>0, PlaceNumbers DEF SamePass, Goto
<1>1. CASE Lookup(c)
  <2>1. pc[c] = "lookup" /\ pc'[c] \in {"cooldown", "settings"}
    BY <1>1 DEF Lookup
  <2>2. /\ call'[c].again = call[c].again /\ call'[c].round = call[c].round
        /\ call'[c].relieved = call[c].relieved
    BY <1>1 DEF Call, Lookup
  <2>. QED  BY <2>1, <2>2
<1>2. CASE ApplySettings(c)
  <2>1. pc[c] = "settings" /\ pc'[c] \in {"ping", "using"}
    BY <1>2 DEF ApplySettings
  <2>2. /\ call'[c].again = call[c].again /\ call'[c].round = call[c].round
        /\ call'[c].relieved = call[c].relieved
    BY <1>2 DEF Call, ApplySettings
  <2>. QED  BY <2>1, <2>2
<1>3. CASE PingOk(c) \/ PingFails(c)
  BY <1>3 DEF PingOk, PingFails
<1>4. CASE Touch(c)
  BY <1>4 DEF Touch, Serve
<1>5. CASE EvictAfterPing(c)
  BY <1>5 DEF EvictAfterPing
<1>6. CASE CheckCooldown(c) /\ ~Return(c)
  BY <1>6 DEF CheckCooldown
<1>7. CASE ClearExpired(c)
  BY <1>7 DEF ClearExpired
<1>. QED  BY <1>1, <1>2, <1>3, <1>4, <1>5, <1>6, <1>7

LEMMA ConnectEnds ==
    ASSUME TypeOK, NEW c \in Callers,
           \/ \E i \in Insts : ConnectOk(c, i)
           \/ ConnectFails(c) /\ ~Return(c)
           \/ Release(c) /\ ~Return(c)
           \/ Released(c) /\ ~Return(c)
           \/ ClearFirstKey(c) \/ ClearSecondKey(c) \/ Insert(c)
           \/ Discard(c) /\ ~Return(c)
           \/ MeetDeadConnection(c)
    PROVE  SamePass(c)
<1>0. pc \in [Callers -> Places] /\ call \in [Callers -> Call]
  BY DEF TypeOK
<1> USE <1>0, PlaceNumbers DEF SamePass, Goto
<1>1. CASE \E i \in Insts : ConnectOk(c, i)
  BY <1>1 DEF ConnectOk
<1>2. CASE ConnectFails(c) /\ ~Return(c)
  <2>1. pc[c] = "connect" /\ pc'[c] = "record"
    BY <1>2 DEF ConnectFails
  <2>2. /\ call'[c].again = call[c].again /\ call'[c].round = call[c].round
        /\ call'[c].relieved = call[c].relieved
    BY <1>2 DEF Call, ConnectFails
  <2>. QED  BY <2>1, <2>2
<1>3. CASE Release(c) /\ ~Return(c)
  <2>1. pc[c] = "release" /\ pc'[c] \in {"closing", "record"}
    BY <1>3 DEF Release
  <2>2. /\ call'[c].again = call[c].again /\ call'[c].round = call[c].round
        /\ call'[c].relieved = call[c].relieved
    BY <1>3 DEF Call, Release
  <2>. QED  BY <2>1, <2>2
<1>4. CASE Released(c) /\ ~Return(c)
  <2>1. pc[c] = "closing" /\ pc'[c] = "connect"
    BY <1>4 DEF Released
  <2>2. /\ call'[c].again = call[c].again /\ call'[c].round = call[c].round
        /\ call'[c].relieved = call[c].relieved
    BY <1>4 DEF Call, Released
  <2>. QED  BY <2>1, <2>2
<1>5. CASE ClearFirstKey(c) \/ ClearSecondKey(c)
  BY <1>5 DEF ClearFirstKey, ClearSecondKey
<1>6. CASE Insert(c)
  <2>1. pc[c] = "insert" /\ pc'[c] \in {"discard", "using"}
    BY <1>6 DEF Insert, Serve
  <2>2. /\ call'[c].again = call[c].again /\ call'[c].round = call[c].round
        /\ call'[c].relieved = call[c].relieved
    BY <1>6 DEF Call, Insert, Serve
  <2>. QED  BY <2>1, <2>2
<1>7. CASE Discard(c) /\ ~Return(c)
  <2>1. pc[c] = "discard" /\ pc'[c] = "using"
    BY <1>7 DEF Discard, Serve
  <2>2. /\ call'[c].again = call[c].again /\ call'[c].round = call[c].round
        /\ call'[c].relieved = call[c].relieved
    BY <1>7 DEF Call, Discard, Serve
  <2>. QED  BY <2>1, <2>2
<1>8. CASE MeetDeadConnection(c)
  BY <1>8 DEF MeetDeadConnection
<1>. QED  BY <1>1, <1>2, <1>3, <1>4, <1>5, <1>6, <1>7, <1>8

\* A retry uses up an attempt; a relief, a reconnect and the second round use up
\* a pass.
LEMMA RetryEnds ==
    ASSUME TypeOK, TypeOK', LocalsOK, NEW c \in Callers,
           \/ ConnectRetry(c) \/ TooManyConnections(c)
           \/ ExecAfterQuery(c) \/ (Invalidate(c) /\ ~Return(c))
    PROVE  Ahead(c)' < Ahead(c)
<1>0. /\ pc[c] \in Places /\ pc'[c] \in Places
      /\ call[c] \in Call /\ call'[c] \in Call
      /\ MaxAttempts \in Nat \ {0} /\ Pass \in Nat /\ Pass >= MaxAttempts + 16
  BY ConstantsAssumption DEF TypeOK, Pass
<1>1. CASE ConnectRetry(c)
  <2>1. /\ pc[c] = "connect" /\ pc'[c] = "connect"
        /\ call'[c].again = call[c].again /\ call'[c].round = call[c].round
        /\ call'[c].relieved = call[c].relieved
        /\ call'[c].attempt = call[c].attempt + 1
        /\ call[c].attempt \in 1..MaxAttempts
    BY <1>1 DEF ConnectRetry, TypeOK, Call
  <2>2. PassesLeft(call'[c]) = PassesLeft(call[c])
    BY <2>1 DEF PassesLeft, ReconnectsLeft
  <2>3. AttemptsLeft("connect", call'[c]) < AttemptsLeft("connect", call[c])
    BY <2>1, <1>0, PlaceNumbers DEF AttemptsLeft
  <2>. QED  BY <1>0, <2>1, <2>2, <2>3, AheadTypes, PlaceNumbers DEF Ahead
<1>2. CASE TooManyConnections(c)
  <2>1. /\ pc[c] = "connect" /\ pc'[c] = "release"
        /\ call'[c].again = call[c].again /\ call'[c].round = call[c].round
        /\ call'[c].relieved /\ ~call[c].relieved
    BY <1>2 DEF TooManyConnections, TypeOK, Call, Goto
  <2>2. ReconnectsLeft(call'[c]) = ReconnectsLeft(call[c])
    BY <2>1 DEF ReconnectsLeft
  <2>3. ReconnectsLeft(call[c]) \in 0..3
    BY <1>0 DEF ReconnectsLeft
  <2>4. \A n \in 0..3 : 2 * Pass * n \in Nat
    BY <1>0
  <2>5. PassesLeft(call'[c]) + Pass = PassesLeft(call[c])
    BY <1>0, <2>1, <2>2, <2>3, <2>4 DEF PassesLeft
  <2>. QED  BY <1>0, <2>1, <2>5, AheadTypes, PlaceNumbers DEF Ahead
<1>3. CASE ExecAfterQuery(c) \/ (Invalidate(c) /\ ~Return(c))
  <2>1. /\ pc[c] \in {"using", "invalidate"} /\ pc'[c] \in {"using", "lookup"}
        /\ call[c].op = "query" /\ <<call[c].cfg, route>> \in Keys
    BY <1>3 DEF ExecAfterQuery, Invalidate, Goto, TypeOK, Call, Keys
  <2>2. \/ call'[c] = Exec(call[c]) /\ pc'[c] = "using" /\ call[c].round = 1
        \/ /\ call'[c] = Again(call[c], <<call[c].cfg, route>>)
           /\ pc[c] = "invalidate"
    BY <1>3 DEF ExecAfterQuery, Invalidate, Goto, TypeOK
  <2>3. ReconnectsLeft(call'[c]) + 1 <= ReconnectsLeft(call[c])
    <3>1. CASE call'[c] = Exec(call[c]) /\ call[c].round = 1
      BY <1>0, <3>1, ExecTypes DEF ReconnectsLeft
    <3>2. CASE /\ call'[c] = Again(call[c], <<call[c].cfg, route>>)
               /\ pc[c] = "invalidate"
      <4>1. ~call[c].again
        BY <2>1, <3>2 DEF LocalsOK, RoundOK
      <4>2. call'[c].again /\ call'[c].round = call[c].round
        BY <1>0, <2>1, <3>2, AgainTypes
      <4>. QED  BY <4>1, <4>2 DEF ReconnectsLeft
    <3>. QED  BY <2>2, <3>1, <3>2
  <2>4. ReconnectsLeft(call[c]) \in 0..3 /\ ReconnectsLeft(call'[c]) \in 0..3
    BY <1>0 DEF ReconnectsLeft
  <2>5. \A m, n \in 0..3 : m + 1 <= n => 2 * Pass * m + 2 * Pass <= 2 * Pass * n
    BY <1>0
  <2>6. 2 * Pass * ReconnectsLeft(call'[c]) + 2 * Pass
          <= 2 * Pass * ReconnectsLeft(call[c])
    BY <2>3, <2>4, <2>5
  <2>7. PassesLeft(call'[c]) + Pass <= PassesLeft(call[c])
    <3> DEFINE m == 2 * Pass * ReconnectsLeft(call'[c])
               n == 2 * Pass * ReconnectsLeft(call[c])
               x == IF call'[c].relieved THEN 0 ELSE Pass
               y == IF call[c].relieved THEN 0 ELSE Pass
    <3>1. x \in 0..Pass /\ y \in 0..Pass
      BY <1>0
    <3>2. \A i \in 0..3 : 2 * Pass * i \in Nat
      BY <1>0
    <3>3. m \in Nat /\ n \in Nat
      BY <2>4, <3>2
    <3>4. m + 2 * Pass <= n
      BY <2>6
    <3>5. PassesLeft(call'[c]) = m + x /\ PassesLeft(call[c]) = n + y
      BY DEF PassesLeft
    <3> HIDE DEF m, n, x, y
    <3>. QED  BY <1>0, <3>1, <3>3, <3>4, <3>5
  <2>. QED  BY <1>0, <2>1, <2>7, AheadTypes, PlaceNumbers DEF Ahead
<1>. QED  BY <1>1, <1>2, <1>3

\* A step of a call brings it nearer to its return or closes an instance.
LEMMA CallEnds ==
    ASSUME TypeOK, TypeOK', LocalsOK, NEW c \in Callers, pc[c] # "idle",
           Progress(c)
    PROVE  \/ Ahead(c)' < Ahead(c)
           \/ /\ Ahead(c)' = Ahead(c)
              /\ doomed'[c] \subseteq doomed[c]
              /\ doomed'[c] # doomed[c]
<1>1. CASE Return(c)
  BY <1>1, ReturnEnds
<1>2. CASE \/ Lookup(c) \/ ApplySettings(c)
           \/ PingOk(c) \/ PingFails(c) \/ Touch(c) \/ EvictAfterPing(c)
           \/ CheckCooldown(c) /\ ~Return(c)
           \/ ClearExpired(c)
  BY <1>2, LookupEnds, SamePassEnds
<1>3. CASE \/ \E i \in Insts : ConnectOk(c, i)
           \/ ConnectFails(c) /\ ~Return(c)
           \/ Release(c) /\ ~Return(c)
           \/ Released(c) /\ ~Return(c)
           \/ ClearFirstKey(c) \/ ClearSecondKey(c) \/ Insert(c)
           \/ Discard(c) /\ ~Return(c)
           \/ MeetDeadConnection(c)
  BY <1>3, ConnectEnds, SamePassEnds
<1>4. CASE \/ ConnectRetry(c) \/ TooManyConnections(c)
           \/ ExecAfterQuery(c) \/ (Invalidate(c) /\ ~Return(c))
  BY <1>4, RetryEnds
<1>5. ASSUME NEW i \in Insts, CloseDoomed(c, i)
      PROVE  /\ Ahead(c)' = Ahead(c)
             /\ doomed'[c] \subseteq doomed[c]
             /\ doomed'[c] # doomed[c]
  BY <1>5 DEF CloseDoomed, Ahead, TypeOK
<1>6. CASE Unsupported(c) \/ RecordFailure(c) \/ Finish(c)
  BY <1>6, <1>1 DEF Unsupported, RecordFailure, Finish
<1>. QED  BY <1>1, <1>2, <1>3, <1>4, <1>5, <1>6 DEF Progress

\* Nobody else touches what a call has before it.
LEMMA OthersLeaveDoomed ==
    ASSUME TypeOK, NEW c \in Callers, NEW d \in Callers, d # c, Progress(d)
    PROVE  doomed'[c] = doomed[c]
<1> USE DEF TypeOK
<1>1. CASE Unsupported(d) \/ Lookup(d) \/ ApplySettings(d)
  BY <1>1 DEF Unsupported, Lookup, ApplySettings
<1>2. CASE PingOk(d) \/ PingFails(d) \/ Touch(d) \/ EvictAfterPing(d)
  BY <1>2 DEF PingOk, PingFails, Touch, EvictAfterPing
<1>3. CASE CheckCooldown(d) \/ ClearExpired(d)
  BY <1>3 DEF CheckCooldown, ClearExpired
<1>4. CASE \/ (\E i \in Insts : ConnectOk(d, i)) \/ ConnectRetry(d)
           \/ ConnectFails(d) \/ TooManyConnections(d)
  BY <1>4 DEF ConnectOk, ConnectRetry, ConnectFails, TooManyConnections
<1>5. CASE Release(d) \/ (\E i \in Insts : CloseDoomed(d, i)) \/ Released(d)
  BY <1>5 DEF Release, CloseDoomed, Released
<1>6. CASE RecordFailure(d) \/ ClearFirstKey(d) \/ ClearSecondKey(d)
  BY <1>6 DEF RecordFailure, ClearFirstKey, ClearSecondKey
<1>7. CASE Insert(d)
  BY <1>7 DEF Insert
<1>8. CASE \/ Discard(d) \/ Finish(d) \/ MeetDeadConnection(d)
           \/ ExecAfterQuery(d) \/ Invalidate(d)
  BY <1>8 DEF Discard, Finish, MeetDeadConnection, ExecAfterQuery, Invalidate
<1> QED
  BY <1>1, <1>2, <1>3, <1>4, <1>5, <1>6, <1>7, <1>8 DEF Progress

LEMMA OthersLeaveCall ==
    ASSUME TypeOK, NEW c \in Callers, pc[c] # "idle", [Next]_vars, ~Progress(c)
    PROVE  pc'[c] = pc[c] /\ call'[c] = call[c] /\ doomed'[c] = doomed[c]
<1>1. CASE UNCHANGED vars
  BY <1>1 DEF vars, callerVars
<1>2. ASSUME NEW d \in Callers, Progress(d)
      PROVE  pc'[c] = pc[c] /\ call'[c] = call[c] /\ doomed'[c] = doomed[c]
  BY <1>2, OthersRest, OthersLeaveDoomed
<1>3. ASSUME NEW d \in Callers, Arrive(d)
      PROVE  pc'[c] = pc[c] /\ call'[c] = call[c] /\ doomed'[c] = doomed[c]
  BY <1>3 DEF Arrive, Begin, BeginCancel, Goto, TypeOK
<1>4. CASE KeepAlive
  BY <1>4 DEF KeepAlive, KeepAliveCollect, KeepAlivePing, KeepAliveMark,
              KeepAliveEvict, KeepAliveClose, KeepAliveTickDone, callerVars
<1>5. CASE Stop \/ Environment
  BY <1>5 DEF Stop, BeginShutdown, StopLoop, CloseAll, Environment, EntryAges,
              CooldownExpires, ToggleProxy, callerVars
<1>. QED  BY <1>1, <1>2, <1>3, <1>4, <1>5 DEF Next

----------------------------------------------------------------------------
\* The invariant holds: every connection has at most one holder, is open while
\* held and closed once, none is lost, every keep-alive flag is settled, and a
\* forced call knows every instance it may still meet under its key.
THEOREM CacheInvariance == Spec => []Inv
<1> DEFINE I == /\ TypeOK /\ LocalsOK /\ Owned
                /\ FlagsTracked /\ AnswerInv
<1>1. Init => I
  BY TypeInit, OwnedInit, FlagsInit, AnswerInit
<1>2. I /\ [Next]_vars => I'
  BY TypeStep, LocalsStep, OwnedStep, FlagsStep, AnswerStep
<1>3. I => Inv
  BY DEF Owned, CacheInv, FlagsTracked, Inv
<1> QED
  BY <1>1, <1>2, <1>3, PTL DEF Spec

\* No interleaving leaks a connection or closes one twice.
THEOREM NoLeaks == Spec => [](NothingLeaks /\ ClosedOnce)
<1>1. Inv => NothingLeaks /\ ClosedOnce
  BY DEF Inv, CacheInv
<1> QED
  BY <1>1, CacheInvariance, PTL

\* Every instance found in the cache is open and in nobody else's hands.
THEOREM CacheIsExclusive == Spec => [](CachedIsOpen /\ CacheOwnsAlone)
<1>1. Inv => CachedIsOpen /\ CacheOwnsAlone
  BY DEF Inv, CacheInv
<1> QED
  BY <1>1, CacheInvariance, PTL

\* What getDatabase returns to a forced call has answered a ping of this call or
\* was connected while it ran, whatever the other calls do to the entry between
\* its lookup and its insert.
THEOREM ForcedIsProven == Spec => []ForcedResultIsProven
<1>1. Inv => ForcedResultIsProven
  BY DEF Inv, AnswerInv, AnswerOK, Answered, ForcedResultIsProven
<1> QED
  BY <1>1, CacheInvariance, PTL

\* Goroutines, keep-alive loop and Shutdown together implement InstancePool: a
\* connection is opened once, is cached for at most one stretch of time, never
\* comes back and is closed once.
THEOREM CacheImplementsPool == Spec => ImplementsPool
<1>1. Init => Pool!PoolInit
  BY PoolStart
<1>2. Inv /\ [Next]_vars => [Pool!PoolNext]_<<wherePool, slotPool>>
  BY PoolStep DEF Inv, CacheInv, Owned
<1> QED
  BY <1>1, <1>2, CacheInvariance, PTL DEF Spec, ImplementsPool, Pool!PoolSpec

\* A connection that was taken out of the cache, by an eviction, an
\* invalidation, a release or Shutdown, is never found in it again, and what is
\* closed is never opened or cached: no late insert and no late keep-alive
\* brings one back.
THEOREM NoneComesBack == Spec => Pool!NeverBack
<1>1. Inv => TypeOK /\ CachedIsOpen /\ ClosedOnce
  BY DEF Inv, CacheInv
<1> QED
  BY <1>1, PoolLeadsOn, CacheInvariance, CacheImplementsPool, PTL
  DEF ImplementsPool, Pool!PoolSpec, Pool!NeverBack

\* No call retries for ever: startup retries, the relief and the two reconnects
\* of a query that is executed after it failed, in whatever order they meet,
\* leave less and less before its return, and no step of another goroutine adds
\* to it.
THEOREM CallsEndInTime == Spec => CallsWindDown
<1>1. Inv => TypeOK /\ LocalsOK
  BY DEF Inv, CacheInv
<1>2. ASSUME TypeOK, TypeOK', LocalsOK, [Next]_vars
      PROVE  [\A c \in Callers : pc[c] # "idle" =>
                \/ Ahead(c)' < Ahead(c)
                \/ /\ Ahead(c)' = Ahead(c)
                   /\ doomed'[c] \subseteq doomed[c]
                   /\ Progress(c) => doomed'[c] # doomed[c]]_vars
  <2>1. ASSUME NEW c \in Callers, pc[c] # "idle"
        PROVE  \/ Ahead(c)' < Ahead(c)
               \/ /\ Ahead(c)' = Ahead(c)
                  /\ doomed'[c] \subseteq doomed[c]
                  /\ Progress(c) => doomed'[c] # doomed[c]
    <3>1. CASE Progress(c)
      BY <1>2, <2>1, <3>1, CallEnds
    <3>2. CASE ~Progress(c)
      BY <1>2, <2>1, <3>2, OthersLeaveCall DEF Ahead
    <3>. QED  BY <3>1, <3>2
  <2>. QED  BY <2>1
<1>. QED  BY <1>1, <1>2, CacheInvariance, PTL DEF Spec, CallsWindDown

=============================================================================
