-------------------------- MODULE DriverAgentProofs --------------------------
(***************************************************************************)
(* The invariants of DriverAgent, for any callers and bounds: the pairing  *)
(* of requests and answers, and the sessions on either side of the pipes.  *)
(***************************************************************************)
EXTENDS DriverAgent, SequenceTheorems, TLAPS

LEMMA NothingLeft ==
    ASSUME NEW S, NEW s \in Seq(S), Len(s) = 0
    PROVE  s = <<>>
  BY EmptySeq

\* A reader takes the head and leaves the tail.
LEMMA HeadTail ==
    ASSUME NEW S, NEW s \in Seq(S), s # <<>>
    PROVE  /\ Head(s) \in S /\ Head(s) = s[1] /\ 1 \in DOMAIN s
           /\ Tail(s) \in Seq(S)
           /\ Len(s) \in Nat \ {0} /\ Len(Tail(s)) = Len(s) - 1
           /\ \A k \in DOMAIN Tail(s) : k + 1 \in DOMAIN s /\ Tail(s)[k] = s[k + 1]
           /\ \A k \in DOMAIN s : k \in Nat /\ k <= Len(s)
           /\ Len(s) = 1 => Tail(s) = <<>>
<1>1. Len(s) \in Nat \ {0} /\ DOMAIN s = 1..Len(s)
  OBVIOUS
<1>2. Head(s) = s[1] /\ Head(s) \in S /\ 1 \in DOMAIN s
  BY <1>1
<1>3. Tail(s) \in Seq(S) /\ Len(Tail(s)) = Len(s) - 1
  OBVIOUS
<1>4. \A k \in 1..(Len(s) - 1) : Tail(s)[k] = s[k + 1]
  BY <1>1
<1>5. DOMAIN Tail(s) = 1..(Len(s) - 1)
  BY <1>3
<1>6. \A k \in DOMAIN Tail(s) : k + 1 \in DOMAIN s /\ Tail(s)[k] = s[k + 1]
  BY <1>1, <1>4, <1>5
<1>7. Len(s) = 1 => Len(Tail(s)) = 0
  BY <1>1, <1>3
<1>8. \A k \in DOMAIN s : k \in Nat /\ k <= Len(s)
  BY <1>1
<1>. QED  BY <1>1, <1>2, <1>3, <1>6, <1>7, <1>8, NothingLeft

\* A writer adds one line at the end.
LEMMA AppendLast ==
    ASSUME NEW S, NEW s \in Seq(S), NEW x \in S
    PROVE  /\ Append(s, x) \in Seq(S) /\ Append(s, x) # <<>>
           /\ Len(Append(s, x)) = Len(s) + 1 /\ Len(s) \in Nat
           /\ \A k \in DOMAIN Append(s, x) :
                 \/ k \in DOMAIN s /\ Append(s, x)[k] = s[k]
                 \/ k = Len(s) + 1 /\ Append(s, x)[k] = x
  OBVIOUS

LEMMA Constants ==
    /\ 0 \in 0..MaxCalls /\ 1 \in 0..MaxCalls /\ 0 \in 0..MaxChunks
    /\ IDs \subseteq SessionIDs /\ NoRequest \in Requests
    /\ \A k \in 0..MaxCalls : k < MaxCalls => k + 1 \in IDs
    /\ \A k \in 0..MaxChunks : k < MaxChunks => k + 1 \in 0..MaxChunks
  BY ConstantsAssumption DEF IDs, SessionIDs, NoRequest, Requests, Methods

\* Requests stay requests.
LEMMA AskType ==
    ASSUME TypeOK, NEW c \in Callers, NEW m \in Methods, NEW s \in SessionIDs,
           Ask(c, m, s)
    PROVE  /\ pc' \in [Callers -> {"idle", "lock", "write", "read", "rows", "kill"}]
           /\ call' \in [Callers -> Requests]
<1>1. [method |-> m, id |-> 0, session |-> s] \in Requests
  BY Constants DEF Requests, SessionIDs
<1>. QED  BY <1>1 DEF TypeOK, Ask

LEMMA FinishType ==
    ASSUME TypeOK, NEW c \in Callers, Finish(c) \/ Return(c)
    PROVE  pc' \in [Callers -> {"idle", "lock", "write", "read", "rows", "kill"}]
  BY DEF TypeOK, Finish, Return

LEMMA NumberType ==
    ASSUME TypeOK, NEW c \in Callers, Number(c)
    PROVE  /\ nextID' \in 0..MaxCalls /\ call' \in [Callers -> Requests]
           /\ call'[c] = [call[c] EXCEPT !.id = nextID + 1]
           /\ call'[c] \in Requests
           /\ \A d \in Callers \ {c} : call'[d] = call[d]
<1>1. nextID + 1 \in 0..MaxCalls
  BY ConstantsAssumption DEF Number, TypeOK
<1>2. call[c] \in Requests
  BY DEF TypeOK
<1>3. [call[c] EXCEPT !.id = nextID + 1] \in Requests
  BY <1>1, <1>2 DEF Requests
<1>. QED  BY <1>1, <1>3 DEF Number, TypeOK

LEMMA TakeType ==
    ASSUME TypeOK, NEW c \in Callers, Take(c)
    PROVE  /\ Head(responses) \in Responses /\ responses' \in Seq(Responses)
           /\ strayed' \in BOOLEAN
  BY HeadTail DEF TypeOK, Take

LEMMA GoneType ==
    ASSUME Gone
    PROVE  /\ agent' = "gone" /\ work' \in Requests /\ sent' \in 0..MaxChunks
           /\ inst' \in BOOLEAN /\ sessions' \subseteq SessionIDs
           /\ requests' \in Seq(Requests)
<1>1. <<>> \in Seq(Requests) /\ {} \subseteq SessionIDs
  OBVIOUS
<1>. QED  BY <1>1, Constants DEF Gone

LEMMA WriteType ==
    ASSUME TypeOK, NEW k \in Kinds, NEW s \in SessionIDs, Write(k, s)
    PROVE  responses' \in Seq(Responses)
<1>1. [id |-> work.id, kind |-> k, session |-> s] \in Responses
  BY DEF TypeOK, Responses, Requests, SessionIDs
<1>. QED  BY <1>1, AppendLast DEF TypeOK, Write

LEMMA ReplyType ==
    ASSUME TypeOK, NEW k \in Kinds, NEW s \in SessionIDs, Reply(k, s)
    PROVE  /\ responses' \in Seq(Responses) /\ agent' = "idle"
           /\ work' \in Requests /\ sent' \in 0..MaxChunks
  BY WriteType, Constants DEF Reply

USE DEF agentVars, pipeVars, clientVars, callVars, sessionVars, historyVars

LEMMA BeginTypes ==
    ASSUME TypeOK, NEW c \in Callers
    PROVE  /\ \A m \in Methods : Begin(c, m) => TypeOK'
           /\ \A m \in Methods, i \in IDs : BeginInSession(c, m, i) => TypeOK'
<1>1. ASSUME NEW m \in Methods, Begin(c, m)
      PROVE  TypeOK'
  <2>1. waiter' \in [Callers -> {"none", "waiting", "terminated"}]
    BY <1>1 DEF Begin, TypeOK
  <2>2. 0 \in SessionIDs /\ Ask(c, m, 0)
    BY <1>1, Constants DEF Begin, SessionIDs
  <2>3. /\ pc' \in [Callers -> {"idle", "lock", "write", "read", "rows", "kill"}]
        /\ call' \in [Callers -> Requests]
    BY <2>2, AskType
  <2>. QED  BY <1>1, <2>1, <2>3 DEF Begin, TypeOK
<1>2. ASSUME NEW m \in Methods, NEW i \in IDs, BeginInSession(c, m, i)
      PROVE  TypeOK'
  <2>1. handles[i] \in SessionIDs /\ Ask(c, m, handles[i])
    BY <1>2 DEF BeginInSession, TypeOK
  <2>2. /\ pc' \in [Callers -> {"idle", "lock", "write", "read", "rows", "kill"}]
        /\ call' \in [Callers -> Requests]
    BY <2>1, AskType
  <2>3. closed' \subseteq IDs
    BY <1>2 DEF BeginInSession, TypeOK
  <2>. QED  BY <1>2, <2>2, <2>3 DEF BeginInSession, TypeOK
<1>. QED  BY <1>1, <1>2

LEMMA CallTypes ==
    ASSUME TypeOK, NEW c \in Callers
    PROVE  /\ SendStep(c) \/ WriteStep(c) => TypeOK'
           /\ Receive(c) \/ Expire(c) \/ GiveUp(c) \/ Close(c) => TypeOK'
<1>1. ASSUME Send(c) PROVE TypeOK'
  <2>1. Number(c)
    BY <1>1 DEF Send
  <2>2. requests' \in Seq(Requests)
    BY <1>1, <2>1, NumberType, AppendLast DEF Send, TypeOK
  <2>3. pc' \in [Callers -> {"idle", "lock", "write", "read", "rows", "kill"}]
    BY <1>1 DEF Send, TypeOK
  <2>. QED  BY <1>1, <2>1, <2>2, <2>3, NumberType DEF Send, TypeOK
<1>2. ASSUME SendFails(c) PROVE TypeOK'
  BY <1>2, NumberType, FinishType DEF SendFails, TypeOK
<1>3. ASSUME Expire(c) PROVE TypeOK'
  BY <1>3, GoneType DEF Expire, TypeOK
<1>4. ASSUME GiveUp(c) PROVE TypeOK'
  BY <1>4 DEF GiveUp, TypeOK
<1>5. ASSUME Close(c) PROVE TypeOK'
  BY <1>5, GoneType, FinishType DEF Close, TypeOK
<1>6. ASSUME Receive(c) PROVE TypeOK'
  BY <1>6 DEF Receive, TypeOK
<1>7. ASSUME SendLong(c) PROVE TypeOK'
  <2>1. Number(c)
    BY <1>7 DEF SendLong
  <2>2. pc' \in [Callers -> {"idle", "lock", "write", "read", "rows", "kill"}]
    BY <1>7 DEF SendLong, TypeOK
  <2>. QED  BY <1>7, <2>1, <2>2, NumberType DEF SendLong, TypeOK
<1>8. ASSUME Written(c) PROVE TypeOK'
  <2>1. call[c] \in Requests /\ requests' = <<call[c]>>
    BY <1>8 DEF Written, TypeOK
  <2>2. requests' \in Seq(Requests)
    BY <2>1
  <2>. QED  BY <1>8, <2>2 DEF Written, TypeOK
<1>9. ASSUME WriteFails(c) PROVE TypeOK'
  BY <1>9, FinishType DEF WriteFails, TypeOK
<1>. QED  BY <1>1, <1>2, <1>3, <1>4, <1>5, <1>6, <1>7, <1>8, <1>9
          DEF SendStep, WriteStep

LEMMA ReadTypes ==
    ASSUME TypeOK, NEW c \in Callers, ReadStep(c)
    PROVE  TypeOK'
<1>1. ASSUME ReadFails(c) PROVE TypeOK'
  BY <1>1, FinishType DEF ReadFails, TypeOK
<1>2. ASSUME ReadAnswer(c) PROVE TypeOK'
  <2>1. Head(responses).session \in SessionIDs
    BY <1>2, TakeType DEF ReadAnswer, Responses
  <2>2. handles' \in [IDs -> SessionIDs]
    BY <1>2, <2>1 DEF ReadAnswer, KeepSession, TypeOK
  <2>3. ended' \subseteq IDs
    BY <1>2 DEF ReadAnswer, TypeOK, Objects
  <2>. QED  BY <1>2, <2>2, <2>3, TakeType, FinishType DEF ReadAnswer, Take, TypeOK
<1>3. ASSUME ReadChunk(c) PROVE TypeOK'
  BY <1>3, TakeType DEF ReadChunk, Take, TypeOK
<1>4. ASSUME ReadEnd(c) PROVE TypeOK'
  BY <1>4, TakeType, FinishType DEF ReadEnd, Take, TypeOK
<1>5. ASSUME LeaveStream(c) PROVE TypeOK'
  BY <1>5, TakeType, FinishType DEF LeaveStream, Take, TypeOK
<1>6. ASSUME FallBack(c) PROVE TypeOK'
  <2>1. call[c].session \in SessionIDs /\ 0 \in SessionIDs
    BY Constants DEF TypeOK, Requests, SessionIDs
  <2>2. /\ pc' \in [Callers -> {"idle", "lock", "write", "read", "rows", "kill"}]
        /\ call' \in [Callers -> Requests]
    BY <1>6, <2>1, AskType DEF FallBack, Methods
  <2>3. waiter' \in [Callers -> {"none", "waiting", "terminated"}]
    BY <1>6 DEF FallBack, TypeOK
  <2>. QED  BY <1>6, <2>2, <2>3, TakeType DEF FallBack, Take, TypeOK
<1>. QED  BY <1>1, <1>2, <1>3, <1>4, <1>5, <1>6 DEF ReadStep

LEMMA AgentTypes ==
    ASSUME TypeOK, AgentStep \/ Hang \/ Exit \/ Connect
    PROVE  TypeOK'
<1>1. CASE TakeRequest
  BY <1>1, HeadTail, Constants DEF TakeRequest, TypeOK
<1>2. CASE ReplyToStatement
  <2>1. PICK k \in Kinds : Reply(k, 0)
    BY <1>2 DEF ReplyToStatement, Kinds
  <2>. QED  BY <1>2, <2>1, ReplyType, Constants DEF ReplyToStatement, Reply, Write,
              TypeOK, SessionIDs
<1>3. CASE ReplyToOpen
  <2>1. PICK k \in Kinds, s \in SessionIDs : Reply(k, s)
    BY <1>3, Constants DEF ReplyToOpen, Kinds, SessionIDs, TypeOK, Requests
  <2>2. sessions' \subseteq SessionIDs
    BY <1>3 DEF ReplyToOpen, TypeOK, Requests, SessionIDs
  <2>. QED  BY <1>3, <2>1, <2>2, ReplyType DEF ReplyToOpen, Reply, Write, TypeOK
<1>4. CASE ReplyToEnd
  <2>1. PICK k \in Kinds : Reply(k, 0)
    BY <1>4 DEF ReplyToEnd, Kinds
  <2>. QED  BY <1>4, <2>1, ReplyType, Constants DEF ReplyToEnd, Reply, Write,
              TypeOK, SessionIDs
<1>5. CASE ReplyToClose
  <2>1. PICK k \in Kinds : Reply(k, 0)
    BY <1>5 DEF ReplyToClose, Kinds
  <2>. QED  BY <1>5, <2>1, ReplyType, Constants DEF ReplyToClose, Reply, Write,
              TypeOK, SessionIDs
<1>6. CASE StreamChunk
  <2>1. PICK k \in Kinds : Write(k, 0)
    BY <1>6 DEF StreamChunk, Kinds
  <2>2. responses' \in Seq(Responses) /\ sent' \in 0..MaxChunks
    BY <1>6, <2>1, WriteType, Constants DEF StreamChunk, TypeOK, SessionIDs
  <2>. QED  BY <1>6, <2>1, <2>2 DEF StreamChunk, Write, TypeOK
<1>7. CASE StreamEnd
  <2>1. PICK k \in Kinds : Reply(k, 0)
    BY <1>7 DEF StreamEnd, Kinds
  <2>. QED  BY <1>7, <2>1, ReplyType, Constants DEF StreamEnd, Reply, Write,
              TypeOK, SessionIDs
<1>8. CASE Hang
  BY <1>8 DEF Hang, TypeOK
<1>9. CASE Exit
  BY <1>9, GoneType DEF Exit, TypeOK
<1>10. CASE Connect
  BY <1>10, Constants DEF Connect, TypeOK
<1>. QED  BY <1>1, <1>2, <1>3, <1>4, <1>5, <1>6, <1>7, <1>8, <1>9, <1>10
          DEF AgentStep

\* The first state.
LEMMA InitHolds == Init => TypeOK /\ AgentInv
<1>. SUFFICES ASSUME Init PROVE TypeOK /\ AgentInv
  OBVIOUS
<1>1. TypeOK
  <2>1. /\ <<>> \in Seq(Requests) /\ <<>> \in Seq(Responses)
        /\ 0 \in SessionIDs /\ 0 \in 0..MaxCalls /\ 0 \in 0..MaxChunks
        /\ NoRequest \in Requests
    BY Constants DEF SessionIDs
  <2>2. /\ handles \in [IDs -> SessionIDs]
        /\ call \in [Callers -> Requests]
    BY <2>1 DEF Init
  <2>. QED  BY <2>1, <2>2 DEF Init, TypeOK
<1>2. MutexIsHeld /\ WorkIsARequest /\ NothingBefore /\ AnswersAreOwn
  BY ConstantsAssumption
  DEF Init, MutexIsHeld, WorkIsARequest, NothingBefore, AnswersAreOwn
<1>3. Paired
  BY ConstantsAssumption
  DEF Init, Paired, Unsent, QuietBetweenCalls, RequestOfHolder, AnswersOfHolder,
      Running
<1>. QED  BY <1>1, <1>2, <1>3 DEF AgentInv

----------------------------------------------------------------------------
(* The mutex.                                                              *)

\* Only the writer or the reader holds it.
LEMMA Reader ==
    ASSUME AgentInv, NEW c \in Callers, pc[c] \in {"write", "read", "rows"}
    PROVE  /\ mu = c /\ mu # NoCaller
           /\ \A d \in Callers : pc[d] \in {"write", "read", "rows"} => d = c
           /\ Unsent => pc[c] = "write"
  BY ConstantsAssumption DEF AgentInv, MutexIsHeld, Unsent

LEMMA Released ==
    ASSUME TypeOK, AgentInv, NEW c \in Callers, NEW place,
           pc[c] \in {"write", "read", "rows"} \/ mu = NoCaller,
           place \notin {"write", "read", "rows"},
           pc' = [pc EXCEPT ![c] = place], mu' = NoCaller
    PROVE  MutexIsHeld'
<1>1. \A d \in Callers : d # c => pc[d] \notin {"write", "read", "rows"}
  BY Reader, ConstantsAssumption DEF AgentInv, MutexIsHeld
<1>2. \A d \in Callers : pc'[d] = IF d = c THEN place ELSE pc[d]
  BY DEF TypeOK
<1>. QED  BY <1>1, <1>2, ConstantsAssumption DEF MutexIsHeld

LEMMA Returned ==
    ASSUME TypeOK, AgentInv, NEW c \in Callers, Return(c),
           pc[c] \in {"write", "read", "rows"} \/ mu = NoCaller, mu' = NoCaller
    PROVE  MutexIsHeld'
<1>. DEFINE place == IF call[c].method = "close" THEN "kill" ELSE "idle"
<1>1. place \notin {"write", "read", "rows"}
  OBVIOUS
<1>2. pc' = [pc EXCEPT ![c] = place]
  BY DEF Return
<1>. HIDE DEF place
<1>. QED  BY <1>1, <1>2, Released

\* A caller elsewhere moves without it.
LEMMA Elsewhere ==
    ASSUME TypeOK, AgentInv, NEW c \in Callers, NEW place,
           pc[c] \notin {"write", "read", "rows"}, place \notin {"write", "read", "rows"},
           pc' = [pc EXCEPT ![c] = place], mu' = mu
    PROVE  MutexIsHeld'
  BY DEF TypeOK, AgentInv, MutexIsHeld

\* A reader that reads on.
LEMMA ReadsOn ==
    ASSUME TypeOK, AgentInv, NEW c \in Callers,
           pc[c] \in {"read", "rows"}, pc' = [pc EXCEPT ![c] = "rows"], mu' = mu
    PROVE  MutexIsHeld'
  BY DEF TypeOK, AgentInv, MutexIsHeld

----------------------------------------------------------------------------
(* Reading.                                                                *)

\* The line that is read is the reader's, and a last line leaves nothing.
LEMMA NextLine ==
    ASSUME TypeOK, AgentInv, NEW c \in Callers, Take(c), ~abandoned
    PROVE  /\ Head(responses).id = call[c].id
           /\ Head(responses).kind \in Chunks => call[c].method = "stream"
           /\ Head(responses).kind \notin Chunks =>
                 responses' = <<>> /\ requests = <<>> /\ ~AtWork
           /\ requests = <<>>
<1>1. mu = c /\ Paired
  BY Reader DEF Take, AgentInv
<1>2. /\ Head(responses) = responses[1] /\ 1 \in DOMAIN responses
      /\ Len(responses) = 1 => Tail(responses) = <<>>
  BY HeadTail DEF Take, TypeOK
<1>3. /\ responses[1].id = call[c].id
      /\ responses[1].kind \in Chunks => call[c].method = "stream"
      /\ responses[1].kind \notin Chunks =>
            1 = Len(responses) /\ requests = <<>> /\ ~AtWork
  BY <1>1, <1>2 DEF Paired, AnswersOfHolder
<1>4. requests = <<>>
  BY <1>1 DEF Paired, RequestOfHolder, Take
<1>. QED  BY <1>2, <1>3, <1>4 DEF Take

\* No line read under the invariant is a stray one.
LEMMA NoStray ==
    ASSUME TypeOK, AgentInv, NEW c \in Callers, Take(c), abandoned => abandoned'
    PROVE  AnswersAreOwn'
  BY NextLine DEF Take, AgentInv, AnswersAreOwn, TypeOK

\* After a last line nothing is on its way.
LEMMA LastLine ==
    ASSUME TypeOK, AgentInv, NEW c \in Callers, Take(c),
           Head(responses).kind \in Chunks => call[c].method # "stream",
           mu' = NoCaller, abandoned' = abandoned, UNCHANGED agentVars
    PROVE  abandoned' \/ Paired'
<1>. SUFFICES ASSUME ~abandoned PROVE Paired'
  OBVIOUS
<1>1. responses' = <<>> /\ requests' = <<>> /\ ~AtWork'
  BY NextLine DEF Take, AtWork
<1>. QED
  BY <1>1, ConstantsAssumption
  DEF Paired, QuietBetweenCalls, RequestOfHolder, AnswersOfHolder

LEMMA AgentUntouched ==
    ASSUME AgentInv, agent' = agent, work' = work, agent # "none"
    PROVE  WorkIsARequest' /\ NothingBefore'
  BY DEF AgentInv, WorkIsARequest, NothingBefore, AtWork

LEMMA ReaderHasAgent ==
    ASSUME AgentInv, NEW c \in Callers, pc[c] \in {"read", "rows"}
    PROVE  agent # "none"
  BY Reader DEF AgentInv, NothingBefore

LEMMA ReadStepInv ==
    ASSUME TypeOK, AgentInv, NEW c \in Callers, ReadStep(c)
    PROVE  AgentInv'
<1>1. pc[c] \in {"read", "rows"} /\ agent' = agent /\ work' = work
  BY DEF ReadStep, ReadFails, ReadAnswer, ReadChunk, ReadEnd, LeaveStream,
         FallBack, Take
<1>2. WorkIsARequest' /\ NothingBefore'
  BY <1>1, AgentUntouched, ReaderHasAgent
<1>3. CASE ReadFails(c)
  <2>1. MutexIsHeld'
    BY <1>1, <1>3, Returned DEF ReadFails
  <2>2. AnswersAreOwn'
    BY <1>3 DEF ReadFails, AgentInv, AnswersAreOwn
  <2>3. Paired'
    BY <1>3, ConstantsAssumption
    DEF ReadFails, Paired, QuietBetweenCalls, RequestOfHolder, AnswersOfHolder,
        Running
  <2>. QED  BY <1>2, <2>1, <2>2, <2>3 DEF AgentInv
<1>4. CASE ReadAnswer(c)
  <2>1. MutexIsHeld'
    BY <1>1, <1>4, Returned DEF ReadAnswer
  <2>2. AnswersAreOwn'
    BY <1>4, NoStray DEF ReadAnswer
  <2>3. abandoned' \/ Paired'
    BY <1>4, LastLine DEF ReadAnswer, Take
  <2>. QED  BY <1>2, <2>1, <2>2, <2>3 DEF AgentInv
<1>5. CASE ReadChunk(c)
  <2>1. MutexIsHeld'
    BY <1>1, <1>5, ReadsOn DEF ReadChunk
  <2>2. AnswersAreOwn'
    BY <1>5, NoStray DEF ReadChunk
  <2>3. ASSUME ~abandoned PROVE Paired'
    <3>1. requests = <<>> /\ requests' = <<>> /\ Paired
      BY <1>5, <2>3, NextLine DEF ReadChunk, Take, AgentInv
    <3>2. mu = c /\ mu' = c /\ c # NoCaller
      BY <1>1, <1>5, Reader DEF ReadChunk
    <3>3. call' = call /\ responses' = Tail(responses)
      BY <1>5 DEF ReadChunk, Take
    <3>4. /\ Len(responses) \in Nat /\ Len(responses') = Len(responses) - 1
          /\ \A k \in DOMAIN responses' :
                k + 1 \in DOMAIN responses /\ responses'[k] = responses[k + 1]
      BY <1>5, <3>3, HeadTail DEF ReadChunk, Take, TypeOK
    <3>5. AtWork' <=> AtWork
      BY <1>1 DEF AtWork
    <3>6. QuietBetweenCalls'
      <4>1. \A d \in Callers : pc'[d] = IF d = c THEN "rows" ELSE pc[d]
        BY <1>5 DEF ReadChunk, TypeOK
      <4>2. ~Unsent'
        BY <1>1, <3>2, <4>1, Reader, ConstantsAssumption DEF Unsent
      <4>. QED  BY <4>2 DEF QuietBetweenCalls
    <3>7. RequestOfHolder'
      BY <1>1, <3>1, <3>2, <3>3, <3>5 DEF Paired, RequestOfHolder
    <3>8. \A k \in DOMAIN responses' : k \in Nat
      BY <1>5, <3>3, HeadTail DEF ReadChunk, Take, TypeOK
    <3>9. \A k \in DOMAIN responses' : k + 1 = Len(responses) => k = Len(responses')
      BY <3>4, <3>8
    <3>10. AnswersOfHolder'
      BY <3>1, <3>2, <3>3, <3>4, <3>5, <3>9 DEF Paired, AnswersOfHolder
    <3>. QED  BY <3>6, <3>7, <3>10 DEF Paired
  <2>4. abandoned' = abandoned
    BY <1>5 DEF ReadChunk
  <2>. QED  BY <1>2, <2>1, <2>2, <2>3, <2>4 DEF AgentInv
<1>6. CASE ReadEnd(c)
  <2>1. MutexIsHeld'
    BY <1>1, <1>6, Released DEF ReadEnd, Finish
  <2>2. AnswersAreOwn'
    BY <1>6, NoStray DEF ReadEnd
  <2>3. abandoned' \/ Paired'
    BY <1>6, LastLine DEF ReadEnd, Take, Chunks
  <2>. QED  BY <1>2, <2>1, <2>2, <2>3 DEF AgentInv
<1>7. CASE LeaveStream(c)
  <2>1. MutexIsHeld'
    BY <1>1, <1>7, Released DEF LeaveStream, Finish
  <2>. QED  BY <1>2, <1>7, <2>1 DEF AgentInv, LeaveStream, AnswersAreOwn
<1>8. CASE FallBack(c)
  <2>1. MutexIsHeld'
    BY <1>1, <1>8, Released DEF FallBack, Ask
  <2>2. AnswersAreOwn'
    BY <1>8, NoStray DEF FallBack
  <2>3. abandoned' \/ Paired'
    BY <1>8, LastLine DEF FallBack, Take, Chunks
  <2>. QED  BY <1>2, <2>1, <2>2, <2>3 DEF AgentInv
<1>. QED  BY <1>3, <1>4, <1>5, <1>6, <1>7, <1>8 DEF ReadStep

----------------------------------------------------------------------------
(* Calls, and the end of the process.                                      *)

\* Between calls.
LEMMA Quiet ==
    ASSUME AgentInv, Unsent, Running, ~abandoned
    PROVE  requests = <<>> /\ ~AtWork /\ responses = <<>>
  BY DEF AgentInv, Paired, QuietBetweenCalls

\* What does not touch the pipes, the agent or the holder of the mutex.
LEMMA Bystander ==
    ASSUME AgentInv, UNCHANGED <<agentVars, pipeVars, historyVars>>, mu' = mu,
           MutexIsHeld',
           \A d \in Callers : pc'[d] = "write" => pc[d] = "write",
           \A d \in Callers : mu = d => call'[d] = call[d]
    PROVE  AgentInv'
<1>1. (AtWork' <=> AtWork) /\ (Running' <=> Running)
  BY DEF AtWork, Running
<1>2. AnswersAreOwn' /\ WorkIsARequest' /\ NothingBefore'
  BY <1>1 DEF AgentInv, AnswersAreOwn, WorkIsARequest, NothingBefore
<1>3. ASSUME Paired PROVE Paired'
  <2>1. QuietBetweenCalls'
    BY <1>1, <1>3 DEF Paired, Unsent, QuietBetweenCalls
  <2>2. RequestOfHolder'
    BY <1>1, <1>3 DEF Paired, RequestOfHolder
  <2>3. AnswersOfHolder'
    BY <1>1, <1>3 DEF Paired, AnswersOfHolder
  <2>. QED  BY <2>1, <2>2, <2>3 DEF Paired
<1>. QED  BY <1>2, <1>3 DEF AgentInv

\* When the process is gone only what it wrote is left.
LEMMA GoneInv ==
    ASSUME AgentInv, Gone, UNCHANGED <<responses, historyVars, call>>,
           mu' = mu, MutexIsHeld'
    PROVE  AgentInv'
<1>1. ~AtWork' /\ ~Running' /\ requests' = <<>> /\ agent' # "none"
  BY DEF Gone, AtWork, Running
<1>2. AnswersAreOwn' /\ WorkIsARequest' /\ NothingBefore'
  BY <1>1 DEF AgentInv, AnswersAreOwn, WorkIsARequest, NothingBefore, Gone
<1>3. ASSUME Paired PROVE Paired'
  <2>1. QuietBetweenCalls' /\ RequestOfHolder'
    BY <1>1 DEF QuietBetweenCalls, RequestOfHolder
  <2>2. AnswersOfHolder'
    BY <1>1, <1>3 DEF Paired, AnswersOfHolder
  <2>. QED  BY <2>1, <2>2 DEF Paired
<1>. QED  BY <1>2, <1>3 DEF AgentInv

LEMMA SendInv ==
    ASSUME TypeOK, AgentInv, NEW c \in Callers, Send(c)
    PROVE  AgentInv'
<1>1. /\ mu = NoCaller /\ mu' = c /\ c # NoCaller /\ Running
      /\ agent' = agent /\ work' = work /\ agent # "none"
      /\ requests' = Append(requests, call'[c]) /\ responses' = responses
      /\ abandoned' = abandoned /\ strayed' = strayed
  BY ConstantsAssumption DEF Send, Number, Running
<1>2. MutexIsHeld' /\ ~Unsent'
  <2>1. pc' = [pc EXCEPT ![c] = "read"]
    BY DEF Send
  <2>2. \A d \in Callers : pc[d] \notin {"write", "read", "rows"}
    BY <1>1, ConstantsAssumption DEF AgentInv, MutexIsHeld
  <2>3. \A d \in Callers : pc'[d] = IF d = c THEN "read" ELSE pc[d]
    BY <2>1 DEF TypeOK
  <2>4. MutexIsHeld'
    BY <1>1, <2>2, <2>3 DEF MutexIsHeld
  <2>5. ~Unsent'
    BY <1>1, <2>2, <2>3 DEF Unsent
  <2>. QED  BY <2>4, <2>5
<1>3. WorkIsARequest' /\ NothingBefore' /\ AnswersAreOwn'
  BY <1>1, AgentUntouched DEF AgentInv, AnswersAreOwn
<1>4. ASSUME ~abandoned PROVE Paired'
  <2>1. /\ requests' = <<call'[c]>> /\ responses' = <<>>
        /\ ~AtWork'
    BY <1>1, <1>4, Quiet DEF AtWork, Unsent
  <2>2. QuietBetweenCalls' /\ RequestOfHolder' /\ AnswersOfHolder'
    BY <1>1, <1>2, <2>1 DEF QuietBetweenCalls, RequestOfHolder, AnswersOfHolder
  <2>. QED  BY <2>2 DEF Paired
<1>. QED  BY <1>1, <1>2, <1>3, <1>4 DEF AgentInv

\* A write that waits is still between two calls.
LEMMA SendLongInv ==
    ASSUME TypeOK, AgentInv, NEW c \in Callers, SendLong(c)
    PROVE  AgentInv'
<1>1. /\ mu = NoCaller /\ mu' = c /\ c # NoCaller /\ agent # "none"
      /\ UNCHANGED <<agentVars, pipeVars, historyVars>>
  BY ConstantsAssumption DEF SendLong, Number, Running
<1>2. (AtWork' <=> AtWork) /\ (Running' <=> Running) /\ Running
  BY <1>1 DEF SendLong, AtWork, Running
<1>3. MutexIsHeld'
  <2>1. \A d \in Callers : pc[d] \notin {"write", "read", "rows"}
    BY <1>1, ConstantsAssumption DEF AgentInv, MutexIsHeld
  <2>2. \A d \in Callers : pc'[d] = IF d = c THEN "write" ELSE pc[d]
    BY DEF SendLong, TypeOK
  <2>. QED  BY <1>1, <2>1, <2>2 DEF MutexIsHeld
<1>4. WorkIsARequest' /\ NothingBefore' /\ AnswersAreOwn'
  BY <1>1, AgentUntouched DEF AgentInv, AnswersAreOwn
<1>5. ASSUME ~abandoned PROVE Paired'
  <2>1. requests' = <<>> /\ responses' = <<>> /\ ~AtWork'
    BY <1>1, <1>2, <1>5, Quiet DEF Unsent
  <2>. QED
    BY <2>1 DEF Paired, QuietBetweenCalls, RequestOfHolder, AnswersOfHolder
<1>. QED  BY <1>1, <1>3, <1>4, <1>5 DEF AgentInv

\* The line is on its way, or the pipe breaks under the writer.
LEMMA WriteInv ==
    ASSUME TypeOK, AgentInv, NEW c \in Callers, WriteStep(c)
    PROVE  AgentInv'
<1>1. /\ pc[c] = "write" /\ mu = c /\ c # NoCaller /\ Unsent
      /\ UNCHANGED <<agentVars, responses, historyVars, call>>
      /\ agent # "none"
  BY ConstantsAssumption
  DEF WriteStep, Written, WriteFails, AgentInv, MutexIsHeld, NothingBefore, Unsent
<1>2. (AtWork' <=> AtWork) /\ (Running' <=> Running)
  BY <1>1 DEF AtWork, Running
<1>3. WorkIsARequest' /\ NothingBefore' /\ AnswersAreOwn'
  BY <1>1, AgentUntouched DEF AgentInv, AnswersAreOwn
<1>4. CASE Written(c)
  <2>1. \A d \in Callers : pc'[d] = IF d = c THEN "read" ELSE pc[d]
    BY <1>4 DEF Written, TypeOK
  <2>2. mu' = c /\ Running /\ requests' = <<call[c]>>
    BY <1>1, <1>4 DEF Written, Running
  <2>3. MutexIsHeld' /\ ~Unsent'
    BY <1>1, <2>1, <2>2, Reader DEF AgentInv, MutexIsHeld, Unsent
  <2>4. ASSUME ~abandoned PROVE Paired'
    <3>1. responses' = <<>> /\ ~AtWork'
      BY <1>1, <1>2, <2>2, <2>4, Quiet
    <3>. QED
      BY <1>1, <2>2, <2>3, <3>1
      DEF Paired, QuietBetweenCalls, RequestOfHolder, AnswersOfHolder
  <2>. QED  BY <1>1, <1>3, <2>3, <2>4 DEF AgentInv
<1>5. CASE WriteFails(c)
  <2>1. mu' = NoCaller /\ Return(c) /\ ~Running'
    BY <1>2, <1>5 DEF WriteFails
  <2>2. MutexIsHeld'
    BY <1>1, <2>1, Returned
  <2>3. Paired'
    BY <2>1, ConstantsAssumption
    DEF Paired, QuietBetweenCalls, RequestOfHolder, AnswersOfHolder
  <2>. QED  BY <1>3, <2>2, <2>3 DEF AgentInv
<1>. QED  BY <1>4, <1>5 DEF WriteStep

LEMMA CallStepInv ==
    ASSUME TypeOK, AgentInv, NEW c \in Callers
    PROVE  /\ \A m \in Methods : Begin(c, m) => AgentInv'
           /\ \A m \in Methods, i \in IDs : BeginInSession(c, m, i) => AgentInv'
           /\ SendStep(c) \/ WriteStep(c) => AgentInv'
           /\ Receive(c) \/ Expire(c) \/ GiveUp(c) \/ Close(c) => AgentInv'
<1>. pc[c] \notin {"write", "read", "rows"} => mu # c
  BY DEF AgentInv, MutexIsHeld
<1>1. ASSUME NEW m \in Methods, Begin(c, m) PROVE AgentInv'
  <2>1. MutexIsHeld'
    BY <1>1, Elsewhere DEF Begin, Ask
  <2>. QED  BY <1>1, <2>1, Bystander DEF Begin, Ask, TypeOK
<1>2. ASSUME NEW m \in Methods, NEW i \in IDs, BeginInSession(c, m, i)
      PROVE  AgentInv'
  <2>1. MutexIsHeld'
    BY <1>2, Elsewhere DEF BeginInSession, Ask
  <2>. QED  BY <1>2, <2>1, Bystander DEF BeginInSession, Ask, TypeOK
<1>3. ASSUME SendFails(c) PROVE AgentInv'
  <2>1. mu = NoCaller /\ pc[c] = "lock" /\ mu' = mu /\ Return(c)
    BY <1>3 DEF SendFails, Number
  <2>2. MutexIsHeld'
    BY <2>1, Returned
  <2>3. \A d \in Callers : mu # d
    BY <2>1, ConstantsAssumption
  <2>4. \A d \in Callers : pc'[d] = "write" => pc[d] = "write"
    BY <2>1 DEF Return, TypeOK
  <2>. QED  BY <1>3, <2>1, <2>2, <2>3, <2>4, Bystander DEF SendFails
<1>4. ASSUME Receive(c) \/ GiveUp(c) PROVE AgentInv'
  <2>1. MutexIsHeld'
    BY <1>4 DEF Receive, GiveUp, AgentInv, MutexIsHeld
  <2>. QED  BY <1>4, <2>1, Bystander DEF Receive, GiveUp
<1>5. ASSUME Expire(c) PROVE AgentInv'
  <2>1. MutexIsHeld'
    BY <1>5 DEF Expire, AgentInv, MutexIsHeld
  <2>. QED  BY <1>5, <2>1, GoneInv DEF Expire
<1>6. ASSUME Close(c) PROVE AgentInv'
  <2>1. MutexIsHeld'
    BY <1>6, Elsewhere DEF Close, Finish
  <2>. QED  BY <1>6, <2>1, GoneInv DEF Close
<1>. QED  BY <1>1, <1>2, <1>3, <1>4, <1>5, <1>6, SendInv, SendLongInv, WriteInv
          DEF SendStep

----------------------------------------------------------------------------
(* The agent.                                                              *)

\* A request at work is the holder's, and nothing waits behind it.
LEMMA Working ==
    ASSUME TypeOK, AgentInv, agent = "busy", ~abandoned
    PROVE  \E c \in Callers :
              /\ mu = c /\ work = call[c] /\ requests = <<>> /\ AtWork
              /\ pc[c] # "write" /\ ~Unsent
              /\ \A k \in DOMAIN responses :
                    /\ responses[k].id = call[c].id
                    /\ responses[k].kind \in Chunks /\ call[c].method = "stream"
<1>1. AtWork /\ Running /\ Paired
  BY DEF AtWork, Running, AgentInv
<1>2. ~Unsent /\ mu # NoCaller
  BY <1>1 DEF Paired, QuietBetweenCalls, Unsent
<1>3. PICK c \in Callers : mu = c
  BY <1>2 DEF TypeOK
<1>4. work = call[c] /\ requests = <<>>
  BY <1>1, <1>3 DEF Paired, RequestOfHolder
<1>5. pc[c] # "write"
  BY <1>2 DEF Unsent
<1>. QED  BY <1>1, <1>2, <1>3, <1>4, <1>5 DEF Paired, AnswersOfHolder

\* The parts that a line of the agent does not touch.
LEMMA LineRest ==
    ASSUME AgentInv, NEW k, NEW s, Write(k, s), agent = "busy",
           agent' \in {"idle", "busy"}, agent' = "idle" => work' = NoRequest,
           abandoned \/ Paired'
    PROVE  AgentInv'
  BY DEF AgentInv, AnswersAreOwn, MutexIsHeld, WorkIsARequest, NothingBefore,
         AtWork, Write

\* A last line, or a chunk of a stream.
LEMMA LineInv ==
    ASSUME TypeOK, AgentInv, NEW k \in Kinds, NEW s \in SessionIDs, Write(k, s),
           agent = "busy", agent' \in {"idle", "busy"},
           agent' = "idle" => work' = NoRequest /\ k \notin Chunks,
           agent' = "busy" => work' = work /\ k \in Chunks /\ work.method = "stream"
    PROVE  AgentInv'
<1>1. ASSUME ~abandoned PROVE Paired'
  <2>. DEFINE line == [id |-> work.id, kind |-> k, session |-> s]
  <2>1. PICK c \in Callers :
              /\ mu = c /\ work = call[c] /\ requests = <<>> /\ AtWork /\ ~Unsent
              /\ \A j \in DOMAIN responses :
                    /\ responses[j].id = call[c].id
                    /\ responses[j].kind \in Chunks /\ call[c].method = "stream"
    BY <1>1, Working
  <2>2. line \in Responses
    BY DEF TypeOK, Responses, Requests, SessionIDs
  <2>3. /\ Len(responses') = Len(responses) + 1
        /\ \A j \in DOMAIN responses' :
              \/ j \in DOMAIN responses /\ responses'[j] = responses[j]
              \/ j = Len(responses) + 1 /\ responses'[j] = line
    BY <2>2, AppendLast DEF Write, TypeOK
  <2>4. mu' = c /\ ~Unsent' /\ call' = call /\ requests' = <<>>
    BY <2>1 DEF Write, Unsent
  <2>5. line.id = call[c].id /\ line.kind = k
    BY <2>1
  <2>6. (AtWork' => work' = call[c]) /\ (k \notin Chunks => ~AtWork')
    BY <2>1 DEF AtWork
  <2>7. k \in Chunks => call[c].method = "stream"
    BY <2>1
  <2>. HIDE DEF line
  <2>8. QuietBetweenCalls' /\ RequestOfHolder'
    BY <2>4, <2>6 DEF QuietBetweenCalls, RequestOfHolder
  <2>9. AnswersOfHolder'
    BY <2>1, <2>3, <2>4, <2>5, <2>6, <2>7 DEF AnswersOfHolder
  <2>. QED  BY <2>8, <2>9 DEF Paired
<1>. QED  BY <1>1, LineRest

LEMMA TakeRequestInv ==
    ASSUME TypeOK, AgentInv, TakeRequest
    PROVE  AgentInv'
<1>1. /\ agent = "idle" /\ agent' = "busy" /\ requests # <<>> /\ mu' = mu
      /\ work' = Head(requests) /\ requests' = Tail(requests) /\ pc' = pc
      /\ responses' = responses /\ call' = call
      /\ abandoned' = abandoned /\ strayed' = strayed
  BY DEF TakeRequest
<1>2. MutexIsHeld' /\ WorkIsARequest' /\ NothingBefore' /\ AnswersAreOwn'
  BY <1>1 DEF AgentInv, MutexIsHeld, WorkIsARequest, NothingBefore, AtWork,
              AnswersAreOwn
<1>3. ASSUME Paired PROVE Paired'
  <2>1. mu # NoCaller /\ ~Unsent /\ ~Unsent'
    BY <1>1, <1>3 DEF Paired, QuietBetweenCalls, Unsent, Running
  <2>2. PICK c \in Callers : mu = c
    BY <2>1 DEF TypeOK
  <2>3. requests = <<call[c]>> /\ responses = <<>>
    BY <1>1, <1>3, <2>2 DEF Paired, RequestOfHolder
  <2>4. requests' = <<>> /\ work' = call[c]
    BY <1>1, <2>3
  <2>5. QuietBetweenCalls' /\ RequestOfHolder' /\ AnswersOfHolder'
    BY <1>1, <2>1, <2>2, <2>3, <2>4
    DEF QuietBetweenCalls, RequestOfHolder, AnswersOfHolder
  <2>. QED  BY <2>5 DEF Paired
<1>. QED  BY <1>1, <1>2, <1>3 DEF AgentInv

LEMMA AgentStepInv ==
    ASSUME TypeOK, AgentInv, AgentStep \/ Hang \/ Exit \/ Connect
    PROVE  AgentInv'
<1>0. 0 \in SessionIDs
  BY Constants DEF SessionIDs
<1>1. CASE ReplyToStatement
  <2>1. PICK k \in Kinds \ Chunks : Reply(k, 0) /\ agent = "busy"
    BY <1>1 DEF ReplyToStatement, Kinds, Chunks
  <2>. QED  BY <1>0, <2>1, LineInv DEF Reply
<1>2. CASE ReplyToOpen
  <2>1. PICK k \in Kinds \ Chunks, s \in SessionIDs : Reply(k, s) /\ agent = "busy"
    BY <1>0, <1>2 DEF ReplyToOpen, Kinds, Chunks, TypeOK, Requests, SessionIDs
  <2>. QED  BY <2>1, LineInv DEF Reply
<1>3. CASE ReplyToEnd
  <2>1. PICK k \in Kinds \ Chunks : Reply(k, 0) /\ agent = "busy"
    BY <1>3 DEF ReplyToEnd, Kinds, Chunks
  <2>. QED  BY <1>0, <2>1, LineInv DEF Reply
<1>4. CASE ReplyToClose
  <2>1. PICK k \in Kinds \ Chunks : Reply(k, 0) /\ agent = "busy"
    BY <1>4 DEF ReplyToClose, Kinds, Chunks
  <2>. QED  BY <1>0, <2>1, LineInv DEF Reply
<1>5. CASE StreamEnd
  <2>1. PICK k \in Kinds \ Chunks : Reply(k, 0) /\ agent = "busy"
    BY <1>5 DEF StreamEnd, Kinds, Chunks
  <2>. QED  BY <1>0, <2>1, LineInv DEF Reply
<1>6. CASE StreamChunk
  <2>1. PICK k \in Kinds : k \in Chunks /\ Write(k, 0)
    BY <1>6 DEF StreamChunk, Kinds, Chunks
  <2>2. /\ agent = "busy" /\ agent' = "busy" /\ work' = work
        /\ work.method = "stream"
    BY <1>6 DEF StreamChunk
  <2>. QED  BY <1>0, <2>1, <2>2, LineInv
<1>7. CASE Hang
  <2>1. AtWork /\ AtWork' /\ Running /\ Running'
    BY <1>7 DEF Hang, AtWork, Running
  <2>. QED
    BY <1>7, <2>1
    DEF Hang, AgentInv, AnswersAreOwn, MutexIsHeld, WorkIsARequest, NothingBefore,
        Paired, Unsent, QuietBetweenCalls, RequestOfHolder, AnswersOfHolder
<1>8. CASE Exit
  <2>1. MutexIsHeld'
    BY <1>8 DEF Exit, AgentInv, MutexIsHeld
  <2>. QED  BY <1>8, <2>1, GoneInv DEF Exit
<1>9. CASE Connect
  <2>1. /\ requests = <<>> /\ responses = <<>> /\ mu = NoCaller
        /\ work = NoRequest /\ ~AtWork' /\ agent' = "idle"
    BY <1>9 DEF Connect, AgentInv, NothingBefore, WorkIsARequest, AtWork
  <2>. QED
    BY <1>9, <2>1, ConstantsAssumption
    DEF Connect, AgentInv, AnswersAreOwn, MutexIsHeld, WorkIsARequest,
        NothingBefore, Paired, QuietBetweenCalls, RequestOfHolder, AnswersOfHolder
<1>. QED
  BY <1>1, <1>2, <1>3, <1>4, <1>5, <1>6, <1>7, <1>8, <1>9, TakeRequestInv
  DEF AgentStep

----------------------------------------------------------------------------
\* Every step keeps the types and the pairing of requests and answers.
LEMMA NextInv ==
    ASSUME TypeOK, AgentInv, [Next]_vars
    PROVE  TypeOK' /\ AgentInv'
<1>1. CASE UNCHANGED vars
  <2>1. TypeOK'
    BY <1>1 DEF vars, TypeOK
  <2>2. MutexIsHeld'
    BY <1>1 DEF vars, AgentInv, MutexIsHeld
  <2>. QED  BY <1>1, <2>1, <2>2, Bystander DEF vars
<1>2. CASE Next
  <2>. QED
    BY <1>2, BeginTypes, CallTypes, ReadTypes, AgentTypes,
       CallStepInv, ReadStepInv, AgentStepInv
    DEF Next
<1>. QED  BY <1>1, <1>2

----------------------------------------------------------------------------
(* The sessions.                                                           *)

LEMMA SessionInit == Init => SessionInv
<1>. SUFFICES ASSUME Init PROVE SessionInv
  OBVIOUS
<1>1. /\ Objects = {} /\ ~AtWork /\ ~Running /\ DOMAIN requests = {} /\ Opened = {}
      /\ Writing = {}
  BY DEF Init, Objects, AtWork, Running, Opened, Writing
<1>2. Pending = {} /\ Announced = {} /\ Held = {}
  BY <1>1 DEF Pending, Announced, Held
<1>3. NamesAreNew /\ NamedOnce
  BY <1>1, <1>2 DEF Init, NamesAreNew, NamedOnce
<1>4. NobodyBefore /\ LocalsOK
  BY <1>1 DEF Init, NobodyBefore, LocalsOK
<1>5. SessionsAreHeld /\ AnswersAreTrue /\ ObjectsAreOwn
  BY <1>1, ConstantsAssumption
  DEF Init, SessionsAreHeld, SessionsApart, EndedSessionsAreGone, NoSessionIsLost,
      AnswersAreTrue, ObjectsAreOwn
<1>. QED  BY <1>3, <1>4, <1>5 DEF SessionInv

\* Names are passed on, and none is made.
LEMMA NamesKept ==
    ASSUME NamesAreNew, nextID \in Nat, nextID' \in Nat, nextID <= nextID',
           \A s \in Pending' : s \in Pending,
           \A s \in Announced' : s \in Announced,
           \A s \in Held' : s \in Held,
           \A s \in sessions' : s \in sessions
    PROVE  NamesAreNew'
<1>1. \A s \in 1..nextID : s \in 1..nextID'
  OBVIOUS
<1>. QED  BY <1>1 DEF NamesAreNew

\* A step of the application that leaves the pipes alone; the agent works on,
\* or is gone.
LEMMA PipesSame ==
    ASSUME TypeOK, TypeOK', SessionInv, UNCHANGED <<responses, handles>>,
           \/ requests' = requests /\ work' = work /\ (AtWork' <=> AtWork)
           \/ requests' = <<>> /\ ~AtWork',
           \A d \in Callers : pc'[d] = "write" => pc[d] = "write" /\ call'[d] = call[d],
           nextID <= nextID', \A s \in sessions' : s \in sessions
    PROVE  /\ NamesAreNew' /\ NamedOnce' /\ Objects' = Objects /\ SessionsApart'
           /\ ObjectsAreOwn => ObjectsAreOwn'
<1>0. \A s \in Writing' : s \in Writing
  BY DEF Writing
<1>1. Objects' = Objects /\ Opened' = Opened
  BY DEF Objects, Opened
<1>2. Announced' = Announced /\ Held' = Held
  BY <1>1 DEF Announced, Held
<1>3. \A s \in Pending' : s \in Pending
  BY <1>0 DEF Pending
<1>4. nextID \in Nat /\ nextID' \in Nat
  BY ConstantsAssumption DEF TypeOK
<1>5. NamesAreNew'
  BY <1>2, <1>3, <1>4, NamesKept DEF SessionInv
<1>6. NamedOnce'
  BY <1>0, <1>1 DEF SessionInv, NamedOnce
<1>7. SessionsApart' /\ (ObjectsAreOwn => ObjectsAreOwn')
  BY <1>1 DEF SessionInv, SessionsAreHeld, SessionsApart, ObjectsAreOwn
<1>. QED  BY <1>1, <1>5, <1>6, <1>7

\* The objects stay, and so do the calls about the sessions that are left.
LEMMA StillHeld ==
    ASSUME SessionInv, abandoned' = abandoned, UNCHANGED <<handles, closed, ended>>,
           \A s \in sessions' : s \in sessions,
           \A d \in Callers, s \in sessions : IsAbout(d, s) => IsAbout(d, s)'
    PROVE  EndedSessionsAreGone' /\ NoSessionIsLost'
<1>1. EndedSessionsAreGone'
  BY DEF SessionInv, SessionsAreHeld, EndedSessionsAreGone
<1>2. NoSessionIsLost'
  BY DEF SessionInv, SessionsAreHeld, NoSessionIsLost
<1>. QED  BY <1>1, <1>2

LEMMA NoneLeft ==
    ASSUME sessions' = {}
    PROVE  EndedSessionsAreGone' /\ NoSessionIsLost'
  BY DEF EndedSessionsAreGone, NoSessionIsLost

\* The mutex is with the same call, or with none.
LEMMA StillTrue ==
    ASSUME AnswersAreTrue, responses' = responses, mu' \in {mu, NoCaller},
           \A s \in sessions' : s \in sessions,
           \A d \in Callers : mu = d => call'[d] = call[d]
    PROVE  AnswersAreTrue'
  BY ConstantsAssumption DEF AnswersAreTrue

----------------------------------------------------------------------------
(* Calls.                                                                  *)

LEMMA BeginHolds ==
    ASSUME TypeOK, TypeOK', AgentInv, SessionInv, NEW c \in Callers,
           NEW m \in Methods, Begin(c, m)
    PROVE  SessionInv'
<1>1. /\ UNCHANGED <<agentVars, pipeVars, clientVars, sessionVars, historyVars>>
      /\ pc[c] = "idle" /\ client
      /\ \A d \in Callers \ {c} : pc'[d] = pc[d] /\ call'[d] = call[d]
      /\ pc'[c] = "lock" /\ call'[c].id = 0
  BY DEF Begin, Ask, TypeOK
<1>2. (AtWork' <=> AtWork) /\ (Running' <=> Running) /\ mu # c
  BY <1>1 DEF AtWork, Running, AgentInv, MutexIsHeld
<1>3. nextID <= nextID'
  BY <1>1, ConstantsAssumption DEF TypeOK
<1>4. /\ NamesAreNew' /\ NamedOnce' /\ Objects' = Objects /\ SessionsApart'
      /\ ObjectsAreOwn => ObjectsAreOwn'
  BY <1>1, <1>2, <1>3, PipesSame
<1>5. NobodyBefore' /\ LocalsOK'
  BY <1>1, <1>2, <1>4 DEF SessionInv, NobodyBefore, LocalsOK
<1>6. EndedSessionsAreGone' /\ NoSessionIsLost'
  <2>1. \A d \in Callers, s \in sessions : IsAbout(d, s) => IsAbout(d, s)'
    BY <1>1 DEF IsAbout
  <2>. QED  BY <1>1, <2>1, StillHeld
<1>7. AnswersAreTrue => AnswersAreTrue'
  BY <1>1, <1>2, StillTrue
<1>. QED  BY <1>1, <1>4, <1>5, <1>6, <1>7 DEF SessionInv, SessionsAreHeld

\* A Close of an object: from now on the call holds the session.
LEMMA BeginInSessionHolds ==
    ASSUME TypeOK, TypeOK', AgentInv, SessionInv, NEW c \in Callers,
           NEW m \in Methods, NEW i \in IDs, BeginInSession(c, m, i)
    PROVE  SessionInv'
<1>1. /\ UNCHANGED <<agentVars, pipeVars, clientVars, historyVars>>
      /\ handles' = handles /\ ended' = ended
      /\ pc[c] = "idle" /\ i \in Objects
      /\ \A d \in Callers \ {c} : pc'[d] = pc[d] /\ call'[d] = call[d]
      /\ pc'[c] = "lock"
      /\ call'[c] = [method |-> m, id |-> 0, session |-> handles[i]]
      /\ closed' = IF m = "end" THEN closed \cup {i} ELSE closed
  BY DEF BeginInSession, Ask, TypeOK
<1>2. (AtWork' <=> AtWork) /\ (Running' <=> Running) /\ mu # c
  BY <1>1 DEF AtWork, Running, AgentInv, MutexIsHeld
<1>3. nextID <= nextID'
  BY <1>1, ConstantsAssumption DEF TypeOK
<1>4. /\ NamesAreNew' /\ NamedOnce' /\ Objects' = Objects /\ SessionsApart'
      /\ ObjectsAreOwn => ObjectsAreOwn'
  BY <1>1, <1>2, <1>3, PipesSame
<1>5. NobodyBefore' /\ LocalsOK'
  <2>1. handles[i] \in 1..nextID
    BY <1>1 DEF SessionInv, NamesAreNew, Held
  <2>2. agent # "none"
    BY <2>1 DEF SessionInv, NobodyBefore
  <2>. QED  BY <1>1, <1>2, <1>4, <2>2 DEF SessionInv, NobodyBefore, LocalsOK
<1>6. EndedSessionsAreGone'
  BY <1>1 DEF SessionInv, SessionsAreHeld, EndedSessionsAreGone
<1>7. NoSessionIsLost'
  <2>. SUFFICES ASSUME ~abandoned, NEW s \in sessions
                PROVE  \/ handles[s] = s /\ s \notin closed'
                       \/ \E d \in Callers : IsAbout(d, s)'
    BY <1>1 DEF NoSessionIsLost
  <2>1. CASE handles[s] = s /\ s \notin closed'
    BY <2>1
  <2>2. CASE handles[s] = s /\ s \notin closed /\ s \in closed'
    <3>1. m = "end" /\ i = s
      BY <1>1, <2>2
    <3>2. IsAbout(c, s)'
      BY <1>1, <2>2, <3>1 DEF IsAbout
    <3>. QED  BY <3>2
  <2>3. ASSUME NEW d \in Callers, IsAbout(d, s) PROVE IsAbout(d, s)'
    BY <1>1, <2>3 DEF IsAbout
  <2>. QED
    BY <2>1, <2>2, <2>3 DEF SessionInv, SessionsAreHeld, NoSessionIsLost
<1>8. AnswersAreTrue => AnswersAreTrue'
  BY <1>1, <1>2, StillTrue
<1>. QED  BY <1>1, <1>4, <1>5, <1>6, <1>7, <1>8 DEF SessionInv, SessionsAreHeld

\* The pipe is broken: the agent and its sessions are gone.
LEMMA NoAgentHolds ==
    ASSUME TypeOK, TypeOK', AgentInv, SessionInv, NEW c \in Callers,
           SendFails(c) \/ WriteFails(c) \/ ReadFails(c)
    PROVE  SessionInv'
<1>1. /\ UNCHANGED <<agentVars, pipeVars, sessionVars, historyVars, client>>
      /\ ~Running /\ sessions = {} /\ sessions' = {} /\ mu' \in {mu, NoCaller}
      /\ \A d \in Callers \ {c} : pc'[d] = pc[d] /\ call'[d] = call[d]
      /\ pc'[c] \notin {"lock", "write", "rows"} /\ pc[c] # "idle"
  <2>1. CASE SendFails(c)
    BY <2>1 DEF SendFails, Number, Return, TypeOK, SessionInv, LocalsOK
  <2>2. CASE WriteFails(c)
    BY <2>2 DEF WriteFails, Return, TypeOK, SessionInv, LocalsOK
  <2>3. CASE ReadFails(c)
    BY <2>3 DEF ReadFails, Return, TypeOK, SessionInv, LocalsOK
  <2>. QED  BY <2>1, <2>2, <2>3
<1>2. (AtWork' <=> AtWork) /\ (Running' <=> Running)
  BY <1>1 DEF AtWork, Running
<1>3. nextID <= nextID'
  BY ConstantsAssumption DEF SendFails, WriteFails, ReadFails, Number, TypeOK
<1>4. /\ NamesAreNew' /\ NamedOnce' /\ Objects' = Objects /\ SessionsApart'
      /\ ObjectsAreOwn => ObjectsAreOwn'
  BY <1>1, <1>2, <1>3, PipesSame
<1>5. NobodyBefore'
  BY <1>1 DEF SessionInv, NobodyBefore
<1>6. LocalsOK'
  BY <1>1, <1>2, <1>4 DEF SessionInv, LocalsOK
<1>7. EndedSessionsAreGone' /\ NoSessionIsLost'
  BY <1>1, NoneLeft
<1>8. \A d \in Callers : mu' = d => mu = d /\ call'[d] = call[d]
  BY <1>1, ConstantsAssumption
  DEF SendFails, WriteFails, ReadFails, Number, AgentInv, MutexIsHeld
<1>9. AnswersAreTrue => AnswersAreTrue'
  BY <1>1, <1>8 DEF AnswersAreTrue
<1>. QED  BY <1>1, <1>4, <1>5, <1>6, <1>7, <1>9 DEF SessionInv, SessionsAreHeld

\* A waiter ends, the driver hangs, or nothing happens.
LEMMA WaitHolds ==
    ASSUME TypeOK, TypeOK', AgentInv, SessionInv,
           Hang \/ UNCHANGED vars \/ \E c \in Callers : Receive(c) \/ GiveUp(c)
    PROVE  SessionInv'
<1>1. /\ UNCHANGED <<work, sessions, pipeVars, clientVars, pc, call, sessionVars,
                     historyVars>>
      /\ \/ agent' = agent
         \/ agent = "busy" /\ agent' = "hung"
  BY DEF Receive, GiveUp, Hang, vars
<1>2. (AtWork' <=> AtWork) /\ (Running' <=> Running)
  BY <1>1 DEF AtWork, Running
<1>3. nextID <= nextID'
  BY <1>1, ConstantsAssumption DEF TypeOK
<1>4. /\ NamesAreNew' /\ NamedOnce' /\ Objects' = Objects /\ SessionsApart'
      /\ ObjectsAreOwn => ObjectsAreOwn'
  BY <1>1, <1>2, <1>3, PipesSame
<1>5. NobodyBefore' /\ LocalsOK'
  BY <1>1, <1>2, <1>4 DEF SessionInv, NobodyBefore, LocalsOK
<1>6. \A d \in Callers, s \in sessions : IsAbout(d, s) => IsAbout(d, s)'
  BY <1>1 DEF IsAbout
<1>7. EndedSessionsAreGone' /\ NoSessionIsLost'
  BY <1>1, <1>6, StillHeld
<1>8. AnswersAreTrue => AnswersAreTrue'
  BY <1>1, StillTrue
<1>. QED  BY <1>1, <1>4, <1>5, <1>7, <1>8 DEF SessionInv, SessionsAreHeld

\* The process is gone, and with it every session.
LEMMA GoneHolds ==
    ASSUME TypeOK, TypeOK', AgentInv, SessionInv, Gone,
           UNCHANGED <<responses, call, mu, nextID, sessionVars, historyVars>>,
           \A d \in Callers : pc'[d] \in {pc[d], "idle"}
    PROVE  SessionInv'
<1>1. agent' = "gone" /\ ~AtWork' /\ ~Running' /\ requests' = <<>> /\ sessions' = {}
  BY DEF Gone, AtWork, Running
<1>2. nextID <= nextID'
  BY ConstantsAssumption DEF TypeOK
<1>3. /\ NamesAreNew' /\ NamedOnce' /\ Objects' = Objects /\ SessionsApart'
      /\ ObjectsAreOwn => ObjectsAreOwn'
  BY <1>1, <1>2, PipesSame
<1>4. NobodyBefore' /\ LocalsOK'
  BY <1>1, <1>3 DEF SessionInv, NobodyBefore, LocalsOK
<1>5. EndedSessionsAreGone' /\ NoSessionIsLost'
  BY <1>1, NoneLeft
<1>6. AnswersAreTrue => AnswersAreTrue'
  BY <1>1, StillTrue
<1>. QED  BY <1>3, <1>4, <1>5, <1>6 DEF SessionInv, SessionsAreHeld

\* The application writes a request: its id is new.
LEMMA SendHolds ==
    ASSUME TypeOK, TypeOK', AgentInv, SessionInv, NEW c \in Callers, Send(c)
    PROVE  SessionInv'
<1>1. /\ UNCHANGED <<agentVars, responses, client, sessionVars, historyVars>>
      /\ Running /\ mu = NoCaller /\ mu' = c /\ agent # "none"
      /\ pc[c] = "lock" /\ pc'[c] = "read"
      /\ nextID \in Nat /\ nextID' = nextID + 1
      /\ requests' = Append(requests, call'[c])
      /\ \A d \in Callers \ {c} : pc'[d] = pc[d]
  BY ConstantsAssumption DEF Send, Number, Running, TypeOK
<1>2. /\ call'[c] = [call[c] EXCEPT !.id = nextID + 1] /\ call'[c] \in Requests
      /\ \A d \in Callers \ {c} : call'[d] = call[d]
  BY NumberType DEF Send
<1>3. /\ call'[c].id = nextID + 1 /\ call'[c].method = call[c].method
      /\ call'[c].session = call[c].session
  BY <1>2 DEF TypeOK, Requests
<1>4. /\ \A k \in DOMAIN requests' :
            \/ k \in DOMAIN requests /\ requests'[k] = requests[k]
            \/ k = Len(requests) + 1 /\ requests'[k] = call'[c]
  BY <1>1, <1>2, AppendLast DEF TypeOK
<1>5. /\ AtWork' = AtWork /\ Objects' = Objects /\ Opened' = Opened
      /\ Announced' = Announced /\ Held' = Held /\ Running'
  BY <1>1 DEF AtWork, Objects, Opened, Announced, Held, Running
<1>0. \A s \in Writing' : s \in Writing
  BY <1>1, <1>2 DEF Writing
<1>6. \A s \in Pending' : s \in Pending \/ s = nextID + 1
  BY <1>0, <1>1, <1>3, <1>4, <1>5 DEF Pending
<1>7. \A s \in Pending \cup Announced \cup Held \cup sessions :
          s \in 1..nextID /\ s \in 1..nextID' /\ s # nextID + 1
  BY <1>1 DEF SessionInv, NamesAreNew
<1>8. NamesAreNew'
  <2>1. nextID + 1 \in 1..nextID'
    BY <1>1
  <2>. QED  BY <1>1, <1>5, <1>6, <1>7, <2>1 DEF SessionInv, NamesAreNew
<1>9. NamedOnce'
  <2>1. \A k \in DOMAIN requests : requests[k].id \in Pending
    BY DEF Pending
  <2>2. AtWork => work.id \in Pending
    BY DEF Pending
  <2>3. \A k \in DOMAIN requests : requests[k].id # nextID + 1
    BY <1>7, <2>1
  <2>4. AtWork => work.id # nextID + 1
    BY <1>7, <2>2
  <2>5. \A j, k \in DOMAIN requests' : requests'[j].id = requests'[k].id => j = k
    BY <1>3, <1>4, <2>3 DEF SessionInv, NamedOnce
  <2>6. AtWork' => \A k \in DOMAIN requests' : requests'[k].id # work'.id
    BY <1>1, <1>3, <1>4, <1>5, <2>4 DEF SessionInv, NamedOnce
  <2>7. /\ \A k \in DOMAIN requests' : requests'[k].id \notin Writing'
        /\ AtWork' => work'.id \notin Writing'
    <3>1. nextID + 1 \notin Writing
      BY <1>7 DEF Pending
    <3>. QED  BY <1>0, <1>1, <1>3, <1>4, <1>5, <3>1 DEF SessionInv, NamedOnce
  <2>. QED  BY <1>1, <1>5, <2>5, <2>6, <2>7 DEF SessionInv, NamedOnce
<1>10. NobodyBefore' /\ LocalsOK'
  BY <1>1, <1>2, <1>5 DEF SessionInv, NobodyBefore, LocalsOK
<1>11. SessionsApart' /\ (ObjectsAreOwn => ObjectsAreOwn')
  BY <1>1, <1>5 DEF SessionInv, SessionsAreHeld, SessionsApart, ObjectsAreOwn
<1>12. EndedSessionsAreGone' /\ NoSessionIsLost'
  <2>1. ASSUME NEW s \in sessions, IsAbout(c, s) PROVE IsAbout(c, s)'
    <3>1. s # 0 /\ call[c].id = 0
      BY <1>1, <1>7 DEF SessionInv, LocalsOK
    <3>. QED  BY <1>1, <1>3, <2>1, <3>1 DEF IsAbout
  <2>2. ASSUME NEW d \in Callers \ {c}, NEW s \in sessions, IsAbout(d, s)
        PROVE  IsAbout(d, s)'
    BY <1>1, <1>2, <2>2 DEF IsAbout
  <2>. QED  BY <1>1, <2>1, <2>2, StillHeld
<1>13. abandoned \/ AnswersAreTrue'
  BY <1>1, Quiet DEF AnswersAreTrue, Unsent
<1>. QED
  BY <1>1, <1>8, <1>9, <1>10, <1>11, <1>12, <1>13 DEF SessionInv, SessionsAreHeld

\* ... also when it waits before it is on the pipe.
LEMMA SendLongHolds ==
    ASSUME TypeOK, TypeOK', AgentInv, SessionInv, NEW c \in Callers, SendLong(c)
    PROVE  SessionInv'
<1>1. /\ UNCHANGED <<agentVars, pipeVars, client, sessionVars, historyVars>>
      /\ Running /\ mu = NoCaller /\ mu' = c /\ agent # "none"
      /\ pc[c] = "lock" /\ pc'[c] = "write"
      /\ nextID \in Nat /\ nextID' = nextID + 1
      /\ \A d \in Callers \ {c} : pc'[d] = pc[d]
  BY ConstantsAssumption DEF SendLong, Number, Running, TypeOK
<1>2. /\ call'[c] = [call[c] EXCEPT !.id = nextID + 1] /\ call'[c] \in Requests
      /\ \A d \in Callers \ {c} : call'[d] = call[d]
  BY NumberType DEF SendLong
<1>3. /\ call'[c].id = nextID + 1 /\ call'[c].method = call[c].method
      /\ call'[c].session = call[c].session
  BY <1>2 DEF TypeOK, Requests
<1>4. ASSUME NEW s \in Writing' PROVE s \in Writing \/ s = nextID + 1
  <2>1. PICK d \in Callers : pc'[d] = "write" /\ s = call'[d].id
    BY <1>4 DEF Writing
  <2>2. CASE d = c
    BY <1>3, <2>1, <2>2
  <2>3. CASE d # c
    BY <1>1, <1>2, <2>1, <2>3 DEF Writing
  <2>. QED  BY <2>2, <2>3
<1>5. /\ AtWork' = AtWork /\ Objects' = Objects /\ Opened' = Opened
      /\ Announced' = Announced /\ Held' = Held /\ Running'
  BY <1>1 DEF AtWork, Objects, Opened, Announced, Held, Running
<1>6. \A s \in Pending' : s \in Pending \/ s = nextID + 1
  BY <1>1, <1>4, <1>5 DEF Pending
<1>7. \A s \in Pending \cup Announced \cup Held \cup sessions :
          s \in 1..nextID /\ s \in 1..nextID' /\ s # nextID + 1
  BY <1>1 DEF SessionInv, NamesAreNew
<1>8. NamesAreNew'
  <2>1. nextID + 1 \in 1..nextID'
    BY <1>1
  <2>. QED  BY <1>1, <1>5, <1>6, <1>7, <2>1 DEF SessionInv, NamesAreNew
<1>9. NamedOnce'
  <2>1. /\ \A k \in DOMAIN requests : requests[k].id \in Pending
        /\ AtWork => work.id \in Pending
    BY DEF Pending
  <2>2. /\ \A k \in DOMAIN requests : requests[k].id # nextID + 1
        /\ AtWork => work.id # nextID + 1
    BY <1>7, <2>1
  <2>. QED  BY <1>1, <1>4, <1>5, <2>2 DEF SessionInv, NamedOnce
<1>10. NobodyBefore' /\ LocalsOK'
  BY <1>1, <1>2, <1>5 DEF SessionInv, NobodyBefore, LocalsOK
<1>11. SessionsApart' /\ (ObjectsAreOwn => ObjectsAreOwn')
  BY <1>1, <1>5 DEF SessionInv, SessionsAreHeld, SessionsApart, ObjectsAreOwn
<1>12. EndedSessionsAreGone' /\ NoSessionIsLost'
  <2>1. ASSUME NEW s \in sessions, IsAbout(c, s) PROVE IsAbout(c, s)'
    <3>1. s # 0 /\ call[c].id = 0
      BY <1>1, <1>7 DEF SessionInv, LocalsOK
    <3>. QED  BY <1>1, <1>3, <2>1, <3>1 DEF IsAbout
  <2>2. ASSUME NEW d \in Callers \ {c}, NEW s \in sessions, IsAbout(d, s)
        PROVE  IsAbout(d, s)'
    BY <1>1, <1>2, <2>2 DEF IsAbout
  <2>. QED  BY <1>1, <2>1, <2>2, StillHeld
<1>13. abandoned \/ AnswersAreTrue'
  BY <1>1, Quiet DEF AnswersAreTrue, Unsent
<1>. QED
  BY <1>1, <1>8, <1>9, <1>10, <1>11, <1>12, <1>13 DEF SessionInv, SessionsAreHeld

\* The line that waited is on its way, under its id.
LEMMA WrittenHolds ==
    ASSUME TypeOK, TypeOK', AgentInv, SessionInv, NEW c \in Callers, Written(c)
    PROVE  SessionInv'
<1>1. /\ UNCHANGED <<agentVars, responses, clientVars, call, sessionVars, historyVars>>
      /\ pc[c] = "write" /\ pc'[c] = "read" /\ agent = "idle"
      /\ requests' = <<call[c]>>
      /\ \A d \in Callers \ {c} : pc'[d] = pc[d]
  BY DEF Written, TypeOK
<1>2. /\ \A s \in Writing' : s \in Writing
      /\ call[c].id \in Writing /\ Writing' = {}
  <2>1. \A d \in Callers : pc'[d] # "write"
    BY <1>1, Reader
  <2>. QED  BY <1>1, <2>1 DEF Writing
<1>3. \A k \in DOMAIN requests' : k = 1 /\ requests'[k] = call[c]
  BY <1>1
<1>4. /\ ~AtWork' /\ Running' = Running /\ Objects' = Objects /\ Opened' = Opened
      /\ Announced' = Announced /\ Held' = Held
  BY <1>1 DEF AtWork, Running, Objects, Opened, Announced, Held
<1>5. \A s \in Pending' : s \in Pending
  BY <1>2, <1>3, <1>4 DEF Pending
<1>6. NamesAreNew'
  <2>1. nextID \in Nat /\ nextID' \in Nat /\ nextID <= nextID'
    BY <1>1, ConstantsAssumption DEF TypeOK
  <2>. QED  BY <1>1, <1>4, <1>5, <2>1, NamesKept DEF SessionInv
<1>7. NamedOnce'
  BY <1>1, <1>2, <1>3, <1>4 DEF SessionInv, NamedOnce
<1>8. NobodyBefore' /\ LocalsOK'
  BY <1>1, <1>4 DEF SessionInv, NobodyBefore, LocalsOK
<1>9. SessionsApart' /\ (ObjectsAreOwn => ObjectsAreOwn')
  BY <1>1, <1>4 DEF SessionInv, SessionsAreHeld, SessionsApart, ObjectsAreOwn
<1>10. EndedSessionsAreGone' /\ NoSessionIsLost'
  <2>1. \A d \in Callers, s \in sessions : IsAbout(d, s) => IsAbout(d, s)'
    BY <1>1 DEF IsAbout
  <2>. QED  BY <1>1, <2>1, StillHeld
<1>11. AnswersAreTrue => AnswersAreTrue'
  BY <1>1, StillTrue
<1>. QED  BY <1>1, <1>6, <1>7, <1>8, <1>9, <1>10, <1>11 DEF SessionInv, SessionsAreHeld

\* A request comes to the agent.
LEMMA TakeRequestHolds ==
    ASSUME TypeOK, TypeOK', AgentInv, SessionInv, TakeRequest
    PROVE  SessionInv'
<1>1. /\ UNCHANGED <<inst, sessions, responses, clientVars, callVars, sessionVars,
                     historyVars>>
      /\ ~AtWork /\ AtWork' /\ Running /\ Running' /\ agent' = "busy"
      /\ requests # <<>> /\ work' = Head(requests) /\ requests' = Tail(requests)
  BY DEF TakeRequest, AtWork, Running
<1>2. /\ Head(requests) = requests[1] /\ 1 \in DOMAIN requests
      /\ \A k \in DOMAIN requests' :
            k + 1 \in DOMAIN requests /\ requests'[k] = requests[k + 1]
      /\ \A k \in DOMAIN requests' : k \in Nat \ {0}
  BY <1>1, HeadTail DEF TypeOK
<1>3. /\ Objects' = Objects /\ Opened' = Opened
      /\ Announced' = Announced /\ Held' = Held /\ Writing' = Writing
  BY <1>1 DEF Objects, Opened, Announced, Held, Writing
<1>4. \A s \in Pending' : s \in Pending
  BY <1>1, <1>2, <1>3 DEF Pending
<1>5. NamesAreNew'
  <2>1. nextID \in Nat /\ nextID' \in Nat /\ nextID <= nextID'
    BY <1>1, ConstantsAssumption DEF TypeOK
  <2>. QED  BY <1>1, <1>3, <1>4, <2>1, NamesKept DEF SessionInv
<1>6. NamedOnce'
  <2>1. \A j, k \in DOMAIN requests' : requests'[j].id = requests'[k].id => j = k
    BY <1>2 DEF SessionInv, NamedOnce
  <2>2. \A k \in DOMAIN requests' : requests'[k].id # work'.id
    BY <1>1, <1>2 DEF SessionInv, NamedOnce
  <2>3. /\ \A k \in DOMAIN requests' : requests'[k].id \notin Writing'
        /\ work'.id \notin Writing'
    BY <1>1, <1>2, <1>3 DEF SessionInv, NamedOnce
  <2>. QED  BY <1>1, <1>3, <2>1, <2>2, <2>3 DEF SessionInv, NamedOnce
<1>7. NobodyBefore' /\ LocalsOK'
  BY <1>1, <1>3 DEF SessionInv, NobodyBefore, LocalsOK
<1>8. SessionsApart' /\ (ObjectsAreOwn => ObjectsAreOwn')
  BY <1>1, <1>3 DEF SessionInv, SessionsAreHeld, SessionsApart, ObjectsAreOwn
<1>9. EndedSessionsAreGone' /\ NoSessionIsLost'
  <2>1. \A d \in Callers, s \in sessions : IsAbout(d, s) => IsAbout(d, s)'
    BY <1>1 DEF IsAbout
  <2>. QED  BY <1>1, <2>1, StillHeld
<1>10. AnswersAreTrue => AnswersAreTrue'
  BY <1>1, StillTrue
<1>. QED  BY <1>1, <1>5, <1>6, <1>7, <1>8, <1>9, <1>10 DEF SessionInv, SessionsAreHeld

\* The first process: before it nobody had a name.
LEMMA ConnectHolds ==
    ASSUME TypeOK, TypeOK', AgentInv, SessionInv, Connect
    PROVE  SessionInv'
<1>1. /\ UNCHANGED <<work, sessions, pipeVars, mu, callVars, sessionVars, historyVars>>
      /\ agent = "none" /\ agent' = "idle" /\ ~AtWork /\ ~AtWork' /\ Running'
      /\ sessions = {} /\ sessions' = {} /\ nextID = 0 /\ nextID' = 1
  BY DEF Connect, AtWork, Running, SessionInv, NobodyBefore, LocalsOK
<1>2. /\ NamesAreNew' /\ NamedOnce' /\ Objects' = Objects /\ SessionsApart'
      /\ ObjectsAreOwn => ObjectsAreOwn'
  <2>1. nextID <= nextID'
    BY <1>1
  <2>. QED  BY <1>1, <2>1, PipesSame
<1>3. NobodyBefore' /\ LocalsOK'
  BY <1>1, <1>2 DEF SessionInv, NobodyBefore, LocalsOK
<1>4. EndedSessionsAreGone' /\ NoSessionIsLost'
  BY <1>1, NoneLeft
<1>5. AnswersAreTrue => AnswersAreTrue'
  BY <1>1, StillTrue
<1>. QED  BY <1>1, <1>2, <1>3, <1>4, <1>5 DEF SessionInv, SessionsAreHeld

----------------------------------------------------------------------------
(* Reading.                                                                *)

\* A line less on the way back.
LEMMA TakeKeepsNames ==
    ASSUME TypeOK, SessionInv, NEW c \in Callers, Take(c)
    PROVE  /\ \A s \in Announced' : s \in Announced
           /\ Head(responses).kind = "opened" =>
                 /\ Head(responses).session \in Announced
                 /\ Head(responses).session \notin Announced'
                 /\ Head(responses).session = Head(responses).id
           /\ UNCHANGED agentVars /\ (\A s \in Writing' : s \in Writing) => NamedOnce'
<1>1. /\ responses' = Tail(responses) /\ responses # <<>> /\ requests' = requests
  BY DEF Take
<1>2. /\ Head(responses) = responses[1] /\ 1 \in DOMAIN responses
      /\ \A k \in DOMAIN responses' :
            k + 1 \in DOMAIN responses /\ responses'[k] = responses[k + 1]
      /\ \A k \in DOMAIN responses' : k \in Nat \ {0}
  BY <1>1, HeadTail DEF TypeOK
<1>3. \A k \in Opened' : k + 1 \in Opened /\ responses'[k] = responses[k + 1]
                            /\ k \in Nat \ {0}
  BY <1>2 DEF Opened
<1>4. \A s \in Announced' : \E k \in Opened : s = responses[k].session /\ k # 1
  BY <1>3 DEF Announced
<1>5. Head(responses).kind = "opened" =>
          /\ 1 \in Opened /\ Head(responses).session = responses[1].session
          /\ Head(responses).session = Head(responses).id
  BY <1>2 DEF Opened, SessionInv, NamedOnce
<1>6. \A j, k \in Opened : responses[j].session = responses[k].session => j = k
  BY DEF SessionInv, NamedOnce
<1>7. ASSUME UNCHANGED agentVars, \A s \in Writing' : s \in Writing
      PROVE  NamedOnce'
  <2>1. AtWork' = AtWork /\ work' = work
    BY <1>7 DEF AtWork
  <2>2. \A j, k \in Opened' : responses'[j].session = responses'[k].session => j = k
    <3>1. \A j, k \in Opened' : responses'[j].session = responses'[k].session
                                   => j + 1 = k + 1
      BY <1>3, <1>6
    <3>. QED  BY <1>3, <3>1
  <2>3. \A k \in Opened' : responses'[k].session = responses'[k].id
    BY <1>3 DEF SessionInv, NamedOnce
  <2>. QED  BY <1>1, <1>7, <2>1, <2>2, <2>3 DEF SessionInv, NamedOnce
<1>. QED  BY <1>4, <1>5, <1>6, <1>7 DEF Announced

\* A stream reads: no session is opened or ended by it.
LEMMA StreamReadHolds ==
    ASSUME TypeOK, TypeOK', AgentInv, SessionInv, NEW c \in Callers,
           ReadChunk(c) \/ ReadEnd(c) \/ LeaveStream(c) \/ FallBack(c)
    PROVE  SessionInv'
<1>1. /\ UNCHANGED <<agentVars, requests, client, nextID, sessionVars>>
      /\ Take(c) /\ pc[c] \in {"read", "rows"} /\ call[c].method = "stream"
      /\ mu' \in {mu, NoCaller}
      /\ \A d \in Callers \ {c} : pc'[d] = pc[d] /\ call'[d] = call[d]
  <2>1. CASE ReadChunk(c)    BY <2>1 DEF ReadChunk, Take, TypeOK
  <2>2. CASE ReadEnd(c)      BY <2>2 DEF ReadEnd, Take, Finish, TypeOK
  <2>3. CASE LeaveStream(c)  BY <2>3 DEF LeaveStream, Take, Finish, TypeOK
  <2>4. CASE FallBack(c)     BY <2>4 DEF FallBack, Take, Ask, TypeOK
  <2>. QED  BY <2>1, <2>2, <2>3, <2>4
<1>2. /\ pc'[c] = "rows" => call'[c].method = "stream"
      /\ pc'[c] # "write"
      /\ pc'[c] = "lock" => call'[c].id = 0
      /\ mu' = c => call'[c].method = "stream"
  <2>1. CASE ReadChunk(c)
    BY <1>1, <2>1 DEF ReadChunk, TypeOK
  <2>2. CASE ReadEnd(c)
    BY <2>2, ConstantsAssumption DEF ReadEnd, Finish, TypeOK
  <2>3. CASE LeaveStream(c)
    BY <2>3, ConstantsAssumption DEF LeaveStream, Finish, TypeOK
  <2>4. CASE FallBack(c)
    BY <2>4, ConstantsAssumption DEF FallBack, Ask, TypeOK
  <2>. QED  BY <2>1, <2>2, <2>3, <2>4
<1>3. mu = c /\ agent # "none"
  BY <1>1, Reader, ReaderHasAgent
<1>4. /\ AtWork' = AtWork /\ Running' = Running /\ Objects' = Objects
      /\ Held' = Held
      /\ \A s \in Writing' : s \in Writing
      /\ \A s \in Pending' : s \in Pending
  <2>1. \A s \in Writing' : s \in Writing
    BY <1>1, <1>2 DEF Writing
  <2>. QED  BY <1>1, <2>1 DEF AtWork, Running, Objects, Held, Pending
<1>5. NamesAreNew' /\ NamedOnce'
  <2>1. nextID \in Nat /\ nextID' \in Nat /\ nextID <= nextID'
    BY <1>1, ConstantsAssumption DEF TypeOK
  <2>2. (\A s \in Announced' : s \in Announced) /\ NamedOnce'
    BY <1>1, <1>4, TakeKeepsNames
  <2>. QED  BY <1>1, <1>4, <2>1, <2>2, NamesKept DEF SessionInv
<1>6. NobodyBefore' /\ LocalsOK'
  BY <1>1, <1>2, <1>3, <1>4 DEF SessionInv, NobodyBefore, LocalsOK
<1>7. SessionsApart' /\ (ObjectsAreOwn => ObjectsAreOwn')
  BY <1>1, <1>4 DEF SessionInv, SessionsAreHeld, SessionsApart, ObjectsAreOwn
<1>8. ASSUME ~abandoned' PROVE ~abandoned
  BY <1>8 DEF ReadChunk, ReadEnd, LeaveStream, FallBack
<1>9. EndedSessionsAreGone' /\ NoSessionIsLost'
  <2>1. \A d \in Callers, s \in sessions : IsAbout(d, s) => IsAbout(d, s)'
    BY <1>1 DEF IsAbout
  <2>2. CASE abandoned'
    BY <2>2 DEF EndedSessionsAreGone, NoSessionIsLost
  <2>3. CASE ~abandoned'
    <3>1. abandoned' = abandoned
      BY <1>8, <2>3 DEF TypeOK
    <3>. QED  BY <1>1, <2>1, <3>1, StillHeld
  <2>. QED  BY <2>2, <2>3
<1>10. AnswersAreTrue'
  BY <1>1, <1>2, <1>3, ConstantsAssumption DEF AnswersAreTrue
<1>. QED
  BY <1>5, <1>6, <1>7, <1>8, <1>9, <1>10 DEF SessionInv, SessionsAreHeld

\* The reader of an answer, and the object it may make.
LEMMA ReadAnswerShape ==
    ASSUME TypeOK, AgentInv, SessionInv, NEW c \in Callers, ReadAnswer(c)
    PROVE  /\ UNCHANGED <<agentVars, requests, client, nextID, call, waiter, closed,
                          abandoned>>
           /\ Take(c) /\ pc[c] = "read" /\ call[c].method # "stream"
           /\ mu = c /\ mu' = NoCaller /\ agent # "none"
           /\ pc'[c] \in {"idle", "kill"}
           /\ \A d \in Callers \ {c} : pc'[d] = pc[d]
           /\ KeepSession(c, Head(responses))
<1>1. /\ UNCHANGED <<agentVars, requests, client, nextID, call, waiter, closed,
                     abandoned>>
      /\ Take(c) /\ pc[c] \in {"read", "rows"} /\ call[c].method # "stream"
      /\ mu' = NoCaller /\ Return(c) /\ KeepSession(c, Head(responses))
  BY DEF ReadAnswer, Take
<1>2. pc[c] = "read"
  BY <1>1 DEF SessionInv, LocalsOK
<1>3. mu = c /\ agent # "none"
  BY <1>1, Reader, ReaderHasAgent
<1>4. pc'[c] \in {"idle", "kill"} /\ \A d \in Callers \ {c} : pc'[d] = pc[d]
  BY <1>1 DEF Return, TypeOK
<1>. QED  BY <1>1, <1>2, <1>3, <1>4

\* The session that is announced is a new one, also for a stray reader.
LEMMA ReadAnswerNames ==
    ASSUME TypeOK, TypeOK', AgentInv, SessionInv, NEW c \in Callers, ReadAnswer(c)
    PROVE  /\ NamesAreNew' /\ NamedOnce' /\ SessionsApart'
           /\ \A i \in Objects : i \in Objects'
<1>. DEFINE h == Head(responses)
            made == call[c].method = "open" /\ h.kind = "opened"
<1>1. /\ UNCHANGED <<agentVars, requests, nextID>> /\ Take(c)
      /\ KeepSession(c, h)
  BY ReadAnswerShape
<1>0. \A s \in Writing' : s \in Writing
  BY ReadAnswerShape DEF Writing
<1>2. /\ \A s \in Announced' : s \in Announced
      /\ made => /\ h.session \in Announced /\ h.session \notin Announced'
                 /\ h.session # 0 /\ h.session \notin Held
      /\ NamedOnce'
  <2>1. /\ \A s \in Announced' : s \in Announced
        /\ made => h.session \in Announced /\ h.session \notin Announced'
        /\ NamedOnce'
    BY <1>0, <1>1, TakeKeepsNames
  <2>2. nextID \in Nat
    BY ConstantsAssumption DEF TypeOK
  <2>3. \A s \in Announced : s # 0 /\ s \notin Held
    BY <2>2 DEF SessionInv, NamesAreNew
  <2>. HIDE DEF h, made
  <2>. QED  BY <2>1, <2>3
<1>3. handles \in [IDs -> SessionIDs] /\ handles' \in [IDs -> SessionIDs]
  BY DEF TypeOK
<1>4. \A i \in IDs : handles'[i] = IF i = call[c].id /\ made THEN h.session
                                   ELSE handles[i]
  BY <1>1, <1>3 DEF KeepSession
<1>. HIDE DEF h, made
<1>5. \A i \in Objects : i \in Objects'
  BY <1>2, <1>4 DEF Objects
<1>6. \A s \in Held' : s \in Held \/ (made /\ s = h.session)
  BY <1>4 DEF Held, Objects
<1>7. \A s \in Pending' : s \in Pending
  BY <1>0, <1>1 DEF Pending, AtWork
<1>8. NamesAreNew'
  BY <1>1, <1>2, <1>6, <1>7 DEF SessionInv, NamesAreNew
<1>9. SessionsApart'
  <2>. SUFFICES ASSUME NEW i \in Objects', NEW j \in Objects',
                       handles'[i] = handles'[j]
                PROVE  i = j
    BY DEF SessionsApart
  <2>1. \A k \in Objects' : \/ k \in Objects /\ handles'[k] = handles[k]
                            \/ made /\ k = call[c].id /\ handles'[k] = h.session
    BY <1>4 DEF Objects
  <2>2. \A k \in Objects : handles[k] \in Held
    BY DEF Held
  <2>. QED
    BY <1>2, <2>1, <2>2 DEF SessionInv, SessionsAreHeld, SessionsApart
<1>. QED  BY <1>2, <1>5, <1>8, <1>9

\* An object is made of the session its request opened, and a session is ended
\* for good.
LEMMA ReadAnswerHolds ==
    ASSUME TypeOK, TypeOK', AgentInv, SessionInv, NEW c \in Callers, ReadAnswer(c)
    PROVE  SessionInv'
<1>. DEFINE h == Head(responses)
            made == call[c].method = "open" /\ h.kind = "opened"
<1>1. /\ UNCHANGED <<agentVars, requests, client, nextID, call, waiter, closed,
                     abandoned>>
      /\ Take(c) /\ pc[c] = "read" /\ call[c].method # "stream"
      /\ mu = c /\ mu' = NoCaller /\ agent # "none"
      /\ pc'[c] \in {"idle", "kill"}
      /\ \A d \in Callers \ {c} : pc'[d] = pc[d]
      /\ KeepSession(c, h) /\ responses # <<>>
  BY ReadAnswerShape DEF Take
<1>2. /\ NamesAreNew' /\ NamedOnce' /\ SessionsApart'
      /\ \A i \in Objects : i \in Objects'
  BY ReadAnswerNames
<1>3. /\ handles \in [IDs -> SessionIDs] /\ handles' \in [IDs -> SessionIDs]
      /\ call[c].id \in 0..MaxCalls
  BY DEF TypeOK, Requests
<1>4. \A i \in IDs : handles'[i] = IF i = call[c].id /\ made THEN h.session
                                   ELSE handles[i]
  BY <1>1, <1>3 DEF KeepSession
<1>5. made => h.session = h.id /\ h.session \notin Held /\ h.session \in 1..nextID
  BY <1>1, TakeKeepsNames DEF SessionInv, NamesAreNew
<1>6. ~abandoned => h.id = call[c].id
  BY <1>1, NextLine
<1>7. ~abandoned => /\ call[c].method = "end" => call[c].session \notin sessions
                    /\ call[c].method = "open" =>
                          h.kind = "opened" \/ call[c].id \notin sessions
  BY <1>1 DEF SessionInv, AnswersAreTrue
<1>8. /\ \A i \in ended' : \/ i \in ended
                           \/ /\ i \in Objects /\ call[c].method = "end"
                              /\ handles[i] = call[c].session
      /\ \A i \in closed : i \in Objects
      /\ \A i \in ended : i \in Objects
  BY DEF ReadAnswer, SessionInv, LocalsOK
<1>9. \A s \in sessions : s \in IDs
  <2>1. \A s \in sessions : s \in 1..nextID
    BY DEF SessionInv, NamesAreNew
  <2>. QED  BY <2>1, ConstantsAssumption DEF TypeOK, IDs
<1>. HIDE DEF h, made
<1>10. \A i \in Objects : i \in IDs /\ handles[i] \in Held
  BY DEF Objects, Held
<1>11. NobodyBefore' /\ LocalsOK'
  <2>1. \A i \in closed' \cup ended' : i \in Objects'
    BY <1>1, <1>2, <1>8
  <2>2. Running' = Running
    BY <1>1 DEF Running
  <2>. QED
    BY <1>1, <2>1, <2>2 DEF SessionInv, NobodyBefore, LocalsOK
<1>12. ASSUME ~abandoned
       PROVE  ObjectsAreOwn'
  BY <1>4, <1>5, <1>6, <1>12 DEF SessionInv, ObjectsAreOwn, Objects
<1>13. ASSUME ~abandoned, NEW i \in Objects
       PROVE  handles[i] = i /\ handles'[i] = i /\ (made => i # h.session)
  BY <1>4, <1>5, <1>6, <1>10, <1>13 DEF SessionInv, ObjectsAreOwn
<1>14. EndedSessionsAreGone'
  <2>. SUFFICES ASSUME ~abandoned, NEW i \in ended'
                PROVE  handles'[i] \notin sessions
    BY <1>1 DEF EndedSessionsAreGone
  <2>1. CASE i \in ended
    BY <1>8, <1>13, <2>1 DEF SessionInv, SessionsAreHeld, EndedSessionsAreGone
  <2>2. CASE i \in Objects /\ call[c].method = "end" /\ handles[i] = call[c].session
    BY <1>7, <1>13, <2>2
  <2>. QED  BY <1>8, <2>1, <2>2
<1>15. NoSessionIsLost'
  <2>. SUFFICES ASSUME ~abandoned, NEW s \in sessions
                PROVE  \/ handles'[s] = s /\ s \notin closed
                       \/ \E d \in Callers : IsAbout(d, s)'
    BY <1>1 DEF NoSessionIsLost
  <2>1. CASE handles[s] = s /\ s \notin closed
    BY <1>4, <1>5, <1>6, <1>9, <2>1
  <2>2. CASE IsAbout(c, s)
    <3>1. made /\ s = call[c].id /\ s = h.session
      BY <1>5, <1>6, <1>7, <2>2 DEF IsAbout, made
    <3>2. handles'[s] = s
      BY <1>4, <1>9, <3>1
    <3>3. s \notin closed
      BY <1>8, <1>13, <3>1
    <3>. QED  BY <3>2, <3>3
  <2>3. ASSUME NEW d \in Callers \ {c}, IsAbout(d, s) PROVE IsAbout(d, s)'
    BY <1>1, <2>3 DEF IsAbout
  <2>. QED
    BY <2>1, <2>2, <2>3 DEF SessionInv, SessionsAreHeld, NoSessionIsLost
<1>16. AnswersAreTrue'
  BY <1>1, ConstantsAssumption DEF AnswersAreTrue
<1>. QED
  BY <1>1, <1>2, <1>11, <1>12, <1>14, <1>15, <1>16 DEF SessionInv, SessionsAreHeld

----------------------------------------------------------------------------
(* Replies.                                                                *)

\* A request was at work, and its last line goes out: what becomes of the
\* sessions is in the hypotheses.
LEMMA ReplyHolds ==
    ASSUME TypeOK, TypeOK', AgentInv, SessionInv, agent = "busy",
           NEW k \in Kinds, NEW s \in SessionIDs, Reply(k, s),
           k = "opened" => work.method = "open" /\ s = work.id,
           \A t \in sessions' : t \in sessions \/ (k = "opened" /\ t = work.id),
           work.method = "end" => work.session \notin sessions'
    PROVE  SessionInv'
<1>. DEFINE line == [id |-> work.id, kind |-> k, session |-> s]
<1>1. /\ UNCHANGED <<requests, clientVars, callVars, sessionVars, historyVars>>
      /\ responses' = Append(responses, line)
      /\ AtWork /\ ~AtWork' /\ agent' = "idle" /\ Running'
  BY DEF Reply, Write, AtWork, Running
<1>2. line \in Responses
  BY DEF TypeOK, Responses, Requests, SessionIDs
<1>3. /\ Len(responses) \in Nat
      /\ \A j \in DOMAIN responses' :
            \/ j \in DOMAIN responses /\ responses'[j] = responses[j]
            \/ j = Len(responses) + 1 /\ responses'[j] = line
  BY <1>1, <1>2, AppendLast DEF TypeOK
<1>4. line.id = work.id /\ line.kind = k /\ line.session = s
  OBVIOUS
<1>. HIDE DEF line
<1>5. Objects' = Objects /\ Held' = Held /\ Writing' = Writing
  BY <1>1 DEF Objects, Held, Writing
<1>6. \A j \in Opened' :
          \/ j \in Opened /\ responses'[j] = responses[j]
          \/ j = Len(responses) + 1 /\ responses'[j] = line /\ k = "opened"
  BY <1>3, <1>4 DEF Opened
<1>7. \A t \in Announced' : t \in Announced \/ (k = "opened" /\ t = work.id)
  BY <1>4, <1>6 DEF Announced
<1>8. \A j \in Opened : responses[j].session \in Announced
  BY DEF Announced
<1>9. /\ \A t \in Pending' : t \in Pending /\ t # work.id
      /\ work.id \in Pending
  BY <1>1, <1>5 DEF Pending, SessionInv, NamedOnce
<1>10. /\ work.id \in 1..nextID /\ work.id \notin Announced
       /\ work.id \notin Held /\ work.id \notin sessions
  BY <1>9 DEF SessionInv, NamesAreNew
<1>11. NamesAreNew'
  <2>1. \A t \in Pending' \cup Announced' \cup Held' \cup sessions' : t \in 1..nextID'
    BY <1>1, <1>5, <1>7, <1>9, <1>10 DEF SessionInv, NamesAreNew
  <2>2. \A t \in Pending' : t \notin Announced' \cup Held' \cup sessions'
    BY <1>5, <1>7, <1>9 DEF SessionInv, NamesAreNew
  <2>3. \A t \in Announced' : t \notin Held'
    BY <1>5, <1>7, <1>10 DEF SessionInv, NamesAreNew
  <2>. QED  BY <2>1, <2>2, <2>3 DEF NamesAreNew
<1>12. NamedOnce'
  <2>1. \A i, j \in Opened' : responses'[i].session = responses'[j].session => i = j
    BY <1>4, <1>6, <1>8, <1>10 DEF SessionInv, NamedOnce
  <2>2. \A j \in Opened' : responses'[j].session = responses'[j].id
    BY <1>4, <1>6 DEF SessionInv, NamedOnce
  <2>. QED  BY <1>1, <1>5, <2>1, <2>2 DEF SessionInv, NamedOnce
<1>13. NobodyBefore' /\ LocalsOK'
  BY <1>1, <1>5 DEF SessionInv, NobodyBefore, LocalsOK
<1>14. SessionsApart' /\ (ObjectsAreOwn => ObjectsAreOwn')
  BY <1>1, <1>5 DEF SessionInv, SessionsAreHeld, SessionsApart, ObjectsAreOwn
<1>15. EndedSessionsAreGone'
  <2>1. \A i \in ended : handles[i] \in Held
    BY DEF SessionInv, LocalsOK, Held
  <2>. QED
    BY <1>1, <1>10, <2>1 DEF SessionInv, SessionsAreHeld, EndedSessionsAreGone
<1>16. ASSUME ~abandoned
       PROVE  \E c \in Callers :
                 /\ mu = c /\ work = call[c]
                 /\ work.method # "stream" => responses = <<>> /\ pc[c] = "read"
  <2>1. PICK c \in Callers :
              /\ mu = c /\ work = call[c] /\ pc[c] # "write"
              /\ \A j \in DOMAIN responses : call[c].method = "stream"
    BY <1>16, Working
  <2>2. work.method # "stream" => responses = <<>>
    <3>1. ASSUME responses # <<>> PROVE 1 \in DOMAIN responses
      BY <3>1, HeadTail DEF TypeOK
    <3>. QED  BY <2>1, <3>1
  <2>3. work.method # "stream" => pc[c] = "read"
    BY <2>1 DEF AgentInv, MutexIsHeld, SessionInv, LocalsOK
  <2>. QED  BY <2>1, <2>2, <2>3
<1>17. NoSessionIsLost'
  <2>. SUFFICES ASSUME ~abandoned, NEW t \in sessions'
                PROVE  \/ handles[t] = t /\ t \notin closed
                       \/ \E d \in Callers : IsAbout(d, t)
    BY <1>1 DEF NoSessionIsLost, IsAbout
  <2>1. CASE t \in sessions
    BY <2>1 DEF SessionInv, SessionsAreHeld, NoSessionIsLost
  <2>2. CASE k = "opened" /\ t = work.id
    <3>1. \E c \in Callers : IsAbout(c, t)
      BY <1>16, <2>2 DEF IsAbout
    <3>. QED  BY <3>1
  <2>. QED  BY <2>1, <2>2
<1>18. abandoned \/ AnswersAreTrue'
  <2>. SUFFICES ASSUME ~abandoned, NEW c \in Callers, mu' = c
                PROVE  /\ call[c].method = "end" => call[c].session \notin sessions'
                       /\ call[c].method = "open" =>
                             Head(responses').kind = "opened" \/ call[c].id \notin sessions'
    BY <1>1 DEF AnswersAreTrue
  <2>1. work = call[c] /\ (work.method # "stream" => responses = <<>>)
    BY <1>1, <1>16
  <2>2. work.method = "open" => Head(responses') = line
    BY <1>1, <1>2, <2>1
  <2>3. work.method = "open" => k = "opened" \/ work.id \notin sessions'
    BY <1>10
  <2>. QED  BY <1>4, <2>1, <2>2, <2>3
<1>. QED
  BY <1>1, <1>11, <1>12, <1>13, <1>14, <1>15, <1>17, <1>18
  DEF SessionInv, SessionsAreHeld

\* A chunk of a stream.
LEMMA ChunkHolds ==
    ASSUME TypeOK, TypeOK', AgentInv, SessionInv, StreamChunk
    PROVE  SessionInv'
<1>1. PICK k \in Kinds : k \in Chunks /\ Write(k, 0)
  BY DEF StreamChunk, Kinds, Chunks
<1>. DEFINE line == [id |-> work.id, kind |-> k, session |-> 0]
<1>2. /\ UNCHANGED <<agent, work, sessions, requests, clientVars, callVars,
                     sessionVars, historyVars>>
      /\ responses' = Append(responses, line)
      /\ agent = "busy" /\ work.method = "stream"
  BY <1>1 DEF StreamChunk, Write
<1>3. line \in Responses /\ line.kind # "opened"
  BY <1>1, Constants DEF TypeOK, Responses, Requests, SessionIDs, Chunks
<1>. HIDE DEF line
<1>4. \A j \in DOMAIN responses' :
          \/ j \in DOMAIN responses /\ responses'[j] = responses[j]
          \/ responses'[j] = line
  BY <1>2, <1>3, AppendLast DEF TypeOK
<1>5. \A j \in Opened' : j \in Opened /\ responses'[j] = responses[j]
  BY <1>3, <1>4 DEF Opened
<1>6. /\ AtWork' = AtWork /\ Running' = Running /\ Objects' = Objects
      /\ Held' = Held /\ Pending' = Pending /\ Writing' = Writing
      /\ \A s \in Announced' : s \in Announced
  BY <1>2, <1>5 DEF AtWork, Running, Objects, Held, Pending, Writing, Announced
<1>7. NamesAreNew'
  <2>1. nextID \in Nat /\ nextID' \in Nat /\ nextID <= nextID'
    BY <1>2, ConstantsAssumption DEF TypeOK
  <2>. QED  BY <1>2, <1>6, <2>1, NamesKept DEF SessionInv
<1>8. NamedOnce'
  <2>1. \A i, j \in Opened' : responses'[i].session = responses'[j].session => i = j
    BY <1>5 DEF SessionInv, NamedOnce
  <2>2. \A j \in Opened' : responses'[j].session = responses'[j].id
    BY <1>5 DEF SessionInv, NamedOnce
  <2>. QED  BY <1>2, <1>6, <2>1, <2>2 DEF SessionInv, NamedOnce
<1>9. NobodyBefore' /\ LocalsOK'
  BY <1>2, <1>6 DEF SessionInv, NobodyBefore, LocalsOK
<1>10. SessionsApart' /\ (ObjectsAreOwn => ObjectsAreOwn')
  BY <1>2, <1>6 DEF SessionInv, SessionsAreHeld, SessionsApart, ObjectsAreOwn
<1>11. EndedSessionsAreGone' /\ NoSessionIsLost'
  <2>1. \A d \in Callers, s \in sessions : IsAbout(d, s) => IsAbout(d, s)'
    BY <1>2 DEF IsAbout
  <2>. QED  BY <1>2, <2>1, StillHeld
<1>12. abandoned \/ AnswersAreTrue'
  <2>1. ASSUME ~abandoned, NEW c \in Callers, mu = c
        PROVE  call[c].method = "stream"
    BY <1>2, <2>1, Working
  <2>. QED  BY <1>2, <2>1 DEF AnswersAreTrue
<1>. QED
  BY <1>2, <1>7, <1>8, <1>9, <1>10, <1>11, <1>12 DEF SessionInv, SessionsAreHeld

LEMMA AgentStepHolds ==
    ASSUME TypeOK, TypeOK', AgentInv, SessionInv, AgentStep
    PROVE  SessionInv'
<1>0. 0 \in SessionIDs /\ (AtWork => work.id \in SessionIDs)
  BY Constants DEF SessionIDs, TypeOK, Requests
<1>1. CASE ReplyToStatement
  <2>1. PICK k \in Kinds \ {"opened"} : Reply(k, 0)
    BY <1>1 DEF ReplyToStatement, Kinds
  <2>2. agent = "busy" /\ work.method # "end" /\ sessions' = sessions
    BY <1>1 DEF ReplyToStatement
  <2>. QED  BY <1>0, <2>1, <2>2, ReplyHolds
<1>2. CASE ReplyToOpen
  <2>1. agent = "busy" /\ work.method = "open" /\ AtWork
    BY <1>2 DEF ReplyToOpen, AtWork
  <2>2. CASE Reply("opened", work.id) /\ sessions' = sessions \cup {work.id}
    <3>1. "opened" \in Kinds
      BY DEF Kinds
    <3>. QED  BY <1>0, <2>1, <2>2, <3>1, ReplyHolds
  <2>3. CASE Reply("fail", 0) /\ sessions' = sessions
    <3>1. "fail" \in Kinds
      BY DEF Kinds
    <3>. QED  BY <1>0, <2>1, <2>3, <3>1, ReplyHolds
  <2>. QED  BY <1>2, <2>2, <2>3 DEF ReplyToOpen
<1>3. CASE ReplyToEnd
  <2>1. PICK k \in Kinds \ {"opened"} : Reply(k, 0)
    BY <1>3 DEF ReplyToEnd, Kinds
  <2>2. agent = "busy" /\ sessions' = sessions \ {work.session}
    BY <1>3 DEF ReplyToEnd
  <2>. QED  BY <1>0, <2>1, <2>2, ReplyHolds
<1>4. CASE ReplyToClose
  <2>1. PICK k \in Kinds \ {"opened"} : Reply(k, 0)
    BY <1>4 DEF ReplyToClose, Kinds
  <2>2. agent = "busy" /\ sessions' = {}
    BY <1>4 DEF ReplyToClose
  <2>. QED  BY <1>0, <2>1, <2>2, ReplyHolds
<1>5. CASE StreamEnd
  <2>1. PICK k \in Kinds \ {"opened"} : Reply(k, 0)
    BY <1>5 DEF StreamEnd, Kinds
  <2>2. agent = "busy" /\ work.method # "end" /\ sessions' = sessions
    BY <1>5 DEF StreamEnd
  <2>. QED  BY <1>0, <2>1, <2>2, ReplyHolds
<1>. QED
  BY <1>1, <1>2, <1>3, <1>4, <1>5, TakeRequestHolds, ChunkHolds DEF AgentStep

----------------------------------------------------------------------------
\* Every step keeps the sessions in order.
LEMMA SessionStep ==
    ASSUME TypeOK, TypeOK', AgentInv, SessionInv, [Next]_vars
    PROVE  SessionInv'
<1>1. CASE UNCHANGED vars
  BY <1>1, WaitHolds
<1>2. ASSUME NEW c \in Callers, Expire(c) \/ Close(c) PROVE SessionInv'
  <2>1. /\ Gone
        /\ UNCHANGED <<responses, call, mu, nextID, sessionVars, historyVars>>
        /\ \A d \in Callers : pc'[d] \in {pc[d], "idle"}
    <3>1. CASE Expire(c)  BY <3>1 DEF Expire
    <3>2. CASE Close(c)   BY <3>2 DEF Close, Finish, TypeOK
    <3>. QED  BY <1>2, <3>1, <3>2
  <2>. QED  BY <2>1, GoneHolds
<1>3. CASE Exit
  BY <1>3, GoneHolds DEF Exit
<1>4. ASSUME NEW c \in Callers, SendStep(c) \/ WriteStep(c) \/ ReadStep(c)
      PROVE  SessionInv'
  BY <1>4, SendHolds, SendLongHolds, WrittenHolds, NoAgentHolds, StreamReadHolds,
     ReadAnswerHolds
  DEF SendStep, WriteStep, ReadStep
<1>5. ASSUME Hang \/ \E c \in Callers : Receive(c) \/ GiveUp(c) PROVE SessionInv'
  BY <1>5, WaitHolds
<1>6. CASE Next
  BY <1>2, <1>3, <1>4, <1>5, <1>6, BeginHolds, BeginInSessionHolds,
     ConnectHolds, AgentStepHolds
  DEF Next
<1>. QED  BY <1>1, <1>6

----------------------------------------------------------------------------
(* Nobody waits for ever on a pipe.                                        *)

\* The answer of a reader that reads on stays on its way: its request moves on
\* to the agent, its last line is not a chunk.
LEMMA ComingInit == Init => AnswerIsComing
  BY DEF Init, AnswerIsComing, Running

\* Nothing is taken off the pipes, and no agent comes up.
LEMMA StillComing ==
    ASSUME AnswerIsComing, UNCHANGED <<work, responses>>,
           Running' => Running /\ requests' = requests /\ (AtWork' <=> AtWork),
           \A c \in Callers : pc'[c] \in {"read", "rows"} =>
                              pc[c] \in {"read", "rows"} /\ call'[c] = call[c]
    PROVE  AnswerIsComing'
  BY DEF AnswerIsComing

LEMMA ComingTake ==
    ASSUME TypeOK, AgentInv, AnswerIsComing, NEW c \in Callers, ReadStep(c)
    PROVE  AnswerIsComing'
<1>1. CASE ReadChunk(c)
  <2>1. /\ UNCHANGED <<agentVars, requests, mu, call>> /\ Head(responses).kind \in Chunks
        /\ responses # <<>> /\ responses' = Tail(responses)
        /\ \A d \in Callers : pc'[d] \in {"read", "rows"} => pc[d] \in {"read", "rows"}
    BY <1>1 DEF ReadChunk, Take, Chunks, TypeOK
  <2>2. (AtWork' <=> AtWork) /\ (Running' <=> Running)
    BY <2>1 DEF AtWork, Running
  <2>3. \A k \in DOMAIN responses : responses[k].kind \notin Chunks =>
            k - 1 \in DOMAIN responses' /\ responses'[k - 1] = responses[k]
    <3>1. /\ DOMAIN responses = 1..Len(responses) /\ Len(responses) \in Nat \ {0}
          /\ Head(responses) = responses[1]
      BY <2>1 DEF TypeOK
    <3>2. /\ DOMAIN Tail(responses) = 1..(Len(responses) - 1)
          /\ \A k \in 1..(Len(responses) - 1) : Tail(responses)[k] = responses[k + 1]
      BY <2>1, <3>1, HeadTail DEF TypeOK
    <3>3. ASSUME NEW k \in 1..Len(responses), k # 1
          PROVE  k - 1 \in 1..(Len(responses) - 1) /\ (k - 1) + 1 = k
      BY <3>1, <3>3
    <3>. QED  BY <2>1, <3>1, <3>2, <3>3
  <2>. QED  BY <2>1, <2>2, <2>3 DEF AnswerIsComing
<1>2. CASE ReadFails(c) \/ ReadAnswer(c) \/ ReadEnd(c) \/ LeaveStream(c) \/ FallBack(c)
  <2>1. mu' = NoCaller
    BY <1>2 DEF ReadFails, ReadAnswer, ReadEnd, LeaveStream, FallBack
  <2>2. MutexIsHeld'
    BY ReadStepInv DEF AgentInv
  <2>. QED  BY <2>1, <2>2, ConstantsAssumption DEF AnswerIsComing, MutexIsHeld
<1>. QED  BY <1>1, <1>2 DEF ReadStep

LEMMA ComingCall ==
    ASSUME TypeOK, AgentInv, AnswerIsComing, NEW c \in Callers
    PROVE  /\ \A m \in Methods : Begin(c, m) => AnswerIsComing'
           /\ \A m \in Methods, i \in IDs : BeginInSession(c, m, i) => AnswerIsComing'
           /\ SendStep(c) \/ WriteStep(c) => AnswerIsComing'
           /\ Receive(c) \/ Expire(c) \/ GiveUp(c) \/ Close(c) => AnswerIsComing'
<1>1. ASSUME Send(c) PROVE AnswerIsComing'
  <2>1. call'[c] \in Requests /\ requests' = Append(requests, call'[c]) /\ mu' = c
    BY <1>1, NumberType DEF Send
  <2>2. /\ Len(requests) + 1 \in DOMAIN requests'
        /\ requests'[Len(requests) + 1] = call'[c]
    BY <2>1 DEF TypeOK
  <2>3. MutexIsHeld'
    BY <1>1, SendInv DEF AgentInv
  <2>. QED  BY <2>1, <2>2, <2>3 DEF AnswerIsComing, MutexIsHeld
<1>2. ASSUME SendFails(c) \/ WriteFails(c) PROVE AnswerIsComing'
  <2>1. ~Running'
    BY <1>2 DEF SendFails, WriteFails, Running
  <2>. QED  BY <2>1 DEF AnswerIsComing
<1>3. ASSUME NEW m \in Methods, Begin(c, m) PROVE AnswerIsComing'
  <2>1. /\ UNCHANGED <<agentVars, pipeVars, mu>>
        /\ \A d \in Callers : pc'[d] \in {"read", "rows"} =>
               pc'[d] = pc[d] /\ call'[d] = call[d]
    BY <1>3 DEF Begin, Ask, TypeOK
  <2>2. (AtWork' <=> AtWork) /\ (Running' <=> Running)
    BY <2>1 DEF AtWork, Running
  <2>. QED  BY <2>1, <2>2, StillComing
<1>4. ASSUME NEW m \in Methods, NEW i \in IDs, BeginInSession(c, m, i)
      PROVE  AnswerIsComing'
  <2>1. /\ UNCHANGED <<agentVars, pipeVars, mu>>
        /\ \A d \in Callers : pc'[d] \in {"read", "rows"} =>
               pc'[d] = pc[d] /\ call'[d] = call[d]
    BY <1>4 DEF BeginInSession, Ask, TypeOK
  <2>2. (AtWork' <=> AtWork) /\ (Running' <=> Running)
    BY <2>1 DEF AtWork, Running
  <2>. QED  BY <2>1, <2>2, StillComing
<1>5. ASSUME Receive(c) \/ GiveUp(c) PROVE AnswerIsComing'
  <2>1. UNCHANGED <<agentVars, pipeVars, pc, call>>
    BY <1>5 DEF Receive, GiveUp
  <2>2. (AtWork' <=> AtWork) /\ (Running' <=> Running)
    BY <2>1 DEF AtWork, Running
  <2>. QED  BY <2>1, <2>2, StillComing
<1>6. ASSUME Expire(c) \/ Close(c) PROVE AnswerIsComing'
  <2>1. ~Running'
    BY <1>6 DEF Expire, Close, Gone, Running
  <2>. QED  BY <2>1 DEF AnswerIsComing
<1>7. ASSUME SendLong(c) PROVE AnswerIsComing'
  <2>1. mu' = c /\ pc'[c] = "write"
    BY <1>7 DEF SendLong, TypeOK
  <2>2. MutexIsHeld'
    BY <1>7, SendLongInv DEF AgentInv
  <2>. QED  BY <2>1, <2>2 DEF AnswerIsComing, MutexIsHeld
<1>8. ASSUME Written(c) PROVE AnswerIsComing'
  <2>1. /\ requests' = <<call[c]>> /\ call' = call /\ mu' = mu
        /\ pc[c] = "write" /\ pc'[c] = "read"
    BY <1>8 DEF Written, TypeOK
  <2>2. MutexIsHeld /\ MutexIsHeld'
    BY <1>8, WriteInv DEF AgentInv, WriteStep
  <2>3. \A d \in Callers : pc'[d] \in {"read", "rows"} => d = c
    BY <2>1, <2>2 DEF MutexIsHeld
  <2>4. 1 \in DOMAIN requests' /\ requests'[1] = call'[c]
    BY <2>1
  <2>. QED  BY <2>3, <2>4 DEF AnswerIsComing
<1>. QED  BY <1>1, <1>2, <1>3, <1>4, <1>5, <1>6, <1>7, <1>8 DEF SendStep, WriteStep

\* A line is added, and only a last one ends the work.
LEMMA ComingLine ==
    ASSUME TypeOK, AnswerIsComing, agent = "busy",
           NEW k \in Kinds, NEW s \in SessionIDs, Write(k, s),
           \/ agent' = "busy" /\ work' = work
           \/ k \notin Chunks
    PROVE  AnswerIsComing'
<1>. DEFINE line == [id |-> work.id, kind |-> k, session |-> s]
<1>1. line \in Responses /\ line.id = work.id /\ line.kind = k
  BY DEF TypeOK, Responses, Requests, SessionIDs
<1>2. /\ UNCHANGED <<requests, pc, call>>
      /\ responses' = Append(responses, line) /\ AtWork /\ Running
      /\ agent' = "busy" => AtWork'
  BY DEF Write, AtWork, Running
<1>. HIDE DEF line
<1>3. /\ Len(responses) + 1 \in DOMAIN responses'
      /\ responses'[Len(responses) + 1] = line
      /\ \A j \in DOMAIN responses :
            j \in DOMAIN responses' /\ responses'[j] = responses[j]
  BY <1>1, <1>2 DEF TypeOK
<1>. QED  BY <1>1, <1>2, <1>3 DEF AnswerIsComing

LEMMA ComingAgent ==
    ASSUME TypeOK, AgentInv, AnswerIsComing, AgentStep \/ Hang \/ Exit \/ Connect
    PROVE  AnswerIsComing'
<1>1. CASE TakeRequest
  <2>1. /\ UNCHANGED <<responses, pc, call>> /\ ~AtWork /\ Running /\ AtWork'
        /\ work' = Head(requests) /\ requests # <<>> /\ requests' = Tail(requests)
    BY <1>1 DEF TakeRequest, AtWork, Running
  <2>2. /\ DOMAIN requests = 1..Len(requests) /\ Len(requests) \in Nat \ {0}
        /\ Head(requests) = requests[1]
        /\ DOMAIN Tail(requests) = 1..(Len(requests) - 1)
        /\ \A k \in 1..(Len(requests) - 1) : Tail(requests)[k] = requests[k + 1]
    BY <2>1, HeadTail DEF TypeOK
  <2>3. ASSUME NEW k \in 1..Len(requests), k # 1
        PROVE  k - 1 \in 1..(Len(requests) - 1) /\ (k - 1) + 1 = k
    BY <2>2, <2>3
  <2>4. \A k \in DOMAIN requests :
            \/ work' = requests[k]
            \/ k - 1 \in DOMAIN requests' /\ requests'[k - 1] = requests[k]
    BY <2>1, <2>2, <2>3
  <2>. SUFFICES ASSUME NEW c \in Callers, pc[c] \in {"read", "rows"}
                PROVE  \/ \E k \in DOMAIN requests' : requests'[k] = call[c]
                       \/ work' = call[c]
                       \/ \E k \in DOMAIN responses :
                             /\ responses[k].id = call[c].id
                             /\ responses[k].kind \notin Chunks
    BY <2>1 DEF AnswerIsComing
  <2>5. \/ \E k \in DOMAIN requests : requests[k] = call[c]
        \/ \E k \in DOMAIN responses :
              responses[k].id = call[c].id /\ responses[k].kind \notin Chunks
    BY <2>1 DEF AnswerIsComing
  <2>. QED  BY <2>4, <2>5
<1>2. CASE \E k \in Kinds \ Chunks, s \in SessionIDs : Reply(k, s) /\ agent = "busy"
  BY <1>2, ComingLine DEF Reply
<1>3. CASE StreamChunk
  <2>1. PICK k \in Kinds : Write(k, 0)
    BY <1>3 DEF StreamChunk, Kinds
  <2>2. agent = "busy" /\ agent' = "busy" /\ work' = work /\ 0 \in SessionIDs
    BY <1>3, Constants DEF StreamChunk, SessionIDs
  <2>. QED  BY <2>1, <2>2, ComingLine
<1>4. CASE Hang
  <2>1. /\ UNCHANGED <<work, pipeVars, pc, call>> /\ AtWork /\ AtWork' /\ Running
    BY <1>4 DEF Hang, AtWork, Running
  <2>. QED  BY <2>1, StillComing
<1>5. CASE Exit
  <2>1. ~Running'
    BY <1>5 DEF Exit, Gone, Running
  <2>. QED  BY <2>1 DEF AnswerIsComing
<1>6. CASE Connect
  <2>1. mu = NoCaller /\ pc' = pc
    BY <1>6 DEF Connect, AgentInv, NothingBefore
  <2>. QED  BY <2>1, ConstantsAssumption DEF AnswerIsComing, AgentInv, MutexIsHeld
<1>7. ASSUME ReplyToStatement \/ ReplyToOpen \/ ReplyToEnd \/ ReplyToClose \/ StreamEnd
      PROVE  \E k \in Kinds \ Chunks, s \in SessionIDs : Reply(k, s) /\ agent = "busy"
  <2>1. 0 \in SessionIDs /\ work.id \in SessionIDs
    BY Constants DEF SessionIDs, TypeOK, Requests
  <2>2. CASE ReplyToStatement
    BY <2>1, <2>2 DEF ReplyToStatement, Kinds, Chunks
  <2>3. CASE ReplyToOpen
    BY <2>1, <2>3 DEF ReplyToOpen, Kinds, Chunks
  <2>4. CASE ReplyToEnd
    BY <2>1, <2>4 DEF ReplyToEnd, Kinds, Chunks
  <2>5. CASE ReplyToClose
    BY <2>1, <2>5 DEF ReplyToClose, Kinds, Chunks
  <2>6. CASE StreamEnd
    BY <2>1, <2>6 DEF StreamEnd, Kinds, Chunks
  <2>. QED  BY <1>7, <2>2, <2>3, <2>4, <2>5, <2>6
<1>. QED  BY <1>1, <1>2, <1>3, <1>4, <1>5, <1>6, <1>7 DEF AgentStep

LEMMA ComingStep ==
    ASSUME TypeOK, AgentInv, AnswerIsComing, [Next]_vars
    PROVE  AnswerIsComing'
<1>1. CASE UNCHANGED vars
  BY <1>1 DEF vars, AnswerIsComing, AtWork, Running
<1>2. CASE Next
  BY <1>2, ComingCall, ComingTake, ComingAgent DEF Next
<1>. QED  BY <1>1, <1>2

\* Whoever waits for the mutex waits for a writer or a reader, a reader for a
\* line, a writer for the agent to read, and the agent for room or a request.
LEMMA SomebodyGoesOn ==
    ASSUME TypeOK, AgentInv, AnswerIsComing
    PROVE  NobodyIsStuck
<1>1. MutualWait => abandoned
  <2>. SUFFICES ASSUME MutualWait, ~abandoned PROVE FALSE
    OBVIOUS
  <2>1. Unsent /\ Running /\ AtWork
    BY DEF MutualWait, Unsent, Running, AtWork
  <2>. QED  BY <2>1, Quiet
<1>2. ASSUME NEW c \in Callers, pc[c] # "idle", ~CanLock(c), ~CanWork,
             agent # "hung", ~MutualWait
      PROVE  \E d \in Callers : CanWrite(d) \/ CanRead(d)
  <2>1. mu # NoCaller
    BY <1>2, ConstantsAssumption DEF TypeOK, AgentInv, MutexIsHeld, CanLock
  <2>2. PICK d \in Callers : mu = d
    BY <2>1 DEF TypeOK
  <2>3. pc[d] \in {"write", "read", "rows"}
    BY <2>2 DEF AgentInv, MutexIsHeld
  <2>4. ASSUME pc[d] = "write", Running PROVE CanWrite(d)
    <3>1. agent # "busy"
      <4>1. Len(responses) \in Nat /\ PipeSize \in Nat
        BY ConstantsAssumption DEF TypeOK
      <4>. QED  BY <1>2, <2>4, <4>1 DEF CanWork, MutualWait
    <3>2. agent = "idle" /\ requests = <<>>
      BY <1>2, <2>4, <3>1 DEF CanWork, Running
    <3>. QED  BY <2>4, <3>2 DEF CanWrite
  <2>5. ASSUME pc[d] \in {"read", "rows"}, Running, responses = <<>> PROVE FALSE
    <3>1. \/ \E k \in DOMAIN requests : requests[k] = call[d]
          \/ AtWork
      BY <2>5 DEF AnswerIsComing
    <3>2. Len(responses) < PipeSize
      BY <2>5, ConstantsAssumption
    <3>3. requests # <<>> \/ AtWork
      BY <3>1
    <3>. QED  BY <1>2, <2>5, <3>2, <3>3 DEF CanWork, AtWork, Running
  <2>6. CanWrite(d) \/ CanRead(d)
    BY <2>3, <2>4, <2>5 DEF CanWrite, CanRead
  <2>. QED  BY <2>6
<1>. QED  BY <1>1, <1>2 DEF NobodyIsStuck

----------------------------------------------------------------------------
(***************************************************************************)
(* The types, the pairing of requests and answers, the names of the        *)
(* sessions and the progress of every call hold in every state.            *)
(***************************************************************************)
THEOREM AgentInvariance == Spec => []Inv
<1>. DEFINE I == TypeOK /\ AgentInv /\ SessionInv /\ AnswerIsComing
<1>1. Init => I
  BY InitHolds, SessionInit, ComingInit
<1>2. I /\ [Next]_vars => I'
  <2>. SUFFICES ASSUME TypeOK, AgentInv, SessionInv, AnswerIsComing, [Next]_vars
                PROVE  TypeOK' /\ AgentInv' /\ SessionInv' /\ AnswerIsComing'
    OBVIOUS
  <2>1. TypeOK' /\ AgentInv'
    BY NextInv
  <2>2. SessionInv'
    BY <2>1, SessionStep
  <2>3. AnswerIsComing'
    BY ComingStep
  <2>. QED  BY <2>1, <2>2, <2>3
<1>3. I => Inv
  BY SomebodyGoesOn DEF Inv
<1>. QED  BY <1>1, <1>2, <1>3, PTL DEF Spec

(***************************************************************************)
(* As long as no stream was left before its end, a call of the driver      *)
(* agent's client never reads the answer to another request, whatever      *)
(* expires, fails or dies.                                                 *)
(***************************************************************************)
THEOREM NoAnswerAstray == Spec => []AnswersAreOwn
<1>1. Inv => AnswersAreOwn
  BY DEF Inv, AgentInv
<1>. QED  BY <1>1, AgentInvariance, PTL

(***************************************************************************)
(* Whatever expires, fails or dies on either side of the pipes: no two     *)
(* session objects of a connection use one session of the agent, and, as   *)
(* long as no stream was left before its end, a session whose Close was    *)
(* answered is gone from the agent and every session of the agent belongs  *)
(* to an object that is not closed or to a call under way.                 *)
(***************************************************************************)
THEOREM SessionsStayHeld == Spec => []SessionsAreHeld
<1>1. Inv => SessionsAreHeld
  BY DEF Inv, SessionInv
<1>. QED  BY <1>1, AgentInvariance, PTL

(***************************************************************************)
(* The client, in a write, and the agent, in its own, wait for each other  *)
(* only after a stream was left before its end.  Else, as long as the      *)
(* driver does not hang, a call that has begun can go on, or a writer, a   *)
(* reader or the agent can, with pipes of any size and after processes     *)
(* have died.                                                              *)
(***************************************************************************)
THEOREM CallsAreNotStuck == Spec => []NobodyIsStuck
<1>1. Inv => NobodyIsStuck
  BY DEF Inv
<1>. QED  BY <1>1, AgentInvariance, PTL
=============================================================================
