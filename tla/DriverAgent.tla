----------------------------- MODULE DriverAgent -----------------------------
(***************************************************************************)
(* One connection of an optional driver: optionalDriverAgentClient of      *)
(* internal/db/optional_driver_agent_impl.go, the agent process of         *)
(* cmd/optional-driver-agent/main.go, and the two pipes between them.      *)
(*                                                                         *)
(* Requests carry an id and answers repeat it, but the client takes the    *)
(* next line for its answer; that the lines are in step rests on c.mu and  *)
(* on reading every answer to its end.  The agent is one loop, so it       *)
(* serves one request at a time.  Data and error texts are left out: an    *)
(* answer is its id and its kind.  An agent session is named by the id of  *)
(* the request that opened it.  A request fits what is left of its pipe or *)
(* does not: then its write waits until the agent reads.                   *)
(***************************************************************************)
EXTENDS Naturals, Sequences, FiniteSets

CONSTANTS
    Callers,      \* goroutines that use the connection
    NoCaller,
    MaxCalls,     \* bound on request ids
    MaxChunks,    \* bound on the chunks of a stream before its end
    PipeSize      \* lines of answers that fit the pipe

ASSUME ConstantsAssumption ==
    /\ NoCaller \notin Callers
    /\ MaxCalls \in Nat \ {0} /\ MaxChunks \in Nat /\ PipeSize \in Nat \ {0}

VARIABLES
    agent,       \* the loop of the agent's main
    work,        \* the request it is at
    sent,        \* chunks of a stream it has written
    inst,        \* agentRuntime.inst is not nil
    sessions,    \* agentRuntime.sessions
    requests,    \* lines on the way to the agent
    responses,   \* lines on the way back
    client,      \* OptionalDriverAgentDB.client is not nil
    mu,          \* holder of optionalDriverAgentClient.mu
    nextID,
    pc, call,    \* the goroutine that talks to the agent and its request
    waiter,      \* the goroutine that waits for it under a context
    handles,     \* sessionID of the session objects, by the request that made them
    closed,      \* session objects with closed set
    ended,       \* session objects whose Close was answered
    abandoned,   \* a stream was left before its end
    strayed      \* an answer was taken for another request

agentVars == <<agent, work, sent, inst, sessions>>
pipeVars == <<requests, responses>>
clientVars == <<client, mu, nextID>>
callVars == <<pc, call, waiter>>
sessionVars == <<handles, closed, ended>>
historyVars == <<abandoned, strayed>>
vars == <<agentVars, pipeVars, clientVars, callVars, sessionVars, historyVars>>

IDs == 1..MaxCalls
SessionIDs == 0..MaxCalls        \* 0: no session
Methods == {"call", "bounded", "stream", "open", "statement", "end", "close"}
Requests == [method : Methods, id : 0..MaxCalls, session : SessionIDs]
Kinds == {"ok", "fail", "opened", "columns", "rows", "done"}
Chunks == {"columns", "rows"}
Responses == [id : 0..MaxCalls, kind : Kinds, session : SessionIDs]
NoRequest == [method |-> "call", id |-> 0, session |-> 0]

Running == agent \in {"idle", "busy", "hung"}

Init ==
    /\ agent = "none" /\ work = NoRequest /\ sent = 0
    /\ inst = FALSE /\ sessions = {}
    /\ requests = <<>> /\ responses = <<>>
    /\ client = FALSE /\ mu = NoCaller /\ nextID = 0
    /\ pc = [c \in Callers |-> "idle"]
    /\ call = [c \in Callers |-> NoRequest]
    /\ waiter = [c \in Callers |-> "none"]
    /\ handles = [i \in IDs |-> 0] /\ closed = {} /\ ended = {}
    /\ abandoned = FALSE /\ strayed = FALSE

\* A connected session object, by the id it was made with.
Objects == {i \in IDs : handles[i] # 0}

----------------------------------------------------------------------------
(* Calls.                                                                  *)

\* Connect: a process of its own, and the first call before anybody else has
\* the object; a failure of either closes the process again.
Connect ==
    /\ agent = "none"
    /\ agent' = "idle" /\ inst' = TRUE /\ client' = TRUE /\ nextID' = 1
    /\ UNCHANGED <<work, sent, sessions, pipeVars, mu, callVars, sessionVars,
                   historyVars>>

Ask(c, method, session) ==
    /\ pc' = [pc EXCEPT ![c] = "lock"]
    /\ call' = [call EXCEPT ![c] = [method |-> method, id |-> 0,
                                    session |-> session]]

\* Every call that was begun finds an id, and a second one if it falls back.
Spare == nextID + 2 * Cardinality({d \in Callers : pc[d] # "idle"}) + 2 <= MaxCalls

\* requireClient, and the methods of OptionalDriverAgentDB; those with a
\* context leave the call to a second goroutine and wait for it.  The cache
\* closes an object once (ClosedOnce of ConnectionCache).
Begin(c, method) ==
    /\ pc[c] = "idle" /\ waiter[c] = "none" /\ Spare
    /\ client
    /\ method \in {"call", "bounded", "stream", "open", "close"}
    /\ method = "close" => \A d \in Callers : pc[d] # "idle" => call[d].method # "close"
    /\ Ask(c, method, 0)
    /\ waiter' = [waiter EXCEPT ![c] = IF method = "bounded" THEN "waiting" ELSE @]
    /\ UNCHANGED <<agentVars, pipeVars, clientVars, sessionVars, historyVars>>

\* ensureOpen, and the methods of optionalDriverAgentSession.
BeginInSession(c, method, i) ==
    /\ pc[c] = "idle" /\ waiter[c] = "none" /\ Spare
    /\ i \in Objects \ closed
    /\ method \in {"statement", "stream", "end"}
    /\ Ask(c, method, handles[i])
    /\ closed' = IF method = "end" THEN closed \cup {i} ELSE closed
    /\ UNCHANGED <<agentVars, pipeVars, clientVars, waiter, handles, ended,
                   historyVars>>

\* The goroutine of a call ends.
Finish(c) == pc' = [pc EXCEPT ![c] = "idle"]

\* A Close goes on to client.close whatever its call returned.
Return(c) ==
    pc' = [pc EXCEPT ![c] = IF call[c].method = "close" THEN "kill" ELSE "idle"]

\* c.mu is free, and the request has its id.
Number(c) ==
    /\ pc[c] = "lock" /\ mu = NoCaller /\ nextID < MaxCalls
    /\ nextID' = nextID + 1
    /\ call' = [call EXCEPT ![c] = [call[c] EXCEPT !.id = nextID + 1]]

\* The line is written: the pipe has room for it ...
Send(c) ==
    /\ Number(c)
    /\ Running
    /\ requests' = Append(requests, call'[c])
    /\ mu' = c
    /\ pc' = [pc EXCEPT ![c] = "read"]
    /\ UNCHANGED <<agentVars, responses, client, waiter, sessionVars, historyVars>>

\* ... or it has not, and Write waits under c.mu ...
SendLong(c) ==
    /\ Number(c)
    /\ Running
    /\ mu' = c
    /\ pc' = [pc EXCEPT ![c] = "write"]
    /\ UNCHANGED <<agentVars, pipeVars, client, waiter, sessionVars, historyVars>>

\* ... until the agent reads the line.
Written(c) ==
    /\ pc[c] = "write"
    /\ agent = "idle" /\ requests = <<>>
    /\ requests' = <<call[c]>>
    /\ pc' = [pc EXCEPT ![c] = "read"]
    /\ UNCHANGED <<agentVars, responses, clientVars, call, waiter, sessionVars,
                   historyVars>>

\* The pipe breaks meanwhile: the process is dead, or forceTerminate closes stdin.
WriteFails(c) ==
    /\ pc[c] = "write" /\ ~Running
    /\ mu' = NoCaller
    /\ Return(c)
    /\ UNCHANGED <<agentVars, pipeVars, client, nextID, call, waiter,
                   sessionVars, historyVars>>

\* The pipe is broken.
SendFails(c) ==
    /\ Number(c)
    /\ ~Running
    /\ Return(c)
    /\ UNCHANGED <<agentVars, pipeVars, client, mu, waiter, sessionVars,
                   historyVars>>

\* Mutant: the error path of a read keeps the mutex.
ReadFailsLocked(c) ==
    /\ pc[c] \in {"read", "rows"} /\ ~Running /\ responses = <<>>
    /\ Return(c)
    /\ UNCHANGED <<agentVars, pipeVars, clientVars, call, waiter, sessionVars,
                   historyVars>>

\* ReadBytes from a process that is gone, after what it had written.
ReadFails(c) ==
    /\ pc[c] \in {"read", "rows"} /\ ~Running /\ responses = <<>>
    /\ mu' = NoCaller
    /\ Return(c)
    /\ UNCHANGED <<agentVars, pipeVars, client, nextID, call, waiter,
                   sessionVars, historyVars>>

\* The next line is taken, whatever its id.
Take(c) ==
    /\ pc[c] \in {"read", "rows"} /\ responses # <<>>
    /\ responses' = Tail(responses)
    /\ strayed' = (strayed \/ Head(responses).id # call[c].id)
    /\ UNCHANGED <<agentVars, requests, client, nextID>>

\* OpenSessionExecer makes an object of the session it is told.
KeepSession(c, answer) ==
    handles' = [handles EXCEPT ![call[c].id] =
        IF call[c].method = "open" /\ answer.kind = "opened"
        THEN answer.session ELSE @]

\* call: one line is the answer.
ReadAnswer(c) ==
    /\ call[c].method # "stream"
    /\ Take(c)
    /\ KeepSession(c, Head(responses))
    /\ ended' = ended \cup
           {i \in Objects : /\ call[c].method = "end"
                            /\ handles[i] = call[c].session
                            /\ Head(responses).kind # "fail"}
    /\ mu' = NoCaller
    /\ Return(c)
    /\ UNCHANGED <<call, waiter, closed, abandoned>>

\* callStreamQuery: a chunk the consumer takes.
ReadChunk(c) ==
    /\ call[c].method = "stream"
    /\ Take(c)
    /\ \/ Head(responses).kind = "columns"
       \/ Head(responses).kind = "rows" /\ pc[c] = "rows"
    /\ pc' = [pc EXCEPT ![c] = "rows"]
    /\ UNCHANGED <<mu, call, waiter, sessionVars, abandoned>>

\* ... the end, or an error of the agent.
ReadEnd(c) ==
    /\ call[c].method = "stream"
    /\ Take(c)
    /\ Head(responses).kind \in {"done", "fail"}
    /\ mu' = NoCaller
    /\ Finish(c)
    /\ UNCHANGED <<call, waiter, sessionVars, abandoned>>

\* ... an error of the consumer, rows without columns, a line that is no
\* chunk: the function returns at once.
LeaveStream(c) ==
    /\ call[c].method = "stream"
    /\ Take(c)
    /\ Head(responses).kind \notin {"done", "fail"}
    /\ abandoned' = TRUE
    /\ mu' = NoCaller
    /\ Finish(c)
    /\ UNCHANGED <<call, waiter, sessionVars>>

\* ... "not supported": the query is asked once more without streaming.
FallBack(c) ==
    /\ call[c].method = "stream"
    /\ Take(c)
    /\ Head(responses).kind = "fail"
    /\ mu' = NoCaller
    /\ IF call[c].session = 0
       THEN /\ client
            /\ Ask(c, "bounded", 0)
            /\ waiter' = [waiter EXCEPT ![c] = "waiting"]
       ELSE /\ \E i \in Objects \ closed : handles[i] = call[c].session
            /\ Ask(c, "statement", call[c].session)
            /\ UNCHANGED waiter
    /\ UNCHANGED <<sessionVars, abandoned>>

----------------------------------------------------------------------------
(* The end of the process.                                                 *)

Gone ==
    /\ agent' = "gone" /\ work' = NoRequest /\ sent' = 0
    /\ inst' = FALSE /\ sessions' = {}
    /\ requests' = <<>>

\* Mutant: the waiter gives the call up and lets the agent live.
ExpireSparing(c) ==
    /\ waiter[c] = "waiting"
    /\ waiter' = [waiter EXCEPT ![c] = "terminated"]
    /\ pc' = [pc EXCEPT ![c] = "idle"]
    /\ mu' = IF mu = c THEN NoCaller ELSE mu
    /\ UNCHANGED <<agentVars, pipeVars, client, nextID, call, sessionVars,
                   historyVars>>

\* Mutant: only a request that was sent can expire.
ExpireWhenSent(c) ==
    /\ waiter[c] = "waiting" /\ mu = c
    /\ waiter' = [waiter EXCEPT ![c] = "terminated"]
    /\ Gone
    /\ UNCHANGED <<responses, clientVars, pc, call, sessionVars, historyVars>>

\* ctx.Done: forceTerminate does not take c.mu, and so reaches a call that
\* waits for an answer, its own or another one.
Expire(c) ==
    /\ waiter[c] = "waiting"
    /\ waiter' = [waiter EXCEPT ![c] = "terminated"]
    /\ Gone
    /\ UNCHANGED <<responses, clientVars, pc, call, sessionVars, historyVars>>

\* The waiter has the result; when its context has expired too, either case
\* of the select may be taken.
Receive(c) ==
    /\ waiter[c] = "waiting" /\ pc[c] = "idle"
    /\ waiter' = [waiter EXCEPT ![c] = "none"]
    /\ UNCHANGED <<agentVars, pipeVars, clientVars, pc, call, sessionVars,
                   historyVars>>

\* The result of the call, or two seconds, whichever is first.
GiveUp(c) ==
    /\ waiter[c] = "terminated"
    /\ waiter' = [waiter EXCEPT ![c] = "none"]
    /\ UNCHANGED <<agentVars, pipeVars, clientVars, pc, call, sessionVars,
                   historyVars>>

\* client.close.
Close(c) ==
    /\ pc[c] = "kill" /\ mu = NoCaller
    /\ Gone
    /\ client' = FALSE
    /\ Finish(c)
    /\ UNCHANGED <<responses, mu, nextID, call, waiter, sessionVars, historyVars>>

\* The agent crashes, or leaves its loop at a line it cannot read or write.
Exit ==
    /\ Running
    /\ Gone
    /\ UNCHANGED <<responses, clientVars, callVars, sessionVars, historyVars>>

----------------------------------------------------------------------------
(* The loop of the agent.                                                  *)

TakeRequest ==
    /\ agent = "idle" /\ requests # <<>>
    /\ agent' = "busy" /\ work' = Head(requests) /\ sent' = 0
    /\ requests' = Tail(requests)
    /\ UNCHANGED <<inst, sessions, responses, clientVars, callVars, sessionVars,
                   historyVars>>

\* The driver does not come back.
Hang ==
    /\ agent = "busy"
    /\ agent' = "hung"
    /\ UNCHANGED <<work, sent, inst, sessions, pipeVars, clientVars, callVars,
                   sessionVars, historyVars>>

Write(kind, session) ==
    /\ Len(responses) < PipeSize
    /\ responses' = Append(responses,
           [id |-> work.id, kind |-> kind, session |-> session])
    /\ UNCHANGED <<requests, clientVars, callVars, sessionVars, historyVars>>

Reply(kind, session) ==
    /\ Write(kind, session)
    /\ agent' = "idle" /\ work' = NoRequest /\ sent' = 0

\* The database, or the session asked for, is there.
Reachable == inst /\ (work.session # 0 => work.session \in sessions)

ReplyToStatement ==
    /\ agent = "busy" /\ work.method \in {"call", "bounded", "statement"}
    /\ \/ Reachable /\ Reply("ok", 0)
       \/ Reply("fail", 0)
    /\ UNCHANGED <<inst, sessions>>

\* nextID of the agent is never used again; here it is the request's.
ReplyToOpen ==
    /\ agent = "busy" /\ work.method = "open"
    /\ \/ /\ inst
          /\ Reply("opened", work.id)
          /\ sessions' = sessions \cup {work.id}
       \/ Reply("fail", 0) /\ UNCHANGED sessions
    /\ UNCHANGED inst

\* Mutant: a session whose Close fails stays in the map.
ReplyToEndKeeping ==
    /\ agent = "busy" /\ work.method = "end"
    /\ \/ /\ work.session \in sessions /\ Reply("ok", 0)
          /\ sessions' = sessions \ {work.session}
       \/ Reply("fail", 0) /\ UNCHANGED sessions
    /\ UNCHANGED inst

\* closeSession takes the session out before it closes it.
ReplyToEnd ==
    /\ agent = "busy" /\ work.method = "end"
    /\ \/ work.session \in sessions /\ Reply("ok", 0)
       \/ Reply("fail", 0)
    /\ sessions' = sessions \ {work.session}
    /\ UNCHANGED inst

ReplyToClose ==
    /\ agent = "busy" /\ work.method = "close"
    /\ \E kind \in {"ok", "fail"} : Reply(kind, 0)
    /\ inst' = FALSE /\ sessions' = {}

\* handleStreamRequest: columns, rows, and a last line in any case.
StreamChunk ==
    /\ agent = "busy" /\ work.method = "stream"
    /\ Reachable /\ sent < MaxChunks
    /\ Write(IF sent = 0 THEN "columns" ELSE "rows", 0)
    /\ sent' = sent + 1
    /\ UNCHANGED <<agent, work, inst, sessions>>

StreamEnd ==
    /\ agent = "busy" /\ work.method = "stream"
    /\ \/ sent > 0 /\ Reply("done", 0)
       \/ Reply("fail", 0)
    /\ UNCHANGED <<inst, sessions>>

----------------------------------------------------------------------------
AgentStep ==
    \/ TakeRequest \/ ReplyToStatement \/ ReplyToOpen \/ ReplyToEnd
    \/ ReplyToClose \/ StreamChunk \/ StreamEnd

SendStep(c) == Send(c) \/ SendLong(c) \/ SendFails(c)

WriteStep(c) == Written(c) \/ WriteFails(c)

ReadStep(c) ==
    \/ ReadFails(c) \/ ReadAnswer(c) \/ ReadChunk(c) \/ ReadEnd(c)
    \/ LeaveStream(c) \/ FallBack(c)

Next ==
    \/ Connect
    \/ \E c \in Callers :
          \/ \E method \in Methods : Begin(c, method)
          \/ \E method \in Methods, i \in IDs : BeginInSession(c, method, i)
          \/ SendStep(c) \/ WriteStep(c) \/ ReadStep(c)
          \/ Receive(c) \/ Expire(c) \/ GiveUp(c) \/ Close(c)
    \/ AgentStep \/ Hang \/ Exit

Spec == Init /\ [][Next]_vars

\* Goroutines run, contexts expire, a mutex that becomes free again and again
\* is handed over (sync.Mutex does not starve), and an agent that does not
\* hang works on.
Fairness ==
    /\ \A c \in Callers :
          /\ SF_vars(SendStep(c)) /\ WF_vars(WriteStep(c))
          /\ WF_vars(ReadStep(c)) /\ SF_vars(Close(c))
          /\ WF_vars(Expire(c)) /\ WF_vars(GiveUp(c))
    /\ WF_vars(AgentStep)

FairSpec == Spec /\ Fairness

----------------------------------------------------------------------------
(* What should hold.                                                       *)

\* Types.
TypeOK ==
    /\ agent \in {"none", "idle", "busy", "hung", "gone"}
    /\ work \in Requests /\ sent \in 0..MaxChunks
    /\ inst \in BOOLEAN /\ sessions \subseteq SessionIDs
    /\ requests \in Seq(Requests) /\ responses \in Seq(Responses)
    /\ client \in BOOLEAN /\ mu \in Callers \cup {NoCaller}
    /\ nextID \in 0..MaxCalls
    /\ pc \in [Callers -> {"idle", "lock", "write", "read", "rows", "kill"}]
    /\ call \in [Callers -> Requests]
    /\ waiter \in [Callers -> {"none", "waiting", "terminated"}]
    /\ handles \in [IDs -> SessionIDs]
    /\ closed \subseteq IDs /\ ended \subseteq IDs
    /\ abandoned \in BOOLEAN /\ strayed \in BOOLEAN

\* A call that reads a line reads the answer to its own request, also when
\* calls time out, agents die and streams fail, as long as every stream was
\* read to its end.
AnswersAreOwn == strayed => abandoned

\* The session objects of one connection use different sessions of the agent,
\* even when answers have gone astray: no transaction is shared by accident.
SessionsApart ==
    \A i, j \in Objects : handles[i] = handles[j] => i = j

\* A session whose Close was answered is gone from the agent.
EndedSessionsAreGone ==
    abandoned \/ \A i \in ended : handles[i] \notin sessions

\* A call under way that opens or ends the session.
IsAbout(c, s) ==
    /\ pc[c] \in {"lock", "write", "read"}
    /\ \/ call[c].method = "open" /\ call[c].id = s
       \/ call[c].method = "end" /\ call[c].session = s

\* The agent keeps no session that nobody could end: each belongs to an object
\* that is not closed, or to a call that is under way.
NoSessionIsLost ==
    abandoned \/ \A s \in sessions :
        \/ handles[s] = s /\ s \notin closed
        \/ \E c \in Callers : IsAbout(c, s)

\* The sessions of the agent and the session objects of the application agree,
\* whatever fails on either side of the pipe: no two objects share a session,
\* none survives its Close, none is left without an owner.
SessionsAreHeld == SessionsApart /\ EndedSessionsAreGone /\ NoSessionIsLost

----------------------------------------------------------------------------
(* The inductive invariant of AnswersAreOwn.                               *)

AtWork == agent \in {"busy", "hung"}

\* c.mu is held from writing a request to the last line that is read.
MutexIsHeld == \A c \in Callers : mu = c <=> pc[c] \in {"write", "read", "rows"}

WorkIsARequest == ~AtWork => work = NoRequest

\* Nothing is on its way before the process is there.
NothingBefore ==
    agent = "none" => mu = NoCaller /\ requests = <<>> /\ responses = <<>>

\* Between two calls nothing is on its way, nor before the request of a call is
\* written.
Unsent == mu = NoCaller \/ \E c \in Callers : pc[c] = "write"
QuietBetweenCalls ==
    Unsent /\ Running => requests = <<>> /\ ~AtWork /\ responses = <<>>

\* During a call its request is on the way, or at work after chunks only.
RequestOfHolder ==
    \A c \in Callers : mu = c =>
        /\ requests # <<>> =>
              /\ requests = <<call[c]>>
              /\ ~AtWork /\ responses = <<>>
        /\ AtWork => work = call[c]

\* What was answered are chunks of the holder's stream, or its last line.
AnswersOfHolder ==
    \A c \in Callers : mu = c => \A k \in DOMAIN responses :
        /\ responses[k].id = call[c].id
        /\ responses[k].kind \in Chunks => call[c].method = "stream"
        /\ responses[k].kind \notin Chunks =>
              k = Len(responses) /\ requests = <<>> /\ ~AtWork

Paired == QuietBetweenCalls /\ RequestOfHolder /\ AnswersOfHolder

AgentInv ==
    /\ AnswersAreOwn
    /\ MutexIsHeld
    /\ WorkIsARequest
    /\ NothingBefore
    /\ abandoned \/ Paired

----------------------------------------------------------------------------
(* The inductive invariant of SessionsAreHeld.                             *)

\* A request id names at most one session: it is pending, or the session it
\* opened is announced on the pipe, or an object holds it.
Writing == {call[c].id : c \in {d \in Callers : pc[d] = "write"}}
Pending == {requests[k].id : k \in DOMAIN requests} \cup Writing
               \cup (IF AtWork THEN {work.id} ELSE {})
Opened == {k \in DOMAIN responses : responses[k].kind = "opened"}
Announced == {responses[k].session : k \in Opened}
Held == {handles[i] : i \in Objects}

NamesAreNew ==
    /\ Pending \cup Announced \cup Held \cup sessions \subseteq 1..nextID
    /\ Pending \cap (Announced \cup Held \cup sessions) = {}
    /\ Announced \cap Held = {}

\* ... and at one place only.
NamedOnce ==
    /\ \A j, k \in DOMAIN requests : requests[j].id = requests[k].id => j = k
    /\ AtWork => \A k \in DOMAIN requests : requests[k].id # work.id
    /\ \A k \in DOMAIN requests : requests[k].id \notin Writing
    /\ AtWork => work.id \notin Writing
    /\ \A j, k \in Opened : responses[j].session = responses[k].session => j = k
    /\ \A k \in Opened : responses[k].session = responses[k].id

NobodyBefore ==
    agent = "none" => nextID = 0 /\ ~client /\ \A c \in Callers : pc[c] = "idle"

LocalsOK ==
    /\ \A c \in Callers : /\ pc[c] = "rows" => call[c].method = "stream"
                          /\ pc[c] = "lock" => call[c].id = 0
    /\ closed \cup ended \subseteq Objects
    /\ ~Running => sessions = {}

\* The answer to an end or to an open says what has become of the session.
AnswersAreTrue ==
    \A c \in Callers : mu = c /\ responses # <<>> =>
        /\ call[c].method = "end" => call[c].session \notin sessions
        /\ call[c].method = "open" =>
              Head(responses).kind = "opened" \/ call[c].id \notin sessions

ObjectsAreOwn == \A i \in Objects : handles[i] = i

SessionInv ==
    /\ NamesAreNew /\ NamedOnce /\ NobodyBefore /\ LocalsOK
    /\ SessionsAreHeld
    /\ abandoned \/ (AnswersAreTrue /\ ObjectsAreOwn)

----------------------------------------------------------------------------
(* Why nobody waits for ever on a pipe.                                    *)

\* Who reads has an end to come, also after a stream was left: the request is
\* on its way or at work, or its last line is on the pipe.
AnswerIsComing ==
    \A c \in Callers : pc[c] \in {"read", "rows"} /\ Running =>
        \/ \E k \in DOMAIN requests : requests[k] = call[c]
        \/ AtWork /\ work = call[c]
        \/ \E k \in DOMAIN responses :
              responses[k].id = call[c].id /\ responses[k].kind \notin Chunks

CanLock(c) == pc[c] \in {"lock", "kill"} /\ mu = NoCaller
CanWrite(c) ==
    /\ pc[c] = "write"
    /\ (agent = "idle" /\ requests = <<>>) \/ ~Running
CanRead(c) == pc[c] \in {"read", "rows"} /\ (responses # <<>> \/ ~Running)
CanWork ==
    \/ agent = "idle" /\ requests # <<>>
    \/ agent = "busy" /\ Len(responses) < PipeSize

\* Each side writes and waits for the other one to read.
MutualWait ==
    /\ \E c \in Callers : pc[c] = "write"
    /\ agent = "busy" /\ Len(responses) >= PipeSize

\* The client and the agent wait for each other, each with a pipe that is full,
\* only after a stream was left before its end; else a call under way can go
\* on, or the holder of the mutex or the agent can, unless the driver hangs.
NobodyIsStuck ==
    /\ MutualWait => abandoned
    /\ \A c \in Callers : pc[c] # "idle" =>
          \/ CanLock(c) \/ (\E d \in Callers : CanWrite(d) \/ CanRead(d))
          \/ CanWork \/ agent = "hung" \/ MutualWait

\* The invariant of the protocol: between two calls nothing is on the pipes,
\* during one only its request or its answers are, the sessions of the agent
\* are those the application knows, and no call is stuck but after a stream
\* that was left.
Inv == TypeOK /\ AgentInv /\ SessionInv /\ AnswerIsComing /\ NobodyIsStuck

----------------------------------------------------------------------------
\* A call ends unless the driver hangs in the agent, or the two sides wait for
\* each other.
EveryCallEnds ==
    \A c \in Callers : pc[c] # "idle" ~> pc[c] = "idle" \/ agent = "hung" \/ MutualWait

\* A call under a context ends even then, and even if the agent hangs at the
\* request of another caller.
BoundedCallsReturn == \A c \in Callers : waiter[c] # "none" ~> waiter[c] = "none"

\* Nobody waits for ever on the mutex, on a pipe or on a driver, but for a call
\* without a context to a driver that hangs or to an agent that still writes a
\* stream that was left.
CallsEnd == EveryCallEnds /\ BoundedCallsReturn
=============================================================================
