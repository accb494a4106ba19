------------------------------ MODULE AiSession ------------------------------
(***************************************************************************)
(* One chat session of the AI assistant (internal/ai/service): the streams *)
(* of the session with their cancel function, the provider's conversation  *)
(* that the next stream may resume, and the session file, which streams    *)
(* and the frontend's saves read, change and write without a lock.         *)
(*                                                                         *)
(* A worker is a goroutine that serves one AIChatStream, AISaveSession or  *)
(* AIDeleteSession; a step is a critical section of Service.mu, a file     *)
(* operation or the answer of a provider.                                  *)
(***************************************************************************)
EXTENDS Naturals, Sequences, FiniteSets, Functions

CONSTANTS
    Workers, NoWorker,  \* goroutines, and no cancel function
    Messages,           \* chat messages
    Answer,             \* the message of the assistant
    Requests,           \* the message lists the panel may send
    ProviderKeys,       \* providerSessionKey of the configured providers
    NoKey,              \* and the empty one
    NoState,            \* no state of a conversation
    MaxSaves            \* bound on the saves of the frontend

ASSUME ConstantsAssumption ==
    /\ NoWorker \notin Workers
    /\ Answer \in Messages
    /\ Requests \subseteq Seq(Messages) \ {<<>>}
    /\ NoKey \notin ProviderKeys
    /\ NoState \notin [owner : ProviderKeys, told : SUBSET Messages]
    /\ MaxSaves \in Nat

\* The answer of a provider may be empty.
Replies == {<<>>, <<Answer>>}
Known == {r \o reply : r \in Requests, reply \in Replies}

\* The state of a conversation, as a provider returns it: whose it is and what
\* that provider was told up to then (it may have been told more since).
State == [owner : ProviderKeys, told : SUBSET Messages]

\* aiSessionProviderRuntime, with the messages the conversation was about.
Runtime == [state : State, key : ProviderKeys, messages : Known]
NoRuntime == [state |-> NoState, key |-> NoKey, messages |-> <<>>]
OptRuntime == Runtime \cup {NoRuntime}

\* sessionFileData: the messages are those of one save, 0 stands for none.
Data == [messages : 0..MaxSaves, runtime : OptRuntime]
NoData == [messages |-> 0, runtime |-> NoRuntime]

Streaming ==
    {"resolve", "load", "remember", "run", "store", "read", "truncate", "fill",
     "unregister"}
Saving == {"saveRead", "saveTruncate", "saveFill"}
Places == {"idle"} \cup Streaming \cup Saving \cup {"forget"}

\* Between the reading of the file and the end of its writing.
Writing == {"truncate", "fill", "saveTruncate", "saveFill"}
Filling == {"fill", "saveFill"}

VARIABLES
    cancelFunc,   \* cancelFuncs[session]: the worker it would stop
    memory,       \* sessionProviders[session]
    file,         \* [status : {"absent", "torn", "ok"}, data : Data]
    pc,           \* [Workers -> Places]
    request,      \* [Workers -> Requests \cup {<<>>}]
    runtime,      \* [Workers -> OptRuntime]: what it resumes, then what it stores
    data,         \* [Workers -> Data]: sessionData of a read-modify-write
    unlinked,     \* SUBSET Workers: those that write a file that was deleted
    saves,        \* how many saves the frontend has made
    shared,       \* history: streams beside which another one was alive
    settled       \* history: the file as the calls that returned left it, or
                  \* Disturbed after writes overlapped or one was cut short

fileVars == <<file, data, unlinked, saves>>
callVars == <<pc, request, runtime>>
histVars == <<shared, settled>>
vars ==
    <<cancelFunc, memory, fileVars, callVars, histVars>>

File == [status : {"absent", "torn", "ok"}, data : Data]
Absent == [status |-> "absent", data |-> NoData]
Torn == [status |-> "torn", data |-> NoData]
Disturbed == [status |-> "disturbed", data |-> NoData]
Ok(d) == [status |-> "ok", data |-> d]

TypeOK ==
    /\ cancelFunc \in Workers \cup {NoWorker}
    /\ memory \in OptRuntime
    /\ file \in File
    /\ pc \in [Workers -> Places]
    /\ request \in [Workers -> Requests \cup {<<>>}]
    /\ runtime \in [Workers -> [state : State \cup {NoState},
                                key : ProviderKeys \cup {NoKey},
                                messages : Known \cup {<<>>}]]
    /\ data \in [Workers -> Data]
    /\ unlinked \in SUBSET Workers
    /\ saves \in 0..MaxSaves
    /\ shared \in SUBSET Workers
    /\ settled \in File \cup {Disturbed}

Init ==
    /\ cancelFunc = NoWorker
    /\ memory = NoRuntime
    /\ file = Absent
    /\ pc = [w \in Workers |-> "idle"]
    /\ request = [w \in Workers |-> <<>>]
    /\ runtime = [w \in Workers |-> NoRuntime]
    /\ data = [w \in Workers |-> NoData]
    /\ unlinked = {}
    /\ saves = 0
    /\ shared = {}
    /\ settled = Absent

----------------------------------------------------------------------------
Goto(w, place) == pc' = [pc EXCEPT ![w] = place]

Streams == {w \in Workers : pc[w] \in Streaming}

----------------------------------------------------------------------------
(* AIChatStream and what it may resume. *)

\* Mutant: the deferred function runs when the method returns.
BeginStreamUnregistered(w, r, k) ==
    /\ pc[w] = "idle"
    /\ Goto(w, "resolve")
    /\ cancelFunc' = NoWorker
    /\ request' = [request EXCEPT ![w] = r]
    /\ runtime' = [runtime EXCEPT ![w] = [NoRuntime EXCEPT !.key = k]]
    /\ shared' = IF Streams = {} THEN shared \ {w} ELSE shared \cup Streams \cup {w}
    /\ UNCHANGED <<memory, fileVars, settled>>

\* The cancel function is stored before the goroutine starts.  An earlier
\* stream may be at its end still: its last event already starts the next.
BeginStream(w, r, k) ==
    /\ pc[w] = "idle"
    /\ Goto(w, "resolve")
    /\ cancelFunc' = w
    /\ request' = [request EXCEPT ![w] = r]
    /\ runtime' = [runtime EXCEPT ![w] = [NoRuntime EXCEPT !.key = k]]
    /\ shared' = IF Streams = {} THEN shared \ {w} ELSE shared \cup Streams \cup {w}
    /\ UNCHANGED <<memory, fileVars, settled>>

\* Mutant: the length is compared, not the messages.
ResumesByLength(r, rt) == rt.state # NoState /\ Len(rt.messages) < Len(r)

\* resolveSessionProviderRequest: only a proper prefix of the request is
\* resumed, everything else starts a new conversation.
Resumes(r, rt) ==
    /\ rt.state # NoState
    /\ Len(rt.messages) < Len(r)
    /\ SubSeq(r, 1, Len(rt.messages)) = rt.messages

\* There is no active provider, or it keeps no conversations: its stream leaves
\* everything of the session alone.
Bypass(w) ==
    /\ pc[w] = "resolve"
    /\ Goto(w, "unregister")
    /\ request' = [request EXCEPT ![w] = <<>>]
    /\ runtime' = [runtime EXCEPT ![w] = NoRuntime]
    /\ UNCHANGED <<cancelFunc, memory, fileVars, histVars>>

Decide(w, rt) ==
    /\ Goto(w, "run")
    /\ runtime' = [runtime EXCEPT ![w] =
                     IF Resumes(request[w], rt)
                       THEN rt ELSE [NoRuntime EXCEPT !.key = runtime[w].key]]

\* loadSessionProviderRuntime: the memory first ...
Resolve(w) ==
    /\ pc[w] = "resolve"
    /\ IF memory.key = runtime[w].key
         THEN Decide(w, memory)
         ELSE Goto(w, "load") /\ UNCHANGED runtime
    /\ UNCHANGED <<cancelFunc, memory, fileVars, request, histVars>>

\* ... then the file ...
LoadRuntime(w) ==
    LET rt == file.data.runtime IN
    /\ pc[w] = "load"
    /\ IF rt.key = runtime[w].key
         THEN Goto(w, "remember") /\ runtime' = [runtime EXCEPT ![w] = rt]
         ELSE Decide(w, NoRuntime)
    /\ UNCHANGED <<cancelFunc, memory, fileVars, request, histVars>>

\* ... whose runtime replaces whatever is in memory by now.
Remember(w) ==
    /\ pc[w] = "remember"
    /\ memory' = runtime[w]
    /\ Decide(w, runtime[w])
    /\ UNCHANGED <<cancelFunc, fileVars, request, histVars>>

----------------------------------------------------------------------------
(* The provider: a conversation remembers all it was told.             *)

\* The messages after those of the conversation that is resumed.
Delta(w) ==
    Range(SubSeq(request[w], Len(runtime[w].messages) + 1, Len(request[w])))

\* A state means nothing to another provider.
Recalls(rt) ==
    IF rt.state # NoState /\ rt.state.owner = rt.key THEN rt.state.told ELSE {}

\* The state is returned with the answer, except by a provider that has none.
RunAnswers(w, reply) ==
    LET rt == runtime[w]
        told == Recalls(rt) \cup Delta(w) \cup Range(reply)
    IN  /\ pc[w] = "run"
        /\ Goto(w, "store")
        /\ \/ runtime' =
                [runtime EXCEPT ![w] =
                   [state |-> [owner |-> rt.key, told |-> told],
                    key |-> rt.key, messages |-> request[w] \o reply]]
           \/ runtime' = [runtime EXCEPT ![w] = NoRuntime]
        /\ request' = [request EXCEPT ![w] = <<>>]
    /\ UNCHANGED <<cancelFunc, memory, fileVars, histVars>>

\* A run that fails or is stopped by AIChatCancel stores nothing.
RunFails(w) ==
    /\ pc[w] = "run"
    /\ Goto(w, "unregister")
    /\ request' = [request EXCEPT ![w] = <<>>]
    /\ runtime' = [runtime EXCEPT ![w] = NoRuntime]
    /\ UNCHANGED <<cancelFunc, memory, fileVars, histVars>>

----------------------------------------------------------------------------
(* storeSessionProviderRuntime and AISaveSession. *)

StoreMemory(w) ==
    /\ pc[w] = "store"
    /\ memory' = runtime[w]
    /\ Goto(w, "read")
    /\ UNCHANGED <<cancelFunc, fileVars, request, runtime, histVars>>

BeginSave(w) ==
    /\ pc[w] = "idle"
    /\ saves < MaxSaves
    /\ saves' = saves + 1
    /\ Goto(w, "saveRead")
    /\ data' = [data EXCEPT ![w] = [NoData EXCEPT !.messages = saves + 1]]
    /\ UNCHANGED <<cancelFunc, memory, file, unlinked, request, runtime,
                   histVars>>

\* Mutant: the data is made anew.
ChangedAnew(w, d) ==
    IF pc[w] = "read" THEN [NoData EXCEPT !.runtime = runtime[w]]
                      ELSE [NoData EXCEPT !.messages = data[w].messages]

\* Each of the two changes its part of what it has read.
Changed(w, d) ==
    IF pc[w] = "read" THEN [d EXCEPT !.runtime = runtime[w]]
                      ELSE [d EXCEPT !.messages = data[w].messages]

\* Another call has read the file and not written it yet.
OthersWrite(w) == \E v \in Workers \ {w} : pc[v] \in Writing

\* The call goes on without the file: a stream to its end, a save returns.
Leave(w) ==
    /\ Goto(w, IF pc[w] \in Streaming THEN "unregister" ELSE "idle")
    /\ data' = [data EXCEPT ![w] = NoData]
    /\ runtime' = [runtime EXCEPT ![w] = NoRuntime]
    /\ unlinked' = unlinked \ {w}

\* loadOrCreateSessionFile: a file that does not parse is an error.
ReadFile(w) ==
    /\ pc[w] \in {"read", "saveRead"}
    /\ \/ /\ file.status = "torn"
          /\ Leave(w)
          /\ UNCHANGED settled
       \/ /\ file.status # "torn"
          /\ Goto(w, IF pc[w] = "read" THEN "truncate" ELSE "saveTruncate")
          /\ data' = [data EXCEPT ![w] = Changed(w, file.data)]
          /\ runtime' = [runtime EXCEPT ![w] = NoRuntime]
          /\ settled' = IF OthersWrite(w) THEN Disturbed ELSE settled
          /\ UNCHANGED unlinked
    /\ UNCHANGED <<cancelFunc, memory, file, saves, request, shared>>

\* os.WriteFile truncates the file or creates it ...
Truncate(w) ==
    /\ pc[w] \in {"truncate", "saveTruncate"}
    /\ file' = Torn
    /\ Goto(w, IF pc[w] = "truncate" THEN "fill" ELSE "saveFill")
    /\ UNCHANGED <<cancelFunc, memory, data, unlinked, saves, request,
                   runtime, histVars>>

\* ... and writes it from its start: over what another call has written since,
\* that may leave the end of the other's longer text.
Written(w) ==
    \/ w \in unlinked /\ UNCHANGED file
    \/ w \notin unlinked /\ file' = Ok(data[w])
    \/ w \notin unlinked /\ settled = Disturbed /\ file' = Torn

\* The file a call leaves that is alone with it: its part is new, the other part
\* is as the last call has left it.
Settle(w) ==
    LET old == settled.data IN
    settled' =
        IF settled = Disturbed THEN Disturbed
        ELSE Ok(IF pc[w] = "fill" THEN [old EXCEPT !.runtime = data[w].runtime]
                                  ELSE [old EXCEPT !.messages = data[w].messages])

Fill(w) ==
    /\ pc[w] \in Filling
    /\ Written(w)
    /\ Settle(w)
    /\ Leave(w)
    /\ UNCHANGED <<cancelFunc, memory, saves, request, shared>>

\* MkdirAll, the opening or, with the file truncated, the writing fails.
WriteFails(w) ==
    /\ pc[w] \in Writing
    /\ Leave(w)
    /\ settled' = IF pc[w] \in Filling THEN Disturbed ELSE settled
    /\ UNCHANGED <<cancelFunc, memory, file, saves, request, shared>>

----------------------------------------------------------------------------
(* The end of a stream, AIDeleteSession, a restart. *)

\* Mutant: the function is called, but stays in the map.
UnregisterKeeping(w) ==
    /\ pc[w] = "unregister"
    /\ Goto(w, "idle")
    /\ shared' = shared \ {w}
    /\ UNCHANGED <<cancelFunc, memory, fileVars, request, runtime, settled>>

\* The deferred function deletes by session, whoever has registered since.
Unregister(w) ==
    /\ pc[w] = "unregister"
    /\ cancelFunc' = NoWorker
    /\ Goto(w, "idle")
    /\ shared' = shared \ {w}
    /\ UNCHANGED <<memory, fileVars, request, runtime, settled>>

\* os.Remove.  A file that is being written is written on without a name.
BeginDelete(w) ==
    /\ pc[w] = "idle"
    /\ Goto(w, "forget")
    /\ file' = Absent
    /\ settled' = IF OthersWrite(w) THEN Disturbed ELSE Absent
    /\ unlinked' = unlinked \cup {v \in Workers : pc[v] \in Filling}
    /\ UNCHANGED <<cancelFunc, memory, data, saves, request, runtime, shared>>

Forget(w) ==
    /\ pc[w] = "forget"
    /\ memory' = NoRuntime
    /\ Goto(w, "idle")
    /\ UNCHANGED <<cancelFunc, fileVars, request, runtime, histVars>>

\* The application ends, or dies, and starts again with the file it left.
Restart ==
    /\ cancelFunc' = NoWorker
    /\ memory' = NoRuntime
    /\ pc' = [w \in Workers |-> "idle"]
    /\ request' = [w \in Workers |-> <<>>]
    /\ runtime' = [w \in Workers |-> NoRuntime]
    /\ data' = [w \in Workers |-> NoData]
    /\ unlinked' = {}
    /\ shared' = {}
    /\ settled' = IF \E w \in Workers : pc[w] \in Filling THEN Disturbed ELSE settled
    /\ UNCHANGED <<file, saves>>

----------------------------------------------------------------------------
Next ==
    \/ \E w \in Workers :
          \/ \E r \in Requests, k \in ProviderKeys : BeginStream(w, r, k)
          \/ Resolve(w) \/ LoadRuntime(w) \/ Remember(w)
          \/ Bypass(w) \/ RunFails(w) \/ StoreMemory(w)
          \/ \E reply \in Replies : RunAnswers(w, reply)
          \/ BeginSave(w) \/ ReadFile(w) \/ Truncate(w) \/ Fill(w) \/ WriteFails(w)
          \/ Unregister(w) \/ BeginDelete(w) \/ Forget(w)
    \/ Restart

Spec == Init /\ [][Next]_vars

----------------------------------------------------------------------------
(* Properties. *)

\* Wherever the state of a conversation is kept, it belongs to the provider that
\* is kept with it, and that provider was told the messages that are.
Truthful(rt) ==
    rt.state # NoState =>
        rt.state.owner = rt.key /\ Range(rt.messages) \subseteq rt.state.told

\* What is kept of a conversation, in memory, in the file or in the hands of a
\* goroutine, is truthful; only a call that is in the middle of its writing can
\* have had its file deleted; a cancel function is that of a live stream.
Inv ==
    /\ TypeOK
    /\ Truthful(memory)
    /\ Truthful(file.data.runtime)
    /\ \A w \in Workers : Truthful(runtime[w]) /\ Truthful(data[w].runtime)
    /\ \A w \in unlinked : pc[w] \in Filling
    /\ cancelFunc # NoWorker => pc[cancelFunc] \in Streaming

\* A provider that goes on with a conversation knows every message of the
\* request, those that are not sent again included: the state that is resumed
\* belongs to this provider and to a beginning of these messages, through
\* restarts, switched providers, edited chats, stopped runs and overlapping
\* writes of the file.
NothingIsForgotten ==
    \A w \in Workers :
        pc[w] = "run" /\ runtime[w].state # NoState
            => Range(request[w]) \subseteq Recalls(runtime[w]) \cup Delta(w)

\* The Stop button reaches a stream, if no other stream of the session was
\* alive beside it.
RunningIsCancellable ==
    \A w \in Workers : pc[w] = "run" /\ w \notin shared => cancelFunc = w

\* The messages of the last save that succeeded and the runtime of the last
\* stream that stored one are in the file together, once nobody writes it: what
\* one changes the other keeps.  The exceptions are writes that overlap and a
\* write that is cut short, after which the file may stay unreadable.
FileIsSettled ==
    settled # Disturbed /\ (\A w \in Workers : pc[w] \notin Filling)
        => file = settled

=============================================================================
