--------------------------- MODULE AiSessionProofs ---------------------------
(* Proofs about one chat session of the AI assistant, for any number of    *)
(* goroutines, providers, conversations and chats.                         *)
EXTENDS AiSession, SequenceTheorems, TLAPS

\* What each place of a call knows about its locals.
LocalAt(w) ==
    /\ runtime[w].state # NoState => runtime[w] \in Runtime
    /\ pc[w] \in {"resolve", "load", "remember", "run"}
         => request[w] \in Requests /\ runtime[w].key \in ProviderKeys
    /\ pc[w] \in {"resolve", "load"}
         => runtime[w].state = NoState /\ runtime[w].messages = <<>>
    /\ pc[w] = "run" /\ runtime[w].state = NoState
         => runtime[w].messages = <<>>
    /\ pc[w] \in {"remember", "store", "read"} => runtime[w] \in OptRuntime

LocalsOK == \A w \in Workers : LocalAt(w)

\* The state of a conversation is truthful wherever it is.
HonestOK ==
    /\ Truthful(memory)
    /\ Truthful(file.data.runtime)
    /\ \A w \in Workers : Truthful(runtime[w]) /\ Truthful(data[w].runtime)

\* Streams that are alive together are known to be, and one that is alone is the
\* one Stop would reach.
StopOK ==
    /\ cancelFunc # NoWorker => pc[cancelFunc] \in Streaming
    /\ \A w \in Workers : pc[w] \in Streaming /\ w \notin shared => cancelFunc = w
    /\ \A v, w \in Workers :
          v # w /\ pc[v] \in Streaming /\ pc[w] \in Streaming => v \in shared

\* While no writes have overlapped there is one writer at most, and the part of
\* the file it does not change is as it was.
WriterOK ==
    settled # Disturbed =>
        /\ \A v, w \in Workers : v # w /\ pc[v] \in Writing => pc[w] \notin Writing
        /\ unlinked = {}
        /\ \A w \in Workers :
              /\ pc[w] \in {"truncate", "fill"}
                   => data[w].messages = settled.data.messages
              /\ pc[w] \in {"saveTruncate", "saveFill"}
                   => data[w].runtime = settled.data.runtime
        /\ FileIsSettled

UnlinkedOK == \A w \in unlinked : pc[w] \in Filling

IInv ==
    /\ TypeOK /\ LocalsOK /\ HonestOK /\ NothingIsForgotten
    /\ StopOK /\ WriterOK /\ UnlinkedOK

----------------------------------------------------------------------------
(* Message lists.                                                          *)

\* A chat is what comes before a place in it and what comes after.
LEMMA ChatSplits ==
    ASSUME NEW r \in Seq(Messages), NEW n \in 0..Len(r)
    PROVE  Range(r) = Range(SubSeq(r, 1, n)) \cup Range(SubSeq(r, n + 1, Len(r)))
<1>1. Len(r) \in Nat
  OBVIOUS
<1>2. /\ 1 \in 1..Len(r) + 1
      /\ n \in (1 - 1)..Len(r)
      /\ Len(r) \in n..Len(r)
  BY <1>1
<1>3. SubSeq(r, 1, n) \o SubSeq(r, n + 1, Len(r)) = SubSeq(r, 1, Len(r))
  BY <1>2, ConcatAdjacentSubSeq
<1>4. SubSeq(r, 1, Len(r)) = r
  BY SubSeqFull
<1>5. \A i \in 1..Len(r) : r[i] \in Messages
  OBVIOUS
<1>6. SubSeq(r, 1, n) \in Seq(Messages)
  <2>1. \A i \in 1..n : r[i] \in Messages
    BY <1>1, <1>5
  <2>2. 1 \in Int /\ n \in Int
    BY <1>1
  <2> QED
    BY <2>1, <2>2, SubSeqProperties
<1>7. SubSeq(r, n + 1, Len(r)) \in Seq(Messages)
  <2>1. \A i \in n + 1 .. Len(r) : r[i] \in Messages
    BY <1>1, <1>5
  <2>2. n + 1 \in Int /\ Len(r) \in Int
    BY <1>1
  <2> QED
    BY <2>1, <2>2, SubSeqProperties
<1>8. Range(SubSeq(r, 1, n) \o SubSeq(r, n + 1, Len(r)))
        = Range(SubSeq(r, 1, n)) \cup Range(SubSeq(r, n + 1, Len(r)))
  <2> DEFINE before == SubSeq(r, 1, n)
             after == SubSeq(r, n + 1, Len(r))
  <2> HIDE DEF before, after
  <2>1. before \in Seq(Messages) /\ after \in Seq(Messages)
    BY <1>6, <1>7 DEF before, after
  <2>2. Range(before \o after) = Range(before) \cup Range(after)
    BY <2>1, RangeConcatenation
  <2> QED
    BY <2>2 DEF before, after
<1> QED
  BY <1>3, <1>4, <1>8

LEMMA EmptyChat == <<>> \in Seq(Messages)
OBVIOUS

LEMMA RequestTypes ==
    ASSUME NEW r \in Requests
    PROVE  /\ r \in Seq(Messages) /\ r # <<>> /\ Len(r) \in Nat
           /\ Range(r) \subseteq Messages
<1>1. r \in Seq(Messages) /\ r # <<>>
  BY ConstantsAssumption
<1> QED
  BY <1>1, RangeOfSeq

LEMMA ReplyTypes ==
    ASSUME NEW reply \in Replies
    PROVE  reply \in Seq(Messages) /\ Range(reply) \subseteq Messages
<1>1. reply = <<>> \/ reply = <<Answer>>
  BY DEF Replies
<1>2. <<Answer>> \in Seq(Messages)
  BY ConstantsAssumption
<1>3. reply \in Seq(Messages)
  BY <1>1, <1>2, EmptyChat
<1> QED
  BY <1>3, RangeOfSeq

\* What is kept after a run is the request and the reply.
LEMMA KnownTypes ==
    ASSUME NEW r \in Requests, NEW reply \in Replies
    PROVE  /\ r \o reply \in Known
           /\ Range(r \o reply) = Range(r) \cup Range(reply)
<1>1. r \o reply \in Known
  BY DEF Known
<1>2. r \in Seq(Messages) /\ reply \in Seq(Messages)
  BY RequestTypes, ReplyTypes
<1> QED
  BY <1>1, <1>2, RangeConcatenation

\* What is sent of a request that goes on with messages m is part of it; with
\* a beginning of it, the two together are the request.
LEMMA RestOfRequest ==
    ASSUME NEW r \in Requests, NEW m \in Known \cup {<<>>}
    PROVE  LET rest == Range(SubSeq(r, Len(m) + 1, Len(r)))
           IN  /\ rest \subseteq Messages
               /\ Len(m) < Len(r) /\ SubSeq(r, 1, Len(m)) = m
                    => Range(r) = Range(m) \cup rest
               /\ m = <<>> => rest = Range(r)
<1>1. r \in Seq(Messages) /\ Len(r) \in Nat
  BY RequestTypes
<1>2. m \in Seq(Messages) /\ Len(m) \in Nat
  <2>1. \A q \in Requests, reply \in Replies : q \o reply \in Seq(Messages)
    BY RequestTypes, ReplyTypes, ConcatProperties
  <2>2. ASSUME m \in Known PROVE m \in Seq(Messages)
    <3>1. PICK q \in Requests, reply \in Replies : m = q \o reply
      BY <2>2 DEF Known
    <3> QED
      BY <2>1, <3>1
  <2>3. m \in Seq(Messages)
    BY <2>2, EmptyChat
  <2> QED
    BY <2>3
<1>3. Range(SubSeq(r, Len(m) + 1, Len(r))) \subseteq Messages
  <2>1. \A i \in Len(m) + 1 .. Len(r) : r[i] \in Messages
    BY <1>1, <1>2
  <2>2. Len(m) + 1 \in Int /\ Len(r) \in Int
    BY <1>1, <1>2
  <2>3. SubSeq(r, Len(m) + 1, Len(r)) \in Seq(Messages)
    BY <2>1, <2>2, SubSeqProperties
  <2> QED
    BY <2>3, RangeOfSeq
<1>4. ASSUME Len(m) < Len(r), SubSeq(r, 1, Len(m)) = m
      PROVE  Range(r) = Range(m) \cup Range(SubSeq(r, Len(m) + 1, Len(r)))
  <2>1. Len(m) \in 0..Len(r)
    BY <1>1, <1>2, <1>4
  <2> QED
    BY <1>1, <1>4, <2>1, ChatSplits
<1>5. ASSUME m = <<>>
      PROVE  Range(SubSeq(r, Len(m) + 1, Len(r))) = Range(r)
  <2>1. Len(m) + 1 = 1
    BY <1>5
  <2> QED
    BY <1>1, <2>1, SubSeqFull
<1> QED
  BY <1>3, <1>4, <1>5

----------------------------------------------------------------------------
(* The initial states.                                                     *)

RtType == [state : State \cup {NoState}, key : ProviderKeys \cup {NoKey},
           messages : Known \cup {<<>>}]

LEMMA RuntimeTypes ==
    /\ NoRuntime \in OptRuntime /\ NoRuntime \in RtType
    /\ NoRuntime.state = NoState /\ NoRuntime.key = NoKey
    /\ NoRuntime.messages = <<>>
    /\ OptRuntime \subseteq RtType
    /\ \A rt \in Runtime : /\ rt.state \in State /\ rt.state # NoState
                           /\ rt.key \in ProviderKeys /\ rt.messages \in Known
    /\ Truthful(NoRuntime)
    /\ NoData \in Data /\ NoData.messages = 0 /\ NoData.runtime = NoRuntime
<1>1. /\ NoRuntime \in OptRuntime
      /\ NoRuntime.state = NoState /\ NoRuntime.key = NoKey
      /\ NoRuntime.messages = <<>>
  BY DEF NoRuntime, OptRuntime
<1>2. NoRuntime \in RtType
  BY DEF NoRuntime, RtType
<1>3. Runtime \subseteq RtType
  BY DEF Runtime, RtType
<1>4. \A rt \in Runtime : /\ rt.state \in State
                          /\ rt.key \in ProviderKeys /\ rt.messages \in Known
  BY DEF Runtime
<1>5. NoState \notin State
  BY ConstantsAssumption DEF State
<1>6. Truthful(NoRuntime)
  BY <1>1 DEF Truthful
<1>7. NoData \in Data /\ NoData.messages = 0 /\ NoData.runtime = NoRuntime
  BY <1>1, ConstantsAssumption DEF NoData, Data
<1> QED
  BY <1>1, <1>2, <1>3, <1>4, <1>5, <1>6, <1>7 DEF OptRuntime

LEMMA FileTypes ==
    /\ Absent \in File /\ Absent.data = NoData /\ Absent.status = "absent"
    /\ Torn \in File /\ Torn.data = NoData /\ Torn.status = "torn"
    /\ Disturbed \notin File /\ Disturbed.data = NoData
    /\ \A d \in Data : Ok(d) \in File /\ Ok(d).data = d /\ Ok(d).status = "ok"
    /\ \A f \in File : f.data \in Data
    /\ Absent # Disturbed
<1>1. NoData \in Data
  BY RuntimeTypes
<1>2. /\ Absent \in File /\ Absent.data = NoData /\ Absent.status = "absent"
      /\ Torn \in File /\ Torn.data = NoData /\ Torn.status = "torn"
  BY <1>1 DEF Absent, Torn, File
<1>3. Disturbed.data = NoData /\ Disturbed.status = "disturbed"
  BY DEF Disturbed
<1>4. \A f \in File : f.data \in Data /\ f.status # "disturbed"
  BY DEF File
<1>5. \A d \in Data : Ok(d) \in File /\ Ok(d).data = d /\ Ok(d).status = "ok"
  BY DEF Ok, File
<1>6. Absent # Disturbed
  BY <1>2, <1>3
<1> QED
  BY <1>2, <1>3, <1>4, <1>5, <1>6

LEMMA SessionInit == Init => IInv
<1> SUFFICES ASSUME Init PROVE IInv
  OBVIOUS
<1>1. TypeOK
  <2>1. runtime \in [Workers -> RtType]
    BY RuntimeTypes DEF Init
  <2>2. memory \in OptRuntime /\ data \in [Workers -> Data]
    BY RuntimeTypes DEF Init
  <2>3. file \in File /\ settled \in File \cup {Disturbed}
    BY FileTypes DEF Init
  <2>4. pc \in [Workers -> Places] /\ request \in [Workers -> Requests \cup {<<>>}]
    BY DEF Init, Places
  <2>5. /\ cancelFunc \in Workers \cup {NoWorker} /\ unlinked \in SUBSET Workers
        /\ saves \in 0..MaxSaves /\ shared \in SUBSET Workers
    BY ConstantsAssumption DEF Init
  <2> QED
    BY <2>1, <2>2, <2>3, <2>4, <2>5 DEF TypeOK, RtType
<1>2. \A w \in Workers : /\ pc[w] = "idle" /\ runtime[w] = NoRuntime
                         /\ data[w] = NoData
  BY DEF Init
<1>3. LocalsOK
  BY <1>2, RuntimeTypes DEF LocalsOK, LocalAt
<1>4. HonestOK
  <2>1. memory = NoRuntime /\ file.data.runtime = NoRuntime
    BY RuntimeTypes, FileTypes DEF Init
  <2> QED
    BY <1>2, <2>1, RuntimeTypes DEF HonestOK
<1>5. NothingIsForgotten /\ StopOK /\ UnlinkedOK
  BY <1>2 DEF Init, NothingIsForgotten, StopOK, UnlinkedOK, Streaming
<1>6. WriterOK
  BY <1>2 DEF Init, WriterOK, FileIsSettled, Writing
<1> QED
  BY <1>1, <1>3, <1>4, <1>5, <1>6 DEF IInv

----------------------------------------------------------------------------
(* What the step of one goroutine leaves alone.                            *)

Others(w) ==
    \A v \in Workers \ {w} :
        /\ pc'[v] = pc[v] /\ request'[v] = request[v]
        /\ runtime'[v] = runtime[v] /\ data'[v] = data[v]

\* What a resumed run knows and is sent is the request.
ToldAt(w) ==
    pc[w] = "run" /\ runtime[w].state # NoState
        => Range(request[w]) \subseteq Recalls(runtime[w]) \cup Delta(w)

\* The goroutine that moves has to answer for itself only.
LEMMA WorkerFrame ==
    ASSUME IInv, NEW w \in Workers, Others(w), LocalAt(w)', ToldAt(w)',
           Truthful(runtime[w])', Truthful(data[w].runtime)'
    PROVE  /\ LocalsOK' /\ NothingIsForgotten'
           /\ \A v \in Workers : Truthful(runtime[v])' /\ Truthful(data[v].runtime)'
<1>1. ASSUME NEW v \in Workers
      PROVE  LocalAt(v)'
  <2>1. CASE v = w
    BY <2>1
  <2>2. CASE v # w
    BY <2>2 DEF Others, IInv, LocalsOK, LocalAt
  <2> QED
    BY <2>1, <2>2
<1>2. ASSUME NEW v \in Workers
      PROVE  ToldAt(v)'
  <2>1. CASE v = w
    BY <2>1
  <2>2. CASE v # w
    <3>1. ToldAt(v)
      BY DEF IInv, NothingIsForgotten, ToldAt
    <3> QED
      BY <2>2, <3>1 DEF Others, ToldAt, Delta
  <2> QED
    BY <2>1, <2>2
<1>3. ASSUME NEW v \in Workers
      PROVE  Truthful(runtime[v])' /\ Truthful(data[v].runtime)'
  <2>1. CASE v = w
    BY <2>1
  <2>2. CASE v # w
    <3>1. Truthful(runtime[v]) /\ Truthful(data[v].runtime)
      BY DEF IInv, HonestOK
    <3>2. runtime'[v] = runtime[v] /\ data'[v] = data[v]
      BY <2>2 DEF Others
    <3> QED
      BY <3>1, <3>2 DEF Truthful
  <2> QED
    BY <2>1, <2>2
<1> QED
  BY <1>1, <1>2, <1>3 DEF LocalsOK, NothingIsForgotten, ToldAt

\* Nobody begins or ends a stream.
LEMMA StopFrame ==
    ASSUME StopOK, UNCHANGED <<cancelFunc, shared>>,
           \A v \in Workers : pc'[v] \in Streaming <=> pc[v] \in Streaming,
           cancelFunc \in Workers \cup {NoWorker}
    PROVE  StopOK'
BY DEF StopOK

\* The file is left alone by one that does not write.
LEMMA FileFrame ==
    ASSUME IInv, NEW w \in Workers, Others(w), UNCHANGED <<file, settled>>,
           unlinked' = unlinked, pc[w] \notin Writing, pc'[w] \notin Writing
    PROVE  WriterOK' /\ UnlinkedOK'
<1>1. \A v \in Workers : pc'[v] \in Writing => v # w /\ pc'[v] = pc[v] /\ data'[v] = data[v]
  BY DEF Others
<1>2. \A v \in Workers : pc[v] \in Writing => v # w /\ pc'[v] = pc[v]
  BY DEF Others
<1>3. Filling \subseteq Writing /\ {"truncate", "fill"} \subseteq Writing
        /\ {"saveTruncate", "saveFill"} \subseteq Writing
  BY DEF Filling, Writing
<1>4. UnlinkedOK'
  BY <1>2, <1>3 DEF IInv, TypeOK, UnlinkedOK
<1>5. WriterOK'
  <2>1. SUFFICES ASSUME settled # Disturbed
                 PROVE  WriterOK'
    BY DEF WriterOK
  <2>2. \A u, v \in Workers : u # v /\ pc'[u] \in Writing => pc'[v] \notin Writing
    BY <1>1, <2>1 DEF IInv, WriterOK
  <2>3. \A v \in Workers :
          /\ pc'[v] \in {"truncate", "fill"}
               => data'[v].messages = settled.data.messages
          /\ pc'[v] \in {"saveTruncate", "saveFill"}
               => data'[v].runtime = settled.data.runtime
    BY <1>1, <1>3, <2>1 DEF IInv, WriterOK
  <2>4. FileIsSettled'
    BY <1>2, <1>3, <2>1 DEF IInv, WriterOK, FileIsSettled
  <2> QED
    BY <2>1, <2>2, <2>3, <2>4 DEF IInv, WriterOK
<1> QED
  BY <1>4, <1>5

\* A step that keeps the types, and each part of the invariant.
LEMMA Together ==
    ASSUME TypeOK', LocalsOK', NothingIsForgotten', StopOK', WriterOK', UnlinkedOK',
           Truthful(memory)', Truthful(file.data.runtime)',
           \A v \in Workers : Truthful(runtime[v])' /\ Truthful(data[v].runtime)'
    PROVE  IInv'
BY DEF IInv, HonestOK

----------------------------------------------------------------------------
(* The provider's conversation.                                            *)

LEMMA BeginStreamStep ==
    ASSUME IInv, NEW w \in Workers, NEW r \in Requests, NEW k \in ProviderKeys,
           BeginStream(w, r, k)
    PROVE  IInv'
<1> DEFINE rt == [NoRuntime EXCEPT !.key = k]
<1>1. /\ rt.state = NoState /\ rt.key = k /\ rt.messages = <<>>
      /\ rt \in RtType
  BY DEF NoRuntime, RtType
<1> HIDE DEF rt
<1>2. /\ pc[w] = "idle" /\ pc' = [pc EXCEPT ![w] = "resolve"]
      /\ request' = [request EXCEPT ![w] = r]
      /\ runtime' = [runtime EXCEPT ![w] = rt]
      /\ cancelFunc' = w
      /\ UNCHANGED <<memory, file, data, unlinked, saves, settled>>
      /\ shared' = IF Streams = {} THEN shared \ {w} ELSE shared \cup Streams \cup {w}
  BY DEF BeginStream, Goto, fileVars, rt
<1>3. TypeOK'
  <2>1. pc' \in [Workers -> Places] /\ request' \in [Workers -> Requests \cup {<<>>}]
    BY <1>2 DEF IInv, TypeOK, Places, Streaming
  <2>2. runtime' \in [Workers -> RtType]
    BY <1>1, <1>2 DEF IInv, TypeOK, RtType
  <2>3. shared' \in SUBSET Workers
    BY <1>2 DEF IInv, TypeOK, Streams
  <2> QED
    BY <1>2, <2>1, <2>2, <2>3 DEF IInv, TypeOK, RtType
<1>4. /\ Others(w) /\ pc'[w] = "resolve" /\ request'[w] = r
      /\ runtime'[w] = rt /\ data'[w] = data[w]
  BY <1>2 DEF IInv, TypeOK, Others
<1>5. LocalAt(w)' /\ ToldAt(w)'
  BY <1>1, <1>4 DEF LocalAt, ToldAt
<1>6. Truthful(runtime[w])' /\ Truthful(data[w].runtime)'
  BY <1>1, <1>4 DEF IInv, HonestOK, Truthful
<1>7. /\ LocalsOK' /\ NothingIsForgotten'
      /\ \A v \in Workers : Truthful(runtime[v])' /\ Truthful(data[v].runtime)'
  BY <1>4, <1>5, <1>6, WorkerFrame
<1>8. Truthful(memory)' /\ Truthful(file.data.runtime)'
  BY <1>2 DEF IInv, HonestOK, Truthful
<1>9. WriterOK' /\ UnlinkedOK'
  BY <1>2, <1>4, FileFrame DEF Writing
<1>10. StopOK'
  <2>1. pc'[w] \in Streaming /\ pc[w] \notin Streaming
    BY <1>2, <1>4 DEF Streaming
  <2>2. \A v \in Workers : v # w => pc'[v] = pc[v]
    BY <1>4 DEF Others
  <2>3. CASE Streams = {}
    <3>1. \A v \in Workers : v # w => pc'[v] \notin Streaming
      BY <2>2, <2>3 DEF Streams
    <3> QED
      BY <1>2, <2>1, <3>1 DEF StopOK
  <2>4. CASE Streams # {}
    <3>1. \A v \in Workers : pc'[v] \in Streaming => v \in shared'
      BY <1>2, <2>2, <2>4 DEF Streams
    <3> QED
      BY <1>2, <2>1, <3>1 DEF StopOK
  <2> QED
    BY <2>3, <2>4
<1> QED
  BY <1>3, <1>7, <1>8, <1>9, <1>10, Together

\* A stream that does not write goes on with other locals.
LEMMA StreamStep ==
    ASSUME IInv, NEW w \in Workers, NEW place \in Streaming \ Writing,
           pc[w] \in Streaming \ Writing,
           NEW r \in Requests \cup {<<>>}, NEW rt \in RtType,
           pc' = [pc EXCEPT ![w] = place],
           request' = [request EXCEPT ![w] = r],
           runtime' = [runtime EXCEPT ![w] = rt],
           memory' \in OptRuntime, Truthful(memory'), Truthful(rt),
           LocalAt(w)', ToldAt(w)',
           UNCHANGED <<cancelFunc, file, data, unlinked, saves, shared, settled>>
    PROVE  IInv'
<1>1. TypeOK'
  <2>1. pc' \in [Workers -> Places] /\ request' \in [Workers -> Requests \cup {<<>>}]
    BY DEF IInv, TypeOK, Places
  <2>2. runtime' \in [Workers -> RtType]
    BY DEF IInv, TypeOK, RtType
  <2> QED
    BY <2>1, <2>2 DEF IInv, TypeOK, RtType
<1>2. Others(w) /\ pc'[w] = place /\ runtime'[w] = rt
  BY DEF IInv, TypeOK, Others
<1>3. Truthful(runtime[w])' /\ Truthful(data[w].runtime)'
  BY <1>2 DEF IInv, HonestOK, Truthful
<1>4. /\ LocalsOK' /\ NothingIsForgotten'
      /\ \A v \in Workers : Truthful(runtime[v])' /\ Truthful(data[v].runtime)'
  BY <1>2, <1>3, WorkerFrame
<1>5. Truthful(memory)' /\ Truthful(file.data.runtime)'
  BY DEF IInv, HonestOK, Truthful
<1>6. WriterOK' /\ UnlinkedOK'
  BY <1>2, FileFrame
<1>7. StopOK'
  <2>1. \A v \in Workers : pc'[v] \in Streaming <=> pc[v] \in Streaming
    BY <1>2 DEF Others
  <2> QED
    BY <2>1, StopFrame DEF IInv, TypeOK
<1> QED
  BY <1>1, <1>4, <1>5, <1>6, <1>7, Together

LEMMA TypesOf ==
    ASSUME IInv, NEW w \in Workers
    PROVE  /\ memory \in OptRuntime /\ Truthful(memory)
           /\ file.data \in Data /\ file.data.runtime \in OptRuntime
           /\ Truthful(file.data.runtime)
           /\ runtime[w] \in RtType /\ Truthful(runtime[w]) /\ LocalAt(w) /\ ToldAt(w)
           /\ request[w] \in Requests \cup {<<>>}
           /\ data[w] \in Data /\ Truthful(data[w].runtime)
           /\ pc[w] \in Places
<1>1. file.data \in Data
  BY FileTypes DEF IInv, TypeOK
<1>2. file.data.runtime \in OptRuntime
  BY <1>1 DEF Data
<1>3. runtime[w] \in RtType /\ request[w] \in Requests \cup {<<>>} /\ data[w] \in Data
        /\ pc[w] \in Places /\ memory \in OptRuntime
  BY DEF IInv, TypeOK, RtType
<1>4. LocalAt(w) /\ ToldAt(w)
  BY DEF IInv, LocalsOK, NothingIsForgotten, ToldAt
<1> QED
  BY <1>1, <1>2, <1>3, <1>4 DEF IInv, HonestOK

LEMMA BypassStep ==
    ASSUME IInv, NEW w \in Workers, Bypass(w) \/ RunFails(w)
    PROVE  IInv'
<1>1. /\ pc[w] \in Streaming \ Writing /\ "unregister" \in Streaming \ Writing
      /\ pc' = [pc EXCEPT ![w] = "unregister"]
      /\ request' = [request EXCEPT ![w] = <<>>]
      /\ runtime' = [runtime EXCEPT ![w] = NoRuntime]
      /\ UNCHANGED <<cancelFunc, memory, file, data, unlinked, saves, shared, settled>>
  BY DEF Bypass, RunFails, Goto, fileVars, histVars, Streaming, Writing
<1>2. pc'[w] = "unregister" /\ runtime'[w] = NoRuntime
  BY <1>1 DEF IInv, TypeOK
<1>3. LocalAt(w)' /\ ToldAt(w)'
  BY <1>2, RuntimeTypes DEF LocalAt, ToldAt
<1>4. memory' \in OptRuntime /\ Truthful(memory')
  BY <1>1, TypesOf
<1> QED
  BY <1>1, <1>3, <1>4, RuntimeTypes, StreamStep

\* Whatever state is found, what is resumed is a beginning of the request.
LEMMA DecideStep ==
    ASSUME IInv, NEW w \in Workers, pc[w] \in {"resolve", "load", "remember"},
           NEW rt \in OptRuntime, Truthful(rt), Decide(w, rt),
           memory' \in OptRuntime, Truthful(memory'),
           UNCHANGED <<request, cancelFunc, file, data, unlinked, saves, shared, settled>>
    PROVE  IInv'
<1> DEFINE new == IF Resumes(request[w], rt) THEN rt
                  ELSE [NoRuntime EXCEPT !.key = runtime[w].key]
           blank == [NoRuntime EXCEPT !.key = runtime[w].key]
<1>1. request[w] \in Requests /\ runtime[w].key \in ProviderKeys
  BY TypesOf DEF LocalAt
<1>2. blank.state = NoState /\ blank.messages = <<>> /\ blank.key = runtime[w].key
        /\ blank \in RtType
  BY <1>1 DEF NoRuntime, RtType
<1>3. pc' = [pc EXCEPT ![w] = "run"] /\ runtime' = [runtime EXCEPT ![w] = new]
  BY DEF Decide, Goto
<1>4. /\ new = rt /\ Resumes(request[w], rt) /\ rt.state # NoState
           /\ rt \in Runtime
      \/ new = blank
  <2>1. CASE Resumes(request[w], rt)
    <3>1. rt.state # NoState
      BY <2>1 DEF Resumes
    <3> QED
      BY <2>1, <3>1, RuntimeTypes DEF OptRuntime
  <2> QED
    BY <2>1
<1> HIDE DEF new, blank
<1>5. new \in RtType /\ Truthful(new)
  BY <1>2, <1>4, RuntimeTypes DEF Truthful
<1>6. /\ new.state # NoState => new \in Runtime
      /\ new.state = NoState => new.messages = <<>>
      /\ new.key \in ProviderKeys
  BY <1>1, <1>2, <1>4, RuntimeTypes
<1>7. new.state # NoState =>
        Range(request[w]) \subseteq
          Recalls(new) \cup
            Range(SubSeq(request[w], Len(new.messages) + 1, Len(request[w])))
  <2>1. SUFFICES ASSUME new = rt, Resumes(request[w], rt), rt \in Runtime
                 PROVE  Range(request[w]) \subseteq
                          Recalls(rt) \cup
                            Range(SubSeq(request[w], Len(rt.messages) + 1,
                                         Len(request[w])))
    BY <1>2, <1>4
  <2>2. rt.state # NoState /\ rt.messages \in Known
    BY <2>1, RuntimeTypes
  <2>3. Range(rt.messages) \subseteq Recalls(rt)
    BY <2>2 DEF Truthful, Recalls
  <2>4. Len(rt.messages) < Len(request[w])
          /\ SubSeq(request[w], 1, Len(rt.messages)) = rt.messages
    BY <2>1 DEF Resumes
  <2>5. Range(request[w]) =
          Range(rt.messages) \cup
            Range(SubSeq(request[w], Len(rt.messages) + 1, Len(request[w])))
    BY <1>1, <2>2, <2>4, RestOfRequest
  <2> QED
    BY <2>3, <2>5
<1>8. pc'[w] = "run" /\ runtime'[w] = new /\ request'[w] = request[w]
  BY <1>3 DEF IInv, TypeOK
<1>9. LocalAt(w)'
  BY <1>1, <1>6, <1>8 DEF LocalAt
<1>10. ToldAt(w)'
  BY <1>7, <1>8 DEF ToldAt, Delta
<1>11. request' = [request EXCEPT ![w] = request[w]]
  BY DEF IInv, TypeOK
<1>12. "run" \in Streaming \ Writing /\ pc[w] \in Streaming \ Writing
  BY DEF Streaming, Writing
<1> QED
  BY <1>1, <1>3, <1>5, <1>9, <1>10, <1>11, <1>12, StreamStep

LEMMA ResolveStep ==
    ASSUME IInv, NEW w \in Workers, Resolve(w)
    PROVE  IInv'
<1>1. /\ pc[w] = "resolve"
      /\ UNCHANGED <<cancelFunc, memory, file, data, unlinked, saves, request, shared,
                     settled>>
  BY DEF Resolve, fileVars, histVars
<1>2. CASE memory.key = runtime[w].key
  <2>1. Decide(w, memory)
    BY <1>2 DEF Resolve
  <2> QED
    BY <1>1, <2>1, TypesOf, DecideStep
<1>3. CASE memory.key # runtime[w].key
  <2>1. pc' = [pc EXCEPT ![w] = "load"] /\ runtime' = runtime
    BY <1>3 DEF Resolve, Goto
  <2>2. /\ runtime' = [runtime EXCEPT ![w] = runtime[w]]
        /\ request' = [request EXCEPT ![w] = request[w]]
        /\ pc'[w] = "load"
    BY <1>1, <2>1 DEF IInv, TypeOK
  <2>3. LocalAt(w)' /\ ToldAt(w)'
    BY <1>1, <2>1, <2>2, TypesOf DEF LocalAt, ToldAt
  <2>4. "load" \in Streaming \ Writing /\ pc[w] \in Streaming \ Writing
    BY <1>1 DEF Streaming, Writing
  <2> QED
    BY <1>1, <2>1, <2>2, <2>3, <2>4, TypesOf, StreamStep
<1> QED
  BY <1>2, <1>3

LEMMA LoadRuntimeStep ==
    ASSUME IInv, NEW w \in Workers, LoadRuntime(w)
    PROVE  IInv'
<1> DEFINE rt == file.data.runtime
<1>t. rt \in OptRuntime /\ Truthful(rt)
  BY TypesOf
<1> HIDE DEF rt
<1>1. /\ pc[w] = "load"
      /\ UNCHANGED <<cancelFunc, memory, file, data, unlinked, saves, request, shared,
                     settled>>
  BY DEF LoadRuntime, fileVars, histVars
<1>2. CASE rt.key = runtime[w].key
  <2>1. pc' = [pc EXCEPT ![w] = "remember"] /\ runtime' = [runtime EXCEPT ![w] = rt]
    BY <1>2 DEF LoadRuntime, Goto, rt
  <2>2. /\ pc'[w] = "remember" /\ runtime'[w] = rt
        /\ request' = [request EXCEPT ![w] = request[w]] /\ request'[w] = request[w]
    BY <1>1, <2>1 DEF IInv, TypeOK
  <2>3. request[w] \in Requests /\ runtime[w].key \in ProviderKeys
    BY <1>1, TypesOf DEF LocalAt
  <2>4. rt.state # NoState => rt \in Runtime
    BY <1>t, RuntimeTypes DEF OptRuntime
  <2>5. LocalAt(w)' /\ ToldAt(w)'
    BY <1>t, <1>2, <2>2, <2>3, <2>4 DEF LocalAt, ToldAt
  <2>6. "remember" \in Streaming \ Writing /\ pc[w] \in Streaming \ Writing
    BY <1>1 DEF Streaming, Writing
  <2>7. rt \in RtType
    BY <1>t, RuntimeTypes
  <2> QED
    BY <1>1, <1>t, <2>1, <2>2, <2>5, <2>6, <2>7, TypesOf, StreamStep
<1>3. CASE rt.key # runtime[w].key
  <2>1. Decide(w, NoRuntime)
    BY <1>3 DEF LoadRuntime, rt
  <2> QED
    BY <1>1, <2>1, TypesOf, RuntimeTypes, DecideStep
<1> QED
  BY <1>2, <1>3

LEMMA RememberStep ==
    ASSUME IInv, NEW w \in Workers, Remember(w)
    PROVE  IInv'
<1>1. /\ pc[w] = "remember" /\ memory' = runtime[w] /\ Decide(w, runtime[w])
      /\ UNCHANGED <<cancelFunc, file, data, unlinked, saves, request, shared, settled>>
  BY DEF Remember, fileVars, histVars
<1>2. runtime[w] \in OptRuntime /\ Truthful(runtime[w])
  BY <1>1, TypesOf DEF LocalAt
<1>3. memory' \in OptRuntime /\ Truthful(memory')
  BY <1>1, <1>2
<1> QED
  BY <1>1, <1>2, <1>3, DecideStep

\* The provider was told all of the request and its own reply.
LEMMA RunAnswersStep ==
    ASSUME IInv, NEW w \in Workers, NEW reply \in Replies, RunAnswers(w, reply)
    PROVE  IInv'
<1> DEFINE rt == runtime[w]
           told == Recalls(rt) \cup Delta(w) \cup Range(reply)
           state == [owner |-> rt.key, told |-> told]
           answered == [state |-> state, key |-> rt.key,
                        messages |-> request[w] \o reply]
<1>1. /\ pc[w] = "run"
      /\ pc' = [pc EXCEPT ![w] = "store"]
      /\ request' = [request EXCEPT ![w] = <<>>]
      /\ UNCHANGED <<cancelFunc, memory, file, data, unlinked, saves, shared, settled>>
  BY DEF RunAnswers, Goto, fileVars, histVars
<1>2. \/ runtime' = [runtime EXCEPT ![w] = answered]
      \/ runtime' = [runtime EXCEPT ![w] = NoRuntime]
  BY DEF RunAnswers
<1>3. /\ request[w] \in Requests /\ rt.key \in ProviderKeys /\ rt \in RtType
      /\ rt.state # NoState => rt \in Runtime
      /\ rt.state = NoState => rt.messages = <<>>
      /\ rt.state # NoState => Range(request[w]) \subseteq Recalls(rt) \cup Delta(w)
  BY <1>1, TypesOf DEF LocalAt, ToldAt
<1>4. rt.messages \in Known \cup {<<>>}
  BY <1>3 DEF RtType
<1>5. /\ Delta(w) \subseteq Messages
      /\ rt.messages = <<>> => Delta(w) = Range(request[w])
  BY <1>3, <1>4, RestOfRequest DEF Delta
<1>6. Range(request[w]) \subseteq told
  BY <1>3, <1>5
<1>7. Recalls(rt) \subseteq Messages
  BY <1>3 DEF Recalls, RtType, State
<1>8. told \in SUBSET Messages
  BY <1>5, <1>7, ReplyTypes
<1>9. state \in State /\ state.owner = rt.key /\ state.told = told
  BY <1>3, <1>8 DEF State
<1>10. /\ request[w] \o reply \in Known
       /\ Range(request[w] \o reply) = Range(request[w]) \cup Range(reply)
  BY <1>3, KnownTypes
<1>11. Range(request[w] \o reply) \subseteq told
  BY <1>6, <1>10
<1> HIDE DEF told, state
<1>12. /\ answered \in Runtime /\ answered.state = state /\ answered.key = rt.key
       /\ answered.messages = request[w] \o reply
  BY <1>3, <1>9, <1>10 DEF Runtime
<1> HIDE DEF answered
<1>13. Truthful(answered)
  BY <1>9, <1>11, <1>12 DEF Truthful
<1>14. PICK new \in {answered, NoRuntime} : runtime' = [runtime EXCEPT ![w] = new]
  BY <1>2
<1>15. new \in OptRuntime /\ new \in RtType /\ Truthful(new)
  BY <1>12, <1>13, <1>14, RuntimeTypes DEF OptRuntime
<1>16. pc'[w] = "store" /\ runtime'[w] = new
  BY <1>1, <1>14 DEF IInv, TypeOK
<1>17. new.state # NoState => new \in Runtime
  BY <1>12, <1>14, RuntimeTypes
<1>18. LocalAt(w)' /\ ToldAt(w)'
  BY <1>15, <1>16, <1>17 DEF LocalAt, ToldAt
<1>19. "store" \in Streaming \ Writing /\ pc[w] \in Streaming \ Writing
  BY <1>1 DEF Streaming, Writing
<1>20. memory' \in OptRuntime /\ Truthful(memory')
  BY <1>1, TypesOf
<1> QED
  BY <1>1, <1>14, <1>15, <1>18, <1>19, <1>20, StreamStep

LEMMA StoreMemoryStep ==
    ASSUME IInv, NEW w \in Workers, StoreMemory(w)
    PROVE  IInv'
<1>1. /\ pc[w] = "store" /\ pc' = [pc EXCEPT ![w] = "read"] /\ memory' = runtime[w]
      /\ UNCHANGED <<cancelFunc, file, data, unlinked, saves, request, runtime, shared,
                     settled>>
  BY DEF StoreMemory, Goto, fileVars, histVars
<1>2. runtime[w] \in OptRuntime /\ Truthful(runtime[w]) /\ runtime[w] \in RtType
  BY <1>1, TypesOf DEF LocalAt
<1>3. /\ runtime' = [runtime EXCEPT ![w] = runtime[w]]
      /\ request' = [request EXCEPT ![w] = request[w]]
      /\ pc'[w] = "read"
  BY <1>1 DEF IInv, TypeOK
<1>4. LocalAt(w)' /\ ToldAt(w)'
  BY <1>1, <1>2, <1>3, TypesOf DEF LocalAt, ToldAt
<1>5. "read" \in Streaming \ Writing /\ pc[w] \in Streaming \ Writing
  BY <1>1 DEF Streaming, Writing
<1>6. memory' \in OptRuntime /\ Truthful(memory')
  BY <1>1, <1>2
<1> QED
  BY <1>1, <1>2, <1>3, <1>4, <1>5, <1>6, TypesOf, StreamStep

----------------------------------------------------------------------------
(* The session file.                                                       *)

Outside == Places \ {"resolve", "load", "remember", "run", "store", "read"}

\* A call that has no use for its request any more; what it does to the file and
\* to the streams is left to the step.
LEMMA CallStep ==
    ASSUME IInv, NEW w \in Workers, NEW place \in Outside,
           NEW rt \in RtType, NEW d \in Data,
           pc' = [pc EXCEPT ![w] = place],
           runtime' = [runtime EXCEPT ![w] = rt],
           data' = [data EXCEPT ![w] = d],
           rt.state # NoState => rt \in Runtime, Truthful(rt), Truthful(d.runtime),
           request' = request,
           memory' \in OptRuntime, Truthful(memory'),
           file' \in File, Truthful(file'.data.runtime),
           cancelFunc' \in Workers \cup {NoWorker}, shared' \in SUBSET Workers,
           saves' \in 0..MaxSaves, unlinked' \in SUBSET Workers,
           settled' \in File \cup {Disturbed},
           StopOK', WriterOK', UnlinkedOK'
    PROVE  IInv'
<1>1. TypeOK'
  <2>1. pc' \in [Workers -> Places] /\ request' \in [Workers -> Requests \cup {<<>>}]
    BY DEF IInv, TypeOK, Outside
  <2>2. runtime' \in [Workers -> RtType]
    BY DEF IInv, TypeOK, RtType
  <2>3. data' \in [Workers -> Data]
    BY DEF IInv, TypeOK
  <2> QED
    BY <2>1, <2>2, <2>3 DEF TypeOK, RtType
<1>2. /\ Others(w) /\ pc'[w] = place /\ runtime'[w] = rt /\ data'[w] = d
  BY DEF IInv, TypeOK, Others
<1>3. LocalAt(w)' /\ ToldAt(w)'
  BY <1>2 DEF LocalAt, ToldAt, Outside
<1>4. Truthful(runtime[w])' /\ Truthful(data[w].runtime)'
  BY <1>2 DEF Truthful
<1>5. /\ LocalsOK' /\ NothingIsForgotten'
      /\ \A v \in Workers : Truthful(runtime[v])' /\ Truthful(data[v].runtime)'
  BY <1>2, <1>3, <1>4, WorkerFrame
<1>6. Truthful(memory)' /\ Truthful(file.data.runtime)'
  BY DEF Truthful
<1> QED
  BY <1>1, <1>5, <1>6, Together

LEMMA BeginSaveStep ==
    ASSUME IInv, NEW w \in Workers, BeginSave(w)
    PROVE  IInv'
<1> DEFINE d == [NoData EXCEPT !.messages = saves + 1]
<1>1. /\ pc[w] = "idle" /\ pc' = [pc EXCEPT ![w] = "saveRead"]
      /\ saves' \in 0..MaxSaves /\ saves + 1 \in 0..MaxSaves
      /\ data' = [data EXCEPT ![w] = d]
      /\ UNCHANGED <<cancelFunc, memory, file, unlinked, request, runtime, shared,
                     settled>>
  BY ConstantsAssumption DEF BeginSave, Goto, histVars, IInv, TypeOK
<1>2. d \in Data /\ d.runtime = NoRuntime
  BY <1>1, RuntimeTypes DEF NoData, Data
<1> HIDE DEF d
<1>3. /\ runtime' = [runtime EXCEPT ![w] = runtime[w]]
      /\ runtime[w].state # NoState => runtime[w] \in Runtime
  BY <1>1, TypesOf DEF IInv, TypeOK, LocalAt
<1>4. Others(w) /\ pc'[w] = "saveRead"
  BY <1>1 DEF IInv, TypeOK, Others
<1>5. WriterOK' /\ UnlinkedOK'
  BY <1>1, <1>4, FileFrame DEF Writing
<1>6. StopOK'
  <2>1. \A v \in Workers : pc'[v] \in Streaming <=> pc[v] \in Streaming
    BY <1>1, <1>4 DEF Others, Streaming
  <2> QED
    BY <1>1, <2>1, StopFrame DEF IInv, TypeOK
<1>7. "saveRead" \in Outside
  BY DEF Outside, Places, Saving
<1>8. /\ memory' \in OptRuntime /\ Truthful(memory')
      /\ file' \in File /\ Truthful(file'.data.runtime)
      /\ cancelFunc' \in Workers \cup {NoWorker} /\ shared' \in SUBSET Workers
      /\ unlinked' \in SUBSET Workers /\ settled' \in File \cup {Disturbed}
  BY <1>1, TypesOf DEF IInv, TypeOK
<1>9. runtime[w] \in RtType /\ Truthful(runtime[w]) /\ Truthful(d.runtime)
  BY <1>2, TypesOf, RuntimeTypes
<1> QED
  BY <1>1, <1>2, <1>3, <1>5, <1>6, <1>7, <1>8, <1>9, CallStep

\* The streams are the same after a step of a call that goes from a place of
\* streams to another or from one to another of the others.
LEMMA SameStreams ==
    ASSUME IInv, NEW w \in Workers, Others(w), UNCHANGED <<cancelFunc, shared>>,
           pc'[w] \in Streaming <=> pc[w] \in Streaming
    PROVE  /\ StopOK'
           /\ cancelFunc' \in Workers \cup {NoWorker} /\ shared' \in SUBSET Workers
<1>1. \A v \in Workers : pc'[v] \in Streaming <=> pc[v] \in Streaming
  BY DEF Others
<1> QED
  BY <1>1, StopFrame DEF IInv, TypeOK

\* The call goes on without the file.
LEMMA LeaveTypes ==
    ASSUME IInv, NEW w \in Workers, Leave(w), request' = request
    PROVE  /\ Others(w) /\ pc'[w] \in Outside \ Writing
           /\ pc'[w] \in Streaming <=> pc[w] \in Streaming
           /\ pc' = [pc EXCEPT ![w] = pc'[w]]
           /\ data' = [data EXCEPT ![w] = NoData]
           /\ runtime' = [runtime EXCEPT ![w] = NoRuntime]
           /\ unlinked' = unlinked \ {w} /\ unlinked' \in SUBSET Workers
<1>1. /\ pc' = [pc EXCEPT ![w] = IF pc[w] \in Streaming THEN "unregister" ELSE "idle"]
      /\ data' = [data EXCEPT ![w] = NoData]
      /\ runtime' = [runtime EXCEPT ![w] = NoRuntime]
      /\ unlinked' = unlinked \ {w}
  BY DEF Leave, Goto
<1>2. pc'[w] = IF pc[w] \in Streaming THEN "unregister" ELSE "idle"
  BY <1>1 DEF IInv, TypeOK
<1>3. pc' = [pc EXCEPT ![w] = pc'[w]]
  BY <1>1, <1>2
<1>4. Others(w)
  BY <1>1 DEF IInv, TypeOK, Others
<1>5. /\ "unregister" \in Outside \ Writing /\ "idle" \in Outside \ Writing
      /\ "unregister" \in Streaming /\ "idle" \notin Streaming
  BY DEF Outside, Places, Streaming, Writing
<1>6. unlinked' \in SUBSET Workers
  BY <1>1 DEF IInv, TypeOK
<1> QED
  BY <1>1, <1>2, <1>3, <1>4, <1>5, <1>6

\* A call that leaves: the file it leaves is the step's affair.
LEMMA LeaveStep ==
    ASSUME IInv, NEW w \in Workers, Leave(w),
           UNCHANGED <<request, cancelFunc, memory, saves, shared>>,
           file' \in File, Truthful(file'.data.runtime),
           settled' \in File \cup {Disturbed}, WriterOK', UnlinkedOK'
    PROVE  IInv'
<1>1. /\ Others(w) /\ pc'[w] \in Outside
      /\ pc'[w] \in Streaming <=> pc[w] \in Streaming
      /\ pc' = [pc EXCEPT ![w] = pc'[w]]
      /\ data' = [data EXCEPT ![w] = NoData]
      /\ runtime' = [runtime EXCEPT ![w] = NoRuntime]
      /\ unlinked' \in SUBSET Workers
  BY LeaveTypes
<1>2. /\ StopOK'
      /\ cancelFunc' \in Workers \cup {NoWorker} /\ shared' \in SUBSET Workers
  BY <1>1, SameStreams
<1>3. memory' \in OptRuntime /\ Truthful(memory') /\ saves' \in 0..MaxSaves
  BY TypesOf DEF IInv, TypeOK
<1>4. /\ NoRuntime \in RtType /\ NoData \in Data /\ Truthful(NoRuntime)
      /\ NoRuntime.state = NoState /\ NoData.runtime = NoRuntime
  BY RuntimeTypes
<1>5. Truthful(NoData.runtime) /\ (NoRuntime.state # NoState => NoRuntime \in Runtime)
  BY <1>4
<1> QED
  BY <1>1, <1>2, <1>3, <1>4, <1>5, CallStep

\* Nobody else writes, so the calls that leave have left the file as it is to be.
LEMMA SoleWriter ==
    ASSUME IInv, NEW w \in Workers, settled # Disturbed, pc[w] \in Writing
    PROVE  \A v \in Workers \ {w} : pc[v] \notin Writing
BY DEF IInv, WriterOK

\* One that leaves before it writes leaves the file alone.
LEMMA LeavesFile ==
    ASSUME IInv, NEW w \in Workers, Leave(w), pc[w] \notin Filling,
           UNCHANGED <<request, file, settled>>
    PROVE  WriterOK' /\ UnlinkedOK'
<1>1. /\ Others(w) /\ pc'[w] \notin Writing /\ unlinked' = unlinked \ {w}
  BY LeaveTypes
<1>2. \A v \in Workers : pc'[v] \in Writing => v # w /\ pc'[v] = pc[v] /\ data'[v] = data[v]
  BY <1>1 DEF Others
<1>3. /\ Filling \subseteq Writing /\ {"truncate", "fill"} \subseteq Writing
      /\ {"saveTruncate", "saveFill"} \subseteq Writing
  BY DEF Filling, Writing
<1>4. \A v \in Workers : v # w => pc'[v] = pc[v]
  BY <1>1 DEF Others
<1>5. UnlinkedOK'
  BY <1>1, <1>4 DEF IInv, TypeOK, UnlinkedOK
<1>6. ASSUME settled # Disturbed PROVE WriterOK'
  <2>1. \A u, v \in Workers : u # v /\ pc'[u] \in Writing => pc'[v] \notin Writing
    BY <1>2, <1>6 DEF IInv, WriterOK
  <2>2. unlinked' = {}
    BY <1>1, <1>6 DEF IInv, WriterOK
  <2>3. \A v \in Workers :
          /\ pc'[v] \in {"truncate", "fill"}
               => data'[v].messages = settled.data.messages
          /\ pc'[v] \in {"saveTruncate", "saveFill"}
               => data'[v].runtime = settled.data.runtime
    BY <1>2, <1>3, <1>6 DEF IInv, WriterOK
  <2>4. FileIsSettled'
    <3>1. SUFFICES ASSUME \A v \in Workers : pc'[v] \notin Filling
                   PROVE  file = settled
      BY DEF FileIsSettled
    <3>2. \A v \in Workers : pc[v] \notin Filling
      BY <1>4, <3>1
    <3> QED
      BY <1>6, <3>2 DEF IInv, WriterOK, FileIsSettled
  <2> QED
    BY <2>1, <2>2, <2>3, <2>4 DEF WriterOK
<1> QED
  BY <1>5, <1>6 DEF WriterOK

\* What is read is changed in one part only, and is truthful as both parts are.
LEMMA ChangedTypes ==
    ASSUME IInv, NEW w \in Workers, pc[w] \in {"read", "saveRead"}
    PROVE  LET d == Changed(w, file.data)
           IN  /\ d \in Data /\ Truthful(d.runtime)
               /\ pc[w] = "read" => d.messages = file.data.messages
               /\ pc[w] = "saveRead" => d.runtime = file.data.runtime
<1>1. /\ file.data \in Data /\ data[w] \in Data
      /\ Truthful(file.data.runtime) /\ Truthful(runtime[w])
  BY TypesOf
<1>2. CASE pc[w] = "read"
  <2>1. runtime[w] \in OptRuntime
    BY <1>2, TypesOf DEF LocalAt
  <2>2. Changed(w, file.data) = [file.data EXCEPT !.runtime = runtime[w]]
    BY <1>2 DEF Changed
  <2>3. /\ Changed(w, file.data) \in Data
        /\ Changed(w, file.data).runtime = runtime[w]
        /\ Changed(w, file.data).messages = file.data.messages
    BY <1>1, <2>1, <2>2 DEF Data
  <2> QED
    BY <1>1, <1>2, <2>3
<1>3. CASE pc[w] = "saveRead"
  <2>1. Changed(w, file.data) = [file.data EXCEPT !.messages = data[w].messages]
    BY <1>3 DEF Changed
  <2>2. /\ Changed(w, file.data) \in Data
        /\ Changed(w, file.data).runtime = file.data.runtime
    BY <1>1, <2>1 DEF Data
  <2> QED
    BY <1>1, <1>3, <2>2
<1> QED
  BY <1>2, <1>3

\* Who reads while nobody writes reads the file as it was left; else the file is
\* counted as disturbed.
LEMMA ReadFileStep ==
    ASSUME IInv, NEW w \in Workers, ReadFile(w)
    PROVE  IInv'
<1>1. /\ pc[w] \in {"read", "saveRead"}
      /\ UNCHANGED <<cancelFunc, memory, file, saves, request, shared>>
  BY DEF ReadFile
<1>2. pc[w] \notin Writing /\ pc[w] \notin Filling
  BY <1>1 DEF Writing, Filling
<1>3. CASE Leave(w) /\ UNCHANGED settled
  <2>1. WriterOK' /\ UnlinkedOK'
    BY <1>1, <1>2, <1>3, LeavesFile
  <2>2. /\ file' \in File /\ Truthful(file'.data.runtime)
        /\ settled' \in File \cup {Disturbed}
    BY <1>1, <1>3, TypesOf DEF IInv, TypeOK
  <2> QED
    BY <1>1, <1>3, <2>1, <2>2, LeaveStep
<1>4. CASE /\ Goto(w, IF pc[w] = "read" THEN "truncate" ELSE "saveTruncate")
           /\ data' = [data EXCEPT ![w] = Changed(w, file.data)]
           /\ runtime' = [runtime EXCEPT ![w] = NoRuntime]
           /\ settled' = IF OthersWrite(w) THEN Disturbed ELSE settled
           /\ UNCHANGED unlinked
  <2> DEFINE d == Changed(w, file.data)
             place == IF pc[w] = "read" THEN "truncate" ELSE "saveTruncate"
  <2>1. /\ d \in Data /\ Truthful(d.runtime)
        /\ pc[w] = "read" => d.messages = file.data.messages
        /\ pc[w] = "saveRead" => d.runtime = file.data.runtime
    BY <1>1, ChangedTypes
  <2>2. pc' = [pc EXCEPT ![w] = place]
    BY <1>4 DEF Goto
  <2>3. /\ place \in Outside \cap Writing /\ place \notin Filling
        /\ place \in Streaming <=> pc[w] \in Streaming
        /\ place \in {"truncate", "fill"} => pc[w] = "read"
        /\ place \in {"saveTruncate", "saveFill"} => pc[w] = "saveRead"
    BY <1>1 DEF Outside, Places, Writing, Filling, Streaming, Saving
  <2> HIDE DEF d, place
  <2>4. data' = [data EXCEPT ![w] = d]
    BY <1>4 DEF d
  <2>5. Others(w) /\ pc'[w] = place /\ data'[w] = d
    BY <1>1, <1>4, <2>2, <2>4 DEF IInv, TypeOK, Others
  <2>6. UnlinkedOK'
    BY <1>2, <1>4, <2>5 DEF IInv, TypeOK, UnlinkedOK, Others
  <2>7. WriterOK'
    <3>1. SUFFICES ASSUME settled' # Disturbed
                   PROVE  WriterOK'
      BY DEF WriterOK
    <3>2. settled' = settled /\ settled # Disturbed
            /\ \A v \in Workers \ {w} : pc[v] \notin Writing
      BY <1>4, <3>1 DEF OthersWrite
    <3>3. \A v \in Workers : v # w => pc'[v] \notin Writing
      BY <2>5, <3>2 DEF Others
    <3>4. \A v \in Workers : pc[v] \notin Filling
      BY <1>2, <3>2 DEF Writing, Filling
    <3>5. file = settled
      BY <3>2, <3>4 DEF IInv, WriterOK, FileIsSettled
    <3>6. \A u, v \in Workers : u # v /\ pc'[u] \in Writing => pc'[v] \notin Writing
      BY <3>3
    <3>7. unlinked' = {}
      BY <1>4, <3>2 DEF IInv, WriterOK
    <3>8. \A v \in Workers :
            /\ pc'[v] \in {"truncate", "fill"}
                 => data'[v].messages = settled'.data.messages
            /\ pc'[v] \in {"saveTruncate", "saveFill"}
                 => data'[v].runtime = settled'.data.runtime
      <4>1. /\ {"truncate", "fill"} \subseteq Writing
            /\ {"saveTruncate", "saveFill"} \subseteq Writing
        BY DEF Writing
      <4> QED
        BY <2>1, <2>3, <2>5, <3>2, <3>3, <3>5, <4>1
    <3>9. FileIsSettled'
      BY <1>1, <3>2, <3>5 DEF FileIsSettled
    <3> QED
      BY <3>6, <3>7, <3>8, <3>9 DEF WriterOK
  <2>8. /\ StopOK'
        /\ cancelFunc' \in Workers \cup {NoWorker} /\ shared' \in SUBSET Workers
    BY <1>1, <2>3, <2>5, SameStreams
  <2>9. /\ memory' \in OptRuntime /\ Truthful(memory') /\ saves' \in 0..MaxSaves
        /\ file' \in File /\ Truthful(file'.data.runtime)
        /\ settled' \in File \cup {Disturbed} /\ unlinked' \in SUBSET Workers
    BY <1>1, <1>4, TypesOf DEF IInv, TypeOK
  <2>10. /\ NoRuntime \in RtType /\ Truthful(NoRuntime)
         /\ NoRuntime.state # NoState => NoRuntime \in Runtime
    BY RuntimeTypes
  <2> QED
    BY <1>1, <1>4, <2>1, <2>2, <2>3, <2>4, <2>6, <2>7, <2>8, <2>9, <2>10, CallStep
<1> QED
  BY <1>3, <1>4 DEF ReadFile

LEMMA TruncateStep ==
    ASSUME IInv, NEW w \in Workers, Truncate(w)
    PROVE  IInv'
<1> DEFINE place == IF pc[w] = "truncate" THEN "fill" ELSE "saveFill"
<1>1. /\ pc[w] \in {"truncate", "saveTruncate"} /\ file' = Torn
      /\ pc' = [pc EXCEPT ![w] = place]
      /\ UNCHANGED <<cancelFunc, memory, data, unlinked, saves, request, runtime,
                     shared, settled>>
  BY DEF Truncate, Goto, histVars
<1>2. /\ place \in Outside \cap Writing /\ place \in Filling /\ pc[w] \in Writing
      /\ pc[w] \notin Filling
      /\ place \in Streaming <=> pc[w] \in Streaming
      /\ place \in {"truncate", "fill"} => pc[w] = "truncate"
      /\ place \in {"saveTruncate", "saveFill"} => pc[w] = "saveTruncate"
  BY <1>1 DEF Outside, Places, Writing, Filling, Streaming, Saving
<1> HIDE DEF place
<1>3. /\ Others(w) /\ pc'[w] = place
      /\ data' = [data EXCEPT ![w] = data[w]]
      /\ runtime' = [runtime EXCEPT ![w] = runtime[w]]
  BY <1>1 DEF IInv, TypeOK, Others
<1>4. UnlinkedOK'
  BY <1>1, <1>2, <1>3 DEF IInv, TypeOK, UnlinkedOK, Others
<1>5. WriterOK'
  <2>1. SUFFICES ASSUME settled # Disturbed PROVE WriterOK'
    BY <1>1 DEF WriterOK
  <2>2. \A v \in Workers : v # w => pc'[v] \notin Writing
    BY <1>2, <1>3, <2>1, SoleWriter DEF Others
  <2>3. \A u, v \in Workers : u # v /\ pc'[u] \in Writing => pc'[v] \notin Writing
    BY <2>2
  <2>4. unlinked' = {}
    BY <1>1, <2>1 DEF IInv, WriterOK
  <2>5. \A v \in Workers :
          /\ pc'[v] \in {"truncate", "fill"}
               => data'[v].messages = settled'.data.messages
          /\ pc'[v] \in {"saveTruncate", "saveFill"}
               => data'[v].runtime = settled'.data.runtime
    <3>1. /\ {"truncate", "fill"} \subseteq Writing
          /\ {"saveTruncate", "saveFill"} \subseteq Writing
      BY DEF Writing
    <3>2. /\ pc[w] \in {"truncate", "fill"}
               => data[w].messages = settled.data.messages
          /\ pc[w] \in {"saveTruncate", "saveFill"}
               => data[w].runtime = settled.data.runtime
      BY <2>1 DEF IInv, WriterOK
    <3> QED
      BY <1>1, <1>2, <1>3, <2>2, <3>1, <3>2
  <2>6. FileIsSettled'
    BY <1>2, <1>3 DEF FileIsSettled
  <2> QED
    BY <2>3, <2>4, <2>5, <2>6 DEF WriterOK
<1>6. /\ StopOK'
      /\ cancelFunc' \in Workers \cup {NoWorker} /\ shared' \in SUBSET Workers
  BY <1>1, <1>2, <1>3, SameStreams
<1>7. /\ memory' \in OptRuntime /\ Truthful(memory') /\ saves' \in 0..MaxSaves
      /\ settled' \in File \cup {Disturbed} /\ unlinked' \in SUBSET Workers
  BY <1>1, TypesOf DEF IInv, TypeOK
<1>8. file' \in File /\ Truthful(file'.data.runtime)
  BY <1>1, FileTypes, RuntimeTypes
<1>9. /\ runtime[w] \in RtType /\ Truthful(runtime[w])
      /\ runtime[w].state # NoState => runtime[w] \in Runtime
      /\ data[w] \in Data /\ Truthful(data[w].runtime)
  BY TypesOf DEF LocalAt
<1> QED
  BY <1>1, <1>2, <1>3, <1>4, <1>5, <1>6, <1>7, <1>8, <1>9, CallStep

\* The file that a call alone with it writes is the one Settle describes.
LEMMA FillStep ==
    ASSUME IInv, NEW w \in Workers, Fill(w)
    PROVE  IInv'
<1> DEFINE left == IF pc[w] = "fill"
                     THEN [settled.data EXCEPT !.runtime = data[w].runtime]
                     ELSE [settled.data EXCEPT !.messages = data[w].messages]
<1>1. /\ pc[w] \in Filling /\ Written(w) /\ Settle(w) /\ Leave(w)
      /\ UNCHANGED <<cancelFunc, memory, saves, request, shared>>
  BY DEF Fill
<1>2. pc[w] \in Writing /\ pc[w] \in {"fill", "saveFill"}
  BY <1>1 DEF Filling, Writing
<1>3. /\ Others(w) /\ pc'[w] \notin Writing /\ unlinked' = unlinked \ {w}
  BY <1>1, LeaveTypes
<1>4. data[w] \in Data /\ Truthful(data[w].runtime)
  BY TypesOf
<1>5. settled' = IF settled = Disturbed THEN Disturbed ELSE Ok(left)
  BY <1>1 DEF Settle
<1>6. ASSUME settled # Disturbed
      PROVE  left = data[w]
  <2>1. settled.data \in Data
    BY <1>6, FileTypes DEF IInv, TypeOK
  <2>2. CASE pc[w] = "fill"
    <3>1. data[w].messages = settled.data.messages
      BY <1>6, <2>2 DEF IInv, WriterOK
    <3> QED
      BY <1>4, <2>1, <2>2, <3>1 DEF Data
  <2>3. CASE pc[w] = "saveFill"
    <3>1. data[w].runtime = settled.data.runtime
      BY <1>6, <2>3 DEF IInv, WriterOK
    <3> QED
      BY <1>4, <2>1, <2>3, <3>1 DEF Data
  <2> QED
    BY <1>2, <2>2, <2>3
<1> HIDE DEF left
<1>7. /\ settled # Disturbed => settled' = Ok(data[w])
      /\ settled' # Disturbed => settled # Disturbed
      /\ settled' \in File \cup {Disturbed}
  BY <1>4, <1>5, <1>6, FileTypes
<1>8. file' \in File /\ Truthful(file'.data.runtime)
  <2>1. CASE file' = file
    BY <2>1, TypesOf DEF IInv, TypeOK
  <2>2. CASE file' = Ok(data[w])
    BY <1>4, <2>2, FileTypes
  <2>3. CASE file' = Torn
    BY <2>3, FileTypes, RuntimeTypes
  <2> QED
    BY <1>1, <2>1, <2>2, <2>3 DEF Written
<1>9. UnlinkedOK'
  BY <1>3 DEF IInv, TypeOK, UnlinkedOK, Others
<1>10. WriterOK'
  <2>1. SUFFICES ASSUME settled # Disturbed PROVE WriterOK'
    BY <1>7 DEF WriterOK
  <2>2. \A v \in Workers : pc'[v] \notin Writing
    BY <1>2, <1>3, <2>1, SoleWriter DEF Others
  <2>3. unlinked = {}
    BY <2>1 DEF IInv, WriterOK
  <2>4. file' = Ok(data[w])
    BY <1>1, <2>1, <2>3 DEF Written
  <2>5. FileIsSettled'
    BY <1>7, <2>1, <2>4 DEF FileIsSettled
  <2>6. /\ {"truncate", "fill"} \subseteq Writing
        /\ {"saveTruncate", "saveFill"} \subseteq Writing
    BY DEF Writing
  <2> QED
    BY <1>3, <2>2, <2>3, <2>5, <2>6 DEF WriterOK
<1> QED
  BY <1>1, <1>7, <1>8, <1>9, <1>10, LeaveStep

LEMMA WriteFailsStep ==
    ASSUME IInv, NEW w \in Workers, WriteFails(w)
    PROVE  IInv'
<1>1. /\ pc[w] \in Writing /\ Leave(w)
      /\ settled' = IF pc[w] \in Filling THEN Disturbed ELSE settled
      /\ UNCHANGED <<cancelFunc, memory, file, saves, request, shared>>
  BY DEF WriteFails
<1>2. /\ file' \in File /\ Truthful(file'.data.runtime)
      /\ settled' \in File \cup {Disturbed}
  BY <1>1, TypesOf DEF IInv, TypeOK
<1>3. WriterOK' /\ UnlinkedOK'
  <2>1. CASE pc[w] \in Filling
    <3>1. Others(w) /\ unlinked' = unlinked \ {w}
      BY <1>1, LeaveTypes
    <3>2. UnlinkedOK'
      BY <3>1 DEF IInv, TypeOK, UnlinkedOK, Others
    <3> QED
      BY <1>1, <2>1, <3>2 DEF WriterOK
  <2>2. CASE pc[w] \notin Filling
    BY <1>1, <2>2, LeavesFile
  <2> QED
    BY <2>1, <2>2
<1> QED
  BY <1>1, <1>2, <1>3, LeaveStep

----------------------------------------------------------------------------
(* The end of a stream, the deletion of the session, and a restart.        *)

\* The streams that are left beside the one that ends were shared already.
LEMMA UnregisterStep ==
    ASSUME IInv, NEW w \in Workers, Unregister(w)
    PROVE  IInv'
<1>1. /\ pc[w] = "unregister" /\ pc' = [pc EXCEPT ![w] = "idle"]
      /\ cancelFunc' = NoWorker /\ shared' = shared \ {w}
      /\ UNCHANGED <<memory, file, data, unlinked, saves, request, runtime, settled>>
  BY DEF Unregister, Goto, fileVars
<1>2. /\ Others(w) /\ pc'[w] = "idle"
      /\ data' = [data EXCEPT ![w] = data[w]]
      /\ runtime' = [runtime EXCEPT ![w] = runtime[w]]
  BY <1>1 DEF IInv, TypeOK, Others
<1>3. WriterOK' /\ UnlinkedOK'
  BY <1>1, <1>2, FileFrame DEF Writing
<1>4. StopOK'
  <2>1. pc[w] \in Streaming /\ pc'[w] \notin Streaming
    BY <1>1, <1>2 DEF Streaming
  <2>2. \A v \in Workers : pc'[v] \in Streaming => v # w /\ pc[v] \in Streaming
    BY <1>2, <2>1 DEF Others
  <2>3. \A v \in Workers : pc'[v] \in Streaming => v \in shared'
    BY <1>1, <2>1, <2>2 DEF IInv, StopOK
  <2> QED
    BY <1>1, <2>3 DEF StopOK
<1>5. "idle" \in Outside
  BY DEF Outside, Places
<1>6. /\ memory' \in OptRuntime /\ Truthful(memory') /\ saves' \in 0..MaxSaves
      /\ file' \in File /\ Truthful(file'.data.runtime)
      /\ settled' \in File \cup {Disturbed} /\ unlinked' \in SUBSET Workers
      /\ shared' \in SUBSET Workers /\ cancelFunc' \in Workers \cup {NoWorker}
  BY <1>1, TypesOf DEF IInv, TypeOK
<1>7. /\ runtime[w] \in RtType /\ Truthful(runtime[w])
      /\ runtime[w].state # NoState => runtime[w] \in Runtime
      /\ data[w] \in Data /\ Truthful(data[w].runtime)
  BY TypesOf DEF LocalAt
<1> QED
  BY <1>1, <1>2, <1>3, <1>4, <1>5, <1>6, <1>7, CallStep

\* Those that were writing the deleted file go on without it.
LEMMA BeginDeleteStep ==
    ASSUME IInv, NEW w \in Workers, BeginDelete(w)
    PROVE  IInv'
<1>1. /\ pc[w] = "idle" /\ pc' = [pc EXCEPT ![w] = "forget"] /\ file' = Absent
      /\ settled' = IF OthersWrite(w) THEN Disturbed ELSE Absent
      /\ unlinked' = unlinked \cup {v \in Workers : pc[v] \in Filling}
      /\ UNCHANGED <<cancelFunc, memory, data, saves, request, runtime, shared>>
  BY DEF BeginDelete, Goto
<1>2. /\ Others(w) /\ pc'[w] = "forget"
      /\ data' = [data EXCEPT ![w] = data[w]]
      /\ runtime' = [runtime EXCEPT ![w] = runtime[w]]
  BY <1>1 DEF IInv, TypeOK, Others
<1>3. /\ pc[w] \notin Filling /\ Filling \subseteq Writing
      /\ "forget" \notin Writing /\ "forget" \in Outside
      /\ "forget" \notin Streaming /\ pc[w] \notin Streaming
  BY <1>1 DEF Filling, Writing, Outside, Places, Streaming
<1>4. UnlinkedOK'
  BY <1>1, <1>2, <1>3 DEF IInv, TypeOK, UnlinkedOK, Others
<1>5. WriterOK'
  <2>1. SUFFICES ASSUME settled' # Disturbed PROVE WriterOK'
    BY DEF WriterOK
  <2>2. settled' = Absent /\ \A v \in Workers \ {w} : pc[v] \notin Writing
    BY <1>1, <2>1 DEF OthersWrite
  <2>3. \A v \in Workers : pc'[v] \notin Writing
    BY <1>2, <1>3, <2>2 DEF Others
  <2>4. unlinked' = {}
    BY <1>1, <1>3, <2>2 DEF IInv, TypeOK, UnlinkedOK
  <2>5. FileIsSettled'
    BY <1>1, <2>2 DEF FileIsSettled
  <2>6. /\ {"truncate", "fill"} \subseteq Writing
        /\ {"saveTruncate", "saveFill"} \subseteq Writing
    BY DEF Writing
  <2> QED
    BY <2>3, <2>4, <2>5, <2>6 DEF WriterOK
<1>6. /\ StopOK'
      /\ cancelFunc' \in Workers \cup {NoWorker} /\ shared' \in SUBSET Workers
  BY <1>1, <1>2, <1>3, SameStreams
<1>7. /\ memory' \in OptRuntime /\ Truthful(memory') /\ saves' \in 0..MaxSaves
      /\ unlinked' \in SUBSET Workers
  BY <1>1, TypesOf DEF IInv, TypeOK
<1>8. /\ file' \in File /\ Truthful(file'.data.runtime)
      /\ settled' \in File \cup {Disturbed}
  BY <1>1, FileTypes, RuntimeTypes
<1>9. /\ runtime[w] \in RtType /\ Truthful(runtime[w])
      /\ runtime[w].state # NoState => runtime[w] \in Runtime
      /\ data[w] \in Data /\ Truthful(data[w].runtime)
  BY TypesOf DEF LocalAt
<1> QED
  BY <1>1, <1>2, <1>3, <1>4, <1>5, <1>6, <1>7, <1>8, <1>9, CallStep

LEMMA ForgetStep ==
    ASSUME IInv, NEW w \in Workers, Forget(w)
    PROVE  IInv'
<1>1. /\ pc[w] = "forget" /\ pc' = [pc EXCEPT ![w] = "idle"] /\ memory' = NoRuntime
      /\ UNCHANGED <<cancelFunc, file, data, unlinked, saves, request, runtime,
                     shared, settled>>
  BY DEF Forget, Goto, fileVars, histVars
<1>2. /\ Others(w) /\ pc'[w] = "idle"
      /\ data' = [data EXCEPT ![w] = data[w]]
      /\ runtime' = [runtime EXCEPT ![w] = runtime[w]]
  BY <1>1 DEF IInv, TypeOK, Others
<1>3. WriterOK' /\ UnlinkedOK'
  BY <1>1, <1>2, FileFrame DEF Writing
<1>4. /\ "idle" \in Outside
      /\ "idle" \notin Streaming /\ pc[w] \notin Streaming
  BY <1>1 DEF Outside, Places, Streaming
<1>5. /\ StopOK'
      /\ cancelFunc' \in Workers \cup {NoWorker} /\ shared' \in SUBSET Workers
  BY <1>1, <1>2, <1>4, SameStreams
<1>6. /\ saves' \in 0..MaxSaves /\ file' \in File /\ Truthful(file'.data.runtime)
      /\ settled' \in File \cup {Disturbed} /\ unlinked' \in SUBSET Workers
  BY <1>1, TypesOf DEF IInv, TypeOK
<1>7. memory' \in OptRuntime /\ Truthful(memory')
  BY <1>1, RuntimeTypes
<1>8. /\ runtime[w] \in RtType /\ Truthful(runtime[w])
      /\ runtime[w].state # NoState => runtime[w] \in Runtime
      /\ data[w] \in Data /\ Truthful(data[w].runtime)
  BY TypesOf DEF LocalAt
<1> QED
  BY <1>1, <1>2, <1>3, <1>4, <1>5, <1>6, <1>7, <1>8, CallStep

LEMMA RestartStep ==
    ASSUME IInv, Restart
    PROVE  IInv'
<1>1. /\ cancelFunc' = NoWorker /\ memory' = NoRuntime
      /\ pc' = [w \in Workers |-> "idle"]
      /\ request' = [w \in Workers |-> <<>>]
      /\ runtime' = [w \in Workers |-> NoRuntime]
      /\ data' = [w \in Workers |-> NoData]
      /\ unlinked' = {} /\ shared' = {}
      /\ settled' = IF \E w \in Workers : pc[w] \in Filling THEN Disturbed ELSE settled
      /\ UNCHANGED <<file, saves>>
  BY DEF Restart
<1>2. \A w \in Workers : /\ pc'[w] = "idle" /\ runtime'[w] = NoRuntime
                         /\ data'[w] = NoData
  BY <1>1
<1>3. TypeOK'
  <2>1. runtime' \in [Workers -> RtType]
    BY <1>1, RuntimeTypes
  <2>2. memory' \in OptRuntime /\ data' \in [Workers -> Data]
    BY <1>1, RuntimeTypes
  <2>3. pc' \in [Workers -> Places] /\ request' \in [Workers -> Requests \cup {<<>>}]
    BY <1>1 DEF Places
  <2> QED
    BY <1>1, <2>1, <2>2, <2>3 DEF IInv, TypeOK, RtType
<1>4. LocalsOK'
  BY <1>2, RuntimeTypes DEF LocalsOK, LocalAt
<1>5. Truthful(memory)' /\ Truthful(file.data.runtime)'
  BY <1>1, RuntimeTypes DEF IInv, HonestOK, Truthful
<1>6. \A w \in Workers : Truthful(runtime[w])' /\ Truthful(data[w].runtime)'
  BY <1>2, RuntimeTypes DEF Truthful
<1>7. NothingIsForgotten' /\ StopOK' /\ UnlinkedOK'
  BY <1>1, <1>2 DEF NothingIsForgotten, StopOK, UnlinkedOK, Streaming
<1>8. WriterOK'
  <2>1. SUFFICES ASSUME settled' # Disturbed PROVE WriterOK'
    BY DEF WriterOK
  <2>2. settled' = settled /\ \A w \in Workers : pc[w] \notin Filling
    BY <1>1, <2>1
  <2>3. FileIsSettled'
    BY <1>1, <2>1, <2>2 DEF IInv, WriterOK, FileIsSettled
  <2> QED
    BY <1>1, <1>2, <2>3 DEF WriterOK, Writing
<1> QED
  BY <1>3, <1>4, <1>5, <1>6, <1>7, <1>8, Together

----------------------------------------------------------------------------
(* The theorems.                                                           *)

LEMMA StepKeeps == IInv /\ [Next]_vars => IInv'
<1> SUFFICES ASSUME IInv, [Next]_vars PROVE IInv'
  OBVIOUS
<1>1. CASE Restart
  BY <1>1, RestartStep
<1>2. ASSUME NEW w \in Workers, NEW r \in Requests, NEW k \in ProviderKeys,
             BeginStream(w, r, k)
      PROVE  IInv'
  BY <1>2, BeginStreamStep
<1>3. ASSUME NEW w \in Workers,
             Resolve(w) \/ LoadRuntime(w) \/ Remember(w) \/ Bypass(w) \/ RunFails(w)
      PROVE  IInv'
  BY <1>3, ResolveStep, LoadRuntimeStep, RememberStep, BypassStep
<1>4. ASSUME NEW w \in Workers, NEW reply \in Replies, RunAnswers(w, reply)
      PROVE  IInv'
  BY <1>4, RunAnswersStep
<1>5. ASSUME NEW w \in Workers,
             StoreMemory(w) \/ BeginSave(w) \/ ReadFile(w) \/ Truncate(w)
      PROVE  IInv'
  BY <1>5, StoreMemoryStep, BeginSaveStep, ReadFileStep, TruncateStep
<1>6. ASSUME NEW w \in Workers, Fill(w) \/ WriteFails(w)
      PROVE  IInv'
  BY <1>6, FillStep, WriteFailsStep
<1>7. ASSUME NEW w \in Workers, Unregister(w) \/ BeginDelete(w) \/ Forget(w)
      PROVE  IInv'
  BY <1>7, UnregisterStep, BeginDeleteStep, ForgetStep
<1>8. CASE UNCHANGED vars
  <2>1. UNCHANGED <<cancelFunc, memory, file, data, unlinked, saves, pc, request,
                    runtime, shared, settled>>
    BY <1>8 DEF vars, fileVars, callVars, histVars
  <2>2. TypeOK' /\ LocalsOK' /\ HonestOK'
    BY <2>1 DEF IInv, TypeOK, LocalsOK, LocalAt, HonestOK, Truthful
  <2>3. NothingIsForgotten' /\ StopOK' /\ UnlinkedOK'
    BY <2>1 DEF IInv, NothingIsForgotten, Delta, StopOK, UnlinkedOK
  <2>4. WriterOK'
    BY <2>1 DEF IInv, WriterOK, FileIsSettled
  <2> QED
    BY <2>2, <2>3, <2>4 DEF IInv
<1> QED
  BY <1>1, <1>2, <1>3, <1>4, <1>5, <1>6, <1>7, <1>8 DEF Next

\* The inductive invariant: each place of a call with its locals, the truth of
\* every conversation that is kept, the streams with their cancel function, and
\* the writers of the file.
THEOREM SessionAlways == Spec => []IInv
<1>1. Init => IInv
  BY SessionInit
<1>2. IInv /\ [Next]_vars => IInv'
  BY StepKeeps
<1> QED
  BY <1>1, <1>2, PTL DEF Spec

\* What is kept of a conversation belongs to the provider it is kept with, which
\* was told the messages it is kept with (storeSessionProviderRuntime,
\* loadSessionProviderRuntime); the cancel function is that of a live stream.
THEOREM SessionInvariance == Spec => []Inv
<1>1. IInv => Inv
  BY DEF IInv, HonestOK, StopOK, UnlinkedOK, Inv
<1> QED
  BY <1>1, SessionAlways, PTL

\* A conversation that resolveSessionProviderRequest resumes knows, with what is
\* sent, every message of the request.
THEOREM ResumedKnowsAll == Spec => []NothingIsForgotten
<1>1. IInv => NothingIsForgotten
  BY DEF IInv
<1> QED
  BY <1>1, SessionAlways, PTL

\* AIChatCancel stops the stream of the session that is alone.
THEOREM StopReaches == Spec => []RunningIsCancellable
<1>1. IInv => RunningIsCancellable
  BY DEF IInv, StopOK, RunningIsCancellable, Streaming
<1> QED
  BY <1>1, SessionAlways, PTL

\* Streams and saves that write the session file one at a time keep each other's
\* part of it (loadOrCreateSessionFile, writeSessionFile).
THEOREM WritersKeepEachOther == Spec => []FileIsSettled
<1>1. IInv => FileIsSettled
  BY DEF IInv, WriterOK, FileIsSettled
<1> QED
  BY <1>1, SessionAlways, PTL

=============================================================================
