SPECIFICATION Spec
CONSTANTS
    w1 = w1
    w2 = w2
    Workers = {w1, w2}
    NoWorker = NoWorker
    q1 = q1
    q2 = q2
    answer = answer
    Messages = {q1, q2, answer}
    Answer = answer
    Requests <- Chats
    k1 = k1
    k2 = k2
    ProviderKeys = {k1, k2}
    NoState = NoState
    NoKey = NoKey
    MaxSaves = 1
SYMMETRY Symmetry
INVARIANTS
    Inv
    NothingIsForgotten
    RunningIsCancellable
    FileIsSettled
