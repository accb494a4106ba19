SPECIFICATION FairSpec
CONSTANTS
    c1 = c1
    c2 = c2
    Callers = {c1, c2}
    NoCaller = NoCaller
    MaxCalls = 6
    MaxChunks = 2
    PipeSize = 1
INVARIANTS
    Inv
    AnswersAreOwn
    SessionsAreHeld
CHECK_DEADLOCK FALSE
PROPERTIES
    CallsEnd
