SPECIFICATION FairSpec
CONSTANTS
    c1 = c1
    c2 = c2
    Callers = {c1, c2}
    MaxGeneration = 3
    Limit = 2
    MaxFailures = 2
INVARIANTS
    Inv
    HistoryIsOfOneRun
    RunningIsSampled
    GivingUpIsExplained
PROPERTIES
    CancelledSamplersEnd
CHECK_DEADLOCK FALSE
