CONSTANTS
    MaxBlock = 3
    Quiet = {1}
    HeadOffset = 1
    MaxEmpty = 3
    WipeAfter = 2
    Faults = {"handler", "reorg", "fatal", "crash", "handover"}
    MaxFaults = 2
    Absent = Absent
    Asked = {Absent}
    AskedLimits = {5}
    MaxLookback = 2
    MaxLimit = 3
    DefaultLimit = 2
    PerBlock = 2
SPECIFICATION LookSpec
INVARIANT TypeOK
INVARIANT CursorCoversCapture
INVARIANT MeteredOnce
INVARIANT NoStaleRowIsServed
INVARIANT AnswerIsComplete
PROPERTY CatchesUp
CHECK_DEADLOCK FALSE
