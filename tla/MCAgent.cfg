CONSTANTS
    Ttl = 2
    Buffer = 4
    SweepEvery = 2
    Stale = 4
    Latency = 0
    Receipt = 2
    Slack = 6
    MainWait = 20
    Thinking = 1
    Reissues = 1
    MaxClock = 24
    Faults = {"down", "rejected", "refused", "unreached", "again", "annotated"}
    MaxFaults = 2
SPECIFICATION Spec
INVARIANT AttemptsNeverOverlap
INVARIANT OnlyLongOutageVoids
INVARIANT LeftIsRetriedSoon
INVARIANT WokenByItsNotice
CHECK_DEADLOCK FALSE
