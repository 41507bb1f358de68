CONSTANTS
    Ttl = 2
    Buffer = 4
    SweepEvery = 2
    Stale = 4
    Latency = 0
    Receipt = 2
    Slack = 6
    MainWait = 20
    Thinking = 1
    Reissues = 0
    MaxClock = 24
    Faults = {"rejected"}
    MaxFaults = 1
SPECIFICATION Spec
INVARIANT OnlyDowntimeVoids
CHECK_DEADLOCK FALSE
