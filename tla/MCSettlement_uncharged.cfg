CONSTANTS
    Intents = {i1}
    Drivers = {d1, d2}
    Txs = {t1, t2}
    NoTx = NoTx
    NoIntent = NoIntent
    Rate = 2
    Budget = 1
    MaxBlock = 2
    MaxFailures = 1
    SlowSteps = {"settle", "receipt"}
SPECIFICATION Spec
SYMMETRY Symmetry
INVARIANT UnchargedIsUncharged
CHECK_DEADLOCK FALSE
