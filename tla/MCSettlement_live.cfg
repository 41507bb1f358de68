CONSTANTS
    Intents = {i1}
    Drivers = {d1}
    Txs = {t1, t2}
    NoTx = NoTx
    NoIntent = NoIntent
    Rate = 2
    Budget = 1
    MaxBlock = 2
    MaxFailures = 1
    SlowSteps = {"settle", "receipt"}
SPECIFICATION FairSpec
PROPERTIES ExpiredIsDriven ClaimResolved
CHECK_DEADLOCK FALSE
