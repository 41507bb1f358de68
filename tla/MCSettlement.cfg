CONSTANTS
    Intents = {i1}
    Drivers = {d1, d2}
    Txs = {t1, t2}
    NoTx = NoTx
    NoIntent = NoIntent
    Rate = 2
    Budget = 2
    MaxBlock = 3
    MaxFailures = 1
    SlowSteps = {"receipt"}
SPECIFICATION Spec
SYMMETRY Symmetry
INVARIANTS RecordedChargeIsOnChain DataOnlyAfterReceipt FailedIsUncharged
INVARIANTS ChargeWithinQuote ClaimExclusive NoticesAgree
PROPERTIES TerminalIsFinal ImplementsVoucher
CHECK_DEADLOCK FALSE
