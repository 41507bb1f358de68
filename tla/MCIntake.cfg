CONSTANTS
    Intents = {i1, i2}
    Vouchers = {v1, v2}
    Requests = {r1, r2}
    NoVoucher = NoVoucher
    NoIntent = NoIntent
SPECIFICATION Spec
SYMMETRY Symmetry
INVARIANTS TypeOK NonceBindsOneIntent AcceptedVoucherIsBound ChargedWasVerified IntentChargedOnce
PROPERTY PaidIntentIsFinal
CHECK_DEADLOCK FALSE
