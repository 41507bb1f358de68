CONSTANTS
    Intents = {i1}
    Vouchers = {v1, v2}
    Requests = {r1, r2}
    NoVoucher = NoVoucher
    NoIntent = NoIntent
SPECIFICATION Spec
SYMMETRY Symmetry
PROPERTY OnlyPendingIsPaid
CHECK_DEADLOCK FALSE
