SPECIFICATION Spec
CONSTANTS
    Contents <- MCContents
    Selectors <- MCSelectors
    Nothing = Nothing
    Budget = 2
    Rate = 1
    LastBlock = 3
    Undated = {2}
    MaxEvents = 3
    MaxSteps = 2
    Attempts = 1
    MaxUpsets = 2
INVARIANT StoredAreTheFirst
INVARIANT MeteredIsInPaidWindow
INVARIANT DeliveredIsPaid
INVARIANT FirstMatchIsBilledThrough
INVARIANT FreeOnlyIfUnprocessed
INVARIANT LogOfOneWriter
INVARIANT ChargeIsMetered
 
INVARIANT ReportConfirmsNotice
CHECK_DEADLOCK FALSE
