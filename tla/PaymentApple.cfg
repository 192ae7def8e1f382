CONSTANTS
    o1 = o1
    o2 = o2
    Orders = {o1, o2}
    i1 = i1
    Items = {i1}
    Tries1 = 2
    Tries2 = 0
    AppleTries = 1
    Attempts <- MCAttempts
    OrderOf <- MCOrderOf
    ApplePay <- MCApplePay
    Faults = {"loss", "kill"}
    Patient = FALSE
SPECIFICATION FairSpec
INVARIANTS
    ReportedWasCharged
    SuccessMeansPaid
PROPERTIES
    OverlayLowered
CHECK_DEADLOCK FALSE
