CONSTANTS
    o1 = o1
    o2 = o2
    Orders = {o1, o2}
    i1 = i1
    i2 = i2
    Items = {i1, i2}
    Tries1 = 2
    Tries2 = 1
    AppleTries = 0
    Attempts <- MCAttempts
    OrderOf <- MCOrderOf
    ApplePay <- MCApplePay
    Faults = {"loss", "kill"}
    Patient = TRUE
SPECIFICATION Spec
INVARIANTS
    TypeOK
    ChargesNeverOverlap
    NoBlindRetry
    OneAttemptPerScreen
    OnlyOrderedItemsCleared
PROPERTIES
    KeepsLedger
CHECK_DEADLOCK FALSE
