SPECIFICATION Spec
CONSTANTS
    f1 = f1
    f2 = f2
    f3 = f3
    Fetches = {f1, f2, f3}
    Count <- SomeOrders
    PageSize = 2
    MaxPage = 4
INVARIANTS
    TypeOK
    OwnOrders
    NeverStopsEarly
    FlagsHaveReason
PROPERTIES
    KeepsPages
CHECK_DEADLOCK FALSE
