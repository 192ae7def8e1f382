SPECIFICATION Spec
CONSTANTS
    s1 = s1
    s2 = s2
    r1 = r1
    r2 = r2
    Swipes = {s1, s2}
    Redeems = {r1, r2}
    MaxQty = 3
    MinCart = 2
    Cap = 2
SYMMETRY Alike
INVARIANTS
    TypeOK
    OrderedAsSwiped
    OrderAddsUp
    BarrierHasReason
CHECK_DEADLOCK FALSE
