SPECIFICATION Spec
CONSTANTS
    s1 = s1
    s2 = s2
    r1 = r1
    r2 = r2
    Swipes = {s1, s2}
    Redeems = {}
    MaxQty = 1
    MinCart = 1
    Cap = 1
INVARIANTS
    OneOrderAtATime
CHECK_DEADLOCK FALSE
