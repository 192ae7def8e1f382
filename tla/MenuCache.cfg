SPECIFICATION Spec
CONSTANTS
    a = a
    b = b
    p = p
    q = q
    f1 = f1
    f2 = f2
    Products = {p, q}
    Categories = {a, b}
    Menus <- MCMenus
    Fetches = {f1, f2}
    Overlap = FALSE
    MaxJobs = 3
INVARIANTS
    TypeOK
    ShownIsSelected
    StoredIsSent
    CoveredByFailure
