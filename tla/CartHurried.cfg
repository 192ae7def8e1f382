SPECIFICATION Spec
CONSTANTS
    a = a
    b = b
    c = c
    v1 = v1
    v2 = v2
    Products = {a, b, c}
    Vendors = {v1, v2}
    VendorOf <- MCVendorOf
    Bogo = {b}
    Limit = 1
    HurriedTaps = {a, b, c, "clear"}
    HurriedScreens = TRUE
    Expires = TRUE
    Kills = TRUE
    MaxJobs = 3
INVARIANTS
    TypeOK
    QuantitiesAllowed
