SPECIFICATION Spec
CONSTANTS
    a = a
    b = b
    c = c
    v1 = v1
    v2 = v2
    Products = {a, b, c}
    Vendors = {v1, v2}
    VendorOf <- MCVendorOf
    Bogo = {b}
    Limit = 1
    HurriedTaps = {}
    HurriedScreens = FALSE
    Expires = TRUE
    Kills = FALSE
    MaxJobs = 0
INVARIANTS
    OneVendor
