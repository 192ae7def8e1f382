SPECIFICATION Spec
CONSTANTS
    a = a
    b = b
    c = c
    v1 = v1
    v2 = v2
    Products = {a, b, c}
    Vendors = {v1, v2}
    VendorOf <- MCVendorOf
    Bogo = {b}
    Limit = 2
    HurriedTaps = {a, c}
    HurriedScreens = FALSE
    Expires = FALSE
    Kills = FALSE
    MaxJobs = 5
INVARIANTS
    CountIsShown
    OneVendor
    ShownIsStored
