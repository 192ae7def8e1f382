SPECIFICATION FairSpec
CONSTANTS
    v1 = v1
    v2 = v2
    t1 = t1
    s1 = s1
    s2 = s2
    Vendors = {v1, v2}
    Tokens = {t1}
    Shops = {s1, s2}
    MaxDepth = 4
    MaxKills = 1
    MaxCalls = 2
    Prompt = TRUE
INVARIANTS
    TypeOK
    SignedInToShop
    SettingsOfVendor
    OneCodeCall
PROPERTIES
    SessionsKept
    SplashLeft
