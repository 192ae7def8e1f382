SPECIFICATION Spec
CONSTANTS
    Products <- SomeProducts
    MenuOf <- SomeMenuOf
    Listing <- SomeListing
    Offers <- SomeOffers
    Limit = 2
    Hurried = {3}
    Careful = {1}
    MaxJobs = 2
    MaxGroups = 3
    MaxVisits = 3
INVARIANTS
    TypeOK
    MenuAddOns
    ChargedOnce
CHECK_DEADLOCK FALSE
