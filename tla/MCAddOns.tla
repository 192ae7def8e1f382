------------------------------- MODULE MCAddOns -------------------------------
(* Three products for TLC: 1 and 3 share a menu category, and 3 is opened  *)
(* by a customer in a hurry; 2 has a category to itself.                   *)
EXTENDS AddOns

OneOf(options) == [type |-> "single", options |-> options]
AnyOf(options) == [type |-> "multiple", options |-> options]

SomeProducts == {1, 2, 3}
SomeMenuOf == [p \in SomeProducts |-> IF p = 2 THEN "drinks" ELSE "mains"]
SomeListing == [m \in {"mains", "drinks"} |-> IF m = "mains" THEN <<1, 3>> ELSE <<2>>]
SomeOffers ==
    <<<<AnyOf({4}), OneOf({5, 6})>>, <<AnyOf({3})>>, <<OneOf({1, 2})>>>>
===============================================================================
