----------------------------- MODULE OrderLedger -----------------------------
(***************************************************************************)
(* What paying promises, whatever the screens do: a ledger of orders, of   *)
(* the charges made for them and of the charges the shop was told about.   *)
(* Nothing in it is ever taken back; only the cart is emptied, and only    *)
(* for an order that has been paid.                                        *)
(***************************************************************************)
CONSTANTS Orders, Items, Attempts, OrderOf

VARIABLES cart, ordered, charges, reported

vars == <<cart, ordered, charges, reported>>

Init ==
    /\ cart = {}
    /\ ordered = [o \in Orders |-> {}]
    /\ charges = {}
    /\ reported = {}

Add(i) ==
    /\ cart' = cart \union {i}
    /\ UNCHANGED <<ordered, charges, reported>>

Place(o) ==
    /\ cart # {}
    /\ ordered[o] = {}
    /\ ordered' = [ordered EXCEPT ![o] = cart]
    /\ UNCHANGED <<cart, charges, reported>>

Charge(a) ==
    /\ ordered[OrderOf[a]] # {}
    /\ charges' = charges \union {a}
    /\ UNCHANGED <<cart, ordered, reported>>

Report(a) ==
    /\ a \in charges
    /\ reported' = reported \union {a}
    /\ UNCHANGED <<cart, ordered, charges>>

Close(o) ==
    /\ \E a \in reported : OrderOf[a] = o
    /\ cart' = {}
    /\ UNCHANGED <<ordered, charges, reported>>

Next ==
    \/ \E i \in Items : Add(i)
    \/ \E o \in Orders : Place(o) \/ Close(o)
    \/ \E a \in Attempts : Charge(a) \/ Report(a)

Spec == Init /\ [][Next]_vars
=============================================================================
