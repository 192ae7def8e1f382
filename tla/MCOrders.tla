------------------------------- MODULE MCOrders -------------------------------
(* Instances of Orders for TLC: two pages and a half of past orders, one    *)
(* full page of active ones, a page and a half of upcoming ones.            *)
EXTENDS Orders

CONSTANTS f1, f2, f3

SomeOrders == [t \in Types |-> CASE t = "past" -> 5 [] t = "active" -> 2 [] OTHER -> 3]
=============================================================================
