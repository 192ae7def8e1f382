----------------------------- MODULE MCCheckout -----------------------------
(* Instances of Checkout for TLC.                                           *)
EXTENDS Checkout, TLC

CONSTANTS s1, s2, r1, r2

(* Swipes and coupons are interchangeable. *)
Alike == Permutations(Swipes) \union Permutations(Redeems)
=============================================================================
