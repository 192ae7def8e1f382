------------------------------- MODULE MCSession -------------------------------
(* Instances of Session for TLC: two vendors, two shops and one token the   *)
(* backend accepts, before or after which the customer signs in with an     *)
(* answer that has none, which it refuses.                                  *)
EXTENDS Session

CONSTANTS v1, v2, t1, s1, s2
=============================================================================
