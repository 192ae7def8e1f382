---------------------------- MODULE MCCartTable ----------------------------
(* Instances of CartTable for TLC: a and b are sold by v1, c by v2.         *)
EXTENDS CartTable

CONSTANTS a, b, c, v1, v2

MCVendorOf == [p \in Products |-> IF p = c THEN v2 ELSE v1]
=============================================================================
