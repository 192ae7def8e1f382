----------------------------- MODULE MCPayment -----------------------------
(* Instances of Payment for TLC: an attempt is an order and a number; Tries *)
(* bounds the attempts of each order, AppleTries of them use Apple Pay.    *)
EXTENDS Payment

CONSTANTS o1, o2, Tries1, Tries2, AppleTries

MCAttempts == ({o1} \X (1..Tries1)) \union ({o2} \X (1..Tries2))
MCOrderOf  == [a \in MCAttempts |-> a[1]]
MCApplePay == {a \in MCAttempts : a[2] <= AppleTries}
=============================================================================
