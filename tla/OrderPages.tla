------------------------------ MODULE OrderPages ------------------------------
(***************************************************************************)
(* What a list of orders promises, however it is fetched: of each kind of  *)
(* order it shows the first few the backend has, in the backend's order,   *)
(* each once and none skipped.  A list grows at its end or starts again.   *)
(***************************************************************************)
EXTENDS Naturals, Sequences

CONSTANTS
    Types,      \* the kinds of orders
    Count       \* how many the backend has of each kind

VARIABLE lists

Top(t, n) == [i \in 1..n |-> <<t, i>>]

Init == lists = [t \in Types |-> <<>>]

Restart(S) == lists' = [t \in Types |-> IF t \in S THEN <<>> ELSE lists[t]]

Extend(t) ==
    \E n \in (Len(lists[t]) + 1) .. Count[t] : lists' = [lists EXCEPT ![t] = Top(t, n)]

Next ==
    \/ \E S \in SUBSET Types : Restart(S)
    \/ \E t \in Types : Extend(t)

Spec == Init /\ [][Next]_lists
=============================================================================
