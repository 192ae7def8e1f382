----------------------------- MODULE MCMenuCache -----------------------------
(* Instances of MenuCache for TLC: the backend moves p between categories,  *)
(* empties one, drops one and drops all.                                    *)
EXTENDS MenuCache

CONSTANTS a, b, p, q, f1, f2

MCMenus ==
    { [c \in {a, b} |-> IF c = a THEN {p} ELSE {q}],
      [c \in {a, b} |-> IF c = a THEN {} ELSE {p, q}],
      [c \in {b} |-> {q}],
      <<>> }
=============================================================================
