------------------------------ MODULE MCInput -------------------------------
(* A letter, a digit, a Shift and an Alt key, two readers, a ring of three.    *)
EXTENDS Input

MCModifiers == [k \in {"lshift", "ralt"} |-> IF k = "lshift" THEN "shift" ELSE "alt"]
=============================================================================
