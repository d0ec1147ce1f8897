------------------------------ MODULE MCFullUpdate ------------------------------
(* Instances of FullUpdate for TLC. *)
EXTENDS FullUpdate, TLC

CONSTANTS p1, w1

Belongs == [c \in Course |-> IF c = 1 THEN {p1} ELSE {}]
Made    == w1 :> {p1}
=============================================================================
