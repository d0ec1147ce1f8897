------------------------------ MODULE MCAICuration ------------------------------
(* An instance of AICuration for TLC. *)
EXTENDS AICuration, TLC

CONSTANTS c1, c2, x1, p1, p2

Named == c1 :> {p1} @@ c2 :> {p1, p2} @@ x1 :> {p1}
Hits  == <<c1, p1>>
=============================================================================
