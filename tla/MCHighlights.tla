------------------------------ MODULE MCHighlights ------------------------------
(* Instances of Highlights for TLC. *)
EXTENDS Highlights

CONSTANTS k1, k2, k3

Shown == <<k1, k2>>
Lists == {{}, {k1}, {k3}, {k1, k2}, {k2, k3}}
=============================================================================
