--------------------------- MODULE MCValidateIndices ---------------------------
(* An instance of ValidateIndices for TLC. *)
EXTENDS ValidateIndices, TLC

CONSTANTS i1, i2, d1, d2, d3

Types  == d1 :> "course" @@ d2 :> "course" @@ d3 :> "program"
Levels == d1 :> "intro" @@ d2 :> "intro" @@ d3 :> "expert"
Tags   == d1 :> <<"a", "b">> @@ d2 :> <<"b", "a">> @@ d3 :> <<"a">>

Start == {[v1 |-> i1 :> d1 @@ i2 :> d3, v2 |-> i1 :> d2 @@ i2 :> d3],
          [v1 |-> i1 :> d1 @@ i2 :> d3, v2 |-> i1 :> d2 @@ i2 :> None],
          [v1 |-> i1 :> d1 @@ i2 :> None, v2 |-> i1 :> d3 @@ i2 :> d3]}
=============================================================================
