-------------------------- MODULE MCRestrictedContent --------------------------
(* Instances of RestrictedContent for TLC. *)
EXTENDS RestrictedContent, TLC

CONSTANTS c1, c2, r1, r2, r3, f1, f2, f3, e1

Parents == r1 :> c1 @@ r2 :> c1 @@ r3 :> c2
Owners  == [k \in Catalog |-> e1]
Listed  == [f \in Filter |-> {c1, c2}]
Allowed == f1 :> {r1, r3} @@ f2 :> {r1, r2} @@ f3 :> {}

\* Rows, uuids, catalogs of one customer and workers are alike.
Alike == Permutations(QueryId) \union Permutations(Uuid) \union Permutations(Catalog) \union Permutations(Worker)
=============================================================================
