--------------------------- MODULE MCContentIngest ----------------------------
(* Instances of ContentIngest for TLC. *)
EXTENDS ContentIngest, TLC

CONSTANTS q1, q2, u1, u2

\* q1 lists three keys over two pages and force-includes one it lists; q2 shares one.
Force  == q1 :> {3} @@ q2 :> {}
Lists  == q1 :> {1, 2, 3} @@ q2 :> {3}
Rows   == 1 :> 1 @@ 2 :> 1 @@ 3 :> 0
Wet(q) == [query |-> q, dry |-> FALSE]
Sends  == u1 :> {Wet(q1)} @@ u2 :> {Wet(q1), Wet(q2), [query |-> q2, dry |-> TRUE]}
Joined == q1 :> {1, 2} @@ q2 :> {}
=============================================================================
