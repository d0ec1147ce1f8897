--------------------------- MODULE MCAlgoliaProducts ---------------------------
(* Instances of AlgoliaProducts for TLC. *)
EXTENDS AlgoliaProducts, TLC

CONSTANTS c1, c2, p1, p2, w1, w2, q1, q2, k1, k2, k3, e1, e2, t1, t2, a, b

Queries   == k1 :> q1 @@ k2 :> q1 @@ k3 :> q2
Owners    == k1 :> e1 @@ k2 :> e2 @@ k3 :> e2
Academies == k1 :> {t1, t2} @@ k2 :> {} @@ k3 :> {t1}
TagMap    == t1 :> {c1} @@ t2 :> {c2, p1}
Members   == [k \in Content |-> IF k \in {c1, c2} THEN {q1} ELSE {}]
Parts     == p1 :> {c1, c2} @@ p2 :> {c2} @@ w1 :> {c1, p1} @@ w2 :> {c2}
Modes     == <<"verified", "professional", "audit">>

Run(enrollable, marketable, external, end, enrollmentEnd, seats, availability) ==
    [published |-> TRUE, enrollable |-> enrollable, marketable |-> marketable, external |-> external,
     end |-> end, enrollmentEnd |-> enrollmentEnd, seats |-> seats, availability |-> availability]
Seat(mode, deadline) == [mode |-> mode, deadline |-> deadline]

Open    == Run(TRUE, TRUE, FALSE, None, None, <<>>, "Current")
Unsold  == Run(TRUE, FALSE, FALSE, None, None, <<>>, "Upcoming")
Partner == Run(TRUE, FALSE, TRUE, 2, 1, <<Seat("audit", None), Seat("verified", 0)>>, "Starting Soon")
Closing == Run(TRUE, TRUE, FALSE, 0, None, <<Seat("audit", 0), Seat("verified", 1)>>, "Archived")
Closed  == Run(FALSE, TRUE, FALSE, 0, 0, <<>>, "Archived")

CourseWith(runs, advertised, execEd) ==
    [runs |-> runs, advertised |-> advertised, execEd |-> execEd, presentable |-> TRUE]

Stored ==
    c1 :> {CourseWith(a :> Open @@ b :> Unsold, a, FALSE), CourseWith(a :> Closed @@ b :> Partner, b, FALSE),
           CourseWith(a :> Unsold, a, FALSE)} @@
    c2 :> {CourseWith(b :> Closing, b, FALSE), CourseWith(a :> Open @@ b :> Partner, b, TRUE),
           CourseWith(a :> Open, None, FALSE)}
Initial == c1 :> CourseWith(a :> Open @@ b :> Unsold, a, FALSE) @@ c2 :> CourseWith(b :> Closing, b, FALSE)
=============================================================================
