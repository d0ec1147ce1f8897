---------------------------- MODULE MCIndexDispatch ----------------------------
(* Instances of IndexDispatch for TLC. *)
EXTENDS IndexDispatch, TLC

CONSTANTS c1, p1, w1, v1    \* a course, its program, its pathway and its video

MCChild == (c1 :> {}) @@ (p1 :> {c1}) @@ (w1 :> {p1})
MCParentCourse == v1 :> c1

Forced     == [Stragglers EXCEPT !.force = TRUE]
Refresh    == [Stragglers EXCEPT !.kind = "query"]
MCRequest  == {Stragglers, Forced, Refresh,
               [Refresh EXCEPT !.force = TRUE],
               [Refresh EXCEPT !.dryRun = TRUE],
               [Stragglers EXCEPT !.types = {"video"}, !.includeFailed = FALSE]}
=============================================================================
