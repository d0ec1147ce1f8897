------------------------------ MODULE CourseFields ------------------------------
(***************************************************************************)
(* What is read off the stored payload of a course: whether it belongs in  *)
(* the search index, and the fields of its Algolia object that depend on   *)
(* its runs and on the time (apps/catalog/algolia_utils.py,                *)
(* content_metadata_utils.py, serializers.py).                             *)
(*                                                                         *)
(* A course is [runs, advertised, execEd, presentable]: a function from    *)
(* its run keys to runs, the run advertised, whether it is executive       *)
(* education, whether it has owners and its advertised run is not hidden.  *)
(* Dates are days.                                                         *)
(***************************************************************************)
EXTENDS Integers, Sequences, FiniteSets

CONSTANTS
    None,                 \* a date or a run not given
    Missing,              \* no normalized_metadata yet
    BestModeOrder,        \* seat modes, best first
    LateEnrollmentDays    \* LATE_ENROLLMENT_THRESHOLD_DAYS

ASSUME LateAssumption == LateEnrollmentDays \in Nat

Availabilities == {"Current", "Upcoming", "Starting Soon", "Archived"}

IsCourseRunActive_Unmarketed(run) == run.enrollable /\ (run.published \/ run.external)

IsCourseRunActive(run) == run.enrollable /\ ((run.published /\ run.marketable) \/ run.external)

ActiveRuns(course) == {r \in DOMAIN course.runs : IsCourseRunActive(course.runs[r])}

AdvertisedRun(course) == IF course.advertised \in DOMAIN course.runs THEN course.advertised ELSE None

-----------------------------------------------------------------------------
(* Dates.                                                                  *)

ModePlace(mode) ==
    IF \E i \in DOMAIN BestModeOrder : BestModeOrder[i] = mode
    THEN CHOOSE i \in DOMAIN BestModeOrder : BestModeOrder[i] = mode
    ELSE Len(BestModeOrder) + 1

\* The first seat of the best mode; a deadline that overrides another stands in its place.
BestModeSeat(seats) ==
    seats[CHOOSE i \in DOMAIN seats : \A j \in DOMAIN seats :
             \/ ModePlace(seats[i].mode) < ModePlace(seats[j].mode)
             \/ ModePlace(seats[i].mode) = ModePlace(seats[j].mode) /\ i <= j]

Earliest(dates) ==
    IF dates \ {None} = {} THEN None
    ELSE CHOOSE d \in dates \ {None} : \A e \in dates \ {None} : d <= e

EnrollBy(course, run) ==
    IF course.execEd THEN run.enrollmentEnd
    ELSE Earliest({run.enrollmentEnd, IF run.seats = <<>> THEN None ELSE BestModeSeat(run.seats).deadline})

\* normalized_metadata.enroll_by_date, as the full update stores it.
NormalizedEnrollBy(course) ==
    IF AdvertisedRun(course) = None THEN None
    ELSE EnrollBy(course, course.runs[course.advertised])

Passed(date, now) == date # None /\ date < now

-----------------------------------------------------------------------------
ShouldIndexCourse_AnyDeadline(course, enrollBy, now) ==
    /\ AdvertisedRun(course) # None
    /\ IsCourseRunActive(course.runs[course.advertised])
    /\ enrollBy # Missing
    /\ course.presentable

\* _should_index_course; without normalized metadata it raises, and the course is in
\* neither part of the partition.
ShouldIndexCourse(course, enrollBy, now) ==
    /\ AdvertisedRun(course) # None
    /\ IsCourseRunActive(course.runs[course.advertised])
    /\ enrollBy # Missing /\ ~Passed(enrollBy, now)
    /\ course.presentable

\* get_course_runs leaves out runs that ended, or that are past late enrollment too.
TooLate(date, now) == Passed(date, now) /\ date <= now - LateEnrollmentDays
CourseRuns(course, now) ==
    {r \in DOMAIN course.runs :
        /\ ~Passed(course.runs[r].end, now)
        /\ ~TooLate(EnrollBy(course, course.runs[r]), now)}

\* The advertised run is taken to be one of the active ones.
UpcomingCourseRuns(course) ==
    Cardinality(ActiveRuns(course)) - (IF AdvertisedRun(course) # None THEN 1 ELSE 0)

Availability(course) == {course.runs[r].availability : r \in ActiveRuns(course)}

CourseObject(course, now) ==
    [advertised |-> AdvertisedRun(course),
     enrollBy   |-> NormalizedEnrollBy(course),
     runs       |-> CourseRuns(course, now),
     upcoming   |-> UpcomingCourseRuns(course),
     availability |-> Availability(course)]
=============================================================================
