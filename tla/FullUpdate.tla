------------------------------- MODULE FullUpdate -------------------------------
(***************************************************************************)
(* update_full_content_metadata_task (apps/api/tasks.py): pads every       *)
(* course, in batches, with what Discovery's /courses endpoint says of it, *)
(* recreates the programs each course belongs to, updates its restricted   *)
(* copies, and pads every program.  Beside it run the updates of queries   *)
(* (ContentIngest), which write the same rows, and the task that links     *)
(* learner pathways to their content.                                      *)
(*                                                                         *)
(* Nothing locks a row between its load and the bulk_update at the end of  *)
(* its batch.  A version counts the edits of a content in Discovery.       *)
(***************************************************************************)
EXTENDS Integers, FiniteSets, Sequences, Ordering

CONSTANTS
    Course, Program, Pathway,     \* content keys; a course is a number, their order
    Worker,                       \* workers that run the full update again and again
    BatchSize,                    \* TASK_BATCH_SIZE
    Restricted,                   \* courses that have restricted copies
    Contents,                     \* pathway -> courses and programs it is made of
    ModifiedInFull,               \* courses of which /courses tells the modified, too
    MaxVersion, MaxMishaps,       \* bounds: edits of a content; failures and dry runs
    InitialOffers                 \* course -> programs it belongs to, at first

ASSUME CourseAssumption == Course \subseteq Nat /\ IsFiniteSet(Course)
ASSUME DisjointAssumption == /\ Course \intersect Program = {}
                             /\ Pathway \intersect (Course \union Program) = {}
ASSUME RestrictedAssumption == Restricted \subseteq Course /\ ModifiedInFull \subseteq Course
ASSUME SizeAssumption == /\ BatchSize \in Nat \ {0} /\ MaxVersion \in Nat \ {0}
                         /\ MaxMishaps \in Nat
ASSUME ContentAssumption == /\ Contents \in [Pathway -> SUBSET (Course \union Program)]
                            /\ InitialOffers \in [Course -> SUBSET Program]

VARIABLES
    source,     \* Discovery: the version of each content
    offers,     \* Discovery: the programs each course belongs to
    active,     \* Discovery: the pathways that are active and visible
    row,        \* the ContentMetadata row of each course
    program,    \* the version each program was padded from; 0: minimal row, -1: none
    copy,       \* the version a course's restricted copies hold, if it has some
    links,      \* associated_content_metadata, as pairs
    job,        \* what each worker is about
    mishaps

content == <<source, offers, active>>
fullVars == <<source, offers, active, row, program, copy, links, job, mishaps>>

\* plucked: version of the fields only /search/all tells; modified: the one compared
\* by _should_skip_course_update; full: version of the fields of /courses.
Row == [plucked : 0..MaxVersion, modified : 0..MaxVersion, full : 0..MaxVersion]

Dict == [version : 1..MaxVersion, programs : SUBSET Program]

\* loaded and dicts: the batch; queue: its courses still to be given programs; linking:
\* the rows of the one at hand; kept: all of them; copies: courses whose restricted
\* copies are still to be updated.
Job == [pc : {"idle", "courses", "reviews", "programs", "unlink", "link", "copies"},
        dry : BOOLEAN, todo : Seq(Course), loaded : UNION {[s -> Row] : s \in SUBSET Course},
        dicts : UNION {[s -> Dict] : s \in SUBSET Course},
        queue : Seq(Course), linking : SUBSET Program, kept : SUBSET Program, copies : Seq(Course)]

NextBatch(dry, rest) ==
    [pc |-> "courses", dry |-> dry, todo |-> rest, loaded |-> <<>>, dicts |-> <<>>,
     queue |-> <<>>, linking |-> {}, kept |-> {}, copies |-> <<>>]

IdleJob == [NextBatch(FALSE, <<>>) EXCEPT !.pc = "idle"]

Exists(c) == row[c].plucked # 0

ProgramsOf(c) == {p \in Program : <<c, p>> \in links}

\* The types of the rows, of Discovery and of the task's variables.
FullTypeOK ==
    /\ source \in [Course \union Program -> 1..MaxVersion]
    /\ offers \in [Course -> SUBSET Program]
    /\ active \in SUBSET Pathway
    /\ row \in [Course -> Row]
    /\ program \in [Program -> -1..MaxVersion]
    /\ copy \in [Restricted -> 1..MaxVersion]
    /\ links \in SUBSET ((Course \X Program) \union (Pathway \X (Course \union Program)))
    /\ job \in [Worker -> Job]
    /\ mishaps \in 0..MaxMishaps

FullInit ==
    /\ source = [x \in Course \union Program |-> 1]
    /\ offers = InitialOffers
    /\ active = Pathway
    /\ row \in [Course -> {[plucked |-> 0, modified |-> 0, full |-> 0],
                           [plucked |-> 1, modified |-> 1, full |-> 0]}]
    /\ program = [p \in Program |-> -1]
    /\ \A c \in Restricted : Exists(c)
    /\ copy = [c \in Restricted |-> 1]
    /\ links = {}
    /\ job = [t \in Worker |-> IdleJob]
    /\ mishaps = 0

Mishap == mishaps < MaxMishaps /\ mishaps' = mishaps + 1

-----------------------------------------------------------------------------
(* Discovery.                                                              *)

Edit(x) ==
    /\ source[x] < MaxVersion
    /\ source' = [source EXCEPT ![x] = @ + 1]
    /\ \/ UNCHANGED offers
       \/ x \in Course /\ \E s \in SUBSET Program : offers' = [offers EXCEPT ![x] = s]
    /\ UNCHANGED <<active, row, program, copy, links, job, mishaps>>

Deactivate(w) ==
    /\ active' = active \ {w}
    /\ UNCHANGED <<source, offers, row, program, copy, links, job, mishaps>>

-----------------------------------------------------------------------------
(* An update of a query that lists the course (ContentIngest) and the      *)
(* pathway task.                                                           *)

\* A new course is stored whole; of an old one whose modified has changed only the
\* plucked fields and modified are.
Ingest(c) ==
    /\ row[c].modified # source[c]
    /\ row' = [row EXCEPT ![c] = [@ EXCEPT !.plucked = source[c], !.modified = source[c]]]
    /\ UNCHANGED <<content, program, copy, links, job, mishaps>>

\* fetch_missing_course_metadata_task: a course a padded program names and that has no
\* row is the content of a query made for it.
FetchMissingCourse(c) ==
    /\ ~Exists(c)
    /\ \E p \in offers[c] : program[p] > 0
    /\ Ingest(c)

\* A program a pathway is made of and that has no row is fetched like a query of its own.
IngestMissing(p) ==
    /\ program[p] = -1
    /\ \E w \in Pathway : p \in Contents[w]
    /\ program' = [program EXCEPT ![p] = 0]
    /\ UNCHANGED <<content, row, copy, links, job, mishaps>>

Stored(x) == IF x \in Course THEN Exists(x) ELSE program[x] # -1

\* fetch_missing_pathway_metadata_task, its last loop: an inactive pathway loses its
\* links even in a dry run.
LinkPathway(w, dry) ==
    LET others == {l \in links : l[1] # w}
    IN  /\ links' = IF w \notin active THEN others
                    ELSE IF dry THEN links
                    ELSE others \union {<<w, x>> : x \in {y \in Contents[w] : Stored(y)}}
        /\ UNCHANGED <<content, row, program, copy, job, mishaps>>

-----------------------------------------------------------------------------
(* The full update, one statement at a time.                               *)

Becomes(t, j) == job' = [job EXCEPT ![t] = j]

\* A dry run is asked for by hand.
StartFull(t, dry) ==
    /\ job[t].pc = "idle"
    /\ IF dry THEN Mishap ELSE UNCHANGED mishaps
    /\ Becomes(t, NextBatch(dry, Ascending({c \in Course : Exists(c)})))
    /\ UNCHANGED <<content, row, program, copy, links>>

Length(todo) == IF BatchSize < Len(todo) THEN BatchSize ELSE Len(todo)

\* The keys of the next batch, and those of the batches after it.
Batch_LastMissed(todo) == {todo[i] : i \in 1..(Length(todo) - 1)}
Batch(todo) == {todo[i] : i \in 1..Length(todo)}

AfterBatch(todo) == SubSeq(todo, Length(todo) + 1, Len(todo))

\* fetch_courses_by_keys returns what it could get, maybe a part of the batch.  No course
\* at all: on to the next batch.
FetchCourses(t) ==
    LET j == job[t]
        b == Batch(j.todo)
        rest == AfterBatch(j.todo)
    IN  /\ j.pc = "courses" /\ j.todo # <<>>
        /\ \E got \in SUBSET b :
             /\ IF got = b THEN UNCHANGED mishaps ELSE Mishap
             /\ Becomes(t, IF got = {} THEN NextBatch(j.dry, rest)
                           ELSE [NextBatch(j.dry, rest) EXCEPT
                                   !.pc = "reviews",
                                   !.dicts = [c \in got |-> [version |-> source[c], programs |-> offers[c]]]])
        /\ UNCHANGED <<content, row, program, copy, links>>

\* The reviews of the courses are asked for (Break: a request that fails raises), then
\* their rows are loaded.
LoadRecords(t) ==
    LET got == DOMAIN job[t].dicts
    IN  /\ job[t].pc = "reviews"
        /\ Becomes(t, [job[t] EXCEPT !.pc = "programs", !.loaded = [c \in got |-> row[c]],
                                     !.queue = Ascending(got), !.copies = Ascending(got)])
        /\ UNCHANGED <<content, row, program, copy, links, mishaps>>

\* create_course_associated_programs, first create_content_metadata (ContentIngest),
\* which is not told of a dry run.  A creation that clashes is rolled back.
StorePrograms_LinksNewOnly(t) ==
    LET j == job[t]
        p == j.dicts[Head(j.queue)].programs
        old == {x \in p : program[x] # -1}
    IN  /\ j.pc = "programs" /\ j.queue # <<>>
        /\ Becomes(t, [j EXCEPT !.pc = "unlink", !.linking = p \ old])
        /\ program' = [x \in Program |-> IF x \in p \ old THEN 0 ELSE program[x]]
        /\ UNCHANGED <<content, row, copy, links, mishaps>>
StorePrograms(t) ==
    LET j == job[t]
        p == j.dicts[Head(j.queue)].programs
        old == {x \in p : program[x] # -1}
    IN  /\ j.pc = "programs" /\ j.queue # <<>>
        /\ \/ /\ Becomes(t, [j EXCEPT !.pc = "unlink", !.linking = p])
              /\ program' = [x \in Program |-> IF x \in p \ old THEN 0 ELSE program[x]]
              /\ UNCHANGED mishaps
           \/ /\ old # p /\ Mishap
              /\ Becomes(t, [j EXCEPT !.pc = "unlink", !.linking = old])
              /\ UNCHANGED program
        /\ UNCHANGED <<content, row, copy, links>>

\* Then the links of the course to programs go, those to pathways stay ...
Unlink_Nothing(t) ==
    /\ job[t].pc = "unlink"
    /\ Becomes(t, [job[t] EXCEPT !.pc = "link"])
    /\ UNCHANGED <<content, row, program, copy, links, mishaps>>
Unlink(t) ==
    LET c == Head(job[t].queue)
    IN  /\ job[t].pc = "unlink"
        /\ links' = {l \in links : ~(l[1] = c /\ l[2] \in Program)}
        /\ Becomes(t, [job[t] EXCEPT !.pc = "link"])
        /\ UNCHANGED <<content, row, program, copy, mishaps>>

\* ... and, another transaction, the new ones come.
Link_Reversed(t) ==
    LET j == job[t]
    IN  /\ j.pc = "link"
        /\ links' = links \union (j.linking \X {Head(j.queue)})
        /\ Becomes(t, [j EXCEPT !.pc = "programs", !.queue = Tail(@), !.kept = @ \union j.linking])
        /\ UNCHANGED <<content, row, program, copy, mishaps>>
Link(t) ==
    LET j == job[t]
    IN  /\ j.pc = "link"
        /\ links' = links \union ({Head(j.queue)} \X j.linking)
        /\ Becomes(t, [j EXCEPT !.pc = "programs", !.queue = Tail(@),
                                !.kept = @ \union j.linking, !.linking = {}])
        /\ UNCHANGED <<content, row, program, copy, mishaps>>

\* _update_full_content_metadata_program of the keys s.
PadPrograms_EvenDry(t, s) ==
    \E got \in SUBSET s :
       /\ IF got = s THEN UNCHANGED mishaps ELSE Mishap
       /\ program' = [p \in Program |-> IF p \in got THEN source[p] ELSE program[p]]
PadPrograms(t, s) ==
    \E got \in SUBSET s :
       /\ IF got = s THEN UNCHANGED mishaps ELSE Mishap
       /\ program' = IF job[t].dry THEN program
                     ELSE [p \in Program |-> IF p \in got THEN source[p] ELSE program[p]]

\* The programs of all the courses of the batch at once.
PadBatchPrograms(t) ==
    /\ job[t].pc = "programs" /\ job[t].queue = <<>>
    /\ PadPrograms(t, job[t].kept)
    /\ Becomes(t, [job[t] EXCEPT !.pc = "copies"])
    /\ UNCHANGED <<content, row, copy, links>>

\* _update_full_restricted_course_metadata: a request of its own for a course that has
\* restricted copies; they are saved, dry run or not.
UpdateCopies(t) ==
    LET j == job[t]
        c == Head(j.copies)
    IN  /\ j.pc = "copies" /\ j.copies # <<>>
        /\ copy' = IF c \in Restricted THEN [copy EXCEPT ![c] = source[c]] ELSE copy
        /\ Becomes(t, [j EXCEPT !.copies = Tail(@)])
        /\ UNCHANGED <<content, row, program, links, mishaps>>

\* _update_single_full_course_record: merged over what was loaded.
Merged_Modified(c, old, dict) ==
    [old EXCEPT !.full = dict.version, !.modified = dict.version]
Merged(c, old, dict) ==
    [old EXCEPT !.full = dict.version,
                !.modified = IF c \in ModifiedInFull THEN dict.version ELSE @]

\* bulk_update of the whole batch, and on to the next one.
WriteCourses(t) ==
    LET j == job[t]
    IN  /\ j.pc = "copies" /\ j.copies = <<>>
        /\ row' = IF j.dry THEN row
                  ELSE [c \in Course |-> IF c \in DOMAIN j.loaded
                                         THEN Merged(c, j.loaded[c], j.dicts[c]) ELSE row[c]]
        /\ Becomes(t, NextBatch(j.dry, j.todo))
        /\ UNCHANGED <<content, program, copy, links, mishaps>>

\* No course is left: all programs, and the task is over.
Finish(t) ==
    /\ job[t].pc = "courses" /\ job[t].todo = <<>>
    /\ PadPrograms(t, {p \in Program : program[p] # -1})
    /\ Becomes(t, IdleJob)
    /\ UNCHANGED <<content, row, copy, links>>

\* The reviews cannot be had, no restricted copy is found, a worker is lost.
Break(t) ==
    /\ job[t].pc # "idle"
    /\ Mishap
    /\ Becomes(t, IdleJob)
    /\ UNCHANGED <<content, row, program, copy, links>>

WorkOn(t) ==
    \/ StartFull(t, FALSE) \/ FetchCourses(t) \/ LoadRecords(t) \/ StorePrograms(t) \/ Unlink(t)
    \/ Link(t) \/ PadBatchPrograms(t) \/ UpdateCopies(t) \/ WriteCourses(t) \/ Finish(t)

FullNext ==
    \/ \E x \in Course \union Program : Edit(x)
    \/ \E c \in Course : Ingest(c)
    \/ \E c \in Course : FetchMissingCourse(c)
    \/ \E p \in Program : IngestMissing(p)
    \/ \E w \in Pathway, dry \in BOOLEAN : LinkPathway(w, dry)
    \/ \E w \in Pathway : Deactivate(w)
    \/ \E t \in Worker : WorkOn(t) \/ StartFull(t, TRUE) \/ Break(t)

\* Both commands are run every day, and every statement of a task follows the last.
FullSpec == /\ FullInit /\ [][FullNext]_fullVars
            /\ \A t \in Worker : WF_fullVars(WorkOn(t))
            /\ \A c \in Course : WF_fullVars(Ingest(c))

-----------------------------------------------------------------------------
(* Properties.                                                             *)

\* When the new metadata of a course is written the course is linked to no program but
\* those it names, and to all of them unless something failed.
LinkedBeforeWritten ==
    [][\A t \in Worker, c \in Course :
          /\ job[t].pc = "copies" /\ job'[t].pc = "courses"
          /\ c \in DOMAIN job[t].loaded
          => /\ ProgramsOf(c) \subseteq job[t].dicts[c].programs
             /\ mishaps = 0 => ProgramsOf(c) = job[t].dicts[c].programs]_fullVars

\* A dry run leaves the rows of courses and the padding of programs alone (it does
\* create programs, change links and save restricted copies).
DryRunSparesContent ==
    [][\A t \in Worker : job[t].dry /\ job'[t] # job[t] =>
          row' = row /\ \A p \in Program : program[p] # -1 => program'[p] = program[p]]_fullVars

\* Whatever fails, is lost in the middle of a course or is overwritten by a stale load,
\* the daily runs bring every course to the last version of its full metadata ...
FullCatchesUp ==
    \A c \in Course : <>[](Exists(c) => row[c].full = source[c])

\* ... and link it, again and again, to all the programs it belongs to.
LinksReturn ==
    \A c \in Course : []<>(Exists(c) => ProgramsOf(c) = offers[c])

\* What only /search/all tells of a course is up to date again and again, although a full
\* update may put back the fields it loaded over those an ingest has written since: it puts
\* back the modified it loaded, too.  (Where /courses tells a new modified of its own, the
\* ingest then skips the course and its old fields stay.)
PluckedReturns ==
    \A c \in Course \ ModifiedInFull : []<>(row[c].plucked = source[c])

\* The docstring of _should_skip_course_update: if modified matches, there is no need to
\* update the record.  TLC refutes it for a course in ModifiedInFull.
MatchMeansFresh ==
    \A c \in Course : row[c].modified = source[c] => row[c].plucked = source[c]
=============================================================================
