--------------------------- MODULE RestrictedContent ---------------------------
(***************************************************************************)
(* Restricted runs of courses (apps/catalog/models.py).  A content filter  *)
(* may allow restricted runs of some courses; for each such course the     *)
(* query gets a copy of the course that holds these runs, a row for each   *)
(* run, and a mapping of the copy to the rows.  A row that no copy is      *)
(* mapped to passes for an unrestricted run.                               *)
(*                                                                         *)
(* synchronize_restricted_content does this at the end of an update of the *)
(* query, a statement at a time, with the filter it loaded at its start;   *)
(* requests edit filters meanwhile (Catalogs), and the full update pads    *)
(* the copies again.  What the query's ordinary contents are is settled by *)
(* ContentIngest: here they are the courses its filter lists.              *)
(***************************************************************************)
EXTENDS Catalogs

CONSTANTS
    Course, Run, ParentOf,   \* restricted runs and the course of each
    Lists,                   \* filter -> courses it selects
    Allows,                  \* filter -> restricted runs it allows
    Open,                    \* courses with another run that is published and active
    Worker,                  \* workers that update queries
    MaxCanonical,            \* bound: duplicates of a canonical copy
    MaxTroubles              \* bound: requests that fail, workers lost

\* A content key is one of a course or one of a run.
ASSUME RunAssumption == ParentOf \in [Run -> Course] /\ Course \intersect Run = {}
ASSUME NoCopyAssumption == \A runs \in SUBSET Run : runs # Absent
ASSUME FilterAssumption == Lists \in [Filter -> SUBSET Course] /\ Allows \in [Filter -> SUBSET Run]
ASSUME OpenAssumption == Open \subseteq Course
ASSUME RestrictedBoundAssumption == MaxCanonical \in Nat \ {0} /\ MaxTroubles \in Nat

VARIABLES
    stored,     \* courses that have a ContentMetadata row
    runRow,     \* runs that have one
    canonical,  \* how many copies without a query a course has
    copy,       \* query -> course -> runs in its copy, or Absent
    mapped,     \* query -> runs its copies are mapped to
    job, troubles,
    everAllowed, settled   \* history: runs a query's filters have allowed; queries whose
                           \* last update ended and that nothing disturbed since it began

contentVars == <<stored, runRow, canonical, copy, mapped>>
history == <<everAllowed, settled>>
vars == <<catalogVars, contentVars, job, troubles, history>>

RunsOf(c) == {r \in Run : ParentOf[r] = c}
CoursesOf_RunKeys(runs) == runs
CoursesOf(runs) == {ParentOf[r] : r \in runs}
Copies(q) == {c \in Course : copy[q][c] # Absent}

Steps == {"idle", "courses", "create", "copy", "map", "runs"}

\* todo: courses of the payload; course: the one at hand; runs: what its copy was given.
Idle == [pc |-> "idle", q |-> Absent, filter |-> Absent, todo |-> {}, course |-> Absent,
         runs |-> {}, clean |-> TRUE]

Job == [pc : Steps, q : QueryId \union {Absent}, filter : Filter \union {Absent}, todo : SUBSET Course,
        course : Course \union {Absent}, runs : SUBSET Run, clean : BOOLEAN]

TypeOK ==
    /\ CatalogTypeOK
    /\ stored \in SUBSET Course /\ runRow \in SUBSET Run
    /\ canonical \in [Course -> 0..MaxCanonical]
    /\ copy \in [QueryId -> [Course -> {Absent} \union SUBSET Run]]
    /\ mapped \in [QueryId -> SUBSET Run]
    /\ job \in [Worker -> Job]
    /\ troubles \in 0..MaxTroubles
    /\ everAllowed \in [QueryId -> SUBSET Run] /\ settled \in SUBSET QueryId

Init ==
    /\ CatalogInit
    /\ stored \in SUBSET Course
    /\ runRow = {}
    /\ canonical = [c \in Course |-> 0]
    /\ copy = [q \in QueryId |-> [c \in Course |-> Absent]]
    /\ mapped = [q \in QueryId |-> {}]
    /\ job = [w \in Worker |-> Idle]
    /\ troubles = 0
    /\ everAllowed = [q \in QueryId |-> {}]
    /\ settled = {}

-----------------------------------------------------------------------------
(* Requests and ingests.                                                   *)

EditCatalogs ==
    /\ ChangeCatalogs
    /\ LET edited == {q \in QueryId : query'[q] # Absent /\ query'[q] # query[q]}
       IN  /\ everAllowed' = [q \in QueryId |-> everAllowed[q] \union
                                 IF q \in edited THEN Allows[query'[q].filter] ELSE {}]
           /\ settled' = settled \ edited
           /\ job' = [w \in Worker |-> [job[w] EXCEPT !.clean = @ /\ job[w].q \notin edited]]
    /\ UNCHANGED <<contentVars, troubles>>

\* Some query's update brings the course.
StoreCourse(c) ==
    /\ stored' = stored \union {c}
    /\ UNCHANGED <<catalogVars, runRow, canonical, copy, mapped, job, troubles, history>>

-----------------------------------------------------------------------------
(* synchronize_restricted_content.                                         *)

Becomes(w, j) == job' = [job EXCEPT ![w] = j]

\* No update of q is under way that began before the last edit of its filter.
Undisturbed(q) == \A v \in Worker : job[v].q = q => job[v].clean

Settle(q) == settled' = IF Undisturbed(q) THEN settled \union {q} ELSE settled

\* The query is loaded; without restricted runs allowed there is nothing to do.
Begin(w, q) ==
    /\ job[w].pc = "idle" /\ q \in Queries
    /\ IF Allows[FilterOf(q)] = {}
       THEN Settle(q) /\ UNCHANGED job
       ELSE /\ Becomes(w, [Idle EXCEPT !.pc = "courses", !.q = q, !.filter = FilterOf(q),
                                       !.todo = CoursesOf(Allows[FilterOf(q)]),
                                       !.clean = Undisturbed(q)])
            /\ UNCHANGED settled
    /\ UNCHANGED <<catalogVars, contentVars, troubles, everAllowed>>

\* _store_record of the canonical copy: the lookup of get_or_create ...
FindCanonical(w) ==
    LET j == job[w]
    IN  /\ j.pc = "courses"
        /\ \E c \in j.todo \intersect stored :
             /\ canonical[c] < 2
             /\ Becomes(w, [j EXCEPT !.pc = IF canonical[c] = 0 THEN "create" ELSE "copy",
                                     !.todo = @ \ {c}, !.course = c])
        /\ UNCHANGED <<catalogVars, contentVars, troubles, history>>

\* ... and its creation.  NULL queries do not clash in the unique index.
CreateCanonical(w) ==
    LET c == job[w].course
    IN  /\ job[w].pc = "create" /\ canonical[c] < MaxCanonical
        /\ canonical' = [canonical EXCEPT ![c] = @ + 1]
        /\ Becomes(w, [job[w] EXCEPT !.pc = "copy"])
        /\ UNCHANGED <<catalogVars, stored, runRow, copy, mapped, troubles, history>>

\* restricted_runs_for_course.
RunsAllowed_All(f, c) == RunsOf(c)
RunsAllowed(f, c) == Allows[f] \intersect RunsOf(c)

\* A copy that exists reads its query's filter anew, one just created keeps the filter
\* that was loaded.
FilterSeen(q, c, loaded) == IF copy[q][c] = Absent THEN loaded ELSE FilterOf(q)

\* A row for every run of the copy ...
StoreCopy(w) ==
    LET j == job[w]
        f == FilterSeen(j.q, j.course, j.filter)
        runs == RunsAllowed(f, j.course)
    IN  /\ j.pc = "copy" /\ Allows[f] # {}
        /\ copy' = [copy EXCEPT ![j.q][j.course] = runs]
        /\ runRow' = runRow \union runs
        /\ Becomes(w, [j EXCEPT !.pc = "map", !.runs = runs])
        /\ UNCHANGED <<catalogVars, stored, canonical, mapped, troubles, history>>

\* ... then the mapping of the copy is replaced.
Remapped_WholeQuery(runs, c, new) == new
Remapped(runs, c, new) == (runs \ RunsOf(c)) \union new

SetMapping(w) ==
    LET j == job[w]
    IN  /\ j.pc = "map"
        /\ mapped' = [mapped EXCEPT ![j.q] = Remapped(@, j.course, j.runs)]
        /\ Becomes(w, [j EXCEPT !.pc = "courses", !.course = Absent, !.runs = {}])
        /\ UNCHANGED <<catalogVars, stored, runRow, canonical, copy, troubles, history>>

\* All courses are done; the rows of the runs are stored once more, from payloads of
\* their own.
StoreTopLevelRuns(w) ==
    /\ job[w].pc = "courses" /\ job[w].todo = {}
    /\ runRow' = runRow \union Allows[job[w].filter]
    /\ Settle(job[w].q)
    /\ Becomes(w, Idle)
    /\ UNCHANGED <<catalogVars, stored, canonical, copy, mapped, troubles, everAllowed>>

\* What raises: a course without a row, two canonical copies, a filter that allows
\* nothing any more.
Raises(w) ==
    LET j == job[w]
    IN  /\ \/ j.pc = "courses" /\ \E c \in j.todo : c \notin stored \/ canonical[c] > 1
           \/ j.pc = "copy" /\ Allows[FilterSeen(j.q, j.course, j.filter)] = {}
        /\ Becomes(w, Idle)
        /\ UNCHANGED <<catalogVars, contentVars, troubles, history>>

\* A request to Discovery fails, a worker is lost.
Breaks(w) ==
    /\ job[w].pc # "idle"
    /\ troubles < MaxTroubles /\ troubles' = troubles + 1
    /\ Becomes(w, Idle)
    /\ UNCHANGED <<catalogVars, contentVars, history>>

Synchronize(w) ==
    \/ \E q \in QueryId : Begin(w, q)
    \/ FindCanonical(w) \/ CreateCanonical(w) \/ StoreCopy(w) \/ SetMapping(w)
    \/ StoreTopLevelRuns(w) \/ Raises(w)

-----------------------------------------------------------------------------
(* The full update (FullUpdate) pads the copies of a course and lets each  *)
(* keep the runs its query allows now, not their mapping.  It raises at    *)
(* the first copy whose query allows none.                                 *)

PadCopies(c) ==
    LET having == {q \in Queries : copy[q][c] # Absent}
        fine == {q \in having : Allows[FilterOf(q)] # {}}
    IN  /\ \E s \in SUBSET fine :
             /\ having = fine => s = fine
             /\ copy' = [q \in QueryId |-> IF q \in s
                                           THEN [copy[q] EXCEPT ![c] = RunsAllowed(FilterOf(q), c)]
                                           ELSE copy[q]]
        /\ UNCHANGED <<catalogVars, stored, runRow, canonical, mapped, job, troubles, history>>

Next ==
    \/ EditCatalogs
    \/ \E c \in Course : StoreCourse(c) \/ PadCopies(c)
    \/ \E w \in Worker : Synchronize(w) \/ Breaks(w)

Spec == Init /\ [][Next]_vars

-----------------------------------------------------------------------------
(* What the API answers.                                                   *)

Members(q) == stored \intersect Lists[FilterOf(q)]

MappedByAny == UNION {mapped[q] : q \in QueryId}

\* Runs that get_matching_content does not look at: v1 hides every restricted run, v2
\* (restricted) those that only copies of other queries are mapped to.
Hidden_AllFromOthers(q, restricted) == UNION {mapped[r] : r \in QueryId \ {q}}
Hidden(q, restricted) ==
    IF restricted /\ Allows[FilterOf(q)] # {} THEN MappedByAny \ mapped[q] ELSE MappedByAny

\* get_matching_content: the members that are a key given, or the course of one.
MatchingContent(q, keys, restricted) ==
    Members(q) \intersect
       ((keys \intersect Course) \union CoursesOf((keys \intersect runRow) \ Hidden(q, restricted)))

\* contains_content_items of a catalog: is any of the keys in it?
CatalogContains(q, keys, restricted) == MatchingContent(q, keys, restricted) # {}

\* contains_content_items over the catalogs of a customer, with the list of catalogs.
CatalogsContaining(e, keys, restricted) ==
    {k \in CatalogsOf(e) : CatalogContains(catalog[k], keys, restricted)}
CustomerContains(e, keys, restricted) == CatalogsContaining(e, keys, restricted) # {}

\* filter_content_items: keys of members only.
FilterKeys(q, keys) == keys \intersect Members(q)
CustomerFilters(e, keys) == UNION {FilterKeys(catalog[k], keys) : k \in CatalogsOf(e)}

\* content-metadata/{identifier}: what any of the customer's catalogs may answer with.
\* In v1 a uuid is that of a member.
ItemsFor(e, id, byUuid, restricted) ==
    UNION {IF byUuid /\ ~restricted THEN {id} \intersect Members(catalog[k])
           ELSE MatchingContent(catalog[k], {id}, restricted) : k \in CatalogsOf(e)}

\* get_catalog_content_diff: the keys given against those of the members.
CatalogDiff(q, keys) == [items_not_found |-> keys \ Members(q), items_found |-> keys \intersect Members(q),
                         items_not_included |-> Members(q) \ keys]

\* json_metadata of a course read through a catalog: that of the query's copy in v2.
RunsServed(q, c, restricted) ==
    IF restricted /\ Allows[FilterOf(q)] # {} /\ copy[q][c] # Absent THEN copy[q][c] ELSE {}

\* get_content_metadata, all pages: courses that only have runs nobody may see are taken
\* for inactive, and listed if asked for by a key only.
Listing(q, keys, restricted) ==
    {c \in IF keys = {} THEN Members(q) ELSE MatchingContent(q, keys, restricted) :
        keys # {} \/ c \in Open \/ RunsServed(q, c, restricted) # {}}

-----------------------------------------------------------------------------
(* Properties.                                                             *)

\* When a query's last update ended with nothing disturbing it, every course with runs
\* its filter allows has a copy with just these, mapped to just these, that have rows.
SettledAsAllowed ==
    \A q \in settled : \A c \in CoursesOf(Allows[FilterOf(q)]) :
       LET allowed == RunsAllowed(FilterOf(q), c)
       IN  copy[q][c] = allowed /\ mapped[q] \intersect RunsOf(c) = allowed /\ allowed \subseteq runRow

\* How the API speaks of a run that the query of a customer's catalog allows.
RunAnswered(e, k, r) ==
    LET q == catalog[k]
        c == ParentOf[r]
    IN  /\ k \in CatalogsContaining(e, {r}, TRUE) /\ ~CustomerContains(e, {r}, FALSE)
        /\ \A byUuid \in BOOLEAN : ItemsFor(e, r, byUuid, TRUE) = {c} /\ ItemsFor(e, r, byUuid, FALSE) = {}
        /\ r \in RunsServed(q, c, TRUE) /\ r \notin RunsServed(q, c, FALSE)
        /\ c \in Listing(q, {}, TRUE) /\ (c \in Listing(q, {}, FALSE) => c \in Open)
        /\ c \in CustomerFilters(e, {c, r})

\* When settled, it keeps to the filter: a customer with a catalog of that query is told in
\* v2 that it contains each run allowed in a course listed, whatever other queries allow,
\* and the course is served with it; v1 does not let on.
ServedAsAllowed ==
    \A e \in Customer : \A k \in CatalogsOf(e) : catalog[k] \in settled =>
       \A r \in Allows[FilterOf(catalog[k])] :
          ParentOf[r] \in Members(catalog[k]) => RunAnswered(e, k, r)

\* Whatever is edited while an update runs with what it loaded, and whichever of them
\* breaks off, a query's copies and mapping hold no run none of its filters ever allowed.
NeverBeyondAllowed ==
    \A q \in QueryId :
       /\ mapped[q] \subseteq everAllowed[q]
       /\ \A c \in Copies(q) : copy[q][c] \subseteq everAllowed[q] \intersect RunsOf(c)

\* Refuted: the docstring of RestrictedCourseMetadata.  One copy for each query which explicitly
\* allows any restricted runs of the course.
CopiesFollowFilter ==
    \A q \in settled : Copies(q) = CoursesOf(Allows[FilterOf(q)])

\* Refuted: the docstring of get_catalog_content_diff.  A key is contained when a course of the
\* catalog has it nested as a run, as contains_content_keys has it.
DiffSeesRuns ==
    \A k \in Catalog : catalog[k] # Absent => \A r \in Run :
       CatalogContains(catalog[k], {r}, FALSE) => r \notin CatalogDiff(catalog[k], {r}).items_not_found
=============================================================================
