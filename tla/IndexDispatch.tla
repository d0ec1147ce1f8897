----------------------------- MODULE IndexDispatch -----------------------------
(***************************************************************************)
(* The dispatchers of apps/search/tasks.py: dispatch_algolia_indexing (the *)
(* stragglers cron, the daily forced run, the management command) and      *)
(* dispatch_algolia_indexing_for_catalog_query (the API refresh).  A       *)
(* dispatch reads the cached mappings, selects the records that need       *)
(* indexing and sends a Celery canvas of groups, courses before programs   *)
(* before pathways before videos, each group starting when the one before  *)
(* it has succeeded.                                                       *)
(*                                                                         *)
(* A batch holds one record and takes one step: what happens inside a      *)
(* batch is the subject of IndexBatch.  The clock ticks with every         *)
(* modification and every stamp, so two timestamps differ when the code's  *)
(* do.  Every record is in some other catalog too: the generator always    *)
(* has objects for an indexable record.                                    *)
(***************************************************************************)
EXTENDS IndexingDecision, Sequences, FiniteSets, Ordering

CONSTANTS
    Course, Program, Pathway,   \* content keys, by type
    Video,                      \* edx_video_ids
    Child,          \* the courses of a program, the programs of a pathway
    ParentCourse,   \* the course of a video
    Run,            \* dispatches in flight
    Request,        \* the arguments dispatches are called with
    MaxChanges,     \* bound on the changes to content and membership
    MaxFailures,    \* bound on the records and tasks that fail
    MaxManual       \* bound on the dispatches that are not the stragglers cron

Record == Course \union Program \union Pathway
Item   == Record \union Video
Types  == {"course", "program", "learnerpathway", "video"}

Requests == [kind : {"all", "query"}, force : BOOLEAN, includeFailed : BOOLEAN,
             types : SUBSET Types, dryRun : BOOLEAN]

\* dispatch_algolia_indexing every thirty minutes, with its default arguments.
Stragglers == [kind |-> "all", force |-> FALSE, includeFailed |-> TRUE,
               types |-> Types, dryRun |-> FALSE]

\* A content key is unique over all types; videos have a table of their own.  An indexable
\* record always has objects.
ASSUME KeyAssumption ==
    /\ Course \intersect Program = {} /\ Course \intersect Pathway = {}
    /\ Program \intersect Pathway = {} /\ Record \intersect Video = {}
ASSUME ShardAssumption == Shard # {}
ASSUME ChildAssumption ==
    /\ Child \in [Record -> SUBSET Record]
    /\ \A k \in Course : Child[k] = {}
    /\ \A k \in Program : Child[k] \subseteq Course
    /\ \A k \in Pathway : Child[k] \subseteq Program
ASSUME ParentCourseAssumption == ParentCourse \in [Video -> Course]
ASSUME RequestAssumption == Request \subseteq Requests
ASSUME BoundAssumption == MaxChanges \in Nat /\ MaxFailures \in Nat /\ MaxManual \in Nat

VARIABLES
    now,
    modified,    \* ContentMetadata.modified
    eligible,    \* the records the partition functions let in
    member,      \* the records of the catalog query that refreshes ask for
    state,       \* the state row of each record
    tagged,      \* the records Algolia lists under that catalog query
    videoAt,     \* when the Algolia objects of a video were last built
    cached,      \* {} or {the indexable keys of the cached mappings}
    stage,       \* how far each dispatch is
    request,     \* its arguments
    mappings,    \* the indexable keys it read
    groups,      \* the groups of its canvas still to run
    disturbed,   \* did anything else change, or a task fail, since it started?
    changes, failures, manual    \* what the bounds count

database == <<modified, eligible, member>>
index    == <<state, tagged, videoAt>>
dispatch == <<stage, request, mappings, groups>>
counters == <<changes, failures, manual>>
dispatchVars == <<now, modified, eligible, member, state, tagged, videoAt, cached, stage,
                  request, mappings, groups, disturbed, changes, failures, manual>>

\* The types of the content, the rows, the index and the dispatches.
DispatchTypeOK ==
    /\ now \in Nat
    /\ modified \in [Record -> Nat]
    /\ eligible \in SUBSET Record /\ member \in SUBSET Record
    /\ state \in [Record -> Row]
    /\ tagged \in SUBSET Record
    /\ videoAt \in [Video -> Nat]
    /\ cached \in SUBSET SUBSET Record
    /\ stage \in [Run -> {"idle", "mapped", "running"}]
    /\ request \in [Run -> Requests]
    /\ mappings \in [Run -> SUBSET Record]
    /\ groups \in [Run -> Seq(SUBSET Item)]
    /\ disturbed \in [Run -> BOOLEAN]
    /\ changes \in Nat /\ failures \in Nat /\ manual \in Nat

DispatchInit ==
    /\ now = 1
    /\ modified = [k \in Record |-> 1]
    /\ eligible \in SUBSET Record
    /\ member = {}
    /\ state = [k \in Record |-> EmptyRow]
    /\ tagged = {}
    /\ videoAt = [v \in Video |-> Never]
    /\ cached = {}
    /\ stage = [r \in Run |-> "idle"]
    /\ request = [r \in Run |-> Stragglers]
    /\ mappings = [r \in Run |-> {}]
    /\ groups = [r \in Run |-> <<>>]
    /\ disturbed = [r \in Run |-> FALSE]
    /\ changes = 0 /\ failures = 0 /\ manual = 0

-----------------------------------------------------------------------------
(* The world around the dispatchers.                                       *)

Change ==
    /\ changes < MaxChanges
    /\ changes' = changes + 1
    /\ disturbed' = [r \in Run |-> TRUE]
    /\ UNCHANGED <<index, cached, dispatch, failures, manual>>

\* The ingest updates a ContentMetadata row.
Touch(k) ==
    /\ Change
    /\ now' = now + 1
    /\ modified' = [modified EXCEPT ![k] = now']
    /\ UNCHANGED <<eligible, member>>

\* The catalog query gains or loses a record; modified does not advance.
JoinOrLeave(k) ==
    /\ Change
    /\ member' = IF k \in member THEN member \ {k} ELSE member \union {k}
    /\ UNCHANGED <<now, modified, eligible>>

\* A record becomes indexable, or stops being: a deadline, a status, an active run.
ChangeIndexable(k) ==
    /\ Change
    /\ eligible' = IF k \in eligible THEN eligible \ {k} ELSE eligible \union {k}
    /\ UNCHANGED <<now, modified, member>>

\* ALGOLIA_INDEXING_MAPPINGS_CACHE_TIMEOUT
ExpireMappings ==
    /\ cached # {}
    /\ cached' = {}
    /\ UNCHANGED <<now, database, index, dispatch, disturbed, counters>>

-----------------------------------------------------------------------------
(* Selection.                                                              *)

TypeOf(i) == CASE i \in Course  -> "course"
               [] i \in Program -> "program"
               [] i \in Pathway -> "learnerpathway"
               [] i \in Video   -> "video"

\* _get_course_keys_for_dispatch; the other types do the same first.
NeedsIndexing_FailuresForgotten(k, includeFailed) == IsStale(state[k], modified[k])

NeedsIndexing(k, includeFailed) ==
    IsStale(state[k], modified[k]) \/ (includeFailed /\ state[k].failed)

\* _has_newer_child_index
HasNewerChild(k) ==
    /\ state[k].lastIndexed # Never
    /\ \E c \in Child[k] : state[c].lastIndexed > state[k].lastIndexed

\* _get_keys_to_dispatch_by_type
KeysToDispatch(keys, q) ==
    {k \in keys : q.force \/ NeedsIndexing(k, q.includeFailed) \/ HasNewerChild(k)}

\* _get_video_pks_for_dispatch
VideosToDispatch(keys, force) == {v \in Video : force \/ ParentCourse[v] \in keys}

\* dispatch_algolia_indexing
SelectAll(keys, q) ==
    LET records == KeysToDispatch(keys, q)
    IN  {i \in records \union VideosToDispatch(records, q.force) : TypeOf(i) \in q.types}

\* _get_catalog_query_content_keys_by_type: what the database has for the query.
QueryMembers == member

\* get_aggregation_keys_for_catalog_query: what Algolia has under the query's facet.
AggregationKeys == tagged

\* dispatch_algolia_indexing_for_catalog_query
SelectForQuery(q) ==
    LET removed == AggregationKeys \ QueryMembers
        added   == QueryMembers \ AggregationKeys
        records == KeysToDispatch(QueryMembers, q) \union removed \union added
    IN  records \union VideosToDispatch(records, FALSE)

Selected(r) == IF request[r].kind = "all" THEN SelectAll(mappings[r], request[r])
                                          ELSE SelectForQuery(request[r])

\* Programs and pathways ahead of the courses they are made of.
OrderedGroups_ParentsFirst(items) ==
    Where(<<items \intersect Pathway, items \intersect Program,
            items \intersect Course, items \intersect Video>>, LAMBDA g : g # {})

\* _build_ordered_groups
OrderedGroups(items) ==
    Where(<<items \intersect Course, items \intersect Program,
            items \intersect Pathway, items \intersect Video>>, LAMBDA g : g # {})

-----------------------------------------------------------------------------
(* A dispatch.                                                             *)

\* get_indexing_mappings, of a task that has just emptied the cache or not.
Mappings(emptied) == IF emptied \/ cached = {} THEN eligible ELSE CHOOSE m \in cached : TRUE

Invalidates(q) == IF q.kind = "all" THEN q.force ELSE ~ q.dryRun

\* The dispatcher starts: invalidate_indexing_mappings_cache, get_indexing_mappings.
Begin(r, q) ==
    /\ stage[r] = "idle"
    /\ q # Stragglers => manual < MaxManual
    /\ manual' = IF q = Stragglers THEN manual ELSE manual + 1
    /\ request' = [request EXCEPT ![r] = q]
    /\ mappings' = [mappings EXCEPT ![r] = Mappings(Invalidates(q))]
    /\ cached' = {mappings'[r]}
    /\ disturbed' = [disturbed EXCEPT ![r] = FALSE]
    /\ stage' = [stage EXCEPT ![r] = "mapped"]
    /\ UNCHANGED <<now, database, index, groups, changes, failures>>

\* It selects the records and sends the canvas, unless there is nothing to send.
SendCanvas(r) ==
    /\ stage[r] = "mapped"
    /\ groups' = [groups EXCEPT ![r] = IF request[r].dryRun THEN <<>>
                                       ELSE OrderedGroups(Selected(r))]
    /\ stage' = [stage EXCEPT ![r] = IF groups'[r] = <<>> THEN "idle" ELSE "running"]
    /\ UNCHANGED <<now, database, index, cached, request, mappings, disturbed, counters>>

-----------------------------------------------------------------------------
(* The canvas.                                                             *)

Current(r) == IF groups[r] = <<>> THEN {} ELSE Head(groups[r])

Advance(r, remaining) ==
    /\ groups' = [groups EXCEPT ![r] = remaining]
    /\ stage' = [stage EXCEPT ![r] = IF remaining = <<>> THEN "idle" ELSE "running"]
    /\ UNCHANGED <<database, request, mappings, changes, manual>>

\* The chord body starts when the last task of its header has succeeded.
Succeed(r, i) ==
    LET left == Current(r) \ {i}
    IN  Advance(r, IF left = {} THEN Tail(groups[r]) ELSE <<left>> \o Tail(groups[r]))

\* A header task that fails for good: the chord body is never sent.
Break(r, i) ==
    LET left == Current(r) \ {i}
    IN  Advance(r, IF left = {} THEN <<>> ELSE <<left>>)

DisturbOthers(r) == disturbed' = [u \in Run |-> disturbed[u] \/ u # r]

Fail ==
    /\ failures < MaxFailures
    /\ failures' = failures + 1
    /\ disturbed' = [u \in Run |-> TRUE]

\* index_<type>_batch_in_algolia on one record, in one step.
RunRecord(r, k) ==
    LET known    == Mappings(FALSE)
        decision == ResolveDecision(state[k], modified[k], k \in known, Shard, state[k].ids,
                                    request[r].force)
    IN  /\ k \in Current(r) \intersect Record
        /\ cached' = {known}
        /\ \/ /\ decision.desired = Indexed
              /\ now' = now + 1
              /\ state' = [state EXCEPT ![k] = MarkAsIndexed(@, Shard, now')]
              /\ tagged' = (tagged \ {k}) \union ({k} \intersect member)
              /\ DisturbOthers(r)
           \/ /\ decision.desired = Removed
              /\ state' = [state EXCEPT ![k] = MarkAsRemoved(@)]
              /\ tagged' = tagged \ {k}
              /\ DisturbOthers(r)
              /\ UNCHANGED now
           \/ /\ decision.desired = Skipped
              /\ UNCHANGED <<now, state, tagged, disturbed>>
        /\ Succeed(r, k)
        /\ UNCHANGED <<videoAt, failures>>

\* The record fails: the task reports it and succeeds.
FailRecord(r, k) ==
    /\ k \in Current(r) \intersect Record
    /\ Fail
    /\ state' = [state EXCEPT ![k] = MarkAsFailed(@)]
    /\ Succeed(r, k)
    /\ UNCHANGED <<now, tagged, videoAt, cached>>

\* index_videos_batch_in_algolia: no state row, no staleness of its own.
RunVideo(r, v) ==
    /\ v \in Current(r) \intersect Video
    /\ now' = now + 1
    /\ videoAt' = [videoAt EXCEPT ![v] = now']
    /\ DisturbOthers(r)
    /\ Succeed(r, v)
    /\ UNCHANGED <<state, tagged, cached, failures>>

\* A task raises until its retries are used up.
BreakCanvas(r, i) ==
    /\ i \in Current(r)
    /\ Fail
    /\ Break(r, i)
    /\ UNCHANGED <<now, index, cached>>

-----------------------------------------------------------------------------

WorkOn(r) ==
    \/ SendCanvas(r)
    \/ \E k \in Record : RunRecord(r, k) \/ FailRecord(r, k)
    \/ \E v \in Video : RunVideo(r, v)
    \/ \E i \in Item : BreakCanvas(r, i)

DispatchNext ==
    \/ \E k \in Record : Touch(k) \/ JoinOrLeave(k) \/ ChangeIndexable(k)
    \/ ExpireMappings
    \/ \E r \in Run : (\E q \in Request : Begin(r, q)) \/ WorkOn(r)

\* Cron starts the stragglers run again and again, workers take what is queued, and
\* the cache entry times out.
Fairness ==
    /\ WF_dispatchVars(ExpireMappings)
    /\ \A r \in Run : WF_dispatchVars(Begin(r, Stragglers)) /\ WF_dispatchVars(WorkOn(r))

DispatchSpec == DispatchInit /\ [][DispatchNext]_dispatchVars /\ Fairness

-----------------------------------------------------------------------------
(* Properties.                                                             *)

Fresh(k) == ~ IsStale(state[k], modified[k]) /\ ~ state[k].failed

Ends(r) == stage[r] = "running" /\ stage'[r] = "idle"

\* The records a dispatch answers for.
Scope(r) == IF request[r].kind = "query" THEN member
            ELSE {k \in mappings[r] : TypeOf(k) \in request[r].types}

\* A dispatch that nothing disturbs leaves no record of its scope behind: each is fresh,
\* without a failure, or out of the index (_get_keys_to_dispatch_by_type, the canvas).
PassFreshens ==
    [][\A r \in Run :
          Ends(r) /\ ~ disturbed'[r] /\ request[r].includeFailed
          => \A k \in Scope(r) : Fresh(k)' \/ state'[k].removed]_dispatchVars

\* A forced full dispatch that nothing disturbs brings Algolia level with the database,
\* whatever was stale, cached or half done before it: every indexable record is fresh and
\* has the facets of its membership, every parent was indexed after its children, and
\* every video after the last change of its course (invalidate, then the chords).
ForcedPassSyncs ==
    [][\A r \in Run :
          Ends(r) /\ ~ disturbed'[r] /\ request[r] = [Stragglers EXCEPT !.force = TRUE]
          => /\ \A k \in eligible :
                   /\ Fresh(k)' /\ ~ state'[k].removed
                   /\ k \in tagged' <=> k \in member
                   /\ ~ HasNewerChild(k)'
             /\ \A v \in Video : videoAt'[v] > modified[ParentCourse[v]]]_dispatchVars

\* Whatever fails, is cut short or is read from a stale cache, the stragglers cron in the
\* end leaves every indexable record fresh and without a failure.
EventuallyFresh == <>[](\A k \in eligible : Fresh(k))

(* What the documentation says and the code does not do: TLC refutes each.  *)

\* docs/decisions/0013: "child-staleness propagation now works in a single dispatcher
\* pass".  The dispatcher selects the parent, and the batch task, which compares the
\* parent's own modified only, skips it.
ParentsCatchUp == \A k \in Record : HasNewerChild(k) ~> ~ HasNewerChild(k)

\* dispatch_algolia_indexing_for_catalog_query: a new member that "doesn't look stale
\* based on index time, is also reindexed so that the membership facets of such Algolia
\* records are updated".  It is dispatched and then skipped.
CatalogPassTags ==
    [][\A r \in Run :
          Ends(r) /\ ~ disturbed'[r] /\ request[r].kind = "query"
          => \A k \in member \intersect eligible : k \in tagged']_dispatchVars
=============================================================================
