------------------------------ MODULE IndexBatch ------------------------------
(***************************************************************************)
(* The batch indexing task of apps/search/tasks.py (_index_content_batch   *)
(* behind index_courses/programs/pathways_batch_in_algolia), run by Celery *)
(* workers against                                                         *)
(*   - the ContentMetadata table, which the ingest keeps changing;         *)
(*   - the ContentMetadataIndexingState rows;                              *)
(*   - the Algolia index;                                                  *)
(*   - the cached indexing mappings (apps/search/indexing_mappings.py).    *)
(*                                                                         *)
(* A task takes three passes over its keys: resolve a decision for each,   *)
(* execute the saves and then the deletes (in bulk, and record by record   *)
(* when the bulk call raises), finalize the state rows.  A request to      *)
(* Algolia carries one object, the finest chunking there is; a larger      *)
(* ALGOLIA_INDEXING_CHUNK_SIZE allows fewer of the same interleavings.  A  *)
(* request that Algolia accepts is applied (docs/decisions/0012).          *)
(***************************************************************************)
EXTENDS IndexingDecision

CONSTANTS
    Key,              \* content keys of one content type
    Task,             \* the worker slots batch tasks run in
    MaxClock,         \* bound on the number of changes to content
    MaxRedeliveries,  \* bound on how often one message is delivered again
    Overlap           \* may two live tasks hold the same key?

ASSUME MaxClockAssumption == MaxClock \in Nat \ {0}
ASSUME MaxRedeliveriesAssumption == MaxRedeliveries \in Nat
ASSUME OverlapAssumption == Overlap \in BOOLEAN

VARIABLES
    clock,       \* advances with every change of content
    content,     \* the ContentMetadata rows and what can be generated from them
    row,         \* the state row of each key
    hosted,      \* the revision of each shard Algolia hosts, or Never
    cache,       \* {} or {the indexable keys of the cached mappings}
    phase,       \* how far each task is
    job,         \* its arguments: the keys and the force flag
    deliveries,  \* how often its message was delivered again
    indexable,   \* the indexable keys of the mappings it read
    seen,        \* the ContentMetadata.modified it read for each key
    built,       \* the objects it generated for each key
    plan,        \* its decision for each key
    pending,     \* keys it has still to resolve or finalize
    todo         \* objects it has still to save or delete

world  == <<clock, content>>
store  == <<row, hosted>>
reads  == <<job, deliveries, indexable, seen, built>>
locals == <<phase, job, deliveries, indexable, seen, built, plan, pending, todo>>
vars   == <<clock, content, row, hosted, cache, phase, job, deliveries,
            indexable, seen, built, plan, pending, todo>>

Saving     == {"saving", "savingEach"}
Deleting   == {"deleting", "deletingEach"}
Phase      == {"idle", "queued", "storing", "mapped", "loaded", "resolving",
               "finalizing"} \union Saving \union Deleting

Live(t)    == phase[t] # "idle"
Running(t) == phase[t] \notin {"idle", "queued"}

Content == [modified : Nat, rev : Nat, indexable : BOOLEAN, shards : SUBSET Shard]
Objects == [rev : Nat, shards : SUBSET Shard]
Job     == [keys : SUBSET Key, force : BOOLEAN]

NoJob     == [keys |-> {}, force |-> FALSE]
Unread    == [k \in Key |-> Never]
NoObjects == [k \in Key |-> [rev |-> Never, shards |-> {}]]
NoPlan    == [k \in Key |-> Decide(Skipped, {})]

\* The types of the content, the rows, the index and the tasks.
TypeOK ==
    /\ clock \in Nat
    /\ content \in [Key -> Content]
    /\ row \in [Key -> Row]
    /\ hosted \in [Key -> [Shard -> Nat]]
    /\ cache \in SUBSET SUBSET Key
    /\ phase \in [Task -> Phase]
    /\ job \in [Task -> Job]
    /\ deliveries \in [Task -> Nat]
    /\ indexable \in [Task -> SUBSET Key]
    /\ seen \in [Task -> [Key -> Nat]]
    /\ built \in [Task -> [Key -> Objects]]
    /\ plan \in [Task -> [Key -> Decision]]
    /\ pending \in [Task -> SUBSET Key]
    /\ todo \in [Task -> SUBSET (Key \X Shard)]

Exists(k)      == content[k].modified # Never
Hosted(k)      == {s \in Shard : hosted[k][s] # Never}
IndexableNow   == {k \in Key : Exists(k) /\ content[k].indexable}

\* Algolia may already host shards a legacy reindex wrote; no row records them.
Init ==
    /\ clock = 1
    /\ content \in [Key -> {c \in [modified : {Never, 1}, rev : {1}, indexable : BOOLEAN,
                                   shards : SUBSET Shard] :
                              c.modified = Never => ~ c.indexable /\ c.shards = {}}]
    /\ row = [k \in Key |-> EmptyRow]
    /\ hosted \in [Key -> [Shard -> {Never, 1}]]
    /\ cache = {}
    /\ phase = [t \in Task |-> "idle"]
    /\ job = [t \in Task |-> NoJob]
    /\ deliveries = [t \in Task |-> 0]
    /\ indexable = [t \in Task |-> {}]
    /\ seen = [t \in Task |-> Unread]
    /\ built = [t \in Task |-> NoObjects]
    /\ plan = [t \in Task |-> NoPlan]
    /\ pending = [t \in Task |-> {}]
    /\ todo = [t \in Task |-> {}]

-----------------------------------------------------------------------------
(* The world around the tasks.                                             *)

\* The ingest creates or updates a row: modified advances.
EditContent(k, ix, shards) ==
    /\ clock < MaxClock
    /\ clock' = clock + 1
    /\ content' = [content EXCEPT ![k] = [modified |-> clock', rev |-> clock',
                                          indexable |-> ix, shards |-> shards]]
    /\ UNCHANGED <<row, hosted, cache, locals>>

\* Catalog queries gain or lose the record: the objects generated from it change,
\* ContentMetadata.modified does not.
ChangeMembership(k, shards) ==
    /\ clock < MaxClock
    /\ Exists(k)
    /\ clock' = clock + 1
    /\ content' = [content EXCEPT ![k].rev = clock', ![k].shards = shards]
    /\ UNCHANGED <<row, hosted, cache, locals>>

\* The enroll-by date passes: the record stops being indexable, nothing is written.
DeadlinePasses(k) ==
    /\ content[k].indexable
    /\ content' = [content EXCEPT ![k].indexable = FALSE]
    /\ UNCHANGED <<clock, row, hosted, cache, locals>>

\* invalidate_indexing_mappings_cache, or the cache entry times out.
DropMappings ==
    /\ cache # {}
    /\ cache' = {}
    /\ UNCHANGED <<world, store, locals>>

-----------------------------------------------------------------------------
(* A task is sent, delivered, interrupted.                                 *)

Enqueue(t, keys, force) ==
    /\ phase[t] = "idle"
    /\ keys # {}
    /\ Overlap \/ \A u \in Task : Live(u) => keys \intersect job[u].keys = {}
    /\ job' = [job EXCEPT ![t] = [keys |-> keys, force |-> force]]
    /\ phase' = [phase EXCEPT ![t] = "queued"]
    /\ UNCHANGED <<world, store, cache, deliveries, indexable, seen, built, plan,
                   pending, todo>>

Forget(t) ==
    /\ indexable' = [indexable EXCEPT ![t] = {}]
    /\ seen' = [seen EXCEPT ![t] = Unread]
    /\ built' = [built EXCEPT ![t] = NoObjects]
    /\ plan' = [plan EXCEPT ![t] = NoPlan]
    /\ pending' = [pending EXCEPT ![t] = {}]
    /\ todo' = [todo EXCEPT ![t] = {}]

\* The worker dies (acks_late, reject_on_worker_lost) or an autoretry_for exception
\* escapes the task: the same message is delivered again.
Redeliver(t) ==
    /\ Running(t)
    /\ deliveries[t] < MaxRedeliveries
    /\ deliveries' = [deliveries EXCEPT ![t] = @ + 1]
    /\ phase' = [phase EXCEPT ![t] = "queued"]
    /\ Forget(t)
    /\ UNCHANGED <<world, store, cache, job>>

LeaveSlot(t) ==
    /\ phase' = [phase EXCEPT ![t] = "idle"]
    /\ job' = [job EXCEPT ![t] = NoJob]
    /\ deliveries' = [deliveries EXCEPT ![t] = 0]
    /\ Forget(t)
    /\ UNCHANGED <<world, store, cache>>

\* The task fails for good: retries are used up, or the exception is not one of
\* autoretry_for (a time limit, a missing index).
Abort(t) == Running(t) /\ LeaveSlot(t)

-----------------------------------------------------------------------------
(* What a task reads.                                                      *)

\* get_indexing_mappings, cache hit.
HitMappings(t) ==
    /\ phase[t] = "queued"
    /\ \E mappings \in cache : indexable' = [indexable EXCEPT ![t] = mappings]
    /\ phase' = [phase EXCEPT ![t] = "mapped"]
    /\ UNCHANGED <<world, store, cache, job, deliveries, seen, built, plan, pending, todo>>

\* get_indexing_mappings, cache miss: compute, then set, with nothing held between.
ComputeMappings(t) ==
    /\ phase[t] = "queued"
    /\ cache = {}
    /\ indexable' = [indexable EXCEPT ![t] = IndexableNow]
    /\ phase' = [phase EXCEPT ![t] = "storing"]
    /\ UNCHANGED <<world, store, cache, job, deliveries, seen, built, plan, pending, todo>>

StoreMappings(t) ==
    /\ phase[t] = "storing"
    /\ cache' = {indexable[t]}
    /\ phase' = [phase EXCEPT ![t] = "mapped"]
    /\ UNCHANGED <<world, store, reads, plan, pending, todo>>

\* content_by_key: the rows, with the modified the staleness check will use.
LoadContent(t) ==
    /\ phase[t] = "mapped"
    /\ seen' = [seen EXCEPT ![t] = [k \in Key |-> IF k \in job[t].keys
                                                  THEN content[k].modified ELSE Never]]
    /\ phase' = [phase EXCEPT ![t] = "loaded"]
    /\ UNCHANGED <<world, store, cache, job, deliveries, indexable, built, plan,
                   pending, todo>>

\* _build_objects_by_content_key: a second read of the content.
BuildObjects(t) ==
    /\ phase[t] = "loaded"
    /\ built' = [built EXCEPT ![t] =
            [k \in Key |-> IF k \in job[t].keys
                           THEN [rev |-> content[k].rev, shards |-> content[k].shards]
                           ELSE [rev |-> Never, shards |-> {}]]]
    /\ pending' = [pending EXCEPT ![t] = job[t].keys]
    /\ phase' = [phase EXCEPT ![t] = "resolving"]
    /\ UNCHANGED <<world, store, cache, job, deliveries, indexable, seen, plan, todo>>

-----------------------------------------------------------------------------
(* Pass 1: resolve.                                                        *)

SetPlan(t, k, decision) == plan' = [plan EXCEPT ![t][k] = decision]

\* The row is read, and Algolia browsed if need be, when the record's turn comes.
Resolve(t, k) ==
    /\ phase[t] = "resolving"
    /\ k \in pending[t]
    /\ seen[t][k] # Never
    /\ SetPlan(t, k, ResolveDecision(row[k], seen[t][k], k \in indexable[t],
                                     built[t][k].shards, Hosted(k), job[t].force))
    /\ pending' = [pending EXCEPT ![t] = @ \ {k}]
    /\ UNCHANGED <<world, store, cache, phase, reads, todo>>

\* No ContentMetadata row, or the row lookup or the browse raises.
ResolveFails(t, k) ==
    /\ phase[t] = "resolving"
    /\ k \in pending[t]
    /\ SetPlan(t, k, Decide(Failed, {}))
    /\ pending' = [pending EXCEPT ![t] = @ \ {k}]
    /\ UNCHANGED <<world, store, cache, phase, reads, todo>>

-----------------------------------------------------------------------------
(* Pass 2: execute the saves, then the deletes.                            *)

ObjectsToSave(t) ==
    {o \in Key \X Shard : /\ o[1] \in job[t].keys
                          /\ plan[t][o[1]].desired = Indexed
                          /\ o[2] \in built[t][o[1]].shards}

ObjectsToDelete(t) ==
    {o \in Key \X Shard : /\ o[1] \in job[t].keys
                          /\ plan[t][o[1]].outcome \in {Indexed, Removed}
                          /\ o[2] \in plan[t][o[1]].del}

BeginSaves(t) ==
    /\ phase[t] = "resolving"
    /\ pending[t] = {}
    /\ todo' = [todo EXCEPT ![t] = ObjectsToSave(t)]
    /\ phase' = [phase EXCEPT ![t] = "saving"]
    /\ UNCHANGED <<world, store, cache, reads, plan, pending>>

SaveObject(t, o) ==
    /\ phase[t] \in Saving
    /\ o \in todo[t]
    /\ hosted' = [hosted EXCEPT ![o[1]][o[2]] = built[t][o[1]].rev]
    /\ todo' = [todo EXCEPT ![t] = @ \ {o}]
    /\ UNCHANGED <<world, row, cache, phase, reads, plan, pending>>

\* save_objects_batch raises for the batch: every record is saved again on its own.
BulkSaveRaises(t) ==
    /\ phase[t] = "saving"
    /\ todo[t] # {}
    /\ todo' = [todo EXCEPT ![t] = ObjectsToSave(t)]
    /\ phase' = [phase EXCEPT ![t] = "savingEach"]
    /\ UNCHANGED <<world, store, cache, reads, plan, pending>>

\* A per-record retry raises: the record gives up and its outcome becomes FAILED.
GiveUpRecord_KeepsOutcome(t, k) ==
    /\ \E s \in Shard : <<k, s>> \in todo[t]
    /\ todo' = [todo EXCEPT ![t] = {o \in @ : o[1] # k}]
    /\ UNCHANGED <<world, store, cache, phase, reads, plan, pending>>

GiveUpRecord(t, k) ==
    /\ \E s \in Shard : <<k, s>> \in todo[t]
    /\ plan' = [plan EXCEPT ![t][k].outcome = Failed]
    /\ todo' = [todo EXCEPT ![t] = {o \in @ : o[1] # k}]
    /\ UNCHANGED <<world, store, cache, phase, reads, pending>>

RecordSaveRaises(t, k)   == phase[t] = "savingEach" /\ GiveUpRecord(t, k)
RecordDeleteRaises(t, k) == phase[t] = "deletingEach" /\ GiveUpRecord(t, k)

BeginDeletes(t) ==
    /\ phase[t] \in Saving
    /\ todo[t] = {}
    /\ todo' = [todo EXCEPT ![t] = ObjectsToDelete(t)]
    /\ phase' = [phase EXCEPT ![t] = "deleting"]
    /\ UNCHANGED <<world, store, cache, reads, plan, pending>>

DeleteObject(t, o) ==
    /\ phase[t] \in Deleting
    /\ o \in todo[t]
    /\ hosted' = [hosted EXCEPT ![o[1]][o[2]] = Never]
    /\ todo' = [todo EXCEPT ![t] = @ \ {o}]
    /\ UNCHANGED <<world, row, cache, phase, reads, plan, pending>>

BulkDeleteRaises(t) ==
    /\ phase[t] = "deleting"
    /\ todo[t] # {}
    /\ todo' = [todo EXCEPT ![t] = ObjectsToDelete(t)]
    /\ phase' = [phase EXCEPT ![t] = "deletingEach"]
    /\ UNCHANGED <<world, store, cache, reads, plan, pending>>

BeginFinalize(t) ==
    /\ phase[t] \in Deleting
    /\ todo[t] = {}
    /\ pending' = [pending EXCEPT ![t] = job[t].keys]
    /\ phase' = [phase EXCEPT ![t] = "finalizing"]
    /\ UNCHANGED <<world, store, cache, reads, plan, todo>>

-----------------------------------------------------------------------------
(* Pass 3: finalize.                                                       *)

\* Dispatches on what pass 1 wanted instead of on what pass 2 achieved.
FinalRow_DesiredOutcome(t, k) ==
    LET outcome == plan[t][k].desired
    IN  CASE outcome = Indexed -> MarkAsIndexed(row[k], built[t][k].shards, clock)
          [] outcome = Removed -> MarkAsRemoved(row[k])
          [] outcome = Failed /\ seen[t][k] # Never -> MarkAsFailed(row[k])
          [] OTHER -> row[k]

\* _finalize_decision: the row the decision's actual outcome leaves.
FinalRow(t, k) ==
    LET outcome == plan[t][k].outcome
    IN  CASE outcome = Indexed -> MarkAsIndexed(row[k], built[t][k].shards, clock)
          [] outcome = Removed -> MarkAsRemoved(row[k])
          [] outcome = Failed /\ seen[t][k] # Never -> MarkAsFailed(row[k])
          [] OTHER -> row[k]

Finalize(t, k) ==
    /\ phase[t] = "finalizing"
    /\ k \in pending[t]
    /\ row' = [row EXCEPT ![k] = FinalRow(t, k)]
    /\ pending' = [pending EXCEPT ![t] = @ \ {k}]
    /\ UNCHANGED <<world, hosted, cache, phase, reads, plan, todo>>

\* The row update raises: the record is counted as failed, its row stays.
FinalizeRaises(t, k) ==
    /\ phase[t] = "finalizing"
    /\ k \in pending[t]
    /\ plan[t][k].outcome # Skipped
    /\ pending' = [pending EXCEPT ![t] = @ \ {k}]
    /\ UNCHANGED <<world, store, cache, phase, reads, plan, todo>>

Finish(t) ==
    /\ phase[t] = "finalizing"
    /\ pending[t] = {}
    /\ LeaveSlot(t)

-----------------------------------------------------------------------------

World ==
    \/ \E k \in Key :
        \/ \E ix \in BOOLEAN, shards \in SUBSET Shard : EditContent(k, ix, shards)
        \/ \E shards \in SUBSET Shard : ChangeMembership(k, shards)
        \/ DeadlinePasses(k)
    \/ DropMappings

Send(t) == \E keys \in SUBSET Key, force \in BOOLEAN : Enqueue(t, keys, force)

Work(t) ==
    \/ HitMappings(t) \/ ComputeMappings(t) \/ StoreMappings(t)
    \/ LoadContent(t) \/ BuildObjects(t)
    \/ BeginSaves(t) \/ BulkSaveRaises(t)
    \/ BeginDeletes(t) \/ BulkDeleteRaises(t)
    \/ BeginFinalize(t) \/ Finish(t)
    \/ \E o \in Key \X Shard : SaveObject(t, o) \/ DeleteObject(t, o)
    \/ \E k \in Key :
        \/ Resolve(t, k) \/ ResolveFails(t, k)
        \/ RecordSaveRaises(t, k) \/ RecordDeleteRaises(t, k)
        \/ Finalize(t, k) \/ FinalizeRaises(t, k)

Next == World \/ \E t \in Task : Send(t) \/ Work(t) \/ Redeliver(t) \/ Abort(t)

Spec == Init /\ [][Next]_vars

-----------------------------------------------------------------------------
(* Properties.                                                             *)

\* Keys a task is taking out of the index.
Withdrawing ==
    {k \in Key : \E t \in Task : k \in job[t].keys /\ plan[t][k].outcome = Removed}

Contract == INSTANCE IndexContract
    WITH Time <- 1..MaxClock,
         hosted <- [k \in Key |-> Hosted(k)],
         withdrawing <- Withdrawing

\* The batch task, with its bulk calls, fallbacks, redeliveries and aborts, does
\* what docs/decisions/0012 promises of it (tasks.py, _index_content_batch).
ImplementsContract == Contract!CSpec

\* A record that Algolia hosts disappears from it only when a task decided to
\* remove it: replacing its shards, whatever fails or is redelivered on the way,
\* never leaves it without any (_execute_saves before _execute_deletes).
NeverDark ==
    [][\A k \in Key : Hosted(k) # {} /\ Hosted(k)' = {} => k \in Withdrawing]_vars

\* While a task deletes the orphans of a record, and until it has stamped the row,
\* every object it built for the record is hosted, at the revision it built: what
\* the bulk save lost and the per-record save did not repair is FAILED by then.
SavedBeforeDeleted ==
    \A t \in Task, k \in Key :
        /\ phase[t] \in Deleting \union {"finalizing"}
        /\ k \in job[t].keys
        /\ plan[t][k].outcome = Indexed
        => /\ built[t][k].shards # {}
           /\ \A s \in built[t][k].shards : hosted[k][s] = built[t][k].rev

(* What the documentation says and the code does not do: TLC refutes each.  *)

Settled(k) == \A t \in Task : k \notin job[t].keys

\* ContentMetadataIndexingState.is_stale is "True when the ContentMetadata has been
\* modified since it was last indexed": a settled record that does not look stale is
\* hosted as it was at its last modification or later.  The task reads the content
\* when it starts and stamps last_indexed_at with the time it ends.
FreshMeansCurrent ==
    \A k \in Key :
        /\ Settled(k) /\ content[k].indexable
        /\ ~ IsStale(row[k], content[k].modified) /\ ~ row[k].failed /\ ~ row[k].removed
        => \A s \in row[k].ids : hosted[k][s] >= content[k].modified

\* docs/decisions/0012: when a record is INDEXED, "new objects are upserted, orphans
\* deleted": the index hosts no shard the row does not record.  A task cut short after
\* some of its saves leaves shards no row records, and the next task trusts the row.
IndexedLeavesNoOrphans ==
    [][\A t \in Task, k \in Key :
          Finalize(t, k) /\ plan[t][k].outcome = Indexed => Hosted(k) \subseteq row'[k].ids]_vars

\* docs/algolia-reindexing/tech-spec.md: "concurrent dispatcher runs are harmless".  When
\* two tasks hold the same record and read it at different times, each takes the shards
\* the other has just saved for orphans: a task that indexes a record can delete the
\* last shard of it.
ConcurrentRunsHarmless ==
    [][\A t \in Task, k \in Key, s \in Shard :
          DeleteObject(t, <<k, s>>) /\ plan[t][k].outcome = Indexed => Hosted(k)' # {}]_vars
=============================================================================
