----------------------------- MODULE ContentIngest -----------------------------
(***************************************************************************)
(* update_contentmetadata_from_discovery (apps/catalog/models.py): the     *)
(* body of update_catalog_metadata_task.  An update reads what course-     *)
(* discovery lists for a query page by page (api_client/discovery.py),     *)
(* updates and creates ContentMetadata rows in batches, each under the     *)
(* locks of a transaction of its own, retries one by one the entries of    *)
(* the batches that hit a deadlock, and at last replaces the membership    *)
(* of the query.                                                           *)
(*                                                                         *)
(* Updates run side by side: different queries share content, and forced   *)
(* updates of one query overlap.  An entry of a payload is its content key *)
(* and the version Discovery had of it; a row is the version stored.  Keys *)
(* are numbers in Discovery's order (aggregation_key, start).              *)
(***************************************************************************)
EXTENDS Integers, FiniteSets, Sequences, Ordering

CONSTANTS
    Key, Course, Disallowed,   \* content keys; the courses; what _should_allow_metadata refuses
    Query,         \* catalog queries
    Forced,        \* query -> keys it force-includes (enterprise_force_include_aggregation_keys)
    Update,        \* runs of update_catalog_metadata_task
    Request,       \* the query and the dry_run flag each may be sent with
    PageSize, MaxRetries,      \* of the requests to Discovery
    BatchSize,     \* SELECT_EXISTING_CONTENT_METADATA_BATCH_SIZE
    RetryMax,      \* CATALOG_CONTENT_METADATA_RETRY_MAX
    Floor,         \* CATALOG_CONTENT_INCLUSION_GUARDRAIL_CONSIDERATION_FLOOR
    DeltaNum, DeltaDen,        \* CATALOG_CONTENT_INCLUSION_GUARDRAIL_ALLOWABLE_DELTA
    MaxVersion, MaxChanges,    \* bounds on Discovery: versions of a key, changes of its lists
    InitialRow, InitialListed, InitialMember

ASSUME KeyAssumption == Key \subseteq Nat /\ IsFiniteSet(Key) /\ Course \subseteq Key
ASSUME SizeAssumption == /\ PageSize \in Nat \ {0} /\ BatchSize \in Nat \ {0}
                         /\ MaxRetries \in Nat /\ RetryMax \in Nat
                         /\ MaxVersion \in Nat \ {0} /\ MaxChanges \in Nat
ASSUME GuardRailAssumption == Floor \in Nat /\ DeltaNum \in Nat /\ DeltaDen \in Nat \ {0}
ASSUME RequestAssumption == Request \in [Update -> SUBSET [query : Query, dry : BOOLEAN]]
ASSUME ForcedAssumption == Forced \in [Query -> SUBSET Key]
ASSUME InitialAssumption ==
    /\ InitialRow \in [Key -> 0..MaxVersion]
    /\ InitialListed \in [Query -> SUBSET Key]
    /\ InitialMember \in [Query -> SUBSET {k \in Key : InitialRow[k] # 0}]

VARIABLES
    listed, version,   \* Discovery: what it lists for each query, the version of each key
    row,               \* the version each ContentMetadata row holds, 0 if there is none
    member,            \* CatalogQuery.contentmetadata_set
    fresh,             \* the queries that were modified today
    job,               \* the updates
    changes            \* what MaxChanges counts

vars == <<listed, version, row, member, fresh, job, changes>>
discovery == <<listed, version, changes>>

Entry  == [key : Key, version : 1..MaxVersion]
Object == [key : Key, live : BOOLEAN]   \* live: its row exists in the database

Stage == {"idle", "fetch", "force", "update", "create", "done", "failed"}

\* payload: the entries read.  todo: those no batch has taken.  pending: those of the
\* batch that have no row.  kept: metadata_list.  Of no effect, for the properties:
\* lost, the keys of creation batches rolled back; cut, a page was an error; shifted,
\* the list has changed since the update began.
Job == [pc : Stage, query : Query, dry : BOOLEAN, page : Nat, attempts : Nat,
        payload : Seq(Entry), todo : Seq(Entry), pending : Seq(Entry), kept : Seq(Object),
        retry : Seq(Entry), retries : Nat, lost : SUBSET Key, cut : BOOLEAN, shifted : BOOLEAN]

NewJob(q, dry) ==
    [pc |-> "fetch", query |-> q, dry |-> dry, page |-> 1, attempts |-> 1,
     payload |-> <<>>, todo |-> <<>>, pending |-> <<>>, kept |-> <<>>,
     retry |-> <<>>, retries |-> 0, lost |-> {}, cut |-> FALSE, shifted |-> FALSE]

Idle(q, dry) == [NewJob(q, dry) EXCEPT !.pc = "idle"]

\* What the thread of an update held is gone when it ends.
Ended(j, pc) == [NewJob(j.query, j.dry) EXCEPT !.pc = pc]

Present == {k \in Key : row[k] # 0}
KeysOf(s) == {s[i].key : i \in DOMAIN s}
Live(s)   == {s[i].key : i \in {j \in DOMAIN s : s[j].live}}

\* Rows and members exist; a member is a member of rows the database holds (the
\* foreign key of the through table).
TypeOK ==
    /\ listed \in [Query -> SUBSET Key]
    /\ version \in [Key -> 1..MaxVersion]
    /\ row \in [Key -> 0..MaxVersion]
    /\ member \in [Query -> SUBSET Key]
    /\ fresh \in SUBSET Query
    /\ job \in [Update -> Job]
    /\ changes \in 0..MaxChanges

Init ==
    /\ listed = InitialListed
    /\ version = [k \in Key |-> 1]
    /\ row = InitialRow
    /\ member = InitialMember
    /\ fresh = Query
    /\ job \in [Update -> {Idle(q, dry) : q \in Query, dry \in BOOLEAN}]
    /\ \A u \in Update : [query |-> job[u].query, dry |-> job[u].dry] \in Request[u]
    /\ changes = 0

-----------------------------------------------------------------------------
(* Discovery and the calendar.                                             *)

\* What an update of q has read, or is reading, is no longer the list of q.
Shift(q) == job' = [u \in Update |->
                      IF job[u].pc \notin {"idle", "done", "failed"} /\ job[u].query = q
                      THEN [job[u] EXCEPT !.shifted = TRUE] ELSE job[u]]

ChangeList(q) ==
    /\ changes < MaxChanges
    /\ changes' = changes + 1
    /\ \E k \in Key : listed' = [listed EXCEPT ![q] = IF k \in @ THEN @ \ {k} ELSE @ \union {k}]
    /\ Shift(q)
    /\ UNCHANGED <<version, row, member, fresh>>

EditContent(k) ==
    /\ changes < MaxChanges /\ version[k] < MaxVersion
    /\ changes' = changes + 1
    /\ version' = [version EXCEPT ![k] = @ + 1]
    /\ UNCHANGED <<listed, row, member, fresh, job>>

Midnight ==
    /\ fresh # {}
    /\ fresh' = {}
    /\ UNCHANGED <<discovery, row, member, job>>

-----------------------------------------------------------------------------
(* Reading Discovery.                                                      *)

Becomes(u, j) == job' = [job EXCEPT ![u] = j]

Start(u) ==
    /\ job[u].pc = "idle"
    /\ Becomes(u, [job[u] EXCEPT !.pc = "fetch"])
    /\ UNCHANGED <<discovery, row, member, fresh>>

EntriesOf(s) == [i \in DOMAIN s |-> [key |-> s[i], version |-> version[s[i]]]]

PlaceIn(list, k) == Cardinality({j \in list : j <= k})

PageOf_LastMissed(list, n) ==
    {k \in list : (n - 1) * PageSize < PlaceIn(list, k) /\ PlaceIn(list, k) < n * PageSize}

\* The keys of a page are those whose place in the whole list falls on it.
PageOf(list, n) ==
    {k \in list : (n - 1) * PageSize < PlaceIn(list, k) /\ PlaceIn(list, k) <= n * PageSize}

Page(list, n) == EntriesOf(Ascending(PageOf(list, n)))

HasNext(list, n) == Cardinality(list) > n * PageSize

\* One request that is answered.
FetchPage(u) ==
    LET j == job[u]
        list == listed[j.query]
    IN  /\ j.pc = "fetch"
        /\ Becomes(u, [j EXCEPT !.payload = @ \o Page(list, j.page),
                                !.page = IF HasNext(list, @) THEN @ + 1 ELSE 1, !.attempts = 1,
                                !.pc = IF HasNext(list, j.page) THEN "fetch" ELSE "force"])
        /\ UNCHANGED <<discovery, row, member, fresh>>

\* A request that raises or is answered with an error status is made again, up to
\* MaxRetries times ...
FetchAgain(u) ==
    /\ job[u].pc = "fetch" /\ job[u].attempts <= MaxRetries
    /\ Becomes(u, [job[u] EXCEPT !.attempts = @ + 1])
    /\ UNCHANGED <<discovery, row, member, fresh>>

\* ... then an exception, or a body that is not JSON, fails the update ...
FetchRaises(u) ==
    /\ job[u].pc = "fetch" /\ job[u].attempts > MaxRetries
    /\ Becomes(u, Ended(job[u], "failed"))
    /\ UNCHANGED <<discovery, row, member, fresh>>

\* ... but the JSON body of an error status is returned as if it were a page, one
\* with no results and no next.
FetchErrorPage(u) ==
    /\ job[u].pc = "fetch" /\ job[u].attempts > MaxRetries
    /\ Becomes(u, [job[u] EXCEPT !.pc = "force", !.page = 1, !.attempts = 1, !.cut = TRUE])
    /\ UNCHANGED <<discovery, row, member, fresh>>

\* The courses the query force-includes.  get_courses catches every error and returns
\* what it has.  No entry at all ends the update.
FetchForced(u) ==
    LET j == job[u]
    IN  /\ j.pc = "force"
        /\ \E got \in SUBSET Forced[j.query] :
             LET all == j.payload \o EntriesOf(Ascending(got))
             IN  Becomes(u, IF all = <<>> THEN Ended(j, "done")
                            ELSE [j EXCEPT !.payload = all, !.todo = all, !.pc = "update",
                                           !.cut = @ \/ got # Forced[j.query]])
        /\ UNCHANGED <<discovery, row, member, fresh>>

-----------------------------------------------------------------------------
(* create_content_metadata.                                                *)

More(j) == j.todo # <<>> \/ (j.retry # <<>> /\ j.retries < RetryMax)

Allowed(e) == e.key \notin Disallowed

Drop(s, n) == SubSeq(s, n + 1, Len(s))
Take(s, n) == SubSeq(s, 1, IF n < Len(s) THEN n ELSE Len(s))

\* The batch at hand and the job without it: the next BatchSize entries or, in the
\* second pass, the first one of retry_list.
Batch(j) == IF j.todo # <<>> THEN Where(Take(j.todo, BatchSize), Allowed)
                             ELSE <<Head(j.retry)>>

Rest_Uncounted(j) == IF j.todo # <<>> THEN [j EXCEPT !.todo = Drop(@, BatchSize)]
                                      ELSE [j EXCEPT !.retry = Tail(@)]

Rest(j) == IF j.todo # <<>> THEN [j EXCEPT !.todo = Drop(@, BatchSize)]
                            ELSE [j EXCEPT !.retry = Tail(@), !.retries = @ + 1]

Exists(e) == row[e.key] # 0
Absent(e) == ~Exists(e)
Skip(e)   == e.key \in Course /\ row[e.key] = e.version
Updated(e) == Exists(e) /\ ~Skip(e)
Skipped(e) == Exists(e) /\ Skip(e)

Objects(s, live) == [i \in DOMAIN s |-> [key |-> s[i].key, live |-> live]]

Write_NextVersion(s) == [k \in Key |-> IF k \in KeysOf(s) THEN MaxVersion + 1 ELSE row[k]]

\* The rows with the entries of s written over them, the last one of a key last.
Write(s) == [k \in Key |->
               IF k \in KeysOf(s)
               THEN s[CHOOSE i \in DOMAIN s : /\ s[i].key = k
                                              /\ \A h \in DOMAIN s : s[h].key = k => h <= i].version
               ELSE row[k]]

UpdateBatch_SkippedForgotten(u) ==
    LET j == job[u]
        b == Batch(j)
        updated == Where(b, Updated)
        absent  == Where(b, Absent)
    IN  /\ j.pc = "update" /\ More(j)
        /\ row' = IF j.dry THEN row ELSE Write(updated)
        /\ Becomes(u, [Rest(j) EXCEPT !.kept = @ \o Objects(updated, TRUE), !.pending = absent,
                                      !.pc = IF absent = <<>> THEN "update" ELSE "create"])
        /\ UNCHANGED <<discovery, member, fresh>>

\* _execute_updates_existing_records_avoid_deadlock: one transaction with the rows of
\* the batch locked.  Skipped courses are kept like updated ones.
UpdateBatch(u) ==
    LET j == job[u]
        b == Batch(j)
        updated == Where(b, Updated)
        absent  == Where(b, Absent)
    IN  /\ j.pc = "update" /\ More(j)
        /\ row' = IF j.dry THEN row ELSE Write(updated)
        /\ Becomes(u, [Rest(j) EXCEPT
                         !.kept = @ \o Objects(updated, TRUE) \o Objects(Where(b, Skipped), TRUE),
                         !.pending = absent,
                         !.pc = IF absent = <<>> THEN "update" ELSE "create"])
        /\ UNCHANGED <<discovery, member, fresh>>

\* The transaction is a deadlock's victim: its entries go to retry_list.
BatchDeadlocks(u) ==
    LET j == job[u]
    IN  /\ j.pc = "update" /\ More(j)
        /\ Becomes(u, [Rest(j) EXCEPT !.retry = @ \o Batch(j)])
        /\ UNCHANGED <<discovery, row, member, fresh>>

Clash(s, i) == row[s[i].key] # 0 \/ \E h \in 1..(i - 1) : s[h].key = s[i].key

Create_AlwaysSaves(u) ==
    LET j == job[u]
        p == j.pending
    IN  /\ j.pc = "create"
        /\ \A i \in DOMAIN p : ~Clash(p, i)
        /\ row' = Write(p)
        /\ Becomes(u, [j EXCEPT !.kept = @ \o Objects(p, TRUE), !.pending = <<>>, !.pc = "update"])
        /\ UNCHANGED <<discovery, member, fresh>>

\* _create_new_content_metadata, a transaction of its own: the entries had no row when
\* the batch was updated.  A dry run builds the objects and saves none.
Create(u) ==
    LET j == job[u]
        p == j.pending
    IN  /\ j.pc = "create"
        /\ j.dry \/ \A i \in DOMAIN p : ~Clash(p, i)
        /\ row' = IF j.dry THEN row ELSE Write(p)
        /\ Becomes(u, [j EXCEPT !.kept = @ \o Objects(p, ~j.dry), !.pending = <<>>, !.pc = "update"])
        /\ UNCHANGED <<discovery, member, fresh>>

\* IntegrityError: the whole batch is rolled back, yet the objects created before the
\* clash stay in metadata_list.
CreateClashes(u) ==
    LET j == job[u]
        p == j.pending
    IN  /\ j.pc = "create" /\ ~j.dry
        /\ \E i \in DOMAIN p :
             /\ Clash(p, i) /\ \A h \in 1..(i - 1) : ~Clash(p, h)
             /\ Becomes(u, [j EXCEPT !.kept = @ \o Objects(Take(p, i - 1), FALSE),
                                     !.lost = @ \union KeysOf(p), !.pending = <<>>, !.pc = "update"])
        /\ UNCHANGED <<discovery, row, member, fresh>>

\* Any other database error is caught by nobody.
CreateRaises(u) ==
    /\ job[u].pc = "create" /\ ~job[u].dry
    /\ Becomes(u, Ended(job[u], "failed"))
    /\ UNCHANGED <<discovery, row, member, fresh>>

-----------------------------------------------------------------------------
(* associate_content_metadata_with_query.                                  *)

Distance(a, b) == IF a < b THEN b - a ELSE a - b

Blocked_NoSafeguard(j) ==
    LET old == Cardinality(member[j.query])
        new == Len(j.kept)
    IN  old > Floor /\ j.query \notin fresh /\ Distance(new, old) * DeltaDen > DeltaNum * old

\* _check_content_association_threshold: TRUE blocks the association.
Blocked(j) ==
    LET old == Cardinality(member[j.query])
        new == Len(j.kept)
    IN  \/ old > 0 /\ new = 0
        \/ /\ old > Floor /\ j.query \notin fresh
           /\ Distance(new, old) * DeltaDen > DeltaNum * old

Associate_RolledBackToo(u) ==
    LET j == job[u]
    IN  /\ j.pc = "update" /\ ~More(j)
        /\ member' = IF j.dry \/ Blocked(j) THEN member
                     ELSE [member EXCEPT ![j.query] = KeysOf(j.kept)]
        /\ Becomes(u, Ended(j, "done"))
        /\ UNCHANGED <<discovery, row, fresh>>

\* set(clear=True), one transaction.  The through rows are inserted ignoring errors, so
\* that an object without a row is dropped.
Associate(u) ==
    LET j == job[u]
    IN  /\ j.pc = "update" /\ ~More(j)
        /\ member' = IF j.dry \/ Blocked(j) THEN member
                     ELSE [member EXCEPT ![j.query] = Live(j.kept)]
        /\ Becomes(u, Ended(j, "done"))
        /\ UNCHANGED <<discovery, row, fresh>>

Run(u) ==
    \/ Start(u) \/ Associate(u)
    \/ FetchAgain(u) \/ FetchRaises(u) \/ FetchErrorPage(u) \/ FetchPage(u) \/ FetchForced(u)
    \/ BatchDeadlocks(u) \/ UpdateBatch(u)
    \/ CreateRaises(u) \/ CreateClashes(u) \/ Create(u)

Next ==
    \/ \E q \in Query : ChangeList(q)
    \/ \E k \in Key : EditContent(k)
    \/ Midnight
    \/ \E u \in Update : Run(u)

\* A worker that has started an update goes on with it: every step of it is the next
\* statement of one thread.
Spec == Init /\ [][Next]_vars /\ \A u \in Update : WF_vars(job[u].pc # "idle" /\ Run(u))

-----------------------------------------------------------------------------
(* Properties.                                                             *)

\* The keys the allowed entries of s are about.
AllowedKeys(s) == KeysOf(s) \ Disallowed

\* No entry is lost on the way from Discovery to the association: at every moment each
\* allowed key of the payload waits in a batch, in retry_list or for its creation, is in
\* metadata_list, or was in a creation batch rolled back by an IntegrityError.
Accounted ==
    \A u \in Update :
        job[u].pc \in {"update", "create"} =>
            AllowedKeys(job[u].payload) =
                AllowedKeys(job[u].todo) \union KeysOf(job[u].retry) \union KeysOf(job[u].pending)
                \union KeysOf(job[u].kept) \union job[u].lost

\* A query's members have rows, whatever transactions rolled back in between.
MembersExist == \A q \in Query : member[q] \subseteq Present

\* The guard rail keeps a query from losing all its members: only an update that lost a
\* creation batch to another one, and with it the rows of objects it still counts, can
\* empty a membership.
EmptiedByRollbackOnly ==
    [][\A q \in Query : member[q] # {} /\ member'[q] = {} =>
          \E u \in Update : job[u].query = q /\ job[u].lost # {}]_vars

\* A dry run logs rather than commits: no step of one changes a row or a membership.
DryRunWritesNothing ==
    [][\A u \in Update : job'[u] # job[u] /\ job[u].dry /\ job[u].pc \in {"update", "create"} =>
          UNCHANGED <<row, member>>]_vars

\* Content that Discovery lists all along leaves a query for no other reason than an
\* error taken for a page, a list that has changed since the update began, a batch lost to
\* a clash or an exhausted retry: paging, batching, skipping and retrying drop nothing.
DroppedForAReason ==
    [][\A q \in Query : \A k \in member[q] \ member'[q] :
          \E u \in Update :
             /\ job[u].query = q /\ job'[u].pc = "done"
             /\ \/ k \in Disallowed
                \/ job[u].cut \/ job[u].shifted
                \/ k \in job[u].lost \union KeysOf(job[u].retry)
                \/ k \notin listed[q] \union Forced[q]]_vars

\* An update ends however often Discovery fails it or a deadlock strikes it.
UpdatesEnd ==
    \A u \in Update : job[u].pc # "idle" ~> job[u].pc \in {"done", "failed"}

\* Refuted: the comment on the association.  It happens only with valid results of Discovery.
OnlyValidResults ==
    [][\A u \in Update : job[u].pc = "update" /\ job'[u].pc = "done" /\ job[u].cut =>
          member' = member]_vars

\* Refuted: the comment on the safeguard.  Never wipe out a catalog's associations entirely.
NeverWiped ==
    [][\A q \in Query : member[q] # {} => member'[q] # {}]_vars
=============================================================================
