------------------------------ MODULE MetadataSync ------------------------------
(***************************************************************************)
(* How the metadata tasks of apps/api/tasks.py are kept from running twice *)
(* (expiring_task_semaphore over the TaskResult rows) and what sends them: *)
(*   - the refresh endpoint of a catalog, a Celery chain of three tasks    *)
(*     (enterprise_catalog_refresh_data_from_discovery.py);                *)
(*   - the daily update_content_metadata command, which sends tasks, waits *)
(*     for their results and goes on;                                      *)
(*   - the update_full_content_metadata command, which sends one task.     *)
(*                                                                         *)
(* What the bodies of the tasks do is left out: they succeed, fail, or are *)
(* run again (an autoretry_for exception, a lost worker).  The age of a    *)
(* task is the time since its TaskResult row was created, which is when it *)
(* is sent.  The commands are modelled without --no-async.                 *)
(***************************************************************************)
EXTENDS Naturals, Sequences

CONSTANTS
    Query,         \* ids of catalog queries
    InUse,         \* those some catalog uses, as the command lists them
    Command,       \* runs of the update_content_metadata command
    Window,        \* the time_delta of the semaphore: an hour
    MaxRefreshes,  \* bound on the requests to the refresh endpoint
    MaxFullRuns,   \* bound on the runs of update_full_content_metadata
    MaxTroubles    \* bound on the tasks that fail or are run again

ASSUME InUseAssumption == InUse \in Seq(Query)
ASSUME WindowAssumption == Window \in Nat
ASSUME BoundAssumption == MaxRefreshes \in Nat /\ MaxFullRuns \in Nat /\ MaxTroubles \in Nat

VARIABLES
    tasks,      \* the tasks ever sent, in the order of their TaskResult rows
    stage,      \* how far each command is
    flags,      \* its force flag
    waiting,    \* the tasks whose results it is getting
    refreshes, fullRuns, troubles    \* what the bounds count

counters == <<refreshes, fullRuns, troubles>>
command  == <<stage, flags, waiting>>
vars     == <<tasks, stage, flags, waiting, refreshes, fullRuns, troubles>>

-----------------------------------------------------------------------------
(* Tasks and their TaskResult rows.                                        *)

Names == {"update_catalog", "update_full", "fetch_pathways", "fetch_courses",
          "dispatch", "dispatch_query"}

\* The keyword arguments as callers write them: none at all, force only, or force
\* and dry_run.  The semaphore compares their repr().
Kwargs == {"none", "force=False", "force=True", "force=False,dry_run=False",
           "force=True,dry_run=False"}

NoQuery == "no query"

Signature == [name : Names, query : Query \union {NoQuery}, kwargs : Kwargs]

Sig(name, kwargs) == [name |-> name, query |-> NoQuery, kwargs |-> kwargs]

SigFor(name, q, kwargs) == [name |-> name, query |-> q, kwargs |-> kwargs]

CommandKwargs(force) == IF force THEN "force=True,dry_run=False" ELSE "force=False,dry_run=False"

Forced(sig)  == sig.kwargs \in {"force=True", "force=True,dry_run=False"}

\* The tasks decorated with expiring_task_semaphore.
Guarded(sig) == sig.name \notin {"dispatch", "dispatch_query"}

\* sent: PENDING or RETRY.  checking, blocked and running: STARTED.
State == {"sent", "checking", "blocked", "running", "SUCCESS", "FAILURE", "REVOKED"}

Ready == {"SUCCESS", "FAILURE", "REVOKED"}

Ages == 0..(Window + 1)

Task == [sig : Signature, state : State, age : Ages, rest : Seq(Signature), refresh : Nat]

NewTask(sig, rest, refresh) ==
    [sig |-> sig, state |-> "sent", age |-> 0, rest |-> rest, refresh |-> refresh]

Tasks == 1..Len(tasks)

\* The types of the rows, the commands and the counters.
TypeOK ==
    /\ tasks \in Seq(Task)
    /\ stage \in [Command -> {"idle", "pathways", "courses", "queries", "full",
                              "dispatch", "done", "crashed"}]
    /\ flags \in [Command -> BOOLEAN]
    /\ waiting \in [Command -> Seq(Nat)]
    /\ refreshes \in Nat /\ fullRuns \in Nat /\ troubles \in Nat

Init ==
    /\ tasks = <<>>
    /\ stage = [c \in Command |-> "idle"]
    /\ flags = [c \in Command |-> FALSE]
    /\ waiting = [c \in Command |-> <<>>]
    /\ refreshes = 0 /\ fullRuns = 0 /\ troubles = 0

\* task_recently_run, of a task that is itself only named by its place in tasks.
RecentlyRun_SuccessesOnly(sig, self) ==
    \E u \in Tasks \ {self} :
        tasks[u].sig = sig /\ tasks[u].age <= Window /\ tasks[u].state = "SUCCESS"

RecentlyRun(sig, self) ==
    \E u \in Tasks \ {self} : /\ tasks[u].sig = sig
                              /\ tasks[u].age <= Window
                              /\ tasks[u].state \notin {"FAILURE", "REVOKED"}

-----------------------------------------------------------------------------
(* Workers.                                                                *)

SetState(t, state) == tasks' = [tasks EXCEPT ![t].state = state]

\* A worker takes the message; track_started.
Start(t) ==
    /\ tasks[t].state = "sent"
    /\ SetState(t, IF Guarded(tasks[t].sig) THEN "checking" ELSE "running")
    /\ UNCHANGED <<command, counters>>

\* The query of the semaphore.
Check(t) ==
    /\ tasks[t].state = "checking"
    /\ SetState(t, IF ~ Forced(tasks[t].sig) /\ RecentlyRun(tasks[t].sig, t)
                   THEN "blocked" ELSE "running")
    /\ UNCHANGED <<command, counters>>

\* The message that sends the next task of t's chain, if there is one.
Rest(t) == IF tasks[t].rest = <<>> THEN <<>>
           ELSE <<NewTask(Head(tasks[t].rest), Tail(tasks[t].rest), tasks[t].refresh)>>

\* Leaves the row to Celery, which has a state of its own for an ignored task.
Revoke_Ignored(t) ==
    /\ tasks[t].state = "blocked"
    /\ SetState(t, "IGNORED")
    /\ UNCHANGED <<command, counters>>

\* Returns where it should raise: the chain goes on.
Revoke_Returns(t) ==
    /\ tasks[t].state = "blocked"
    /\ tasks' = [tasks EXCEPT ![t].state = "REVOKED"] \o Rest(t)
    /\ UNCHANGED <<command, counters>>

\* update_state(REVOKED), then TaskRecentlyRunError: Celery ignores the task, and
\* the rest of its chain with it.
Revoke(t) ==
    /\ tasks[t].state = "blocked"
    /\ SetState(t, "REVOKED")
    /\ UNCHANGED <<command, counters>>

\* Stores the result and forgets to send the next task of the chain.
Succeed_ChainDropped(t) ==
    /\ tasks[t].state = "running"
    /\ SetState(t, "SUCCESS")
    /\ UNCHANGED <<command, counters>>

\* The body returns; the next task of its chain is sent.
Succeed(t) ==
    /\ tasks[t].state = "running"
    /\ tasks' = [tasks EXCEPT ![t].state = "SUCCESS"] \o Rest(t)
    /\ UNCHANGED <<command, counters>>

Trouble ==
    /\ troubles < MaxTroubles
    /\ troubles' = troubles + 1
    /\ UNCHANGED <<command, refreshes, fullRuns>>

\* The body raises for good, or runs into the time limit.
Fail(t) ==
    /\ tasks[t].state = "running"
    /\ Trouble
    /\ SetState(t, "FAILURE")

\* The body raises one of autoretry_for, or the worker is lost: the message is
\* delivered again.
RunAgain(t) ==
    /\ tasks[t].state \in {"checking", "blocked", "running"}
    /\ Trouble
    /\ SetState(t, "sent")

Older(task) == [task EXCEPT !.age = IF @ <= Window THEN @ + 1 ELSE @]

Tick ==
    /\ \E t \in Tasks : tasks[t].age <= Window
    /\ tasks' = [t \in Tasks |-> Older(tasks[t])]
    /\ UNCHANGED <<command, counters>>

-----------------------------------------------------------------------------
(* The refresh endpoint and the one-task command.                          *)

\* EnterpriseCatalogRefreshDataFromDiscovery.post
Refresh(q) ==
    /\ refreshes < MaxRefreshes
    /\ refreshes' = refreshes + 1
    /\ tasks' = Append(tasks, NewTask(SigFor("update_catalog", q, "none"),
                                      <<Sig("update_full", "none"),
                                        SigFor("dispatch_query", q, "none")>>,
                                      refreshes'))
    /\ UNCHANGED <<command, fullRuns, troubles>>

\* The update_full_content_metadata command.
UpdateFull(force) ==
    /\ fullRuns < MaxFullRuns
    /\ fullRuns' = fullRuns + 1
    /\ tasks' = Append(tasks, NewTask(Sig("update_full", IF force THEN "force=True"
                                                         ELSE "force=False"), <<>>, 0))
    /\ UNCHANGED <<command, refreshes, troubles>>

-----------------------------------------------------------------------------
(* update_content_metadata.                                                *)

\* Sends tasks and waits for their results.
SendAndWait(c, next, sigs) ==
    /\ tasks' = tasks \o [i \in 1..Len(sigs) |-> NewTask(sigs[i], <<>>, 0)]
    /\ waiting' = [waiting EXCEPT ![c] = [i \in 1..Len(sigs) |-> Len(tasks) + i]]
    /\ stage' = [stage EXCEPT ![c] = next]

Leave(c, next) ==
    /\ waiting' = [waiting EXCEPT ![c] = <<>>]
    /\ stage' = [stage EXCEPT ![c] = next]
    /\ UNCHANGED tasks

RunCommand(c, force) ==
    /\ stage[c] = "idle"
    /\ flags' = [flags EXCEPT ![c] = force]
    /\ SendAndWait(c, "pathways", <<Sig("fetch_pathways", CommandKwargs(force))>>)
    /\ UNCHANGED counters

\* What handle does once it has the results of a stage.
Proceed(c) ==
    LET kwargs == CommandKwargs(flags[c])
    IN  \/ /\ stage[c] = "pathways"
           /\ SendAndWait(c, "courses", <<Sig("fetch_courses", kwargs)>>)
        \/ /\ stage[c] = "courses"
           /\ IF InUse = <<>>
              THEN Leave(c, "done")     \* "No matching CatalogQuery objects found"
              ELSE SendAndWait(c, "queries", [i \in 1..Len(InUse) |->
                                                SigFor("update_catalog", InUse[i], kwargs)])
        \/ /\ stage[c] = "queries"
           /\ Leave(c, "full")
        \/ /\ stage[c] = "dispatch"
           /\ Leave(c, "done")

Results(c) == 1..Len(waiting[c])

StateOf(c, i) == tasks[waiting[c][i]].state

\* The results are joined in order, so the first that is not a success decides.
FirstTrouble(c, i) ==
    /\ StateOf(c, i) \in {"FAILURE", "REVOKED"}
    /\ \A j \in 1..(i - 1) : StateOf(c, j) = "SUCCESS"

\* get() returns.
Get(c) ==
    /\ waiting[c] # <<>>
    /\ \A i \in Results(c) : StateOf(c, i) = "SUCCESS"
    /\ Proceed(c)
    /\ UNCHANGED <<flags, counters>>

\* The class of the exception get() raises.  A REVOKED row carries the name of the
\* class and not its module, so Celery makes up a class of that name in
\* celery.backends.base (the comment in update_full_content_metadata.py tells).
Raised_OwnClass(state) == IF state = "REVOKED" THEN "tasks.TaskRecentlyRunError" ELSE "error"

Raised(state) == IF state = "REVOKED" THEN "celery.backends.base.TaskRecentlyRunError" ELSE "error"

\* except TaskRecentlyRunError
Caught(exception) == exception = "tasks.TaskRecentlyRunError"

GetRaises(c) ==
    /\ \E i \in Results(c) :
        /\ FirstTrouble(c, i)
        /\ IF Caught(Raised(StateOf(c, i))) THEN Proceed(c) ELSE Leave(c, "crashed")
    /\ UNCHANGED <<flags, counters>>

\* TASK_TIMEOUT
GetTimesOut(c) ==
    /\ \E i \in Results(c) : StateOf(c, i) \notin Ready
    /\ Leave(c, "crashed")
    /\ troubles < MaxTroubles
    /\ troubles' = troubles + 1
    /\ UNCHANGED <<flags, refreshes, fullRuns>>

SendDispatch(c) ==
    SendAndWait(c, "dispatch", <<Sig("dispatch", CommandKwargs(flags[c]))>>)

\* update_full_content_metadata_task.apply(): the semaphore and the body run in the
\* command's own process and leave no row that counts; blocked or done, it goes on.
FullSync(c) ==
    /\ stage[c] = "full"
    /\ SendDispatch(c)
    /\ UNCHANGED <<flags, counters>>

\* The body raises; whether apply() lets the exception out is up to Celery's reading
\* of CELERY_EAGER_PROPAGATES.
FullSyncRaises(c) ==
    /\ stage[c] = "full"
    /\ troubles < MaxTroubles
    /\ troubles' = troubles + 1
    /\ SendDispatch(c) \/ Leave(c, "crashed")
    /\ UNCHANGED <<flags, refreshes, fullRuns>>

-----------------------------------------------------------------------------

Handle(t) == Start(t) \/ Check(t) \/ Revoke(t) \/ Succeed(t)

Advance(c) == Get(c) \/ GetRaises(c) \/ FullSync(c)

Next ==
    \/ \E t \in Tasks : Handle(t) \/ Fail(t) \/ RunAgain(t)
    \/ Tick
    \/ \E q \in Query : Refresh(q)
    \/ \E force \in BOOLEAN : UpdateFull(force)
    \/ \E c \in Command : \/ \E force \in BOOLEAN : RunCommand(c, force)
                          \/ Advance(c) \/ GetTimesOut(c) \/ FullSyncRaises(c)

\* Workers take what is queued and bodies end (the time limit sees to it); a command
\* that has its results goes on.
Fairness ==
    /\ WF_vars(\E t \in Tasks : Handle(t))
    /\ \A c \in Command : WF_vars(Advance(c))

Spec == Init /\ [][Next]_vars /\ Fairness

-----------------------------------------------------------------------------
(* Properties.                                                             *)

Executed(t) == tasks[t].state \in {"running", "SUCCESS"}

\* docs/getting_started.rst: the tasks "are configured to not run on the same input more
\* than once every 60 minutes".  Of the unforced tasks with the same input sent in the
\* last hour at most one has run or is running, whatever the order in which workers
\* start, check and revoke them, retries and lost workers included.
OncePerWindow ==
    \A t, u \in Tasks :
        /\ t # u /\ tasks[t].sig = tasks[u].sig
        /\ Guarded(tasks[t].sig) /\ ~ Forced(tasks[t].sig)
        /\ Executed(t) /\ Executed(u)
        => tasks[t].age > Window \/ tasks[u].age > Window

\* When the command comes to the full update, every update of a catalog query it sent
\* has ended with success: handle waits for the whole group, as a chord would.
GroupDoneBeforeFull ==
    \A c \in Command : stage[c] = "full" =>
        \A i \in DOMAIN InUse : \E t \in Tasks :
            /\ tasks[t].sig = SigFor("update_catalog", InUse[i], CommandKwargs(flags[c]))
            /\ tasks[t].state = "SUCCESS"

\* Algolia is brought up to date for a refresh only after the metadata: when its
\* dispatch is sent, its update of the catalog query and an update of all metadata
\* sent after it have succeeded.
DispatchFollowsUpdates ==
    \A t \in Tasks : tasks[t].sig.name = "dispatch_query" =>
        \E u, v \in 1..(t - 1) :
            /\ u < v
            /\ tasks[u].sig = SigFor("update_catalog", tasks[t].sig.query, "none")
            /\ tasks[v].sig.name = "update_full"
            /\ tasks[u].state = "SUCCESS" /\ tasks[v].state = "SUCCESS"

Stopped(r, states) == \E t \in Tasks : tasks[t].refresh = r /\ tasks[t].state \in states

Dispatched(r) ==
    \E t \in Tasks : /\ tasks[t].refresh = r
                     /\ tasks[t].sig.name = "dispatch_query"
                     /\ tasks[t].state = "SUCCESS"

\* No refresh gets lost on the way: in the end it is dispatched, or a task of it has
\* failed or was revoked.
RefreshesConclude ==
    \A r \in 1..MaxRefreshes :
        refreshes >= r ~> Dispatched(r) \/ Stopped(r, {"FAILURE", "REVOKED"})

(* What the documentation says and the code does not do: TLC refutes each.  *)

\* The view is there "to update metadata with data from the Discovery service and also
\* index course metadata in Algolia".  update_full_content_metadata_task() has the same
\* input in every refresh: of two catalogs refreshed within an hour, the second one's
\* full update is revoked, and with it the rest of its chain, the dispatch.
RefreshIndexes ==
    \A r \in 1..MaxRefreshes : refreshes >= r ~> Dispatched(r) \/ Stopped(r, {"FAILURE"})

\* expiring_task_semaphore: a task is revoked when "another task with the same (name, args,
\* kwargs) [...] was executed", so one of them always is.  A pending row counts as executed:
\* two tasks that look before either is revoked see each other, and both are.
RevokedForAnother ==
    \A t \in Tasks : tasks[t].state = "REVOKED" =>
        \E u \in Tasks \ {t} : tasks[u].sig = tasks[t].sig /\ tasks[u].state # "REVOKED"

\* update_content_metadata.py: a recently-run task is "innocuous", and must not "prevent
\* update_full_content_metadata_task from being run": the command crashes only when
\* something went wrong.  It crashes on a REVOKED result: the except clause names a class
\* other than the one get() raises.
RecentlyRunIsInnocuous ==
    \A c \in Command : stage[c] = "crashed" => troubles > 0
=============================================================================
