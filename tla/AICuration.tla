------------------------------- MODULE AICuration -------------------------------
(***************************************************************************)
(* AI curation (apps/ai_curation): a task searches the index for what a    *)
(* catalog holds, has a language model choose subjects, keywords and a     *)
(* prose of the query, filters and ranks courses with them, leaves the     *)
(* ranked candidates in the cache for twenty minutes and returns what is   *)
(* above a threshold.  Another request applies another threshold to the    *)
(* cached candidates.                                                      *)
(*                                                                         *)
(* What the model answers, and how well a course matches its prose, is any *)
(* choice.  A percentile is in hundredths.  The message of a task may be   *)
(* delivered again, even after its result has been stored.                 *)
(***************************************************************************)
EXTENDS Integers, FiniteSets, SequencesExt, Ordering

CONSTANTS
    Course, Program,
    ExecEd,              \* the executive education courses
    Titles,              \* programs each course names as its own
    InitialIndex,        \* hits of the catalog, in the order of the search
    PageSize,            \* hitsPerPage
    MaxTries,            \* of a request to the model
    DefaultThreshold,    \* tfidf_threshold
    Thresholds,          \* that may be asked for
    Scores,              \* TF-IDF scores
    None,
    MaxRuns, MaxChanges  \* bounds: deliveries of the message, changes of the index

ASSUME TitleAssumption == Titles \in [Course -> SUBSET Program] /\ ExecEd \subseteq Course
ASSUME LimitAssumption == PageSize \in Nat \ {0} /\ MaxTries \in Nat \ {0}
ASSUME HitAssumption == InitialIndex \in Seq(Course \union Program) /\ Scores \subseteq Int
\* Half of a list is above its middle: a threshold below it keeps something.
ASSUME ThresholdAssumption ==
    DefaultThreshold \in Thresholds /\ Thresholds \subseteq Nat /\ DefaultThreshold <= 50
ASSUME NoneAssumption == None \notin {"PENDING", "STARTED", "SUCCESS", "FAILURE"}

VARIABLES
    index,     \* the hits of the catalog
    message,   \* is the task's message in the broker?
    task,      \* its TaskResult row
    worker,    \* its execution
    cache,     \* the three entries of the task
    reader,    \* a request that tweaks the results
    changes

vars == <<index, message, task, worker, cache, reader, changes>>

Lists == <<"ocm_courses", "exec_ed_courses", "programs">>
Asks  == <<"subjects", "keywords", "keywords again", "prose">>

NoEntries == [k \in ToSet(Lists) |-> None]

\* step: the page, the question or the entry it is at.
Idle   == [pc |-> "idle", run |-> 0, step |-> 0, tries |-> 0, hits |-> <<>>, found |-> NoEntries]
Away   == [pc |-> "idle", step |-> 0, got |-> NoEntries, overtaken |-> FALSE]

Init ==
    /\ index = InitialIndex
    /\ message = FALSE
    /\ task = [status |-> None, run |-> 0, result |-> None]
    /\ worker = Idle
    /\ cache = NoEntries
    /\ reader = Away
    /\ changes = 0

-----------------------------------------------------------------------------
(* Filters.                                                                *)

\* percentileofscore, of rank: a score is above those below it and half of its equals.
\* The percentage of a list of n is the count times 50, over n.
Rank_Strict(list, hit) == 2 * Cardinality({i \in DOMAIN list : list[i].score < hit.score})
Rank(list, hit) ==
    Cardinality({i \in DOMAIN list : list[i].score < hit.score})
    + Cardinality({i \in DOMAIN list : list[i].score <= hit.score}) + 1

Above(list, threshold) == Where(list, LAMBDA hit : Rank(list, hit) * 50 > threshold * Len(list))

\* sorted by descending score, those of one score as they came.
Ranked(list) ==
    LET D == DOMAIN list
        order == InOrder(D, {p \in D \X D : \/ list[p[1]].score > list[p[2]].score
                                            \/ list[p[1]].score = list[p[2]].score /\ p[1] <= p[2]})
    IN  [n \in D |-> list[order[n]]]

\* Titles of a course are joined to one string before they are compared with a program's.
ProgramsOf(courses, programs) ==
    Where(programs, LAMBDA p : \E i \in DOMAIN courses : Titles[courses[i].key] = {p})

\* get_tweaked_results; generate_curation filters in the same way.
Tweaked(found, threshold) ==
    LET ocm  == Above(found["ocm_courses"], threshold)
        exec == Above(found["exec_ed_courses"], threshold)
    IN  [ocm |-> ocm, exec |-> exec, programs |-> ProgramsOf(ocm \o exec, found["programs"])]

-----------------------------------------------------------------------------
(* The task.                                                               *)

\* The view's post.
Post ==
    /\ task.status = None
    /\ task' = [task EXCEPT !.status = "PENDING"]
    /\ message' = TRUE
    /\ UNCHANGED <<index, worker, cache, reader, changes>>

\* CELERY_TASK_TRACK_STARTED.
Begin ==
    /\ message /\ worker.pc = "idle" /\ worker.run < MaxRuns
    /\ worker' = [Idle EXCEPT !.pc = "search", !.run = worker.run + 1]
    /\ task' = [task EXCEPT !.status = "STARTED"]
    /\ reader' = IF reader.pc = "idle" THEN reader ELSE [reader EXCEPT !.overtaken = TRUE]
    /\ UNCHANGED <<index, message, cache, changes>>

Of(hits, kinds) == Where(hits, LAMBDA h : h \in kinds)

\* fetch_catalog_metadata_from_algolia: pages until one is empty.
SearchPage ==
    LET first == worker.step * PageSize + 1
        last  == IF first + PageSize - 1 < Len(index) THEN first + PageSize - 1 ELSE Len(index)
        page  == SubSeq(index, first, last)
    IN  /\ worker.pc = "search"
        /\ worker' = IF page # <<>> THEN [worker EXCEPT !.hits = @ \o page, !.step = @ + 1]
                     ELSE [worker EXCEPT !.pc = "ask", !.step = 1]
        /\ UNCHANGED <<index, message, task, cache, reader, changes>>

\* Subjects and keywords each leave some of the courses, prose scores them.
Answers ==
    IF Asks[worker.step] \in {"subjects", "keywords"}
    THEN {[worker EXCEPT !.hits = Of(@, kept \union Program)] : kept \in SUBSET (ToSet(worker.hits) \ Program)}
    ELSE IF Asks[worker.step] = "keywords again" THEN {worker}
    ELSE LET Scored(kinds, score) ==
                Ranked([i \in DOMAIN Of(worker.hits, kinds) |->
                          [key |-> Of(worker.hits, kinds)[i], score |-> score[Of(worker.hits, kinds)[i]]]])
         IN  {[worker EXCEPT !.hits = <<>>,
                 !.found = [k \in ToSet(Lists) |->
                    IF k = "programs" THEN Of(worker.hits, Program)
                    ELSE Scored(IF k = "ocm_courses" THEN Course \ ExecEd ELSE ExecEd, score)]]
                : score \in [ToSet(worker.hits) \intersect Course -> Scores]}

Ask ==
    /\ worker.pc = "ask"
    /\ \E w \in Answers :
          worker' = IF worker.step < Len(Asks) THEN [w EXCEPT !.step = @ + 1, !.tries = 0]
                    ELSE [w EXCEPT !.pc = "cache", !.step = 1, !.tries = 0]
    /\ UNCHANGED <<index, message, task, cache, reader, changes>>

\* No connection, or no JSON: asked again, with a back-off, up to MaxTries times.
AskAgain ==
    /\ worker.pc = "ask" /\ worker.tries + 1 < MaxTries
    /\ worker' = [worker EXCEPT !.tries = @ + 1]
    /\ UNCHANGED <<index, message, task, cache, reader, changes>>

\* The candidates before the threshold, and all programs.
CacheEntry ==
    LET k == Lists[worker.step]
    IN  /\ worker.pc = "cache"
        /\ cache' = [cache EXCEPT ![k] = [run |-> worker.run, list |-> worker.found[k]]]
        /\ worker' = IF worker.step < Len(Lists) THEN [worker EXCEPT !.step = @ + 1]
                     ELSE [worker EXCEPT !.pc = "return"]
        /\ UNCHANGED <<index, message, task, reader, changes>>

\* The result is stored; the acknowledgement after it may get lost.
Return_ResultIgnored ==
    /\ worker.pc = "return"
    /\ worker' = [Idle EXCEPT !.run = worker.run]
    /\ message' \in {FALSE, worker.run < MaxRuns}
    /\ UNCHANGED <<index, task, cache, reader, changes>>
Return ==
    /\ worker.pc = "return"
    /\ task' = [status |-> "SUCCESS", run |-> worker.run, result |-> Tweaked(worker.found, DefaultThreshold)]
    /\ worker' = [Idle EXCEPT !.run = worker.run]
    /\ message' \in {FALSE, worker.run < MaxRuns}
    /\ UNCHANGED <<index, cache, reader, changes>>

\* The search fails, the model fails otherwise or for the last time, the time limit strikes.
Raise ==
    /\ worker.pc # "idle"
    /\ task' = [task EXCEPT !.status = "FAILURE", !.result = None]
    /\ worker' = [Idle EXCEPT !.run = worker.run]
    /\ message' = FALSE
    /\ UNCHANGED <<index, cache, reader, changes>>

WorkerLost ==
    /\ worker.pc # "idle" /\ worker.run < MaxRuns
    /\ worker' = [Idle EXCEPT !.run = worker.run]
    /\ UNCHANGED <<index, message, task, cache, reader, changes>>

\* CACHE_TIMEOUT, for each entry on its own.
Expire(k) ==
    /\ cache[k] # None
    /\ cache' = [cache EXCEPT ![k] = None]
    /\ UNCHANGED <<index, message, task, worker, reader, changes>>

\* The index changes between two pages: hits go, or a course comes first.
ChangeIndex ==
    /\ changes < MaxChanges /\ worker.pc = "search"
    /\ \/ \E i \in DOMAIN index : index' = RemoveAt(index, i)
       \/ \E c \in Course \ ToSet(index) : index' = <<c>> \o index
    /\ changes' = changes + 1
    /\ UNCHANGED <<message, task, worker, cache, reader>>

-----------------------------------------------------------------------------
(* The view's get with a threshold.                                        *)

\* 404 without a row, 425 unless it says SUCCESS.
BeginTweak_AnyStatus ==
    /\ reader.pc = "idle" /\ task.status # None
    /\ reader' = [Away EXCEPT !.pc = "read", !.step = 1]
    /\ UNCHANGED <<index, message, task, worker, cache, changes>>
BeginTweak ==
    /\ reader.pc = "idle" /\ task.status = "SUCCESS"
    /\ reader' = [Away EXCEPT !.pc = "read", !.step = 1]
    /\ UNCHANGED <<index, message, task, worker, cache, changes>>

ReadEntry ==
    LET k == Lists[reader.step]
    IN  /\ reader.pc = "read" /\ reader.step <= Len(Lists)
        /\ reader' = [reader EXCEPT !.got[k] = cache[k], !.step = @ + 1]
        /\ UNCHANGED <<index, message, task, worker, cache, changes>>

\* Nothing cached and an empty list are the same to it.
Usable(entry) == entry # None /\ entry.list # <<>>

\* With 400.
Refuse ==
    /\ reader.pc = "read" /\ reader.step > Len(Lists)
    /\ ~\A k \in ToSet(Lists) : Usable(reader.got[k])
    /\ reader' = Away
    /\ UNCHANGED <<index, message, task, worker, cache, changes>>

Answer ==
    /\ reader.pc = "read" /\ reader.step > Len(Lists)
    /\ \A k \in ToSet(Lists) : Usable(reader.got[k])
    /\ reader' = [reader EXCEPT !.pc = "answered"]
    /\ UNCHANGED <<index, message, task, worker, cache, changes>>

Leave ==
    /\ reader.pc = "answered"
    /\ reader' = Away
    /\ UNCHANGED <<index, message, task, worker, cache, changes>>

-----------------------------------------------------------------------------
Work == Raise \/ AskAgain \/ SearchPage \/ Ask \/ CacheEntry \/ Return
Tweak == BeginTweak \/ ReadEntry \/ Refuse \/ Answer \/ Leave

Next ==
    \/ Post \/ Begin \/ Work \/ WorkerLost \/ Tweak \/ ChangeIndex
    \/ \E k \in ToSet(Lists) : Expire(k)

\* Workers serve the queue; the time limit ends what does not end by itself.
Fairness == WF_vars(Begin) /\ WF_vars(Work)

Spec == Init /\ [][Next]_vars /\ Fairness

-----------------------------------------------------------------------------
(* Properties.                                                             *)

Candidates(entries) == [k \in ToSet(Lists) |-> entries[k].list]

\* A tweaked answer is made of the candidates of the one execution whose result is stored,
\* whatever executions left in the cache, and with the default threshold it is that result;
\* unless the task runs again while the request reads.
TweaksTheResult ==
    reader.pc = "answered" /\ ~reader.overtaken =>
        /\ \A k \in ToSet(Lists) : reader.got[k].run = task.run
        /\ Tweaked(Candidates(reader.got), DefaultThreshold) = task.result

\* A higher threshold never adds a course or a program, and one that is at most half keeps
\* the best of every list of candidates, however many there are and even if all are equal.
ThresholdsNest ==
    (\A k \in ToSet(Lists) : cache[k] # None) =>
        LET found == Candidates(cache)
            Shown(th) == LET r == Tweaked(found, th)
                         IN  ToSet(r.ocm) \union ToSet(r.exec) \union {[key |-> p, score |-> 0] : p \in ToSet(r.programs)}
        IN  /\ \A th, th2 \in Thresholds : th <= th2 => Shown(th2) \subseteq Shown(th)
            /\ \A k \in {"ocm_courses", "exec_ed_courses"}, th \in Thresholds :
                  th <= 50 /\ found[k] # <<>> => found[k][1] \in ToSet(Above(found[k], th))

\* A curation that was asked for ends, with its result or with an error.
CurationsConclude == (task.status = "PENDING") ~> (task.status \in {"SUCCESS", "FAILURE"})
=============================================================================
