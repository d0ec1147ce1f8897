------------------------ MODULE RestrictedContentProofs ------------------------
(***************************************************************************)
(* Theorems about Catalogs and RestrictedContent, for any number of        *)
(* queries, catalogs, filters, courses, runs and workers.                  *)
(***************************************************************************)
EXTENDS RestrictedContent, TLAPS

-----------------------------------------------------------------------------
(* The catalogs.                                                           *)

\* What find_and_modify_catalog_query returns is a row for a primary key.
LEMMA FindAndModifyType ==
    ASSUME CatalogTypeOK, NEW f \in Filter, NEW u \in Uuid \union {Absent},
           NEW m \in FindAndModify(f, u)
    PROVE  m[1] \in QueryId /\ m[2] \in QueryRow
<1>1. CASE u # Absent /\ WithUuid(u) # {}
    BY <1>1 DEF FindAndModify, WithUuid, Queries, QueryRow
<1>2. CASE u # Absent /\ WithUuid(u) = {}
    BY <1>2 DEF FindAndModify, WithFilter, Unused, Queries, QueryRow
<1>3. CASE u = Absent /\ WithFilter(f) # {}
    BY <1>3 DEF FindAndModify, WithFilter, Queries, QueryRow, CatalogTypeOK
<1>4. CASE u = Absent /\ WithFilter(f) = {}
    BY <1>4 DEF FindAndModify, Unused, FreshUuids, QueryRow
<1> QED BY <1>1, <1>2, <1>3, <1>4

\* Its row has a filter and a uuid that no other query has.
LEMMA FindAndModifyUnique ==
    ASSUME CatalogTypeOK, QueriesDistinct, NEW f \in Filter, NEW u \in Uuid \union {Absent},
           NEW m \in FindAndModify(f, u), NEW r \in Queries, r # m[1]
    PROVE  FilterOf(r) # m[2].filter /\ query[r].uuid # m[2].uuid
<1>1. CASE u # Absent /\ WithUuid(u) # {}
  <2>1. PICK q \in WithUuid(u) : WithFilter(f) \subseteq {q} /\ m = <<q, [uuid |-> u, filter |-> f]>>
      BY <1>1 DEF FindAndModify
  <2> QED BY <2>1 DEF WithUuid, WithFilter, Queries, QueriesDistinct
<1>2. CASE u # Absent /\ WithUuid(u) = {} /\ WithFilter(f) # {}
  <2>1. PICK q \in WithFilter(f) : m = <<q, [uuid |-> u, filter |-> f]>>
      BY <1>2 DEF FindAndModify
  <2> QED BY <1>2, <2>1 DEF WithUuid, WithFilter, Queries, QueriesDistinct
<1>3. CASE u # Absent /\ WithUuid(u) = {} /\ WithFilter(f) = {}
  <2>1. PICK q \in Unused : m = <<q, [uuid |-> u, filter |-> f]>>
      BY <1>3 DEF FindAndModify
  <2> QED BY <1>3, <2>1 DEF WithUuid, WithFilter
<1>4. CASE u = Absent /\ WithFilter(f) # {}
  <2>1. PICK q \in WithFilter(f) : m = <<q, query[q]>>
      BY <1>4 DEF FindAndModify
  <2> QED BY <2>1 DEF WithFilter, QueriesDistinct, FilterOf
<1>5. CASE u = Absent /\ WithFilter(f) = {}
  <2>1. PICK q \in Unused, v \in FreshUuids : m = <<q, [uuid |-> v, filter |-> f]>>
      BY <1>5 DEF FindAndModify
  <2> QED BY <1>5, <2>1 DEF WithUuid, WithFilter, FreshUuids
<1> QED BY <1>1, <1>2, <1>3, <1>4, <1>5

\* Writing that row keeps the table as it should be, and no query is lost.
LEMMA RowWritten ==
    ASSUME CatalogTypeOK, QueriesDistinct, NEW f \in Filter, NEW u \in Uuid \union {Absent},
           NEW m \in FindAndModify(f, u), query' = [query EXCEPT ![m[1]] = m[2]]
    PROVE  /\ query' \in [QueryId -> QueryRow \union {Absent}]
           /\ Queries \subseteq Queries' /\ m[1] \in Queries'
           /\ \A q, r \in Queries' : q # r => /\ query'[q].filter # query'[r].filter
                                              /\ query'[q].uuid # query'[r].uuid
<1>1. m[1] \in QueryId /\ m[2] \in QueryRow
    BY FindAndModifyType
<1>2. query' \in [QueryId -> QueryRow \union {Absent}]
    BY <1>1 DEF CatalogTypeOK
<1>3. query'[m[1]] = m[2] /\ \A q \in QueryId : q # m[1] => query'[q] = query[q]
    BY <1>1 DEF CatalogTypeOK
<1>4. Queries \subseteq Queries' /\ m[1] \in Queries'
    BY <1>1, <1>3, AbsentAssumption DEF Queries
<1>5. ASSUME NEW q \in Queries', NEW r \in Queries', q # r
      PROVE  query'[q].filter # query'[r].filter /\ query'[q].uuid # query'[r].uuid
  <2>1. CASE q # m[1] /\ r # m[1]
      BY <1>3, <1>5, <2>1 DEF QueriesDistinct, Queries, FilterOf
  <2>2. CASE q = m[1]
    <3>1. r \in Queries /\ query'[r] = query[r]
        BY <1>3, <1>5, <2>2 DEF Queries
    <3> QED BY <1>3, <1>5, <2>2, <3>1, FindAndModifyUnique DEF FilterOf
  <2>3. CASE r = m[1]
    <3>1. q \in Queries /\ query'[q] = query[q]
        BY <1>3, <1>5, <2>3 DEF Queries
    <3> QED BY <1>3, <1>5, <2>3, <3>1, FindAndModifyUnique DEF FilterOf
  <2> QED BY <2>1, <2>2, <2>3
<1> QED BY <1>2, <1>4, <1>5

\* A request keeps the rows well formed and the queries distinct, and loses no query.
LEMMA CatalogStep ==
    ASSUME CatalogTypeOK, QueriesDistinct, ChangeCatalogs
    PROVE  CatalogTypeOK' /\ QueriesDistinct' /\ Queries \subseteq Queries'
<1>1. PICK k \in Catalog :
         \/ \E f \in Filter, u \in Uuid \union {Absent} : CreateCatalog(k, f, u)
         \/ \E f \in Filter \union {Absent}, u \in Uuid \union {Absent} : UpdateCatalog(k, f, u)
         \/ DestroyCatalog(k)
    BY DEF ChangeCatalogs
<1>2. requests' \in 0..MaxRequests
    BY <1>1, RequestAssumption DEF CreateCatalog, UpdateCatalog, DestroyCatalog, Request, CatalogTypeOK
<1>3. ASSUME NEW f \in Filter, NEW u \in Uuid \union {Absent}, NEW m \in FindAndModify(f, u),
             query' = [query EXCEPT ![m[1]] = m[2]],
             catalog' = catalog \/ catalog' = [catalog EXCEPT ![k] = m[1]]
      PROVE  CatalogTypeOK' /\ QueriesDistinct' /\ Queries \subseteq Queries'
  <2>1. m[1] \in QueryId
      BY FindAndModifyType
  <2>2. /\ query' \in [QueryId -> QueryRow \union {Absent}]
        /\ Queries \subseteq Queries' /\ m[1] \in Queries'
        /\ \A q, r \in Queries' : q # r => /\ query'[q].filter # query'[r].filter
                                           /\ query'[q].uuid # query'[r].uuid
      BY <1>3, RowWritten
  <2>3. catalog' \in [Catalog -> QueryId \union {Absent}]
      BY <1>3, <2>1 DEF CatalogTypeOK
  <2>4. \A l \in Catalog : catalog'[l] # Absent => catalog'[l] \in Queries'
      BY <1>3, <2>2 DEF CatalogTypeOK, QueriesDistinct
  <2> QED BY <1>2, <2>2, <2>3, <2>4 DEF CatalogTypeOK, QueriesDistinct, FilterOf
<1>4. ASSUME NEW f \in Filter, NEW u \in Uuid \union {Absent}, CreateCatalog(k, f, u)
      PROVE  CatalogTypeOK' /\ QueriesDistinct' /\ Queries \subseteq Queries'
    BY <1>3, <1>4 DEF CreateCatalog
<1>5. ASSUME NEW f \in Filter \union {Absent}, NEW u \in Uuid \union {Absent}, UpdateCatalog(k, f, u)
      PROVE  CatalogTypeOK' /\ QueriesDistinct' /\ Queries \subseteq Queries'
  <2>1. query[catalog[k]] \in QueryRow
      BY <1>5 DEF UpdateCatalog, QueriesDistinct, Queries, CatalogTypeOK
  <2> DEFINE old == query[catalog[k]]
             ff  == IF f = Absent THEN old.filter ELSE f
             uu  == IF u = Absent THEN old.uuid ELSE u
  <2>2. ff \in Filter /\ uu \in Uuid \union {Absent}
      BY <2>1 DEF QueryRow
  <2>3. PICK m \in FindAndModify(ff, uu) : /\ query' = [query EXCEPT ![m[1]] = m[2]]
                                           /\ catalog' = [catalog EXCEPT ![k] = m[1]]
      BY <1>5 DEF UpdateCatalog
  <2> QED BY <1>3, <2>2, <2>3
<1>6. CASE DestroyCatalog(k)
    BY <1>2, <1>6, AbsentAssumption DEF DestroyCatalog, CatalogTypeOK, QueriesDistinct, Queries, FilterOf
<1> QED BY <1>1, <1>4, <1>5, <1>6

-----------------------------------------------------------------------------
(* The updates.  What a worker carries and what is stored of a query is    *)
(* within what the query's filters have ever allowed; the invariant says   *)
(* so of the filter a query has, of the filter an update loaded, and of    *)
(* the runs it is about to map.                                            *)

Within(j) ==
    j.pc # "idle" => /\ j.q \in Queries /\ j.filter \in Filter
                     /\ Allows[j.filter] \subseteq everAllowed[j.q]
                     /\ j.pc = "map" => j.runs \subseteq everAllowed[j.q] \intersect RunsOf(j.course)

FiltersRecorded == \A q \in Queries : Allows[FilterOf(q)] \subseteq everAllowed[q]

IInv ==
    /\ TypeOK /\ QueriesDistinct
    /\ FiltersRecorded
    /\ \A w \in Worker : Within(job[w])
    /\ NeverBeyondAllowed

\* A worker that does nothing.
LEMMA IdleIsFine == Idle \in Job /\ Within(Idle)
    BY DEF Idle, Job, Steps, Within

\* What a filter allows of a course.
LEMMA AllowedRuns ==
    ASSUME NEW f \in Filter, NEW c
    PROVE  RunsAllowed(f, c) \in SUBSET Run /\ RunsAllowed(f, c) \subseteq Allows[f] \intersect RunsOf(c)
    BY FilterAssumption DEF RunsAllowed

\* The filter of a query is one.
LEMMA FilterOfQuery ==
    ASSUME CatalogTypeOK, NEW q \in Queries
    PROVE  FilterOf(q) \in Filter
    BY DEF CatalogTypeOK, Queries, QueryRow, FilterOf

\* Other jobs, and the rest of the state, are as they were when one job changes.
LEMMA JobChanged ==
    ASSUME IInv, NEW w \in Worker, NEW j \in Job, Becomes(w, j), Within(j),
           UNCHANGED <<query, everAllowed>>
    PROVE  job' \in [Worker -> Job] /\ \A v \in Worker : Within(job[v])'
<1>1. job' \in [Worker -> Job]
    BY DEF IInv, TypeOK, Becomes
<1>2. \A v \in Worker : job'[v] = IF v = w THEN j ELSE job[v]
    BY DEF IInv, TypeOK, Becomes
<1>3. \A v \in Worker : Within(IF v = w THEN j ELSE job[v])
    BY DEF IInv
<1>4. ASSUME NEW v \in Worker PROVE Within(job[v])'
    BY <1>2, <1>3 DEF Within, Queries
<1> QED BY <1>1, <1>4

\* Steps that leave queries, copies and mappings alone.
LEMMA ContentsKept ==
    ASSUME IInv, UNCHANGED <<query, catalog, copy, mapped, everAllowed>>
    PROVE  QueriesDistinct' /\ FiltersRecorded' /\ NeverBeyondAllowed'
    BY DEF IInv, QueriesDistinct, FiltersRecorded, NeverBeyondAllowed, Queries, FilterOf, Copies

LEMMA InitInvariant == Init => IInv
<1> SUFFICES ASSUME Init PROVE IInv
    OBVIOUS
<1>1. Queries = {}
    BY DEF Init, CatalogInit, Queries
<1>2. TypeOK
  <2>1. CatalogTypeOK
      BY RequestAssumption DEF Init, CatalogInit, CatalogTypeOK
  <2>2. job \in [Worker -> Job]
      BY IdleIsFine DEF Init
  <2>3. canonical \in [Course -> 0..MaxCanonical] /\ troubles \in 0..MaxTroubles
      BY RestrictedBoundAssumption DEF Init
  <2>4. copy \in [QueryId -> [Course -> {Absent} \union SUBSET Run]]
      BY DEF Init
  <2>5. /\ stored \in SUBSET Course /\ runRow \in SUBSET Run /\ mapped \in [QueryId -> SUBSET Run]
        /\ everAllowed \in [QueryId -> SUBSET Run] /\ settled \in SUBSET QueryId
      BY DEF Init
  <2> QED BY <2>1, <2>2, <2>3, <2>4, <2>5 DEF TypeOK
<1>3. \A w \in Worker : Within(job[w])
    BY IdleIsFine DEF Init
<1>4. QueriesDistinct
    BY <1>1 DEF Init, CatalogInit, QueriesDistinct
<1>5. NeverBeyondAllowed
    BY DEF Init, NeverBeyondAllowed, Copies
<1> QED BY <1>1, <1>2, <1>3, <1>4, <1>5 DEF IInv, FiltersRecorded

LEMMA EditInvariant == IInv /\ EditCatalogs => IInv'
<1> SUFFICES ASSUME IInv, EditCatalogs PROVE IInv'
    OBVIOUS
<1>1. CatalogTypeOK' /\ QueriesDistinct' /\ Queries \subseteq Queries'
    BY CatalogStep DEF IInv, TypeOK, EditCatalogs
<1> DEFINE edited == {q \in QueryId : query'[q] # Absent /\ query'[q] # query[q]}
<1>2. \A q \in QueryId : everAllowed'[q] = everAllowed[q] \union
                              IF q \in edited THEN Allows[query'[q].filter] ELSE {}
    BY DEF EditCatalogs
<1>3. \A q \in edited : query'[q].filter \in Filter
    BY <1>1 DEF CatalogTypeOK, QueryRow
<1>4. everAllowed' \in [QueryId -> SUBSET Run]
    BY <1>3, FilterAssumption DEF EditCatalogs, IInv, TypeOK
<1>5. \A w \in Worker : \E b \in BOOLEAN : job'[w] = [job[w] EXCEPT !.clean = b]
    BY DEF EditCatalogs, IInv, TypeOK, Job
<1>6. ASSUME NEW w \in Worker
      PROVE  job'[w] \in Job /\ Within(job[w])'
  <2> DEFINE old == job[w]
             new == job'[w]
  <2>1. old \in Job /\ Within(old)
      BY DEF IInv, TypeOK
  <2>2. /\ new \in Job /\ new.pc = old.pc /\ new.q = old.q /\ new.filter = old.filter
        /\ new.course = old.course /\ new.runs = old.runs
      BY <1>5, <2>1 DEF Job
  <2>3. Within(job[w])'
      BY <1>1, <1>2, <2>1, <2>2 DEF Within, Queries, RunsOf
  <2> QED BY <2>2, <2>3
<1>7. job' \in [Worker -> Job]
    BY <1>6 DEF EditCatalogs
<1>8. TypeOK'
    BY <1>1, <1>4, <1>7 DEF IInv, TypeOK, EditCatalogs, contentVars
<1>9. FiltersRecorded'
    BY <1>2 DEF IInv, FiltersRecorded, Queries, FilterOf
<1>10. NeverBeyondAllowed'
    BY <1>2 DEF IInv, NeverBeyondAllowed, EditCatalogs, contentVars, Copies
<1> QED BY <1>1, <1>6, <1>8, <1>9, <1>10 DEF IInv

\* Its types, but for the job, that a step of an update keeps: it leaves the catalogs and
\* what was allowed alone.
LEMMA UpdateTypes ==
    ASSUME IInv, UNCHANGED <<catalogVars, everAllowed>>,
           stored' \in SUBSET Course, runRow' \in SUBSET Run,
           canonical' \in [Course -> 0..MaxCanonical],
           copy' \in [QueryId -> [Course -> {Absent} \union SUBSET Run]],
           mapped' \in [QueryId -> SUBSET Run], job' \in [Worker -> Job],
           troubles' \in 0..MaxTroubles, settled' \in SUBSET QueryId
    PROVE  TypeOK'
    BY DEF IInv, TypeOK, CatalogTypeOK, catalogVars

LEMMA BeginInvariant ==
    ASSUME IInv, NEW w \in Worker, NEW q \in QueryId, Begin(w, q)
    PROVE  IInv'
<1>1. settled' \in SUBSET QueryId
    BY DEF Begin, Settle, IInv, TypeOK
<1>2. job' \in [Worker -> Job] /\ \A v \in Worker : Within(job[v])'
  <2>1. CASE UNCHANGED job
      BY <2>1 DEF Begin, IInv, TypeOK, Within, Queries, catalogVars
  <2>2. CASE ~UNCHANGED job
    <3> DEFINE j == [Idle EXCEPT !.pc = "courses", !.q = q, !.filter = FilterOf(q),
                                 !.todo = CoursesOf(Allows[FilterOf(q)]), !.clean = Undisturbed(q)]
    <3>1. q \in Queries /\ FilterOf(q) \in Filter
        BY FilterOfQuery DEF Begin, IInv, TypeOK
    <3>2. CoursesOf(Allows[FilterOf(q)]) \in SUBSET Course
        BY <3>1, FilterAssumption, RunAssumption DEF CoursesOf
    <3>3. Undisturbed(q) \in BOOLEAN
        BY DEF Undisturbed
    <3>4. j \in Job
        BY <3>1, <3>2, <3>3 DEF Idle, Job, Steps
    <3>5. Within(j)
        BY <3>1 DEF Within, Idle, IInv, FiltersRecorded
    <3>6. Becomes(w, j) /\ UNCHANGED <<query, everAllowed>>
        BY <2>2 DEF Begin, catalogVars
    <3> QED BY <3>4, <3>5, <3>6, JobChanged
  <2> QED BY <2>1, <2>2
<1>3. TypeOK'
    BY <1>1, <1>2, UpdateTypes DEF Begin, contentVars, IInv, TypeOK
<1>4. QueriesDistinct' /\ FiltersRecorded' /\ NeverBeyondAllowed'
    BY ContentsKept DEF Begin, contentVars, catalogVars
<1> QED BY <1>2, <1>3, <1>4 DEF IInv

LEMMA FindCanonicalInvariant ==
    ASSUME IInv, NEW w \in Worker, FindCanonical(w)
    PROVE  IInv'
<1>1. PICK c \in job[w].todo \intersect stored :
         Becomes(w, [job[w] EXCEPT !.pc = IF canonical[c] = 0 THEN "create" ELSE "copy",
                                   !.todo = @ \ {c}, !.course = c])
    BY DEF FindCanonical
<1> DEFINE old == job[w]
           j == [old EXCEPT !.pc = IF canonical[c] = 0 THEN "create" ELSE "copy",
                            !.todo = @ \ {c}, !.course = c]
<1>2. old \in Job /\ Within(old) /\ old.pc = "courses" /\ c \in Course
    BY <1>1 DEF FindCanonical, IInv, TypeOK
<1>3. j \in Job /\ Within(j)
    BY <1>2 DEF Job, Steps, Within
<1>4. job' \in [Worker -> Job] /\ \A v \in Worker : Within(job[v])'
    BY <1>1, <1>3, JobChanged DEF FindCanonical, catalogVars, history
<1>5. TypeOK'
    BY <1>4, UpdateTypes DEF FindCanonical, contentVars, history, IInv, TypeOK
<1>6. QueriesDistinct' /\ FiltersRecorded' /\ NeverBeyondAllowed'
    BY ContentsKept DEF FindCanonical, contentVars, catalogVars, history
<1> QED BY <1>4, <1>5, <1>6 DEF IInv

LEMMA CreateCanonicalInvariant ==
    ASSUME IInv, NEW w \in Worker, CreateCanonical(w)
    PROVE  IInv'
<1> DEFINE old == job[w]
           j == [old EXCEPT !.pc = "copy"]
<1>1. old \in Job /\ Within(old) /\ old.pc = "create"
    BY DEF CreateCanonical, IInv, TypeOK
<1>2. j \in Job /\ Within(j)
    BY <1>1 DEF Job, Steps, Within
<1>3. job' \in [Worker -> Job] /\ \A v \in Worker : Within(job[v])'
    BY <1>2, JobChanged DEF CreateCanonical, catalogVars, history
<1>4. canonical' \in [Course -> 0..MaxCanonical]
  <2>1. canonical \in [Course -> 0..MaxCanonical] /\ MaxCanonical \in Nat
      BY RestrictedBoundAssumption DEF IInv, TypeOK
  <2>2. canonical' = [canonical EXCEPT ![old.course] = @ + 1] /\ canonical[old.course] < MaxCanonical
      BY DEF CreateCanonical
  <2>3. ASSUME NEW c \in Course PROVE canonical'[c] \in 0..MaxCanonical
    <3>1. canonical'[c] = canonical[c] \/ (canonical'[c] = canonical[c] + 1 /\ canonical[c] < MaxCanonical)
        BY <2>1, <2>2
    <3>2. canonical[c] \in 0..MaxCanonical
        BY <2>1
    <3> QED BY <2>1, <3>1, <3>2
  <2> QED BY <2>1, <2>2, <2>3
<1>5. TypeOK'
    BY <1>3, <1>4, UpdateTypes DEF CreateCanonical, history, IInv, TypeOK
<1>6. QueriesDistinct' /\ FiltersRecorded' /\ NeverBeyondAllowed'
    BY ContentsKept DEF CreateCanonical, catalogVars, history
<1> QED BY <1>3, <1>5, <1>6 DEF IInv

LEMMA StoreCopyInvariant ==
    ASSUME IInv, NEW w \in Worker, StoreCopy(w)
    PROVE  IInv'
<1> DEFINE old  == job[w]
           f    == FilterSeen(old.q, old.course, old.filter)
           runs == RunsAllowed(f, old.course)
           j    == [old EXCEPT !.pc = "map", !.runs = runs]
<1>1. old \in Job /\ Within(old) /\ old.pc = "copy" /\ old.q \in Queries /\ old.q \in QueryId
    BY DEF StoreCopy, IInv, TypeOK, Within, Queries
<1>2. f \in Filter /\ Allows[f] \subseteq everAllowed[old.q]
    BY <1>1, FilterOfQuery DEF FilterSeen, Within, IInv, TypeOK, FiltersRecorded
<1>3. runs \in SUBSET Run /\ runs \subseteq everAllowed[old.q] \intersect RunsOf(old.course)
    BY <1>2, AllowedRuns
<1>4. /\ copy' = [copy EXCEPT ![old.q][old.course] = runs]
      /\ runRow' = runRow \union runs /\ Becomes(w, j)
      /\ UNCHANGED <<catalogVars, stored, canonical, mapped, troubles, history>>
    BY DEF StoreCopy
<1> HIDE DEF f, runs
<1>5. j \in Job /\ Within(j)
    BY <1>1, <1>3 DEF Job, Steps, Within
<1>6. job' \in [Worker -> Job] /\ \A v \in Worker : Within(job[v])'
    BY <1>4, <1>5, JobChanged DEF catalogVars, history
<1>7. copy' \in [QueryId -> [Course -> {Absent} \union SUBSET Run]]
    BY <1>3, <1>4 DEF IInv, TypeOK
<1>8. TypeOK'
    BY <1>3, <1>4, <1>6, <1>7, UpdateTypes DEF history, IInv, TypeOK
<1>9. QueriesDistinct' /\ FiltersRecorded'
    BY <1>4 DEF catalogVars, history, IInv, QueriesDistinct, FiltersRecorded, Queries, FilterOf
<1>10. \A q \in QueryId, c \in Course :
          copy'[q][c] = copy[q][c] \/ (q = old.q /\ c = old.course /\ copy'[q][c] = runs)
    BY <1>4 DEF IInv, TypeOK
<1>11. NeverBeyondAllowed'
    BY <1>3, <1>4, <1>10 DEF history, IInv, NeverBeyondAllowed, Copies, RunsOf
<1> QED BY <1>6, <1>8, <1>9, <1>11 DEF IInv

LEMMA SetMappingInvariant ==
    ASSUME IInv, NEW w \in Worker, SetMapping(w)
    PROVE  IInv'
<1> DEFINE old == job[w]
           j   == [old EXCEPT !.pc = "courses", !.course = Absent, !.runs = {}]
<1>1. old \in Job /\ Within(old) /\ old.pc = "map" /\ old.q \in QueryId
    BY DEF SetMapping, IInv, TypeOK, Within, Queries
<1>2. j \in Job /\ Within(j)
    BY <1>1 DEF Job, Steps, Within
<1>3. job' \in [Worker -> Job] /\ \A v \in Worker : Within(job[v])'
    BY <1>2, JobChanged DEF SetMapping, catalogVars, history
<1>4. mapped' = [mapped EXCEPT ![old.q] = (@ \ RunsOf(old.course)) \union old.runs]
    BY DEF SetMapping, Remapped
<1>5. mapped' \in [QueryId -> SUBSET Run]
    BY <1>1, <1>4 DEF Job, IInv, TypeOK
<1>6. TypeOK'
    BY <1>3, <1>5, UpdateTypes DEF SetMapping, history, IInv, TypeOK
<1>7. QueriesDistinct' /\ FiltersRecorded'
    BY DEF SetMapping, catalogVars, history, IInv, QueriesDistinct, FiltersRecorded, Queries, FilterOf
<1>8. NeverBeyondAllowed'
    BY <1>1, <1>4 DEF SetMapping, history, IInv, TypeOK, NeverBeyondAllowed, Copies, Within
<1> QED BY <1>3, <1>6, <1>7, <1>8 DEF IInv

\* Steps after which the worker has nothing to do.
LEMMA StopInvariant ==
    ASSUME IInv, NEW w \in Worker, Becomes(w, Idle),
           UNCHANGED <<catalogVars, stored, canonical, copy, mapped, everAllowed>>,
           runRow' \in SUBSET Run, troubles' \in 0..MaxTroubles, settled' \in SUBSET QueryId
    PROVE  IInv'
<1>1. job' \in [Worker -> Job] /\ \A v \in Worker : Within(job[v])'
    BY IdleIsFine, JobChanged DEF catalogVars
<1>2. TypeOK'
    BY <1>1, UpdateTypes DEF IInv, TypeOK
<1>3. QueriesDistinct' /\ FiltersRecorded' /\ NeverBeyondAllowed'
    BY ContentsKept DEF catalogVars
<1> QED BY <1>1, <1>2, <1>3 DEF IInv

LEMMA SynchronizeInvariant ==
    ASSUME IInv, NEW w \in Worker, Synchronize(w)
    PROVE  IInv'
<1>1. CASE \E q \in QueryId : Begin(w, q)
    BY <1>1, BeginInvariant
<1>2. CASE FindCanonical(w)
    BY <1>2, FindCanonicalInvariant
<1>3. CASE CreateCanonical(w)
    BY <1>3, CreateCanonicalInvariant
<1>4. CASE StoreCopy(w)
    BY <1>4, StoreCopyInvariant
<1>5. CASE SetMapping(w)
    BY <1>5, SetMappingInvariant
<1>6. CASE StoreTopLevelRuns(w)
  <2>1. job[w].filter \in Filter
      BY <1>6 DEF StoreTopLevelRuns, IInv, Within
  <2>2. runRow' \in SUBSET Run
      BY <1>6, <2>1, FilterAssumption DEF StoreTopLevelRuns, IInv, TypeOK
  <2>3. job[w].q \in QueryId
      BY <1>6 DEF StoreTopLevelRuns, IInv, Within, Queries
  <2>4. settled' \in SUBSET QueryId
      BY <1>6, <2>3 DEF StoreTopLevelRuns, Settle, IInv, TypeOK
  <2> QED BY <1>6, <2>2, <2>4, StopInvariant DEF StoreTopLevelRuns, IInv, TypeOK
<1>7. CASE Raises(w)
    BY <1>7, StopInvariant DEF Raises, contentVars, history, IInv, TypeOK
<1> QED BY <1>1, <1>2, <1>3, <1>4, <1>5, <1>6, <1>7 DEF Synchronize

LEMMA BreaksInvariant ==
    ASSUME IInv, NEW w \in Worker, Breaks(w)
    PROVE  IInv'
<1>1. troubles' \in 0..MaxTroubles
    BY RestrictedBoundAssumption DEF Breaks, IInv, TypeOK
<1> QED BY <1>1, StopInvariant DEF Breaks, contentVars, history, IInv, TypeOK

\* The full update rewrites copies with what their queries allow now.
LEMMA PadInvariant ==
    ASSUME IInv, NEW c \in Course, PadCopies(c)
    PROVE  IInv'
<1>1. PICK s \in SUBSET {q \in Queries : Allows[FilterOf(q)] # {}} :
         copy' = [q \in QueryId |-> IF q \in s THEN [copy[q] EXCEPT ![c] = RunsAllowed(FilterOf(q), c)]
                                                ELSE copy[q]]
    BY DEF PadCopies
<1>2. UNCHANGED <<catalogVars, stored, runRow, canonical, mapped, job, troubles, history>>
    BY DEF PadCopies
<1>3. \A q \in s : /\ RunsAllowed(FilterOf(q), c) \in SUBSET Run
                   /\ RunsAllowed(FilterOf(q), c) \subseteq everAllowed[q] \intersect RunsOf(c)
    BY <1>1, AllowedRuns, FilterOfQuery DEF IInv, TypeOK, FiltersRecorded
<1>4. copy' \in [QueryId -> [Course -> {Absent} \union SUBSET Run]]
    BY <1>1, <1>3 DEF IInv, TypeOK
<1>5. TypeOK'
    BY <1>2, <1>4, UpdateTypes DEF history, IInv, TypeOK
<1>6. \A w \in Worker : Within(job[w])'
    BY <1>2 DEF catalogVars, history, IInv, Within, Queries
<1>7. QueriesDistinct' /\ FiltersRecorded'
    BY <1>2 DEF catalogVars, history, IInv, QueriesDistinct, FiltersRecorded, Queries, FilterOf
<1>8. \A q \in QueryId, d \in Course :
         copy'[q][d] = copy[q][d] \/ (q \in s /\ d = c /\ copy'[q][d] = RunsAllowed(FilterOf(q), c))
    BY <1>1 DEF IInv, TypeOK
<1>9. NeverBeyondAllowed'
    BY <1>2, <1>3, <1>8 DEF history, IInv, NeverBeyondAllowed, Copies, RunsOf
<1> QED BY <1>5, <1>6, <1>7, <1>9 DEF IInv

LEMMA StepInvariant == IInv /\ [Next]_vars => IInv'
<1> SUFFICES ASSUME IInv, [Next]_vars PROVE IInv'
    OBVIOUS
<1>1. CASE EditCatalogs
    BY <1>1, EditInvariant
<1>2. ASSUME NEW c \in Course, StoreCourse(c) PROVE IInv'
  <2>1. TypeOK'
      BY <1>2, UpdateTypes DEF StoreCourse, history, IInv, TypeOK
  <2>2. QueriesDistinct' /\ FiltersRecorded' /\ NeverBeyondAllowed'
      BY <1>2, ContentsKept DEF StoreCourse, catalogVars, history
  <2>3. \A w \in Worker : Within(job[w])'
      BY <1>2 DEF StoreCourse, catalogVars, history, IInv, Within, Queries
  <2> QED BY <2>1, <2>2, <2>3 DEF IInv
<1>3. ASSUME NEW c \in Course, PadCopies(c) PROVE IInv'
    BY <1>3, PadInvariant
<1>4. ASSUME NEW w \in Worker, Synchronize(w) PROVE IInv'
    BY <1>4, SynchronizeInvariant
<1>5. ASSUME NEW w \in Worker, Breaks(w) PROVE IInv'
    BY <1>5, BreaksInvariant
<1>6. CASE UNCHANGED vars
  <2>1. TypeOK'
      BY <1>6, UpdateTypes DEF vars, contentVars, history, IInv, TypeOK
  <2>2. QueriesDistinct' /\ FiltersRecorded' /\ NeverBeyondAllowed'
      BY <1>6, ContentsKept DEF vars, contentVars, catalogVars, history
  <2>3. \A w \in Worker : Within(job[w])'
      BY <1>6 DEF vars, catalogVars, history, IInv, Within, Queries
  <2> QED BY <2>1, <2>2, <2>3 DEF IInv
<1> QED BY <1>1, <1>2, <1>3, <1>4, <1>5, <1>6 DEF Next

LEMMA InvariantHolds == Spec => []IInv
    BY InitInvariant, StepInvariant, PTL DEF Spec

-----------------------------------------------------------------------------
(* What an update leaves behind.  An update that nothing disturbed works   *)
(* with the filter its query still has, and so does every other update of  *)
(* that query, so what it has done for a course no step undoes: a copy     *)
(* stored or padded again gets the same runs, a mapping set again the same *)
(* rows.                                                                   *)

CopyAsAllowed(q, c) == copy[q][c] = RunsAllowed(FilterOf(q), c)

AsAllowed(q, c) ==
    /\ CopyAsAllowed(q, c)
    /\ mapped[q] \intersect RunsOf(c) = RunsAllowed(FilterOf(q), c)
    /\ RunsAllowed(FilterOf(q), c) \subseteq runRow

\* What an undisturbed update has done so far.
Sound(j) ==
    j.pc # "idle" /\ j.clean =>
       /\ j.filter = FilterOf(j.q)
       /\ j.pc = "map" => /\ CopyAsAllowed(j.q, j.course)
                          /\ j.runs = RunsAllowed(FilterOf(j.q), j.course) /\ j.runs \subseteq runRow
       /\ \A c \in CoursesOf(Allows[j.filter]) :
             c \notin j.todo /\ (j.pc = "courses" \/ c # j.course) => AsAllowed(j.q, c)

AtCourse(j) == j.pc \in {"create", "copy", "map"} => j.course \in Course

\* Updates of one query are disturbed together.
Together ==
    /\ \A w \in Worker : job[w].pc = "idle" => job[w].q = Absent
    /\ \A v, w \in Worker : job[v].q = job[w].q /\ job[v].q \in QueryId => job[v].clean = job[w].clean

Settled ==
    /\ settled \subseteq Queries
    /\ \A q \in settled : Undisturbed(q) /\ \A c \in CoursesOf(Allows[FilterOf(q)]) : AsAllowed(q, c)

JobsSound == Together /\ \A w \in Worker : AtCourse(job[w]) /\ Sound(job[w])

SInv == JobsSound /\ Settled

LEMMA QueryOfJob ==
    ASSUME IInv, Together, NEW w \in Worker
    PROVE  /\ job[w].pc # "idle" <=> job[w].q \in QueryId
           /\ job[w].pc # "idle" => job[w].q \in Queries /\ job[w].filter \in Filter
    BY AbsentAssumption DEF IInv, Within, Together, Queries

LEMMA CoursesAllowed ==
    ASSUME NEW f \in Filter
    PROVE  CoursesOf(Allows[f]) \in SUBSET Course
    BY FilterAssumption, RunAssumption DEF CoursesOf

\* All updates of the query of an undisturbed one are undisturbed.
LEMMA SoundUndisturbed ==
    ASSUME IInv, Together, NEW w \in Worker, job[w].pc # "idle", job[w].clean
    PROVE  Undisturbed(job[w].q)
    BY QueryOfJob DEF Together, Undisturbed

\* A step that keeps what undisturbed updates have done.
Keeps ==
    /\ UNCHANGED query
    /\ runRow \subseteq runRow'
    /\ \A q \in Queries, c \in Course :
          Undisturbed(q) => /\ CopyAsAllowed(q, c) => CopyAsAllowed(q, c)'
                            /\ AsAllowed(q, c) => AsAllowed(q, c)'

LEMMA JobStaysSound ==
    ASSUME IInv, SInv, Keeps, NEW v \in Worker, job'[v] = job[v]
    PROVE  AtCourse(job[v])' /\ Sound(job[v])'
<1>1. AtCourse(job[v])'
    BY DEF SInv, JobsSound, AtCourse
<1> SUFFICES ASSUME job[v].pc # "idle", job[v].clean
             PROVE  Sound(job[v])'
    BY <1>1 DEF Sound
<1> DEFINE j == job[v]
<1>2. Undisturbed(j.q) /\ j.q \in Queries /\ j.filter \in Filter
    BY SoundUndisturbed, QueryOfJob DEF SInv, JobsSound
<1>3. query'[j.q] = query[j.q] /\ j.filter = FilterOf(j.q)
    BY DEF Keeps, SInv, JobsSound, Sound
<1>4. ASSUME j.pc = "map"
      PROVE  /\ CopyAsAllowed(j.q, j.course)'
             /\ j.runs = RunsAllowed(FilterOf(j.q), j.course) /\ j.runs \subseteq runRow'
  <2>1. /\ CopyAsAllowed(j.q, j.course) /\ j.course \in Course
        /\ j.runs = RunsAllowed(FilterOf(j.q), j.course) /\ j.runs \subseteq runRow
      BY <1>4 DEF SInv, JobsSound, Sound, AtCourse
  <2> QED BY <1>2, <2>1 DEF Keeps
<1>5. ASSUME NEW c \in CoursesOf(Allows[j.filter]), c \notin j.todo, j.pc = "courses" \/ c # j.course
      PROVE  AsAllowed(j.q, c)'
  <2>1. AsAllowed(j.q, c) /\ c \in Course
      BY <1>2, <1>5, CoursesAllowed DEF SInv, JobsSound, Sound
  <2> QED BY <1>2, <2>1 DEF Keeps
<1> QED BY <1>3, <1>4, <1>5 DEF Sound, FilterOf, CopyAsAllowed

LEMMA StaysSettled ==
    ASSUME IInv, SInv, Keeps, NEW q \in Queries, Undisturbed(q),
           \A c \in CoursesOf(Allows[FilterOf(q)]) : AsAllowed(q, c)
    PROVE  q \in Queries' /\ \A c \in CoursesOf(Allows[FilterOf(q)'])  : AsAllowed(q, c)'
<1>1. FilterOf(q) \in Filter
    BY FilterOfQuery DEF IInv, TypeOK
<1>2. FilterOf(q)' = FilterOf(q) /\ q \in Queries'
    BY DEF Keeps, FilterOf, Queries
<1>3. ASSUME NEW c \in CoursesOf(Allows[FilterOf(q)])
      PROVE  AsAllowed(q, c)'
  <2>1. c \in Course
      BY <1>1, CoursesAllowed
  <2> QED BY <2>1 DEF Keeps
<1> QED BY <1>2, <1>3

\* Queries settled stay so when no update becomes disturbed; one more may join them.
LEMMA SettledStep ==
    ASSUME IInv, SInv, Keeps, \A q \in Queries : Undisturbed(q) => Undisturbed(q)',
           \A q \in settled' : q \notin settled =>
              /\ q \in Queries /\ Undisturbed(q)
              /\ \A c \in CoursesOf(Allows[FilterOf(q)]) : AsAllowed(q, c)
    PROVE  Settled'
<1> SUFFICES ASSUME NEW q \in settled'
             PROVE  q \in Queries' /\ Undisturbed(q)' /\ \A c \in CoursesOf(Allows[FilterOf(q)']) : AsAllowed(q, c)'
    BY DEF Settled
<1>1. /\ q \in Queries /\ Undisturbed(q)
      /\ \A c \in CoursesOf(Allows[FilterOf(q)]) : AsAllowed(q, c)
    BY DEF SInv, Settled
<1> QED BY <1>1, StaysSettled

\* A worker goes on with its update, or leaves it.
LEMMA WorkerGoesOn ==
    ASSUME IInv, SInv, Keeps, NEW w \in Worker, NEW j, Becomes(w, j),
           \/ j = Idle
           \/ j.pc # "idle" /\ job[w].pc # "idle" /\ j.q = job[w].q /\ j.clean = job[w].clean,
           AtCourse(job[w])', Sound(job[w])'
    PROVE  JobsSound' /\ \A q \in Queries : Undisturbed(q) => Undisturbed(q)'
<1>1. \A v \in Worker : job'[v] = IF v = w THEN j ELSE job[v]
    BY DEF Becomes, IInv, TypeOK
<1>2. \A v \in Worker : AtCourse(job[v])' /\ Sound(job[v])'
    BY <1>1, JobStaysSound
<1>3. Together'
    BY <1>1, AbsentAssumption DEF Together, SInv, JobsSound, Idle
<1>4. ASSUME NEW q \in Queries, Undisturbed(q)
      PROVE  Undisturbed(q)'
  <2> SUFFICES ASSUME NEW v \in Worker, job'[v].q = q
               PROVE  job'[v].clean
      BY DEF Undisturbed
  <2> QED BY <1>1, <1>4, AbsentAssumption DEF Undisturbed, Idle, Queries
<1> QED BY <1>2, <1>3, <1>4 DEF JobsSound

\* A worker with nothing to do has nothing to answer for.
LEMMA IdleSound ==
    ASSUME NEW w \in Worker, job'[w] = Idle
    PROVE  AtCourse(job[w])' /\ Sound(job[w])'
    BY DEF AtCourse, Sound, Idle

LEMMA KeepsByFrame ==
    ASSUME UNCHANGED <<query, copy, mapped>>, runRow \subseteq runRow'
    PROVE  Keeps
    BY DEF Keeps, CopyAsAllowed, AsAllowed, FilterOf

LEMMA NobodyMoves ==
    ASSUME IInv, SInv, Keeps, UNCHANGED <<job, settled>>
    PROVE  SInv'
<1>1. JobsSound'
    BY JobStaysSound DEF SInv, JobsSound, Together
<1>2. \A q \in Queries : Undisturbed(q) => Undisturbed(q)'
    BY DEF Undisturbed
<1>3. Settled'
    BY <1>2, SettledStep
<1> QED BY <1>1, <1>3 DEF SInv

LEMMA WorkerStops ==
    ASSUME IInv, SInv, NEW w \in Worker, Becomes(w, Idle), UNCHANGED <<query, copy, mapped, settled>>,
           runRow \subseteq runRow'
    PROVE  SInv'
<1>1. job'[w] = Idle
    BY DEF Becomes, IInv, TypeOK
<1>2. Keeps
    BY KeepsByFrame
<1>3. JobsSound' /\ \A q \in Queries : Undisturbed(q) => Undisturbed(q)'
    BY <1>1, <1>2, IdleSound, WorkerGoesOn
<1>4. Settled'
    BY <1>2, <1>3, SettledStep
<1> QED BY <1>3, <1>4 DEF SInv

LEMMA InitSound == Init => SInv
<1> SUFFICES ASSUME Init PROVE SInv
    OBVIOUS
<1>1. \A w \in Worker : job[w] = Idle
    BY DEF Init
<1>2. JobsSound
    BY <1>1, AbsentAssumption DEF JobsSound, Together, AtCourse, Sound, Idle
<1>3. Settled
    BY DEF Init, Settled
<1> QED BY <1>2, <1>3 DEF SInv

\* An edit disturbs the updates of the queries edited, and unsettles these.
LEMMA EditSound ==
    ASSUME IInv, SInv, EditCatalogs
    PROVE  SInv'
<1> DEFINE edited == {q \in QueryId : query'[q] # Absent /\ query'[q] # query[q]}
<1>1. Queries \subseteq Queries'
    BY CatalogStep DEF IInv, TypeOK, EditCatalogs
<1>2. \A q \in Queries : q \notin edited => query'[q] = query[q]
    BY <1>1 DEF Queries
<1>3. ASSUME NEW w \in Worker
      PROVE  /\ job'[w].pc = job[w].pc /\ job'[w].q = job[w].q /\ job'[w].filter = job[w].filter
             /\ job'[w].todo = job[w].todo /\ job'[w].course = job[w].course /\ job'[w].runs = job[w].runs
             /\ job'[w].clean = (job[w].clean /\ job[w].q \notin edited)
  <2>1. job'[w] = [job[w] EXCEPT !.clean = @ /\ job[w].q \notin edited]
      BY DEF EditCatalogs
  <2>2. job[w] \in Job
      BY DEF IInv, TypeOK
  <2> HIDE DEF edited
  <2> QED BY <2>1, <2>2 DEF Job
<1>4. settled' = settled \ edited /\ UNCHANGED contentVars
    BY DEF EditCatalogs
<1> HIDE DEF edited
<1>5. ASSUME NEW q \in Queries, q \notin edited, NEW c
      PROVE  (CopyAsAllowed(q, c) <=> CopyAsAllowed(q, c)') /\ (AsAllowed(q, c) <=> AsAllowed(q, c)')
    BY <1>2, <1>4, <1>5 DEF contentVars, CopyAsAllowed, AsAllowed, FilterOf
<1>6. Together'
    BY <1>3 DEF SInv, JobsSound, Together
<1>7. ASSUME NEW w \in Worker
      PROVE  AtCourse(job[w])' /\ Sound(job[w])'
  <2>1. AtCourse(job[w])'
      BY <1>3 DEF SInv, JobsSound, AtCourse
  <2> SUFFICES ASSUME job[w].pc # "idle", job[w].clean, job[w].q \notin edited
               PROVE  Sound(job[w])'
      BY <1>3, <2>1 DEF Sound
  <2>2. job[w].q \in Queries /\ query'[job[w].q] = query[job[w].q]
      BY <1>2, QueryOfJob DEF SInv, JobsSound
  <2>3. Sound(job[w]) /\ runRow' = runRow
      BY <1>4 DEF SInv, JobsSound, contentVars
  <2> QED BY <1>3, <1>5, <2>2, <2>3 DEF Sound, FilterOf, CopyAsAllowed
<1>8. Settled'
  <2> SUFFICES ASSUME NEW q \in settled, q \notin edited
               PROVE  /\ q \in Queries' /\ Undisturbed(q)'
                      /\ \A c \in CoursesOf(Allows[FilterOf(q)']) : AsAllowed(q, c)'
      BY <1>4 DEF Settled
  <2>1. /\ q \in Queries /\ Undisturbed(q)
        /\ \A c \in CoursesOf(Allows[FilterOf(q)]) : AsAllowed(q, c)
      BY DEF SInv, Settled
  <2>2. Undisturbed(q)'
    <3> SUFFICES ASSUME NEW v \in Worker, job'[v].q = q
                 PROVE  job'[v].clean
        BY DEF Undisturbed
    <3>1. job[v].q = q /\ job'[v].clean = (job[v].clean /\ q \notin edited)
        BY <1>3
    <3>2. job[v].clean
        BY <2>1, <3>1 DEF Undisturbed
    <3> QED BY <3>1, <3>2
  <2>3. FilterOf(q)' = FilterOf(q)
      BY <1>2, <2>1 DEF FilterOf
  <2> QED BY <1>1, <1>5, <2>1, <2>2, <2>3
<1> QED BY <1>6, <1>7, <1>8 DEF SInv, JobsSound

LEMMA BeginSound ==
    ASSUME IInv, SInv, NEW w \in Worker, NEW q \in QueryId, Begin(w, q)
    PROVE  SInv'
<1> DEFINE f == FilterOf(q)
           j == [Idle EXCEPT !.pc = "courses", !.q = q, !.filter = f,
                             !.todo = CoursesOf(Allows[f]), !.clean = Undisturbed(q)]
<1>1. /\ job[w].pc = "idle" /\ q \in Queries /\ UNCHANGED <<catalogVars, contentVars>>
      /\ \/ Allows[f] = {} /\ Settle(q) /\ UNCHANGED job
         \/ Becomes(w, j) /\ UNCHANGED settled
    BY DEF Begin
<1>2. Keeps
    BY <1>1, KeepsByFrame DEF catalogVars, contentVars
<1>3. CASE Allows[f] = {} /\ Settle(q) /\ UNCHANGED job
  <2>1. JobsSound'
      BY <1>2, <1>3, JobStaysSound DEF SInv, JobsSound, Together
  <2>2. \A r \in Queries : Undisturbed(r) => Undisturbed(r)'
      BY <1>3 DEF Undisturbed
  <2>3. Settled'
      BY <1>1, <1>2, <1>3, <2>2, SettledStep DEF Settle, CoursesOf
  <2> QED BY <2>1, <2>3 DEF SInv
<1>4. CASE Becomes(w, j) /\ UNCHANGED settled
  <2>1. /\ j.pc = "courses" /\ j.q = q /\ j.filter = f /\ j.todo = CoursesOf(Allows[f])
        /\ j.clean = Undisturbed(q)
      BY DEF Idle
  <2> HIDE DEF j
  <2>2. \A v \in Worker : job'[v] = IF v = w THEN j ELSE job[v]
      BY <1>4 DEF Becomes, IInv, TypeOK
  <2>3. f = FilterOf(q)'
      BY <1>2 DEF Keeps, FilterOf
  <2>4. AtCourse(job[w])' /\ Sound(job[w])'
      BY <2>1, <2>2, <2>3 DEF AtCourse, Sound
  <2>5. \A v \in Worker : AtCourse(job[v])' /\ Sound(job[v])'
      BY <1>2, <2>2, <2>4, JobStaysSound
  <2>6. \A v \in Worker : job[v].q = q => job[v].clean = Undisturbed(q)
      BY DEF SInv, JobsSound, Together, Undisturbed, IInv, TypeOK, Job
  <2>7. Together'
    <3>1. \A v \in Worker : job'[v].pc = "idle" => job'[v].q = Absent
        BY <2>1, <2>2 DEF SInv, JobsSound, Together
    <3>2. \A v \in Worker : job'[v].q = q => job'[v].clean = Undisturbed(q)
        BY <2>1, <2>2, <2>6
    <3>3. \A v \in Worker : job'[v].q # q => job'[v] = job[v]
        BY <2>1, <2>2
    <3> QED BY <3>1, <3>2, <3>3 DEF SInv, JobsSound, Together
  <2>8. \A r \in Queries : Undisturbed(r) => Undisturbed(r)'
      BY <2>1, <2>2 DEF Undisturbed
  <2>9. Settled'
      BY <1>2, <1>4, <2>8, SettledStep
  <2> QED BY <2>5, <2>7, <2>9 DEF SInv, JobsSound
<1> QED BY <1>1, <1>3, <1>4

LEMMA FindCanonicalSound ==
    ASSUME IInv, SInv, NEW w \in Worker, FindCanonical(w)
    PROVE  SInv'
<1> DEFINE old == job[w]
<1>1. PICK c \in old.todo \intersect stored :
         Becomes(w, [old EXCEPT !.pc = IF canonical[c] = 0 THEN "create" ELSE "copy",
                                !.todo = @ \ {c}, !.course = c])
    BY DEF FindCanonical
<1> DEFINE j == [old EXCEPT !.pc = IF canonical[c] = 0 THEN "create" ELSE "copy",
                            !.todo = @ \ {c}, !.course = c]
<1>2. old \in Job /\ old.pc = "courses" /\ c \in Course /\ Sound(old)
    BY <1>1 DEF FindCanonical, IInv, TypeOK, SInv, JobsSound
<1>3. /\ j.pc \in {"create", "copy"} /\ j.q = old.q /\ j.filter = old.filter /\ j.clean = old.clean
      /\ j.todo = old.todo \ {c} /\ j.course = c
    BY <1>2 DEF Job
<1>4. UNCHANGED <<catalogVars, contentVars, settled>> /\ job'[w] = j
    BY <1>1 DEF FindCanonical, history, Becomes, IInv, TypeOK
<1> HIDE DEF j
<1>5. Keeps
    BY <1>4, KeepsByFrame DEF catalogVars, contentVars
<1>6. AtCourse(job[w])'
    BY <1>2, <1>3, <1>4 DEF AtCourse
<1>7. Sound(job[w])'
    BY <1>2, <1>3, <1>4 DEF Sound, AsAllowed, CopyAsAllowed, FilterOf, catalogVars, contentVars
<1>8. JobsSound' /\ \A q \in Queries : Undisturbed(q) => Undisturbed(q)'
    BY <1>1, <1>2, <1>3, <1>5, <1>6, <1>7, WorkerGoesOn DEF j
<1>9. Settled'
    BY <1>4, <1>5, <1>8, SettledStep
<1> QED BY <1>8, <1>9 DEF SInv

LEMMA CreateCanonicalSound ==
    ASSUME IInv, SInv, NEW w \in Worker, CreateCanonical(w)
    PROVE  SInv'
<1> DEFINE old == job[w]
           j   == [old EXCEPT !.pc = "copy"]
<1>1. old \in Job /\ old.pc = "create" /\ Sound(old) /\ AtCourse(old)
    BY DEF CreateCanonical, IInv, TypeOK, SInv, JobsSound
<1>2. /\ j.pc = "copy" /\ j.q = old.q /\ j.filter = old.filter /\ j.clean = old.clean
      /\ j.todo = old.todo /\ j.course = old.course
    BY <1>1 DEF Job
<1>3. /\ UNCHANGED <<catalogVars, runRow, copy, mapped, settled>> /\ Becomes(w, j)
      /\ job'[w] = j
    BY DEF CreateCanonical, history, Becomes, IInv, TypeOK
<1> HIDE DEF j
<1>4. Keeps
    BY <1>3, KeepsByFrame DEF catalogVars
<1>5. AtCourse(job[w])' /\ Sound(job[w])'
    BY <1>1, <1>2, <1>3 DEF AtCourse, Sound, AsAllowed, CopyAsAllowed, FilterOf, catalogVars
<1>6. JobsSound' /\ \A q \in Queries : Undisturbed(q) => Undisturbed(q)'
    BY <1>1, <1>2, <1>3, <1>4, <1>5, WorkerGoesOn
<1>7. Settled'
    BY <1>3, <1>4, <1>6, SettledStep
<1> QED BY <1>6, <1>7 DEF SInv

\* The copy gets what the query's filter allows; a copy that had it already gets it again.
LEMMA StoreCopySound ==
    ASSUME IInv, SInv, NEW w \in Worker, StoreCopy(w)
    PROVE  SInv'
<1> DEFINE old  == job[w]
           f    == FilterSeen(old.q, old.course, old.filter)
           runs == RunsAllowed(f, old.course)
           j    == [old EXCEPT !.pc = "map", !.runs = runs]
<1>1. /\ old \in Job /\ old.pc = "copy" /\ old.q \in Queries /\ old.q \in QueryId /\ old.course \in Course
      /\ old.filter \in Filter /\ Sound(old)
    BY QueryOfJob DEF StoreCopy, IInv, TypeOK, SInv, JobsSound, AtCourse
<1>2. /\ copy' = [copy EXCEPT ![old.q][old.course] = runs]
      /\ runRow' = runRow \union runs /\ Becomes(w, j) /\ job'[w] = j
      /\ UNCHANGED <<catalogVars, mapped, settled>>
    BY DEF StoreCopy, history, Becomes, IInv, TypeOK
<1>3. /\ j.pc = "map" /\ j.q = old.q /\ j.filter = old.filter /\ j.clean = old.clean
      /\ j.todo = old.todo /\ j.course = old.course /\ j.runs = runs
    BY <1>1 DEF Job
<1>4. CopyAsAllowed(old.q, old.course) => runs = RunsAllowed(FilterOf(old.q), old.course)
  <2>1. RunsAllowed(FilterOf(old.q), old.course) # Absent
      BY <1>1, AllowedRuns, FilterOfQuery, NoCopyAssumption DEF IInv, TypeOK
  <2> QED BY <2>1 DEF CopyAsAllowed, FilterSeen
<1>5. old.clean => runs = RunsAllowed(FilterOf(old.q), old.course)
    BY <1>1 DEF Sound, FilterSeen
<1> HIDE DEF j, runs
<1>6. \A q \in QueryId, c \in Course :
         copy'[q][c] = IF q = old.q /\ c = old.course THEN runs ELSE copy[q][c]
    BY <1>1, <1>2 DEF IInv, TypeOK
<1>7. Keeps
  <2>1. ASSUME NEW q \in Queries, NEW c \in Course, CopyAsAllowed(q, c)
        PROVE  CopyAsAllowed(q, c)'
      BY <1>2, <1>4, <1>6, <2>1 DEF CopyAsAllowed, catalogVars, FilterOf, Queries
  <2>2. ASSUME NEW q \in Queries, NEW c \in Course, AsAllowed(q, c)
        PROVE  AsAllowed(q, c)'
      BY <1>2, <2>1, <2>2 DEF AsAllowed, catalogVars, FilterOf
  <2> QED BY <1>2, <2>1, <2>2 DEF Keeps, catalogVars
<1>8. AtCourse(job[w])'
    BY <1>1, <1>2, <1>3 DEF AtCourse
<1>9. Sound(job[w])'
  <2> SUFFICES ASSUME old.clean PROVE Sound(job[w])'
      BY <1>2, <1>3 DEF Sound
  <2>1. old.filter = FilterOf(old.q) /\ FilterOf(old.q)' = FilterOf(old.q)
      BY <1>1, <1>2, <1>3 DEF Sound, FilterOf, catalogVars
  <2>2. CopyAsAllowed(old.q, old.course)' /\ runs = RunsAllowed(FilterOf(old.q), old.course) /\ runs \subseteq runRow'
      BY <1>1, <1>2, <1>3, <1>5, <1>6, <2>1 DEF CopyAsAllowed
  <2>3. ASSUME NEW c \in CoursesOf(Allows[old.filter]), c \notin old.todo, c # old.course
        PROVE  AsAllowed(old.q, c)'
    <3>1. AsAllowed(old.q, c) /\ c \in Course
        BY <1>1, <2>3, CoursesAllowed DEF Sound
    <3>2. Undisturbed(old.q)
        BY <1>1, SoundUndisturbed DEF SInv, JobsSound
    <3> QED BY <1>1, <1>2, <1>3, <1>7, <3>1, <3>2 DEF Keeps
  <2> QED BY <1>2, <1>3, <2>1, <2>2, <2>3 DEF Sound, FilterOf, CopyAsAllowed
<1>10. JobsSound' /\ \A q \in Queries : Undisturbed(q) => Undisturbed(q)'
    BY <1>1, <1>2, <1>3, <1>7, <1>8, <1>9, WorkerGoesOn
<1>11. Settled'
    BY <1>2, <1>7, <1>10, SettledStep
<1> QED BY <1>10, <1>11 DEF SInv

\* Runs of other courses keep their mapping.
LEMMA RemappedRuns ==
    ASSUME NEW m, NEW c \in Course, NEW d \in Course, NEW new \in SUBSET RunsOf(c)
    PROVE  Remapped(m, c, new) \intersect RunsOf(d) = IF d = c THEN new ELSE m \intersect RunsOf(d)
    BY DEF Remapped, RunsOf

LEMMA SetMappingSound ==
    ASSUME IInv, SInv, NEW w \in Worker, SetMapping(w)
    PROVE  SInv'
<1> DEFINE old == job[w]
           j   == [old EXCEPT !.pc = "courses", !.course = Absent, !.runs = {}]
<1>1. /\ old \in Job /\ old.pc = "map" /\ old.q \in Queries /\ old.q \in QueryId /\ old.course \in Course
      /\ old.filter \in Filter /\ Sound(old) /\ FilterOf(old.q) \in Filter
    BY QueryOfJob, FilterOfQuery DEF SetMapping, IInv, TypeOK, SInv, JobsSound, AtCourse
<1>2. /\ mapped' = [mapped EXCEPT ![old.q] = Remapped(@, old.course, old.runs)]
      /\ Becomes(w, j) /\ job'[w] = j
      /\ UNCHANGED <<catalogVars, runRow, copy, settled>>
    BY DEF SetMapping, history, Becomes, IInv, TypeOK
<1>3. /\ j.pc = "courses" /\ j.q = old.q /\ j.filter = old.filter /\ j.clean = old.clean
      /\ j.todo = old.todo
    BY <1>1 DEF Job
<1> HIDE DEF j
<1>4. \A q \in QueryId : mapped'[q] = IF q = old.q THEN Remapped(mapped[q], old.course, old.runs) ELSE mapped[q]
    BY <1>2 DEF IInv, TypeOK
<1>5. ASSUME old.clean
      PROVE  /\ old.filter = FilterOf(old.q) /\ CopyAsAllowed(old.q, old.course)
             /\ old.runs = RunsAllowed(FilterOf(old.q), old.course) /\ old.runs \subseteq runRow
             /\ old.runs \in SUBSET RunsOf(old.course)
  <2>1. /\ old.filter = FilterOf(old.q) /\ CopyAsAllowed(old.q, old.course)
        /\ old.runs = RunsAllowed(FilterOf(old.q), old.course) /\ old.runs \subseteq runRow
      BY <1>1, <1>5 DEF Sound
  <2> QED BY <1>1, <2>1, AllowedRuns
<1>6. ASSUME NEW c \in Course, old.clean
      PROVE  mapped'[old.q] \intersect RunsOf(c) =
                IF c = old.course THEN RunsAllowed(FilterOf(old.q), c) ELSE mapped[old.q] \intersect RunsOf(c)
    BY <1>1, <1>4, <1>5, <1>6, RemappedRuns
<1>7. Keeps
  <2>1. ASSUME NEW q \in Queries, NEW c \in Course, Undisturbed(q), AsAllowed(q, c)
        PROVE  AsAllowed(q, c)'
    <3>1. q = old.q => old.clean
        BY <2>1 DEF Undisturbed
    <3>2. mapped'[q] \intersect RunsOf(c) = RunsAllowed(FilterOf(q), c)
        BY <1>4, <1>6, <2>1, <3>1 DEF AsAllowed, Queries
    <3> QED BY <1>2, <2>1, <3>2 DEF AsAllowed, CopyAsAllowed, FilterOf, catalogVars
  <2> QED BY <1>2, <2>1 DEF Keeps, CopyAsAllowed, FilterOf, catalogVars
<1>8. AtCourse(job[w])'
    BY <1>2, <1>3 DEF AtCourse
<1>9. Sound(job[w])'
  <2> SUFFICES ASSUME old.clean PROVE Sound(job[w])'
      BY <1>2, <1>3 DEF Sound
  <2>1. old.filter = FilterOf(old.q) /\ FilterOf(old.q)' = FilterOf(old.q)
      BY <1>2, <1>3, <1>5 DEF FilterOf, catalogVars
  <2>2. ASSUME NEW c \in CoursesOf(Allows[old.filter]), c \notin old.todo
        PROVE  AsAllowed(old.q, c)'
    <3>1. c \in Course
        BY <1>1, CoursesAllowed
    <3>2. CASE c = old.course
        BY <1>2, <1>3, <1>5, <1>6, <2>1, <3>1, <3>2 DEF AsAllowed, CopyAsAllowed
    <3>3. CASE c # old.course
      <4>1. AsAllowed(old.q, c)
          BY <1>1, <2>2, <3>3 DEF Sound
      <4>2. Undisturbed(old.q)
          BY <1>1, SoundUndisturbed DEF SInv, JobsSound
      <4> QED BY <1>1, <1>2, <1>3, <1>7, <3>1, <4>1, <4>2 DEF Keeps
    <3> QED BY <3>2, <3>3
  <2> QED BY <1>2, <1>3, <2>1, <2>2 DEF Sound, FilterOf
<1>10. JobsSound' /\ \A q \in Queries : Undisturbed(q) => Undisturbed(q)'
    BY <1>1, <1>2, <1>3, <1>7, <1>8, <1>9, WorkerGoesOn
<1>11. Settled'
    BY <1>2, <1>7, <1>10, SettledStep
<1> QED BY <1>10, <1>11 DEF SInv

\* The end of an undisturbed update: every course is as allowed.
LEMMA StoreTopLevelRunsSound ==
    ASSUME IInv, SInv, NEW w \in Worker, StoreTopLevelRuns(w)
    PROVE  SInv'
<1> DEFINE q == job[w].q
<1>1. /\ job[w].pc = "courses" /\ job[w].todo = {} /\ Becomes(w, Idle) /\ Settle(q)
      /\ UNCHANGED <<catalogVars, copy, mapped>> /\ runRow \subseteq runRow'
    BY DEF StoreTopLevelRuns
<1>2. job'[w] = Idle
    BY <1>1 DEF Becomes, IInv, TypeOK
<1>3. Keeps
    BY <1>1, KeepsByFrame DEF catalogVars
<1>4. JobsSound' /\ \A r \in Queries : Undisturbed(r) => Undisturbed(r)'
    BY <1>1, <1>2, <1>3, IdleSound, WorkerGoesOn
<1>5. q \in Queries
    BY <1>1, QueryOfJob DEF SInv, JobsSound
<1>6. Undisturbed(q) => \A c \in CoursesOf(Allows[FilterOf(q)]) : AsAllowed(q, c)
    BY <1>1 DEF SInv, JobsSound, Sound, Undisturbed
<1>7. Settled'
    BY <1>1, <1>3, <1>4, <1>5, <1>6, SettledStep DEF Settle
<1> QED BY <1>4, <1>7 DEF SInv

\* The full update gives the copies of settled queries what they have.
LEMMA PadSound ==
    ASSUME IInv, SInv, NEW c \in Course, PadCopies(c)
    PROVE  SInv'
<1>1. PICK s \in SUBSET {q \in Queries : copy[q][c] # Absent} :
         copy' = [q \in QueryId |-> IF q \in s THEN [copy[q] EXCEPT ![c] = RunsAllowed(FilterOf(q), c)]
                                                ELSE copy[q]]
    BY DEF PadCopies
<1>2. UNCHANGED <<catalogVars, runRow, mapped, job, settled>>
    BY DEF PadCopies, history
<1>3. \A q \in QueryId, d \in Course :
         copy'[q][d] = copy[q][d] \/ (d = c /\ copy'[q][d] = RunsAllowed(FilterOf(q), c))
    BY <1>1 DEF IInv, TypeOK
<1>4. \A q \in Queries, d \in Course : CopyAsAllowed(q, d) => CopyAsAllowed(q, d)'
    BY <1>2, <1>3 DEF CopyAsAllowed, catalogVars, FilterOf, Queries
<1>5. Keeps
    BY <1>2, <1>4 DEF Keeps, AsAllowed, catalogVars, FilterOf
<1> QED BY <1>2, <1>5, NobodyMoves

LEMMA StepSound == IInv /\ SInv /\ [Next]_vars => SInv'
<1> SUFFICES ASSUME IInv, SInv, [Next]_vars PROVE SInv'
    OBVIOUS
<1>1. CASE EditCatalogs
    BY <1>1, EditSound
<1>2. ASSUME NEW c \in Course, StoreCourse(c) PROVE SInv'
    BY <1>2, KeepsByFrame, NobodyMoves DEF StoreCourse, catalogVars, history
<1>3. ASSUME NEW c \in Course, PadCopies(c) PROVE SInv'
    BY <1>3, PadSound
<1>4. ASSUME NEW w \in Worker, Synchronize(w) PROVE SInv'
  <2>1. ASSUME Raises(w) PROVE SInv'
      BY <2>1, WorkerStops DEF Raises, catalogVars, contentVars, history
  <2> QED BY <1>4, <2>1, BeginSound, FindCanonicalSound, CreateCanonicalSound, StoreCopySound,
             SetMappingSound, StoreTopLevelRunsSound DEF Synchronize
<1>5. ASSUME NEW w \in Worker, Breaks(w) PROVE SInv'
    BY <1>5, WorkerStops DEF Breaks, catalogVars, contentVars, history
<1>6. CASE UNCHANGED vars
    BY <1>6, KeepsByFrame, NobodyMoves DEF vars, catalogVars, contentVars, history
<1> QED BY <1>1, <1>2, <1>3, <1>4, <1>5, <1>6 DEF Next

LEMMA SoundHolds == Spec => [](IInv /\ SInv)
<1>1. Init => IInv /\ SInv
    BY InitInvariant, InitSound
<1>2. IInv /\ SInv /\ [Next]_vars => (IInv /\ SInv)'
    BY StepInvariant, StepSound
<1> QED BY <1>1, <1>2, PTL DEF Spec

\* What the API answers about a run allowed in a course listed, for a settled query.
LEMMA ServedWhenSettled ==
    ASSUME IInv, SInv, NEW e \in Customer, NEW k \in CatalogsOf(e), catalog[k] \in settled,
           NEW r \in Allows[FilterOf(catalog[k])], ParentOf[r] \in Members(catalog[k])
    PROVE  RunAnswered(e, k, r)
<1> DEFINE q == catalog[k]
           f == FilterOf(q)
           c == ParentOf[r]
<1>1. q \in Queries /\ q \in QueryId /\ f \in Filter
    BY FilterOfQuery DEF SInv, Settled, IInv, TypeOK, Queries
<1>2. r \in Run /\ r \notin Course /\ c \in Course
    BY <1>1, FilterAssumption, RunAssumption
<1>3. c \in CoursesOf(Allows[f]) /\ r \in RunsOf(c) /\ r \in RunsAllowed(f, c)
    BY <1>2 DEF CoursesOf, RunsOf, RunsAllowed
<1>4. AsAllowed(q, c)
    BY <1>3 DEF SInv, Settled
<1>5. r \in copy[q][c] /\ r \in mapped[q] /\ r \in runRow /\ copy[q][c] # Absent
    BY <1>1, <1>3, <1>4, AllowedRuns, NoCopyAssumption DEF AsAllowed, CopyAsAllowed
<1>6. r \in MappedByAny
    BY <1>1, <1>5 DEF MappedByAny
<1>7. \A p : MatchingContent(p, {r}, TRUE) \subseteq {c}
    BY <1>2 DEF MatchingContent, CoursesOf
<1>8. MatchingContent(q, {r}, TRUE) = {c}
  <2>1. r \notin Hidden(q, TRUE)
      BY <1>5 DEF Hidden
  <2>2. c \in CoursesOf(({r} \intersect runRow) \ Hidden(q, TRUE))
      BY <1>5, <2>1 DEF CoursesOf
  <2> QED BY <1>7, <2>2 DEF MatchingContent
<1>9. \A p : MatchingContent(p, {r}, FALSE) = {}
    BY <1>2, <1>6 DEF MatchingContent, CoursesOf, Hidden
<1>10. \A p : {r} \intersect Members(p) = {}
    BY <1>2 DEF Members, IInv, TypeOK
<1>11. RunsServed(q, c, TRUE) = copy[q][c] /\ RunsServed(q, c, FALSE) = {}
    BY <1>5 DEF RunsServed
<1>12. k \in CatalogsContaining(e, {r}, TRUE) /\ ~CustomerContains(e, {r}, FALSE)
    BY <1>8, <1>9 DEF CatalogsContaining, CatalogContains, CustomerContains
<1>13. ASSUME NEW byUuid \in BOOLEAN
       PROVE  ItemsFor(e, r, byUuid, TRUE) = {c} /\ ItemsFor(e, r, byUuid, FALSE) = {}
    BY <1>7, <1>8, <1>9, <1>10 DEF ItemsFor
<1>14. c \in Listing(q, {}, TRUE) /\ (c \in Listing(q, {}, FALSE) => c \in Open)
    BY <1>5, <1>11 DEF Listing
<1>15. c \in CustomerFilters(e, {c, r})
    BY DEF CustomerFilters, FilterKeys
<1> QED BY <1>5, <1>11, <1>12, <1>13, <1>14, <1>15 DEF RunAnswered

-----------------------------------------------------------------------------
\* Rows, jobs and histories keep their shapes.
THEOREM TypeCorrect == Spec => []TypeOK
<1>1. IInv => TypeOK
    BY DEF IInv
<1> QED BY <1>1, InvariantHolds, PTL

\* Whatever requests come in, in whatever order, catalogs have queries that exist and no
\* two queries share a filter or a uuid.
THEOREM QueriesStayDistinct == Spec => []QueriesDistinct
<1>1. IInv => QueriesDistinct
    BY DEF IInv
<1> QED BY <1>1, InvariantHolds, PTL

\* Whatever is edited, stored, padded or broken off while updates run, a query's copies and
\* mapping hold no restricted run that none of its filters ever allowed.
THEOREM NoRunLeaks == Spec => []NeverBeyondAllowed
<1>1. IInv => NeverBeyondAllowed
    BY DEF IInv
<1> QED BY <1>1, InvariantHolds, PTL

\* A query whose last update ended with nothing disturbing it has, for every course with
\* runs its filter allows, a copy with these runs, mapped to these, with rows: no later
\* update, padding or ingest undoes it before the filter is edited.
THEOREM SettledStaysAllowed == Spec => []SettledAsAllowed
<1>1. IInv /\ SInv => SettledAsAllowed
    BY DEF SInv, Settled, SettledAsAllowed, AsAllowed, CopyAsAllowed
<1> QED BY <1>1, SoundHolds, PTL

\* Then the endpoints agree on every allowed run of a course listed, whatever runs the
\* other queries allow: v2 contains it and serves it with its course, v1 does not let on.
THEOREM SettledIsServed == Spec => []ServedAsAllowed
<1>1. IInv /\ SInv => ServedAsAllowed
    BY ServedWhenSettled DEF ServedAsAllowed
<1> QED BY <1>1, SoundHolds, PTL
=============================================================================
