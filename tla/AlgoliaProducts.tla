---------------------------- MODULE AlgoliaProducts ----------------------------
(***************************************************************************)
(* The objects a batch of the Algolia index is built from                  *)
(* (_get_algolia_products_for_batch in apps/api/tasks.py): which catalogs, *)
(* customers, queries and tags find a course, a program, a pathway or a    *)
(* video, and what a course is shown with.                                 *)
(*                                                                         *)
(* A batch reads the database as it is, and mappings that may have been    *)
(* cached half an hour before (apps/search/indexing_mappings.py).  The     *)
(* actions change the database a little at a time; objects are a function  *)
(* of the state and of the batch.  IndexBatch has the writing of objects.  *)
(*                                                                         *)
(* Courses without an advertised run are never indexable, so the branch    *)
(* for courses that have restricted runs only never runs.  Academies are   *)
(* left out but for their tags; objects too large for Algolia, too.        *)
(***************************************************************************)
EXTENDS CourseFields, SequencesExt

CONSTANTS
    Course, Program, Pathway,
    Query, Catalog, QueryOf, CustomerOf,  \* the query and the customer of each catalog
    Tag, TagsOf, Tagged,      \* tags of the academies of a catalog; content of a tag
    Translated,               \* content with a Spanish translation
    Payloads,                 \* payloads each course may have
    InitialMembers, InitialParts, InitialPayload,
    ShardSize,                \* ALGOLIA_UUID_BATCH_SIZE
    MaxChanges, MaxTime       \* bounds: changes, days

Parent == Program \union Pathway
Content == Course \union Parent

ASSUME KeyAssumption ==
    Course \intersect Program = {} /\ Course \intersect Pathway = {} /\ Program \intersect Pathway = {}
ASSUME CatalogAssumption == /\ IsFiniteSet(Query) /\ IsFiniteSet(Catalog)
                            /\ QueryOf \in [Catalog -> Query] /\ DOMAIN CustomerOf = Catalog
ASSUME TagAssumption == TagsOf \in [Catalog -> SUBSET Tag] /\ Tagged \in [Tag -> SUBSET Content]
ASSUME PayloadAssumption ==
    \A c \in Course : \A p \in Payloads[c] : IsFiniteSet(DOMAIN p.runs)
ASSUME InitialAssumption ==
    /\ InitialMembers \in [Content -> SUBSET Query]
    /\ InitialParts \in [Parent -> SUBSET (Course \union Program)]
    /\ \A p \in Program : InitialParts[p] \subseteq Course
    /\ DOMAIN InitialPayload = Course /\ \A c \in Course : InitialPayload[c] \in Payloads[c]
ASSUME ShardAssumption == ShardSize \in Nat \ {0} /\ Translated \subseteq Content

VARIABLES
    queries,      \* the CatalogQuery rows each content is a member of
    runQueries,   \* and those the runs of a course are members of
    parts,        \* courses of a program; courses and programs of a pathway
    payload,      \* json_metadata of a course
    enrollBy,     \* its normalized_metadata.enroll_by_date
    active,       \* programs with a type, a marketing url, status active, not hidden
    mappings,     \* the cached IndexingMappings
    now, changes

database == <<queries, runQueries, parts, payload, enrollBy, active>>
vars == <<database, mappings, now, changes>>

-----------------------------------------------------------------------------
(* The mappings.                                                           *)

IndexableCourses == {c \in Course : ShouldIndexCourse(payload[c], enrollBy[c], now)}

Computed ==
    [courses   |-> [p \in Program |-> parts[p]],
     members   |-> [w \in Pathway |-> parts[w]],
     indexable |-> IndexableCourses \union active \union Pathway]

Fresh == mappings = Computed

TypeOK ==
    /\ queries \in [Content -> SUBSET Query]
    /\ runQueries \in [Course -> SUBSET Query]
    /\ parts \in [Parent -> SUBSET (Course \union Program)]
    /\ \A p \in Program : parts[p] \subseteq Course
    /\ DOMAIN payload = Course /\ DOMAIN enrollBy = Course
    /\ \A c \in Course : /\ payload[c] \in Payloads[c]
                         /\ enrollBy[c] \in {Missing} \union {NormalizedEnrollBy(p) : p \in Payloads[c]}
    /\ active \subseteq Program
    /\ mappings \in [courses : [Program -> SUBSET Course], members : [Pathway -> SUBSET (Course \union Program)],
                     indexable : SUBSET Content]

Init ==
    /\ queries = [k \in Content |-> InitialMembers[k]]
    /\ runQueries = [c \in Course |-> {}]
    /\ parts = InitialParts
    /\ payload = InitialPayload
    /\ enrollBy \in {e \in [Course -> {Missing} \union {NormalizedEnrollBy(payload[c]) : c \in Course}] :
                      \A c \in Course : e[c] \in {Missing, NormalizedEnrollBy(payload[c])}}
    /\ active = Program
    /\ now = 0
    /\ mappings = Computed
    /\ changes = 0

-----------------------------------------------------------------------------
(* What changes.                                                           *)

Change == changes < MaxChanges /\ changes' = changes + 1 /\ UNCHANGED <<mappings, now>>

Toggle(s, x) == IF x \in s THEN s \ {x} ELSE s \union {x}

\* The update of a query.
ChangeMembership(k, q) ==
    /\ Change
    /\ queries' = [queries EXCEPT ![k] = Toggle(@, q)]
    /\ UNCHANGED <<runQueries, parts, payload, enrollBy, active>>

ChangeRunMembership(c, q) ==
    /\ Change
    /\ runQueries' = [runQueries EXCEPT ![c] = Toggle(@, q)]
    /\ UNCHANGED <<queries, parts, payload, enrollBy, active>>

ChangeParts(k, parent) ==
    /\ Change
    /\ parts' = [parts EXCEPT ![parent] = Toggle(@, k)]
    /\ UNCHANGED <<queries, runQueries, payload, enrollBy, active>>

\* The ingest stores a course; its normalized metadata stay as they were, or missing.
IngestCourse(c) ==
    /\ Change
    /\ \E new \in Payloads[c] \ {payload[c]} : payload' = [payload EXCEPT ![c] = new]
    /\ UNCHANGED <<queries, runQueries, parts, enrollBy, active>>

\* The full update normalizes it.
NormalizeCourse(c) ==
    /\ enrollBy[c] # NormalizedEnrollBy(payload[c])
    /\ enrollBy' = [enrollBy EXCEPT ![c] = NormalizedEnrollBy(payload[c])]
    /\ UNCHANGED <<queries, runQueries, parts, payload, active, mappings, now, changes>>

ChangeProgram(p) ==
    /\ Change
    /\ active' = Toggle(active, p)
    /\ UNCHANGED <<queries, runQueries, parts, payload, enrollBy>>

\* The cache expired or was invalidated.
ComputeMappings == mappings' = Computed /\ UNCHANGED <<database, now, changes>>

Tick == now < MaxTime /\ now' = now + 1 /\ UNCHANGED <<database, mappings, changes>>

Next ==
    \/ \E k \in Content, q \in Query : ChangeMembership(k, q)
    \/ \E c \in Course, q \in Query : ChangeRunMembership(c, q)
    \/ \E parent \in Parent : \E k \in Course \union (IF parent \in Pathway THEN Program ELSE {}) :
          ChangeParts(k, parent)
    \/ \E c \in Course : IngestCourse(c) \/ NormalizeCourse(c)
    \/ \E p \in Program : ChangeProgram(p)
    \/ ComputeMappings \/ Tick

Spec == Init /\ [][Next]_vars

-----------------------------------------------------------------------------
(* A batch.  Facets are the values an object can be searched by.           *)

CatalogsOf(qs) == {cat \in Catalog : QueryOf[cat] \in qs}
Customers(cats) == {CustomerOf[cat] : cat \in cats}

Facets(qs, cats, tags) ==
    [queries |-> qs, catalogs |-> cats, customers |-> Customers(cats), tags |-> tags]
NoFacets == Facets({}, {}, {})
Union(fs) ==
    [queries |-> UNION {f.queries : f \in fs}, catalogs |-> UNION {f.catalogs : f \in fs},
     customers |-> UNION {f.customers : f \in fs}, tags |-> UNION {f.tags : f \in fs}]

\* The content requested, and what is part of it.
Loaded(batch) ==
    (batch \union UNION {parts[k] : k \in batch \intersect Parent}) \intersect mappings.indexable

\* First pass: what content is a member of; runs contribute to their course.
MemberQueries(k) == queries[k] \union (IF k \in Course THEN runQueries[k] ELSE {})
Direct(k) ==
    LET cats == CatalogsOf(MemberQueries(k))
    IN  Facets(MemberQueries(k), cats, {t \in UNION {TagsOf[cat] : cat \in cats} : k \in Tagged[t]})
DirectIn(batch, k) == IF k \in Loaded(batch) THEN Direct(k) ELSE NoFacets

\* academy_tags_by_catalog_uuid: the tags met in a catalog, on whatever content of the batch.
TagsMet(batch, cat) ==
    UNION {Direct(k).tags \intersect TagsOf[cat] : k \in {k \in Loaded(batch) : cat \in Direct(k).catalogs}}

\* Second pass: a program has what all its courses have.
Common_OfThoseLoaded(batch, p) ==
    LET found == mappings.courses[p] \intersect Loaded(batch)
    IN  {cat \in Catalog : found # {} /\ \A c \in found : cat \in Direct(c).catalogs}
Common(batch, p) ==
    {cat \in Catalog : mappings.courses[p] # {} /\
        \A c \in mappings.courses[p] : cat \in DirectIn(batch, c).catalogs}

Inherited_WithoutQueries(batch, cats) ==
    Facets({}, cats, UNION {TagsMet(batch, cat) : cat \in cats})
Inherited(batch, cats) ==
    Facets({QueryOf[cat] : cat \in cats}, cats, UNION {TagsMet(batch, cat) : cat \in cats})

SecondPass(batch, k) ==
    IF k \in Program /\ k \in Loaded(batch)
    THEN Union({Direct(k), Inherited(batch, Common(batch, k))})
    ELSE DirectIn(batch, k)

\* Third pass: a pathway has what any of its courses and programs have by then.
MembersOfPathway_CoursesOnly(w) == mappings.members[w] \intersect Course
MembersOfPathway(w) == mappings.members[w]
ThirdPass(batch, k) ==
    IF k \in Pathway
    THEN Union({DirectIn(batch, k)} \union {SecondPass(batch, m) : m \in MembersOfPathway(k)})
    ELSE SecondPass(batch, k)

\* add_metadata_to_algolia_objects: objects that each hold a part of one kind of values, again in
\* Spanish for translated content.
Kinds == {"catalogs", "customers", "queries"}
Languages(k) == IF k \in Translated THEN {"en", "es"} ELSE {"en"}

Shards(values) ==
    LET sorted == SetToSeq(values)
        n == Len(sorted)
    IN  {[shard |-> i, values |-> {sorted[j] : j \in (i * ShardSize + 1)..(IF (i + 1) * ShardSize < n THEN (i + 1) * ShardSize ELSE n)}]
            : i \in 0..((n + ShardSize - 1) \div ShardSize - 1)}

ObjectsOf(k, facets) ==
    UNION {{[content |-> k, kind |-> kind, language |-> l, shard |-> s.shard, values |-> s.values,
             tags |-> facets.tags] : s \in Shards(facets[kind])} : kind \in Kinds, l \in Languages(k)}

\* _build_objects_by_content_key: the objects of what is in the batch itself.
Objects(batch) ==
    UNION {ObjectsOf(k, ThirdPass(batch, k)) : k \in batch \intersect Loaded(batch)}

\* A video has what its course has; the task for videos looks it up by itself.
VideoFacets(c) == [Direct(c) EXCEPT !.tags = {}]

\* Its objects are sharded in the same way, and never translated.
VideoObjects(c) ==
    UNION {{[kind |-> kind, shard |-> s.shard, values |-> s.values] : s \in Shards(VideoFacets(c)[kind])}
             : kind \in Kinds}

-----------------------------------------------------------------------------
(* Properties.                                                             *)

Batches == ((SUBSET Course) \union (SUBSET Program) \union (SUBSET Pathway)) \ {{}}

Values(batch, k, kind, language) ==
    UNION {o.values : o \in {o \in Objects(batch) :
        o.content = k /\ o.kind = kind /\ o.language = language}}
FoundBy(batch, k) == Values(batch, k, "catalogs", "en")

\* Content is found by a catalog exactly when it is found by the query of the catalog, and
\* by a customer exactly when by one of the customer's catalogs; in Spanish as in English,
\* over all shards; a course's videos as the course.
FacetsAgree ==
    \A batch \in Batches : \A k \in batch \intersect Loaded(batch) : \A l \in Languages(k) :
       LET found == Values(batch, k, "catalogs", l)
       IN  /\ found = CatalogsOf(Values(batch, k, "queries", l))
           /\ Values(batch, k, "customers", l) = Customers(found)
           /\ k \in Course =>
                found = UNION {o.values : o \in {o \in VideoObjects(k) : o.kind = "catalogs"}}

\* A course is found by its catalogs.  A program is found by catalogs of its own and by
\* those that have every one of its courses, never by one that lacks a course; with fresh
\* mappings by all these, if all its courses are indexable.  What else is in the batch
\* makes no difference.
ProgramsNeedAllCourses ==
    \A batch \in Batches : \A k \in batch \intersect Loaded(batch) :
       LET own == Direct(k).catalogs
           shared == {cat \in Catalog : mappings.courses[k] # {} /\
                         \A c \in mappings.courses[k] : cat \in Direct(c).catalogs}
       IN  /\ k \in Course => FoundBy(batch, k) = own
           /\ k \in Program =>
                /\ own \subseteq FoundBy(batch, k) /\ FoundBy(batch, k) \subseteq own \union shared
                /\ Fresh /\ parts[k] \subseteq mappings.indexable => FoundBy(batch, k) = own \union shared
                /\ Fresh /\ ~(parts[k] \subseteq mappings.indexable) => FoundBy(batch, k) = own

\* With fresh mappings a pathway is found by every catalog that has an indexable course or
\* program of it, and by no other but one that has all courses of such a program; whether by
\* those depends on which other courses the batch happens to hold.
PathwaysBetween ==
    Fresh => \A batch \in SUBSET Pathway : \A w \in batch :
       LET members == parts[w] \intersect mappings.indexable
           least == Direct(w).catalogs \union UNION {Direct(m).catalogs : m \in members}
       IN  /\ least \subseteq FoundBy(batch, w)
           /\ FoundBy(batch, w) \subseteq least \union UNION {FoundBy({p}, p) : p \in members \intersect Program}

\* A course that is indexable now, its metadata normalized, has an advertised run that can
\* still be enrolled in and is shown unless it ended; the upcoming runs are the other active
\* ones, and some availability is given.
OpenWhenIndexable ==
    \A c \in IndexableCourses : enrollBy[c] = NormalizedEnrollBy(payload[c]) =>
       LET object == CourseObject(payload[c], now)
           run == payload[c].runs[object.advertised]
       IN  /\ ~Passed(object.enrollBy, now)
           /\ object.advertised \in object.runs \/ Passed(run.end, now)
           /\ object.upcoming = Cardinality(ActiveRuns(payload[c]) \ {object.advertised})
           /\ object.availability # {}

\* Refuted: a program has the tags of its own and of its courses.
TagsFromSubtree ==
    \A batch \in Batches : \A p \in batch \intersect Program : \A o \in Objects(batch) :
       o.content = p => o.tags \subseteq Direct(p).tags \union UNION {Direct(c).tags : c \in parts[p]}
=============================================================================
