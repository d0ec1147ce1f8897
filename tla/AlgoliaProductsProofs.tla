------------------------- MODULE AlgoliaProductsProofs -------------------------
(***************************************************************************)
(* Theorems about AlgoliaProducts, for any content, catalogs and tags, any *)
(* size of a shard and any order of the changes.                           *)
(*                                                                         *)
(* What an object is searched by is a function of the state: nothing but   *)
(* types is to be kept by the steps.  The rest says that the values of an  *)
(* object are, over its shards, the facets of the third pass, and that     *)
(* facets agree with each other in every pass.                             *)
(***************************************************************************)
EXTENDS AlgoliaProducts, FiniteSetTheorems, TLAPS

-----------------------------------------------------------------------------
(* Types.                                                                  *)

LEMMA TypesAtFirst == Init => TypeOK
<1> SUFFICES ASSUME Init PROVE TypeOK
  OBVIOUS
<1>1. /\ queries \in [Content -> SUBSET Query] /\ runQueries \in [Course -> SUBSET Query]
      /\ parts \in [Parent -> SUBSET (Course \union Program)]
      /\ \A p \in Program : parts[p] \subseteq Course
      /\ active \subseteq Program
  BY InitialAssumption DEF Init
<1>2. DOMAIN payload = Course /\ \A c \in Course : payload[c] \in Payloads[c]
  BY InitialAssumption DEF Init
<1>3. DOMAIN enrollBy = Course /\ \A c \in Course : enrollBy[c] \in {Missing, NormalizedEnrollBy(payload[c])}
  BY DEF Init
<1>4. mappings \in [courses : [Program -> SUBSET Course], members : [Pathway -> SUBSET (Course \union Program)],
                    indexable : SUBSET Content]
  BY <1>1 DEF Init, Computed, Content, Parent, IndexableCourses
<1> QED
  BY <1>1, <1>2, <1>3, <1>4 DEF TypeOK

\* mappings computed from typed rows.
LEMMA ComputedTyped ==
    ASSUME TypeOK
    PROVE  Computed \in [courses : [Program -> SUBSET Course],
                         members : [Pathway -> SUBSET (Course \union Program)], indexable : SUBSET Content]
  BY DEF TypeOK, Computed, Content, Parent, IndexableCourses

LEMMA TypesStay == TypeOK /\ [Next]_vars => TypeOK'
<1> SUFFICES ASSUME TypeOK, [Next]_vars PROVE TypeOK'
  OBVIOUS
<1>1. ASSUME NEW k \in Content, NEW q \in Query, ChangeMembership(k, q) PROVE TypeOK'
  BY <1>1 DEF ChangeMembership, Change, Toggle, TypeOK
<1>2. ASSUME NEW c \in Course, NEW q \in Query, ChangeRunMembership(c, q) PROVE TypeOK'
  BY <1>2 DEF ChangeRunMembership, Change, Toggle, TypeOK
<1>3. ASSUME NEW parent \in Parent, NEW k \in Course \union (IF parent \in Pathway THEN Program ELSE {}),
             ChangeParts(k, parent)
      PROVE  TypeOK'
  <2>1. /\ parts' \in [Parent -> SUBSET (Course \union Program)]
        /\ \A p \in Program : parts'[p] \subseteq Course
    BY <1>3, KeyAssumption DEF ChangeParts, Change, Toggle, TypeOK, Parent
  <2> QED
    BY <1>3, <2>1 DEF ChangeParts, Change, TypeOK
<1>4. ASSUME NEW c \in Course, IngestCourse(c) PROVE TypeOK'
  BY <1>4 DEF IngestCourse, Change, TypeOK
<1>5. ASSUME NEW c \in Course, NormalizeCourse(c) PROVE TypeOK'
  <2>1. /\ DOMAIN enrollBy' = Course
        /\ \A d \in Course : enrollBy'[d] \in {Missing} \union {NormalizedEnrollBy(p) : p \in Payloads[d]}
    BY <1>5 DEF NormalizeCourse, TypeOK
  <2> QED
    BY <1>5, <2>1 DEF NormalizeCourse, TypeOK
<1>6. ASSUME NEW p \in Program, ChangeProgram(p) PROVE TypeOK'
  BY <1>6 DEF ChangeProgram, Change, Toggle, TypeOK
<1>7. CASE ComputeMappings
  BY <1>7, ComputedTyped DEF ComputeMappings, database, TypeOK
<1>8. CASE Tick \/ UNCHANGED vars
  BY <1>8 DEF Tick, database, vars, TypeOK
<1> QED
  BY <1>1, <1>2, <1>3, <1>4, <1>5, <1>6, <1>7, <1>8 DEF Next

\* The rows a batch reads and the mappings have their types.
THEOREM TypesHold == Spec => []TypeOK
  BY TypesAtFirst, TypesStay, PTL DEF Spec

-----------------------------------------------------------------------------
(* Shards.                                                                 *)

\* A finite set in some order: each value has a place.
LEMMA SeqOfSet ==
    ASSUME NEW S, IsFiniteSet(S)
    PROVE  LET s == SetToSeq(S)
           IN  /\ Len(s) = Cardinality(S) /\ Len(s) \in Nat
               /\ \A i \in 1..Len(s) : s[i] \in S
               /\ \A x \in S : \E i \in 1..Len(s) : s[i] = x
<1> DEFINE n == Cardinality(S)
           s == SetToSeq(S)
<1>1. n \in Nat /\ ExistsBijection(1..n, S)
  BY FS_CardinalityType
<1>2. \E f \in [1..n -> S] : IsInjective(f)
  BY <1>1 DEF ExistsBijection, Bijection, Injection
<1>3. s \in [1..n -> S] /\ IsInjective(s)
  BY <1>2 DEF SetToSeq
<1>4. s \in Injection(1..n, S)
  BY <1>3 DEF Injection
<1>5. IsFiniteSet(1..n) /\ Cardinality(1..n) = n
  BY <1>1, FS_Interval
<1>6. s \in Surjection(1..n, S)
  BY <1>4, <1>5, FS_Injection
<1>7. Len(s) = n
  BY <1>1, <1>3
<1> QED
  BY <1>1, <1>3, <1>6, <1>7 DEF Surjection

\* The chunk of size s that the place j falls in, of those of a list of length n.
LEMMA ChunkOf ==
    ASSUME NEW s \in Nat \ {0}, NEW n \in Nat, NEW j \in 1..n
    PROVE  \E i \in 0..((n + s - 1) \div s - 1) : i * s + 1 <= j /\ j <= (i + 1) * s
<1> DEFINE q == (j - 1) \div s
           m == (n + s - 1) \div s
<1>1. q \in Int /\ q * s <= j - 1 /\ j - 1 < (q + 1) * s
  OBVIOUS
<1>2. m \in Int /\ m * s <= n + s - 1 /\ n + s - 1 < (m + 1) * s
  OBVIOUS
<1> QED
  BY <1>1, <1>2

\* The shards of a finite set hold it, and nothing else.
LEMMA ShardsHold ==
    ASSUME NEW S, IsFiniteSet(S)
    PROVE  UNION {o.values : o \in Shards(S)} = S
<1> DEFINE sorted == SetToSeq(S)
           n == Len(sorted)
           last(i) == IF (i + 1) * ShardSize < n THEN (i + 1) * ShardSize ELSE n
           chunk(i) == {sorted[j] : j \in (i * ShardSize + 1)..last(i)}
           I == 0..((n + ShardSize - 1) \div ShardSize - 1)
<1>1. /\ n \in Nat /\ \A i \in 1..n : sorted[i] \in S
      /\ \A x \in S : \E i \in 1..n : sorted[i] = x
  BY SeqOfSet
<1>2. Shards(S) = {[shard |-> i, values |-> chunk(i)] : i \in I}
  BY DEF Shards
<1>3. \A i \in I : chunk(i) \subseteq S
  <2> SUFFICES ASSUME NEW i \in I, NEW j \in (i * ShardSize + 1)..last(i) PROVE sorted[j] \in S
    OBVIOUS
  <2>1. i \in Nat /\ ShardSize \in Nat /\ i * ShardSize \in Nat
    BY ShardAssumption
  <2>2. j \in 1..n
    <3> HIDE DEF n
    <3> QED BY <2>1, <1>1
  <2> QED
    BY <1>1, <2>2
<1>4. ASSUME NEW x \in S PROVE \E i \in I : x \in chunk(i)
  <2>1. PICK j \in 1..n : sorted[j] = x
    BY <1>1
  <2>2. PICK i \in I : i * ShardSize + 1 <= j /\ j <= (i + 1) * ShardSize
    BY <1>1, ShardAssumption, ChunkOf
  <2>3. j \in (i * ShardSize + 1)..last(i)
    <3>1. i \in Int /\ ShardSize \in Nat /\ i * ShardSize \in Int /\ (i + 1) * ShardSize \in Int
      BY ShardAssumption
    <3> HIDE DEF n, I
    <3> QED BY <2>2, <1>1, <3>1
  <2> QED
    BY <2>1, <2>3
<1> HIDE DEF chunk, I
<1>5. UNION {o.values : o \in Shards(S)} = UNION {chunk(i) : i \in I}
  <2>1. \A o \in Shards(S) : \E i \in I : o.values = chunk(i)
    BY <1>2
  <2>2. ASSUME NEW i \in I PROVE \E o \in Shards(S) : o.values = chunk(i)
    <3> DEFINE o == [shard |-> i, values |-> chunk(i)]
    <3>1. o \in Shards(S) /\ o.values = chunk(i)
      BY <1>2
    <3> QED
      BY <3>1
  <2> QED
    BY <2>1, <2>2
<1> QED
  BY <1>3, <1>4, <1>5

-----------------------------------------------------------------------------
(* Facets.                                                                 *)

\* Facets of which those who have a query of a catalog have the catalog, and its customer.
Agree(f) ==
    /\ f.queries \in SUBSET Query
    /\ f.catalogs = CatalogsOf(f.queries)
    /\ f.customers = Customers(f.catalogs)

LEMMA AgreeInUnion ==
    ASSUME NEW fs, \A f \in fs : Agree(f)
    PROVE  Agree(Union(fs))
  BY DEF Agree, Union, CatalogsOf, Customers

LEMMA NoFacetsAgree == Agree(NoFacets)
  BY DEF Agree, NoFacets, Facets, CatalogsOf, Customers

LEMMA DirectAgrees ==
    ASSUME TypeOK, NEW k \in Content
    PROVE  Agree(Direct(k))
<1>1. MemberQueries(k) \in SUBSET Query
  BY DEF TypeOK, MemberQueries
<1> QED
  BY <1>1 DEF Agree, Direct, Facets

LEMMA DirectInAgrees ==
    ASSUME TypeOK, NEW k \in Content, NEW batch
    PROVE  Agree(DirectIn(batch, k))
  BY DirectAgrees, NoFacetsAgree DEF DirectIn

\* Catalogs of one query come together: all courses of a program have them or one has not.
LEMMA InheritedAgrees ==
    ASSUME TypeOK, NEW p \in Program, NEW batch
    PROVE  Agree(Inherited(batch, Common(batch, p)))
<1> DEFINE cats == Common(batch, p)
           qs == {QueryOf[cat] : cat \in cats}
<1>1. cats \subseteq Catalog /\ qs \in SUBSET Query
  BY CatalogAssumption DEF Common
<1>2. ASSUME NEW cat \in Catalog, QueryOf[cat] \in qs PROVE cat \in cats
  <2>1. PICK other \in cats : QueryOf[other] = QueryOf[cat]
    BY <1>2
  <2>2. mappings.courses[p] # {} /\ \A c \in mappings.courses[p] : other \in DirectIn(batch, c).catalogs
    BY <2>1 DEF Common
  <2>3. ASSUME NEW c \in mappings.courses[p] PROVE cat \in DirectIn(batch, c).catalogs
    <3>1. c \in Content
      BY DEF TypeOK, Content
    <3>2. DirectIn(batch, c).catalogs = CatalogsOf(DirectIn(batch, c).queries)
      BY <3>1, DirectInAgrees DEF Agree
    <3>3. other \in DirectIn(batch, c).catalogs
      BY <2>2
    <3> QED
      BY <2>1, <3>2, <3>3 DEF CatalogsOf
  <2> QED
    BY <2>2, <2>3 DEF Common
<1>3. cats = CatalogsOf(qs)
  <2> HIDE DEF cats
  <2> QED BY <1>1, <1>2 DEF CatalogsOf
<1> QED
  BY <1>1, <1>3 DEF Agree, Inherited, Facets

LEMMA SecondPassAgrees ==
    ASSUME TypeOK, NEW k \in Content, NEW batch
    PROVE  Agree(SecondPass(batch, k))
<1>1. CASE k \in Program /\ k \in Loaded(batch)
  <2>1. \A f \in {Direct(k), Inherited(batch, Common(batch, k))} : Agree(f)
    BY <1>1, DirectAgrees, InheritedAgrees
  <2> QED
    BY <1>1, <2>1, AgreeInUnion DEF SecondPass
<1>2. CASE ~(k \in Program /\ k \in Loaded(batch))
  BY <1>2, DirectInAgrees DEF SecondPass
<1> QED
  BY <1>1, <1>2

LEMMA ThirdPassAgrees ==
    ASSUME TypeOK, NEW k \in Content, NEW batch
    PROVE  Agree(ThirdPass(batch, k))
<1>1. CASE k \in Pathway
  <2> DEFINE fs == {DirectIn(batch, k)} \union {SecondPass(batch, m) : m \in MembersOfPathway(k)}
  <2>1. \A m \in MembersOfPathway(k) : m \in Content
    BY <1>1 DEF MembersOfPathway, TypeOK, Content, Parent
  <2>2. \A f \in fs : Agree(f)
    BY <2>1, DirectInAgrees, SecondPassAgrees
  <2> QED
    BY <1>1, <2>2, AgreeInUnion DEF ThirdPass
<1>2. CASE k \notin Pathway
  BY <1>2, SecondPassAgrees DEF ThirdPass
<1> QED
  BY <1>1, <1>2

-----------------------------------------------------------------------------
(* Objects.                                                                *)

LEMMA FacetsFinite ==
    ASSUME NEW f, Agree(f), NEW kind \in Kinds
    PROVE  IsFiniteSet(f[kind])
<1>1. IsFiniteSet(f.queries)
  BY CatalogAssumption, FS_Subset DEF Agree
<1>2. f.catalogs \subseteq Catalog /\ IsFiniteSet(f.catalogs)
  BY CatalogAssumption, FS_Subset DEF Agree, CatalogsOf
<1>3. IsFiniteSet(f.customers)
  <2> DEFINE g == [cat \in f.catalogs |-> CustomerOf[cat]]
  <2>1. g \in Surjection(f.catalogs, f.customers)
    BY DEF Agree, Customers, Surjection
  <2> QED
    BY <1>2, <2>1, FS_Surjection
<1> QED
  BY <1>1, <1>2, <1>3 DEF Kinds

\* Over its objects of a kind and a language, a record is searched by its facets.
LEMMA ValuesAreFacets ==
    ASSUME TypeOK, NEW batch \in SUBSET Content, NEW k \in batch \intersect Loaded(batch),
           NEW kind \in Kinds, NEW l \in Languages(k)
    PROVE  Values(batch, k, kind, l) = ThirdPass(batch, k)[kind]
<1> DEFINE mine == {o \in Objects(batch) : o.content = k /\ o.kind = kind /\ o.language = l}
           object(x, y, m, s) == [content |-> x, kind |-> y, language |-> m, shard |-> s.shard,
                                  values |-> s.values, tags |-> ThirdPass(batch, x).tags]
           shards == Shards(ThirdPass(batch, k)[kind])
<1>1. \A o \in mine : \E s \in shards : o.values = s.values
  <2> SUFFICES ASSUME NEW o \in mine PROVE \E s \in shards : o.values = s.values
    OBVIOUS
  <2>1. PICK x \in batch \intersect Loaded(batch) : o \in ObjectsOf(x, ThirdPass(batch, x))
    BY DEF Objects
  <2>2. PICK y \in Kinds, m \in Languages(x) : \E s \in Shards(ThirdPass(batch, x)[y]) : o = object(x, y, m, s)
    BY <2>1 DEF ObjectsOf
  <2>3. PICK s \in Shards(ThirdPass(batch, x)[y]) : o = object(x, y, m, s)
    BY <2>2
  <2>4. o.content = x /\ o.kind = y /\ o.values = s.values
    BY <2>3
  <2> QED
    BY <2>3, <2>4
<1>2. ASSUME NEW s \in shards PROVE \E o \in mine : o.values = s.values
  <2> DEFINE o == object(k, kind, l, s)
  <2>1. o \in ObjectsOf(k, ThirdPass(batch, k))
    <3> DEFINE facets == ThirdPass(batch, k)
    <3>1. s \in Shards(facets[kind])
      OBVIOUS
    <3> HIDE DEF facets
    <3> DEFINE part(y, m) == {[content |-> k, kind |-> y, language |-> m, shard |-> x.shard, values |-> x.values,
                               tags |-> facets.tags] : x \in Shards(facets[y])}
    <3>2. o \in part(kind, l)
      BY <3>1 DEF facets
    <3>3. ObjectsOf(k, facets) = UNION {part(y, m) : y \in Kinds, m \in Languages(k)}
      BY DEF ObjectsOf
    <3> HIDE DEF o, part
    <3>4. o \in ObjectsOf(k, facets)
      BY <3>2, <3>3
    <3> QED
      BY <3>4 DEF facets
  <2>2. o \in Objects(batch)
    <3> HIDE DEF o
    <3> QED BY <2>1 DEF Objects
  <2>3. o.content = k /\ o.kind = kind /\ o.language = l /\ o.values = s.values
    OBVIOUS
  <2> QED
    BY <2>2, <2>3
<1>3. UNION {o.values : o \in mine} = UNION {s.values : s \in shards}
  <2> HIDE DEF mine, shards
  <2> QED BY <1>1, <1>2
<1>4. UNION {s.values : s \in shards} = ThirdPass(batch, k)[kind]
  <2>1. Agree(ThirdPass(batch, k))
    BY ThirdPassAgrees
  <2>2. IsFiniteSet(ThirdPass(batch, k)[kind])
    BY <2>1, FacetsFinite
  <2> QED
    BY <2>2, ShardsHold
<1> QED
  BY <1>3, <1>4 DEF Values

\* So over its video objects a course's videos are, by the facets of the course.
LEMMA VideoValues ==
    ASSUME TypeOK, NEW c \in Course
    PROVE  UNION {o.values : o \in {o \in VideoObjects(c) : o.kind = "catalogs"}} = Direct(c).catalogs
<1> DEFINE cats == Direct(c).catalogs
           mine == {o \in VideoObjects(c) : o.kind = "catalogs"}
<1>1. "catalogs" \in Kinds /\ VideoFacets(c).catalogs = cats
  BY DEF Kinds, VideoFacets, Direct, Facets
<1>2. IsFiniteSet(cats)
  <2>1. Agree(Direct(c))
    BY DirectAgrees DEF Content
  <2> QED
    BY <2>1, FacetsFinite, <1>1
<1>3. \A o \in mine : \E s \in Shards(cats) : o.values = s.values
  BY <1>1 DEF VideoObjects
<1>4. ASSUME NEW s \in Shards(cats) PROVE \E o \in mine : o.values = s.values
  <2> DEFINE o == [kind |-> "catalogs", shard |-> s.shard, values |-> s.values]
  <2>1. o \in {[kind |-> "catalogs", shard |-> x.shard, values |-> x.values] : x \in Shards(VideoFacets(c).catalogs)}
    BY <1>1
  <2>2. o.kind = "catalogs" /\ o.values = s.values
    OBVIOUS
  <2> HIDE DEF o
  <2>3. o \in VideoObjects(c)
    BY <1>1, <2>1 DEF VideoObjects
  <2> QED
    BY <2>2, <2>3
<1>5. UNION {o.values : o \in mine} = UNION {s.values : s \in Shards(cats)}
  <2> HIDE DEF mine, cats
  <2> QED BY <1>3, <1>4
<1> QED
  BY <1>2, <1>5, ShardsHold

LEMMA BatchesOfContent ==
    /\ \A batch \in Batches : batch \in SUBSET Content
    /\ \A batch \in SUBSET Pathway : batch \in SUBSET Content
  BY DEF Batches, Content, Parent

-----------------------------------------------------------------------------
(* Who finds what.                                                         *)

\* Over all shards, in every language and through its videos, a record is found by a catalog
\* just if by the catalog's query, and by a customer just if by a catalog of the customer,
\* though programs and pathways inherit each of the three apart.
THEOREM FacetsFollowQueries == Spec => []FacetsAgree
<1>1. TypeOK => FacetsAgree
  <2> SUFFICES ASSUME TypeOK, NEW batch \in Batches, NEW k \in batch \intersect Loaded(batch),
                      NEW l \in Languages(k)
               PROVE  LET found == Values(batch, k, "catalogs", l)
                      IN  /\ found = CatalogsOf(Values(batch, k, "queries", l))
                          /\ Values(batch, k, "customers", l) = Customers(found)
                          /\ k \in Course =>
                               found = UNION {o.values : o \in {o \in VideoObjects(k) : o.kind = "catalogs"}}
    BY DEF FacetsAgree
  <2> DEFINE facets == ThirdPass(batch, k)
  <2>1. batch \in SUBSET Content
    BY BatchesOfContent
  <2>2. /\ Values(batch, k, "catalogs", l) = facets.catalogs
        /\ Values(batch, k, "queries", l) = facets.queries
        /\ Values(batch, k, "customers", l) = facets.customers
    BY <2>1, ValuesAreFacets DEF Kinds
  <2>3. Agree(facets)
    BY <2>1, ThirdPassAgrees
  <2>4. k \in Course => facets.catalogs = Direct(k).catalogs
    BY KeyAssumption DEF ThirdPass, SecondPass, DirectIn
  <2> QED
    BY <2>2, <2>3, <2>4, VideoValues DEF Agree
<1> QED
  BY <1>1, TypesHold, PTL

LEMMA FoundByCatalogs ==
    ASSUME TypeOK, NEW batch \in SUBSET Content, NEW k \in batch \intersect Loaded(batch)
    PROVE  FoundBy(batch, k) = ThirdPass(batch, k).catalogs
  BY ValuesAreFacets DEF FoundBy, Kinds, Languages

\* A program has, after the second pass, its own catalogs and those common to its courses.
LEMMA ProgramCatalogs ==
    ASSUME NEW batch, NEW p \in Program, p \in Loaded(batch)
    PROVE  /\ SecondPass(batch, p).catalogs = Direct(p).catalogs \union Common(batch, p)
           /\ ThirdPass(batch, p) = SecondPass(batch, p)
  BY KeyAssumption DEF SecondPass, ThirdPass, Union, Inherited, Facets

\* Catalogs of all courses of a program.
Shared(p) ==
    {cat \in Catalog : mappings.courses[p] # {} /\ \A c \in mappings.courses[p] : cat \in Direct(c).catalogs}

LEMMA CommonIsShared ==
    ASSUME NEW batch, NEW p \in Program
    PROVE  /\ Common(batch, p) \subseteq Shared(p)
           /\ mappings.courses[p] \subseteq Loaded(batch) => Common(batch, p) = Shared(p)
           /\ ~(mappings.courses[p] \subseteq Loaded(batch)) => Common(batch, p) = {}
<1>1. \A c : c \in Loaded(batch) => DirectIn(batch, c) = Direct(c)
  BY DEF DirectIn
<1>2. \A c : c \notin Loaded(batch) => DirectIn(batch, c).catalogs = {}
  BY DEF DirectIn, NoFacets, Facets
<1>3. \A c : DirectIn(batch, c).catalogs \subseteq Direct(c).catalogs
  BY <1>1, <1>2
<1> QED
  BY <1>1, <1>2, <1>3 DEF Common, Shared

\* A catalog finds a program that it has itself or of which it has every course, whatever
\* else is in the batch, and no program of which it lacks a course.
THEOREM ProgramsFoundByAllCourses == Spec => []ProgramsNeedAllCourses
<1>1. TypeOK => ProgramsNeedAllCourses
  <2> SUFFICES ASSUME TypeOK, NEW batch \in Batches, NEW k \in batch \intersect Loaded(batch)
               PROVE  LET own == Direct(k).catalogs
                          shared == Shared(k)
                      IN  /\ k \in Course => FoundBy(batch, k) = own
                          /\ k \in Program =>
                               /\ own \subseteq FoundBy(batch, k) /\ FoundBy(batch, k) \subseteq own \union shared
                               /\ Fresh /\ parts[k] \subseteq mappings.indexable =>
                                      FoundBy(batch, k) = own \union shared
                               /\ Fresh /\ ~(parts[k] \subseteq mappings.indexable) => FoundBy(batch, k) = own
    BY DEF ProgramsNeedAllCourses, Shared
  <2>1. FoundBy(batch, k) = ThirdPass(batch, k).catalogs
    BY BatchesOfContent, FoundByCatalogs
  <2>2. CASE k \in Course
    <3>1. k \notin Program /\ k \notin Pathway
      BY <2>2, KeyAssumption
    <3> QED
      BY <2>1, <3>1 DEF ThirdPass, SecondPass, DirectIn
  <2>3. CASE k \in Program
    <3>1. FoundBy(batch, k) = Direct(k).catalogs \union Common(batch, k)
      BY <2>1, <2>3, ProgramCatalogs
    <3>2. Fresh => mappings.courses[k] = parts[k]
      BY <2>3 DEF Fresh, Computed
    <3>3. parts[k] \subseteq Loaded(batch) <=> parts[k] \subseteq mappings.indexable
      BY <2>3 DEF Loaded, Parent
    <3>4. k \notin Course
      BY <2>3, KeyAssumption
    <3> QED
      BY <2>3, <3>1, <3>2, <3>3, <3>4, CommonIsShared
  <2> QED
    BY <2>2, <2>3
<1> QED
  BY <1>1, TypesHold, PTL

\* With fresh mappings, what a member of a pathway has by the third pass.
LEMMA MemberCatalogs ==
    ASSUME TypeOK, Fresh, NEW batch \in SUBSET Pathway, NEW w \in batch, NEW m \in parts[w]
    PROVE  /\ m \in mappings.indexable => Direct(m).catalogs \subseteq SecondPass(batch, m).catalogs
           /\ m \notin mappings.indexable => SecondPass(batch, m).catalogs = {}
           /\ m \in mappings.indexable =>
                 \/ SecondPass(batch, m).catalogs = Direct(m).catalogs
                 \/ m \in Program /\ SecondPass(batch, m).catalogs \subseteq FoundBy({m}, m)
<1>1. m \in Loaded(batch) <=> m \in mappings.indexable
  BY DEF Loaded, Parent
<1>2. CASE m \notin mappings.indexable
  BY <1>1, <1>2 DEF SecondPass, DirectIn, NoFacets, Facets
<1>3. CASE m \in mappings.indexable /\ m \notin Program
  BY <1>1, <1>3 DEF SecondPass, DirectIn
<1>4. CASE m \in mappings.indexable /\ m \in Program
  <2>1. SecondPass(batch, m).catalogs = Direct(m).catalogs \union Common(batch, m)
    BY <1>1, <1>4, ProgramCatalogs
  <2>2. m \in {m} \intersect Loaded({m}) /\ {m} \in SUBSET Content
    BY <1>4 DEF Loaded, Content, Parent
  <2>3. FoundBy({m}, m) = Direct(m).catalogs \union Common({m}, m)
    BY <1>4, <2>2, FoundByCatalogs, ProgramCatalogs
  <2>4. mappings.courses[m] = parts[m]
    BY <1>4 DEF Fresh, Computed
  <2>5. parts[m] \subseteq Loaded(batch) => parts[m] \subseteq Loaded({m})
    BY <1>4 DEF Loaded, Parent
  <2>6. Common(batch, m) \subseteq Common({m}, m)
    BY <1>4, <2>4, <2>5, CommonIsShared
  <2> QED
    BY <1>4, <2>1, <2>3, <2>6
<1> QED
  BY <1>2, <1>3, <1>4

\* A catalog finds a pathway of which it has an indexable course or program; one that finds
\* it has such a course or program, or finds a program of the pathway by itself.
THEOREM PathwaysFoundByMembers == Spec => []PathwaysBetween
<1>1. TypeOK => PathwaysBetween
  <2> SUFFICES ASSUME TypeOK, Fresh, NEW batch \in SUBSET Pathway, NEW w \in batch
               PROVE  LET members == parts[w] \intersect mappings.indexable
                          least == Direct(w).catalogs \union UNION {Direct(m).catalogs : m \in members}
                      IN  /\ least \subseteq FoundBy(batch, w)
                          /\ FoundBy(batch, w) \subseteq
                               least \union UNION {FoundBy({p}, p) : p \in members \intersect Program}
    BY DEF PathwaysBetween
  <2>1. w \in Loaded(batch) /\ mappings.members[w] = parts[w]
    BY DEF Fresh, Computed, Loaded, Parent
  <2>2. FoundBy(batch, w) = ThirdPass(batch, w).catalogs
    BY <2>1, BatchesOfContent, FoundByCatalogs
  <2>3. ThirdPass(batch, w).catalogs =
           Direct(w).catalogs \union UNION {SecondPass(batch, m).catalogs : m \in parts[w]}
    BY <2>1 DEF ThirdPass, MembersOfPathway, Union, DirectIn
  <2> DEFINE members == parts[w] \intersect mappings.indexable
             found == ThirdPass(batch, w).catalogs
             least == Direct(w).catalogs \union UNION {Direct(m).catalogs : m \in members}
             most == least \union UNION {FoundBy({p}, p) : p \in members \intersect Program}
  <2>4. least \subseteq found
    <3>1. ASSUME NEW m \in members PROVE Direct(m).catalogs \subseteq found
      BY <2>3, MemberCatalogs
    <3> QED
      BY <2>3, <3>1
  <2>5. found \subseteq most
    <3>1. ASSUME NEW m \in parts[w] PROVE SecondPass(batch, m).catalogs \subseteq most
      <4>1. CASE m \notin mappings.indexable
        BY <4>1, MemberCatalogs
      <4>2. CASE m \in mappings.indexable /\ SecondPass(batch, m).catalogs = Direct(m).catalogs
        BY <4>2
      <4>3. CASE m \in members \intersect Program /\ SecondPass(batch, m).catalogs \subseteq FoundBy({m}, m)
        BY <4>3
      <4> QED
        BY <4>1, <4>2, <4>3, MemberCatalogs
    <3> QED
      BY <2>3, <3>1
  <2> QED
    BY <2>2, <2>4, <2>5
<1> QED
  BY <1>1, TypesHold, PTL

\* A course in the index whose metadata are normalized can still be enrolled in.
THEOREM IndexedIsOpen == Spec => []OpenWhenIndexable
<1>1. TypeOK => OpenWhenIndexable
  <2> SUFFICES ASSUME TypeOK, NEW c \in IndexableCourses, enrollBy[c] = NormalizedEnrollBy(payload[c])
               PROVE  LET object == CourseObject(payload[c], now)
                          run == payload[c].runs[object.advertised]
                      IN  /\ ~Passed(object.enrollBy, now)
                          /\ object.advertised \in object.runs \/ Passed(run.end, now)
                          /\ object.upcoming = Cardinality(ActiveRuns(payload[c]) \ {object.advertised})
                          /\ object.availability # {}
    BY DEF OpenWhenIndexable
  <2> DEFINE course == payload[c]
             r == course.advertised
  <2>1. c \in Course /\ ShouldIndexCourse(course, enrollBy[c], now)
    BY DEF IndexableCourses
  <2>2. r \in DOMAIN course.runs /\ AdvertisedRun(course) = r /\ r # None
    BY <2>1 DEF ShouldIndexCourse, AdvertisedRun
  <2>3. ~Passed(NormalizedEnrollBy(course), now)
    BY <2>1 DEF ShouldIndexCourse
  <2>4. r \in ActiveRuns(course)
    BY <2>1, <2>2 DEF ShouldIndexCourse, ActiveRuns
  <2>5. NormalizedEnrollBy(course) = EnrollBy(course, course.runs[r])
    BY <2>2 DEF NormalizedEnrollBy
  <2>6. r \in CourseRuns(course, now) \/ Passed(course.runs[r].end, now)
    BY <2>2, <2>3, <2>5 DEF CourseRuns, TooLate
  <2>7. IsFiniteSet(ActiveRuns(course))
    <3>1. IsFiniteSet(DOMAIN course.runs)
      BY <2>1, PayloadAssumption DEF TypeOK
    <3> QED
      BY <3>1, FS_Subset DEF ActiveRuns
  <2>8. Cardinality(ActiveRuns(course) \ {r}) = Cardinality(ActiveRuns(course)) - 1
    BY <2>4, <2>7, FS_RemoveElement
  <2>9. UpcomingCourseRuns(course) = Cardinality(ActiveRuns(course)) - 1
    BY <2>2 DEF UpcomingCourseRuns
  <2>10. Availability(course) # {}
    BY <2>4 DEF Availability
  <2> HIDE DEF r
  <2> QED
    BY <2>2, <2>3, <2>6, <2>8, <2>9, <2>10 DEF CourseObject
<1> QED
  BY <1>1, TypesHold, PTL
=============================================================================
