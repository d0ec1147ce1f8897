-------------------------------- MODULE Catalogs --------------------------------
(***************************************************************************)
(* Catalogs of customers and the queries they share: the serializer of     *)
(* EnterpriseCatalog (apps/api/v1/serializers.py) and the viewset over it. *)
(*                                                                         *)
(* A query is found by its uuid, or by the hash of its content filter,     *)
(* which is unique; here filters stand for their hashes.  Titles, unique   *)
(* too, are left out: one that is taken fails a request before it changes  *)
(* anything.  No transaction spans a request (ATOMIC_REQUESTS is False).   *)
(***************************************************************************)
EXTENDS Integers, FiniteSets

CONSTANTS
    QueryId,          \* primary keys of catalog queries
    Uuid,             \* their uuids
    Filter,           \* content filters
    Catalog,          \* uuids of catalogs
    Customer, OwnerOf,\* each catalog belongs to a customer
    Absent,           \* a row that does not exist, a uuid or a filter not given
    MaxRequests       \* bound: requests that change something

ASSUME OwnerAssumption == OwnerOf \in [Catalog -> Customer]
ASSUME RequestAssumption == MaxRequests \in Nat

QueryRow == [uuid : Uuid, filter : Filter]

ASSUME AbsentAssumption == Absent \notin QueryId \union Uuid \union Filter \union QueryRow

VARIABLES
    query,    \* CatalogQuery rows
    catalog,  \* EnterpriseCatalog rows: the query of each
    requests

catalogVars == <<query, catalog, requests>>

CatalogTypeOK ==
    /\ query \in [QueryId -> QueryRow \union {Absent}]
    /\ catalog \in [Catalog -> QueryId \union {Absent}]
    /\ requests \in 0..MaxRequests

Queries == {q \in QueryId : query[q] # Absent}
FilterOf(q) == query[q].filter
WithUuid(u) == {q \in Queries : query[q].uuid = u}
WithFilter(f) == {q \in Queries : FilterOf(q) = f}
Unused == {q \in QueryId : query[q] = Absent}
FreshUuids == {u \in Uuid : WithUuid(u) = {}}

CatalogInit ==
    /\ query = [q \in QueryId |-> Absent]
    /\ catalog = [k \in Catalog |-> Absent]
    /\ requests = 0

\* find_and_modify_catalog_query: the query it finds or makes, and its new row.  A uuid
\* that exists has its filter replaced, unless another query has that filter (422, no
\* outcome); one that does not is given to the query that has the filter.
FindAndModify_DuplicateFilter(f, u) ==
    IF u # Absent /\ WithUuid(u) # {}
    THEN {<<q, [uuid |-> u, filter |-> f]>> : q \in WithUuid(u)}
    ELSE {<<q, [uuid |-> IF u # Absent THEN u ELSE v, filter |-> f]>> : q \in Unused, v \in FreshUuids}
FindAndModify(f, u) ==
    IF u # Absent
    THEN IF WithUuid(u) # {}
         THEN {<<q, [uuid |-> u, filter |-> f]>> : q \in {x \in WithUuid(u) : WithFilter(f) \subseteq {x}}}
         ELSE {<<q, [uuid |-> u, filter |-> f]>> : q \in IF WithFilter(f) # {} THEN WithFilter(f) ELSE Unused}
    ELSE IF WithFilter(f) # {}
         THEN {<<q, query[q]>> : q \in WithFilter(f)}
         ELSE {<<q, [uuid |-> v, filter |-> f]>> : q \in Unused, v \in FreshUuids}

Request == requests < MaxRequests /\ requests' = requests + 1

\* POST: when the catalog exists the request fails, the change of the query stays.
CreateCatalog(k, f, u) ==
    /\ Request
    /\ \E m \in FindAndModify(f, u) :
          /\ query' = [query EXCEPT ![m[1]] = m[2]]
          /\ catalog' = IF catalog[k] = Absent THEN [catalog EXCEPT ![k] = m[1]] ELSE catalog

\* PUT and PATCH: what is not given is that of the catalog's query, so the filter of a
\* query is edited for every catalog that shares it.
UpdateCatalog(k, f, u) ==
    /\ Request
    /\ catalog[k] # Absent
    /\ LET old == query[catalog[k]]
       IN  \E m \in FindAndModify(IF f = Absent THEN old.filter ELSE f,
                                  IF u = Absent THEN old.uuid ELSE u) :
              /\ query' = [query EXCEPT ![m[1]] = m[2]]
              /\ catalog' = [catalog EXCEPT ![k] = m[1]]

\* DELETE: the query stays, whether or not another catalog uses it.
DestroyCatalog(k) ==
    /\ Request
    /\ catalog[k] # Absent
    /\ catalog' = [catalog EXCEPT ![k] = Absent]
    /\ UNCHANGED query

ChangeCatalogs ==
    \E k \in Catalog :
       \/ \E f \in Filter, u \in Uuid \union {Absent} : CreateCatalog(k, f, u)
       \/ \E f \in Filter \union {Absent}, u \in Uuid \union {Absent} : UpdateCatalog(k, f, u)
       \/ DestroyCatalog(k)

CatalogsOf(e) == {k \in Catalog : OwnerOf[k] = e /\ catalog[k] # Absent}

-----------------------------------------------------------------------------
\* No catalog is left with a query that does not exist, and no two queries have one
\* filter or one uuid: what an update of contents is made for is one query.
QueriesDistinct ==
    /\ \A k \in Catalog : catalog[k] # Absent => catalog[k] \in Queries
    /\ \A q, r \in Queries : q # r => FilterOf(q) # FilterOf(r) /\ query[q].uuid # query[r].uuid
=============================================================================
