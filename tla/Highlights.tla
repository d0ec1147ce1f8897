------------------------------- MODULE Highlights -------------------------------
(***************************************************************************)
(* Highlight sets of an enterprise: the admin viewset over HighlightSet    *)
(* and HighlightedContent (apps/api/v1/views/curation/highlights.py).      *)
(*                                                                         *)
(* A request is a process.  PATCH and set-content do their work in one     *)
(* transaction, the toggle of a favorite in another that locks rows, the   *)
(* rest commits statement by statement (ATOMIC_REQUESTS is False).  The    *)
(* database is MySQL at Django's default, READ COMMITTED: a locking read   *)
(* of a set's favorites examines, so waits for, every row of the set; an   *)
(* update waits for the rows it changes; the loser of a cycle of waits is  *)
(* rolled back.  Deleted rows stay locked until their transaction ends.    *)
(*                                                                         *)
(* Titles, is_published, and bodies that validation turns away are left    *)
(* out: the row of a set is the enterprise that owns it.  A save of a set, *)
(* which a new title is, writes back the whole row it loaded.              *)
(***************************************************************************)
EXTENDS Integers, FiniteSets, SequencesExt, Ordering

CONSTANTS
    Enterprise, HighlightSet, Content,
    InitialSet, InitialContent,  \* a set there is at first, and what it shows
    KeyLists,                    \* the keys a request may list
    Request,                     \* requests served at once
    Unused, Gone,                \* no row yet; a deleted one
    ContentLimit,                \* CONTENT_PER_HIGHLIGHTSET_LIMIT
    SetLimit,                    \* HIGHLIGHTSETS_PER_ENTERPRISE_LIMIT
    MaxRequests                  \* bound: requests

ASSUME LimitAssumption == ContentLimit \in Nat /\ SetLimit \in Nat \ {0}
ASSUME BoundAssumption == MaxRequests \in Nat /\ KeyLists \subseteq SUBSET Content
ASSUME FiniteAssumption == IsFiniteSet(Content) /\ IsFiniteSet(HighlightSet)
ASSUME NoRowAssumption == Unused \notin Enterprise \union HighlightSet /\ Gone \notin Enterprise
ASSUME InitialAssumption ==
    /\ InitialSet \in HighlightSet
    /\ InitialContent \in Seq(Content) /\ IsInjective(InitialContent)

VARIABLES
    config,    \* enterprises with an EnterpriseCurationConfig
    row,       \* HighlightSet rows
    items,     \* HighlightedContent rows of each set, in the order of created
    stored,    \* content with a ContentMetadata row
    req, requests

tables == <<config, row, items, stored>>
vars == <<tables, req, requests>>

NewItem(k) == [key |-> k, favorite |-> FALSE, rank |-> 0]

Existing == {s \in HighlightSet : row[s] \notin {Unused, Gone}}
SetsOf(e) == {s \in Existing : row[s] = e}
Keys(s) == {item.key : item \in ToSet(items[s])}
Item(s, k) == CHOOSE item \in ToSet(items[s]) : item.key = k
Favorites(s) == {item \in ToSet(items[s]) : item.favorite}

\* set: the set at work; row: its owner as loaded; want: keys to add, or left of them; asked: those
\* that passed the check; prior: what the check counted; drop: keys to delete; favorite: the
\* toggle; rank: the sort order it will give.
Idle == [pc |-> "idle", kind |-> "none", set |-> Unused, row |-> Unused, want |-> {},
         asked |-> {}, prior |-> {}, drop |-> {}, favorite |-> FALSE, rank |-> 0]

Steps == {"idle", "insert", "count", "add", "sweep", "commit", "save", "order", "favorite"}
Kinds == {"none", "create", "add-content", "set-content", "patch", "save", "toggle"}

TypeOK ==
    /\ config \in SUBSET Enterprise /\ stored \in SUBSET Content
    /\ row \in [HighlightSet -> Enterprise \union {Unused, Gone}]
    /\ \A s \in HighlightSet :
          /\ items[s] \in Seq([key : Content, favorite : BOOLEAN, rank : Nat])
          /\ IsInjective([i \in DOMAIN items[s] |-> items[s][i].key])
          /\ items[s] # <<>> => s \in Existing /\ row[s] \in config
    /\ req \in [Request -> [pc : Steps, kind : Kinds, set : HighlightSet \union {Unused},
                            row : Enterprise \union {Unused}, want : SUBSET Content,
                            asked : SUBSET Content, prior : SUBSET (Content \union HighlightSet),
                            drop : SUBSET Content, favorite : BOOLEAN, rank : Nat]]
    /\ requests \in 0..MaxRequests

Init ==
    /\ config = Enterprise
    /\ stored = Content
    /\ \E e \in Enterprise :
          row = [s \in HighlightSet |-> IF s = InitialSet THEN e ELSE Unused]
    /\ items = [s \in HighlightSet |->
                    IF s = InitialSet THEN [i \in DOMAIN InitialContent |-> NewItem(InitialContent[i])]
                    ELSE <<>>]
    /\ req = [r \in Request |-> Idle]
    /\ requests = 0

-----------------------------------------------------------------------------
(* Locks, and the steps every request shares.                              *)

\* Rows that the transaction of r keeps from the others.
Holds(r, s) ==
    IF req[r].set # s THEN {}
    ELSE CASE req[r].pc = "order"    -> req[r].asked
           [] req[r].pc = "favorite" -> req[r].asked \union {f.key : f \in Favorites(s)}
           [] req[r].pc = "commit"   -> req[r].drop
           [] OTHER                  -> {}

Blockers(r, s, ks) == {o \in Request \ {r} : Holds(o, s) \intersect ks # {}}
Unlocked(s, ks) == \A r \in Request : Holds(r, s) \intersect ks = {}

\* The rows a toggle has to lock: all that the query for favorites examines, or the
\* favorites below the one it removes.
Needs(r) ==
    LET s == req[r].set IN
    IF req[r].favorite THEN Keys(s)
    ELSE {f.key : f \in {f \in Favorites(s) : \A k \in req[r].asked : f.rank > Item(s, k).rank}}

Without(seq, ks) == Where(seq, LAMBDA item : item.key \notin ks)

Enter(r, state) ==
    /\ req[r].pc = "idle" /\ requests < MaxRequests
    /\ req' = [req EXCEPT ![r] = state]
    /\ requests' = requests + 1

Goes(r, state) == req' = [req EXCEPT ![r] = state] /\ UNCHANGED requests
Ends(r) == Goes(r, Idle)

\* A request of a single statement.
AtOnce == requests < MaxRequests /\ requests' = requests + 1 /\ UNCHANGED req

\* Model.save writes the loaded row back, and inserts it again when it has been deleted.
Savable(owner) == owner \in config

-----------------------------------------------------------------------------
(* Create, add-content.                                                    *)

\* create: the sets of the enterprise are counted, then the row is inserted.
CountSets(r) ==
    \E e \in config, ks \in KeyLists :
        /\ Cardinality(SetsOf(e)) < SetLimit
        /\ Cardinality({o \in Request : req[o].pc = "insert"}) < Cardinality({s \in HighlightSet : row[s] = Unused})
        /\ Cardinality(ks) <= ContentLimit
        /\ Enter(r, [Idle EXCEPT !.pc = "insert", !.kind = "create", !.want = ks,
                                 !.row = e, !.prior = SetsOf(e)])
        /\ UNCHANGED tables

InsertSet(r) ==
    /\ req[r].pc = "insert"
    /\ IF Savable(req[r].row)
       THEN \E s \in HighlightSet :
               /\ row[s] = Unused
               /\ row' = [row EXCEPT ![s] = req[r].row]
               /\ IF req[r].want = {} THEN Ends(r)
                  ELSE Goes(r, [req[r] EXCEPT !.pc = "count", !.set = s, !.prior = {}])
       ELSE Ends(r) /\ UNCHANGED row
    /\ UNCHANGED <<config, items, stored>>

\* One key too many is let through.
TooMany_OffByOne(keys) == Cardinality(keys) > ContentLimit + 1

TooMany(keys) == Cardinality(keys) > ContentLimit

\* _add_requested_content: what it finds of the keys, and the limit it checks.
Addable(s, ks) == ks \intersect stored # {} /\ ~TooMany(Keys(s) \union (ks \intersect stored))

Adding(state, s, ks) ==
    [state EXCEPT !.pc = "add", !.set = s, !.want = ks \intersect stored,
                  !.asked = ks \intersect stored, !.prior = Keys(s)]

AddContent(r) ==
    \E s \in Existing, ks \in KeyLists :
        /\ Addable(s, ks)
        /\ Enter(r, Adding([Idle EXCEPT !.kind = "add-content"], s, ks))
        /\ UNCHANGED tables

\* The limit is checked again for a set just created.
CountContent(r) ==
    /\ req[r].pc = "count"
    /\ IF Addable(req[r].set, req[r].want) THEN Goes(r, Adding(req[r], req[r].set, req[r].want))
       ELSE Ends(r)
    /\ UNCHANGED tables

\* One get_or_create; a set or content that is gone makes it fail.
AddOne(r) ==
    LET s == req[r].set IN
    /\ req[r].pc = "add"
    /\ \E k \in req[r].want :
          LET left == req[r].want \ {k} IN
          /\ items' = IF k \in Keys(s) \/ s \notin Existing \/ k \notin stored THEN items
                      ELSE [items EXCEPT ![s] = Append(@, NewItem(k))]
          /\ IF left = {} \/ (k \notin Keys(s) /\ (s \notin Existing \/ k \notin stored)) THEN Ends(r)
             ELSE Goes(r, [req[r] EXCEPT !.want = left])
    /\ UNCHANGED <<config, row, stored>>

-----------------------------------------------------------------------------
(* PATCH and set-content: one transaction.                                 *)

ValidPatch(titled, add, remove) == titled \/ add # {} \/ remove # {}

BeginPatch(r) ==
    \E s \in Existing, add, remove \in KeyLists, titled \in BOOLEAN :
        /\ ValidPatch(titled, add, remove)
        /\ Enter(r, [Idle EXCEPT !.pc = "sweep", !.kind = "patch", !.set = s, !.want = add,
                                 !.drop = remove, !.row = IF titled THEN row[s] ELSE Unused])
        /\ UNCHANGED tables

\* The set is emptied and filled again.
BeginSetContent_Refill(r) ==
    \E s \in Existing, ks \in KeyLists :
        /\ Cardinality(ks) <= ContentLimit
        /\ Enter(r, [Idle EXCEPT !.pc = "sweep", !.kind = "set-content", !.set = s, !.want = ks,
                                 !.drop = Keys(s)])
        /\ UNCHANGED tables

BeginSetContent(r) ==
    \E s \in Existing, ks \in KeyLists :
        /\ Cardinality(ks) <= ContentLimit
        /\ Enter(r, [Idle EXCEPT !.pc = "sweep", !.kind = "set-content", !.set = s, !.want = ks,
                                 !.drop = Keys(s) \ ks])
        /\ UNCHANGED tables

\* Deletes, then counts what is left; over the limit, the deletion is rolled back.
Sweep(r) ==
    LET s == req[r].set
        kept == Keys(s) \ req[r].drop
        valid == req[r].want \intersect stored
        counted == req[r].kind = "set-content" \/ req[r].want # {}
    IN
    /\ req[r].pc = "sweep"
    /\ Unlocked(s, Keys(s) \intersect req[r].drop)
    /\ IF counted /\ TooMany(kept \union valid) THEN Ends(r)
       ELSE Goes(r, [req[r] EXCEPT !.pc = "commit", !.want = valid, !.asked = valid,
                                   !.drop = @ \intersect Keys(s), !.prior = kept])
    /\ UNCHANGED tables

\* get_or_create sees the rows others committed; a key that others are deleting counts.
Commit(r) ==
    LET s == req[r].set
        titled == req[r].row # Unused
        new == req[r].want \ (Keys(s) \ req[r].drop)
        fails == \/ titled /\ ~Savable(req[r].row)
                 \/ new # {} /\ s \notin Existing /\ ~titled
                 \/ ~(new \subseteq stored)
    IN
    /\ req[r].pc = "commit"
    /\ IF fails THEN UNCHANGED <<row, items>>
       ELSE \E order \in SetToSeqs(new) :
               /\ items' = [items EXCEPT ![s] =
                     Without(@, req[r].drop) \o [i \in DOMAIN order |-> NewItem(order[i])]]
               /\ row' = IF titled THEN [row EXCEPT ![s] = req[r].row] ELSE row
    /\ Ends(r)
    /\ UNCHANGED <<config, stored>>

-----------------------------------------------------------------------------
(* New titles and PUT: the row is loaded, changed, saved.                  *)

BeginSave(r) ==
    \E s \in Existing, e \in config :
        /\ Enter(r, [Idle EXCEPT !.pc = "save", !.kind = "save", !.set = s,
                                 !.row = e])
        /\ UNCHANGED tables

SaveSet(r) ==
    /\ req[r].pc = "save"
    /\ row' = IF Savable(req[r].row) THEN [row EXCEPT ![req[r].set] = req[r].row] ELSE row
    /\ Ends(r)
    /\ UNCHANGED <<config, items, stored>>

-----------------------------------------------------------------------------
(* Favorites.                                                              *)

\* The row is locked as it is read; one that is as asked is left alone.
BeginToggle(r) ==
    \E s \in Existing : \E k \in Keys(s) :
        /\ Unlocked(s, {k})
        /\ Enter(r, [Idle EXCEPT !.pc = "order", !.kind = "toggle", !.set = s, !.asked = {k},
                                 !.favorite = ~Item(s, k).favorite])
        /\ UNCHANGED tables

NextRank(s) ==
    IF Favorites(s) = {} THEN 0
    ELSE 1 + CHOOSE n \in {f.rank : f \in Favorites(s)} : \A f \in Favorites(s) : f.rank <= n

Toggled(item, k, favorite, rank, removed) ==
    IF item.key = k THEN [item EXCEPT !.favorite = favorite, !.rank = rank]
    ELSE IF ~favorite /\ item.favorite /\ item.rank > removed THEN [item EXCEPT !.rank = @ - 1]
    ELSE item

\* The favorites are read without a lock.
FreeToOrder_NoLock(r) == TRUE

FreeToOrder(r) == Blockers(r, req[r].set, Needs(r)) = {}

\* _set_favorite_highlight_order: the favorites are locked, and read for the next sort order...
RankFavorite(r) ==
    /\ req[r].pc = "order" /\ req[r].favorite
    /\ FreeToOrder(r)
    /\ Goes(r, [req[r] EXCEPT !.pc = "favorite", !.rank = NextRank(req[r].set)])
    /\ UNCHANGED tables

\* ... and the favorite is saved and committed, or is one no more, and those below it move up.
SetFavorite(r) ==
    LET s == req[r].set IN
    /\ \/ req[r].pc = "favorite"
       \/ req[r].pc = "order" /\ ~req[r].favorite /\ FreeToOrder(r)
    /\ \A k \in req[r].asked :
          items' = [items EXCEPT ![s] =
              [i \in DOMAIN @ |-> Toggled(@[i], k, req[r].favorite, req[r].rank, Item(s, k).rank)]]
    /\ Ends(r)
    /\ UNCHANGED <<config, row, stored>>

\* The database sees no deadlock.
Deadlocked_Unseen(r) == FALSE

\* Of two toggles that wait for each other the database rolls one back.
Deadlocked(r) ==
    /\ req[r].pc = "order"
    /\ \E o \in Blockers(r, req[r].set, Needs(r)) :
          req[o].pc = "order" /\ r \in Blockers(o, req[o].set, Needs(o))

RollBack(r) == Deadlocked(r) /\ Ends(r) /\ UNCHANGED tables

-----------------------------------------------------------------------------
(* Requests of one statement, and what happens around them.                *)

RemoveContent ==
    /\ \E s \in Existing, ks \in KeyLists :
          /\ ks \intersect Keys(s) # {}
          /\ Unlocked(s, ks)
          /\ items' = [items EXCEPT ![s] = Without(@, ks)]
    /\ AtOnce
    /\ UNCHANGED <<config, row, stored>>

\* Deletion leaves the rows of a set behind.
Cascade_KeepsContent(sets) ==
    /\ \A s \in sets : Unlocked(s, Keys(s))
    /\ row' = [s \in HighlightSet |-> IF s \in sets THEN Gone ELSE row[s]]
    /\ UNCHANGED items

Cascade(sets) ==
    /\ \A s \in sets : Unlocked(s, Keys(s))
    /\ row' = [s \in HighlightSet |-> IF s \in sets THEN Gone ELSE row[s]]
    /\ items' = [s \in HighlightSet |-> IF s \in sets THEN <<>> ELSE items[s]]

DestroySet == \E s \in Existing : Cascade({s}) /\ AtOnce /\ UNCHANGED <<config, stored>>

DestroyConfig ==
    \E e \in config :
        /\ config' = config \ {e}
        /\ Cascade(SetsOf(e))
        /\ AtOnce /\ UNCHANGED stored

CreateConfig ==
    \E e \in Enterprise \ config :
        config' = config \union {e} /\ AtOnce /\ UNCHANGED <<row, items, stored>>

\* Content the catalog drops takes its highlights along.
DropContent ==
    \E k \in stored :
        /\ \A s \in HighlightSet : Unlocked(s, {k})
        /\ stored' = stored \ {k}
        /\ items' = [s \in HighlightSet |-> Without(items[s], {k})]
        /\ AtOnce /\ UNCHANGED <<config, row>>

\* A worker is lost, or the database gives up on a statement.
Fails(r) ==
    /\ req[r].pc # "idle"
    /\ Ends(r)
    /\ UNCHANGED tables

-----------------------------------------------------------------------------
Begin(r) ==
    \/ CountSets(r) \/ AddContent(r) \/ BeginPatch(r) \/ BeginSetContent(r) \/ BeginSave(r)
    \/ BeginToggle(r)

Continue(r) ==
    \/ InsertSet(r) \/ CountContent(r) \/ AddOne(r) \/ Sweep(r) \/ Commit(r) \/ SaveSet(r)
    \/ RankFavorite(r) \/ SetFavorite(r) \/ RollBack(r)

Next ==
    \/ \E r \in Request : Begin(r) \/ Continue(r) \/ Fails(r)
    \/ RemoveContent \/ DestroySet \/ DestroyConfig \/ CreateConfig \/ DropContent

\* A worker that serves a request goes on with it.
Spec == Init /\ [][Next]_vars /\ \A r \in Request : WF_vars(Continue(r))

-----------------------------------------------------------------------------
(* Properties.                                                             *)

\* Two favorites of a set never have the same sort order, however toggles, removals and
\* reconciliations of the set mix (_set_favorite_highlight_order locks what it reads).
RanksDistinct ==
    \A s \in HighlightSet : \A f, g \in Favorites(s) : f.rank = g.rank => f = g

\* Where an item is shown: favorites first, by sort order, the rest by creation.
Position(s, k) == CHOOSE i \in DOMAIN items[s] : items[s][i].key = k
ShownBefore(s, j, k) ==
    LET a == Item(s, j)
        b == Item(s, k)
    IN  \/ a.favorite /\ ~b.favorite
        \/ a.favorite /\ b.favorite /\ a.rank < b.rank
        \/ ~a.favorite /\ ~b.favorite /\ Position(s, j) < Position(s, k)

\* Reconciling a set keeps the order of what stays, new content comes last, and toggling
\* one item never reorders two others; a PATCH that both removes and adds a key replaces its row (set_content, get_highlighted_content).
DisplayOrderKept ==
    [][\A s \in HighlightSet : \A j, k \in Keys(s) :
          /\ {j, k} \subseteq Keys(s)'
          /\ \A r \in Request : req'[r] # req[r] /\ req[r].kind = "patch" => req[r].drop \intersect {j, k} = {}
          /\ Item(s, j).favorite = Item(s, j)'.favorite
          /\ Item(s, k).favorite = Item(s, k)'.favorite
          => (ShownBefore(s, j, k) <=> ShownBefore(s, j, k)')]_vars

\* A set outgrows its limit, or an enterprise its own, only through a request that checked
\* before others added: alone, no request passes a limit, whatever it deletes and adds and
\* whatever went before.  A save may also move a set to another enterprise, or bring a
\* deleted one back, past the limit.
LimitsPassedOnStaleCounts ==
    [][/\ \A s \in HighlightSet :
             Cardinality(Keys(s)') > ContentLimit /\ ~(Keys(s)' \subseteq Keys(s)) =>
                \E r \in Request :
                    /\ req[r].pc \in {"add", "commit"} /\ req[r].set = s /\ req'[r] # req[r]
                    /\ ~(Keys(s) \ req[r].drop \subseteq req[r].prior \union req[r].asked)
       /\ \A e \in Enterprise :
             Cardinality(SetsOf(e)') > SetLimit /\ ~(SetsOf(e)' \subseteq SetsOf(e)) =>
                \E r \in Request :
                    /\ req[r].row # Unused /\ req'[r] # req[r]
                    /\ \/ req[r].pc = "insert" /\ ~(SetsOf(e) \subseteq req[r].prior)
                       \/ req[r].pc \in {"save", "commit"} /\ req[r].set \notin SetsOf(e)]_vars

\* Every request comes to an end: toggles that wait for each other's rows are told apart by
\* the database, and nothing else holds a lock while it waits.
RequestsConclude == \A r \in Request : req[r].pc # "idle" ~> req[r].pc = "idle"

\* Refuted: the limits on sets and on content hold at all times.
WithinLimits ==
    /\ \A s \in HighlightSet : Cardinality(Keys(s)) <= ContentLimit
    /\ \A e \in Enterprise : Cardinality(SetsOf(e)) <= SetLimit

\* Refuted: the sort orders of the favorites of a set are 0, 1, 2...
RanksContiguous ==
    \A s \in HighlightSet : {f.rank : f \in Favorites(s)} = 0..(Cardinality(Favorites(s)) - 1)
=============================================================================
