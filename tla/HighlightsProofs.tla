---------------------------- MODULE HighlightsProofs ----------------------------
(***************************************************************************)
(* Proofs about Highlights, for any enterprises, sets and content, any     *)
(* lists of keys, any number of requests at once and any limits.           *)
(*                                                                         *)
(* The invariant is about the locks.  Two requests at a set never hold the *)
(* same row, and at most one has found a sort order: it holds its own row  *)
(* and every favorite, so no toggle beside it can take or give a favorite, *)
(* and what it found stays beyond all that are given.  Whatever removes    *)
(* rows leaves alone those another request holds (Spares).                 *)
(*                                                                         *)
(* A step does one of few things to a set: it removes rows, adds new ones  *)
(* at the end, both, or toggles one (ItemsEffect).  The order a set is     *)
(* shown in and its limits are proved of these, not of each action.        *)
(***************************************************************************)
EXTENDS Highlights, OrderingProofs

Row == [key : Content, favorite : BOOLEAN, rank : Nat]

Job == [pc : Steps, kind : Kinds, set : HighlightSet \union {Unused},
        row : Enterprise \union {Unused}, want : SUBSET Content,
        asked : SUBSET Content, prior : SUBSET (Content \union HighlightSet),
        drop : SUBSET Content, favorite : BOOLEAN, rank : Nat]

-----------------------------------------------------------------------------
(* The rows of one set.                                                    *)

KeysIn(q) == {q[i].key : i \in DOMAIN q}

OneEach(q) == q \in Seq(Row) /\ \A i, h \in DOMAIN q : q[i].key = q[h].key => i = h

Distinct(q) ==
    \A i, h \in DOMAIN q : q[i].favorite /\ q[h].favorite /\ q[i].rank = q[h].rank => i = h

\* p is q without the rows of drop, and with some of added, which are no favorites.
Refilled(q, p, drop, added) ==
    /\ OneEach(p)
    /\ KeysIn(p) \subseteq (KeysIn(q) \ drop) \union added
    /\ \A i \in DOMAIN q : q[i].key \notin drop => \E h \in DOMAIN p : p[h] = q[i]
    /\ \A h \in DOMAIN p : p[h].favorite => \E i \in DOMAIN q : q[i] = p[h]
    /\ \A i, h \in DOMAIN q, m, n \in DOMAIN p :
          i < h /\ p[m] = q[i] /\ p[n] = q[h] /\ {q[i].key, q[h].key} \intersect drop = {} => m < n

LEMMA RowFields ==
    ASSUME NEW q, OneEach(q)
    PROVE  /\ q \in Seq(Row) /\ DOMAIN q = 1..Len(q) /\ Len(q) \in Nat
           /\ \A i \in DOMAIN q : /\ q[i] \in Row /\ q[i].key \in Content
                                  /\ q[i].favorite \in BOOLEAN /\ q[i].rank \in Nat
           /\ \A i, h \in DOMAIN q : q[i].key = q[h].key => i = h
<1>1. q \in Seq(Row)
  BY DEF OneEach
<1>2. \A i \in DOMAIN q : q[i] \in Row
  BY <1>1
<1>3. \A x \in Row : x.key \in Content /\ x.favorite \in BOOLEAN /\ x.rank \in Nat
  BY DEF Row
<1> QED
  BY <1>1, <1>2, <1>3 DEF OneEach

LEMMA JobFields ==
    ASSUME NEW j \in Job
    PROVE  /\ j.pc \in Steps /\ j.kind \in Kinds /\ j.set \in HighlightSet \union {Unused}
           /\ j.row \in Enterprise \union {Unused} /\ j.want \in SUBSET Content
           /\ j.asked \in SUBSET Content /\ j.prior \in SUBSET (Content \union HighlightSet)
           /\ j.drop \in SUBSET Content /\ j.favorite \in BOOLEAN /\ j.rank \in Nat
  BY DEF Job

LEMMA SameRefilled ==
    ASSUME NEW q, OneEach(q)
    PROVE  Refilled(q, q, {}, {})
<1>1. \A i, h \in DOMAIN q : q[i] = q[h] => i = h
  BY DEF OneEach
<1>2. \A i, h \in DOMAIN q, m, n \in DOMAIN q : i < h /\ q[m] = q[i] /\ q[n] = q[h] => m < n
  BY <1>1
<1> QED
  BY <1>2 DEF Refilled, KeysIn

LEMMA EmptyRefilled ==
    ASSUME NEW q, OneEach(q)
    PROVE  Refilled(q, <<>>, KeysIn(q), {})
<1> DEFINE none == <<>>
<1>1. none \in Seq(Row) /\ DOMAIN none = {}
  OBVIOUS
<1> HIDE DEF none
<1>2. OneEach(none) /\ KeysIn(none) = {}
  BY <1>1 DEF OneEach, KeysIn
<1>3. \A i \in DOMAIN q : q[i].key \in KeysIn(q)
  BY DEF KeysIn
<1>4. Refilled(q, none, KeysIn(q), {})
  BY <1>1, <1>2, <1>3 DEF Refilled
<1> QED
  BY <1>4 DEF none

LEMMA WithoutRefilled ==
    ASSUME NEW q, OneEach(q), NEW drop
    PROVE  Refilled(q, Without(q, drop), drop, {})
<1> DEFINE I == {i \in DOMAIN q : q[i].key \notin drop}
           p == At(q, I)
<1>1. Without(q, drop) = p
  BY DEF Without, Where
<1>2. q \in Seq(Row) /\ I \in SUBSET DOMAIN q /\ \A i \in I : q[i].key \notin drop
  BY DEF OneEach
<1>3. \A i \in DOMAIN q : q[i].key \notin drop => i \in I
  OBVIOUS
<1> HIDE DEF I
<1>4. /\ p \in Seq({q[i] : i \in I})
      /\ \A n \in DOMAIN p : \E i \in I : p[n] = q[i]
      /\ \A i \in I : \E n \in DOMAIN p : p[n] = q[i]
  BY <1>2, AtLists
<1>5. \A m, n \in DOMAIN p : m < n => \E i, h \in I : i < h /\ p[m] = q[i] /\ p[n] = q[h]
  BY <1>2, AtInOrder
<1>6. {q[i] : i \in I} \subseteq Row
  BY <1>2
<1> HIDE DEF p
<1>7. p \in Seq(Row)
  BY <1>4, <1>6
<1>8. \A m, n \in DOMAIN p : m \in Int /\ n \in Int
  BY <1>7
<1>9. \A i, h \in DOMAIN q : i \in Int /\ (q[i].key = q[h].key => i = h)
  BY DEF OneEach
<1>10. \A m, n \in DOMAIN p : m < n => p[m].key # p[n].key
  BY <1>5, <1>9, <1>2
<1>11. OneEach(p)
  BY <1>7, <1>8, <1>10 DEF OneEach
<1>12. \A i, h \in DOMAIN q, m, n \in DOMAIN p : i < h /\ p[m] = q[i] /\ p[n] = q[h] => m < n
  <2> SUFFICES ASSUME NEW i \in DOMAIN q, NEW h \in DOMAIN q, NEW m \in DOMAIN p, NEW n \in DOMAIN p,
                      i < h, p[m] = q[i], p[n] = q[h], ~(m < n)
               PROVE  FALSE
    OBVIOUS
  <2>1. m # n
    BY <1>9
  <2>2. n < m
    BY <1>8, <2>1
  <2>3. PICK x \in I, y \in I : x < y /\ p[n] = q[x] /\ p[m] = q[y]
    BY <1>5, <2>2
  <2>4. x = h /\ y = i
    BY <1>2, <1>9, <2>3
  <2> QED
    BY <1>9, <2>3, <2>4
<1>13. KeysIn(p) \subseteq KeysIn(q) \ drop
  <2>1. \A n \in DOMAIN p : \E i \in I : p[n].key = q[i].key
    BY <1>4
  <2>2. \A i \in I : q[i].key \in {q[h].key : h \in DOMAIN q} /\ q[i].key \notin drop
    BY <1>2
  <2> QED
    BY <2>1, <2>2 DEF KeysIn
<1>14. \A i \in DOMAIN q : q[i].key \notin drop => \E h \in DOMAIN p : p[h] = q[i]
  BY <1>3, <1>4
<1>15. \A h \in DOMAIN p : \E i \in DOMAIN q : q[i] = p[h]
  BY <1>2, <1>4
<1> QED
  BY <1>1, <1>11, <1>12, <1>13, <1>14, <1>15 DEF Refilled

\* Rows put after those that are left.
LEMMA JoinedRefilled ==
    ASSUME NEW q, OneEach(q), NEW drop, NEW p, Refilled(q, p, drop, {}),
           NEW new, OneEach(new), \A i \in DOMAIN new : ~ new[i].favorite,
           NEW added, KeysIn(new) \subseteq added, KeysIn(new) \intersect (KeysIn(q) \ drop) = {}
    PROVE  Refilled(q, p \o new, drop, added)
<1> DEFINE j == p \o new
<1>1. /\ q \in Seq(Row) /\ p \in Seq(Row) /\ new \in Seq(Row)
      /\ \A i, h \in DOMAIN q : q[i].key = q[h].key => i = h
      /\ \A i, h \in DOMAIN p : p[i].key = p[h].key => i = h
      /\ \A i, h \in DOMAIN new : new[i].key = new[h].key => i = h
  BY DEF OneEach, Refilled
<1>2. j \in Seq(Row)
  BY <1>1
<1>3. \A i \in DOMAIN p : i \in DOMAIN j /\ j[i] = p[i]
  BY <1>1
<1>4. \A i \in DOMAIN j : i \in Int /\ (i \in DOMAIN p \/ (i > Len(p) /\ i - Len(p) \in DOMAIN new /\ j[i] = new[i - Len(p)]))
  BY <1>1
<1>5. Len(p) \in Nat /\ \A i \in DOMAIN p : i \in Int /\ i <= Len(p)
  BY <1>1
<1> HIDE DEF j
<1>6. \A i \in DOMAIN p : p[i].key \in KeysIn(q) \ drop
  BY DEF Refilled, KeysIn
<1>7. \A i \in DOMAIN new : new[i].key \in added /\ new[i].key \notin KeysIn(q) \ drop
  BY DEF KeysIn
<1>8. OneEach(j)
  <2> SUFFICES ASSUME NEW i \in DOMAIN j, NEW h \in DOMAIN j, j[i].key = j[h].key
               PROVE  i = h
    BY <1>2 DEF OneEach
  <2>1. CASE i \in DOMAIN p /\ h \in DOMAIN p
    BY <2>1, <1>1, <1>3
  <2>2. CASE i \in DOMAIN p /\ h \notin DOMAIN p
    BY <2>2, <1>3, <1>4, <1>6, <1>7
  <2>3. CASE i \notin DOMAIN p /\ h \in DOMAIN p
    BY <2>3, <1>3, <1>4, <1>6, <1>7
  <2>4. CASE i \notin DOMAIN p /\ h \notin DOMAIN p
    <3>1. i - Len(p) = h - Len(p)
      BY <2>4, <1>1, <1>4
    <3> QED
      BY <3>1, <1>4, <1>5
  <2> QED
    BY <2>1, <2>2, <2>3, <2>4
<1>9. KeysIn(j) \subseteq (KeysIn(q) \ drop) \union added
  <2>1. \A i \in DOMAIN j : j[i].key \in (KeysIn(q) \ drop) \union added
    BY <1>3, <1>4, <1>6, <1>7
  <2> QED
    BY <2>1 DEF KeysIn
<1>10. \A i \in DOMAIN q : q[i].key \notin drop => \E h \in DOMAIN j : j[h] = q[i]
  BY <1>3 DEF Refilled
<1>11. \A h \in DOMAIN j : j[h].favorite => \E i \in DOMAIN q : q[i] = j[h]
  BY <1>3, <1>4 DEF Refilled
<1>12. \A i \in DOMAIN q, m \in DOMAIN j : j[m] = q[i] /\ q[i].key \notin drop => m \in DOMAIN p /\ p[m] = q[i]
  <2> SUFFICES ASSUME NEW i \in DOMAIN q, NEW m \in DOMAIN j, j[m] = q[i], q[i].key \notin drop
               PROVE  m \in DOMAIN p
    BY <1>3
  <2>1. q[i].key \in KeysIn(q) \ drop
    BY DEF KeysIn
  <2> QED
    BY <2>1, <1>4, <1>7
<1>13. \A i, h \in DOMAIN q, m, n \in DOMAIN j :
          i < h /\ j[m] = q[i] /\ j[n] = q[h] /\ {q[i].key, q[h].key} \intersect drop = {} => m < n
  BY <1>12 DEF Refilled
<1> QED
  BY <1>8, <1>9, <1>10, <1>11, <1>13 DEF Refilled, j

LEMMA NewRow ==
    ASSUME NEW k \in Content
    PROVE  NewItem(k) \in Row /\ NewItem(k).key = k /\ ~ NewItem(k).favorite
  BY DEF NewItem, Row

LEMMA AppendRefilled ==
    ASSUME NEW q, OneEach(q), NEW k \in Content, k \notin KeysIn(q)
    PROVE  Refilled(q, Append(q, NewItem(k)), {}, {k})
<1> DEFINE x == NewItem(k)
           new == <<x>>
<1>1. x \in Row /\ x.key = k /\ ~ x.favorite
  BY NewRow
<1> HIDE DEF x
<1>2. new \in Seq(Row) /\ DOMAIN new = {1} /\ new[1] = x
  BY <1>1
<1>3. Append(q, x) = q \o new
  BY <1>1 DEF OneEach
<1> HIDE DEF new
<1>4. OneEach(new) /\ KeysIn(new) = {k} /\ \A i \in DOMAIN new : ~ new[i].favorite
  BY <1>1, <1>2 DEF OneEach, KeysIn
<1>5. Refilled(q, q \o new, {}, {k})
  BY <1>4, SameRefilled, JoinedRefilled
<1> QED
  BY <1>3, <1>5 DEF x

LEMMA ListRefilled ==
    ASSUME NEW q, OneEach(q), NEW drop, NEW new \in SUBSET Content, NEW order \in SetToSeqs(new),
           IsFiniteSet(new), new \intersect (KeysIn(q) \ drop) = {}
    PROVE  Refilled(q, Without(q, drop) \o [i \in DOMAIN order |-> NewItem(order[i])], drop, new)
<1> DEFINE N == Cardinality(new)
           rows == [i \in DOMAIN order |-> NewItem(order[i])]
<1>1. N \in Nat
  BY FS_CardinalityType
<1>2. order \in [1..N -> new] /\ \A i, h \in 1..N : order[i] = order[h] => i = h
  BY DEF SetToSeqs
<1>3. DOMAIN order = 1..N
  BY <1>2
<1>4. \A i \in 1..N : rows[i] \in Row /\ rows[i].key = order[i] /\ ~ rows[i].favorite
  BY <1>2, <1>3, NewRow
<1>5. DOMAIN rows = 1..N /\ rows = [i \in 1..N |-> rows[i]]
  BY <1>3
<1> HIDE DEF rows, N
<1>6. rows \in Seq(Row)
  BY <1>1, <1>4, <1>5
<1>7. OneEach(rows) /\ KeysIn(rows) \subseteq new /\ \A i \in DOMAIN rows : ~ rows[i].favorite
  BY <1>2, <1>4, <1>5, <1>6 DEF OneEach, KeysIn
<1>8. Refilled(q, Without(q, drop), drop, {})
  BY WithoutRefilled
<1>9. KeysIn(rows) \intersect (KeysIn(q) \ drop) = {}
  BY <1>7
<1>10. Refilled(q, Without(q, drop) \o rows, drop, new)
  BY <1>7, <1>8, <1>9, JoinedRefilled
<1> QED
  BY <1>10 DEF rows

-----------------------------------------------------------------------------
(* A toggle at work on a set.                                              *)

FavoriteKeys(q) == {q[i].key : i \in {i \in DOMAIN q : q[i].favorite}}

\* The keys of its set that a request keeps from the others.
Holding(j, q) ==
    CASE j.pc = "order"    -> j.asked
      [] j.pc = "favorite" -> j.asked \union FavoriteKeys(q)
      [] j.pc = "commit"   -> j.drop
      [] OTHER             -> {}

\* The row that is toggled is there and is not yet as asked; a sort order that has been
\* found is beyond all that are given.
Sound(j, q) ==
    /\ j.pc = "order" => \E i \in DOMAIN q : j.asked = {q[i].key} /\ (q[i].favorite # j.favorite)
    /\ j.pc = "favorite" =>
          /\ j.favorite
          /\ \E i \in DOMAIN q : j.asked = {q[i].key} /\ ~ q[i].favorite
          /\ \A i \in DOMAIN q : q[i].favorite => q[i].rank < j.rank

\* No two requests hold a row, or have found a sort order.
Apart(j, o, q) ==
    /\ Holding(j, q) \intersect Holding(o, q) = {}
    /\ ~(j.pc = "favorite" /\ o.pc = "favorite")

LEMMA RefilledDistinct ==
    ASSUME NEW q, OneEach(q), Distinct(q), NEW p, NEW drop, NEW added, Refilled(q, p, drop, added)
    PROVE  OneEach(p) /\ Distinct(p)
<1>1. \A i, h \in DOMAIN p : p[i].key = p[h].key => i = h
  BY DEF OneEach, Refilled
<1>2. \A h \in DOMAIN p : p[h].favorite => \E i \in DOMAIN q : q[i] = p[h]
  BY DEF Refilled
<1>3. \A i, h \in DOMAIN p : p[i].favorite /\ p[h].favorite /\ p[i].rank = p[h].rank => i = h
  BY <1>1, <1>2 DEF Distinct
<1> QED
  BY <1>3 DEF Refilled, Distinct

LEMMA RefilledHolding ==
    ASSUME NEW q, NEW p, NEW drop, NEW added, Refilled(q, p, drop, added), NEW j
    PROVE  Holding(j, p) \subseteq Holding(j, q)
<1>1. FavoriteKeys(p) \subseteq FavoriteKeys(q)
  BY DEF Refilled, FavoriteKeys
<1> QED
  BY <1>1 DEF Holding

LEMMA RefilledSound ==
    ASSUME NEW q, NEW p, NEW drop, NEW added, Refilled(q, p, drop, added),
           NEW j, Sound(j, q), Holding(j, q) \intersect drop = {}
    PROVE  Sound(j, p)
<1>1. CASE j.pc = "order"
  <2>1. PICK i \in DOMAIN q : j.asked = {q[i].key} /\ (q[i].favorite # j.favorite)
    BY <1>1 DEF Sound
  <2>2. q[i].key \notin drop
    BY <1>1, <2>1 DEF Holding
  <2>3. PICK h \in DOMAIN p : p[h] = q[i]
    BY <2>2 DEF Refilled
  <2> QED
    BY <1>1, <2>1, <2>3 DEF Sound
<1>2. CASE j.pc = "favorite"
  <2>1. PICK i \in DOMAIN q : j.asked = {q[i].key} /\ ~ q[i].favorite
    BY <1>2 DEF Sound
  <2>2. q[i].key \notin drop
    BY <1>2, <2>1 DEF Holding
  <2>3. PICK h \in DOMAIN p : p[h] = q[i]
    BY <2>2 DEF Refilled
  <2>4. \A m \in DOMAIN p : p[m].favorite => p[m].rank < j.rank
    BY <1>2 DEF Refilled, Sound
  <2> QED
    BY <1>2, <2>1, <2>3, <2>4 DEF Sound
<1> QED
  BY <1>1, <1>2 DEF Sound

\* What the toggle of k makes of a set.
Turned(q, k, favorite, rank, removed) ==
    [i \in DOMAIN q |-> Toggled(q[i], k, favorite, rank, removed)]

LEMMA ToggledRow ==
    ASSUME NEW x \in Row, NEW k, NEW favorite \in BOOLEAN, NEW rank \in Nat, NEW removed \in Nat
    PROVE  LET y == Toggled(x, k, favorite, rank, removed) IN
           /\ y \in Row /\ y.key = x.key
           /\ x.key = k => y.favorite = favorite /\ y.rank = rank
           /\ x.key # k => y.favorite = x.favorite
           /\ x.key # k /\ ~ favorite /\ x.favorite /\ x.rank > removed => y.rank = x.rank - 1
           /\ x.key # k /\ ~(~ favorite /\ x.favorite /\ x.rank > removed) => y.rank = x.rank
<1>1. CASE x.key = k
  BY <1>1 DEF Toggled, Row
<1>2. CASE x.key # k /\ ~ favorite /\ x.favorite /\ x.rank > removed
  <2> DEFINE n == x.rank - 1
  <2>1. n \in Nat /\ x.rank > removed
    BY <1>2 DEF Row
  <2>2. Toggled(x, k, favorite, rank, removed) = [x EXCEPT !.rank = n]
    BY <1>2 DEF Toggled
  <2> HIDE DEF n
  <2>3. LET y == [x EXCEPT !.rank = n] IN
           y \in Row /\ y.key = x.key /\ y.favorite = x.favorite /\ y.rank = n
    BY <2>1 DEF Row
  <2> QED
    BY <1>2, <2>2, <2>3 DEF n
<1>3. CASE x.key # k /\ ~(~ favorite /\ x.favorite /\ x.rank > removed)
  BY <1>3 DEF Toggled, Row
<1> QED
  BY <1>1, <1>2, <1>3

\* p is q with the row at t toggled.
Toggle(q, p, t, favorite, rank) ==
    /\ p \in Seq(Row) /\ DOMAIN p = DOMAIN q
    /\ \A i \in DOMAIN q :
          /\ p[i].key = q[i].key
          /\ i = t => p[i].favorite = favorite /\ p[i].rank = rank
          /\ i # t => p[i].favorite = q[i].favorite
          /\ i # t /\ ~ favorite /\ q[i].favorite /\ q[i].rank > q[t].rank => p[i].rank = q[i].rank - 1
          /\ i # t /\ ~(~ favorite /\ q[i].favorite /\ q[i].rank > q[t].rank) => p[i].rank = q[i].rank

LEMMA TurnedToggles ==
    ASSUME NEW q, OneEach(q), NEW t \in DOMAIN q, NEW favorite \in BOOLEAN, NEW rank \in Nat
    PROVE  Toggle(q, Turned(q, q[t].key, favorite, rank, q[t].rank), t, favorite, rank)
<1> DEFINE p == Turned(q, q[t].key, favorite, rank, q[t].rank)
<1>1. q \in Seq(Row) /\ (\A i \in DOMAIN q : q[i] \in Row) /\ q[t].rank \in Nat
  BY RowFields
<1>2. DOMAIN p = DOMAIN q /\ DOMAIN q = 1..Len(q) /\ Len(q) \in Nat
  BY <1>1 DEF Turned
<1>3. \A i \in DOMAIN q :
         /\ p[i] \in Row /\ p[i].key = q[i].key
         /\ q[i].key = q[t].key => p[i].favorite = favorite /\ p[i].rank = rank
         /\ q[i].key # q[t].key => p[i].favorite = q[i].favorite
         /\ q[i].key # q[t].key /\ ~ favorite /\ q[i].favorite /\ q[i].rank > q[t].rank => p[i].rank = q[i].rank - 1
         /\ q[i].key # q[t].key /\ ~(~ favorite /\ q[i].favorite /\ q[i].rank > q[t].rank) => p[i].rank = q[i].rank
  <2> TAKE i \in DOMAIN q
  <2>1. p[i] = Toggled(q[i], q[t].key, favorite, rank, q[t].rank)
    BY DEF Turned
  <2> HIDE DEF p
  <2> QED
    BY <1>1, <2>1, ToggledRow
<1>4. p = [i \in 1..Len(q) |-> p[i]]
  BY <1>2 DEF Turned
<1> HIDE DEF p
<1>5. p \in Seq(Row)
  BY <1>2, <1>3, <1>4
<1>6. \A i \in DOMAIN q : q[i].key = q[t].key <=> i = t
  BY DEF OneEach
<1> QED
  BY <1>2, <1>3, <1>5, <1>6 DEF Toggle, p

LEMMA ToggleOneEach ==
    ASSUME NEW q, OneEach(q), NEW p, NEW t, NEW favorite, NEW rank, Toggle(q, p, t, favorite, rank)
    PROVE  OneEach(p) /\ KeysIn(p) = KeysIn(q)
<1>1. p \in Seq(Row) /\ DOMAIN p = DOMAIN q /\ \A i \in DOMAIN q : p[i].key = q[i].key
  BY DEF Toggle
<1> QED
  BY <1>1 DEF OneEach, KeysIn

\* A request at its last step toggles, and the rows of the others stay as they need them.
LEMMA ToggleDistinct ==
    ASSUME NEW q, OneEach(q), Distinct(q), NEW j \in Job, Sound(j, q),
           j.pc = "favorite" \/ (j.pc = "order" /\ ~ j.favorite),
           NEW t \in DOMAIN q, j.asked = {q[t].key},
           NEW p, Toggle(q, p, t, j.favorite, j.rank)
    PROVE  Distinct(p)
<1>1. /\ \A i \in DOMAIN q : q[i].rank \in Nat
      /\ \A i, h \in DOMAIN q : q[i].key = q[h].key => i = h
      /\ j.rank \in Nat /\ j.favorite \in BOOLEAN
  BY RowFields, JobFields
<1>2. CASE j.pc = "favorite"
  <2>1. j.favorite /\ \A i \in DOMAIN q : q[i].favorite => q[i].rank < j.rank
    BY <1>2 DEF Sound
  <2>2. \A i \in DOMAIN q : i # t => p[i].favorite = q[i].favorite /\ p[i].rank = q[i].rank
    BY <2>1 DEF Toggle
  <2>3. DOMAIN p = DOMAIN q /\ p[t].rank = j.rank
    BY DEF Toggle
  <2> QED
    BY <1>1, <2>1, <2>2, <2>3 DEF Distinct
<1>3. CASE j.pc = "order" /\ ~ j.favorite
  <2>1. q[t].favorite /\ ~ p[t].favorite
    <3>1. PICK i \in DOMAIN q : j.asked = {q[i].key} /\ (q[i].favorite # j.favorite)
      BY <1>3 DEF Sound
    <3>2. q[i].key = q[t].key
      BY <3>1
    <3>3. i = t /\ q[t].favorite \in BOOLEAN
      BY <3>2, RowFields
    <3>4. p[t].favorite = j.favorite
      BY DEF Toggle
    <3> QED
      BY <1>1, <1>3, <3>1, <3>3, <3>4
  <2>2. \A i \in DOMAIN q : p[i].favorite => i # t /\ q[i].favorite /\ q[i].rank # q[t].rank
    BY <2>1 DEF Toggle, Distinct
  <2>3. \A i \in DOMAIN q : p[i].favorite =>
           \/ q[i].rank > q[t].rank /\ p[i].rank = q[i].rank - 1
           \/ q[i].rank < q[t].rank /\ p[i].rank = q[i].rank
    BY <1>1, <1>3, <2>2 DEF Toggle
  <2>4. DOMAIN p = DOMAIN q
    BY DEF Toggle
  <2>5. \A i, h \in DOMAIN p : p[i].favorite /\ p[h].favorite /\ p[i].rank = p[h].rank
                                  => q[i].rank = q[h].rank
    BY <1>1, <2>3, <2>4
  <2> QED
    BY <2>2, <2>4, <2>5 DEF Distinct
<1> QED
  BY <1>2, <1>3

LEMMA ToggleOthers ==
    ASSUME NEW q, OneEach(q), NEW j \in Job, Sound(j, q),
           j.pc = "favorite" \/ (j.pc = "order" /\ ~ j.favorite),
           NEW t \in DOMAIN q, j.asked = {q[t].key},
           NEW p, Toggle(q, p, t, j.favorite, j.rank),
           NEW o \in Job, Sound(o, q), Apart(j, o, q)
    PROVE  Sound(o, p) /\ Holding(o, p) \subseteq Holding(o, q)
<1>1. DOMAIN p = DOMAIN q /\ (\A i \in DOMAIN q : p[i].key = q[i].key) /\ j.favorite \in BOOLEAN
  BY JobFields DEF Toggle
<1>2. q[t].key \notin Holding(o, q)
  BY DEF Apart, Holding
<1>3. CASE o.pc = "order"
  <2>1. PICK i \in DOMAIN q : o.asked = {q[i].key} /\ (q[i].favorite # o.favorite)
    BY <1>3 DEF Sound
  <2>2. i # t
    BY <1>2, <1>3, <2>1 DEF Holding
  <2>3. p[i].favorite = q[i].favorite /\ p[i].key = q[i].key
    BY <2>2 DEF Toggle
  <2>4. Holding(o, p) = Holding(o, q)
    BY <1>3 DEF Holding
  <2> QED
    BY <1>1, <1>3, <2>1, <2>3, <2>4 DEF Sound
<1>4. CASE o.pc = "favorite"
  <2>1. j.pc = "order" /\ ~ j.favorite
    BY <1>4 DEF Apart
  <2>2. PICK i \in DOMAIN q : j.asked = {q[i].key} /\ (q[i].favorite # j.favorite)
    BY <2>1 DEF Sound
  <2>3. q[i].key = q[t].key
    BY <2>2
  <2>4. i = t /\ q[i].favorite \in BOOLEAN
    BY <2>3, RowFields
  <2>5. q[i].favorite
    BY <1>1, <2>1, <2>2, <2>4
  <2>6. q[i].key \in Holding(o, q)
    BY <1>4, <2>5 DEF Holding, FavoriteKeys
  <2> QED
    BY <1>2, <2>3, <2>6
<1>5. CASE o.pc \notin {"order", "favorite"}
  BY <1>5 DEF Sound, Holding
<1> QED
  BY <1>3, <1>4, <1>5

-----------------------------------------------------------------------------
(* The invariant.                                                          *)

Staged(j) ==
    /\ j \in Job
    /\ j.pc \notin {"idle", "insert"} => j.set \in HighlightSet
    /\ j.pc \in {"insert", "save"} => j.row \in Enterprise
    /\ j.pc = "insert" => Cardinality(j.prior) < SetLimit
    /\ j.pc \in {"insert", "count", "add"} => j.drop = {}
    /\ j.pc = "add" => j.want \subseteq j.asked /\ ~TooMany(j.prior \union j.asked)
    /\ j.pc \in {"sweep", "commit"} =>
          j.kind \in {"patch", "set-content"} /\ (j.kind = "set-content" => j.drop \intersect j.want = {})
    /\ j.pc = "commit" => j.want \subseteq j.asked /\ (j.want # {} => ~TooMany(j.prior \union j.asked))

Locks(its, rq) ==
    /\ \A s \in HighlightSet : OneEach(its[s]) /\ Distinct(its[s])
    /\ \A r \in Request : Staged(rq[r]) /\ (rq[r].set \in HighlightSet => Sound(rq[r], its[rq[r].set]))
    /\ \A r, o \in Request :
          r # o /\ rq[r].set = rq[o].set /\ rq[r].set \in HighlightSet
              => Apart(rq[r], rq[o], its[rq[r].set])

\* Every set belongs to an enterprise with its config, and only sets there are show content.
Owned(cfg, rows, its) ==
    \A s \in HighlightSet : /\ rows[s] \in Enterprise => rows[s] \in cfg
                            /\ its[s] # <<>> => rows[s] \in Enterprise

IInv ==
    /\ config \in SUBSET Enterprise /\ stored \in SUBSET Content
    /\ row \in [HighlightSet -> Enterprise \union {Unused, Gone}]
    /\ items \in [HighlightSet -> Seq(Row)]
    /\ req \in [Request -> Job] /\ requests \in 0..MaxRequests
    /\ Owned(config, row, items)
    /\ Locks(items, req)

\* What is removed of the sets is nothing that a request outside A keeps.
Spares(its, its2, rq, A) ==
    \A s \in HighlightSet : \E drop, added :
        /\ Refilled(its[s], its2[s], drop, added)
        /\ \A r \in Request \ A : rq[r].set = s => Holding(rq[r], its[s]) \intersect drop = {}

Quiet(j) == j.pc \notin {"order", "favorite", "commit"}

\* Rows of sets come and go, none that a request at work keeps.
LEMMA LocksRefilled ==
    ASSUME NEW its, NEW rq, Locks(its, rq), NEW its2, NEW rq2, NEW A \in SUBSET Request,
           \A r \in Request \ A : rq2[r] = rq[r],
           \A r \in A : Staged(rq2[r]) /\ Quiet(rq2[r]),
           Spares(its, its2, rq, A)
    PROVE  Locks(its2, rq2)
<1>1. \A s \in HighlightSet : OneEach(its2[s]) /\ Distinct(its2[s])
  BY RefilledDistinct DEF Locks, Spares
<1>2. ASSUME NEW r \in Request
      PROVE  Staged(rq2[r]) /\ (rq2[r].set \in HighlightSet => Sound(rq2[r], its2[rq2[r].set]))
  <2>1. CASE r \in A
    BY <2>1 DEF Quiet, Sound
  <2>2. CASE r \notin A
    <3>1. rq2[r] = rq[r] /\ Staged(rq[r])
      BY <2>2 DEF Locks
    <3>2. ASSUME rq[r].set \in HighlightSet
          PROVE  Sound(rq[r], its2[rq[r].set])
      <4>1. Sound(rq[r], its[rq[r].set])
        BY <3>2 DEF Locks
      <4>2. PICK drop, added : /\ Refilled(its[rq[r].set], its2[rq[r].set], drop, added)
                               /\ Holding(rq[r], its[rq[r].set]) \intersect drop = {}
        BY <2>2, <3>2 DEF Spares
      <4> QED
        BY <4>1, <4>2, RefilledSound
    <3> QED
      BY <3>1, <3>2
  <2> QED
    BY <2>1, <2>2
<1>3. ASSUME NEW r \in Request, NEW o \in Request, r # o, rq2[r].set = rq2[o].set, rq2[r].set \in HighlightSet
      PROVE  Apart(rq2[r], rq2[o], its2[rq2[r].set])
  <2>1. CASE r \in A \/ o \in A
    BY <2>1 DEF Quiet, Holding, Apart
  <2>2. CASE r \notin A /\ o \notin A
    <3> DEFINE x == rq[r].set
    <3>1. rq2[r] = rq[r] /\ rq2[o] = rq[o] /\ x \in HighlightSet /\ rq[o].set = x
      BY <2>2, <1>3
    <3>2. Apart(rq[r], rq[o], its[x])
      BY <1>3, <3>1 DEF Locks
    <3> HIDE DEF x
    <3>3. \A j : Holding(j, its2[x]) \subseteq Holding(j, its[x])
      BY <3>1, RefilledHolding DEF Spares
    <3>4. Apart(rq[r], rq[o], its2[x])
      BY <3>2, <3>3 DEF Apart
    <3> QED
      BY <3>1, <3>4 DEF x
  <2> QED
    BY <2>1, <2>2
<1> QED
  BY <1>1, <1>2, <1>3 DEF Locks

\* A request takes a row, or finds a sort order.
LEMMA LocksTaken ==
    ASSUME NEW its, NEW rq, Locks(its, rq), NEW r \in Request, NEW rq2,
           \A o \in Request \ {r} : rq2[o] = rq[o],
           Staged(rq2[r]), rq2[r].set \in HighlightSet, Sound(rq2[r], its[rq2[r].set]),
           \A o \in Request \ {r} : rq[o].set = rq2[r].set => Apart(rq2[r], rq[o], its[rq2[r].set])
    PROVE  Locks(its, rq2)
<1>1. \A o \in Request : Staged(rq2[o]) /\ (rq2[o].set \in HighlightSet => Sound(rq2[o], its[rq2[o].set]))
  BY DEF Locks
<1>2. ASSUME NEW p \in Request, NEW o \in Request, p # o, rq2[p].set = rq2[o].set, rq2[p].set \in HighlightSet
      PROVE  Apart(rq2[p], rq2[o], its[rq2[p].set])
  <2>1. CASE p = r
    BY <1>2, <2>1
  <2>2. CASE o = r
    <3>1. Apart(rq2[o], rq2[p], its[rq2[p].set])
      BY <1>2, <2>2
    <3> QED
      BY <3>1 DEF Apart
  <2>3. CASE p # r /\ o # r
    BY <1>2, <2>3 DEF Locks
  <2> QED
    BY <2>1, <2>2, <2>3
<1> QED
  BY <1>1, <1>2 DEF Locks

\* A request toggles its row and is done.
LEMMA LocksTurned ==
    ASSUME NEW its, NEW rq, Locks(its, rq), NEW r \in Request, NEW rq2, NEW its2,
           \A o \in Request \ {r} : rq2[o] = rq[o],
           Staged(rq2[r]), Quiet(rq2[r]),
           rq[r].set \in HighlightSet,
           rq[r].pc = "favorite" \/ (rq[r].pc = "order" /\ ~ rq[r].favorite),
           NEW t \in DOMAIN its[rq[r].set], rq[r].asked = {its[rq[r].set][t].key},
           \A s \in HighlightSet \ {rq[r].set} : its2[s] = its[s],
           Toggle(its[rq[r].set], its2[rq[r].set], t, rq[r].favorite, rq[r].rank)
    PROVE  Locks(its2, rq2)
<1> DEFINE x == rq[r].set
           j == rq[r]
<1>1. OneEach(its[x]) /\ Distinct(its[x]) /\ j \in Job /\ Sound(j, its[x])
  BY DEF Locks, Staged
<1>2. OneEach(its2[x]) /\ Distinct(its2[x])
  BY <1>1, ToggleDistinct, ToggleOneEach
<1>3. ASSUME NEW o \in Request, o # r, rq[o].set = x
      PROVE  Sound(rq[o], its2[x]) /\ Holding(rq[o], its2[x]) \subseteq Holding(rq[o], its[x])
  <2>1. rq[o] \in Job /\ Sound(rq[o], its[x]) /\ Apart(j, rq[o], its[x])
    BY <1>3 DEF Locks, Staged
  <2>2. /\ t \in DOMAIN its[x] /\ j.asked = {its[x][t].key}
        /\ j.pc = "favorite" \/ (j.pc = "order" /\ ~ j.favorite)
        /\ Toggle(its[x], its2[x], t, j.favorite, j.rank)
    OBVIOUS
  <2> HIDE DEF x, j
  <2> QED
    BY <1>1, <2>1, <2>2, ToggleOthers
<1>4. ASSUME NEW o \in Request
      PROVE  Staged(rq2[o]) /\ (rq2[o].set \in HighlightSet => Sound(rq2[o], its2[rq2[o].set]))
  <2>1. CASE o = r
    BY <2>1 DEF Quiet, Sound
  <2>2. CASE o # r /\ rq[o].set = x
    BY <1>3, <2>2 DEF Locks
  <2>3. CASE o # r /\ rq[o].set # x
    BY <2>3 DEF Locks
  <2> QED
    BY <2>1, <2>2, <2>3
<1>5. ASSUME NEW p \in Request, NEW o \in Request, p # o, rq2[p].set = rq2[o].set, rq2[p].set \in HighlightSet
      PROVE  Apart(rq2[p], rq2[o], its2[rq2[p].set])
  <2>1. CASE p = r \/ o = r
    BY <2>1 DEF Quiet, Holding, Apart
  <2>2. CASE p # r /\ o # r /\ rq[p].set = x
    <3>1. Apart(rq[p], rq[o], its[x]) /\ rq[o].set = x
      BY <1>5, <2>2 DEF Locks
    <3>2. /\ Holding(rq[p], its2[x]) \subseteq Holding(rq[p], its[x])
          /\ Holding(rq[o], its2[x]) \subseteq Holding(rq[o], its[x])
      BY <1>3, <2>2, <3>1
    <3>3. Apart(rq[p], rq[o], its2[x])
      BY <3>1, <3>2 DEF Apart
    <3> QED
      BY <2>2, <3>3
  <2>3. CASE p # r /\ o # r /\ rq[p].set # x
    BY <1>5, <2>3 DEF Locks
  <2> QED
    BY <2>1, <2>2, <2>3
<1>6. \A s \in HighlightSet : OneEach(its2[s]) /\ Distinct(its2[s])
  BY <1>2 DEF Locks
<1> QED
  BY <1>4, <1>5, <1>6 DEF Locks

-----------------------------------------------------------------------------
(* What the actions read, in these terms.                                  *)

LEMMA SetTerms ==
    ASSUME NEW s \in HighlightSet
    PROVE  /\ Keys(s) = KeysIn(items[s])
           /\ {f.key : f \in Favorites(s)} = FavoriteKeys(items[s])
<1>1. Keys(s) = KeysIn(items[s])
  BY DEF Keys, KeysIn, ToSet
<1>2. {f.key : f \in Favorites(s)} \subseteq FavoriteKeys(items[s])
  BY DEF Favorites, FavoriteKeys, ToSet
<1>3. FavoriteKeys(items[s]) \subseteq {f.key : f \in Favorites(s)}
  BY DEF Favorites, FavoriteKeys, ToSet
<1> QED
  BY <1>1, <1>2, <1>3

LEMMA HoldsIs ==
    ASSUME NEW s \in HighlightSet, NEW r \in Request
    PROVE  /\ req[r].set = s => Holds(r, s) = Holding(req[r], items[s])
           /\ req[r].set # s => Holds(r, s) = {}
<1>1. CASE req[r].set = s
  BY <1>1, SetTerms DEF Holds, Holding
<1> QED
  BY <1>1 DEF Holds

LEMMA UnlockedKeeps ==
    ASSUME NEW s \in HighlightSet, NEW ks, Unlocked(s, ks)
    PROVE  \A r \in Request : req[r].set = s => Holding(req[r], items[s]) \intersect ks = {}
  BY HoldsIs DEF Unlocked

LEMMA ItemIs ==
    ASSUME NEW s \in HighlightSet, OneEach(items[s]), NEW i \in DOMAIN items[s]
    PROVE  Item(s, items[s][i].key) = items[s][i]
<1>1. items[s][i] \in ToSet(items[s])
  BY DEF ToSet
<1>2. \A x \in ToSet(items[s]) : x.key = items[s][i].key => x = items[s][i]
  BY DEF ToSet, OneEach
<1> QED
  BY <1>1, <1>2 DEF Item

LEMMA ExistingOwner ==
    ASSUME IInv, NEW s \in Existing
    PROVE  s \in HighlightSet /\ row[s] \in config /\ row[s] \in Enterprise
  BY DEF Existing, IInv, Owned

LEMMA OwnedExists ==
    ASSUME IInv, NEW s \in HighlightSet, row[s] \in Enterprise
    PROVE  s \in Existing
  BY NoRowAssumption DEF Existing

LEMMA RefilledEmpty ==
    ASSUME NEW q, OneEach(q), NEW p, NEW drop, Refilled(q, p, drop, {}), p # <<>>
    PROVE  q # <<>>
<1>1. p \in Seq(Row) /\ q \in Seq(Row)
  BY DEF Refilled, OneEach
<1>2. 1 \in DOMAIN p
  BY <1>1
<1>3. p[1].key \in KeysIn(q)
  BY <1>2 DEF Refilled, KeysIn
<1>4. PICK i \in DOMAIN q : TRUE
  BY <1>3 DEF KeysIn
<1> QED
  BY <1>1, <1>4

LEMMA IdleStaged ==
    /\ Staged(Idle) /\ Quiet(Idle) /\ Idle \in Job
    /\ Idle.pc = "idle" /\ Idle.set = Unused /\ Idle.row = Unused /\ Idle.want = {} /\ Idle.drop = {}
<1>1. Idle \in Job
  BY DEF Idle, Job, Steps, Kinds
<1>2. Idle.pc = "idle" /\ Idle.set = Unused /\ Idle.row = Unused /\ Idle.want = {} /\ Idle.drop = {}
  BY DEF Idle
<1> QED
  BY <1>1, <1>2 DEF Staged, Quiet

\* A step that takes no row: what it does to the sets respects what the others keep.
LEMMA RefillStep ==
    ASSUME IInv, NEW A \in SUBSET Request,
           config' \in SUBSET Enterprise, stored' \in SUBSET Content,
           row' \in [HighlightSet -> Enterprise \union {Unused, Gone}],
           DOMAIN items' = HighlightSet, items' = [s \in HighlightSet |-> items'[s]],
           req' = [r \in Request |-> req'[r]], requests' \in 0..MaxRequests,
           Owned(config', row', items'),
           \A r \in Request \ A : req'[r] = req[r],
           \A r \in A : Staged(req'[r]) /\ Quiet(req'[r]),
           Spares(items, items', req, A)
    PROVE  IInv'
<1>1. Locks(items', req')
  <2>1. Locks(items, req)
    BY DEF IInv
  <2> QED
    BY <2>1, LocksRefilled
<1>2. \A s \in HighlightSet : items'[s] \in Seq(Row)
  BY <1>1 DEF Locks, OneEach
<1>3. items' \in [HighlightSet -> Seq(Row)]
  BY <1>2
<1>4. \A r \in Request : req'[r] \in Job
  BY <1>1 DEF Locks, Staged
<1>5. req' \in [Request -> Job]
  BY <1>4
<1> QED
  BY <1>1, <1>3, <1>5 DEF IInv

\* A step of r that changes nothing of any set.
LEMMA QuietStep ==
    ASSUME IInv, NEW r \in Request, NEW j, Staged(j), Quiet(j), req' = [req EXCEPT ![r] = j],
           requests' \in 0..MaxRequests, UNCHANGED <<config, items, stored>>,
           row' \in [HighlightSet -> Enterprise \union {Unused, Gone}],
           Owned(config, row', items)
    PROVE  IInv'
<1>1. \A s \in HighlightSet : Refilled(items[s], items'[s], {}, {})
  BY SameRefilled DEF IInv, Locks
<1>2. /\ req' = [o \in Request |-> req'[o]] /\ req'[r] = j
      /\ \A o \in Request \ {r} : req'[o] = req[o]
  BY DEF IInv
<1>3. /\ config' \in SUBSET Enterprise /\ stored' \in SUBSET Content
      /\ DOMAIN items' = HighlightSet /\ items' = [s \in HighlightSet |-> items'[s]]
      /\ Owned(config', row', items')
  BY DEF IInv
<1>4. Spares(items, items', req, {r})
  BY <1>1 DEF Spares
<1>5. {r} \in SUBSET Request /\ \A o \in {r} : Staged(req'[o]) /\ Quiet(req'[o])
  BY <1>2
<1> QED
  BY <1>2, <1>3, <1>4, <1>5, RefillStep

LEMMA EnterQuietly ==
    ASSUME IInv, NEW r \in Request, NEW j, Staged(j), Quiet(j), Enter(r, j), UNCHANGED tables
    PROVE  IInv'
<1>1. requests' \in 0..MaxRequests
  BY BoundAssumption DEF IInv, Enter
<1>2. Owned(config, row, items) /\ row' = row /\ row \in [HighlightSet -> Enterprise \union {Unused, Gone}]
  BY DEF IInv, tables
<1> QED
  BY <1>1, <1>2, QuietStep DEF Enter, tables

LEMMA GoQuietly ==
    ASSUME IInv, NEW r \in Request, NEW j, Staged(j), Quiet(j), Goes(r, j), UNCHANGED tables
    PROVE  IInv'
<1>1. requests' \in 0..MaxRequests
  BY DEF IInv, Goes
<1>2. Owned(config, row, items) /\ row' = row /\ row \in [HighlightSet -> Enterprise \union {Unused, Gone}]
  BY DEF IInv, tables
<1> QED
  BY <1>1, <1>2, QuietStep DEF Goes, tables

LEMMA EndQuietly ==
    ASSUME IInv, NEW r \in Request, Ends(r), UNCHANGED tables
    PROVE  IInv'
  BY IdleStaged, GoQuietly DEF Ends

-----------------------------------------------------------------------------
(* Each action keeps the invariant.                                        *)

LEMMA Starts == ASSUME Init PROVE IInv
<1> DEFINE shown == [i \in DOMAIN InitialContent |-> NewItem(InitialContent[i])]
           none == <<>>
<1>1. InitialSet \in HighlightSet /\ InitialContent \in Seq(Content)
  BY InitialAssumption
<1>2. \A i, h \in DOMAIN InitialContent : InitialContent[i] = InitialContent[h] => i = h
  BY InitialAssumption DEF IsInjective
<1>3. /\ DOMAIN shown = 1..Len(InitialContent) /\ Len(InitialContent) \in Nat
      /\ shown = [i \in 1..Len(InitialContent) |-> shown[i]]
      /\ \A i \in DOMAIN shown : shown[i] \in Row /\ shown[i].key = InitialContent[i] /\ ~ shown[i].favorite
  BY <1>1, NewRow
<1>4. items = [s \in HighlightSet |-> IF s = InitialSet THEN shown ELSE none]
  BY DEF Init
<1>5. none \in Seq(Row) /\ DOMAIN none = {}
  OBVIOUS
<1>6. PICK e \in Enterprise : row = [s \in HighlightSet |-> IF s = InitialSet THEN e ELSE Unused]
  BY DEF Init
<1>7. /\ config = Enterprise /\ stored = Content /\ requests = 0
      /\ req = [r \in Request |-> Idle]
  BY DEF Init
<1>8. none = <<>>
  OBVIOUS
<1> HIDE DEF shown, none
<1>9. shown \in Seq(Row)
  BY <1>3
<1>10. \A s \in HighlightSet : OneEach(items[s]) /\ \A i \in DOMAIN items[s] : ~ items[s][i].favorite
  BY <1>1, <1>2, <1>3, <1>4, <1>5, <1>9 DEF OneEach
<1>11. Locks(items, req)
  BY <1>7, <1>10, IdleStaged, NoRowAssumption DEF Locks, Distinct
<1>12. items \in [HighlightSet -> Seq(Row)]
  BY <1>4, <1>5, <1>9
<1>13. Owned(config, row, items)
  BY <1>4, <1>6, <1>7, <1>8, NoRowAssumption DEF Owned
<1>14. row \in [HighlightSet -> Enterprise \union {Unused, Gone}]
  BY <1>6
<1>15. requests \in 0..MaxRequests
  BY <1>7, BoundAssumption
<1> QED
  BY <1>7, <1>11, <1>12, <1>13, <1>14, <1>15, IdleStaged DEF IInv

LEMMA ListedKeys ==
    ASSUME NEW ks \in KeyLists
    PROVE  ks \in SUBSET Content
  BY BoundAssumption

LEMMA CountSetsKeeps == ASSUME IInv, NEW r \in Request, CountSets(r) PROVE IInv'
<1>1. PICK e \in config, ks \in KeyLists :
         /\ Cardinality(SetsOf(e)) < SetLimit
         /\ Enter(r, [Idle EXCEPT !.pc = "insert", !.kind = "create", !.want = ks,
                                  !.row = e, !.prior = SetsOf(e)])
         /\ UNCHANGED tables
  BY DEF CountSets
<1> DEFINE j == [Idle EXCEPT !.pc = "insert", !.kind = "create", !.want = ks,
                             !.row = e, !.prior = SetsOf(e)]
           sets == SetsOf(e)
<1>2. ks \in SUBSET Content /\ e \in Enterprise /\ sets \in SUBSET (Content \union HighlightSet)
  BY ListedKeys DEF IInv, SetsOf, Existing
<1>3. Cardinality(sets) < SetLimit /\ Enter(r, j)
  BY <1>1
<1>4. j = [Idle EXCEPT !.pc = "insert", !.kind = "create", !.want = ks, !.row = e, !.prior = sets]
  OBVIOUS
<1> HIDE DEF sets, j
<1>5. /\ j \in Job /\ j.pc = "insert" /\ j.row = e /\ j.prior = sets /\ j.drop = {}
  BY <1>2, <1>4, IdleStaged DEF Job, Steps, Kinds
<1>6. Staged(j) /\ Quiet(j)
  BY <1>2, <1>3, <1>5 DEF Staged, Quiet
<1> QED
  BY <1>1, <1>3, <1>6, EnterQuietly

LEMMA InsertSetKeeps == ASSUME IInv, NEW r \in Request, InsertSet(r) PROVE IInv'
<1> DEFINE x == req[r]
<1>1. x \in Job /\ x.pc = "insert" /\ x.row \in Enterprise /\ x.drop = {}
  BY DEF IInv, InsertSet, Locks, Staged
<1>2. CASE ~ Savable(x.row)
  BY <1>2, EndQuietly DEF InsertSet, tables
<1>3. CASE Savable(x.row)
  <2>1. PICK s \in HighlightSet :
           /\ row' = [row EXCEPT ![s] = x.row]
           /\ IF x.want = {} THEN Ends(r)
              ELSE Goes(r, [x EXCEPT !.pc = "count", !.set = s, !.prior = {}])
    BY <1>3 DEF InsertSet
  <2>2. UNCHANGED <<config, items, stored>>
    BY DEF InsertSet
  <2>3. x.row \in config
    BY <1>3 DEF Savable
  <2>4. row' \in [HighlightSet -> Enterprise \union {Unused, Gone}]
    BY <1>1, <2>1 DEF IInv
  <2>5. Owned(config, row', items)
    BY <1>1, <2>1, <2>3 DEF IInv, Owned
  <2>6. PICK j : Staged(j) /\ Quiet(j) /\ Goes(r, j)
    <3>1. CASE x.want = {}
      BY <2>1, <3>1, IdleStaged DEF Ends
    <3>2. CASE x.want # {}
      <4> DEFINE j == [x EXCEPT !.pc = "count", !.set = s, !.prior = {}]
      <4> HIDE DEF x
      <4>1. j \in Job /\ j.pc = "count" /\ j.set = s /\ j.drop = {}
        BY <1>1 DEF Job, Steps
      <4>2. Goes(r, j)
        BY <2>1, <3>2
      <4> HIDE DEF j
      <4>3. Staged(j) /\ Quiet(j)
        BY <4>1 DEF Staged, Quiet
      <4> QED
        BY <4>2, <4>3
    <3> QED
      BY <3>1, <3>2
  <2>7. requests' \in 0..MaxRequests /\ req' = [req EXCEPT ![r] = j]
    BY <2>6 DEF IInv, Goes
  <2> QED
    BY <2>2, <2>4, <2>5, <2>6, <2>7, QuietStep
<1> QED
  BY <1>2, <1>3

\* What AddContent and CountContent go on with.
LEMMA AddingStaged ==
    ASSUME NEW state \in Job, state.drop = {}, NEW s \in HighlightSet, OneEach(items[s]),
           NEW ks \in SUBSET Content, Addable(s, ks)
    PROVE  Staged(Adding(state, s, ks)) /\ Quiet(Adding(state, s, ks))
<1> DEFINE j == Adding(state, s, ks)
           kept == Keys(s)
           new == ks \intersect stored
<1>1. kept \in SUBSET (Content \union HighlightSet) /\ new \in SUBSET Content
  BY SetTerms, RowFields DEF KeysIn
<1>2. ~TooMany(kept \union new)
  BY DEF Addable
<1>3. j = [state EXCEPT !.pc = "add", !.set = s, !.want = new, !.asked = new, !.prior = kept]
  BY DEF Adding
<1> HIDE DEF j, kept, new
<1>4. j \in Job /\ j.pc = "add" /\ j.set = s /\ j.want = new /\ j.asked = new /\ j.prior = kept /\ j.drop = {}
  BY <1>1, <1>3 DEF Job, Steps
<1>5. Staged(j) /\ Quiet(j)
  BY <1>2, <1>4 DEF Staged, Quiet
<1> QED
  BY <1>5 DEF j

LEMMA AddContentKeeps == ASSUME IInv, NEW r \in Request, AddContent(r) PROVE IInv'
<1>1. PICK s \in Existing, ks \in KeyLists :
         /\ Addable(s, ks)
         /\ Enter(r, Adding([Idle EXCEPT !.kind = "add-content"], s, ks))
         /\ UNCHANGED tables
  BY DEF AddContent
<1> DEFINE state == [Idle EXCEPT !.kind = "add-content"]
<1>2. state \in Job /\ state.drop = {}
  BY IdleStaged DEF Job, Kinds
<1>3. Enter(r, Adding(state, s, ks))
  BY <1>1
<1> HIDE DEF state
<1>4. s \in HighlightSet /\ ks \in SUBSET Content /\ OneEach(items[s])
  BY ExistingOwner, ListedKeys DEF IInv, Locks
<1>5. Staged(Adding(state, s, ks)) /\ Quiet(Adding(state, s, ks))
  BY <1>1, <1>2, <1>4, AddingStaged
<1> QED
  BY <1>1, <1>3, <1>5, EnterQuietly

LEMMA CountContentKeeps == ASSUME IInv, NEW r \in Request, CountContent(r) PROVE IInv'
<1> DEFINE x == req[r]
<1>1. x \in Job /\ x.pc = "count" /\ x.drop = {} /\ x.set \in HighlightSet /\ x.want \in SUBSET Content
  BY JobFields DEF IInv, CountContent, Locks, Staged
<1>2. CASE ~ Addable(x.set, x.want)
  BY <1>2, EndQuietly DEF CountContent
<1>3. CASE Addable(x.set, x.want)
  <2>1. Goes(r, Adding(x, x.set, x.want)) /\ UNCHANGED tables
    BY <1>3 DEF CountContent
  <2>2. OneEach(items[x.set])
    BY <1>1 DEF IInv, Locks
  <2> HIDE DEF x
  <2>3. Staged(Adding(x, x.set, x.want)) /\ Quiet(Adding(x, x.set, x.want))
    BY <1>1, <1>3, <2>2, AddingStaged
  <2> QED
    BY <2>1, <2>3, GoQuietly
<1> QED
  BY <1>2, <1>3

LEMMA BeginPatchKeeps == ASSUME IInv, NEW r \in Request, BeginPatch(r) PROVE IInv'
<1>1. PICK s \in Existing, add \in KeyLists, remove \in KeyLists, titled \in BOOLEAN :
         /\ Enter(r, [Idle EXCEPT !.pc = "sweep", !.kind = "patch", !.set = s, !.want = add,
                                  !.drop = remove, !.row = IF titled THEN row[s] ELSE Unused])
         /\ UNCHANGED tables
  BY DEF BeginPatch
<1> DEFINE owner == IF titled THEN row[s] ELSE Unused
           j == [Idle EXCEPT !.pc = "sweep", !.kind = "patch", !.set = s, !.want = add,
                             !.drop = remove, !.row = owner]
<1>2. /\ s \in HighlightSet /\ owner \in Enterprise \union {Unused}
      /\ add \in SUBSET Content /\ remove \in SUBSET Content
  BY ExistingOwner, ListedKeys
<1>3. Enter(r, j)
  BY <1>1
<1> HIDE DEF owner
<1>4. j \in Job /\ j.pc = "sweep" /\ j.set = s /\ j.kind = "patch"
  BY <1>2, IdleStaged DEF Job, Steps, Kinds
<1> HIDE DEF j
<1>5. Staged(j) /\ Quiet(j)
  BY <1>2, <1>4 DEF Staged, Quiet
<1> QED
  BY <1>1, <1>3, <1>5, EnterQuietly

LEMMA BeginSetContentKeeps == ASSUME IInv, NEW r \in Request, BeginSetContent(r) PROVE IInv'
<1>1. PICK s \in Existing, ks \in KeyLists :
         /\ Enter(r, [Idle EXCEPT !.pc = "sweep", !.kind = "set-content", !.set = s, !.want = ks,
                                  !.drop = Keys(s) \ ks])
         /\ UNCHANGED tables
  BY DEF BeginSetContent
<1> DEFINE gone == Keys(s) \ ks
           j == [Idle EXCEPT !.pc = "sweep", !.kind = "set-content", !.set = s, !.want = ks, !.drop = gone]
<1>2. s \in HighlightSet /\ ks \in SUBSET Content /\ OneEach(items[s])
  BY ExistingOwner, ListedKeys DEF IInv, Locks
<1>3. gone \in SUBSET Content /\ gone \intersect ks = {}
  BY <1>2, SetTerms, RowFields DEF KeysIn
<1>4. Enter(r, j)
  BY <1>1
<1> HIDE DEF gone
<1>5. j \in Job /\ j.pc = "sweep" /\ j.set = s /\ j.kind = "set-content" /\ j.drop = gone /\ j.want = ks
  BY <1>2, <1>3, IdleStaged DEF Job, Steps, Kinds
<1> HIDE DEF j
<1>6. Staged(j) /\ Quiet(j)
  BY <1>2, <1>3, <1>5 DEF Staged, Quiet
<1> QED
  BY <1>1, <1>4, <1>6, EnterQuietly

LEMMA BeginSaveKeeps == ASSUME IInv, NEW r \in Request, BeginSave(r) PROVE IInv'
<1>1. PICK s \in Existing, e \in config :
         /\ Enter(r, [Idle EXCEPT !.pc = "save", !.kind = "save", !.set = s, !.row = e])
         /\ UNCHANGED tables
  BY DEF BeginSave
<1> DEFINE j == [Idle EXCEPT !.pc = "save", !.kind = "save", !.set = s, !.row = e]
<1>2. s \in HighlightSet /\ e \in Enterprise
  BY ExistingOwner DEF IInv
<1>3. Enter(r, j)
  BY <1>1
<1>4. j \in Job /\ j.pc = "save" /\ j.set = s /\ j.row = e
  BY <1>2, IdleStaged DEF Job, Steps, Kinds
<1> HIDE DEF j
<1>5. Staged(j) /\ Quiet(j)
  BY <1>2, <1>4 DEF Staged, Quiet
<1> QED
  BY <1>1, <1>3, <1>5, EnterQuietly

LEMMA SaveSetKeeps == ASSUME IInv, NEW r \in Request, SaveSet(r) PROVE IInv'
<1> DEFINE x == req[r]
<1>1. x.pc = "save" /\ x.row \in Enterprise /\ x.set \in HighlightSet
  BY DEF IInv, SaveSet, Locks, Staged
<1>2. /\ row' = IF x.row \in config THEN [row EXCEPT ![x.set] = x.row] ELSE row
      /\ Ends(r) /\ UNCHANGED <<config, items, stored>>
  BY DEF SaveSet, Savable
<1> HIDE DEF x
<1>3. row' \in [HighlightSet -> Enterprise \union {Unused, Gone}]
  BY <1>1, <1>2 DEF IInv
<1>4. Owned(config, row', items)
  BY <1>1, <1>2 DEF IInv, Owned
<1>5. requests' \in 0..MaxRequests /\ req' = [req EXCEPT ![r] = Idle]
  BY <1>2 DEF IInv, Ends, Goes
<1> QED
  BY <1>2, <1>3, <1>4, <1>5, IdleStaged, QuietStep

\* The items of one set are replaced, by a request r, which lets go of what it held.
LEMMA OneSetStep ==
    ASSUME IInv, NEW r \in Request, NEW s \in HighlightSet, NEW p,
           items' = [items EXCEPT ![s] = p],
           NEW drop, NEW added, Refilled(items[s], p, drop, added),
           \A o \in Request \ {r} : req[o].set = s => Holding(req[o], items[s]) \intersect drop = {},
           NEW j, Staged(j), Quiet(j), req' = [req EXCEPT ![r] = j], UNCHANGED <<config, stored, requests>>,
           row' \in [HighlightSet -> Enterprise \union {Unused, Gone}], Owned(config, row', items')
    PROVE  IInv'
<1>1. \A t \in HighlightSet : items'[t] = IF t = s THEN p ELSE items[t]
  BY DEF IInv
<1>2. \A t \in HighlightSet : Refilled(items[t], items[t], {}, {})
  BY SameRefilled DEF IInv, Locks
<1>3. Spares(items, items', req, {r})
  <2> SUFFICES ASSUME NEW t \in HighlightSet
               PROVE  \E d, a : /\ Refilled(items[t], items'[t], d, a)
                                /\ \A o \in Request \ {r} :
                                      req[o].set = t => Holding(req[o], items[t]) \intersect d = {}
    BY DEF Spares
  <2>1. CASE t = s
    BY <1>1, <2>1
  <2>2. CASE t # s
    BY <1>1, <1>2, <2>2
  <2> QED
    BY <2>1, <2>2
<1>4. /\ req' = [o \in Request |-> req'[o]] /\ req'[r] = j
      /\ \A o \in Request \ {r} : req'[o] = req[o]
  BY DEF IInv
<1>5. /\ config' \in SUBSET Enterprise /\ stored' \in SUBSET Content /\ requests' \in 0..MaxRequests
      /\ DOMAIN items' = HighlightSet /\ items' = [t \in HighlightSet |-> items'[t]]
      /\ Owned(config', row', items')
  BY DEF IInv
<1>6. {r} \in SUBSET Request /\ \A o \in {r} : Staged(req'[o]) /\ Quiet(req'[o])
  BY <1>4
<1> QED
  BY <1>3, <1>4, <1>5, <1>6, RefillStep

LEMMA AddOneKeeps == ASSUME IInv, NEW r \in Request, AddOne(r) PROVE IInv'
<1> DEFINE x == req[r]
           s == x.set
<1>1. /\ x \in Job /\ x.pc = "add" /\ s \in HighlightSet /\ x.drop = {} /\ x.want \subseteq x.asked
      /\ ~TooMany(x.prior \union x.asked) /\ x.want \in SUBSET Content
  BY JobFields DEF IInv, AddOne, Locks, Staged
<1>2. PICK k \in x.want :
         /\ items' = IF k \in Keys(s) \/ s \notin Existing \/ k \notin stored THEN items
                     ELSE [items EXCEPT ![s] = Append(@, NewItem(k))]
         /\ IF x.want \ {k} = {} \/ (k \notin Keys(s) /\ (s \notin Existing \/ k \notin stored)) THEN Ends(r)
            ELSE Goes(r, [x EXCEPT !.want = x.want \ {k}])
  BY DEF AddOne
<1>3. UNCHANGED <<config, row, stored>>
  BY DEF AddOne
<1>4. PICK j : Staged(j) /\ Quiet(j) /\ Goes(r, j)
  <2>1. CASE Ends(r)
    BY <2>1, IdleStaged DEF Ends
  <2>2. CASE Goes(r, [x EXCEPT !.want = x.want \ {k}])
    <3> DEFINE left == x.want \ {k}
               j == [x EXCEPT !.want = left]
    <3>1. left \in SUBSET Content /\ left \subseteq x.asked /\ Goes(r, j)
      BY <1>1, <2>2
    <3> HIDE DEF left, x
    <3>2. /\ j \in Job /\ j.pc = "add" /\ j.set = x.set /\ j.want = left /\ j.asked = x.asked
          /\ j.prior = x.prior /\ j.drop = {}
      BY <1>1, <3>1 DEF Job
    <3> HIDE DEF j
    <3>3. Staged(j) /\ Quiet(j)
      BY <1>1, <3>1, <3>2 DEF Staged, Quiet
    <3> QED
      BY <3>1, <3>3
  <2> QED
    BY <1>2, <2>1, <2>2
<1>5. requests' \in 0..MaxRequests /\ req' = [req EXCEPT ![r] = j] /\ UNCHANGED requests
  BY <1>4 DEF IInv, Goes
<1>6. row' \in [HighlightSet -> Enterprise \union {Unused, Gone}] /\ Owned(config, row', items)
  BY <1>3 DEF IInv
<1>7. CASE items' = items
  BY <1>3, <1>4, <1>5, <1>6, <1>7, QuietStep
<1>8. CASE k \notin Keys(s) /\ s \in Existing /\ items' = [items EXCEPT ![s] = Append(@, NewItem(k))]
  <2> DEFINE p == Append(items[s], NewItem(k))
  <2>1. k \in Content /\ k \notin KeysIn(items[s]) /\ OneEach(items[s])
    BY <1>1, <1>8, SetTerms DEF IInv, Locks
  <2>2. Refilled(items[s], p, {}, {k})
    BY <2>1, AppendRefilled
  <2>3. items' = [items EXCEPT ![s] = p]
    BY <1>8
  <2>4. row[s] \in Enterprise
    BY <1>8, ExistingOwner
  <2> HIDE DEF p, s
  <2>5. Owned(config, row', items')
    BY <1>1, <1>6, <2>3, <2>4, <1>3 DEF Owned, IInv
  <2>6. \A o \in Request \ {r} : req[o].set = s => Holding(req[o], items[s]) \intersect {} = {}
    OBVIOUS
  <2> QED
    BY <1>1, <1>3, <1>4, <1>5, <1>6, <2>2, <2>3, <2>5, <2>6, OneSetStep
<1> QED
  BY <1>2, <1>7, <1>8

LEMMA CommitKeeps == ASSUME IInv, NEW r \in Request, Commit(r) PROVE IInv'
<1> DEFINE x == req[r]
           s == x.set
           titled == x.row # Unused
           new == x.want \ (Keys(s) \ x.drop)
           fails == \/ titled /\ ~Savable(x.row)
                    \/ new # {} /\ s \notin Existing /\ ~titled
                    \/ ~(new \subseteq stored)
<1>1. /\ x \in Job /\ x.pc = "commit" /\ s \in HighlightSet /\ x.want \in SUBSET Content
      /\ x.row \in Enterprise \union {Unused}
  BY JobFields DEF IInv, Commit, Locks, Staged
<1>2. Ends(r) /\ UNCHANGED <<config, stored>>
  BY DEF Commit
<1>3. CASE fails
  <2>1. UNCHANGED tables
    BY <1>2, <1>3 DEF Commit, tables
  <2> QED
    BY <1>2, <2>1, EndQuietly
<1>4. CASE ~ fails
  <2>1. PICK order \in SetToSeqs(new) :
           /\ items' = [items EXCEPT ![s] =
                 Without(@, x.drop) \o [i \in DOMAIN order |-> NewItem(order[i])]]
           /\ row' = IF titled THEN [row EXCEPT ![s] = x.row] ELSE row
    BY <1>4 DEF Commit
  <2> DEFINE p == Without(items[s], x.drop) \o [i \in DOMAIN order |-> NewItem(order[i])]
  <2>2. OneEach(items[s]) /\ Keys(s) = KeysIn(items[s])
    BY <1>1, SetTerms DEF IInv, Locks
  <2>3. new \in SUBSET Content /\ new \intersect (KeysIn(items[s]) \ x.drop) = {}
    BY <1>1, <2>2
  <2>4. IsFiniteSet(new)
    BY <2>3, FiniteAssumption, FS_Subset
  <2>5. items' = [items EXCEPT ![s] = p]
    BY <2>1
  <2>6. (titled => x.row \in config) /\ (new # {} => s \in Existing \/ titled)
    BY <1>4 DEF Savable
  <2> HIDE DEF new
  <2>7. Refilled(items[s], p, x.drop, new)
    BY <2>2, <2>3, <2>4, ListRefilled
  <2> HIDE DEF p
  <2>8. \A o \in Request \ {r} : req[o].set = s => Holding(req[o], items[s]) \intersect x.drop = {}
    <3> SUFFICES ASSUME NEW o \in Request \ {r}, req[o].set = s
                 PROVE  Holding(req[o], items[s]) \intersect x.drop = {}
      OBVIOUS
    <3>1. Apart(x, req[o], items[s])
      BY <1>1 DEF IInv, Locks
    <3> QED
      BY <1>1, <3>1 DEF Apart, Holding
  <2>9. row' \in [HighlightSet -> Enterprise \union {Unused, Gone}]
    BY <1>1, <2>1 DEF IInv
  <2>10. row'[s] \in Enterprise => row'[s] \in config
    BY <1>1, <2>1, <2>6 DEF IInv, Owned
  <2>11. p # <<>> => row'[s] \in Enterprise
    <3>1. CASE titled
      BY <1>1, <2>1, <3>1 DEF IInv
    <3>2. CASE ~ titled /\ new # {}
      BY <2>1, <2>6, <3>2, ExistingOwner
    <3>3. CASE ~ titled /\ new = {}
      <4>1. p # <<>> => items[s] # <<>>
        BY <2>2, <2>7, <3>3, RefilledEmpty
      <4> QED
        BY <1>1, <2>1, <3>3, <4>1 DEF IInv, Owned
    <3> QED
      BY <3>1, <3>2, <3>3
  <2>12. \A t \in HighlightSet : t # s => items'[t] = items[t] /\ row'[t] = row[t]
    BY <2>1, <2>5, <1>1 DEF IInv
  <2>13. items'[s] = p
    BY <1>1, <2>5 DEF IInv
  <2>14. Owned(config, row', items')
    BY <2>10, <2>11, <2>12, <2>13 DEF IInv, Owned
  <2>15. req' = [req EXCEPT ![r] = Idle] /\ UNCHANGED <<config, stored, requests>>
    BY <1>2 DEF Ends, Goes
  <2> DEFINE d == x.drop
  <2>16. /\ s \in HighlightSet /\ Refilled(items[s], p, d, new) /\ Staged(Idle) /\ Quiet(Idle)
         /\ \A o \in Request \ {r} : req[o].set = s => Holding(req[o], items[s]) \intersect d = {}
    BY <1>1, <2>7, <2>8, IdleStaged
  <2> HIDE DEF x, s, d
  <2> QED
    BY <2>5, <2>9, <2>14, <2>15, <2>16, OneSetStep
<1> QED
  BY <1>3, <1>4

\* A request that takes rows of a set that no other keeps, or finds its sort order.
LEMMA TakeStep ==
    ASSUME IInv, NEW r \in Request, NEW j, Staged(j), j.set \in HighlightSet, Sound(j, items[j.set]),
           \A o \in Request \ {r} : req[o].set = j.set => Apart(j, req[o], items[j.set]),
           req' = [req EXCEPT ![r] = j], requests' \in 0..MaxRequests, UNCHANGED tables
    PROVE  IInv'
<1>1. /\ req'[r] = j /\ (\A o \in Request \ {r} : req'[o] = req[o]) /\ Locks(items, req)
      /\ req' \in [Request -> Job]
  BY DEF IInv, Staged
<1>2. Locks(items, req')
  <2>1. /\ Staged(req'[r]) /\ req'[r].set \in HighlightSet /\ Sound(req'[r], items[req'[r].set])
        /\ \A o \in Request \ {r} : req[o].set = req'[r].set => Apart(req'[r], req[o], items[req'[r].set])
    BY <1>1
  <2> QED
    BY <1>1, <2>1, LocksTaken
<1>3. items' = items
  BY DEF tables
<1>4. Locks(items', req')
  BY <1>2, <1>3
<1> QED
  BY <1>1, <1>4 DEF IInv, tables

LEMMA SweepKeeps == ASSUME IInv, NEW r \in Request, Sweep(r) PROVE IInv'
<1> DEFINE x == req[r]
           s == x.set
           kept == Keys(s) \ x.drop
           valid == x.want \intersect stored
           gone == x.drop \intersect Keys(s)
           j == [x EXCEPT !.pc = "commit", !.want = valid, !.asked = valid, !.drop = gone, !.prior = kept]
<1>1. /\ x \in Job /\ x.pc = "sweep" /\ s \in HighlightSet /\ x.kind \in {"patch", "set-content"}
      /\ x.kind = "set-content" => x.drop \intersect x.want = {}
      /\ x.want \in SUBSET Content /\ x.drop \in SUBSET Content
  BY JobFields DEF IInv, Sweep, Locks, Staged
<1>2. UNCHANGED tables /\ Unlocked(s, Keys(s) \intersect x.drop)
  BY DEF Sweep
<1>3. CASE Ends(r)
  BY <1>2, <1>3, EndQuietly
<1>4. CASE Goes(r, j) /\ ~((x.kind = "set-content" \/ x.want # {}) /\ TooMany(kept \union valid))
  <2>1. OneEach(items[s]) /\ Keys(s) = KeysIn(items[s])
    BY <1>1, SetTerms DEF IInv, Locks
  <2>2. KeysIn(items[s]) \subseteq Content
    BY <2>1, RowFields DEF KeysIn
  <2>3. /\ kept \in SUBSET (Content \union HighlightSet) /\ valid \in SUBSET Content /\ gone \in SUBSET Content
        /\ valid # {} => ~TooMany(kept \union valid)
        /\ x.kind = "set-content" => gone \intersect valid = {}
    BY <1>1, <1>4, <2>1, <2>2
  <2>4. Unlocked(s, gone)
    BY <1>2 DEF Unlocked
  <2>5. req' = [req EXCEPT ![r] = j] /\ requests' \in 0..MaxRequests
    BY <1>4 DEF Goes, IInv
  <2> HIDE DEF kept, valid, gone, x
  <2>6. /\ j \in Job /\ j.pc = "commit" /\ j.set = s /\ j.kind = x.kind /\ j.want = valid /\ j.asked = valid
        /\ j.drop = gone /\ j.prior = kept
    BY <1>1, <2>3 DEF Job, Steps
  <2> HIDE DEF j, s
  <2>7. Staged(j)
    BY <1>1, <2>3, <2>6 DEF Staged
  <2>8. Sound(j, items[j.set])
    BY <2>6 DEF Sound
  <2>9. \A o \in Request \ {r} : req[o].set = s => Holding(req[o], items[s]) \intersect gone = {}
    BY <1>1, <2>4, UnlockedKeeps
  <2>10. \A o \in Request \ {r} : req[o].set = j.set => Apart(j, req[o], items[j.set])
    BY <2>6, <2>9 DEF Apart, Holding
  <2> QED
    BY <1>1, <1>2, <2>5, <2>6, <2>7, <2>8, <2>10, TakeStep
<1> QED
  BY <1>3, <1>4 DEF Sweep

LEMMA BeginToggleKeeps == ASSUME IInv, NEW r \in Request, BeginToggle(r) PROVE IInv'
<1>1. PICK s \in Existing : \E k \in Keys(s) :
         /\ Unlocked(s, {k})
         /\ Enter(r, [Idle EXCEPT !.pc = "order", !.kind = "toggle", !.set = s, !.asked = {k},
                                  !.favorite = ~Item(s, k).favorite])
         /\ UNCHANGED tables
  BY DEF BeginToggle
<1>2. s \in HighlightSet /\ OneEach(items[s]) /\ Keys(s) = KeysIn(items[s])
  BY ExistingOwner, SetTerms DEF IInv, Locks
<1> DEFINE q == items[s]
<1>3. PICK t \in DOMAIN q :
         /\ Unlocked(s, {q[t].key})
         /\ Enter(r, [Idle EXCEPT !.pc = "order", !.kind = "toggle", !.set = s, !.asked = {q[t].key},
                                  !.favorite = ~Item(s, q[t].key).favorite])
         /\ UNCHANGED tables
  BY <1>1, <1>2 DEF KeysIn
<1> DEFINE k == q[t].key
           asked == {k}
           favorite == ~Item(s, k).favorite
           j == [Idle EXCEPT !.pc = "order", !.kind = "toggle", !.set = s, !.asked = asked, !.favorite = favorite]
<1>4. Item(s, k) = q[t]
  BY <1>2, ItemIs
<1>5. k \in Content /\ q[t].favorite \in BOOLEAN
  BY <1>2, RowFields
<1>6. favorite \in BOOLEAN /\ (q[t].favorite # favorite) /\ asked = {k}
  BY <1>4, <1>5
<1>7. Enter(r, j) /\ Unlocked(s, asked) /\ UNCHANGED tables
  BY <1>3
<1> HIDE DEF favorite, asked
<1>8. j \in Job /\ j.pc = "order" /\ j.set = s /\ j.asked = asked /\ j.favorite = favorite
  <2>1. asked \in SUBSET Content
    BY <1>5, <1>6
  <2> HIDE DEF q, k
  <2> QED
    BY <1>2, <1>6, <2>1, IdleStaged DEF Job, Steps, Kinds
<1> HIDE DEF j
<1>9. Staged(j)
  BY <1>2, <1>8 DEF Staged
<1>10. Sound(j, items[j.set])
  BY <1>6, <1>8 DEF Sound
<1>11. \A o \in Request \ {r} : req[o].set = s => Holding(req[o], items[s]) \intersect asked = {}
  BY <1>2, <1>7, UnlockedKeeps
<1>12. \A o \in Request \ {r} : req[o].set = j.set => Apart(j, req[o], items[j.set])
  BY <1>8, <1>11 DEF Apart, Holding
<1>13. req' = [req EXCEPT ![r] = j] /\ requests' \in 0..MaxRequests
  BY <1>7, BoundAssumption DEF Enter, IInv
<1> QED
  BY <1>2, <1>7, <1>8, <1>9, <1>10, <1>12, <1>13, TakeStep

\* The next sort order is beyond those given.
LEMMA NextRankBeyond ==
    ASSUME NEW s \in HighlightSet, OneEach(items[s])
    PROVE  NextRank(s) \in Nat /\ \A f \in Favorites(s) : f.rank < NextRank(s)
<1> DEFINE ranks == {f.rank : f \in Favorites(s)}
           N == Cardinality(ranks)
           a == Ascending(ranks)
<1>1. \A f \in Favorites(s) : \E i \in DOMAIN items[s] : f = items[s][i] /\ f.rank \in Nat
  BY RowFields DEF Favorites, ToSet
<1>2. ranks \in SUBSET Nat
  BY <1>1
<1>3. IsFiniteSet(ranks)
  <2> DEFINE D == DOMAIN items[s]
             g == [i \in D |-> items[s][i].rank]
             R == {g[i] : i \in D}
  <2>1. D = 1..Len(items[s]) /\ Len(items[s]) \in Nat
    BY RowFields
  <2> HIDE DEF D
  <2>2. IsFiniteSet(D)
    BY <2>1, FS_Interval
  <2>3. g \in Surjection(D, R)
    BY DEF Surjection
  <2>4. IsFiniteSet(R)
    BY <2>2, <2>3, FS_Surjection
  <2>5. ranks \subseteq R
    BY <1>1 DEF D
  <2> QED
    BY <2>4, <2>5, FS_Subset
<1>4. CASE Favorites(s) = {}
  BY <1>4 DEF NextRank
<1>5. CASE Favorites(s) # {}
  <2>1. ranks # {}
    BY <1>5
  <2> HIDE DEF ranks
  <2>2. N \in Nat /\ N # 0
    BY <1>3, <2>1, FS_CardinalityType, FS_EmptySet
  <2>3. /\ a \in [1..N -> ranks]
        /\ \A x \in ranks : \E n \in 1..N : a[n] = x
        /\ \A m, n \in 1..N : m < n => a[m] < a[n]
    BY <1>2, <1>3, AscendingLists
  <2> HIDE DEF a, N
  <2>4. a[N] \in ranks /\ \A x \in ranks : x <= a[N]
    <3>1. N \in 1..N
      BY <2>2
    <3>2. \A n \in 1..N : a[n] \in Nat
      BY <1>2, <2>3
    <3>3. \A n \in 1..N : n = N \/ n < N
      BY <2>2
    <3>4. \A n \in 1..N : a[n] = a[N] \/ a[n] < a[N]
      BY <2>3, <3>1, <3>3
    <3>5. \A n \in 1..N : a[n] <= a[N]
      BY <3>1, <3>2, <3>4
    <3> QED
      BY <2>3, <3>1, <3>5
  <2>5. \E n \in ranks : \A f \in Favorites(s) : f.rank <= n
    BY <2>4 DEF ranks
  <2> DEFINE top == CHOOSE n \in ranks : \A f \in Favorites(s) : f.rank <= n
  <2>6. top \in ranks /\ \A f \in Favorites(s) : f.rank <= top
    BY <2>5
  <2>7. NextRank(s) = 1 + top
    BY <1>5 DEF NextRank, ranks
  <2> HIDE DEF top
  <2> QED
    BY <1>1, <1>2, <2>6, <2>7
<1> QED
  BY <1>4, <1>5

LEMMA RankFavoriteKeeps == ASSUME IInv, NEW r \in Request, RankFavorite(r) PROVE IInv'
<1> DEFINE x == req[r]
           s == x.set
           q == items[s]
           rank == NextRank(s)
           j == [x EXCEPT !.pc = "favorite", !.rank = rank]
<1>1. /\ x \in Job /\ x.pc = "order" /\ x.favorite /\ s \in HighlightSet
      /\ Blockers(r, s, Needs(r)) = {}
      /\ Goes(r, j) /\ UNCHANGED tables
  BY DEF IInv, RankFavorite, FreeToOrder, Locks, Staged
<1>2. OneEach(q) /\ Keys(s) = KeysIn(q) /\ Sound(x, q)
  BY <1>1, SetTerms DEF IInv, Locks
<1>3. \A o \in Request \ {r} : req[o].set = s => Holding(req[o], q) \intersect KeysIn(q) = {}
  BY <1>1, <1>2, HoldsIs DEF Blockers, Needs
<1>4. rank \in Nat /\ \A i \in DOMAIN q : q[i].favorite => q[i].rank < rank
  <2>1. \A i \in DOMAIN q : q[i].favorite => q[i] \in Favorites(s)
    BY DEF Favorites, ToSet
  <2> QED
    BY <1>1, <1>2, <2>1, NextRankBeyond
<1>5. PICK t \in DOMAIN q : x.asked = {q[t].key} /\ (q[t].favorite # x.favorite)
  BY <1>1, <1>2 DEF Sound
<1>6. ~ q[t].favorite
  BY <1>1, <1>2, <1>5, RowFields, JobFields
<1>7. req' = [req EXCEPT ![r] = j] /\ requests' \in 0..MaxRequests
  BY <1>1 DEF Goes, IInv
<1> HIDE DEF rank, x
<1>8. j \in Job /\ j.pc = "favorite" /\ j.set = s /\ j.asked = x.asked /\ j.favorite = x.favorite /\ j.rank = rank
  BY <1>1, <1>4 DEF Job, Steps
<1> HIDE DEF j
<1>9. Staged(j)
  BY <1>1, <1>8 DEF Staged
<1>10. Sound(j, q)
  BY <1>1, <1>4, <1>5, <1>6, <1>8 DEF Sound
<1>11. Holding(j, q) \subseteq KeysIn(q)
  BY <1>5, <1>8 DEF Holding, FavoriteKeys, KeysIn
<1>12. \A o \in Request \ {r} : req[o].set = s => Apart(j, req[o], q)
  <2> SUFFICES ASSUME NEW o \in Request \ {r}, req[o].set = s
               PROVE  Apart(j, req[o], q)
    OBVIOUS
  <2>1. Holding(req[o], q) \intersect KeysIn(q) = {}
    BY <1>3
  <2>2. Sound(req[o], q)
    BY <1>1 DEF IInv, Locks
  <2>3. req[o].pc # "favorite"
    <3> SUFFICES ASSUME req[o].pc = "favorite"
                 PROVE  FALSE
      OBVIOUS
    <3>1. PICK i \in DOMAIN q : req[o].asked = {q[i].key}
      BY <2>2 DEF Sound
    <3>2. q[i].key \in Holding(req[o], q) /\ q[i].key \in KeysIn(q)
      BY <3>1 DEF Holding, KeysIn
    <3> QED
      BY <2>1, <3>2
  <2> QED
    BY <1>11, <2>1, <2>3 DEF Apart
<1>13. /\ j.set \in HighlightSet /\ Sound(j, items[j.set])
       /\ \A o \in Request \ {r} : req[o].set = j.set => Apart(j, req[o], items[j.set])
  BY <1>1, <1>8, <1>10, <1>12
<1> QED
  BY <1>1, <1>7, <1>9, <1>13, TakeStep

\* Which row a toggle sets, and what that makes of its set.
LEMMA SetFavoriteTurns ==
    ASSUME IInv, NEW r \in Request, SetFavorite(r)
    PROVE  LET x == req[r] IN
           /\ x.set \in HighlightSet
           /\ x.pc = "favorite" \/ (x.pc = "order" /\ ~ x.favorite)
           /\ Ends(r) /\ UNCHANGED <<config, row, stored>>
           /\ \A s \in HighlightSet \ {x.set} : items'[s] = items[s]
           /\ DOMAIN items' = HighlightSet /\ items' = [s \in HighlightSet |-> items'[s]]
           /\ \E t \in DOMAIN items[x.set] :
                 /\ x.asked = {items[x.set][t].key} /\ (items[x.set][t].favorite # x.favorite)
                 /\ Toggle(items[x.set], items'[x.set], t, x.favorite, x.rank)
<1> DEFINE x == req[r]
           s == x.set
           q == items[s]
<1>1. x.pc = "favorite" \/ (x.pc = "order" /\ ~ x.favorite)
  BY DEF SetFavorite
<1>2. x \in Job /\ s \in HighlightSet /\ x.favorite \in BOOLEAN /\ x.rank \in Nat
  BY <1>1, JobFields DEF IInv, Locks, Staged
<1>3. OneEach(q) /\ Sound(x, q)
  BY <1>2 DEF IInv, Locks
<1>4. PICK t \in DOMAIN q : x.asked = {q[t].key} /\ (q[t].favorite # x.favorite)
  BY <1>1, <1>3, RowFields DEF Sound
<1>5. items' = [items EXCEPT ![s] =
          [i \in DOMAIN @ |-> Toggled(@[i], q[t].key, x.favorite, x.rank, Item(s, q[t].key).rank)]]
  BY <1>4 DEF SetFavorite
<1>6. Item(s, q[t].key) = q[t]
  BY <1>2, <1>3, ItemIs
<1>7. items' = [items EXCEPT ![s] = Turned(q, q[t].key, x.favorite, x.rank, q[t].rank)]
  BY <1>5, <1>6 DEF Turned
<1>8. Toggle(q, Turned(q, q[t].key, x.favorite, x.rank, q[t].rank), t, x.favorite, x.rank)
  BY <1>2, <1>3, TurnedToggles
<1>9. DOMAIN items = HighlightSet
  BY DEF IInv
<1>10. /\ items'[s] = Turned(q, q[t].key, x.favorite, x.rank, q[t].rank)
       /\ \A u \in HighlightSet \ {s} : items'[u] = items[u]
       /\ DOMAIN items' = HighlightSet /\ items' = [u \in HighlightSet |-> items'[u]]
  BY <1>2, <1>7, <1>9
<1>11. Ends(r) /\ UNCHANGED <<config, row, stored>>
  BY DEF SetFavorite
<1>12. Toggle(q, items'[s], t, x.favorite, x.rank)
  BY <1>8, <1>10
<1> QED
  BY <1>1, <1>2, <1>4, <1>10, <1>11, <1>12

LEMMA SetFavoriteKeeps == ASSUME IInv, NEW r \in Request, SetFavorite(r) PROVE IInv'
<1> DEFINE x == req[r]
           s == x.set
           q == items[s]
<1>1. /\ s \in HighlightSet
      /\ x.pc = "favorite" \/ (x.pc = "order" /\ ~ x.favorite)
      /\ Ends(r) /\ UNCHANGED <<config, row, stored>>
      /\ \A u \in HighlightSet \ {s} : items'[u] = items[u]
      /\ DOMAIN items' = HighlightSet /\ items' = [u \in HighlightSet |-> items'[u]]
  BY SetFavoriteTurns
<1>2. PICK t \in DOMAIN q : x.asked = {q[t].key} /\ Toggle(q, items'[s], t, x.favorite, x.rank)
  BY SetFavoriteTurns
<1>3. /\ req' = [req EXCEPT ![r] = Idle] /\ UNCHANGED requests
      /\ \A o \in Request \ {r} : req'[o] = req[o]
      /\ Staged(req'[r]) /\ Quiet(req'[r]) /\ req' \in [Request -> Job]
  BY <1>1, IdleStaged DEF Ends, Goes, IInv
<1>4. Locks(items, req)
  BY DEF IInv
<1>5. Locks(items', req')
  <2> HIDE DEF IInv
  <2> QED
    BY <1>1, <1>2, <1>3, <1>4, LocksTurned
<1>6. \A u \in HighlightSet : items'[u] \in Seq(Row)
  BY <1>5 DEF Locks, OneEach
<1>7. items' \in [HighlightSet -> Seq(Row)]
  BY <1>1, <1>6
<1>8. items'[s] # <<>> => q # <<>>
  <2>1. t \in DOMAIN q /\ q \in Seq(Row)
    BY <1>1 DEF IInv
  <2> QED
    BY <2>1
<1>9. Owned(config', row', items')
  BY <1>1, <1>8 DEF IInv, Owned
<1> QED
  BY <1>1, <1>3, <1>5, <1>7, <1>9 DEF IInv

\* A request of one statement.
LEMMA AtOnceStep ==
    ASSUME IInv, AtOnce, config' \in SUBSET Enterprise, stored' \in SUBSET Content,
           row' \in [HighlightSet -> Enterprise \union {Unused, Gone}],
           DOMAIN items' = HighlightSet, items' = [s \in HighlightSet |-> items'[s]],
           Owned(config', row', items'), Spares(items, items', req, {})
    PROVE  IInv'
<1>1. /\ requests' \in 0..MaxRequests /\ req' = [r \in Request |-> req'[r]]
      /\ \A r \in Request \ {} : req'[r] = req[r]
  BY BoundAssumption DEF AtOnce, IInv
<1>2. {} \in SUBSET Request /\ \A r \in {} : Staged(req'[r]) /\ Quiet(req'[r])
  OBVIOUS
<1> QED
  BY <1>1, <1>2, RefillStep

LEMMA SpareOne ==
    ASSUME IInv, NEW s \in HighlightSet, NEW p, NEW drop, Refilled(items[s], p, drop, {}),
           Unlocked(s, drop), items' = [items EXCEPT ![s] = p]
    PROVE  Spares(items, items', req, {})
<1> SUFFICES ASSUME NEW t \in HighlightSet
             PROVE  \E d, a : /\ Refilled(items[t], items'[t], d, a)
                              /\ \A o \in Request \ {} :
                                    req[o].set = t => Holding(req[o], items[t]) \intersect d = {}
  BY DEF Spares
<1>1. CASE t = s
  <2>1. items'[t] = p
    BY <1>1 DEF IInv
  <2>2. \A o \in Request : req[o].set = s => Holding(req[o], items[s]) \intersect drop = {}
    BY UnlockedKeeps
  <2> QED
    BY <1>1, <2>1, <2>2
<1>2. CASE t # s
  <2>1. items'[t] = items[t] /\ Refilled(items[t], items[t], {}, {})
    BY <1>2, SameRefilled DEF IInv, Locks
  <2> QED
    BY <2>1
<1> QED
  BY <1>1, <1>2

LEMMA RemoveContentKeeps == ASSUME IInv, RemoveContent PROVE IInv'
<1>1. PICK s \in Existing, ks \in KeyLists : Unlocked(s, ks) /\ items' = [items EXCEPT ![s] = Without(@, ks)]
  BY DEF RemoveContent
<1> DEFINE p == Without(items[s], ks)
<1>2. s \in HighlightSet /\ OneEach(items[s]) /\ items' = [items EXCEPT ![s] = p]
  BY <1>1, ExistingOwner DEF IInv, Locks
<1>3. Refilled(items[s], p, ks, {})
  BY <1>2, WithoutRefilled
<1> HIDE DEF p
<1>4. Spares(items, items', req, {})
  BY <1>1, <1>2, <1>3, SpareOne
<1>5. p # <<>> => items[s] # <<>>
  BY <1>2, <1>3, RefilledEmpty
<1>6. AtOnce /\ UNCHANGED <<config, row, stored>>
  BY DEF RemoveContent
<1>7. Owned(config', row', items')
  BY <1>2, <1>5, <1>6 DEF IInv, Owned
<1>8. /\ config' \in SUBSET Enterprise /\ stored' \in SUBSET Content
      /\ row' \in [HighlightSet -> Enterprise \union {Unused, Gone}]
      /\ DOMAIN items' = HighlightSet /\ items' = [u \in HighlightSet |-> items'[u]]
  BY <1>2, <1>6 DEF IInv
<1> QED
  BY <1>4, <1>6, <1>7, <1>8, AtOnceStep

LEMMA DropContentKeeps == ASSUME IInv, DropContent PROVE IInv'
<1>1. PICK k \in stored :
         /\ \A s \in HighlightSet : Unlocked(s, {k})
         /\ stored' = stored \ {k}
         /\ items' = [s \in HighlightSet |-> Without(items[s], {k})]
  BY DEF DropContent
<1>2. AtOnce /\ UNCHANGED <<config, row>>
  BY DEF DropContent
<1>3. \A s \in HighlightSet : /\ OneEach(items[s]) /\ Refilled(items[s], items'[s], {k}, {})
                              /\ items'[s] # <<>> => items[s] # <<>>
  <2> TAKE s \in HighlightSet
  <2>1. OneEach(items[s]) /\ items'[s] = Without(items[s], {k})
    BY <1>1 DEF IInv, Locks
  <2>2. Refilled(items[s], items'[s], {k}, {})
    BY <2>1, WithoutRefilled
  <2> QED
    BY <2>1, <2>2, RefilledEmpty
<1>4. Spares(items, items', req, {})
  <2> SUFFICES ASSUME NEW s \in HighlightSet
               PROVE  /\ Refilled(items[s], items'[s], {k}, {})
                      /\ \A o \in Request \ {} :
                            req[o].set = s => Holding(req[o], items[s]) \intersect {k} = {}
    BY DEF Spares
  <2>1. \A o \in Request : req[o].set = s => Holding(req[o], items[s]) \intersect {k} = {}
    BY <1>1, UnlockedKeeps
  <2> QED
    BY <1>3, <2>1
<1>5. Owned(config', row', items')
  BY <1>2, <1>3 DEF IInv, Owned
<1>6. /\ config' \in SUBSET Enterprise /\ stored' \in SUBSET Content
      /\ row' \in [HighlightSet -> Enterprise \union {Unused, Gone}]
      /\ DOMAIN items' = HighlightSet /\ items' = [u \in HighlightSet |-> items'[u]]
  BY <1>1, <1>2 DEF IInv
<1> QED
  BY <1>2, <1>4, <1>5, <1>6, AtOnceStep

\* Sets are deleted with what they show.
LEMMA CascadeKeeps ==
    ASSUME IInv, NEW sets \in SUBSET HighlightSet, Cascade(sets), AtOnce, UNCHANGED stored,
           config' \in SUBSET Enterprise,
           \A s \in HighlightSet \ sets : row[s] \in Enterprise => row[s] \in config'
    PROVE  IInv'
<1>1. /\ \A s \in sets : Unlocked(s, Keys(s))
      /\ \A s \in HighlightSet : row'[s] = IF s \in sets THEN Gone ELSE row[s]
      /\ \A s \in HighlightSet : items'[s] = IF s \in sets THEN <<>> ELSE items[s]
      /\ DOMAIN items' = HighlightSet /\ items' = [s \in HighlightSet |-> items'[s]]
      /\ row' \in [HighlightSet -> Enterprise \union {Unused, Gone}]
  BY DEF Cascade, IInv
<1>2. Spares(items, items', req, {})
  <2> SUFFICES ASSUME NEW s \in HighlightSet
               PROVE  \E d, a : /\ Refilled(items[s], items'[s], d, a)
                                /\ \A o \in Request \ {} :
                                      req[o].set = s => Holding(req[o], items[s]) \intersect d = {}
    BY DEF Spares
  <2>1. OneEach(items[s])
    BY DEF IInv, Locks
  <2>2. CASE s \in sets
    <3>1. Unlocked(s, KeysIn(items[s]))
      BY <1>1, <2>2, SetTerms
    <3>2. \A o \in Request : req[o].set = s => Holding(req[o], items[s]) \intersect KeysIn(items[s]) = {}
      BY <3>1, UnlockedKeeps
    <3>3. Refilled(items[s], items'[s], KeysIn(items[s]), {})
      BY <1>1, <2>1, <2>2, EmptyRefilled
    <3> QED
      BY <3>2, <3>3
  <2>3. CASE s \notin sets
    <3>1. items'[s] = items[s] /\ Refilled(items[s], items[s], {}, {})
      BY <1>1, <2>1, <2>3, SameRefilled
    <3> QED
      BY <3>1
  <2> QED
    BY <2>2, <2>3
<1>3. Owned(config', row', items')
  BY <1>1, NoRowAssumption DEF IInv, Owned
<1>4. stored' \in SUBSET Content
  BY DEF IInv
<1> QED
  BY <1>1, <1>2, <1>3, <1>4, AtOnceStep

LEMMA DestroySetKeeps == ASSUME IInv, DestroySet PROVE IInv'
<1>1. PICK s \in Existing : Cascade({s}) /\ AtOnce /\ UNCHANGED <<config, stored>>
  BY DEF DestroySet
<1>2. {s} \in SUBSET HighlightSet
  BY ExistingOwner
<1>3. config' \in SUBSET Enterprise /\ \A t \in HighlightSet \ {s} : row[t] \in Enterprise => row[t] \in config'
  BY <1>1 DEF IInv, Owned
<1> QED
  BY <1>1, <1>2, <1>3, CascadeKeeps

LEMMA DestroyConfigKeeps == ASSUME IInv, DestroyConfig PROVE IInv'
<1>1. PICK e \in config : config' = config \ {e} /\ Cascade(SetsOf(e)) /\ AtOnce /\ UNCHANGED stored
  BY DEF DestroyConfig
<1>2. SetsOf(e) \in SUBSET HighlightSet
  BY DEF SetsOf, Existing
<1>3. \A s \in HighlightSet \ SetsOf(e) : row[s] \in Enterprise => row[s] \in config'
  <2> SUFFICES ASSUME NEW s \in HighlightSet \ SetsOf(e), row[s] \in Enterprise
               PROVE  row[s] \in config /\ row[s] # e
    BY <1>1
  <2>1. s \in Existing
    BY OwnedExists
  <2> QED
    BY <2>1 DEF SetsOf, IInv, Owned
<1>4. config' \in SUBSET Enterprise
  BY <1>1 DEF IInv
<1> QED
  BY <1>1, <1>2, <1>3, <1>4, CascadeKeeps

LEMMA CreateConfigKeeps == ASSUME IInv, CreateConfig PROVE IInv'
<1>1. PICK e \in Enterprise \ config :
         config' = config \union {e} /\ AtOnce /\ UNCHANGED <<row, items, stored>>
  BY DEF CreateConfig
<1>2. requests' \in 0..MaxRequests /\ req' = req
  BY <1>1, BoundAssumption DEF AtOnce, IInv
<1>3. Owned(config', row', items') /\ config' \in SUBSET Enterprise
  BY <1>1 DEF IInv, Owned
<1>4. Locks(items', req')
  BY <1>1, <1>2 DEF IInv
<1> QED
  BY <1>1, <1>2, <1>3, <1>4 DEF IInv

LEMMA StutterKeeps == ASSUME IInv, UNCHANGED vars PROVE IInv'
<1>1. Locks(items', req') /\ Owned(config', row', items')
  BY DEF IInv, vars, tables
<1> QED
  BY <1>1 DEF IInv, vars, tables

LEMMA StepKeeps == ASSUME IInv, [Next]_vars PROVE IInv'
<1>1. ASSUME NEW r \in Request, Begin(r) PROVE IInv'
  BY <1>1, CountSetsKeeps, AddContentKeeps, BeginPatchKeeps, BeginSetContentKeeps, BeginSaveKeeps,
     BeginToggleKeeps DEF Begin
<1>2. ASSUME NEW r \in Request, Continue(r) PROVE IInv'
  BY <1>2, InsertSetKeeps, CountContentKeeps, AddOneKeeps, SweepKeeps, CommitKeeps, SaveSetKeeps,
     RankFavoriteKeeps, SetFavoriteKeeps, EndQuietly DEF Continue, RollBack
<1>3. ASSUME NEW r \in Request, Fails(r) PROVE IInv'
  BY <1>3, EndQuietly DEF Fails
<1> QED
  BY <1>1, <1>2, <1>3, RemoveContentKeeps, DestroySetKeeps, DestroyConfigKeeps, CreateConfigKeeps,
     DropContentKeeps, StutterKeeps DEF Next

\* The invariant holds in every state.
THEOREM Kept == Spec => []IInv
<1>1. IInv /\ [Next]_vars => IInv'
  BY StepKeeps
<1> QED
  BY <1>1, Starts, PTL DEF Spec

-----------------------------------------------------------------------------
(* The properties.                                                         *)

\* Every variable has its type in every state, and no set shows a content twice.
THEOREM TypesHold == Spec => []TypeOK
<1>1. IInv => TypeOK
  <2> SUFFICES ASSUME IInv
               PROVE  TypeOK
    OBVIOUS
  <2>1. \A s \in HighlightSet :
           /\ items[s] \in Seq(Row)
           /\ \A i, h \in DOMAIN items[s] : items[s][i].key = items[s][h].key => i = h
           /\ items[s] # <<>> => s \in Existing /\ row[s] \in config
    BY OwnedExists DEF IInv, Locks, OneEach, Owned
  <2>2. \A s \in HighlightSet : IsInjective([i \in DOMAIN items[s] |-> items[s][i].key])
    BY <2>1 DEF IsInjective
  <2> QED
    BY <2>1, <2>2 DEF IInv, TypeOK, Row, Job
<1> QED
  BY <1>1, Kept, PTL

\* Two favorites of a set never have the same sort order.
THEOREM SortOrdersDiffer == Spec => []RanksDistinct
<1>1. IInv => RanksDistinct
  BY DEF IInv, Locks, Distinct, RanksDistinct, Favorites, ToSet
<1> QED
  BY <1>1, Kept, PTL

-----------------------------------------------------------------------------
(* What one step does to one set.                                          *)

Adds(r, s) ==
    LET x == req[r] IN
    /\ x.pc = "add" /\ x.set = s /\ req'[r] # x
    /\ \E k \in x.want : Refilled(items[s], items'[s], {}, {k})

Commits(r, s) ==
    LET x == req[r]
        new == x.want \ (KeysIn(items[s]) \ x.drop)
    IN  x.pc = "commit" /\ x.set = s /\ req'[r] # x /\ Refilled(items[s], items'[s], x.drop, new)

Toggles(r, s) ==
    LET x == req[r] IN
    /\ x.pc = "favorite" \/ (x.pc = "order" /\ ~ x.favorite)
    /\ x.set = s
    /\ \E t \in DOMAIN items[s] :
          /\ x.asked = {items[s][t].key} /\ (items[s][t].favorite # x.favorite)
          /\ Toggle(items[s], items'[s], t, x.favorite, x.rank)

ItemsEffect(s) ==
    \/ \E drop : Refilled(items[s], items'[s], drop, {})
    \/ \E r \in Request : Adds(r, s) \/ Commits(r, s) \/ Toggles(r, s)

LEMMA SameEffect ==
    ASSUME IInv, NEW s \in HighlightSet, items'[s] = items[s]
    PROVE  ItemsEffect(s)
<1>1. Refilled(items[s], items[s], {}, {})
  BY SameRefilled DEF IInv, Locks
<1> QED
  BY <1>1 DEF ItemsEffect

LEMMA EndsChanges ==
    ASSUME IInv, NEW r \in Request, Ends(r), req[r].pc # "idle"
    PROVE  req'[r] # req[r]
<1>1. req'[r] = Idle
  BY DEF IInv, Ends, Goes
<1> QED
  BY <1>1, IdleStaged

LEMMA AddOneEffect ==
    ASSUME IInv, NEW r \in Request, AddOne(r), NEW s \in HighlightSet
    PROVE  ItemsEffect(s)
<1> DEFINE x == req[r]
<1>1. x \in Job /\ x.pc = "add" /\ x.set \in HighlightSet /\ x.want \in SUBSET Content
  BY JobFields DEF IInv, AddOne, Locks, Staged
<1>2. PICK k \in x.want :
         /\ items' = IF k \in Keys(x.set) \/ x.set \notin Existing \/ k \notin stored THEN items
                     ELSE [items EXCEPT ![x.set] = Append(@, NewItem(k))]
         /\ Ends(r) \/ Goes(r, [x EXCEPT !.want = x.want \ {k}])
  BY DEF AddOne
<1>3. CASE items'[s] = items[s]
  BY <1>3, SameEffect
<1>4. CASE x.set = s /\ k \notin Keys(s) /\ items' = [items EXCEPT ![s] = Append(@, NewItem(k))]
  <2>1. k \in Content /\ k \notin KeysIn(items[s]) /\ OneEach(items[s])
    BY <1>1, <1>4, SetTerms DEF IInv, Locks
  <2>2. Refilled(items[s], Append(items[s], NewItem(k)), {}, {k})
    BY <2>1, AppendRefilled
  <2>3. items'[s] = Append(items[s], NewItem(k))
    BY <1>4 DEF IInv
  <2>4. req'[r] # x
    <3>1. CASE Ends(r)
      BY <1>1, <3>1, EndsChanges
    <3>2. CASE Goes(r, [x EXCEPT !.want = x.want \ {k}])
      <4> DEFINE left == x.want \ {k}
      <4>1. req'[r] = [x EXCEPT !.want = left] /\ left # x.want
        BY <3>2 DEF Goes, IInv
      <4> HIDE DEF left, x
      <4>2. [x EXCEPT !.want = left].want = left
        BY <1>1 DEF Job
      <4> QED
        BY <4>1, <4>2
    <3> QED
      BY <1>2, <3>1, <3>2
  <2>5. Adds(r, s)
    BY <1>1, <1>4, <2>2, <2>3, <2>4 DEF Adds
  <2> QED
    BY <2>5 DEF ItemsEffect
<1> QED
  BY <1>2, <1>3, <1>4 DEF IInv

LEMMA CommitEffect ==
    ASSUME IInv, NEW r \in Request, Commit(r), NEW s \in HighlightSet
    PROVE  ItemsEffect(s)
<1> DEFINE x == req[r]
           new == x.want \ (Keys(x.set) \ x.drop)
<1>1. x \in Job /\ x.pc = "commit" /\ x.set \in HighlightSet /\ x.want \in SUBSET Content
  BY JobFields DEF IInv, Commit, Locks, Staged
<1>2. CASE items'[s] = items[s]
  BY <1>2, SameEffect
<1>3. CASE items'[s] # items[s]
  <2>1. PICK order \in SetToSeqs(new) :
           items' = [items EXCEPT ![x.set] =
                 Without(@, x.drop) \o [i \in DOMAIN order |-> NewItem(order[i])]]
    BY <1>3 DEF Commit
  <2>2. x.set = s
    BY <1>3, <2>1 DEF IInv
  <2>3. OneEach(items[s]) /\ Keys(s) = KeysIn(items[s])
    BY SetTerms DEF IInv, Locks
  <2>4. items'[s] = Without(items[s], x.drop) \o [i \in DOMAIN order |-> NewItem(order[i])]
    BY <2>1, <2>2 DEF IInv
  <2>5. new \in SUBSET Content /\ new = x.want \ (KeysIn(items[s]) \ x.drop)
    BY <1>1, <2>2, <2>3
  <2>6. IsFiniteSet(new) /\ new \intersect (KeysIn(items[s]) \ x.drop) = {}
    BY <2>5, FiniteAssumption, FS_Subset
  <2>7. req'[r] # x
    BY <1>1, EndsChanges DEF Commit
  <2> HIDE DEF new
  <2>8. Refilled(items[s], items'[s], x.drop, new)
    BY <2>3, <2>4, <2>5, <2>6, ListRefilled
  <2>9. Commits(r, s)
    BY <1>1, <2>2, <2>5, <2>7, <2>8 DEF Commits
  <2> QED
    BY <2>9 DEF ItemsEffect
<1> QED
  BY <1>2, <1>3

LEMMA SetFavoriteEffect ==
    ASSUME IInv, NEW r \in Request, SetFavorite(r), NEW s \in HighlightSet
    PROVE  ItemsEffect(s)
<1>1. CASE req[r].set = s
  <2>1. Toggles(r, s)
    BY <1>1, SetFavoriteTurns DEF Toggles
  <2> QED
    BY <2>1 DEF ItemsEffect
<1>2. CASE req[r].set # s
  <2>1. items'[s] = items[s]
    BY <1>2, SetFavoriteTurns
  <2> QED
    BY <2>1, SameEffect
<1> QED
  BY <1>1, <1>2

LEMMA CascadeEffect ==
    ASSUME IInv, NEW sets, Cascade(sets), NEW s \in HighlightSet
    PROVE  ItemsEffect(s)
<1>1. items'[s] = IF s \in sets THEN <<>> ELSE items[s]
  BY DEF Cascade
<1>2. CASE s \in sets
  <2>1. Refilled(items[s], items'[s], KeysIn(items[s]), {})
    BY <1>1, <1>2, EmptyRefilled DEF IInv, Locks
  <2> QED
    BY <2>1 DEF ItemsEffect
<1>3. CASE s \notin sets
  BY <1>1, <1>3, SameEffect
<1> QED
  BY <1>2, <1>3

LEMMA RemovalEffect ==
    ASSUME IInv, RemoveContent \/ DropContent, NEW s \in HighlightSet
    PROVE  ItemsEffect(s)
<1>1. items'[s] = items[s] \/ \E ks : items'[s] = Without(items[s], ks)
  BY DEF RemoveContent, DropContent, IInv
<1>2. ASSUME NEW ks, items'[s] = Without(items[s], ks)
      PROVE  ItemsEffect(s)
  <2>1. Refilled(items[s], items'[s], ks, {})
    BY <1>2, WithoutRefilled DEF IInv, Locks
  <2> QED
    BY <2>1 DEF ItemsEffect
<1> QED
  BY <1>1, <1>2, SameEffect

LEMMA StepEffect ==
    ASSUME IInv, Next, NEW s \in HighlightSet
    PROVE  ItemsEffect(s)
<1>1. ASSUME NEW r \in Request, Begin(r) PROVE ItemsEffect(s)
  <2>1. UNCHANGED tables
    BY <1>1 DEF Begin, CountSets, AddContent, BeginPatch, BeginSetContent, BeginSave, BeginToggle
  <2> QED
    BY <2>1, SameEffect DEF tables
<1>2. ASSUME NEW r \in Request, Continue(r) PROVE ItemsEffect(s)
  <2>1. CASE UNCHANGED items
    BY <2>1, SameEffect
  <2>2. CASE InsertSet(r) \/ CountContent(r) \/ Sweep(r) \/ SaveSet(r) \/ RankFavorite(r) \/ RollBack(r)
    BY <2>1, <2>2 DEF InsertSet, CountContent, Sweep, SaveSet, RankFavorite, RollBack, tables
  <2> QED
    BY <1>2, <2>2, AddOneEffect, CommitEffect, SetFavoriteEffect DEF Continue
<1>3. ASSUME NEW r \in Request, Fails(r) PROVE ItemsEffect(s)
  BY <1>3, SameEffect DEF Fails, tables
<1>4. CASE CreateConfig
  BY <1>4, SameEffect DEF CreateConfig
<1> QED
  BY <1>1, <1>2, <1>3, <1>4, RemovalEffect, CascadeEffect DEF Next, DestroySet, DestroyConfig

\* How a row comes to belong to an enterprise.
RowEffect(s) ==
    \/ row'[s] \in {row[s], Gone}
    \/ \E r \in Request :
          /\ req'[r] # req[r] /\ req[r].row \in Enterprise /\ row' = [row EXCEPT ![s] = req[r].row]
          /\ req[r].pc = "insert" \/ (req[r].pc \in {"save", "commit"} /\ req[r].set = s)

LEMMA StepRow ==
    ASSUME IInv, Next, NEW s \in HighlightSet
    PROVE  RowEffect(s)
<1>1. CASE UNCHANGED row
  BY <1>1 DEF RowEffect
<1>2. ASSUME NEW sets, Cascade(sets) PROVE RowEffect(s)
  BY <1>2 DEF Cascade, RowEffect
<1>3. ASSUME NEW r \in Request, InsertSet(r) PROVE RowEffect(s)
  <2> DEFINE x == req[r]
  <2>1. x \in Job /\ x.pc = "insert" /\ x.row \in Enterprise
    BY <1>3 DEF IInv, InsertSet, Locks, Staged
  <2>2. CASE Savable(x.row)
    <3>1. PICK t \in HighlightSet :
             /\ row' = [row EXCEPT ![t] = x.row]
             /\ Ends(r) \/ Goes(r, [x EXCEPT !.pc = "count", !.set = t, !.prior = {}])
      BY <1>3, <2>2 DEF InsertSet
    <3>2. req'[r] # x
      <4>1. CASE Ends(r)
        BY <2>1, <4>1, EndsChanges
      <4>2. CASE Goes(r, [x EXCEPT !.pc = "count", !.set = t, !.prior = {}])
        <5>1. req'[r] = [x EXCEPT !.pc = "count", !.set = t, !.prior = {}]
          BY <4>2 DEF Goes, IInv
        <5> HIDE DEF x
        <5>2. [x EXCEPT !.pc = "count", !.set = t, !.prior = {}].pc = "count"
          BY <2>1 DEF Job
        <5> QED
          BY <2>1, <5>1, <5>2
      <4> QED
        BY <3>1, <4>1, <4>2
    <3> QED
      BY <2>1, <3>1, <3>2 DEF RowEffect, IInv
  <2>3. CASE ~ Savable(x.row)
    BY <1>1, <1>3, <2>3 DEF InsertSet
  <2> QED
    BY <2>2, <2>3
<1>4. ASSUME NEW r \in Request, SaveSet(r) PROVE RowEffect(s)
  <2>1. req[r].pc = "save" /\ req[r].row \in Enterprise
    BY <1>4 DEF IInv, SaveSet, Locks, Staged
  <2>2. req'[r] # req[r]
    BY <1>4, <2>1, EndsChanges DEF SaveSet
  <2>3. row' = row \/ row' = [row EXCEPT ![req[r].set] = req[r].row]
    BY <1>4 DEF SaveSet
  <2> QED
    BY <2>1, <2>2, <2>3 DEF RowEffect, IInv
<1>5. ASSUME NEW r \in Request, Commit(r) PROVE RowEffect(s)
  <2>1. req[r].pc = "commit" /\ req[r].row \in Enterprise \union {Unused}
    BY <1>5, JobFields DEF IInv, Commit
  <2>2. req'[r] # req[r]
    BY <1>5, <2>1, EndsChanges DEF Commit
  <2>3. row' = row \/ (req[r].row # Unused /\ row' = [row EXCEPT ![req[r].set] = req[r].row])
    BY <1>5 DEF Commit
  <2> QED
    BY <2>1, <2>2, <2>3 DEF RowEffect, IInv
<1>6. ASSUME NEW r \in Request, Begin(r) PROVE RowEffect(s)
  BY <1>1, <1>6 DEF Begin, CountSets, AddContent, BeginPatch, BeginSetContent, BeginSave, BeginToggle, tables
<1>7. ASSUME NEW r \in Request, Continue(r) PROVE RowEffect(s)
  <2>1. CASE CountContent(r) \/ AddOne(r) \/ Sweep(r) \/ RankFavorite(r) \/ SetFavorite(r) \/ RollBack(r)
    BY <1>1, <2>1 DEF CountContent, AddOne, Sweep, RankFavorite, SetFavorite, RollBack, tables
  <2> QED
    BY <1>3, <1>4, <1>5, <1>7, <2>1 DEF Continue
<1>8. ASSUME NEW r \in Request, Fails(r) PROVE RowEffect(s)
  BY <1>1, <1>8 DEF Fails, tables
<1>9. CASE RemoveContent \/ CreateConfig \/ DropContent
  BY <1>1, <1>9 DEF RemoveContent, CreateConfig, DropContent
<1> QED
  BY <1>2, <1>6, <1>7, <1>8, <1>9 DEF Next, DestroySet, DestroyConfig

LEMMA KeysFinite ==
    ASSUME NEW q, OneEach(q)
    PROVE  KeysIn(q) \in SUBSET Content /\ IsFiniteSet(KeysIn(q))
<1>1. KeysIn(q) \in SUBSET Content
  BY RowFields DEF KeysIn
<1> QED
  BY <1>1, FiniteAssumption, FS_Subset

\* A set of content within the limit, and what is part of it.
LEMMA LimitHolds ==
    ASSUME NEW S \in SUBSET (Content \union HighlightSet), ~TooMany(S), NEW T \in SUBSET S
    PROVE  ~(Cardinality(T) > ContentLimit)
<1>1. IsFiniteSet(Content \union HighlightSet)
  BY FiniteAssumption, FS_Union
<1>2. IsFiniteSet(S)
  BY <1>1, FS_Subset
<1>3. Cardinality(T) <= Cardinality(S) /\ Cardinality(T) \in Nat /\ Cardinality(S) \in Nat
  BY <1>2, FS_Subset, FS_CardinalityType
<1> QED
  BY <1>3, LimitAssumption DEF TooMany

LEMMA ContentOnStaleCounts ==
    ASSUME IInv, Next, NEW s \in HighlightSet,
           Cardinality(KeysIn(items'[s])) > ContentLimit, ~(KeysIn(items'[s]) \subseteq KeysIn(items[s]))
    PROVE  \E r \in Request :
              /\ req[r].pc \in {"add", "commit"} /\ req[r].set = s /\ req'[r] # req[r]
              /\ ~(KeysIn(items[s]) \ req[r].drop \subseteq req[r].prior \union req[r].asked)
<1> DEFINE q == items[s]
           p == items'[s]
<1>1. OneEach(q)
  BY DEF IInv, Locks
<1>2. ASSUME NEW drop, Refilled(q, p, drop, {})
      PROVE  FALSE
  BY <1>2 DEF Refilled
<1>3. ASSUME NEW r \in Request, Toggles(r, s)
      PROVE  FALSE
  BY <1>1, <1>3, ToggleOneEach DEF Toggles
<1>4. ASSUME NEW r \in Request, Adds(r, s) \/ Commits(r, s),
             KeysIn(q) \ req[r].drop \subseteq req[r].prior \union req[r].asked
      PROVE  FALSE
  <2> DEFINE x == req[r]
             S == x.prior \union x.asked
  <2>1. x \in Job /\ Staged(x) /\ S \in SUBSET (Content \union HighlightSet)
    BY JobFields DEF IInv, Locks
  <2>2. KeysIn(p) \subseteq S /\ ~TooMany(S)
    <3>1. CASE Adds(r, s)
      <4>1. PICK k \in x.want : Refilled(q, p, {}, {k})
        BY <3>1 DEF Adds
      <4>2. x.drop = {} /\ k \in x.asked /\ ~TooMany(S)
        BY <2>1, <3>1 DEF Adds, Staged
      <4>3. KeysIn(p) \subseteq KeysIn(q) \union {k}
        BY <4>1 DEF Refilled
      <4> QED
        BY <1>4, <4>2, <4>3
    <3>2. CASE Commits(r, s)
      <4> DEFINE new == x.want \ (KeysIn(q) \ x.drop)
      <4>1. KeysIn(p) \subseteq (KeysIn(q) \ x.drop) \union new
        BY <3>2 DEF Commits, Refilled
      <4>2. x.want # {}
        BY <4>1
      <4>3. x.want \subseteq x.asked /\ ~TooMany(S)
        BY <2>1, <3>2, <4>2 DEF Commits, Staged
      <4> QED
        BY <1>4, <4>1, <4>3
    <3> QED
      BY <1>4, <3>1, <3>2
  <2> HIDE DEF S
  <2> QED
    BY <2>1, <2>2, LimitHolds
<1>5. ItemsEffect(s)
  BY StepEffect
<1>6. PICK r \in Request : Adds(r, s) \/ Commits(r, s)
  BY <1>2, <1>3, <1>5 DEF ItemsEffect
<1>7. req[r].pc \in {"add", "commit"} /\ req[r].set = s /\ req'[r] # req[r]
  BY <1>6 DEF Adds, Commits
<1> QED
  BY <1>4, <1>6, <1>7

LEMMA SetsOnStaleCounts ==
    ASSUME IInv, Next, NEW e \in Enterprise,
           Cardinality(SetsOf(e)') > SetLimit, ~(SetsOf(e)' \subseteq SetsOf(e))
    PROVE  \E r \in Request :
              /\ req[r].row # Unused /\ req'[r] # req[r]
              /\ \/ req[r].pc = "insert" /\ ~(SetsOf(e) \subseteq req[r].prior)
                 \/ req[r].pc \in {"save", "commit"} /\ req[r].set \notin SetsOf(e)
<1> DEFINE now == {s \in HighlightSet : row[s] = e}
           then == {s \in HighlightSet : row'[s] = e}
<1>1. SetsOf(e) = now /\ SetsOf(e)' = then
  BY NoRowAssumption DEF SetsOf, Existing
<1> HIDE DEF now, then
<1>2. PICK s \in HighlightSet : row'[s] = e /\ row[s] # e
  BY <1>1 DEF now, then
<1>3. RowEffect(s)
  BY StepRow
<1>4. PICK r \in Request :
          /\ req'[r] # req[r] /\ req[r].row \in Enterprise /\ row' = [row EXCEPT ![s] = req[r].row]
          /\ req[r].pc = "insert" \/ (req[r].pc \in {"save", "commit"} /\ req[r].set = s)
  BY <1>2, <1>3, NoRowAssumption DEF RowEffect
<1>5. req[r].row # Unused
  BY <1>4, NoRowAssumption
<1>6. CASE req[r].pc = "insert"
  <2> SUFFICES ASSUME now \subseteq req[r].prior
               PROVE  FALSE
    BY <1>1, <1>4, <1>5, <1>6
  <2> DEFINE S == req[r].prior
  <2>1. S \in SUBSET (Content \union HighlightSet) /\ Cardinality(S) < SetLimit
    BY <1>6, JobFields DEF IInv, Locks, Staged
  <2>2. IsFiniteSet(Content \union HighlightSet)
    BY FiniteAssumption, FS_Union
  <2>3. IsFiniteSet(S)
    BY <2>1, <2>2, FS_Subset
  <2>4. then \subseteq S \union {s}
    BY <1>4 DEF IInv, now, then
  <2> HIDE DEF S
  <2>5. /\ IsFiniteSet(S \union {s}) /\ Cardinality(S) \in Nat
        /\ Cardinality(S \union {s}) <= Cardinality(S) + 1
    <3>1. Cardinality(S) \in Nat
      BY <2>3, FS_CardinalityType
    <3>2. /\ IsFiniteSet(S \union {s})
          /\ Cardinality(S \union {s}) \in {Cardinality(S), Cardinality(S) + 1}
      BY <2>3, FS_AddElement
    <3> QED
      BY <3>1, <3>2
  <2>6. Cardinality(then) <= Cardinality(S \union {s}) /\ Cardinality(then) \in Nat
        /\ Cardinality(S \union {s}) \in Nat
    BY <2>4, <2>5, FS_Subset, FS_CardinalityType
  <2>7. Cardinality(then) > SetLimit
    BY <1>1
  <2> QED
    BY <2>1, <2>5, <2>6, <2>7, LimitAssumption DEF S
<1>7. CASE req[r].pc \in {"save", "commit"} /\ req[r].set = s
  <2>1. s \notin now
    BY <1>2 DEF now
  <2> QED
    BY <1>1, <1>4, <1>5, <1>7, <2>1
<1> QED
  BY <1>4, <1>6, <1>7

\* A limit is passed only by a request that checked it before others added.
THEOREM LimitsHoldAlone == Spec => LimitsPassedOnStaleCounts
<1>1. ASSUME IInv, Next, NEW s \in HighlightSet,
             Cardinality(Keys(s)') > ContentLimit, ~(Keys(s)' \subseteq Keys(s))
      PROVE  \E r \in Request :
                /\ req[r].pc \in {"add", "commit"} /\ req[r].set = s /\ req'[r] # req[r]
                /\ ~(Keys(s) \ req[r].drop \subseteq req[r].prior \union req[r].asked)
  <2>1. Keys(s) = KeysIn(items[s]) /\ Keys(s)' = KeysIn(items'[s])
    BY DEF Keys, KeysIn, ToSet
  <2> QED
    BY <1>1, <2>1, ContentOnStaleCounts
<1>2. IInv /\ [Next]_vars =>
         [/\ \A s \in HighlightSet :
                Cardinality(Keys(s)') > ContentLimit /\ ~(Keys(s)' \subseteq Keys(s)) =>
                   \E r \in Request :
                       /\ req[r].pc \in {"add", "commit"} /\ req[r].set = s /\ req'[r] # req[r]
                       /\ ~(Keys(s) \ req[r].drop \subseteq req[r].prior \union req[r].asked)
          /\ \A e \in Enterprise :
                Cardinality(SetsOf(e)') > SetLimit /\ ~(SetsOf(e)' \subseteq SetsOf(e)) =>
                   \E r \in Request :
                       /\ req[r].row # Unused /\ req'[r] # req[r]
                       /\ \/ req[r].pc = "insert" /\ ~(SetsOf(e) \subseteq req[r].prior)
                          \/ req[r].pc \in {"save", "commit"} /\ req[r].set \notin SetsOf(e)]_vars
  BY <1>1, SetsOnStaleCounts
<1> QED
  BY <1>2, Kept, PTL DEF Spec, LimitsPassedOnStaleCounts

-----------------------------------------------------------------------------
(* The order a set is shown in.                                            *)

ItemIn(q, k) == CHOOSE item \in ToSet(q) : item.key = k
PositionIn(q, k) == CHOOSE i \in DOMAIN q : q[i].key = k
ShownFirst(q, j, k) ==
    LET a == ItemIn(q, j)
        b == ItemIn(q, k)
    IN  \/ a.favorite /\ ~b.favorite
        \/ a.favorite /\ b.favorite /\ a.rank < b.rank
        \/ ~a.favorite /\ ~b.favorite /\ PositionIn(q, j) < PositionIn(q, k)

\* The same of two positions.
Before(q, i, h) ==
    \/ q[i].favorite /\ ~q[h].favorite
    \/ q[i].favorite /\ q[h].favorite /\ q[i].rank < q[h].rank
    \/ ~q[i].favorite /\ ~q[h].favorite /\ i < h

LEMMA ShownTerms ==
    ASSUME NEW s \in HighlightSet, NEW j, NEW k
    PROVE  /\ ShownBefore(s, j, k) <=> ShownFirst(items[s], j, k)
           /\ ShownBefore(s, j, k)' <=> ShownFirst(items'[s], j, k)
           /\ Item(s, j) = ItemIn(items[s], j) /\ Item(s, j)' = ItemIn(items'[s], j)
  BY DEF ShownBefore, ShownFirst, Item, ItemIn, Position, PositionIn

LEMMA FoundByKey ==
    ASSUME NEW q, OneEach(q), NEW i \in DOMAIN q
    PROVE  ItemIn(q, q[i].key) = q[i] /\ PositionIn(q, q[i].key) = i
<1>1. q[i] \in ToSet(q) /\ \A x \in ToSet(q) : x.key = q[i].key => x = q[i]
  BY DEF ToSet, OneEach
<1>2. ItemIn(q, q[i].key) = q[i]
  BY <1>1 DEF ItemIn
<1>3. PositionIn(q, q[i].key) = i
  BY DEF PositionIn, OneEach
<1> QED
  BY <1>2, <1>3

LEMMA FirstIsBefore ==
    ASSUME NEW q, OneEach(q), NEW i \in DOMAIN q, NEW h \in DOMAIN q
    PROVE  ShownFirst(q, q[i].key, q[h].key) <=> Before(q, i, h)
  BY FoundByKey DEF ShownFirst, Before

LEMMA RefilledOrder ==
    ASSUME NEW q, OneEach(q), NEW p, NEW drop, NEW added, Refilled(q, p, drop, added),
           NEW i \in DOMAIN q, NEW h \in DOMAIN q, q[i].key \notin drop, q[h].key \notin drop
    PROVE  ShownFirst(q, q[i].key, q[h].key) <=> ShownFirst(p, q[i].key, q[h].key)
<1>1. PICK m \in DOMAIN p, n \in DOMAIN p : p[m] = q[i] /\ p[n] = q[h]
  BY DEF Refilled
<1>2. OneEach(p)
  BY DEF Refilled
<1>3. i < h => m < n
  BY <1>1 DEF Refilled
<1>4. h < i => n < m
  BY <1>1 DEF Refilled
<1>5. i = h => m = n
  BY <1>1, <1>2 DEF OneEach
<1>6. i \in Int /\ h \in Int /\ m \in Int /\ n \in Int
  BY <1>2, RowFields
<1>7. i < h <=> m < n
  BY <1>3, <1>4, <1>5, <1>6
<1>8. Before(q, i, h) <=> Before(p, m, n)
  BY <1>1, <1>7 DEF Before
<1> QED
  BY <1>1, <1>2, <1>8, FirstIsBefore

LEMMA ToggleOrder ==
    ASSUME NEW q, OneEach(q), Distinct(q), NEW p, NEW t \in DOMAIN q, NEW favorite \in BOOLEAN,
           NEW rank, Toggle(q, p, t, favorite, rank), q[t].favorite # favorite,
           NEW i \in DOMAIN q, NEW h \in DOMAIN q, i # t, h # t
    PROVE  ShownFirst(q, q[i].key, q[h].key) <=> ShownFirst(p, q[i].key, q[h].key)
<1>1. OneEach(p) /\ DOMAIN p = DOMAIN q /\ p[i].key = q[i].key /\ p[h].key = q[h].key
  <2>1. OneEach(p)
    BY ToggleOneEach
  <2> QED
    BY <2>1 DEF Toggle
<1>2. p[i].favorite = q[i].favorite /\ p[h].favorite = q[h].favorite
  BY DEF Toggle
<1>3. /\ q[i].rank \in Nat /\ q[h].rank \in Nat /\ q[t].rank \in Nat
      /\ q[i].favorite \in BOOLEAN /\ q[h].favorite \in BOOLEAN /\ q[t].favorite \in BOOLEAN
  BY RowFields
<1>4. CASE favorite
  <2>1. p[i].rank = q[i].rank /\ p[h].rank = q[h].rank
    BY <1>4 DEF Toggle
  <2>2. Before(q, i, h) <=> Before(p, i, h)
    BY <1>2, <2>1 DEF Before
  <2> QED
    BY <1>1, <2>2, FirstIsBefore
<1>5. CASE ~ favorite
  <2>1. q[t].favorite
    BY <1>3, <1>5
  <2>2. ASSUME q[i].favorite, q[h].favorite
        PROVE  q[i].rank < q[h].rank <=> p[i].rank < p[h].rank
    <3>1. q[i].rank # q[t].rank /\ q[h].rank # q[t].rank
      BY <2>1, <2>2 DEF Distinct
    <3>2. \/ q[i].rank > q[t].rank /\ p[i].rank = q[i].rank - 1
          \/ q[i].rank < q[t].rank /\ p[i].rank = q[i].rank
      BY <1>3, <1>5, <2>2, <3>1 DEF Toggle
    <3>3. \/ q[h].rank > q[t].rank /\ p[h].rank = q[h].rank - 1
          \/ q[h].rank < q[t].rank /\ p[h].rank = q[h].rank
      BY <1>3, <1>5, <2>2, <3>1 DEF Toggle
    <3> QED
      BY <1>3, <3>2, <3>3
  <2>3. Before(q, i, h) <=> Before(p, i, h)
    BY <1>2, <2>2 DEF Before
  <2> QED
    BY <1>1, <2>3, FirstIsBefore
<1> QED
  BY <1>4, <1>5

LEMMA OrderStays ==
    ASSUME IInv, Next, NEW s \in HighlightSet,
           NEW i \in DOMAIN items[s], NEW h \in DOMAIN items[s],
           {items[s][i].key, items[s][h].key} \subseteq KeysIn(items'[s]),
           \A r \in Request : req'[r] # req[r] /\ req[r].kind = "patch" =>
               req[r].drop \intersect {items[s][i].key, items[s][h].key} = {},
           items[s][i].favorite = ItemIn(items'[s], items[s][i].key).favorite,
           items[s][h].favorite = ItemIn(items'[s], items[s][h].key).favorite
    PROVE  ShownFirst(items[s], items[s][i].key, items[s][h].key)
               <=> ShownFirst(items'[s], items[s][i].key, items[s][h].key)
<1> DEFINE q == items[s]
           p == items'[s]
<1>1. OneEach(q) /\ Distinct(q)
  BY DEF IInv, Locks
<1>2. ASSUME NEW drop, Refilled(q, p, drop, {})
      PROVE  q[i].key \notin drop /\ q[h].key \notin drop
  BY <1>2 DEF Refilled
<1>3. ASSUME NEW r \in Request, Commits(r, s)
      PROVE  q[i].key \notin req[r].drop /\ q[h].key \notin req[r].drop
  <2> DEFINE x == req[r]
  <2>1. /\ x.kind \in {"patch", "set-content"} /\ (x.kind = "set-content" => x.drop \intersect x.want = {})
        /\ req'[r] # x
    BY <1>3 DEF IInv, Locks, Staged, Commits
  <2>2. CASE x.kind = "patch"
    BY <2>1, <2>2
  <2>3. CASE x.kind = "set-content"
    <3>1. KeysIn(p) \subseteq (KeysIn(q) \ x.drop) \union x.want
      BY <1>3 DEF Commits, Refilled
    <3> QED
      BY <2>1, <2>3, <3>1
  <2> QED
    BY <2>1, <2>2, <2>3
<1>4. ASSUME NEW r \in Request, Toggles(r, s)
      PROVE  ShownFirst(q, q[i].key, q[h].key) <=> ShownFirst(p, q[i].key, q[h].key)
  <2> DEFINE favorite == req[r].favorite
             rank == req[r].rank
  <2>1. PICK t \in DOMAIN q : (q[t].favorite # favorite) /\ Toggle(q, p, t, favorite, rank)
    BY <1>4 DEF Toggles
  <2>2. favorite \in BOOLEAN
    BY JobFields DEF IInv
  <2> HIDE DEF favorite, rank
  <2>3. OneEach(p) /\ DOMAIN p = DOMAIN q /\ \A m \in DOMAIN q : p[m].key = q[m].key
    <3>1. OneEach(p)
      BY <1>1, <2>1, ToggleOneEach
    <3> QED
      BY <2>1, <3>1 DEF Toggle
  <2>4. ItemIn(p, q[i].key) = p[i] /\ ItemIn(p, q[h].key) = p[h]
    <3>1. ItemIn(p, p[i].key) = p[i] /\ ItemIn(p, p[h].key) = p[h]
      BY <2>3, FoundByKey
    <3> QED
      BY <2>3, <3>1
  <2>5. i # t /\ h # t
    BY <2>1, <2>4 DEF Toggle
  <2> QED
    BY <1>1, <2>1, <2>2, <2>5, ToggleOrder
<1>5. ItemsEffect(s)
  BY StepEffect
<1>6. CASE \E drop : Refilled(q, p, drop, {})
  BY <1>1, <1>2, <1>6, RefilledOrder
<1>7. ASSUME NEW r \in Request, Adds(r, s)
      PROVE  ShownFirst(q, q[i].key, q[h].key) <=> ShownFirst(p, q[i].key, q[h].key)
  <2>1. PICK k : Refilled(q, p, {}, {k})
    BY <1>7 DEF Adds
  <2> QED
    BY <1>1, <2>1, RefilledOrder
<1>8. ASSUME NEW r \in Request, Commits(r, s)
      PROVE  ShownFirst(q, q[i].key, q[h].key) <=> ShownFirst(p, q[i].key, q[h].key)
  <2>1. PICK new : Refilled(q, p, req[r].drop, new)
    BY <1>8 DEF Commits
  <2> QED
    BY <1>1, <1>3, <1>8, <2>1, RefilledOrder
<1> QED
  BY <1>4, <1>5, <1>6, <1>7, <1>8 DEF ItemsEffect

\* What stays of a set keeps its order, whatever is added, removed or toggled beside it.
THEOREM OrderKept == Spec => DisplayOrderKept
<1>1. ASSUME IInv, Next, NEW s \in HighlightSet, NEW j \in Keys(s), NEW k \in Keys(s),
             {j, k} \subseteq Keys(s)',
             \A r \in Request : req'[r] # req[r] /\ req[r].kind = "patch" => req[r].drop \intersect {j, k} = {},
             Item(s, j).favorite = Item(s, j)'.favorite,
             Item(s, k).favorite = Item(s, k)'.favorite
      PROVE  ShownBefore(s, j, k) <=> ShownBefore(s, j, k)'
  <2>1. Keys(s) = KeysIn(items[s]) /\ Keys(s)' = KeysIn(items'[s])
    BY DEF Keys, KeysIn, ToSet
  <2>2. PICK i \in DOMAIN items[s], h \in DOMAIN items[s] : j = items[s][i].key /\ k = items[s][h].key
    BY <2>1 DEF KeysIn
  <2>3. OneEach(items[s])
    BY <1>1 DEF IInv, Locks
  <2>4. ItemIn(items[s], j) = items[s][i] /\ ItemIn(items[s], k) = items[s][h]
    BY <2>2, <2>3, FoundByKey
  <2>5. /\ items[s][i].favorite = ItemIn(items'[s], j).favorite
        /\ items[s][h].favorite = ItemIn(items'[s], k).favorite
    BY <1>1, <2>4, ShownTerms
  <2>6. ShownFirst(items[s], j, k) <=> ShownFirst(items'[s], j, k)
    BY <1>1, <2>1, <2>2, <2>5, OrderStays
  <2> QED
    BY <2>6, ShownTerms
<1>2. IInv /\ [Next]_vars =>
         [\A s \in HighlightSet : \A j, k \in Keys(s) :
             /\ {j, k} \subseteq Keys(s)'
             /\ \A r \in Request : req'[r] # req[r] /\ req[r].kind = "patch" => req[r].drop \intersect {j, k} = {}
             /\ Item(s, j).favorite = Item(s, j)'.favorite
             /\ Item(s, k).favorite = Item(s, k)'.favorite
             => (ShownBefore(s, j, k) <=> ShownBefore(s, j, k)')]_vars
  BY <1>1
<1> QED
  BY <1>2, Kept, PTL DEF Spec, DisplayOrderKept
=============================================================================
