----------------------------- MODULE OrderingProofs -----------------------------
(***************************************************************************)
(* What the operators of Ordering return.  No induction: the places of the *)
(* elements of a finite set differ and are at most as many as it has, so   *)
(* each number up to its cardinality is the place of one.                  *)
(***************************************************************************)
EXTENDS Ordering, FiniteSetTheorems, TLAPS

\* An element's place is one of as many as there are elements.
LEMMA PlaceRange ==
    ASSUME NEW S, IsFiniteSet(S), NEW R, TotalOrder(R, S), NEW a \in S
    PROVE  Place(S, R, a) \in 1..Cardinality(S)
<1> DEFINE T == {b \in S : <<b, a>> \in R}
<1>1. T \in SUBSET S /\ a \in T
    BY DEF TotalOrder
<1>2. IsFiniteSet(T) /\ Cardinality(T) <= Cardinality(S)
    BY <1>1, FS_Subset
<1>3. Cardinality(T) \in Nat /\ Cardinality(S) \in Nat
    BY <1>2, FS_CardinalityType
<1>4. Cardinality(T) # 0
    BY <1>1, <1>2, FS_EmptySet
<1> QED BY <1>2, <1>3, <1>4 DEF Place

\* What comes first has the lower place.
LEMMA PlaceGrows ==
    ASSUME NEW S, IsFiniteSet(S), NEW R, TotalOrder(R, S), NEW a \in S, NEW b \in S,
           <<a, b>> \in R, a # b
    PROVE  Place(S, R, a) < Place(S, R, b)
<1> DEFINE A == {c \in S : <<c, a>> \in R}
           B == {c \in S : <<c, b>> \in R}
<1>1. A \in SUBSET B /\ b \in B /\ b \notin A
    BY DEF TotalOrder
<1>2. IsFiniteSet(B) /\ IsFiniteSet(A)
    BY <1>1, FS_Subset
<1>3. Cardinality(A) <= Cardinality(B) /\ Cardinality(A) # Cardinality(B)
    BY <1>1, <1>2, FS_Subset
<1>4. Cardinality(A) \in Nat /\ Cardinality(B) \in Nat
    BY <1>2, FS_CardinalityType
<1> QED BY <1>3, <1>4 DEF Place

\* Every number up to the cardinality is the place of an element.
LEMMA PlaceTaken ==
    ASSUME NEW S, IsFiniteSet(S), NEW R, TotalOrder(R, S), NEW n \in 1..Cardinality(S)
    PROVE  \E a \in S : Place(S, R, a) = n
<1> DEFINE N == Cardinality(S)
           f == [a \in S |-> Place(S, R, a)]
<1>1. N \in Nat
    BY FS_CardinalityType
<1>2. f \in [S -> 1..N]
    BY PlaceRange
<1>3. ASSUME NEW a \in S, NEW b \in S, f[a] = f[b]
      PROVE  a = b
  <2>1. Place(S, R, a) \in 1..N /\ Place(S, R, b) \in 1..N /\ Place(S, R, a) = Place(S, R, b)
      BY <1>3, PlaceRange
  <2>2. ~(Place(S, R, a) < Place(S, R, b)) /\ ~(Place(S, R, b) < Place(S, R, a))
      BY <1>1, <2>1
  <2>3. <<a, b>> \in R \/ <<b, a>> \in R
      BY DEF TotalOrder
  <2> QED BY <2>2, <2>3, PlaceGrows
<1>4. f \in Injection(S, 1..N)
    BY <1>2, <1>3 DEF Injection, IsInjective
<1>5. IsFiniteSet(1..N) /\ Cardinality(1..N) = N
    BY <1>1, FS_Interval
<1>6. f \in Surjection(S, 1..N)
    BY <1>4, <1>5, FS_Injection
<1> QED BY <1>6 DEF Surjection

\* s has the elements of S each at its place; s has each of them once, and in order.
Placed(s, S, R) == /\ s \in [1..Cardinality(S) -> S]
                   /\ \A n \in 1..Cardinality(S) : Place(S, R, s[n]) = n

EachInOrder(s, S, R) ==
    /\ s \in Seq(S) /\ Len(s) = Cardinality(S)
    /\ s \in [1..Cardinality(S) -> S]
    /\ \A a \in S : \E n \in 1..Cardinality(S) : s[n] = a
    /\ \A m, n \in 1..Cardinality(S) : m < n => <<s[m], s[n]>> \in R /\ s[m] # s[n]

LEMMA Listed ==
    ASSUME NEW S, IsFiniteSet(S), NEW R, TotalOrder(R, S), NEW s, Placed(s, S, R)
    PROVE  EachInOrder(s, S, R)
<1> DEFINE N == Cardinality(S)
<1>1. N \in Nat
    BY FS_CardinalityType
<1>2. \A n \in 1..N : s[n] \in S /\ Place(S, R, s[n]) = n
    BY DEF Placed
<1>3. s \in [1..N -> S]
    BY DEF Placed
<1>4. s \in Seq(S) /\ Len(s) = N
    BY <1>1, <1>3
<1>5. ASSUME NEW a \in S PROVE \E n \in 1..N : s[n] = a
  <2> DEFINE n == Place(S, R, a)
  <2>1. n \in 1..N
      BY PlaceRange
  <2>2. s[n] \in S /\ Place(S, R, s[n]) = n
      BY <1>2, <2>1
  <2>3. ~(Place(S, R, s[n]) < Place(S, R, a)) /\ ~(Place(S, R, a) < Place(S, R, s[n]))
      BY <1>1, <2>1, <2>2
  <2>4. <<s[n], a>> \in R \/ <<a, s[n]>> \in R
      BY <2>2 DEF TotalOrder
  <2>5. s[n] = a
      BY <2>2, <2>3, <2>4, PlaceGrows
  <2> QED BY <2>1, <2>5
<1>6. ASSUME NEW m \in 1..N, NEW n \in 1..N, m < n
      PROVE  <<s[m], s[n]>> \in R /\ s[m] # s[n]
  <2>1. /\ s[m] \in S /\ s[n] \in S /\ Place(S, R, s[m]) = m /\ Place(S, R, s[n]) = n
      BY <1>2
  <2>2. s[m] # s[n]
      BY <1>1, <1>6, <2>1
  <2>3. ~(Place(S, R, s[n]) < Place(S, R, s[m]))
      BY <1>1, <1>6, <2>1
  <2> QED BY <2>1, <2>2, <2>3, PlaceGrows DEF TotalOrder
<1> QED BY <1>3, <1>4, <1>5, <1>6 DEF EachInOrder

\* A set in order is a sequence of its elements, each of them at its place.
LEMMA InOrderLists ==
    ASSUME NEW S, IsFiniteSet(S), NEW R, TotalOrder(R, S)
    PROVE  EachInOrder(InOrder(S, R), S, R)
<1>1. \A n \in 1..Cardinality(S) : InOrder(S, R)[n] \in S /\ Place(S, R, InOrder(S, R)[n]) = n
    BY PlaceTaken DEF InOrder
<1>2. Placed(InOrder(S, R), S, R)
    BY <1>1 DEF InOrder, Placed
<1> QED BY <1>2, Listed

\* Numbers in ascending order.
LEMMA AscendingLists ==
    ASSUME NEW S \in SUBSET Int, IsFiniteSet(S)
    PROVE  /\ Ascending(S) \in Seq(S) /\ Len(Ascending(S)) = Cardinality(S)
           /\ Ascending(S) \in [1..Cardinality(S) -> S]
           /\ \A a \in S : \E n \in 1..Cardinality(S) : Ascending(S)[n] = a
           /\ \A m, n \in 1..Cardinality(S) : m < n => Ascending(S)[m] < Ascending(S)[n]
<1> DEFINE R == {p \in S \X S : p[1] <= p[2]}
           s == Ascending(S)
<1>1. \A a, b \in S : <<a, b>> \in R <=> a <= b
    OBVIOUS
<1> HIDE DEF R
<1>2. TotalOrder(R, S)
    BY <1>1 DEF TotalOrder
<1>3. ASSUME NEW a \in S
      PROVE  Place(S, R, a) = Cardinality({b \in S : b <= a})
  <2>1. {b \in S : <<b, a>> \in R} = {b \in S : b <= a}
      BY <1>1
  <2> QED BY <2>1 DEF Place
<1>4. ASSUME NEW n \in 1..Cardinality(S)
      PROVE  s[n] \in S /\ Place(S, R, s[n]) = n
  <2> DEFINE C(a) == Cardinality({b \in S : b <= a})
  <2>0. \E a \in S : Place(S, R, a) = n
      BY <1>2, PlaceTaken
  <2>1. \E a \in S : C(a) = n
      BY <2>0, <1>3
  <2>2. s[n] \in S /\ C(s[n]) = n
      BY <2>1 DEF Ascending
  <2> QED BY <1>3, <2>2
<1>5. Placed(s, S, R)
    BY <1>4 DEF Ascending, Placed
<1>6. EachInOrder(s, S, R)
    BY <1>2, <1>5, Listed
<1> HIDE DEF s
<1>7. ASSUME NEW m \in 1..Cardinality(S), NEW n \in 1..Cardinality(S), m < n
      PROVE  s[m] < s[n]
  <2>1. s[m] \in S /\ s[n] \in S
      BY <1>6 DEF EachInOrder
  <2>2. s[m] <= s[n] /\ s[m] # s[n] /\ s[m] \in Int /\ s[n] \in Int
      BY <1>1, <1>6, <1>7, <2>1 DEF EachInOrder
  <2> QED BY <2>2
<1> QED BY <1>6, <1>7 DEF s, EachInOrder

\* The part of a sequence at some positions has its elements there, and no others.
LEMMA AtLists ==
    ASSUME NEW E, NEW s \in Seq(E), NEW I \in SUBSET DOMAIN s
    PROVE  /\ At(s, I) \in Seq({s[i] : i \in I}) /\ Len(At(s, I)) = Cardinality(I)
           /\ \A n \in DOMAIN At(s, I) : \E i \in I : At(s, I)[n] = s[i]
           /\ \A i \in I : \E n \in DOMAIN At(s, I) : At(s, I)[n] = s[i]
<1>1. I \in SUBSET Int /\ IsFiniteSet(DOMAIN s)
    BY FS_Interval
<1>2. IsFiniteSet(I)
    BY <1>1, FS_Subset
<1> DEFINE N == Cardinality(I)
           a == Ascending(I)
<1>3. N \in Nat
    BY <1>2, FS_CardinalityType
<1>4. a \in [1..N -> I] /\ \A i \in I : \E n \in 1..N : a[n] = i
    BY <1>1, <1>2, <1>3, AscendingLists
<1>5. At(s, I) = [n \in 1..N |-> s[a[n]]]
    BY DEF At
<1> HIDE DEF a, N
<1>6. At(s, I) \in [1..N -> {s[i] : i \in I}]
    BY <1>4, <1>5
<1>7. At(s, I) \in Seq({s[i] : i \in I}) /\ Len(At(s, I)) = N /\ DOMAIN At(s, I) = 1..N
    BY <1>3, <1>6
<1>8. \A n \in 1..N : \E i \in I : At(s, I)[n] = s[i]
    BY <1>4, <1>5
<1>9. \A i \in I : \E n \in 1..N : At(s, I)[n] = s[i]
    BY <1>4, <1>5
<1> QED BY <1>7, <1>8, <1>9 DEF N

\* ... in the order s has them.
LEMMA AtInOrder ==
    ASSUME NEW E, NEW s \in Seq(E), NEW I \in SUBSET DOMAIN s,
           NEW m \in DOMAIN At(s, I), NEW n \in DOMAIN At(s, I), m < n
    PROVE  \E i, j \in I : i < j /\ At(s, I)[m] = s[i] /\ At(s, I)[n] = s[j]
<1>1. I \in SUBSET Int /\ IsFiniteSet(DOMAIN s)
    BY FS_Interval
<1>2. IsFiniteSet(I)
    BY <1>1, FS_Subset
<1> DEFINE N == Cardinality(I)
           a == Ascending(I)
<1>3. N \in Nat
    BY <1>2, FS_CardinalityType
<1>4. a \in [1..N -> I] /\ \A k, l \in 1..N : k < l => a[k] < a[l]
    BY <1>1, <1>2, <1>3, AscendingLists
<1>5. At(s, I) = [k \in 1..N |-> s[a[k]]]
    BY DEF At
<1> HIDE DEF a, N
<1>6. m \in 1..N /\ n \in 1..N
    BY <1>5
<1> QED BY <1>4, <1>5, <1>6
=============================================================================
