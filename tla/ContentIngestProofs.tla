--------------------------- MODULE ContentIngestProofs ---------------------------
(***************************************************************************)
(* Proofs about ContentIngest, for any number of updates, queries and      *)
(* keys, any batch and page sizes, and any deadlocks, clashes and errors:  *)
(* no entry of a payload is forgotten, members have rows, a membership     *)
(* loses content and all its content only for the reasons named, a dry run *)
(* writes nothing.                                                         *)
(*                                                                         *)
(* The inductive invariant IInv says of each update that                   *)
(*   - before the payload is complete nothing is waiting or kept, and      *)
(*     nothing waits for a creation between batches (InStage);             *)
(*   - the payload has every key whose place in Discovery's list is on a   *)
(*     page already read, unless an error was taken for a page or the list *)
(*     has changed (Complete);                                             *)
(*   - an object kept as live has a row, one that is not was built by a    *)
(*     dry run or lost with its batch (Backed).                            *)
(***************************************************************************)
EXTENDS ContentIngest, OrderingProofs

\* Every update has a job.
Jobs == job = [u \in Update |-> job[u]]

LEMMA OwnJob ==
    ASSUME Jobs, NEW v \in Update, NEW j, Becomes(v, j)
    PROVE  Jobs' /\ \A u \in Update \ {v} : job'[u] = job[u]
  BY DEF Jobs, Becomes

LEMMA UpdateJobs ==
    ASSUME Jobs, NEW v \in Update, Run(v)
    PROVE  Jobs' /\ \A u \in Update \ {v} : job'[u] = job[u]
<1>1. \E j : Becomes(v, j)
  <2>1. CASE Start(v) \/ FetchPage(v) \/ FetchAgain(v)
    BY <2>1 DEF Start, FetchPage, FetchAgain
  <2>2. CASE FetchRaises(v) \/ FetchErrorPage(v)
    BY <2>2 DEF FetchRaises, FetchErrorPage
  <2>3. CASE FetchForced(v)
    BY <2>3 DEF FetchForced
  <2>4. CASE UpdateBatch(v) \/ BatchDeadlocks(v)
    BY <2>4 DEF UpdateBatch, BatchDeadlocks
  <2>5. CASE Create(v) \/ CreateRaises(v)
    BY <2>5 DEF Create, CreateRaises
  <2>6. CASE CreateClashes(v)
    BY <2>6 DEF CreateClashes
  <2>7. CASE Associate(v)
    BY <2>7 DEF Associate
  <2> QED
    BY <2>1, <2>2, <2>3, <2>4, <2>5, <2>6, <2>7 DEF Run
<1> QED
  BY <1>1, OwnJob

\* Discovery and the calendar touch no table, though they may note in a job that its list
\* has shifted.
LEMMA WorldSpares ==
    ASSUME \/ \E q \in Query : ChangeList(q)
           \/ \E k \in Key : EditContent(k)
           \/ Midnight
    PROVE  UNCHANGED <<row, member>> /\ (Jobs => Jobs')
<1>1. CASE \E q \in Query : ChangeList(q)
  BY <1>1 DEF ChangeList, Shift, Jobs
<1>2. CASE \E k \in Key : EditContent(k)
  BY <1>2 DEF EditContent, Jobs
<1>3. CASE Midnight
  BY <1>3 DEF Midnight, Jobs
<1> QED
  BY <1>1, <1>2, <1>3

LEMMA JobsStay == Jobs /\ [Next]_vars => Jobs'
<1> SUFFICES ASSUME Jobs, [Next]_vars PROVE Jobs'
  OBVIOUS
<1>1. CASE UNCHANGED vars
  BY <1>1 DEF vars, Jobs
<1>2. ASSUME NEW u \in Update, Run(u)
      PROVE  Jobs'
  BY <1>2, UpdateJobs
<1> QED
  BY <1>1, <1>2, WorldSpares DEF Next

LEMMA DryStepSpares ==
    ASSUME NEW u \in Update, job[u].dry, Run(u)
    PROVE  UNCHANGED <<row, member>>
<1>1. CASE Start(u) \/ FetchPage(u) \/ FetchAgain(u) \/ FetchRaises(u) \/ FetchErrorPage(u) \/ FetchForced(u)
  BY <1>1 DEF Start, FetchPage, FetchAgain, FetchRaises, FetchErrorPage, FetchForced
<1>2. CASE UpdateBatch(u) \/ BatchDeadlocks(u)
  BY <1>2 DEF UpdateBatch, BatchDeadlocks
<1>3. CASE Create(u) \/ CreateClashes(u) \/ CreateRaises(u)
  BY <1>3 DEF Create, CreateClashes, CreateRaises
<1>4. CASE Associate(u)
  BY <1>4 DEF Associate
<1> QED
  BY <1>1, <1>2, <1>3, <1>4 DEF Run

-----------------------------------------------------------------------------
(* The operators on sequences of entries.                                  *)

LEMMA InKeysOf == ASSUME NEW s PROVE \A k : k \in KeysOf(s) <=> \E i \in DOMAIN s : s[i].key = k
  BY DEF KeysOf

LEMMA KeysWithin ==
    ASSUME NEW s, NEW K, \A i \in DOMAIN s : s[i].key \in K
    PROVE  KeysOf(s) \subseteq K
  BY DEF KeysOf

LEMMA EntryFields ==
    ASSUME NEW s \in Seq(Entry)
    PROVE  \A i \in DOMAIN s : s[i] \in Entry /\ s[i].key \in Key /\ s[i].version \in 1..MaxVersion
<1>1. \A i \in DOMAIN s : s[i] \in Entry
  OBVIOUS
<1>2. \A e \in Entry : e.key \in Key /\ e.version \in 1..MaxVersion
  BY DEF Entry
<1> QED
  BY <1>1, <1>2

LEMMA KeysJoin ==
    ASSUME NEW E, NEW s \in Seq(E), NEW t \in Seq(E)
    PROVE  s \o t \in Seq(E) /\ KeysOf(s \o t) = KeysOf(s) \union KeysOf(t)
<1>1. \A i \in DOMAIN s : i \in DOMAIN (s \o t) /\ (s \o t)[i] = s[i]
  OBVIOUS
<1>2. \A i \in DOMAIN t : Len(s) + i \in DOMAIN (s \o t) /\ (s \o t)[Len(s) + i] = t[i]
  OBVIOUS
<1>3. \A i \in DOMAIN (s \o t) :
         \/ i \in DOMAIN s /\ (s \o t)[i] = s[i]
         \/ i - Len(s) \in DOMAIN t /\ (s \o t)[i] = t[i - Len(s)]
  OBVIOUS
<1>4. \A i \in DOMAIN (s \o t) : (s \o t)[i].key \in KeysOf(s) \union KeysOf(t)
  <2> TAKE i \in DOMAIN (s \o t)
  <2>1. CASE i \in DOMAIN s /\ (s \o t)[i] = s[i]
    BY <2>1 DEF KeysOf
  <2>2. CASE i - Len(s) \in DOMAIN t /\ (s \o t)[i] = t[i - Len(s)]
    BY <2>2 DEF KeysOf
  <2> QED
    BY <1>3, <2>1, <2>2
<1>5. \A i \in DOMAIN s : s[i].key \in KeysOf(s \o t)
  BY <1>1, InKeysOf
<1>7. \A i \in DOMAIN t : t[i].key \in KeysOf(s \o t)
  BY <1>2, InKeysOf
<1>6. s \o t \in Seq(E)
  OBVIOUS
<1> QED
  BY <1>4, <1>5, <1>6, <1>7, KeysWithin

LEMMA KeysAt ==
    ASSUME NEW s \in Seq(Entry), NEW I \in SUBSET DOMAIN s
    PROVE  At(s, I) \in Seq(Entry) /\ KeysOf(At(s, I)) = {s[i].key : i \in I}
<1>1. At(s, I) \in Seq({s[i] : i \in I})
  BY AtLists
<1>2. {s[i] : i \in I} \subseteq Entry
  OBVIOUS
<1>3. At(s, I) \in Seq(Entry)
  BY <1>1, <1>2
<1>4. \A n \in DOMAIN At(s, I) : \E i \in I : At(s, I)[n] = s[i]
  BY AtLists
<1>5. \A i \in I : \E n \in DOMAIN At(s, I) : At(s, I)[n] = s[i]
  BY AtLists
<1> QED
  BY <1>3, <1>4, <1>5 DEF KeysOf

LEMMA KeysSplit ==
    ASSUME NEW s \in Seq(Entry), NEW n \in Nat
    PROVE  /\ Take(s, n) \in Seq(Entry) /\ Drop(s, n) \in Seq(Entry)
           /\ KeysOf(s) = KeysOf(Take(s, n)) \union KeysOf(Drop(s, n))
<1>1. Len(s) \in Nat
  OBVIOUS
<1>2. Take(s, n) \in Seq(Entry) /\ DOMAIN Take(s, n) = {i \in DOMAIN s : i <= n}
      /\ \A i \in DOMAIN Take(s, n) : Take(s, n)[i] = s[i]
  BY <1>1 DEF Take
<1>3. /\ Drop(s, n) \in Seq(Entry)
      /\ \A i \in DOMAIN Drop(s, n) : n + i \in DOMAIN s /\ Drop(s, n)[i] = s[n + i]
      /\ \A i \in DOMAIN s : n < i => i - n \in DOMAIN Drop(s, n) /\ Drop(s, n)[i - n] = s[i]
  BY <1>1 DEF Drop
<1>4. \A i \in DOMAIN s : i <= n => i \in DOMAIN Take(s, n)
  BY <1>2
<1> HIDE DEF Take, Drop
<1>5. \A k : k \in KeysOf(s) => k \in KeysOf(Take(s, n)) \/ k \in KeysOf(Drop(s, n))
  <2> SUFFICES ASSUME NEW i \in DOMAIN s
               PROVE  s[i].key \in KeysOf(Take(s, n)) \/ s[i].key \in KeysOf(Drop(s, n))
    BY InKeysOf
  <2>1. i <= n \/ n < i
    OBVIOUS
  <2> QED
    BY <1>2, <1>3, <1>4, <2>1, InKeysOf
<1>6. \A i \in DOMAIN Take(s, n) : Take(s, n)[i].key \in KeysOf(s)
  BY <1>2, InKeysOf
<1>7. \A i \in DOMAIN Drop(s, n) : Drop(s, n)[i].key \in KeysOf(s)
  BY <1>3, InKeysOf
<1> QED
  BY <1>2, <1>3, <1>5, <1>6, <1>7, KeysWithin

LEMMA KeysPop ==
    ASSUME NEW s \in Seq(Entry), s # <<>>
    PROVE  /\ <<Head(s)>> \in Seq(Entry) /\ Tail(s) \in Seq(Entry)
           /\ KeysOf(s) = KeysOf(<<Head(s)>>) \union KeysOf(Tail(s))
<1>1. /\ Head(s) = s[1] /\ 1 \in DOMAIN s /\ s[1] \in Entry
      /\ \A i \in DOMAIN Tail(s) : i + 1 \in DOMAIN s /\ Tail(s)[i] = s[i + 1]
      /\ \A i \in DOMAIN s : i # 1 => i - 1 \in DOMAIN Tail(s) /\ Tail(s)[i - 1] = s[i]
  OBVIOUS
<1>2. KeysOf(<<Head(s)>>) = {s[1].key}
  BY <1>1 DEF KeysOf
<1>3. \A i \in DOMAIN s : s[i].key \in {s[1].key} \union KeysOf(Tail(s))
  BY <1>1, InKeysOf
<1>4. \A i \in DOMAIN Tail(s) : Tail(s)[i].key \in KeysOf(s)
  BY <1>1, InKeysOf
<1>5. s[1].key \in KeysOf(s)
  BY <1>1, InKeysOf
<1>6. KeysOf(s) \subseteq {s[1].key} \union KeysOf(Tail(s))
  BY <1>3, KeysWithin
<1>7. KeysOf(Tail(s)) \subseteq KeysOf(s)
  BY <1>4, KeysWithin
<1> QED
  BY <1>1, <1>2, <1>5, <1>6, <1>7

LEMMA KeysOfObjects ==
    ASSUME NEW s \in Seq(Entry), NEW live \in BOOLEAN
    PROVE  /\ Objects(s, live) \in Seq(Object) /\ KeysOf(Objects(s, live)) = KeysOf(s)
           /\ \A i \in DOMAIN Objects(s, live) : /\ Objects(s, live)[i].live = live
                                                 /\ Objects(s, live)[i].key \in KeysOf(s)
<1>1. \A i \in DOMAIN s : s[i].key \in Key
  BY EntryFields
<1>2. DOMAIN s = 1..Len(s) /\ Len(s) \in Nat
  OBVIOUS
<1>3. \A i \in DOMAIN s : [key |-> s[i].key, live |-> live] \in Object
  BY <1>1 DEF Object
<1>4. Objects(s, live) \in [1..Len(s) -> Object]
  BY <1>2, <1>3 DEF Objects
<1> QED
  BY <1>2, <1>4 DEF Objects, KeysOf

LEMMA KeysInKey ==
    ASSUME NEW s \in Seq(Entry)
    PROVE  KeysOf(s) \subseteq Key
  BY EntryFields DEF KeysOf

\* The entry of a key that is last in a sequence, and its version.
LEMMA Last ==
    ASSUME NEW s \in Seq(Entry), NEW k \in KeysOf(s)
    PROVE  \E i \in DOMAIN s : s[i].key = k /\ \A h \in DOMAIN s : s[h].key = k => h <= i
<1> DEFINE I == {i \in DOMAIN s : s[i].key = k}
           a == Ascending(I)
           n == Cardinality(I)
<1>1. IsFiniteSet(I) /\ I \in SUBSET Int
  BY FS_Interval, FS_Subset
<1>2. n \in Nat /\ n # 0
  <2>1. I # {}
    BY DEF KeysOf
  <2> HIDE DEF I
  <2> QED
    BY <1>1, <2>1, FS_CardinalityType, FS_EmptySet
<1>3. /\ a \in [1..n -> I]
      /\ \A i \in I : \E m \in 1..n : a[m] = i
      /\ \A l, m \in 1..n : l < m => a[l] < a[m]
  BY <1>1, AscendingLists
<1> HIDE DEF a, n
<1>4. a[n] \in I
  BY <1>2, <1>3
<1>5. \A h \in I : h <= a[n]
  <2> TAKE h \in I
  <2>1. PICK m \in 1..n : a[m] = h
    BY <1>3
  <2>2. m = n \/ m < n
    BY <1>2
  <2>3. a[m] <= a[n]
    BY <1>1, <1>2, <1>3, <1>4, <2>1, <2>2
  <2> QED
    BY <2>1, <2>3
<1> QED
  BY <1>4, <1>5

LEMMA Writes ==
    ASSUME row \in [Key -> 0..MaxVersion], NEW s \in Seq(Entry)
    PROVE  /\ Write(s) \in [Key -> 0..MaxVersion]
           /\ \A k \in Key : row[k] # 0 \/ k \in KeysOf(s) => Write(s)[k] # 0
<1>1. ASSUME NEW k \in KeysOf(s)
      PROVE  k \in Key /\ Write(s)[k] \in 1..MaxVersion
  <2> DEFINE L(i) == i \in DOMAIN s /\ s[i].key = k /\ \A h \in DOMAIN s : s[h].key = k => h <= i
             i == CHOOSE i \in DOMAIN s : s[i].key = k /\ \A h \in DOMAIN s : s[h].key = k => h <= i
  <2>1. i \in DOMAIN s
    BY Last
  <2>2. s[i].version \in 1..MaxVersion
    BY <2>1, EntryFields
  <2>3. k \in Key
    BY KeysInKey
  <2> QED
    BY <2>2, <2>3 DEF Write
<1>2. \A k \in Key \ KeysOf(s) : Write(s)[k] = row[k]
  BY DEF Write
<1>3. Write(s) = [k \in Key |-> Write(s)[k]]
  BY DEF Write
<1>4. \A k \in Key : Write(s)[k] \in 0..MaxVersion /\ (row[k] # 0 \/ k \in KeysOf(s) => Write(s)[k] # 0)
  BY <1>1, <1>2, SizeAssumption
<1> QED
  BY <1>3, <1>4
-----------------------------------------------------------------------------
(* The parts of the invariant, of a job j, of the rows present and lists.  *)

Blank(j) == j.todo = <<>> /\ j.pending = <<>> /\ j.kept = <<>> /\ j.retry = <<>> /\ j.lost = {}

AccountedFor(j) ==
    AllowedKeys(j.payload) =
        AllowedKeys(j.todo) \union KeysOf(j.retry) \union KeysOf(j.pending)
        \union KeysOf(j.kept) \union j.lost

InStage(j) ==
    /\ j.pc = "idle" => j.payload = <<>> /\ j.page = 1
    /\ j.pc \in {"idle", "fetch", "force"} => Blank(j)
    /\ j.pc = "update" => j.pending = <<>>
    /\ j.pc \in {"update", "create"} => AccountedFor(j)

Held(s, dry, lost, present) ==
    \A i \in DOMAIN s : IF s[i].live THEN s[i].key \in present ELSE dry \/ s[i].key \in lost

Backed(j, present) == Held(j.kept, j.dry, j.lost, present)

Complete(j, lists) ==
    j.cut \/ j.shifted \/
       /\ j.pc = "fetch" =>
             \A k \in lists[j.query] :
                PlaceIn(lists[j.query], k) <= (j.page - 1) * PageSize => k \in KeysOf(j.payload)
       /\ j.pc = "force" => lists[j.query] \subseteq KeysOf(j.payload)
       /\ j.pc \in {"update", "create"} =>
             lists[j.query] \union Forced[j.query] \subseteq KeysOf(j.payload)

Good(j, present, lists) == j \in Job /\ InStage(j) /\ Backed(j, present) /\ Complete(j, lists)

LEMMA StaysGood ==
    ASSUME NEW j, NEW P, NEW L, NEW Q, Good(j, P, L), P \subseteq Q
    PROVE  Good(j, Q, L)
<1>1. Backed(j, P) => Backed(j, Q)
  BY DEF Backed, Held
<1> QED
  BY <1>1 DEF Good

LEMMA BatchTaken ==
    ASSUME NEW j \in Job, More(j)
    PROVE  /\ Batch(j) \in Seq(Entry) /\ Rest(j) \in Job
           /\ AllowedKeys(j.todo) \union KeysOf(j.retry) =
                 KeysOf(Batch(j)) \union AllowedKeys(Rest(j).todo) \union KeysOf(Rest(j).retry)
           /\ Rest(j).pc = j.pc /\ Rest(j).query = j.query /\ Rest(j).dry = j.dry
           /\ Rest(j).page = j.page /\ Rest(j).payload = j.payload
           /\ Rest(j).pending = j.pending /\ Rest(j).kept = j.kept /\ Rest(j).lost = j.lost
           /\ Rest(j).cut = j.cut /\ Rest(j).shifted = j.shifted
<1>1. j.todo \in Seq(Entry) /\ j.retry \in Seq(Entry) /\ j.retries \in Nat /\ BatchSize \in Nat
  BY SizeAssumption DEF Job
<1>2. CASE j.todo # <<>>
  <2> DEFINE t == Take(j.todo, BatchSize)
             d == Drop(j.todo, BatchSize)
             I == {i \in DOMAIN t : Allowed(t[i])}
  <2>1. t \in Seq(Entry) /\ d \in Seq(Entry) /\ KeysOf(j.todo) = KeysOf(t) \union KeysOf(d)
    BY <1>1, KeysSplit
  <2>2. Batch(j) = At(t, I)
    BY <1>2 DEF Batch, Where
  <2>3. Rest(j) = [j EXCEPT !.todo = d]
    BY <1>2 DEF Rest
  <2> HIDE DEF t, d
  <2>4. Batch(j) \in Seq(Entry) /\ KeysOf(Batch(j)) = {t[i].key : i \in I}
    BY <2>1, <2>2, KeysAt
  <2>5. {t[i].key : i \in I} = AllowedKeys(t)
    BY DEF AllowedKeys, KeysOf, Allowed
  <2>6. /\ Rest(j) \in Job /\ Rest(j).todo = d /\ Rest(j).retry = j.retry
        /\ Rest(j).pc = j.pc /\ Rest(j).query = j.query /\ Rest(j).dry = j.dry
        /\ Rest(j).page = j.page /\ Rest(j).payload = j.payload
        /\ Rest(j).pending = j.pending /\ Rest(j).kept = j.kept /\ Rest(j).lost = j.lost
        /\ Rest(j).cut = j.cut /\ Rest(j).shifted = j.shifted
    BY <2>1, <2>3 DEF Job
  <2>7. AllowedKeys(j.todo) = KeysOf(Batch(j)) \union AllowedKeys(d)
    BY <2>1, <2>4, <2>5 DEF AllowedKeys
  <2> QED
    BY <2>4, <2>6, <2>7
<1>3. CASE j.todo = <<>>
  <2>1. j.retry # <<>>
    BY <1>3 DEF More
  <2>2. Batch(j) = <<Head(j.retry)>>
    BY <1>3 DEF Batch
  <2> DEFINE t == Tail(j.retry)
             n == j.retries + 1
  <2>3. Rest(j) = [j EXCEPT !.retry = t, !.retries = n]
    BY <1>3 DEF Rest
  <2>4. /\ Batch(j) \in Seq(Entry) /\ t \in Seq(Entry) /\ n \in Nat
        /\ KeysOf(j.retry) = KeysOf(Batch(j)) \union KeysOf(t)
    BY <1>1, <2>1, <2>2, KeysPop
  <2> HIDE DEF t, n
  <2>5. /\ Rest(j) \in Job /\ Rest(j).todo = j.todo /\ Rest(j).retry = t
        /\ Rest(j).pc = j.pc /\ Rest(j).query = j.query /\ Rest(j).dry = j.dry
        /\ Rest(j).page = j.page /\ Rest(j).payload = j.payload
        /\ Rest(j).pending = j.pending /\ Rest(j).kept = j.kept /\ Rest(j).lost = j.lost
        /\ Rest(j).cut = j.cut /\ Rest(j).shifted = j.shifted
    BY <2>3, <2>4 DEF Job
  <2> QED
    BY <2>4, <2>5
<1> QED
  BY <1>2, <1>3

LEMMA HeldJoin ==
    ASSUME NEW s \in Seq(Object), NEW t \in Seq(Object), NEW d, NEW L, NEW P,
           Held(s, d, L, P), Held(t, d, L, P)
    PROVE  Held(s \o t, d, L, P)
<1> SUFFICES ASSUME NEW i \in DOMAIN (s \o t)
             PROVE  IF (s \o t)[i].live THEN (s \o t)[i].key \in P ELSE d \/ (s \o t)[i].key \in L
  BY DEF Held
<1>1. \/ i \in DOMAIN s /\ (s \o t)[i] = s[i]
      \/ i - Len(s) \in DOMAIN t /\ (s \o t)[i] = t[i - Len(s)]
  OBVIOUS
<1>2. CASE i \in DOMAIN s /\ (s \o t)[i] = s[i]
  BY <1>2 DEF Held
<1>3. CASE i - Len(s) \in DOMAIN t /\ (s \o t)[i] = t[i - Len(s)]
  BY <1>3 DEF Held
<1> QED
  BY <1>1, <1>2, <1>3

LEMMA ObjectsHeld ==
    ASSUME NEW s \in Seq(Entry), NEW live \in BOOLEAN, NEW d, NEW L, NEW P,
           IF live THEN KeysOf(s) \subseteq P ELSE d \/ KeysOf(s) \subseteq L
    PROVE  Held(Objects(s, live), d, L, P)
<1>1. \A i \in DOMAIN Objects(s, live) : /\ Objects(s, live)[i].live = live
                                         /\ Objects(s, live)[i].key \in KeysOf(s)
  BY KeysOfObjects
<1> HIDE DEF Objects
<1> QED
  BY <1>1 DEF Held

LEMMA NewJobs ==
    ASSUME NEW q \in Query, NEW dry \in BOOLEAN
    PROVE  /\ NewJob(q, dry) \in Job /\ NewJob(q, dry).pc = "fetch" /\ NewJob(q, dry).page = 1
           /\ NewJob(q, dry).payload = <<>> /\ Blank(NewJob(q, dry))
  BY DEF NewJob, Job, Stage, Blank

LEMMA EndsGood ==
    ASSUME NEW j \in Job, NEW pc \in {"done", "failed"}, NEW P, NEW L
    PROVE  Good(Ended(j, pc), P, L)
<1> DEFINE n == NewJob(j.query, j.dry)
           e == Ended(j, pc)
<1>1. j.query \in Query /\ j.dry \in BOOLEAN
  BY DEF Job
<1>2. n \in Job /\ n.kept = <<>>
  BY <1>1, NewJobs DEF Blank
<1>3. e = [n EXCEPT !.pc = pc]
  BY DEF Ended
<1> HIDE DEF n, e
<1>4. e \in Job /\ e.pc \in {"done", "failed"} /\ e.kept = <<>>
  BY <1>2, <1>3 DEF Job, Stage
<1>5. InStage(e) /\ Backed(e, P) /\ Complete(e, L)
  BY <1>4 DEF InStage, Backed, Held, Complete
<1> QED
  BY <1>4, <1>5 DEF Good, e

-----------------------------------------------------------------------------
(* Reading Discovery.                                                      *)

LEMMA Places ==
    ASSUME NEW S \in SUBSET Key, NEW k \in S
    PROVE  PlaceIn(S, k) \in Nat \ {0} /\ PlaceIn(S, k) <= Cardinality(S) /\ Cardinality(S) \in Nat
<1> DEFINE T == {j \in S : j <= k}
<1>1. IsFiniteSet(S) /\ T \in SUBSET S /\ k \in T
  <2>1. IsFiniteSet(Key) /\ k \in Nat
    BY KeyAssumption
  <2>2. IsFiniteSet(S)
    BY <2>1, FS_Subset
  <2> QED
    BY <2>1, <2>2
<1>2. IsFiniteSet(T) /\ Cardinality(T) <= Cardinality(S)
  BY <1>1, FS_Subset
<1>3. Cardinality(T) \in Nat /\ Cardinality(S) \in Nat /\ Cardinality(T) # 0
  BY <1>1, <1>2, FS_CardinalityType, FS_EmptySet
<1> QED
  BY <1>2, <1>3 DEF PlaceIn

LEMMA EntriesOfKeys ==
    ASSUME version \in [Key -> 1..MaxVersion], NEW S \in SUBSET Key
    PROVE  /\ EntriesOf(Ascending(S)) \in Seq(Entry)
           /\ KeysOf(EntriesOf(Ascending(S))) = S
<1> DEFINE a == Ascending(S)
           n == Cardinality(S)
<1>0. Key \subseteq Nat /\ IsFiniteSet(Key)
  BY KeyAssumption
<1>1. S \in SUBSET Int /\ IsFiniteSet(S)
  <2>1. IsFiniteSet(S)
    BY <1>0, FS_Subset
  <2> QED
    BY <1>0, <2>1
<1>2. n \in Nat /\ Len(a) = n /\ a \in [1..n -> S] /\ \A k \in S : \E i \in 1..n : a[i] = k
  BY <1>1, AscendingLists, FS_CardinalityType
<1> HIDE DEF a, n
<1>3. EntriesOf(a) = [i \in 1..n |-> [key |-> a[i], version |-> version[a[i]]]]
  BY <1>2 DEF EntriesOf
<1>4. \A i \in 1..n : [key |-> a[i], version |-> version[a[i]]] \in Entry
  BY <1>2 DEF Entry
<1>5. EntriesOf(a) \in Seq(Entry) /\ DOMAIN EntriesOf(a) = 1..n
  BY <1>2, <1>3, <1>4
<1>6. \A i \in 1..n : EntriesOf(a)[i].key = a[i]
  BY <1>3
<1>7. KeysOf(EntriesOf(a)) = {a[i] : i \in 1..n}
  BY <1>5, <1>6 DEF KeysOf
<1>8. {a[i] : i \in 1..n} = S
  BY <1>2
<1> QED
  BY <1>5, <1>7, <1>8 DEF a

LEMMA PagesRead ==
    ASSUME version \in [Key -> 1..MaxVersion], NEW S \in SUBSET Key, NEW n \in Nat
    PROVE  Page(S, n) \in Seq(Entry) /\ KeysOf(Page(S, n)) = PageOf(S, n)
<1>1. PageOf(S, n) \in SUBSET Key
  BY DEF PageOf
<1> QED
  BY <1>1, EntriesOfKeys DEF Page

\* What the steps of an update start from.
Here(u) == /\ u \in Update /\ TypeOK
           /\ Good(job[u], Present, listed)

\* ... and what they lead to.
There(u) == Good(job'[u], Present', listed')

LEMMA StartGood == ASSUME NEW u, Here(u), Start(u) PROVE There(u)
<1> DEFINE j == job[u]
           k == [j EXCEPT !.pc = "fetch"]
<1>1. j \in Job /\ j.pc = "idle" /\ InStage(j) /\ Backed(j, Present)
  BY DEF Here, Good, Start
<1>2. job'[u] = k /\ Present' = Present /\ listed' = listed
  BY DEF Here, TypeOK, Start, Becomes, discovery, Present
<1>3. /\ k \in Job /\ k.pc = "fetch" /\ k.page = j.page /\ k.query = j.query /\ k.payload = j.payload
      /\ k.todo = j.todo /\ k.pending = j.pending /\ k.kept = j.kept /\ k.retry = j.retry /\ k.lost = j.lost
      /\ k.dry = j.dry
  BY <1>1 DEF Job, Stage
<1>4. listed[k.query] \in SUBSET Key
  BY <1>3 DEF Here, TypeOK, Job
<1>5. \A x \in listed[k.query] : PlaceIn(listed[k.query], x) \in Nat \ {0}
  BY <1>4, Places
<1>6. k.page = 1
  BY <1>1, <1>3 DEF InStage
<1> HIDE DEF j, k
<1>7. InStage(k)
  BY <1>1, <1>3 DEF InStage, Blank
<1>8. Backed(k, Present)
  BY <1>1, <1>3 DEF Backed
<1>9. (k.page - 1) * PageSize = 0
  BY <1>6, SizeAssumption
<1>10. Complete(k, listed)
  BY <1>3, <1>5, <1>9 DEF Complete
<1> QED
  BY <1>2, <1>3, <1>7, <1>8, <1>10 DEF There, Good

LEMMA FetchPageGood == ASSUME NEW u, Here(u), FetchPage(u) PROVE There(u)
<1> DEFINE j == job[u]
           S == listed[j.query]
           p == j.payload \o Page(S, j.page)
           n == IF HasNext(S, j.page) THEN j.page + 1 ELSE 1
           pc == IF HasNext(S, j.page) THEN "fetch" ELSE "force"
           k == [j EXCEPT !.payload = p, !.page = n, !.attempts = 1, !.pc = pc]
<1>1. j \in Job /\ j.pc = "fetch" /\ InStage(j) /\ Backed(j, Present) /\ Complete(j, listed)
  BY DEF Here, Good, FetchPage
<1>2. job'[u] = k /\ Present' = Present /\ listed' = listed
  BY DEF Here, TypeOK, FetchPage, Becomes, discovery, Present
<1>3. S \in SUBSET Key /\ version \in [Key -> 1..MaxVersion] /\ j.page \in Nat /\ j.payload \in Seq(Entry)
  BY <1>1 DEF Here, TypeOK, Job
<1>4. Page(S, j.page) \in Seq(Entry) /\ KeysOf(Page(S, j.page)) = PageOf(S, j.page)
  BY <1>3, PagesRead
<1>5. p \in Seq(Entry) /\ KeysOf(p) = KeysOf(j.payload) \union PageOf(S, j.page)
  BY <1>3, <1>4, KeysJoin
<1>6. n \in Nat /\ pc \in Stage
  BY <1>3 DEF Stage
<1> HIDE DEF p, n, pc
<1>7. /\ k \in Job /\ k.pc = pc /\ k.page = n /\ k.query = j.query /\ k.payload = p
      /\ k.todo = j.todo /\ k.pending = j.pending /\ k.kept = j.kept /\ k.retry = j.retry /\ k.lost = j.lost
      /\ k.dry = j.dry /\ k.cut = j.cut /\ k.shifted = j.shifted
  BY <1>1, <1>5, <1>6 DEF Job
<1> HIDE DEF k
<1>8. pc \in {"fetch", "force"}
  BY DEF pc
<1>9. InStage(k) /\ Backed(k, Present)
  BY <1>1, <1>7, <1>8 DEF InStage, Blank, Backed
<1>10. ASSUME ~j.cut, ~j.shifted, NEW x \in S, PlaceIn(S, x) <= j.page * PageSize
       PROVE  x \in KeysOf(p)
  <2>1. PlaceIn(S, x) \in Nat
    BY <1>3, Places
  <2>2. PageSize \in Nat /\ (j.page - 1) * PageSize \in Int /\ j.page * PageSize \in Nat
    BY <1>3, SizeAssumption
  <2>3. CASE PlaceIn(S, x) <= (j.page - 1) * PageSize
    BY <1>1, <1>5, <1>10, <2>3 DEF Complete
  <2>4. CASE (j.page - 1) * PageSize < PlaceIn(S, x)
    BY <1>5, <1>10, <2>4 DEF PageOf
  <2> QED
    BY <2>1, <2>2, <2>3, <2>4
<1>11. Complete(k, listed)
  <2>1. CASE HasNext(S, j.page)
    <3>1. pc = "fetch" /\ n = j.page + 1 /\ n - 1 = j.page
      BY <1>3, <2>1 DEF pc, n
    <3> QED
      BY <1>7, <1>10, <3>1 DEF Complete
  <2>2. CASE ~HasNext(S, j.page)
    <3>1. pc = "force"
      BY <2>2 DEF pc
    <3>2. \A x \in S : PlaceIn(S, x) <= j.page * PageSize
      <4> TAKE x \in S
      <4>1. PlaceIn(S, x) \in Nat /\ PlaceIn(S, x) <= Cardinality(S) /\ Cardinality(S) \in Nat
        BY <1>3, Places
      <4>2. j.page * PageSize \in Nat /\ ~(Cardinality(S) > j.page * PageSize)
        BY <1>3, <2>2, SizeAssumption DEF HasNext
      <4> QED
        BY <4>1, <4>2
    <3> QED
      BY <1>7, <1>10, <3>1, <3>2 DEF Complete
  <2> QED
    BY <2>1, <2>2
<1> QED
  BY <1>2, <1>7, <1>9, <1>11 DEF There, Good

LEMMA FetchAgainGood == ASSUME NEW u, Here(u), FetchAgain(u) PROVE There(u)
<1> DEFINE j == job[u]
           n == j.attempts + 1
           k == [j EXCEPT !.attempts = n]
<1>1. j \in Job /\ j.pc = "fetch" /\ InStage(j) /\ Backed(j, Present) /\ Complete(j, listed)
  BY DEF Here, Good, FetchAgain
<1>2. job'[u] = k /\ Present' = Present /\ listed' = listed
  BY DEF Here, TypeOK, FetchAgain, Becomes, discovery, Present
<1>3. n \in Nat
  BY <1>1 DEF Job
<1> HIDE DEF n
<1>4. /\ k \in Job /\ k.pc = "fetch" /\ k.page = j.page /\ k.query = j.query /\ k.payload = j.payload
      /\ k.todo = j.todo /\ k.pending = j.pending /\ k.kept = j.kept /\ k.retry = j.retry /\ k.lost = j.lost
      /\ k.dry = j.dry /\ k.cut = j.cut /\ k.shifted = j.shifted
  BY <1>1, <1>3 DEF Job
<1> HIDE DEF j, k
<1>5. InStage(k) /\ Backed(k, Present) /\ Complete(k, listed)
  BY <1>1, <1>4 DEF InStage, Blank, Backed, Complete
<1> QED
  BY <1>2, <1>4, <1>5 DEF There, Good

LEMMA FetchErrorPageGood == ASSUME NEW u, Here(u), FetchErrorPage(u) PROVE There(u)
<1> DEFINE j == job[u]
           k == [j EXCEPT !.pc = "force", !.page = 1, !.attempts = 1, !.cut = TRUE]
<1>1. j \in Job /\ j.pc = "fetch" /\ InStage(j) /\ Backed(j, Present)
  BY DEF Here, Good, FetchErrorPage
<1>2. job'[u] = k /\ Present' = Present /\ listed' = listed
  BY DEF Here, TypeOK, FetchErrorPage, Becomes, discovery, Present
<1>3. /\ k \in Job /\ k.pc = "force" /\ k.todo = j.todo /\ k.pending = j.pending /\ k.kept = j.kept
      /\ k.retry = j.retry /\ k.lost = j.lost /\ k.dry = j.dry /\ k.cut
  BY <1>1 DEF Job, Stage
<1> HIDE DEF j, k
<1>4. InStage(k) /\ Backed(k, Present) /\ Complete(k, listed)
  BY <1>1, <1>3 DEF InStage, Blank, Backed, Complete
<1> QED
  BY <1>2, <1>3, <1>4 DEF There, Good

LEMMA EndingGood ==
    ASSUME NEW u, Here(u), NEW pc \in {"done", "failed"}, Becomes(u, Ended(job[u], pc))
    PROVE  There(u)
<1>1. job'[u] = Ended(job[u], pc)
  BY DEF Here, TypeOK, Becomes
<1>2. job[u] \in Job
  BY DEF Here, Good
<1> QED
  BY <1>1, <1>2, EndsGood DEF There

LEMMA FetchForcedGood == ASSUME NEW u, Here(u), FetchForced(u) PROVE There(u)
<1> DEFINE j == job[u]
           p(got) == j.payload \o EntriesOf(Ascending(got))
           c(got) == j.cut \/ got # Forced[j.query]
           k(got) == [j EXCEPT !.payload = p(got), !.todo = p(got), !.pc = "update", !.cut = c(got)]
<1>1. /\ j \in Job /\ j.pc = "force" /\ InStage(j) /\ Backed(j, Present) /\ Complete(j, listed)
      /\ version \in [Key -> 1..MaxVersion]
  BY DEF Here, Good, FetchForced, TypeOK
<1>2. j.query \in Query /\ j.payload \in Seq(Entry) /\ j.cut \in BOOLEAN /\ Forced[j.query] \in SUBSET Key
  BY <1>1, ForcedAssumption DEF Job
<1>3. PICK got \in SUBSET Forced[j.query] :
         Becomes(u, IF p(got) = <<>> THEN Ended(j, "done") ELSE k(got))
  BY DEF FetchForced
<1>4. CASE p(got) = <<>>
  BY <1>3, <1>4, EndingGood
<1>5. CASE p(got) # <<>>
  <2> DEFINE q == p(got)
             d == c(got)
             n == [j EXCEPT !.payload = q, !.todo = q, !.pc = "update", !.cut = d]
  <2>1. job'[u] = n /\ Present' = Present /\ listed' = listed
    BY <1>3, <1>5 DEF Here, TypeOK, FetchForced, Becomes, discovery, Present
  <2>2. q \in Seq(Entry) /\ KeysOf(q) = KeysOf(j.payload) \union got
    BY <1>1, <1>2, EntriesOfKeys, KeysJoin
  <2>3. d \in BOOLEAN /\ (~d => ~j.cut /\ got = Forced[j.query])
    OBVIOUS
  <2> HIDE DEF q, d
  <2>4. /\ n \in Job /\ n.pc = "update" /\ n.query = j.query /\ n.payload = q /\ n.todo = q
        /\ n.pending = j.pending /\ n.kept = j.kept /\ n.retry = j.retry /\ n.lost = j.lost
        /\ n.dry = j.dry /\ n.cut = d /\ n.shifted = j.shifted
    BY <1>1, <2>2, <2>3 DEF Job, Stage
  <2> HIDE DEF n
  <2>5. Blank(j)
    BY <1>1 DEF InStage
  <2> HIDE DEF j
  <2>6. AccountedFor(n)
    <3>1. KeysOf(<<>>) = {}
      BY DEF KeysOf
    <3> QED
      BY <2>4, <2>5, <3>1 DEF AccountedFor, Blank
  <2>7. InStage(n) /\ Backed(n, Present)
    BY <1>1, <2>4, <2>5, <2>6 DEF InStage, Blank, Backed
  <2>8. Complete(n, listed)
    BY <1>1, <2>2, <2>3, <2>4 DEF Complete
  <2> QED
    BY <2>1, <2>4, <2>7, <2>8 DEF There, Good
<1> QED
  BY <1>4, <1>5

-----------------------------------------------------------------------------
(* create_content_metadata.                                                *)

LEMMA BatchDeadlocksGood == ASSUME NEW u, Here(u), BatchDeadlocks(u) PROVE There(u)
<1> DEFINE j == job[u]
           b == Batch(j)
           r == Rest(j)
           t == r.retry \o b
           k == [r EXCEPT !.retry = t]
<1>1. /\ j \in Job /\ j.pc = "update" /\ More(j)
      /\ InStage(j) /\ Backed(j, Present) /\ Complete(j, listed)
  BY DEF Here, Good, BatchDeadlocks
<1>2. job'[u] = k /\ Present' = Present /\ listed' = listed
  BY DEF Here, TypeOK, BatchDeadlocks, Becomes, discovery, Present
<1>3. /\ b \in Seq(Entry) /\ r \in Job
      /\ AllowedKeys(j.todo) \union KeysOf(j.retry) =
            KeysOf(b) \union AllowedKeys(r.todo) \union KeysOf(r.retry)
      /\ r.pc = j.pc /\ r.query = j.query /\ r.dry = j.dry /\ r.page = j.page /\ r.payload = j.payload
      /\ r.pending = j.pending /\ r.kept = j.kept /\ r.lost = j.lost
      /\ r.cut = j.cut /\ r.shifted = j.shifted
  BY <1>1, BatchTaken
<1> HIDE DEF j, b, r
<1>4. t \in Seq(Entry) /\ KeysOf(t) = KeysOf(r.retry) \union KeysOf(b)
  <2>1. r.retry \in Seq(Entry)
    BY <1>3 DEF Job
  <2> QED
    BY <1>3, <2>1, KeysJoin
<1> HIDE DEF t
<1>5. /\ k \in Job /\ k.pc = "update" /\ k.query = j.query /\ k.payload = j.payload /\ k.todo = r.todo
      /\ k.pending = j.pending /\ k.kept = j.kept /\ k.retry = t /\ k.lost = j.lost
      /\ k.dry = j.dry /\ k.cut = j.cut /\ k.shifted = j.shifted
  BY <1>1, <1>3, <1>4 DEF Job
<1> HIDE DEF k
<1>6. AccountedFor(k)
  BY <1>1, <1>3, <1>4, <1>5 DEF InStage, AccountedFor
<1>7. InStage(k) /\ Backed(k, Present) /\ Complete(k, listed)
  BY <1>1, <1>5, <1>6 DEF InStage, Backed, Complete
<1> QED
  BY <1>2, <1>5, <1>7 DEF There, Good

\* What a transaction writes: versions of content, over rows and in place of none.
LEMMA Grows ==
    ASSUME row \in [Key -> 0..MaxVersion], NEW s \in Seq(Entry), row' = row \/ row' = Write(s)
    PROVE  /\ row' \in [Key -> 0..MaxVersion] /\ Present \subseteq Present'
           /\ row' = Write(s) => KeysOf(s) \subseteq Present'
<1>1. CASE row' = row
  <2>1. row' = Write(s) => KeysOf(s) \subseteq Present
    BY <1>1, Writes, KeysInKey DEF Present
  <2> QED
    BY <1>1, <2>1 DEF Present
<1>2. CASE row' = Write(s)
  BY <1>2, Writes, KeysInKey DEF Present
<1> QED
  BY <1>1, <1>2

\* The entries of a batch by what is to be done with them.
LEMMA Sorted ==
    ASSUME NEW b \in Seq(Entry)
    PROVE  /\ Where(b, Updated) \in Seq(Entry) /\ Where(b, Skipped) \in Seq(Entry)
           /\ Where(b, Absent) \in Seq(Entry)
           /\ KeysOf(b) = KeysOf(Where(b, Updated)) \union KeysOf(Where(b, Skipped))
                          \union KeysOf(Where(b, Absent))
           /\ KeysOf(Where(b, Updated)) \subseteq Present
           /\ KeysOf(Where(b, Skipped)) \subseteq Present
<1> DEFINE U == {i \in DOMAIN b : Updated(b[i])}
           S == {i \in DOMAIN b : Skipped(b[i])}
           A == {i \in DOMAIN b : Absent(b[i])}
<1>1. Where(b, Updated) = At(b, U) /\ Where(b, Skipped) = At(b, S) /\ Where(b, Absent) = At(b, A)
  BY DEF Where
<1>2. \A i \in DOMAIN b : b[i].key \in Key
  BY EntryFields
<1>3. DOMAIN b = U \union S \union A
  BY DEF Updated, Skipped, Absent
<1>4. \A i \in U \union S : b[i].key \in Present
  BY <1>2 DEF Updated, Skipped, Exists, Present
<1> HIDE DEF U, S, A
<1>5. /\ At(b, U) \in Seq(Entry) /\ KeysOf(At(b, U)) = {b[i].key : i \in U}
      /\ At(b, S) \in Seq(Entry) /\ KeysOf(At(b, S)) = {b[i].key : i \in S}
      /\ At(b, A) \in Seq(Entry) /\ KeysOf(At(b, A)) = {b[i].key : i \in A}
  BY <1>3, KeysAt
<1>6. KeysOf(b) = {b[i].key : i \in U} \union {b[i].key : i \in S} \union {b[i].key : i \in A}
  BY <1>3 DEF KeysOf
<1> QED
  BY <1>1, <1>4, <1>5, <1>6

LEMMA UpdateBatchGood == ASSUME NEW u, Here(u), UpdateBatch(u) PROVE There(u)
<1> DEFINE j == job[u]
           b == Batch(j)
           r == Rest(j)
           updated == Where(b, Updated)
           skipped == Where(b, Skipped)
           absent == Where(b, Absent)
           o == Objects(updated, TRUE)
           q == Objects(skipped, TRUE)
           m == r.kept \o o
           kept == m \o q
           pc == IF absent = <<>> THEN "update" ELSE "create"
           k == [r EXCEPT !.kept = kept, !.pending = absent, !.pc = pc]
<1>1. /\ j \in Job /\ j.pc = "update" /\ More(j)
      /\ InStage(j) /\ Backed(j, Present) /\ Complete(j, listed)
  BY DEF Here, Good, UpdateBatch
<1>2. job'[u] = k /\ listed' = listed /\ (row' = row \/ row' = Write(updated))
  BY DEF Here, TypeOK, UpdateBatch, Becomes, discovery
<1>3. /\ b \in Seq(Entry) /\ r \in Job
      /\ AllowedKeys(j.todo) \union KeysOf(j.retry) =
            KeysOf(b) \union AllowedKeys(r.todo) \union KeysOf(r.retry)
      /\ r.pc = j.pc /\ r.query = j.query /\ r.dry = j.dry /\ r.page = j.page /\ r.payload = j.payload
      /\ r.pending = j.pending /\ r.kept = j.kept /\ r.lost = j.lost
      /\ r.cut = j.cut /\ r.shifted = j.shifted
  BY <1>1, BatchTaken
<1> HIDE DEF j, b, r
<1>4. /\ updated \in Seq(Entry) /\ skipped \in Seq(Entry) /\ absent \in Seq(Entry)
      /\ KeysOf(b) = KeysOf(updated) \union KeysOf(skipped) \union KeysOf(absent)
      /\ KeysOf(updated) \subseteq Present /\ KeysOf(skipped) \subseteq Present
  BY <1>3, Sorted
<1>5. Present \subseteq Present'
  BY <1>2, <1>4, Grows DEF Here, TypeOK
<1> HIDE DEF updated, skipped, absent
<1>6. /\ o \in Seq(Object) /\ q \in Seq(Object)
      /\ KeysOf(o) = KeysOf(updated)
      /\ KeysOf(q) = KeysOf(skipped)
  BY <1>4, KeysOfObjects
<1>held. Held(o, j.dry, j.lost, Present) /\ Held(q, j.dry, j.lost, Present)
  BY <1>4, ObjectsHeld
<1> HIDE DEF o, q
<1>7. /\ kept \in Seq(Object)
      /\ KeysOf(kept) = KeysOf(j.kept) \union KeysOf(updated) \union KeysOf(skipped)
  <2>1. r.kept \in Seq(Object)
    BY <1>3 DEF Job
  <2>2. /\ m \in Seq(Object)
        /\ KeysOf(m) = KeysOf(j.kept) \union KeysOf(updated)
    BY <1>3, <1>6, <2>1, KeysJoin
  <2> HIDE DEF m
  <2> QED
    BY <1>6, <2>2, KeysJoin
<1>8. Held(kept, j.dry, j.lost, Present)
  <2>2. r.kept \in Seq(Object) /\ Held(r.kept, j.dry, j.lost, Present)
    BY <1>1, <1>3 DEF Job, Backed
  <2>3. /\ r.kept \o o \in Seq(Object)
        /\ Held(r.kept \o o, j.dry, j.lost, Present)
    BY <1>6, <1>held, <2>2, HeldJoin, KeysJoin
  <2> QED
    BY <1>6, <1>held, <2>3, HeldJoin
<1>9. pc \in {"update", "create"} /\ (pc = "update" => absent = <<>>)
  OBVIOUS
<1> HIDE DEF kept, pc
<1>10. /\ k \in Job /\ k.pc = pc /\ k.query = j.query /\ k.payload = j.payload /\ k.todo = r.todo
       /\ k.pending = absent /\ k.kept = kept /\ k.retry = r.retry /\ k.lost = j.lost
       /\ k.dry = j.dry /\ k.cut = j.cut /\ k.shifted = j.shifted
  BY <1>3, <1>4, <1>7, <1>9 DEF Job, Stage
<1> HIDE DEF k
<1>11. AccountedFor(k)
  <2>1. KeysOf(<<>>) = {}
    BY DEF KeysOf
  <2> QED
    BY <1>1, <1>3, <1>4, <1>7, <1>10, <2>1 DEF InStage, AccountedFor
<1>12. InStage(k) /\ Backed(k, Present) /\ Complete(k, listed)
  BY <1>1, <1>8, <1>9, <1>10, <1>11 DEF InStage, Backed, Complete
<1>13. Good(k, Present, listed)
  BY <1>10, <1>12 DEF Good
<1> QED
  BY <1>2, <1>5, <1>13, StaysGood DEF There

LEMMA CreateGood == ASSUME NEW u, Here(u), Create(u) PROVE There(u)
<1> DEFINE j == job[u]
           p == j.pending
           d == ~j.dry
           none == <<>>
           kept == j.kept \o Objects(p, d)
           k == [j EXCEPT !.kept = kept, !.pending = none, !.pc = "update"]
<1>1. j \in Job /\ j.pc = "create" /\ InStage(j) /\ Backed(j, Present) /\ Complete(j, listed)
  BY DEF Here, Good, Create
<1>2. /\ job'[u] = k /\ listed' = listed
      /\ IF j.dry THEN row' = row ELSE row' = Write(p)
  BY DEF Here, TypeOK, Create, Becomes, discovery
<1>3. /\ p \in Seq(Entry) /\ j.kept \in Seq(Object) /\ d \in BOOLEAN
  BY <1>1 DEF Job
<1>4. Present \subseteq Present' /\ (~j.dry => KeysOf(p) \subseteq Present')
  BY <1>2, <1>3, Grows DEF Here, TypeOK
<1>5. Objects(p, d) \in Seq(Object) /\ KeysOf(Objects(p, d)) = KeysOf(p)
  BY <1>3, KeysOfObjects
<1>none. none \in Seq(Entry) /\ KeysOf(none) = {}
  BY DEF KeysOf
<1>6. kept \in Seq(Object) /\ KeysOf(kept) = KeysOf(j.kept) \union KeysOf(p)
  BY <1>3, <1>5, KeysJoin
<1>7. Held(kept, j.dry, j.lost, Present')
  <2>1. Held(Objects(p, d), j.dry, j.lost, Present')
    BY <1>3, <1>4, ObjectsHeld
  <2>2. Held(j.kept, j.dry, j.lost, Present')
    BY <1>1, <1>4 DEF Backed, Held
  <2> QED
    BY <1>3, <1>5, <2>1, <2>2, HeldJoin
<1> HIDE DEF kept, none
<1>8. /\ k \in Job /\ k.pc = "update" /\ k.query = j.query /\ k.payload = j.payload /\ k.todo = j.todo
      /\ k.pending = none /\ k.kept = kept /\ k.retry = j.retry /\ k.lost = j.lost
      /\ k.dry = j.dry /\ k.cut = j.cut /\ k.shifted = j.shifted
  BY <1>1, <1>6, <1>none DEF Job, Stage
<1> HIDE DEF j, k
<1>9. AccountedFor(k)
  BY <1>1, <1>6, <1>8, <1>none DEF InStage, AccountedFor
<1>10. InStage(k) /\ Complete(k, listed)
  BY <1>1, <1>8, <1>9 DEF InStage, Complete, none
<1>11. Backed(k, Present')
  BY <1>7, <1>8 DEF Backed
<1> QED
  BY <1>2, <1>8, <1>10, <1>11 DEF There, Good

LEMMA CreateClashesGood == ASSUME NEW u, Here(u), CreateClashes(u) PROVE There(u)
<1> DEFINE j == job[u]
           p == j.pending
           none == <<>>
           o(i) == Objects(Take(p, i - 1), FALSE)
           lost == j.lost \union KeysOf(p)
<1>1. j \in Job /\ j.pc = "create" /\ InStage(j) /\ Backed(j, Present) /\ Complete(j, listed)
  BY DEF Here, Good, CreateClashes
<1>2. p \in Seq(Entry) /\ j.kept \in Seq(Object) /\ j.lost \in SUBSET Key
  BY <1>1 DEF Job
<1>3. PICK i \in DOMAIN p :
         Becomes(u, [j EXCEPT !.kept = j.kept \o o(i), !.lost = lost, !.pending = none, !.pc = "update"])
  BY DEF CreateClashes
<1> DEFINE t == Take(p, i - 1)
           kept == j.kept \o Objects(t, FALSE)
           k == [j EXCEPT !.kept = kept, !.lost = lost, !.pending = none, !.pc = "update"]
<1>4. job'[u] = k /\ Present' = Present /\ listed' = listed
  BY <1>3 DEF Here, TypeOK, CreateClashes, Becomes, discovery, Present
<1>5. t \in Seq(Entry) /\ KeysOf(t) \subseteq KeysOf(p) /\ KeysOf(p) \subseteq Key
  <2>1. i - 1 \in Nat
    BY <1>2
  <2>2. t \in Seq(Entry) /\ KeysOf(t) \subseteq KeysOf(p) /\ KeysOf(p) \subseteq Key
    <3>1. t \in Seq(Entry) /\ KeysOf(p) = KeysOf(t) \union KeysOf(Drop(p, i - 1))
      BY <1>2, <2>1, KeysSplit
    <3>2. KeysOf(p) \subseteq Key
      BY <1>2, KeysInKey
    <3> QED
      BY <3>1, <3>2
  <2> QED
    BY <2>2
<1>none. none \in Seq(Entry) /\ KeysOf(none) = {}
  BY DEF KeysOf
<1> DEFINE q == Objects(t, FALSE)
<1> HIDE DEF t, none
<1>6. q \in Seq(Object) /\ KeysOf(q) = KeysOf(t)
  BY <1>5, KeysOfObjects
<1>held. Held(q, j.dry, lost, Present)
  BY <1>5, ObjectsHeld
<1>kept. kept = j.kept \o q
  OBVIOUS
<1> HIDE DEF q, kept
<1>7. kept \in Seq(Object) /\ KeysOf(kept) = KeysOf(j.kept) \union KeysOf(t)
  BY <1>2, <1>6, <1>kept, KeysJoin
<1>8. Held(kept, j.dry, lost, Present)
  <2>2. Held(j.kept, j.dry, lost, Present)
    BY <1>1 DEF Backed, Held
  <2> QED
    BY <1>2, <1>6, <1>held, <1>kept, <2>2, HeldJoin
<1>9. lost \in SUBSET Key
  BY <1>2, <1>5
<1> HIDE DEF lost
<1>10. /\ k \in Job /\ k.pc = "update" /\ k.query = j.query /\ k.payload = j.payload /\ k.todo = j.todo
       /\ k.pending = none /\ k.kept = kept /\ k.retry = j.retry /\ k.lost = lost
       /\ k.dry = j.dry /\ k.cut = j.cut /\ k.shifted = j.shifted
  BY <1>1, <1>7, <1>9, <1>none DEF Job, Stage
<1>11. lost = j.lost \union KeysOf(j.pending)
  BY DEF lost
<1>12. KeysOf(t) \subseteq KeysOf(j.pending)
  BY <1>5
<1> HIDE DEF j, k
<1>13. AccountedFor(k)
  BY <1>1, <1>7, <1>10, <1>11, <1>12, <1>none DEF InStage, AccountedFor
<1>14. InStage(k) /\ Backed(k, Present) /\ Complete(k, listed)
  BY <1>1, <1>8, <1>10, <1>13 DEF InStage, Backed, Complete, none
<1> QED
  BY <1>4, <1>10, <1>14 DEF There, Good

LEMMA AssociateGood == ASSUME NEW u, Here(u), Associate(u) PROVE There(u)
  BY EndingGood DEF Associate

LEMMA RunGood == ASSUME NEW u, Here(u), Run(u) PROVE There(u)
<1>1. CASE FetchRaises(u) \/ CreateRaises(u)
  BY <1>1, EndingGood DEF FetchRaises, CreateRaises
<1> QED
  BY <1>1, StartGood, FetchPageGood, FetchAgainGood, FetchErrorPageGood, FetchForcedGood,
     UpdateBatchGood, BatchDeadlocksGood, CreateGood, CreateClashesGood, AssociateGood DEF Run

\* No step of an update takes a row away.
LEMMA RunGrows ==
    ASSUME NEW u, Here(u), Run(u)
    PROVE  row' \in [Key -> 0..MaxVersion] /\ Present \subseteq Present'
<1>1. job[u] \in Job /\ row \in [Key -> 0..MaxVersion]
  BY DEF Here, Good, TypeOK
<1>2. CASE row' = row
  BY <1>1, <1>2 DEF Present
<1>3. CASE UpdateBatch(u)
  <2> DEFINE s == Where(Batch(job[u]), Updated)
  <2>1. row' = row \/ row' = Write(s)
    BY <1>3 DEF UpdateBatch
  <2>2. Batch(job[u]) \in Seq(Entry)
    BY <1>1, <1>3, BatchTaken DEF UpdateBatch
  <2>3. s \in Seq(Entry)
    BY <2>2, Sorted
  <2> HIDE DEF s
  <2> QED
    BY <1>1, <2>1, <2>3, Grows
<1>4. CASE Create(u)
  <2>1. row' = row \/ row' = Write(job[u].pending)
    BY <1>4 DEF Create
  <2>2. job[u].pending \in Seq(Entry)
    BY <1>1 DEF Job
  <2> QED
    BY <1>1, <2>1, <2>2, Grows
<1>5. CASE ~(UpdateBatch(u) \/ Create(u))
  <2>1. row' = row
    BY <1>5 DEF Run, Start, FetchPage, FetchAgain, FetchRaises, FetchErrorPage, FetchForced,
                BatchDeadlocks, CreateClashes, CreateRaises, Associate
  <2> QED
    BY <1>2, <2>1
<1> QED
  BY <1>3, <1>4, <1>5

\* A membership is what an association leaves, and nothing else changes one.
Associates(u, q) ==
    /\ Associate(u) /\ job[u].query = q /\ ~job[u].dry /\ ~Blocked(job[u])
    /\ member'[q] = Live(job[u].kept)

LEMMA RunMembers ==
    ASSUME NEW u, Here(u), Run(u)
    PROVE  /\ member' = [q \in Query |-> member'[q]]
           /\ \A q \in Query : member'[q] = member[q] \/ Associates(u, q)
<1>1. CASE Associate(u)
  <2>1. job[u].query \in Query /\ member \in [Query -> SUBSET Key]
    BY DEF Here, Good, TypeOK, Job
  <2>2. CASE job[u].dry \/ Blocked(job[u])
    BY <1>1, <2>1, <2>2 DEF Associate
  <2>3. CASE ~(job[u].dry \/ Blocked(job[u]))
    <3>1. member' = [member EXCEPT ![job[u].query] = Live(job[u].kept)]
      BY <1>1, <2>3 DEF Associate
    <3> QED
      BY <1>1, <2>1, <2>3, <3>1 DEF Associates
  <2> QED
    BY <2>2, <2>3
<1>2. CASE ~Associate(u)
  <2>1. member' = member
    BY <1>2 DEF Run, Start, FetchPage, FetchAgain, FetchRaises, FetchErrorPage, FetchForced,
                UpdateBatch, BatchDeadlocks, Create, CreateClashes, CreateRaises
  <2> QED
    BY <2>1 DEF Here, TypeOK
<1> QED
  BY <1>1, <1>2

LEMMA LiveBacked ==
    ASSUME NEW j \in Job, NEW P, Backed(j, P)
    PROVE  Live(j.kept) \subseteq P \intersect Key
<1>1. j.kept \in Seq(Object)
  BY DEF Job
<1>2. \A i \in DOMAIN j.kept : j.kept[i] \in Object
  BY <1>1
<1>3. \A o \in Object : o.key \in Key
  BY DEF Object
<1> QED
  BY <1>2, <1>3 DEF Backed, Held, Live

-----------------------------------------------------------------------------
(* The inductive invariant.                                                *)

IInv == TypeOK /\ MembersExist /\ \A u \in Update : Good(job[u], Present, listed)

LEMMA InitIInv == Init => IInv
<1> SUFFICES ASSUME Init PROVE IInv
  OBVIOUS
<1> DEFINE S == {Idle(q, dry) : q \in Query, dry \in BOOLEAN}
<1>1. ASSUME NEW q \in Query, NEW dry \in BOOLEAN
      PROVE  Good(Idle(q, dry), Present, listed)
  <2> DEFINE n == NewJob(q, dry)
             i == Idle(q, dry)
  <2>1. n \in Job /\ n.page = 1 /\ n.payload = <<>> /\ Blank(n)
    BY NewJobs
  <2>2. i = [n EXCEPT !.pc = "idle"]
    BY DEF Idle
  <2> HIDE DEF n, i
  <2>3. i \in Job /\ i.pc = "idle" /\ i.page = 1 /\ i.payload = <<>> /\ Blank(i) /\ i.kept = <<>>
    BY <2>1, <2>2 DEF Job, Stage, Blank
  <2>4. InStage(i) /\ Backed(i, Present) /\ Complete(i, listed)
    BY <2>3 DEF InStage, Backed, Held, Complete
  <2> QED
    BY <2>3, <2>4 DEF Good, i
<1>2. job \in [Update -> S]
  BY DEF Init
<1>3. \A u \in Update : Good(job[u], Present, listed)
  <2> SUFFICES ASSUME NEW u \in Update PROVE Good(job[u], Present, listed)
    OBVIOUS
  <2>1. PICK q \in Query, dry \in BOOLEAN : job[u] = Idle(q, dry)
    BY <1>2
  <2> QED
    BY <1>1, <2>1
<1> HIDE DEF S
<1>4. TypeOK
  <2>1. job \in [Update -> Job]
    BY <1>2, <1>3 DEF Good
  <2>2. /\ listed \in [Query -> SUBSET Key] /\ row \in [Key -> 0..MaxVersion]
        /\ member \in [Query -> SUBSET Key]
    BY InitialAssumption DEF Init
  <2>3. version \in [Key -> 1..MaxVersion] /\ fresh \in SUBSET Query /\ changes \in 0..MaxChanges
    BY SizeAssumption DEF Init
  <2> QED
    BY <2>1, <2>2, <2>3 DEF TypeOK
<1>5. MembersExist
  BY InitialAssumption DEF Init, MembersExist, Present
<1> QED
  BY <1>3, <1>4, <1>5 DEF IInv

LEMMA RunKeeps == ASSUME IInv, NEW u \in Update, Run(u) PROVE IInv'
<1>1. Here(u)
  BY DEF IInv, Here
<1>2. There(u) /\ row' \in [Key -> 0..MaxVersion] /\ Present \subseteq Present'
  BY <1>1, RunGood, RunGrows
<1>3. UNCHANGED <<discovery, fresh>>
  BY DEF Run, Start, FetchPage, FetchAgain, FetchRaises, FetchErrorPage, FetchForced,
         UpdateBatch, BatchDeadlocks, Create, CreateClashes, CreateRaises, Associate
<1>4. Jobs' /\ \A v \in Update \ {u} : job'[v] = job[v]
  <2>1. Jobs
    BY <1>1 DEF Here, TypeOK, Jobs
  <2> QED
    BY <2>1, UpdateJobs
<1>5. ASSUME NEW v \in Update
      PROVE  Good(job'[v], Present', listed')
  <2>1. CASE v = u
    BY <1>2, <2>1 DEF There
  <2>2. CASE v # u
    <3>1. job'[v] = job[v] /\ listed' = listed /\ Good(job[v], Present, listed)
      BY <1>3, <1>4, <2>2 DEF IInv, discovery
    <3>2. Good(job[v], Present', listed)
      BY <1>2, <3>1, StaysGood
    <3> QED
      BY <3>1, <3>2
  <2> QED
    BY <2>1, <2>2
<1>6. ASSUME NEW q \in Query
      PROVE  member'[q] \subseteq Present' \intersect Key
  <2>1. member'[q] = member[q] \/ Associates(u, q)
    BY <1>1, RunMembers
  <2>2. CASE member'[q] = member[q]
    BY <1>2, <2>2 DEF IInv, MembersExist, TypeOK
  <2>3. CASE Associates(u, q)
    <3>1. job[u] \in Job /\ Backed(job[u], Present)
      BY <1>1 DEF Here, Good
    <3>2. Live(job[u].kept) \subseteq Present \intersect Key
      BY <3>1, LiveBacked
    <3> QED
      BY <1>2, <2>3, <3>2 DEF Associates
  <2> QED
    BY <2>1, <2>2, <2>3
<1>7. job' \in [Update -> Job]
  BY <1>4, <1>5 DEF Good, Jobs
<1>8. member' \in [Query -> SUBSET Key]
  <2>1. member' = [q \in Query |-> member'[q]]
    BY <1>1, RunMembers
  <2> QED
    BY <1>6, <2>1
<1>9. TypeOK'
  BY <1>2, <1>3, <1>7, <1>8 DEF IInv, TypeOK, discovery
<1>10. MembersExist'
  BY <1>6 DEF MembersExist
<1> QED
  BY <1>5, <1>9, <1>10 DEF IInv

LEMMA WorldKeeps ==
    ASSUME IInv,
           \/ \E q \in Query : ChangeList(q)
           \/ \E k \in Key : EditContent(k)
           \/ Midnight
    PROVE  IInv'
<1>1. ASSUME NEW q \in Query, ChangeList(q)
      PROVE  IInv'
  <2> DEFINE on(u) == job[u].pc \notin {"idle", "done", "failed"} /\ job[u].query = q
  <2>1. UNCHANGED <<version, row, member, fresh>> /\ changes' = changes + 1 /\ changes < MaxChanges
    BY <1>1 DEF ChangeList
  <2>2. PICK x \in Key : listed' = [listed EXCEPT ![q] = IF x \in @ THEN @ \ {x} ELSE @ \union {x}]
    BY <1>1 DEF ChangeList
  <2>3. listed' \in [Query -> SUBSET Key] /\ \A p \in Query \ {q} : listed'[p] = listed[p]
    BY <2>2 DEF IInv, TypeOK
  <2>4. job' = [u \in Update |-> IF on(u) THEN [job[u] EXCEPT !.shifted = TRUE] ELSE job[u]]
    BY <1>1 DEF ChangeList, Shift
  <2>5. ASSUME NEW u \in Update
        PROVE  Good(job'[u], Present', listed')
    <3> DEFINE j == job[u]
               k == [j EXCEPT !.shifted = TRUE]
    <3>1. Good(j, Present, listed) /\ Present' = Present
      BY <2>1 DEF IInv, Present
    <3>2. CASE on(u)
      <4>1. job'[u] = k
        BY <2>4, <3>2
      <4>2. /\ k \in Job /\ k.pc = j.pc /\ k.query = j.query /\ k.payload = j.payload /\ k.todo = j.todo
            /\ k.pending = j.pending /\ k.kept = j.kept /\ k.retry = j.retry /\ k.lost = j.lost
            /\ k.dry = j.dry /\ k.cut = j.cut /\ k.shifted /\ k.page = j.page
        BY <3>1 DEF Good, Job
      <4> HIDE DEF j, k
      <4>3. InStage(k) /\ Backed(k, Present) /\ Complete(k, listed')
        BY <3>1, <4>2 DEF Good, InStage, Blank, AccountedFor, Backed, Complete
      <4> QED
        BY <3>1, <4>1, <4>2, <4>3 DEF Good
    <3>3. CASE ~on(u)
      <4>1. job'[u] = j
        BY <2>4, <3>3
      <4>2. j.pc \in {"idle", "done", "failed"} \/ listed'[j.query] = listed[j.query]
        BY <2>3, <3>1, <3>3 DEF Good, Job
      <4> HIDE DEF j
      <4>3. Complete(j, listed')
        BY <3>1, <4>2 DEF Good, Complete
      <4> QED
        BY <3>1, <4>1, <4>3 DEF Good
    <3> QED
      BY <3>2, <3>3
  <2>6. job' \in [Update -> Job]
    BY <2>4, <2>5 DEF Good
  <2>7. TypeOK' /\ MembersExist'
    BY <2>1, <2>3, <2>6, SizeAssumption DEF IInv, TypeOK, MembersExist, Present
  <2> QED
    BY <2>5, <2>7 DEF IInv
<1>2. ASSUME NEW k \in Key, EditContent(k)
      PROVE  IInv'
  <2>1. version' \in [Key -> 1..MaxVersion] /\ changes' \in 0..MaxChanges
    BY <1>2, SizeAssumption DEF EditContent, IInv, TypeOK
  <2>2. UNCHANGED <<listed, row, member, fresh, job>>
    BY <1>2 DEF EditContent
  <2> QED
    BY <2>1, <2>2 DEF IInv, TypeOK, MembersExist, Present
<1>3. CASE Midnight
  BY <1>3 DEF Midnight, discovery, IInv, TypeOK, MembersExist, Present
<1> QED
  BY <1>1, <1>2, <1>3

LEMMA NextIInv == IInv /\ [Next]_vars => IInv'
<1>1. ASSUME IInv, UNCHANGED vars
      PROVE  IInv'
  BY <1>1 DEF vars, IInv, TypeOK, MembersExist, Present
<1> QED
  BY <1>1, RunKeeps, WorldKeeps DEF Next

LEMMA Inductive == Spec => []IInv
  BY InitIInv, NextIInv, PTL DEF Spec

-----------------------------------------------------------------------------
(* What it shows.                                                          *)

\* Rows, jobs and memberships have their types at every moment of every mix of updates.
THEOREM TypesHold == Spec => []TypeOK
  BY Inductive, PTL DEF IInv

\* create_content_metadata, both passes of it: whatever batches hit a deadlock, clash or
\* are skipped, no allowed entry of a payload is forgotten.
THEOREM EntriesAccounted == Spec => []Accounted
<1>1. IInv => Accounted
  BY DEF IInv, Good, InStage, AccountedFor, Accounted
<1> QED
  BY <1>1, Inductive, PTL

\* associate_content_metadata_with_query: a query's members have rows, though metadata_list
\* also counts objects of creations that were rolled back.
THEOREM MembersHaveRows == Spec => []MembersExist
  BY Inductive, PTL DEF IInv

\* The step that changes the membership of a query.
LEMMA ChangedByAssociation ==
    ASSUME IInv, Next, NEW q \in Query, member'[q] # member[q]
    PROVE  \E u \in Update : Associates(u, q)
<1>1. PICK u \in Update : Run(u)
  BY WorldSpares DEF Next
<1>2. Here(u)
  BY DEF IInv, Here
<1> QED
  BY <1>1, <1>2, RunMembers

\* _check_content_association_threshold: only an update whose metadata_list counts objects
\* of a creation batch that was rolled back leaves a query without members.
THEOREM EmptiedOnRollback == Spec => EmptiedByRollbackOnly
<1>1. ASSUME IInv, Next, NEW q \in Query, member[q] # {}, member'[q] = {}
      PROVE  \E u \in Update : job[u].query = q /\ job[u].lost # {}
  <2>1. PICK u \in Update : Associates(u, q)
    BY <1>1, ChangedByAssociation
  <2> DEFINE j == job[u]
  <2>2. j \in Job /\ Backed(j, Present) /\ member[q] \in SUBSET Key
    BY <1>1 DEF IInv, Good, TypeOK
  <2>3. Live(j.kept) = {} /\ ~j.dry /\ ~Blocked(j) /\ j.query = q
    BY <1>1, <2>1 DEF Associates
  <2>4. Cardinality(member[q]) > 0
    <3>1. IsFiniteSet(member[q])
      BY <2>2, KeyAssumption, FS_Subset
    <3> QED
      BY <1>1, <3>1, FS_CardinalityType, FS_EmptySet
  <2>5. Len(j.kept) # 0 /\ j.kept \in Seq(Object)
    BY <2>2, <2>3, <2>4 DEF Blocked, Job
  <2>6. 1 \in DOMAIN j.kept
    BY <2>5
  <2>7. ~j.kept[1].live
    BY <2>3, <2>6 DEF Live
  <2>8. j.kept[1].key \in j.lost
    BY <2>2, <2>3, <2>6, <2>7 DEF Backed, Held
  <2> QED
    BY <2>3, <2>8
<1>2. IInv /\ [Next]_vars =>
         [\A q \in Query : member[q] # {} /\ member'[q] = {} =>
             \E u \in Update : job[u].query = q /\ job[u].lost # {}]_vars
  BY <1>1
<1> QED
  BY <1>2, Inductive, PTL DEF Spec, EmptiedByRollbackOnly

\* update_contentmetadata_from_discovery as a whole: paging, batching, skipping and retrying
\* drop no content that Discovery lists all along.
THEOREM DropsHaveReasons == Spec => DroppedForAReason
<1>1. ASSUME IInv, Next, NEW q \in Query, NEW k \in member[q] \ member'[q]
      PROVE  \E u \in Update :
                /\ job[u].query = q /\ job'[u].pc = "done"
                /\ \/ k \in Disallowed
                   \/ job[u].cut \/ job[u].shifted
                   \/ k \in job[u].lost \union KeysOf(job[u].retry)
                   \/ k \notin listed[q] \union Forced[q]
  <2>1. PICK u \in Update : Associates(u, q)
    BY <1>1, ChangedByAssociation
  <2> DEFINE j == job[u]
  <2>2. /\ j \in Job /\ InStage(j) /\ Backed(j, Present) /\ Complete(j, listed)
        /\ job \in [Update -> Job]
    BY <1>1 DEF IInv, Good, TypeOK
  <2>3. /\ Associate(u) /\ j.query = q /\ ~j.dry /\ k \notin Live(j.kept)
        /\ j.pc = "update" /\ ~More(j)
    BY <2>1 DEF Associates, Associate
  <2>4. job'[u].pc = "done"
    <3>1. job'[u] = [NewJob(j.query, j.dry) EXCEPT !.pc = "done"]
      BY <2>2, <2>3 DEF Associate, Becomes, Ended
    <3>2. NewJob(j.query, j.dry) \in Job
      BY <2>2, NewJobs DEF Job
    <3> HIDE DEF j
    <3> QED
      BY <3>1, <3>2 DEF Job
  <2>5. ASSUME k \notin Disallowed, ~j.cut, ~j.shifted, k \notin j.lost, k \notin KeysOf(j.retry),
               k \in listed[q] \union Forced[q]
        PROVE  FALSE
    <3> HIDE DEF j
    <3>1. k \in AllowedKeys(j.payload)
      BY <2>2, <2>3, <2>5 DEF Complete, AllowedKeys
    <3>2. j.todo = <<>> /\ j.pending = <<>> /\ AccountedFor(j)
      BY <2>2, <2>3 DEF More, InStage
    <3>3. KeysOf(<<>>) = {}
      BY DEF KeysOf
    <3>4. k \in KeysOf(j.kept)
      BY <2>5, <3>1, <3>2, <3>3 DEF AccountedFor, AllowedKeys
    <3>5. PICK i \in DOMAIN j.kept : j.kept[i].key = k
      BY <3>4, InKeysOf
    <3>6. ~j.kept[i].live
      BY <2>3, <3>5 DEF Live
    <3> QED
      BY <2>2, <2>3, <2>5, <3>5, <3>6 DEF Backed, Held
  <2> QED
    BY <2>3, <2>4, <2>5
<1>2. IInv /\ [Next]_vars =>
         [\A q \in Query : \A k \in member[q] \ member'[q] :
             \E u \in Update :
                /\ job[u].query = q /\ job'[u].pc = "done"
                /\ \/ k \in Disallowed
                   \/ job[u].cut \/ job[u].shifted
                   \/ k \in job[u].lost \union KeysOf(job[u].retry)
                   \/ k \notin listed[q] \union Forced[q]]_vars
  BY <1>1 DEF vars
<1> QED
  BY <1>2, Inductive, PTL DEF Spec, DroppedForAReason

\* update_catalog_metadata_task(dry_run=True): none of the update's batches, second passes,
\* creations and associations writes a row or a membership, whatever runs beside it.
THEOREM DryRunWrites == Spec => DryRunWritesNothing
<1>1. Init => Jobs
  <2> SUFFICES ASSUME Init PROVE Jobs
    OBVIOUS
  <2> DEFINE S == {Idle(q, dry) : q \in Query, dry \in BOOLEAN}
  <2>1. job \in [Update -> S]
    BY DEF Init
  <2> HIDE DEF S
  <2> QED
    BY <2>1 DEF Jobs
<1>2. Jobs /\ [Next]_vars =>
         [\A u \in Update : job'[u] # job[u] /\ job[u].dry /\ job[u].pc \in {"update", "create"} =>
             UNCHANGED <<row, member>>]_vars
  <2> SUFFICES ASSUME Jobs, Next, NEW u \in Update, job'[u] # job[u], job[u].dry
               PROVE  UNCHANGED <<row, member>>
    OBVIOUS
  <2>1. ASSUME NEW v \in Update, Run(v)
        PROVE  UNCHANGED <<row, member>>
    <3>1. v = u
      BY <2>1, UpdateJobs
    <3> QED
      BY <2>1, <3>1, DryStepSpares
  <2> QED
    BY <2>1, WorldSpares DEF Next
<1> QED
  BY <1>1, <1>2, JobsStay, PTL DEF Spec, DryRunWritesNothing
=============================================================================
