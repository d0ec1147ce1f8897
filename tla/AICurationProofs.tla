---------------------------- MODULE AICurationProofs ----------------------------
(***************************************************************************)
(* Two proofs about AICuration, for any index, any answers of the model,   *)
(* any number of deliveries and any entries that expire.                   *)
(*                                                                         *)
(* A request tweaks what the task whose result is stored left in the       *)
(* cache: while the status is SUCCESS no execution is under way, so there  *)
(* is one list of candidates behind the result, the cache entries that     *)
(* are left, and what a request has read of them unless an execution began *)
(* since.                                                                  *)
(*                                                                         *)
(* A higher threshold answers with no more hits, and never loses the best: *)
(* every list an execution or a request holds is in descending order of    *)
(* score, so the position a hit is given bounds the share of the list      *)
(* that ranks above it.                                                    *)
(***************************************************************************)
EXTENDS AICuration, OrderingProofs

K == {"ocm_courses", "exec_ed_courses", "programs"}

OverK(f) == f = [k \in K |-> f[k]]

Shapes ==
    /\ DOMAIN worker = {"pc", "run", "step", "tries", "hits", "found"} /\ OverK(worker.found)
    /\ worker = [x \in DOMAIN worker |-> worker[x]]
    /\ DOMAIN reader = {"pc", "step", "got", "overtaken"} /\ OverK(reader.got)
    /\ reader = [x \in DOMAIN reader |-> reader[x]]
    /\ DOMAIN task = {"status", "run", "result"} /\ task = [x \in DOMAIN task |-> task[x]]
    /\ OverK(cache)

\* Entry k is absent, or the one that run left of the candidates.
LeftBy(entry, run, candidates) == entry = None \/ entry = [run |-> run, list |-> candidates]

\* The execution has come to the last of its entries, or past it.
Cached ==
    /\ worker.pc = "cache" =>
          /\ worker.step \in 1..3
          /\ \A i \in 1..3 : i < worker.step =>
                LeftBy(cache[Lists[i]], worker.run, worker.found[Lists[i]])
    /\ worker.pc = "return" => \A k \in K : LeftBy(cache[k], worker.run, worker.found[k])

Reading == reader.pc # "idle" /\ ~ reader.overtaken

\* The candidates behind a stored result.
Behind(found) ==
    /\ OverK(found)
    /\ task.result = Tweaked(found, DefaultThreshold)
    /\ \A k \in K : /\ LeftBy(cache[k], task.run, found[k])
                    /\ Reading => LeftBy(reader.got[k], task.run, found[k])

Stored ==
    /\ task.status = "SUCCESS" => worker.pc = "idle" /\ \E found : Behind(found)
    /\ Reading => task.status = "SUCCESS"
    /\ reader.pc = "answered" => \A k \in K : Usable(reader.got[k])

IInv == Shapes /\ Cached /\ Stored

LEMMA ListKeys ==
    /\ ToSet(Lists) = K /\ Len(Lists) = 3
    /\ Lists[1] = "ocm_courses" /\ Lists[2] = "exec_ed_courses" /\ Lists[3] = "programs"
  BY DEF ToSet, Lists, K

LEMMA EntryFields ==
    ASSUME NEW e, NEW r, NEW l, e = [run |-> r, list |-> l]
    PROVE  e.run = r /\ e.list = l
  OBVIOUS

LEMMA InitInvariant == Init => IInv
<1> SUFFICES ASSUME Init PROVE IInv
  OBVIOUS
<1>1. Shapes
  BY ListKeys DEF Init, Shapes, OverK, Idle, Away, NoEntries
<1>2. Cached
  BY DEF Init, Cached, Idle
<1>3. Stored
  BY NoneAssumption DEF Init, Stored, Reading, Away
<1> QED
  BY <1>1, <1>2, <1>3 DEF IInv

\* Where nothing is cached, answered or begun the invariant is about shapes only.
LEMMA SearchInvariant ==
    ASSUME IInv, SearchPage
    PROVE  IInv'
<1>1. /\ worker.pc = "search" /\ UNCHANGED <<task, cache, reader>>
      /\ worker'.pc \in {"search", "ask"} /\ worker'.found = worker.found
      /\ DOMAIN worker' = DOMAIN worker /\ worker' = [x \in DOMAIN worker' |-> worker'[x]]
  BY DEF SearchPage, IInv, Shapes
<1>2. Shapes'
  BY <1>1 DEF IInv, Shapes, OverK
<1>3. Cached' /\ Stored'
  BY <1>1 DEF IInv, Cached, Stored, Behind, Reading, Usable
<1> QED
  BY <1>2, <1>3 DEF IInv

LEMMA AnswersShape ==
    ASSUME Shapes, NEW w \in Answers
    PROVE  /\ w.pc = worker.pc /\ w.run = worker.run /\ w.step = worker.step /\ OverK(w.found)
           /\ DOMAIN w = DOMAIN worker /\ w = [x \in DOMAIN w |-> w[x]]
<1>1. CASE Asks[worker.step] \in {"subjects", "keywords"}
  <2>1. PICK kept : w = [worker EXCEPT !.hits = Of(@, kept \union Program)]
    BY <1>1 DEF Answers
  <2> QED
    BY <2>1 DEF Shapes
<1>2. CASE Asks[worker.step] = "keywords again"
  BY <1>2, ZenonT(60) DEF Answers, Shapes
<1>3. CASE Asks[worker.step] \notin {"subjects", "keywords", "keywords again"}
  <2>1. PICK f : w = [worker EXCEPT !.hits = <<>>, !.found = [k \in ToSet(Lists) |-> f[k]]]
    <3> DEFINE Scored(kinds, score) ==
                  Ranked([i \in DOMAIN Of(worker.hits, kinds) |->
                            [key |-> Of(worker.hits, kinds)[i], score |-> score[Of(worker.hits, kinds)[i]]]])
               Found(score) == [k \in ToSet(Lists) |->
                  IF k = "programs" THEN Of(worker.hits, Program)
                  ELSE Scored(IF k = "ocm_courses" THEN Course \ ExecEd ELSE ExecEd, score)]
    <3>1. PICK score : w = [worker EXCEPT !.hits = <<>>, !.found = Found(score)]
      BY <1>3 DEF Answers
    <3>2. Found(score) = [k \in ToSet(Lists) |-> Found(score)[k]]
      OBVIOUS
    <3> HIDE DEF Found
    <3> QED
      BY <3>1, <3>2
  <2> QED
    BY <2>1, ListKeys DEF Shapes, OverK
<1> QED
  BY <1>1, <1>2, <1>3

LEMMA AskInvariant ==
    ASSUME IInv, Ask \/ AskAgain
    PROVE  IInv'
<1>1. /\ worker.pc = "ask" /\ UNCHANGED <<task, cache, reader>>
      /\ worker'.pc = "ask" \/ (worker'.pc = "cache" /\ worker'.step = 1)
      /\ OverK(worker'.found)
      /\ DOMAIN worker' = DOMAIN worker /\ worker' = [x \in DOMAIN worker' |-> worker'[x]]
  <2>1. CASE Ask
    <3>1. PICK w \in Answers :
             worker' = IF worker.step < Len(Asks) THEN [w EXCEPT !.step = @ + 1, !.tries = 0]
                       ELSE [w EXCEPT !.pc = "cache", !.step = 1, !.tries = 0]
      BY <2>1 DEF Ask
    <3>2. /\ w.pc = worker.pc /\ w.run = worker.run /\ w.step = worker.step /\ OverK(w.found)
          /\ DOMAIN w = DOMAIN worker /\ w = [x \in DOMAIN w |-> w[x]]
      BY AnswersShape DEF IInv
    <3>3. worker.pc = "ask" /\ UNCHANGED <<task, cache, reader>>
      BY <2>1 DEF Ask
    <3>4. CASE worker' = [w EXCEPT !.step = @ + 1, !.tries = 0]
      <4>1. DOMAIN w = {"pc", "run", "step", "tries", "hits", "found"}
        BY <3>2 DEF IInv, Shapes
      <4>2. DOMAIN worker' = DOMAIN w /\ worker' = [x \in DOMAIN worker' |-> worker'[x]]
        BY <3>4
      <4>3. worker'.found = w.found /\ worker'.pc = w.pc
        BY <3>4, <4>1
      <4> QED
        BY <3>2, <3>3, <4>2, <4>3
    <3>5. CASE worker' = [w EXCEPT !.pc = "cache", !.step = 1, !.tries = 0]
      <4>1. DOMAIN w = {"pc", "run", "step", "tries", "hits", "found"}
        BY <3>2 DEF IInv, Shapes
      <4>2. DOMAIN worker' = DOMAIN w /\ worker' = [x \in DOMAIN worker' |-> worker'[x]]
        BY <3>5
      <4>3. worker'.found = w.found /\ worker'.pc = "cache" /\ worker'.step = 1
        BY <3>5, <4>1
      <4> QED
        BY <3>2, <3>3, <4>2, <4>3
    <3> QED
      BY <3>1, <3>4, <3>5
  <2>2. CASE AskAgain
    BY <2>2 DEF AskAgain, IInv, Shapes
  <2> QED
    BY <2>1, <2>2
<1>2. Shapes'
  BY <1>1 DEF IInv, Shapes, OverK
<1>3. Cached'
  BY <1>1 DEF Cached
<1>4. Stored'
  BY <1>1 DEF IInv, Stored, Behind, Reading, Usable
<1> QED
  BY <1>2, <1>3, <1>4 DEF IInv

LEMMA PostInvariant ==
    ASSUME IInv, Post
    PROVE  IInv'
<1>1. /\ task.status = None /\ UNCHANGED <<worker, cache, reader>>
      /\ DOMAIN task' = DOMAIN task /\ task' = [x \in DOMAIN task' |-> task'[x]]
      /\ task'.status = "PENDING"
  BY DEF Post, IInv, Shapes
<1>2. Shapes'
  BY <1>1 DEF IInv, Shapes, OverK
<1>3. Cached'
  BY <1>1 DEF IInv, Cached
<1>4. ~ Reading
  BY <1>1, NoneAssumption DEF IInv, Stored
<1>5. Stored'
  BY <1>1, <1>4 DEF IInv, Stored, Reading, Usable
<1> QED
  BY <1>2, <1>3, <1>5 DEF IInv

LEMMA BeginInvariant ==
    ASSUME IInv, Begin
    PROVE  IInv'
<1>1. /\ task' = [task EXCEPT !.status = "STARTED"] /\ UNCHANGED cache
      /\ worker' = [Idle EXCEPT !.pc = "search", !.run = worker.run + 1]
      /\ reader' = IF reader.pc = "idle" THEN reader ELSE [reader EXCEPT !.overtaken = TRUE]
  BY DEF Begin
<1>2. Shapes'
  BY <1>1, ListKeys, ZenonT(60) DEF IInv, Shapes, OverK, Idle, NoEntries
<1>3. Cached'
  BY <1>1 DEF Cached, Idle
<1>4. ~ Reading' /\ task'.status # "SUCCESS" /\ reader'.pc = reader.pc /\ reader'.got = reader.got
  BY <1>1 DEF IInv, Shapes, Reading
<1>5. Stored'
  BY <1>4 DEF IInv, Stored, Usable
<1> QED
  BY <1>2, <1>3, <1>5 DEF IInv

LEMMA CacheInvariant ==
    ASSUME IInv, CacheEntry
    PROVE  IInv'
<1> DEFINE k == Lists[worker.step]
           e == [run |-> worker.run, list |-> worker.found[k]]
<1>1. /\ worker.pc = "cache" /\ UNCHANGED <<task, reader>>
      /\ cache' = [cache EXCEPT ![k] = e]
      /\ worker' = IF worker.step < 3 THEN [worker EXCEPT !.step = @ + 1]
                   ELSE [worker EXCEPT !.pc = "return"]
  BY ListKeys DEF CacheEntry
<1>2. worker.step \in 1..3 /\ k \in K
  BY <1>1, ListKeys DEF IInv, Cached, K
<1>3. Shapes'
  BY <1>1, <1>2 DEF IInv, Shapes, OverK
<1>4. \A x \in K : cache'[x] = IF x = k THEN e ELSE cache[x]
  BY <1>1, <1>2 DEF IInv, Shapes, OverK
<1>5. worker'.run = worker.run /\ worker'.found = worker.found
  BY <1>1 DEF IInv, Shapes
<1> HIDE DEF e
<1>6. \A i \in 1..3 : i <= worker.step => LeftBy(cache'[Lists[i]], worker.run, worker.found[Lists[i]])
  <2> TAKE i \in 1..3
  <2>1. Lists[i] \in K
    BY ListKeys DEF K
  <2>2. CASE i = worker.step
    BY <1>4, <2>1, <2>2 DEF LeftBy, e
  <2>3. CASE i < worker.step
    <3>1. LeftBy(cache[Lists[i]], worker.run, worker.found[Lists[i]])
      BY <1>1, <2>3 DEF IInv, Cached
    <3> QED
      BY <1>4, <2>1, <3>1 DEF LeftBy, e
  <2> QED
    BY <1>2, <2>2, <2>3
<1>7. Cached'
  <2>1. CASE worker.step < 3
    <3>1. worker'.pc = "cache" /\ worker'.step = worker.step + 1
      BY <1>1, <2>1 DEF IInv, Shapes
    <3> QED
      BY <1>2, <1>5, <1>6, <2>1, <3>1 DEF Cached
  <2>2. CASE worker.step = 3
    <3>1. worker'.pc = "return"
      BY <1>1, <2>2 DEF IInv, Shapes
    <3>2. \A x \in K : \E i \in 1..3 : Lists[i] = x
      BY ListKeys DEF K
    <3> QED
      BY <1>5, <1>6, <2>2, <3>1, <3>2 DEF Cached
  <2> QED
    BY <1>2, <2>1, <2>2
<1>8. Stored'
  BY <1>1 DEF IInv, Stored, Reading, Usable
<1> QED
  BY <1>3, <1>7, <1>8 DEF IInv

\* The result is made of what the execution has left in the cache.
LEMMA ReturnInvariant ==
    ASSUME IInv, Return
    PROVE  IInv'
<1>1. /\ worker.pc = "return" /\ UNCHANGED <<cache, reader>>
      /\ task' = [status |-> "SUCCESS", run |-> worker.run, result |-> Tweaked(worker.found, DefaultThreshold)]
      /\ worker' = [Idle EXCEPT !.run = worker.run]
  BY DEF Return
<1>2. Shapes'
  BY <1>1, ListKeys DEF IInv, Shapes, OverK, Idle, NoEntries
<1>3. Cached'
  BY <1>1 DEF Cached, Idle
<1>4. ~ Reading /\ ~ Reading'
  BY <1>1 DEF IInv, Stored, Reading
<1>5. \E found : Behind(found)'
  <2>1. PICK f : f = worker.found
    OBVIOUS
  <2>2. /\ OverK(f) /\ task'.result = Tweaked(f, DefaultThreshold)
        /\ \A k \in K : LeftBy(cache'[k], task'.run, f[k])
    BY <1>1, <2>1 DEF IInv, Shapes, Cached
  <2>3. Behind(f)'
    BY <1>4, <2>2 DEF Behind
  <2> QED
    BY <2>3
<1>6. Stored'
  BY <1>1, <1>4, <1>5 DEF IInv, Stored, Idle, Usable
<1> QED
  BY <1>2, <1>3, <1>6 DEF IInv

\* An execution ends without a result: it was under way, so no result is stored.
LEMMA StopInvariant ==
    ASSUME IInv, Raise \/ WorkerLost
    PROVE  IInv'
<1>1. /\ worker.pc # "idle" /\ UNCHANGED <<cache, reader>>
      /\ worker' = [Idle EXCEPT !.run = worker.run]
      /\ task'.status # "SUCCESS"
      /\ DOMAIN task' = DOMAIN task /\ task' = [x \in DOMAIN task' |-> task'[x]]
  BY DEF Raise, WorkerLost, IInv, Shapes, Stored
<1>2. Shapes'
  BY <1>1, ListKeys DEF IInv, Shapes, OverK, Idle, NoEntries
<1>3. Cached'
  BY <1>1 DEF Cached, Idle
<1>4. Stored'
  BY <1>1 DEF IInv, Stored, Reading, Usable
<1> QED
  BY <1>2, <1>3, <1>4 DEF IInv

LEMMA ExpireInvariant ==
    ASSUME IInv, NEW k \in ToSet(Lists), Expire(k)
    PROVE  IInv'
<1>1. /\ UNCHANGED <<task, worker, reader>> /\ cache' = [cache EXCEPT ![k] = None]
  BY DEF Expire
<1>2. Shapes'
  BY <1>1 DEF IInv, Shapes, OverK
<1>3. \A x \in K : cache'[x] = None \/ cache'[x] = cache[x]
  BY <1>1 DEF IInv, Shapes, OverK
<1>4. Cached'
  <2>1. \A i \in 1..3 : Lists[i] \in K
    BY ListKeys DEF K
  <2> QED
    BY <1>1, <1>3, <2>1 DEF IInv, Cached, LeftBy
<1>5. ASSUME NEW found, Behind(found)
      PROVE  Behind(found)'
    BY <1>1, <1>3, <1>5 DEF Behind, LeftBy, Reading
<1>6. Stored'
  BY <1>1, <1>5 DEF IInv, Stored, Reading, Usable
<1> QED
  BY <1>2, <1>4, <1>6 DEF IInv

-----------------------------------------------------------------------------
(* The request that tweaks.                                                *)

LEMMA BeginTweakInvariant ==
    ASSUME IInv, BeginTweak
    PROVE  IInv'
<1>1. /\ task.status = "SUCCESS" /\ UNCHANGED <<task, worker, cache>>
      /\ reader' = [Away EXCEPT !.pc = "read", !.step = 1]
  BY DEF BeginTweak
<1>2. Shapes'
  BY <1>1, ListKeys, ZenonT(60) DEF IInv, Shapes, OverK, Away, NoEntries
<1>3. Cached'
  BY <1>1 DEF IInv, Cached
<1>4. \A k \in K : reader'.got[k] = None
  BY <1>1, ListKeys DEF Away, NoEntries
<1>5. ASSUME NEW found, Behind(found)
      PROVE  Behind(found)'
    BY <1>1, <1>4, <1>5 DEF Behind, LeftBy
<1>6. Stored'
  BY <1>1, <1>5 DEF IInv, Stored, Away
<1> QED
  BY <1>2, <1>3, <1>6 DEF IInv

LEMMA ReadInvariant ==
    ASSUME IInv, ReadEntry
    PROVE  IInv'
<1>1. PICK k : reader' = [reader EXCEPT !.got[k] = cache[k], !.step = @ + 1]
  BY DEF ReadEntry
<1>2. reader.pc = "read" /\ UNCHANGED <<task, worker, cache>>
  BY DEF ReadEntry
<1>3. /\ DOMAIN reader' = DOMAIN reader /\ reader' = [x \in DOMAIN reader' |-> reader'[x]]
      /\ reader'.pc = "read" /\ reader'.overtaken = reader.overtaken
      /\ reader'.got = [reader.got EXCEPT ![k] = cache[k]]
  BY <1>1, <1>2 DEF IInv, Shapes
<1>4. OverK(reader'.got) /\ \A x \in K : reader'.got[x] = reader.got[x] \/ reader'.got[x] = cache[x]
  BY <1>3 DEF IInv, Shapes, OverK
<1>5. Shapes'
  BY <1>2, <1>3, <1>4 DEF IInv, Shapes, OverK
<1>6. Cached'
  BY <1>2 DEF IInv, Cached
<1>7. Reading' <=> Reading
  BY <1>2, <1>3 DEF Reading
<1>8. ASSUME NEW found, Behind(found)
      PROVE  Behind(found)'
    BY <1>2, <1>4, <1>7, <1>8 DEF Behind
<1>9. Stored'
  BY <1>2, <1>3, <1>7, <1>8 DEF IInv, Stored
<1> QED
  BY <1>5, <1>6, <1>9 DEF IInv

\* It answers, gives up or is done.
LEMMA EndTweakInvariant ==
    ASSUME IInv, Refuse \/ Answer \/ Leave
    PROVE  IInv'
<1>1. UNCHANGED <<task, worker, cache>>
  BY DEF Refuse, Answer, Leave
<1>2. Cached'
  BY <1>1 DEF IInv, Cached
<1>3. CASE reader' = Away
  <2>1. Shapes'
    BY <1>1, <1>3, ListKeys, ZenonT(60) DEF IInv, Shapes, OverK, Away, NoEntries
  <2>2. ~ Reading' /\ reader'.pc # "answered"
    BY <1>3 DEF Reading, Away
  <2>3. ASSUME NEW found, Behind(found)
        PROVE  Behind(found)'
      BY <1>1, <2>2, <2>3 DEF Behind
  <2>4. Stored'
    BY <1>1, <2>2, <2>3 DEF IInv, Stored
  <2> QED
    BY <1>2, <2>1, <2>4 DEF IInv
<1>4. CASE Answer
  <2>1. /\ reader.pc = "read" /\ reader' = [reader EXCEPT !.pc = "answered"]
        /\ \A k \in K : Usable(reader.got[k])
    BY <1>4, ListKeys DEF Answer
  <2>2. /\ DOMAIN reader' = DOMAIN reader /\ reader' = [x \in DOMAIN reader' |-> reader'[x]]
        /\ reader'.got = reader.got /\ reader'.overtaken = reader.overtaken /\ reader'.pc = "answered"
    BY <2>1 DEF IInv, Shapes
  <2>3. Shapes'
    BY <1>1, <2>2 DEF IInv, Shapes, OverK
  <2>4. Reading' <=> Reading
    BY <2>1, <2>2 DEF Reading
  <2>5. ASSUME NEW found, Behind(found)
        PROVE  Behind(found)'
      BY <1>1, <2>2, <2>4, <2>5 DEF Behind
  <2>6. Stored'
    BY <1>1, <2>1, <2>2, <2>4, <2>5 DEF IInv, Stored, Usable
  <2> QED
    BY <1>2, <2>3, <2>6 DEF IInv
<1> QED
  BY <1>3, <1>4 DEF Refuse, Leave

LEMMA StepInvariant == IInv /\ [Next]_vars => IInv'
<1> SUFFICES ASSUME IInv, [Next]_vars PROVE IInv'
  OBVIOUS
<1>1. CASE Work
  BY <1>1, SearchInvariant, AskInvariant, CacheInvariant, ReturnInvariant, StopInvariant DEF Work
<1>2. CASE Tweak
  BY <1>2, BeginTweakInvariant, ReadInvariant, EndTweakInvariant DEF Tweak
<1>3. CASE Post \/ Begin \/ WorkerLost
  BY <1>3, PostInvariant, BeginInvariant, StopInvariant
<1>4. CASE \E k \in ToSet(Lists) : Expire(k)
  BY <1>4, ExpireInvariant
<1>5. CASE ChangeIndex \/ UNCHANGED vars
  <2>1. UNCHANGED <<task, worker, cache, reader>>
    BY <1>5 DEF ChangeIndex, vars
  <2>2. Shapes' /\ Cached'
    BY <2>1 DEF IInv, Shapes, OverK, Cached
  <2>3. ASSUME NEW found, Behind(found)
        PROVE  Behind(found)'
      BY <2>1, <2>3 DEF Behind, Reading
  <2>4. Stored'
    BY <2>1, <2>3 DEF IInv, Stored, Reading, Usable
  <2> QED
    BY <2>2, <2>4 DEF IInv
<1> QED
  BY <1>1, <1>2, <1>3, <1>4, <1>5 DEF Next

\* A tweaked answer is made of the candidates of the one execution whose result is stored,
\* and with the default threshold it is that result, whatever executions before it left
\* and whatever expires while it reads (get_tweaked_results); unless the task runs again
\* meanwhile.
THEOREM TweakedFromTheResult == Spec => []TweaksTheResult
<1>1. IInv => TweaksTheResult
  <2> SUFFICES ASSUME IInv, reader.pc = "answered", ~ reader.overtaken
               PROVE  /\ \A k \in ToSet(Lists) : reader.got[k].run = task.run
                      /\ Tweaked(Candidates(reader.got), DefaultThreshold) = task.result
    BY DEF TweaksTheResult
  <2>1. Reading /\ task.status = "SUCCESS" /\ \A k \in K : Usable(reader.got[k])
    BY DEF IInv, Stored, Reading
  <2>2. PICK found : Behind(found)
    BY <2>1 DEF IInv, Stored
  <2>3. \A k \in K : reader.got[k] = [run |-> task.run, list |-> found[k]]
    BY <2>1, <2>2 DEF Behind, LeftBy, Usable
  <2>4. Candidates(reader.got) = found
    <3>1. \A k \in K : reader.got[k].list = found[k]
      <4> TAKE k \in K
      <4>1. reader.got[k] = [run |-> task.run, list |-> found[k]]
        BY <2>3
      <4> QED
        BY <4>1, EntryFields
    <3>2. Candidates(reader.got) = [k \in K |-> reader.got[k].list]
      BY ListKeys DEF Candidates
    <3>3. found = [k \in K |-> found[k]]
      BY <2>2 DEF Behind, OverK
    <3> QED
      BY <3>1, <3>2, <3>3, Zenon
  <2>5. \A k \in ToSet(Lists) : reader.got[k].run = task.run
    <3>1. ASSUME NEW k \in K PROVE reader.got[k].run = task.run
      <4>1. reader.got[k] = [run |-> task.run, list |-> found[k]]
        BY <2>3
      <4> QED
        BY <4>1, EntryFields
    <3> QED
      BY <3>1, ListKeys
  <2>6. task.result = Tweaked(found, DefaultThreshold)
    BY <2>2 DEF Behind
  <2> QED
    BY <2>4, <2>5, <2>6
<1>2. Spec => []IInv
  BY InitInvariant, StepInvariant, PTL DEF Spec
<1> QED
  BY <1>1, <1>2, PTL
-----------------------------------------------------------------------------
(* The candidates are in order of score, in the cache as well.             *)

Hit == Course \union Program
Candidate == [key : Course, score : Scores]

Descending(list) ==
    /\ list \in Seq(Candidate)
    /\ \A m, n \in DOMAIN list : m <= n => list[n].score <= list[m].score

Fit(k, list) == IF k = "programs" THEN list \in Seq(Program) ELSE Descending(list)

InOrderThroughout ==
    /\ index \in Seq(Hit) /\ worker.hits \in Seq(Hit)
    /\ worker.step \in Nat
    /\ worker.pc = "ask" => worker.step \in 1..4
    /\ worker.pc \in {"cache", "return"} => \A k \in K : Fit(k, worker.found[k])
    /\ \A k \in K : cache[k] # None => Fit(k, cache[k].list)

TInv == IInv /\ InOrderThroughout

LEMMA WhereSome ==
    ASSUME NEW E, NEW s \in Seq(E), NEW I \in SUBSET DOMAIN s, NEW F, \A i \in I : s[i] \in F
    PROVE  At(s, I) \in Seq(F) /\ ToSet(At(s, I)) = {s[i] : i \in I}
<1>1. /\ At(s, I) \in Seq({s[i] : i \in I})
      /\ \A n \in DOMAIN At(s, I) : \E i \in I : At(s, I)[n] = s[i]
      /\ \A i \in I : \E n \in DOMAIN At(s, I) : At(s, I)[n] = s[i]
  BY AtLists
<1>2. {s[i] : i \in I} \subseteq F
  OBVIOUS
<1>3. At(s, I) \in Seq(F)
  BY <1>1, <1>2
<1> QED
  BY <1>1, <1>3 DEF ToSet

LEMMA OfKinds ==
    ASSUME NEW s \in Seq(Hit), NEW kinds
    PROVE  Of(s, kinds) \in Seq(kinds) /\ Of(s, kinds) \in Seq(Hit)
           /\ ToSet(Of(s, kinds)) = ToSet(s) \intersect kinds
<1> DEFINE I == {i \in DOMAIN s : s[i] \in kinds}
<1>1. Of(s, kinds) = At(s, I)
  BY DEF Of, Where
<1>2. \A i \in I : s[i] \in kinds /\ s[i] \in Hit
  OBVIOUS
<1>3. At(s, I) \in Seq(kinds) /\ At(s, I) \in Seq(Hit) /\ ToSet(At(s, I)) = {s[i] : i \in I}
  BY <1>2, WhereSome
<1> QED
  BY <1>1, <1>3 DEF ToSet

\* The list a course's prose ranks.
LEMMA RankedDescends ==
    ASSUME NEW list \in Seq(Candidate)
    PROVE  Descending(Ranked(list))
<1> DEFINE D == DOMAIN list
           R == {p \in D \X D : \/ list[p[1]].score > list[p[2]].score
                                \/ list[p[1]].score = list[p[2]].score /\ p[1] <= p[2]}
           o == InOrder(D, R)
           r == Ranked(list)
           sc == [i \in D |-> list[i].score]
<1>1. Len(list) \in Nat /\ D = 1..Len(list) /\ IsFiniteSet(D) /\ Cardinality(D) = Len(list)
  <2>1. Len(list) \in Nat /\ D = 1..Len(list)
    OBVIOUS
  <2> QED
    BY <2>1, FS_Interval
<1>2. (\A i \in D : list[i] \in Candidate) /\ sc \in [D -> Int]
  <2>1. \A i \in D : list[i] \in Candidate
    OBVIOUS
  <2>2. \A x \in Candidate : x.score \in Int
    BY HitAssumption DEF Candidate
  <2> QED
    BY <2>1, <2>2
<1>3. \A i, j \in D : <<i, j>> \in R <=> sc[i] > sc[j] \/ (sc[i] = sc[j] /\ i <= j)
  OBVIOUS
<1>4. r = [n \in D |-> list[o[n]]] /\ \A i \in D : list[i].score = sc[i]
  BY DEF Ranked
<1> HIDE DEF R, r, sc
<1>5. TotalOrder(R, D)
  <2>0. D \subseteq Int
    BY <1>1
  <2> HIDE DEF D
  <2>1. \A i, j \in D : <<i, j>> \in R \/ <<j, i>> \in R
    <3> TAKE i, j \in D
    <3>1. sc[i] \in Int /\ sc[j] \in Int /\ i \in Int /\ j \in Int
      BY <1>2, <2>0
    <3>2. sc[i] > sc[j] \/ sc[j] > sc[i] \/ (sc[i] = sc[j] /\ (i <= j \/ j <= i))
      BY <3>1
    <3> QED
      BY <1>3, <3>2
  <2>2. \A i, j \in D : <<i, j>> \in R /\ <<j, i>> \in R => i = j
    <3> TAKE i, j \in D
    <3>1. sc[i] \in Int /\ sc[j] \in Int /\ i \in Int /\ j \in Int
      BY <1>2, <2>0
    <3> QED
      BY <1>3, <3>1
  <2>3. \A h, i, j \in D : <<h, i>> \in R /\ <<i, j>> \in R => <<h, j>> \in R
    <3> TAKE h, i, j \in D
    <3>1. /\ sc[h] \in Int /\ sc[i] \in Int /\ sc[j] \in Int
          /\ h \in Int /\ i \in Int /\ j \in Int
      BY <1>2, <2>0
    <3> QED
      BY <1>3, <3>1
  <2> QED
    BY <2>1, <2>2, <2>3 DEF TotalOrder
<1>6. EachInOrder(o, D, R)
  BY <1>1, <1>5, InOrderLists
<1> HIDE DEF o
<1>7. o \in [D -> D] /\ \A m, n \in D : m < n => <<o[m], o[n]>> \in R
  BY <1>1, <1>6 DEF EachInOrder
<1>8. r \in [D -> Candidate]
  BY <1>2, <1>4, <1>7
<1>9. r \in Seq(Candidate) /\ DOMAIN r = D
  BY <1>1, <1>8
<1>10. \A m, n \in D : m <= n => r[n].score <= r[m].score
  <2> TAKE m, n \in D
  <2> HAVE m <= n
  <2>0. /\ o[m] \in D /\ o[n] \in D /\ sc[o[m]] \in Int /\ sc[o[n]] \in Int
        /\ r[m].score = sc[o[m]] /\ r[n].score = sc[o[n]]
    BY <1>2, <1>4, <1>7
  <2>1. CASE m = n
    BY <2>0, <2>1
  <2>2. CASE m < n
    <3>1. <<o[m], o[n]>> \in R
      BY <1>7, <2>2
    <3>2. sc[o[m]] > sc[o[n]] \/ sc[o[m]] = sc[o[n]]
      BY <1>3, <2>0, <3>1
    <3> QED
      BY <2>0, <3>2
  <2> QED
    BY <1>1, <2>1, <2>2
<1> QED
  BY <1>9, <1>10 DEF Descending, r

LEMMA ProseFits ==
    ASSUME NEW s \in Seq(Hit), NEW kinds \in SUBSET Course,
           NEW score \in [ToSet(s) \intersect Course -> Scores]
    PROVE  Descending(Ranked([i \in DOMAIN Of(s, kinds) |->
                                [key |-> Of(s, kinds)[i], score |-> score[Of(s, kinds)[i]]]]))
<1> DEFINE h == Of(s, kinds)
           l == [i \in DOMAIN h |-> [key |-> h[i], score |-> score[h[i]]]]
<1>1. h \in Seq(kinds) /\ ToSet(h) = ToSet(s) \intersect kinds
  BY OfKinds
<1> HIDE DEF h
<1>2. \A i \in DOMAIN h : h[i] \in Course /\ h[i] \in ToSet(s)
  BY <1>1 DEF ToSet
<1>3. \A i \in DOMAIN h : [key |-> h[i], score |-> score[h[i]]] \in Candidate
  BY <1>2 DEF Candidate
<1>4. Len(h) \in Nat /\ DOMAIN h = 1..Len(h)
  BY <1>1
<1>5. l \in Seq(Candidate)
  BY <1>3, <1>4
<1> HIDE DEF l
<1>6. Descending(Ranked(l))
  BY <1>5, RankedDescends
<1> QED
  BY <1>6 DEF l, h

LEMMA AnswersFit ==
    ASSUME TInv, worker.pc = "ask", NEW w \in Answers
    PROVE  /\ w.hits \in Seq(Hit)
           /\ worker.step = 4 => \A k \in K : Fit(k, w.found[k])
<1>0. /\ DOMAIN worker = {"pc", "run", "step", "tries", "hits", "found"}
      /\ worker.hits \in Seq(Hit) /\ worker.step \in 1..4
  BY DEF TInv, IInv, Shapes, InOrderThroughout
<1>4. Asks[4] = "prose"
  BY DEF Asks
<1>1. CASE Asks[worker.step] \in {"subjects", "keywords"}
  <2>1. PICK kept : w = [worker EXCEPT !.hits = Of(@, kept \union Program)]
    BY <1>1 DEF Answers
  <2>2. w.hits = Of(worker.hits, kept \union Program)
    BY <1>0, <2>1
  <2>3. worker.step # 4
    BY <1>1, <1>4
  <2> QED
    BY <1>0, <2>2, <2>3, OfKinds
<1>2. CASE Asks[worker.step] = "keywords again"
  <2>1. w = worker
    BY <1>2 DEF Answers
  <2>2. worker.step # 4
    BY <1>2, <1>4
  <2> QED
    BY <1>0, <2>1, <2>2
<1>3. CASE Asks[worker.step] \notin {"subjects", "keywords", "keywords again"}
  <2> DEFINE Scored(kinds, score) ==
                Ranked([i \in DOMAIN Of(worker.hits, kinds) |->
                          [key |-> Of(worker.hits, kinds)[i], score |-> score[Of(worker.hits, kinds)[i]]]])
             Found(score) == [k \in ToSet(Lists) |->
                IF k = "programs" THEN Of(worker.hits, Program)
                ELSE Scored(IF k = "ocm_courses" THEN Course \ ExecEd ELSE ExecEd, score)]
  <2>1. PICK score \in [ToSet(worker.hits) \intersect Course -> Scores] :
           w = [worker EXCEPT !.hits = <<>>, !.found = Found(score)]
    BY <1>3 DEF Answers
  <2>2. Descending(Scored(Course \ ExecEd, score)) /\ Descending(Scored(ExecEd, score))
    BY <1>0, TitleAssumption, ProseFits
  <2>3. Of(worker.hits, Program) \in Seq(Program)
    BY <1>0, OfKinds
  <2> HIDE DEF Scored
  <2>4. \A k \in K : Fit(k, Found(score)[k])
    BY <2>2, <2>3, ListKeys DEF Fit, K
  <2> HIDE DEF Found
  <2>5. w.hits = <<>> /\ w.found = Found(score)
    BY <1>0, <2>1
  <2> QED
    BY <2>4, <2>5
<1> QED
  BY <1>1, <1>2, <1>3

LEMMA InitOrder == Init => InOrderThroughout
<1> SUFFICES ASSUME Init PROVE InOrderThroughout
  OBVIOUS
<1>1. worker.hits = <<>> /\ worker.step = 0 /\ worker.pc = "idle"
  BY DEF Init, Idle
<1>2. \A k \in K : cache[k] = None
  BY ListKeys DEF Init, NoEntries
<1> QED
  BY <1>1, <1>2, HitAssumption DEF Init, InOrderThroughout, Hit

LEMMA SearchOrder == ASSUME TInv, SearchPage PROVE InOrderThroughout'
<1> DEFINE first == worker.step * PageSize + 1
           last  == IF first + PageSize - 1 < Len(index) THEN first + PageSize - 1 ELSE Len(index)
           page  == SubSeq(index, first, last)
           joined == worker.hits \o page
           next == worker.step + 1
<1>1. /\ worker.pc = "search" /\ UNCHANGED <<index, cache>>
      /\ worker' = IF page # <<>> THEN [worker EXCEPT !.hits = joined, !.step = next]
                   ELSE [worker EXCEPT !.pc = "ask", !.step = 1]
  BY DEF SearchPage
<1>2. /\ index \in Seq(Hit) /\ worker.hits \in Seq(Hit) /\ worker.step \in Nat
      /\ DOMAIN worker = {"pc", "run", "step", "tries", "hits", "found"}
  BY DEF TInv, IInv, Shapes, InOrderThroughout
<1>3. first \in Nat /\ first >= 1
  BY <1>2, LimitAssumption
<1>4. last \in Int /\ last <= Len(index) /\ Len(index) \in Nat
  <2>1. PageSize \in Nat
    BY LimitAssumption
  <2> HIDE DEF first
  <2> QED
    BY <1>2, <1>3, <2>1
<1> HIDE DEF first, last
<1>5. page \in Seq(Hit)
  BY <1>2, <1>3, <1>4
<1> HIDE DEF page
<1>6. joined \in Seq(Hit) /\ next \in Nat
  BY <1>2, <1>5
<1> HIDE DEF joined, next
<1>7. worker'.pc \in {"search", "ask"} /\ worker'.hits \in Seq(Hit) /\ worker'.step \in Nat
      /\ (worker'.pc = "ask" => worker'.step \in 1..4)
  BY <1>1, <1>2, <1>6
<1> QED
  BY <1>1, <1>2, <1>7 DEF TInv, InOrderThroughout

LEMMA AskOrder == ASSUME TInv, Ask PROVE InOrderThroughout'
<1>1. PICK w \in Answers :
         worker' = IF worker.step < 4 THEN [w EXCEPT !.step = @ + 1, !.tries = 0]
                   ELSE [w EXCEPT !.pc = "cache", !.step = 1, !.tries = 0]
  BY DEF Ask, Asks
<1>2. worker.pc = "ask" /\ UNCHANGED <<index, cache>>
  BY DEF Ask
<1>3. /\ w.hits \in Seq(Hit) /\ (worker.step = 4 => \A k \in K : Fit(k, w.found[k]))
      /\ worker.step \in 1..4
  BY <1>2, AnswersFit DEF TInv, InOrderThroughout
<1>4. w.pc = "ask" /\ w.step = worker.step /\ DOMAIN w = {"pc", "run", "step", "tries", "hits", "found"}
  BY <1>2, AnswersShape DEF TInv, IInv, Shapes
<1>5. CASE worker.step < 4
  <2>1. worker'.pc = "ask" /\ worker'.step = worker.step + 1 /\ worker'.hits = w.hits
    BY <1>1, <1>4, <1>5
  <2>2. worker'.step \in 1..4
    BY <1>3, <1>5, <2>1
  <2> QED
    BY <1>2, <1>3, <2>1, <2>2 DEF TInv, InOrderThroughout
<1>6. CASE worker.step = 4
  <2>1. worker'.pc = "cache" /\ worker'.step = 1 /\ worker'.hits = w.hits /\ worker'.found = w.found
    BY <1>1, <1>4, <1>6
  <2> QED
    BY <1>2, <1>3, <1>6, <2>1 DEF TInv, InOrderThroughout
<1> QED
  BY <1>3, <1>5, <1>6

LEMMA CacheOrder == ASSUME TInv, CacheEntry PROVE InOrderThroughout'
<1> DEFINE k == Lists[worker.step]
           e == [run |-> worker.run, list |-> worker.found[k]]
           next == worker.step + 1
<1>1. /\ worker.pc = "cache" /\ UNCHANGED index
      /\ cache' = [cache EXCEPT ![k] = e]
      /\ worker' = IF worker.step < 3 THEN [worker EXCEPT !.step = next]
                   ELSE [worker EXCEPT !.pc = "return"]
  BY ListKeys DEF CacheEntry
<1>2. /\ worker.hits \in Seq(Hit) /\ worker.step \in Nat /\ \A x \in K : Fit(x, worker.found[x])
      /\ DOMAIN worker = {"pc", "run", "step", "tries", "hits", "found"}
  BY <1>1 DEF TInv, IInv, Shapes, InOrderThroughout
<1>3. next \in Nat /\ e.list = worker.found[k]
  BY <1>2
<1> HIDE DEF next, e
<1>4. /\ worker'.hits = worker.hits /\ worker'.found = worker.found /\ worker'.step \in Nat
      /\ worker'.pc \in {"cache", "return"}
  BY <1>1, <1>2, <1>3
<1>5. ASSUME NEW x \in K, cache'[x] # None
      PROVE  Fit(x, cache'[x].list)
  <2>1. CASE x = k
    <3>1. cache'[x] = e
      BY <1>1, <2>1 DEF TInv, IInv, Shapes, OverK
    <3> QED
      BY <1>2, <1>3, <2>1, <3>1
  <2>2. CASE x # k
    <3>1. cache'[x] = cache[x]
      BY <1>1, <2>2 DEF TInv, IInv, Shapes, OverK
    <3> QED
      BY <1>5, <3>1 DEF TInv, InOrderThroughout
  <2> QED
    BY <2>1, <2>2
<1> QED
  BY <1>1, <1>2, <1>4, <1>5 DEF TInv, InOrderThroughout

LEMMA ChangeOrder == ASSUME TInv, ChangeIndex PROVE InOrderThroughout'
<1>1. index \in Seq(Hit) /\ UNCHANGED <<worker, cache>>
  BY DEF ChangeIndex, TInv, InOrderThroughout
<1>2. index' \in Seq(Hit)
  <2>1. ASSUME NEW i \in DOMAIN index, index' = RemoveAt(index, i)
        PROVE  index' \in Seq(Hit)
    <3>1. SubSeq(index, 1, i - 1) \in Seq(Hit) /\ SubSeq(index, i + 1, Len(index)) \in Seq(Hit)
      BY <1>1
    <3> QED
      BY <2>1, <3>1 DEF RemoveAt
  <2>2. ASSUME NEW c \in Course, index' = <<c>> \o index
        PROVE  index' \in Seq(Hit)
    <3>1. <<c>> \in Seq(Hit)
      BY DEF Hit
    <3> QED
      BY <1>1, <2>2, <3>1
  <2> QED
    BY <2>1, <2>2 DEF ChangeIndex
<1> QED
  BY <1>1, <1>2 DEF TInv, InOrderThroughout

LEMMA RestOrder ==
    ASSUME TInv,
           \/ Begin \/ AskAgain \/ Return \/ Raise \/ WorkerLost
           \/ Post \/ Tweak \/ (\E k \in ToSet(Lists) : Expire(k)) \/ UNCHANGED vars
    PROVE  InOrderThroughout'
<1>1. CASE Begin \/ Return \/ Raise \/ WorkerLost
  <2>1. /\ worker'.pc \in {"search", "idle"} /\ worker'.step = 0 /\ worker'.hits = <<>>
        /\ UNCHANGED <<index, cache>>
    BY <1>1 DEF Begin, Return, Raise, WorkerLost, Idle
  <2> QED
    BY <2>1 DEF TInv, InOrderThroughout
<1>2. CASE AskAgain
  <2>1. /\ UNCHANGED <<index, cache>> /\ worker'.pc = worker.pc /\ worker'.step = worker.step
        /\ worker'.hits = worker.hits /\ worker'.found = worker.found
    BY <1>2 DEF AskAgain, TInv, IInv, Shapes
  <2> QED
    BY <2>1 DEF TInv, InOrderThroughout
<1>3. CASE Post \/ Tweak \/ UNCHANGED vars
  <2>1. UNCHANGED <<index, worker, cache>>
    BY <1>3 DEF Post, Tweak, BeginTweak, ReadEntry, Refuse, Answer, Leave, vars
  <2> QED
    BY <2>1 DEF TInv, InOrderThroughout
<1>4. ASSUME NEW k \in ToSet(Lists), Expire(k)
      PROVE  InOrderThroughout'
  <2>1. UNCHANGED <<index, worker>> /\ cache' = [cache EXCEPT ![k] = None]
    BY <1>4 DEF Expire
  <2>2. \A x \in K : cache'[x] = None \/ cache'[x] = cache[x]
    BY <2>1 DEF TInv, IInv, Shapes, OverK
  <2> QED
    BY <2>1, <2>2 DEF TInv, InOrderThroughout
<1> QED
  BY <1>1, <1>2, <1>3, <1>4

LEMMA OrderStays == Spec => []TInv
<1>1. Init => TInv
  BY InitInvariant, InitOrder DEF TInv
<1>2. TInv /\ [Next]_vars => TInv'
  <2> SUFFICES ASSUME TInv, [Next]_vars PROVE TInv'
    OBVIOUS
  <2>1. IInv'
    BY StepInvariant DEF TInv
  <2>2. InOrderThroughout'
    BY SearchOrder, AskOrder, CacheOrder, ChangeOrder, RestOrder DEF Next, Work
  <2> QED
    BY <2>1, <2>2 DEF TInv
<1> QED
  BY <1>1, <1>2, PTL DEF Spec

-----------------------------------------------------------------------------
(* Thresholds.                                                             *)

LEMMA Ranks ==
    ASSUME NEW list \in Seq(Candidate), NEW hit
    PROVE  /\ Rank(list, hit) \in Nat
           /\ (\A i \in DOMAIN list : list[i].score <= hit.score) => Rank(list, hit) >= Len(list) + 1
<1> DEFINE D == DOMAIN list
           B == {i \in D : list[i].score < hit.score}
           C == {i \in D : list[i].score <= hit.score}
<1>1. Len(list) \in Nat /\ IsFiniteSet(D) /\ Cardinality(D) = Len(list)
  <2>1. Len(list) \in Nat /\ D = 1..Len(list)
    OBVIOUS
  <2> QED
    BY <2>1, FS_Interval
<1>2. IsFiniteSet(B) /\ IsFiniteSet(C)
  BY <1>1, FS_Subset
<1>3. Cardinality(B) \in Nat /\ Cardinality(C) \in Nat
  BY <1>2, FS_CardinalityType
<1>4. (\A i \in D : list[i].score <= hit.score) => C = D
  OBVIOUS
<1>5. Rank(list, hit) = Cardinality(B) + Cardinality(C) + 1
  BY DEF Rank
<1> HIDE DEF B, C, D
<1> QED
  BY <1>1, <1>3, <1>4, <1>5 DEF D

LEMMA AboveSome ==
    ASSUME NEW list \in Seq(Candidate), NEW th
    PROVE  /\ Above(list, th) \in Seq(Candidate)
           /\ \A x : x \in ToSet(Above(list, th)) <=>
                 \E i \in DOMAIN list : x = list[i] /\ Rank(list, list[i]) * 50 > th * Len(list)
<1> DEFINE I == {i \in DOMAIN list : Rank(list, list[i]) * 50 > th * Len(list)}
<1>1. Above(list, th) = At(list, I)
  BY DEF Above, Where
<1>2. \A i \in I : list[i] \in Candidate
  OBVIOUS
<1>3. At(list, I) \in Seq(Candidate) /\ ToSet(At(list, I)) = {list[i] : i \in I}
  BY <1>2, WhereSome
<1> QED
  BY <1>1, <1>3

\* A higher threshold lets through no more of a list ...
LEMMA HigherKeepsLess ==
    ASSUME NEW list \in Seq(Candidate), NEW th \in Nat, NEW th2 \in Nat, th <= th2
    PROVE  ToSet(Above(list, th2)) \subseteq ToSet(Above(list, th))
<1>1. th * Len(list) <= th2 * Len(list)
  <2>1. Len(list) \in Nat
    OBVIOUS
  <2> HIDE DEF Len
  <2> QED
    BY <2>1
<1>2. ASSUME NEW i \in DOMAIN list, Rank(list, list[i]) * 50 > th2 * Len(list)
      PROVE  Rank(list, list[i]) * 50 > th * Len(list)
  <2>1. Rank(list, list[i]) \in Nat /\ Len(list) \in Nat
    BY Ranks
  <2>2. th * Len(list) \in Nat /\ th2 * Len(list) \in Nat
    BY <2>1
  <2> QED
    BY <1>1, <1>2, <2>1, <2>2
<1> QED
  BY <1>2, AboveSome

\* ... and one of at most half the first of it.
LEMMA BestIsKept ==
    ASSUME NEW list, Descending(list), list # <<>>, NEW th \in Nat, th <= 50
    PROVE  list[1] \in ToSet(Above(list, th))
<1>1. list \in Seq(Candidate) /\ 1 \in DOMAIN list /\ Len(list) \in Nat
  BY DEF Descending
<1>2. \A i \in DOMAIN list : list[i].score <= list[1].score
  BY <1>1 DEF Descending
<1>3. Rank(list, list[1]) \in Nat /\ Rank(list, list[1]) >= Len(list) + 1
  BY <1>1, <1>2, Ranks
<1>4. th * Len(list) <= 50 * Len(list) /\ th * Len(list) \in Nat
  BY <1>1
<1>5. Rank(list, list[1]) * 50 > th * Len(list)
  BY <1>1, <1>3, <1>4
<1> QED
  BY <1>1, <1>5, AboveSome

LEMMA ProgramsOfMore ==
    ASSUME NEW a \in Seq(Candidate), NEW b \in Seq(Candidate), ToSet(a) \subseteq ToSet(b),
           NEW programs \in Seq(Program)
    PROVE  ToSet(ProgramsOf(a, programs)) \subseteq ToSet(ProgramsOf(b, programs))
<1> DEFINE Named(courses, p) == \E i \in DOMAIN courses : Titles[courses[i].key] = {p}
           I == {i \in DOMAIN programs : Named(a, programs[i])}
           J == {i \in DOMAIN programs : Named(b, programs[i])}
<1>1. ProgramsOf(a, programs) = At(programs, I) /\ ProgramsOf(b, programs) = At(programs, J)
  BY DEF ProgramsOf, Where
<1>2. \A i \in DOMAIN a : \E h \in DOMAIN b : b[h] = a[i]
  BY DEF ToSet
<1>3. I \subseteq J
  BY <1>2
<1>4. /\ I \in SUBSET DOMAIN programs /\ (\A i \in I : programs[i] \in Program)
      /\ J \in SUBSET DOMAIN programs /\ (\A i \in J : programs[i] \in Program)
  OBVIOUS
<1> HIDE DEF I, J
<1>5. ToSet(At(programs, I)) = {programs[i] : i \in I}
  BY <1>4, WhereSome
<1>6. ToSet(At(programs, J)) = {programs[i] : i \in J}
  BY <1>4, WhereSome
<1> QED
  BY <1>1, <1>3, <1>5, <1>6

LEMMA JoinedSet ==
    ASSUME NEW E, NEW a \in Seq(E), NEW b \in Seq(E)
    PROVE  a \o b \in Seq(E) /\ ToSet(a \o b) = ToSet(a) \union ToSet(b)
<1>1. \A i \in DOMAIN a : i \in DOMAIN (a \o b) /\ (a \o b)[i] = a[i]
  OBVIOUS
<1>2. \A i \in DOMAIN b : Len(a) + i \in DOMAIN (a \o b) /\ (a \o b)[Len(a) + i] = b[i]
  OBVIOUS
<1>3. \A i \in DOMAIN (a \o b) : (a \o b)[i] \in ToSet(a) \union ToSet(b)
  <2> TAKE i \in DOMAIN (a \o b)
  <2>1. \/ i \in DOMAIN a /\ (a \o b)[i] = a[i]
        \/ i - Len(a) \in DOMAIN b /\ (a \o b)[i] = b[i - Len(a)]
    OBVIOUS
  <2> QED
    BY <2>1 DEF ToSet
<1>4. ToSet(a \o b) \subseteq ToSet(a) \union ToSet(b)
  BY <1>3 DEF ToSet
<1>5. ToSet(a) \subseteq ToSet(a \o b) /\ ToSet(b) \subseteq ToSet(a \o b)
  BY <1>1, <1>2 DEF ToSet
<1> QED
  BY <1>4, <1>5

\* get_tweaked_results and _filter_by_threshold: a higher threshold adds no course and no
\* program to what is shown, and one of at most half shows the best of every list of
\* candidates, whatever the index held and the model answered.
THEOREM ThresholdsAreNested == Spec => []ThresholdsNest
<1>1. TInv => ThresholdsNest
  <2> DEFINE found == Candidates(cache)
             Shown(th) == LET r == Tweaked(found, th)
                          IN  ToSet(r.ocm) \union ToSet(r.exec) \union {[key |-> p, score |-> 0] : p \in ToSet(r.programs)}
  <2> SUFFICES ASSUME TInv, \A k \in ToSet(Lists) : cache[k] # None
               PROVE  /\ \A th, th2 \in Thresholds : th <= th2 => Shown(th2) \subseteq Shown(th)
                      /\ \A k \in {"ocm_courses", "exec_ed_courses"}, th \in Thresholds :
                            th <= 50 /\ found[k] # <<>> => found[k][1] \in ToSet(Above(found[k], th))
    BY DEF ThresholdsNest
  <2>1. \A k \in K : Fit(k, found[k])
    BY ListKeys DEF TInv, InOrderThroughout, Candidates
  <2> HIDE DEF found
  <2> DEFINE o == found["ocm_courses"]
             x == found["exec_ed_courses"]
             p == found["programs"]
  <2>2. Descending(o) /\ Descending(x) /\ p \in Seq(Program)
    BY <2>1 DEF Fit, K
  <2>3. o \in Seq(Candidate) /\ x \in Seq(Candidate)
    BY <2>2 DEF Descending
  <2>4. \A th \in Thresholds : th \in Nat
    BY ThresholdAssumption
  <2> HIDE DEF o, x, p
  <2>5. ASSUME NEW th \in Thresholds, NEW th2 \in Thresholds, th <= th2
        PROVE  Shown(th2) \subseteq Shown(th)
    <3>1. /\ ToSet(Above(o, th2)) \subseteq ToSet(Above(o, th))
          /\ ToSet(Above(x, th2)) \subseteq ToSet(Above(x, th))
      BY <2>3, <2>4, <2>5, HigherKeepsLess
    <3>2. /\ Above(o, th2) \in Seq(Candidate) /\ Above(x, th2) \in Seq(Candidate)
          /\ Above(o, th) \in Seq(Candidate) /\ Above(x, th) \in Seq(Candidate)
      BY <2>3, AboveSome
    <3>3. /\ Above(o, th2) \o Above(x, th2) \in Seq(Candidate)
          /\ Above(o, th) \o Above(x, th) \in Seq(Candidate)
          /\ ToSet(Above(o, th2) \o Above(x, th2)) \subseteq ToSet(Above(o, th) \o Above(x, th))
      BY <3>1, <3>2, JoinedSet
    <3>4. ToSet(ProgramsOf(Above(o, th2) \o Above(x, th2), p))
             \subseteq ToSet(ProgramsOf(Above(o, th) \o Above(x, th), p))
      BY <2>2, <3>3, ProgramsOfMore
    <3>5. \A t : Shown(t) = ToSet(Above(o, t)) \union ToSet(Above(x, t))
                            \union {[key |-> q, score |-> 0] : q \in ToSet(ProgramsOf(Above(o, t) \o Above(x, t), p))}
      BY DEF Tweaked, o, x, p
    <3> HIDE DEF Shown
    <3> QED
      BY <3>1, <3>4, <3>5
  <2>6. ASSUME NEW k \in {"ocm_courses", "exec_ed_courses"}, NEW th \in Thresholds,
               th <= 50, found[k] # <<>>
        PROVE  found[k][1] \in ToSet(Above(found[k], th))
    <3>1. Descending(found[k])
      BY <2>2 DEF o, x
    <3> QED
      BY <2>4, <2>6, <3>1, BestIsKept
  <2> QED
    BY <2>5, <2>6
<1> QED
  BY <1>1, OrderStays, PTL
=============================================================================
