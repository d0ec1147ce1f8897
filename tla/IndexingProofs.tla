---------------------------- MODULE IndexingProofs ----------------------------
(***************************************************************************)
(* Theorems about IndexBatch, for every set of keys, shards and tasks;     *)
(* about IndexDispatch, for every content, nesting and number of           *)
(* dispatches; and about ValidateIndices, which compares what the two ways *)
(* of indexing have written, for any records and invocations.              *)
(***************************************************************************)
EXTENDS IndexBatch, IndexDispatch, ValidateIndices, OrderingProofs, SequenceTheorems, TLAPS

-----------------------------------------------------------------------------
(* IndexBatch.                                                             *)

LEMMA InitType == Init => TypeOK
<1> SUFFICES ASSUME Init PROVE TypeOK
  OBVIOUS
<1> USE DEF Init, Never
<1>1. content \in [Key -> Content]
  BY DEF Content
<1>2. row \in [Key -> Row]
  BY DEF Row, EmptyRow
<1>3. job \in [Task -> Job] /\ seen \in [Task -> [Key -> Nat]]
  BY DEF Job, NoJob, Unread
<1>4. built \in [Task -> [Key -> Objects]]
  BY DEF NoObjects, Objects
<1>5. plan \in [Task -> [Key -> Decision]]
  BY DEF NoPlan, Decision, Decide, Outcome, Skipped
<1>6. phase \in [Task -> Phase]
  BY DEF Phase
<1>7. clock \in Nat /\ cache \in SUBSET SUBSET Key
  OBVIOUS
<1>8. hosted \in [Key -> [Shard -> Nat]]
  <2>1. {Never, 1} \subseteq Nat
    OBVIOUS
  <2>2. hosted \in [Key -> [Shard -> {Never, 1}]]
    OBVIOUS
  <2>3. QED
    BY <2>1, <2>2
<1>9. /\ deliveries \in [Task -> Nat] /\ indexable \in [Task -> SUBSET Key]
      /\ pending \in [Task -> SUBSET Key] /\ todo \in [Task -> SUBSET (Key \X Shard)]
  OBVIOUS
<1>10. QED
  BY <1>1, <1>2, <1>3, <1>4, <1>5, <1>6, <1>7, <1>8, <1>9 DEF TypeOK

LEMMA DecisionType ==
    ASSUME NEW r \in Row, NEW mod \in Nat, NEW ix \in BOOLEAN,
           NEW new \in SUBSET Shard, NEW browsed \in SUBSET Shard, NEW force \in BOOLEAN
    PROVE  ResolveDecision(r, mod, ix, new, browsed, force) \in Decision
BY DEF ResolveDecision, Decision, Decide, Outcome, Indexed, Removed, Skipped, Failed,
       ExistingShardIds, Row

LEMMA FinalRowType ==
    ASSUME TypeOK, NEW t \in Task, NEW k \in Key
    PROVE  FinalRow(t, k) \in Row
<1>1. row[k] \in Row /\ built[t][k].shards \in SUBSET Shard /\ clock \in Nat
  BY DEF TypeOK, Objects
<1>2. MarkAsIndexed(row[k], built[t][k].shards, clock) \in Row
  BY <1>1 DEF MarkAsIndexed, Row
<1>3. MarkAsRemoved(row[k]) \in Row /\ MarkAsFailed(row[k]) \in Row
  BY <1>1 DEF MarkAsRemoved, MarkAsFailed, Row
<1>4. QED
  BY <1>1, <1>2, <1>3 DEF FinalRow

LEMMA WorldType == TypeOK /\ World => TypeOK'
<1> SUFFICES ASSUME TypeOK, World PROVE TypeOK'
  OBVIOUS
<1> USE DEF TypeOK, store, world, locals
<1>1. ASSUME NEW k \in Key, NEW ix \in BOOLEAN, NEW shards \in SUBSET Shard,
             EditContent(k, ix, shards)
      PROVE  TypeOK'
  <2>1. clock' \in Nat /\ clock' = clock + 1
    BY <1>1 DEF EditContent
  <2>2. [modified |-> clock', rev |-> clock', indexable |-> ix, shards |-> shards] \in Content
    BY <2>1 DEF Content
  <2>3. QED
    BY <1>1, <2>1, <2>2 DEF EditContent
<1>2. ASSUME NEW k \in Key, NEW shards \in SUBSET Shard, ChangeMembership(k, shards)
      PROVE  TypeOK'
  <2>1. clock' \in Nat
    BY <1>2 DEF ChangeMembership
  <2> HIDE DEF TypeOK
  <2>2. [content[k] EXCEPT !.rev = clock', !.shards = shards] \in Content
    <3>1. content[k] \in Content
      BY DEF TypeOK
    <3>2. QED
      BY <2>1, <3>1 DEF Content
  <2>3. content' = [content EXCEPT ![k] = [content[k] EXCEPT !.rev = clock', !.shards = shards]]
    BY <1>2 DEF ChangeMembership
  <2>4. QED
    BY <1>2, <2>1, <2>2, <2>3 DEF ChangeMembership, TypeOK
<1>3. ASSUME NEW k \in Key, DeadlinePasses(k) PROVE TypeOK'
  <2> HIDE DEF TypeOK
  <2>1. [content[k] EXCEPT !.indexable = FALSE] \in Content
    <3>1. content[k] \in Content
      BY DEF TypeOK
    <3>2. QED
      BY <3>1 DEF Content
  <2>2. content' = [content EXCEPT ![k] = [content[k] EXCEPT !.indexable = FALSE]]
    BY <1>3 DEF DeadlinePasses
  <2>3. QED
    BY <1>3, <2>1, <2>2 DEF DeadlinePasses, TypeOK
<1>4. CASE DropMappings
  BY <1>4 DEF DropMappings
<1>5. QED
  BY <1>1, <1>2, <1>3, <1>4 DEF World

LEMMA ForgetType ==
    ASSUME TypeOK, NEW t \in Task, Forget(t)
    PROVE  /\ indexable' \in [Task -> SUBSET Key]
           /\ seen' \in [Task -> [Key -> Nat]]
           /\ built' \in [Task -> [Key -> Objects]]
           /\ plan' \in [Task -> [Key -> Decision]]
           /\ pending' \in [Task -> SUBSET Key]
           /\ todo' \in [Task -> SUBSET (Key \X Shard)]
<1>1. Unread \in [Key -> Nat]
  BY DEF Unread, Never
<1>2. NoObjects \in [Key -> Objects]
  BY DEF NoObjects, Objects, Never
<1>3. NoPlan \in [Key -> Decision]
  BY DEF NoPlan, Decision, Decide, Outcome, Skipped
<1>4. QED
  BY <1>1, <1>2, <1>3 DEF TypeOK, Forget

LEMMA MessageType ==
    ASSUME TypeOK, NEW t \in Task, Send(t) \/ Redeliver(t) \/ LeaveSlot(t)
    PROVE  TypeOK'
<1> USE DEF store, world
<1>1. ASSUME NEW keys \in SUBSET Key, NEW force \in BOOLEAN, Enqueue(t, keys, force)
      PROVE  TypeOK'
  <2>1. [keys |-> keys, force |-> force] \in Job
    BY DEF Job
  <2>2. QED
    BY <1>1, <2>1 DEF Enqueue, TypeOK, Phase
<1>2. CASE Redeliver(t)
  BY <1>2, ForgetType DEF Redeliver, TypeOK, Phase
<1>3. CASE LeaveSlot(t)
  <2>1. NoJob \in Job
    BY DEF NoJob, Job
  <2>2. QED
    BY <1>3, <2>1, ForgetType DEF LeaveSlot, TypeOK, Phase
<1>4. QED
  BY <1>1, <1>2, <1>3 DEF Send

LEMMA WorkType ==
    ASSUME TypeOK, NEW t \in Task, Work(t)
    PROVE  TypeOK'
<1> USE DEF store, world, reads
<1>1. CASE HitMappings(t) \/ ComputeMappings(t) \/ StoreMappings(t)
  <2>1. ASSUME HitMappings(t) PROVE TypeOK'
    <3>1. PICK m \in cache : indexable' = [indexable EXCEPT ![t] = m]
      BY <2>1 DEF HitMappings
    <3>2. m \in SUBSET Key
      BY <3>1 DEF TypeOK
    <3>3. QED
      BY <2>1, <3>1, <3>2 DEF HitMappings, TypeOK, Phase
  <2>2. ASSUME ComputeMappings(t) PROVE TypeOK'
    BY <2>2 DEF ComputeMappings, IndexableNow, TypeOK, Phase
  <2>3. ASSUME StoreMappings(t) PROVE TypeOK'
    <3>1. {indexable[t]} \in SUBSET SUBSET Key
      BY DEF TypeOK
    <3>2. QED
      BY <2>3, <3>1 DEF StoreMappings, TypeOK, Phase
  <2>4. QED
    BY <1>1, <2>1, <2>2, <2>3
<1>2. CASE LoadContent(t)
  <2>1. \A k \in Key : content[k].modified \in Nat /\ Never \in Nat
    BY DEF TypeOK, Content, Never
  <2>2. QED
    BY <1>2, <2>1 DEF LoadContent, TypeOK, Phase
<1>3. CASE BuildObjects(t)
  <2>1. \A k \in Key : /\ [rev |-> content[k].rev, shards |-> content[k].shards] \in Objects
                        /\ [rev |-> Never, shards |-> {}] \in Objects
    BY DEF TypeOK, Content, Objects, Never
  <2>2. job[t].keys \in SUBSET Key
    BY DEF TypeOK, Job
  <2>3. QED
    BY <1>3, <2>1, <2>2 DEF BuildObjects, TypeOK, Phase
<1>4. CASE BeginSaves(t) \/ BulkSaveRaises(t) \/ BeginDeletes(t) \/ BulkDeleteRaises(t)
  <2>1. ObjectsToSave(t) \in SUBSET (Key \X Shard) /\ ObjectsToDelete(t) \in SUBSET (Key \X Shard)
    BY DEF ObjectsToSave, ObjectsToDelete
  <2>2. /\ todo' \in [Task -> SUBSET (Key \X Shard)] /\ phase' \in [Task -> Phase]
        /\ UNCHANGED <<world, store, cache, reads, plan, pending>>
    <3>1. CASE BeginSaves(t)
      BY <3>1, <2>1 DEF BeginSaves, TypeOK, Phase, Saving
    <3>2. CASE BulkSaveRaises(t)
      BY <3>2, <2>1 DEF BulkSaveRaises, TypeOK, Phase, Saving
    <3>3. CASE BeginDeletes(t)
      BY <3>3, <2>1 DEF BeginDeletes, TypeOK, Phase, Deleting
    <3>4. CASE BulkDeleteRaises(t)
      BY <3>4, <2>1 DEF BulkDeleteRaises, TypeOK, Phase, Deleting
    <3>5. QED
      BY <1>4, <3>1, <3>2, <3>3, <3>4
  <2>3. QED
    BY <2>2 DEF TypeOK
<1>5. CASE BeginFinalize(t)
  <2>1. job[t].keys \in SUBSET Key
    BY DEF TypeOK, Job
  <2>2. QED
    BY <1>5, <2>1 DEF BeginFinalize, TypeOK, Phase
<1>6. CASE Finish(t)
  BY <1>6, MessageType DEF Finish
<1>7. ASSUME NEW o \in Key \X Shard, SaveObject(t, o) PROVE TypeOK'
  <2>1. built[t][o[1]].rev \in Nat
    BY DEF TypeOK, Objects
  <2>2. QED
    BY <1>7, <2>1 DEF SaveObject, TypeOK
<1>8. ASSUME NEW o \in Key \X Shard, DeleteObject(t, o) PROVE TypeOK'
  BY <1>8 DEF DeleteObject, TypeOK, Never
<1>9. ASSUME NEW k \in Key, Resolve(t, k) PROVE TypeOK'
  <2>1. /\ row[k] \in Row /\ seen[t][k] \in Nat /\ built[t][k].shards \in SUBSET Shard
        /\ Hosted(k) \in SUBSET Shard /\ job[t].force \in BOOLEAN
        /\ (k \in indexable[t]) \in BOOLEAN
    BY DEF TypeOK, Objects, Job, Hosted
  <2>2. ResolveDecision(row[k], seen[t][k], k \in indexable[t], built[t][k].shards,
                        Hosted(k), job[t].force) \in Decision
    BY <2>1, DecisionType
  <2>3. QED
    BY <1>9, <2>2 DEF Resolve, SetPlan, TypeOK
<1>10. ASSUME NEW k \in Key, ResolveFails(t, k) PROVE TypeOK'
  <2>1. Decide(Failed, {}) \in Decision
    BY DEF Decide, Decision, Outcome, Failed
  <2>2. QED
    BY <1>10, <2>1 DEF ResolveFails, SetPlan, TypeOK
<1>11. ASSUME NEW k \in Key, GiveUpRecord(t, k) PROVE TypeOK'
  <2>1. [plan[t][k] EXCEPT !.outcome = Failed] \in Decision
    <3>1. plan[t][k] \in Decision /\ Failed \in Outcome
      BY DEF TypeOK, Outcome
    <3>2. QED
      BY <3>1 DEF Decision
  <2>2. QED
    BY <1>11, <2>1 DEF GiveUpRecord, TypeOK
<1>12. ASSUME NEW k \in Key, Finalize(t, k) PROVE TypeOK'
  BY <1>12, FinalRowType DEF Finalize, TypeOK
<1>13. ASSUME NEW k \in Key, FinalizeRaises(t, k) PROVE TypeOK'
  BY <1>13 DEF FinalizeRaises, TypeOK
<1>14. QED
  BY <1>1, <1>2, <1>3, <1>4, <1>5, <1>6, <1>7, <1>8, <1>9, <1>10, <1>11, <1>12, <1>13
     DEF Work, RecordSaveRaises, RecordDeleteRaises

(* Every step of the batch task and of the world around it keeps the types. *)
THEOREM TypeCorrect == Spec => []TypeOK
<1>1. TypeOK /\ UNCHANGED vars => TypeOK'
  BY DEF TypeOK, vars
<1>2. TypeOK /\ [Next]_vars => TypeOK'
  BY <1>1, WorldType, MessageType, WorkType DEF Next, Abort
<1>3. QED
  BY InitType, <1>2, PTL DEF Spec

-----------------------------------------------------------------------------
(* The inductive invariant.  SavedBeforeDeleted is not inductive: it needs   *)
(* what the saving phase has achieved so far, that a decision never deletes  *)
(* what it builds, and that nobody else touches the keys of a live task.     *)

Early == {"idle", "queued", "storing", "mapped", "loaded"}

(* What a task has in hand belongs to its own keys. *)
OwnKeys(t) ==
    /\ phase[t] = "idle" => job[t].keys = {}
    /\ pending[t] \subseteq job[t].keys
    /\ \A o \in todo[t] : o[1] \in job[t].keys

PlanInv(t) ==
    /\ phase[t] \in Early => \A k \in Key : plan[t][k].outcome = Skipped
    /\ phase[t] \notin Early => \A k \in job[t].keys : built[t][k].rev # Never
    /\ \A k \in job[t].keys :
        /\ plan[t][k].outcome = Indexed =>
               /\ plan[t][k].desired = Indexed
               /\ built[t][k].shards # {}
               /\ plan[t][k].del \intersect built[t][k].shards = {}
        /\ plan[t][k].outcome = Removed => row[k].ids \subseteq plan[t][k].del

SavingInv(t) ==
    phase[t] \in Saving =>
        \A k \in job[t].keys : plan[t][k].outcome = Indexed =>
            \A s \in built[t][k].shards :
                <<k, s>> \in todo[t] \/ hosted[k][s] = built[t][k].rev

SavedInv(t) ==
    phase[t] \in Deleting \union {"finalizing"} =>
        \A k \in job[t].keys : plan[t][k].outcome = Indexed =>
            \A s \in built[t][k].shards : hosted[k][s] = built[t][k].rev

DeletingInv(t) ==
    /\ phase[t] \in Deleting =>
        \A o \in todo[t] : /\ plan[t][o[1]].outcome \in {Indexed, Removed}
                           /\ o[2] \in plan[t][o[1]].del
    /\ phase[t] \in Deleting \union {"finalizing"} =>
        \A k \in job[t].keys : plan[t][k].outcome = Removed =>
            \A s \in plan[t][k].del :
                \/ phase[t] \in Deleting /\ <<k, s>> \in todo[t]
                \/ hosted[k][s] = Never

TaskInv(t) == OwnKeys(t) /\ PlanInv(t) /\ SavingInv(t) /\ SavedInv(t) /\ DeletingInv(t)

Exclusive ==
    \A t, u \in Task : t # u => job[t].keys \intersect job[u].keys = {}

ClockInv ==
    /\ clock \in 1..MaxClock
    /\ \A k \in Key : content[k].rev # Never /\ row[k].lastIndexed <= clock

IInv == TypeOK /\ Exclusive /\ ClockInv /\ \A t \in Task : TaskInv(t)

-----------------------------------------------------------------------------

LEMMA InitInv == Init => IInv
<1> SUFFICES ASSUME Init PROVE IInv
  OBVIOUS
<1>1. TypeOK
  BY InitType
<1>2. Exclusive
  BY DEF Exclusive, Init, NoJob
<1>3. ClockInv
  BY MaxClockAssumption DEF ClockInv, Init, EmptyRow, Never
<1>4. ASSUME NEW t \in Task PROVE TaskInv(t)
  BY DEF Init, TaskInv, OwnKeys, PlanInv, SavingInv, SavedInv, DeletingInv, Early, Saving,
         Deleting, NoJob, NoPlan, Decide, Skipped
<1>5. QED
  BY <1>1, <1>2, <1>3, <1>4 DEF IInv

(* A step that leaves a task's own state and the rows and shards of its keys alone
   leaves the task's invariant alone. *)
LEMMA Frame ==
    ASSUME NEW u \in Task, TaskInv(u),
           phase'[u] = phase[u], job'[u] = job[u], built'[u] = built[u],
           plan'[u] = plan[u], pending'[u] = pending[u], todo'[u] = todo[u],
           \A k \in job[u].keys : row'[k].ids = row[k].ids /\ hosted'[k] = hosted[k]
    PROVE  TaskInv(u)'
<1> USE DEF TaskInv
<1>1. OwnKeys(u)'
  BY DEF OwnKeys
<1>2. PlanInv(u)'
  BY DEF PlanInv
<1>3. SavingInv(u)'
  BY DEF SavingInv
<1>4. SavedInv(u)'
  BY DEF SavedInv
<1>5. DeletingInv(u)'
  BY DEF DeletingInv
<1>6. QED
  BY <1>1, <1>2, <1>3, <1>4, <1>5

LEMMA WorldInv ==
    ASSUME IInv, World
    PROVE  IInv'
<1>1. TypeOK'
  BY WorldType DEF IInv
<1>2. UNCHANGED <<row, hosted, locals>>
  BY DEF World, EditContent, ChangeMembership, DeadlinePasses, DropMappings, store
<1>3. \A t \in Task : TaskInv(t)'
  BY <1>2, Frame DEF IInv, locals
<1>4. Exclusive'
  BY <1>2 DEF IInv, Exclusive, locals
<1>5. ClockInv'
  <2> USE DEF IInv, TypeOK, ClockInv, Never, Content, Row
  <2>1. ASSUME NEW k \in Key, NEW ix \in BOOLEAN, NEW shards \in SUBSET Shard,
               EditContent(k, ix, shards)
        PROVE  ClockInv'
    BY <2>1, MaxClockAssumption DEF EditContent
  <2>2. ASSUME NEW k \in Key, NEW shards \in SUBSET Shard, ChangeMembership(k, shards)
        PROVE  ClockInv'
    BY <2>2, MaxClockAssumption DEF ChangeMembership
  <2>3. ASSUME NEW k \in Key, DeadlinePasses(k) PROVE ClockInv'
    BY <2>3 DEF DeadlinePasses
  <2>4. ASSUME DropMappings PROVE ClockInv'
    BY <2>4 DEF DropMappings, world, store
  <2>5. QED
    BY <2>1, <2>2, <2>3, <2>4 DEF World
<1>6. QED
  BY <1>1, <1>3, <1>4, <1>5 DEF IInv

(* A task that has decided nothing yet has nothing to get wrong. *)
LEMMA EarlyInv ==
    ASSUME NEW t \in Task, OwnKeys(t)', phase'[t] \in Early,
           \A k \in Key : plan'[t][k].outcome = Skipped, job'[t].keys \in SUBSET Key
    PROVE  TaskInv(t)'
BY DEF TaskInv, OwnKeys, PlanInv, SavingInv, SavedInv, DeletingInv, Early, Saving, Deleting,
       Skipped, Indexed, Removed

LEMMA MessageInv ==
    ASSUME IInv, Overlap = FALSE, NEW t \in Task, Send(t) \/ Redeliver(t) \/ LeaveSlot(t)
    PROVE  IInv'
<1> USE DEF IInv
<1>1. TypeOK'
  BY MessageType
<1>2. ClockInv'
  BY DEF ClockInv, Send, Enqueue, Redeliver, LeaveSlot, world, store
<1>3. ASSUME NEW u \in Task, u # t PROVE TaskInv(u)'
  <2>1. /\ phase'[u] = phase[u] /\ job'[u] = job[u] /\ built'[u] = built[u]
        /\ plan'[u] = plan[u] /\ pending'[u] = pending[u] /\ todo'[u] = todo[u]
    BY <1>3 DEF TypeOK, Send, Enqueue, Redeliver, LeaveSlot, Forget
  <2>2. row' = row /\ hosted' = hosted
    BY DEF Send, Enqueue, Redeliver, LeaveSlot, store
  <2>3. QED
    BY <2>1, <2>2, Frame
<1>4. job'[t].keys \in SUBSET Key
  BY <1>1 DEF TypeOK, Job
<1>5. TaskInv(t)'
  <2>1. ASSUME NEW keys \in SUBSET Key, NEW force \in BOOLEAN, Enqueue(t, keys, force)
        PROVE  TaskInv(t)'
    <3>1. phase'[t] = "queued" /\ phase[t] = "idle"
      BY <2>1 DEF Enqueue, TypeOK
    <3>2. OwnKeys(t)'
      BY <2>1, <3>1 DEF Enqueue, TypeOK, TaskInv, OwnKeys
    <3>3. \A k \in Key : plan'[t][k].outcome = Skipped
      BY <2>1, <3>1 DEF Enqueue, TaskInv, PlanInv, Early
    <3>4. QED
      BY <1>4, <3>1, <3>2, <3>3, EarlyInv DEF Early
  <2>2. CASE Redeliver(t) \/ LeaveSlot(t)
    <3>1. /\ phase'[t] \in {"idle", "queued"} /\ pending'[t] = {} /\ todo'[t] = {}
          /\ plan'[t] = NoPlan
      BY <2>2 DEF Redeliver, LeaveSlot, Forget, TypeOK
    <3>2. phase'[t] = "idle" => job'[t].keys = {}
      BY <2>2 DEF Redeliver, LeaveSlot, TypeOK, NoJob
    <3>3. OwnKeys(t)'
      BY <3>1, <3>2 DEF OwnKeys
    <3>4. \A k \in Key : plan'[t][k].outcome = Skipped
      BY <3>1 DEF NoPlan, Decide
    <3>5. QED
      BY <1>4, <3>1, <3>3, <3>4, EarlyInv DEF Early
  <2>3. QED
    BY <2>1, <2>2 DEF Send
<1>6. Exclusive'
  <2>1. ASSUME NEW keys \in SUBSET Key, NEW force \in BOOLEAN, Enqueue(t, keys, force)
        PROVE  Exclusive'
    <3>1. ASSUME NEW u \in Task, u # t PROVE keys \intersect job[u].keys = {}
      BY <2>1 DEF Enqueue, Live, TaskInv, OwnKeys
    <3>2. job'[t].keys = keys /\ \A u \in Task \ {t} : job'[u] = job[u]
      BY <2>1 DEF Enqueue, TypeOK
    <3>3. QED
      BY <3>1, <3>2 DEF Exclusive
  <2>2. CASE Redeliver(t)
    BY <2>2 DEF Redeliver, Exclusive
  <2>3. CASE LeaveSlot(t)
    <3>1. job'[t].keys = {} /\ \A u \in Task \ {t} : job'[u] = job[u]
      BY <2>3 DEF LeaveSlot, TypeOK, NoJob
    <3>2. QED
      BY <3>1 DEF Exclusive
  <2>4. QED
    BY <2>1, <2>2, <2>3 DEF Send
<1>7. QED
  BY <1>1, <1>2, <1>3, <1>5, <1>6

(* Most steps of a task change the task alone. *)
LEMMA LocalInv ==
    ASSUME IInv, NEW t \in Task, TypeOK', TaskInv(t)',
           UNCHANGED <<world, row, hosted, job>>,
           \A u \in Task \ {t} :
               /\ phase'[u] = phase[u] /\ built'[u] = built[u] /\ plan'[u] = plan[u]
               /\ pending'[u] = pending[u] /\ todo'[u] = todo[u]
    PROVE  IInv'
<1>1. Exclusive'
  BY DEF IInv, Exclusive
<1>2. ClockInv'
  BY DEF IInv, ClockInv, world
<1>3. \A u \in Task \ {t} : TaskInv(u)'
  BY Frame DEF IInv
<1>4. QED
  BY <1>1, <1>2, <1>3 DEF IInv

LEMMA ReadInv ==
    ASSUME IInv, NEW t \in Task,
           HitMappings(t) \/ ComputeMappings(t) \/ StoreMappings(t) \/ LoadContent(t)
    PROVE  IInv'
<1> USE DEF IInv
<1>1. TypeOK'
  BY WorkType DEF Work
<1>2. /\ phase[t] \in Early /\ phase'[t] \in Early /\ phase'[t] # "idle"
      /\ UNCHANGED <<world, row, hosted, job, plan, pending, todo>>
      /\ \A u \in Task \ {t} : phase'[u] = phase[u] /\ built'[u] = built[u]
  BY DEF HitMappings, ComputeMappings, StoreMappings, LoadContent, store, reads, Early, TypeOK
<1>3. TaskInv(t)'
  <2>1. OwnKeys(t)'
    BY <1>2 DEF TaskInv, OwnKeys
  <2>2. \A k \in Key : plan'[t][k].outcome = Skipped
    BY <1>2 DEF TaskInv, PlanInv
  <2>3. QED
    BY <1>1, <1>2, <2>1, <2>2, EarlyInv DEF TypeOK, Job
<1>4. QED
  BY <1>1, <1>2, <1>3, LocalInv

LEMMA BuildInv ==
    ASSUME IInv, NEW t \in Task, BuildObjects(t)
    PROVE  IInv'
<1> USE DEF IInv
<1>1. TypeOK'
  BY WorkType DEF Work
<1>2. /\ phase[t] = "loaded" /\ phase'[t] = "resolving"
      /\ UNCHANGED <<world, row, hosted, job, plan, todo>>
      /\ pending'[t] = job[t].keys
      /\ \A k \in job[t].keys : built'[t][k].rev = content[k].rev
      /\ \A u \in Task \ {t} : /\ phase'[u] = phase[u] /\ built'[u] = built[u]
                               /\ pending'[u] = pending[u]
  BY DEF BuildObjects, store, TypeOK, Job
<1>3. TaskInv(t)'
  <2>1. OwnKeys(t)'
    BY <1>2 DEF TaskInv, OwnKeys
  <2>2. job[t].keys \in SUBSET Key
    BY DEF TypeOK, Job
  <2>3. PlanInv(t)'
    BY <1>2, <2>2 DEF TaskInv, PlanInv, Early, ClockInv, Skipped, Indexed, Removed
  <2>4. SavingInv(t)' /\ SavedInv(t)' /\ DeletingInv(t)'
    BY <1>2 DEF SavingInv, SavedInv, DeletingInv, Saving, Deleting
  <2>5. QED
    BY <2>1, <2>3, <2>4 DEF TaskInv
<1>4. QED
  BY <1>1, <1>2, <1>3, LocalInv

\* A decision never deletes what it saves, and a removal deletes all the row records.
LEMMA ResolveInv ==
    ASSUME IInv, NEW t \in Task, NEW k \in Key, Resolve(t, k) \/ ResolveFails(t, k)
    PROVE  IInv'
<1> USE DEF IInv
<1>1. TypeOK'
  BY WorkType DEF Work
<1>2. /\ phase[t] = "resolving"
      /\ UNCHANGED <<world, row, hosted, job, phase, built, todo>>
      /\ pending'[t] \subseteq pending[t]
      /\ \A j \in Key \ {k} : plan'[t][j] = plan[t][j]
      /\ \A u \in Task \ {t} : plan'[u] = plan[u] /\ pending'[u] = pending[u]
  BY DEF Resolve, ResolveFails, SetPlan, store, reads, TypeOK
<1>3. /\ plan'[t][k].outcome = Indexed => /\ plan'[t][k].desired = Indexed
                                          /\ built[t][k].shards # {}
                                          /\ plan'[t][k].del \intersect built[t][k].shards = {}
      /\ plan'[t][k].outcome = Removed => row[k].ids \subseteq plan'[t][k].del
  <2>1. CASE Resolve(t, k)
    <3> DEFINE d == ResolveDecision(row[k], seen[t][k], k \in indexable[t],
                                    built[t][k].shards, Hosted(k), job[t].force)
    <3>1. plan'[t][k] = d
      BY <2>1 DEF Resolve, SetPlan, TypeOK
    <3>2. /\ d.outcome = Indexed => /\ d.desired = Indexed /\ built[t][k].shards # {}
                                    /\ d.del \intersect built[t][k].shards = {}
          /\ d.outcome = Removed => row[k].ids \subseteq d.del
      BY DEF ResolveDecision, ExistingShardIds, Decide, Indexed, Removed, Skipped
    <3> HIDE DEF d
    <3>3. QED
      BY <3>1, <3>2
  <2>2. CASE ResolveFails(t, k)
    <3>1. plan'[t][k] = Decide(Failed, {})
      BY <2>2 DEF ResolveFails, SetPlan, TypeOK
    <3>2. QED
      BY <3>1 DEF Decide, Failed, Indexed, Removed
  <2>3. QED
    BY <2>1, <2>2
<1>4. TaskInv(t)'
  <2>1. OwnKeys(t)'
    BY <1>2 DEF TaskInv, OwnKeys
  <2>2. PlanInv(t)'
    <3>1. job[t].keys \in SUBSET Key
      BY DEF TypeOK, Job
    <3>2. PlanInv(t) /\ phase[t] \notin Early
      BY <1>2 DEF TaskInv, Early
    <3>3. ASSUME NEW j \in job[t].keys, j # k PROVE plan'[t][j] = plan[t][j]
      BY <1>2, <3>1, <3>3
    <3>4. QED
      BY <1>2, <1>3, <3>1, <3>2, <3>3 DEF PlanInv
  <2>3. SavingInv(t)' /\ SavedInv(t)' /\ DeletingInv(t)'
    BY <1>2 DEF SavingInv, SavedInv, DeletingInv, Saving, Deleting
  <2>4. QED
    BY <2>1, <2>2, <2>3 DEF TaskInv
<1>5. QED
  BY <1>1, <1>2, <1>4, LocalInv

(* The steps that open a pass, and the bulk calls that raise. *)
LEMMA PassInv ==
    ASSUME IInv, NEW t \in Task,
           \/ BeginSaves(t) \/ BulkSaveRaises(t)
           \/ BeginDeletes(t) \/ BulkDeleteRaises(t) \/ BeginFinalize(t)
    PROVE  IInv'
<1> USE DEF IInv
<1>1. TypeOK'
  BY WorkType DEF Work
<1>2. /\ UNCHANGED <<world, row, hosted, job, built, plan>>
      /\ \A u \in Task \ {t} : /\ phase'[u] = phase[u] /\ todo'[u] = todo[u]
                               /\ pending'[u] = pending[u]
  BY DEF BeginSaves, BulkSaveRaises, BeginDeletes, BulkDeleteRaises, BeginFinalize,
         store, reads, TypeOK
<1>3. CASE BeginSaves(t) \/ BulkSaveRaises(t)
  <2>1. /\ phase[t] \in {"resolving", "saving"} /\ phase'[t] \in Saving
        /\ todo'[t] = ObjectsToSave(t) /\ UNCHANGED pending
    BY <1>3 DEF BeginSaves, BulkSaveRaises, Saving, TypeOK
  <2>2. OwnKeys(t)'
    BY <1>2, <2>1 DEF TaskInv, OwnKeys, ObjectsToSave, Saving
  <2>3. PlanInv(t)'
    BY <1>2, <2>1 DEF TaskInv, PlanInv, Early, Saving
  <2>4. SavingInv(t)'
    <3>1. ASSUME NEW k \in job[t].keys, plan[t][k].outcome = Indexed,
                 NEW s \in built[t][k].shards
          PROVE  <<k, s>> \in ObjectsToSave(t)
      <4>1. k \in Key /\ s \in Shard
        BY DEF TypeOK, Job, Objects
      <4>2. plan[t][k].desired = Indexed
        BY <3>1 DEF TaskInv, PlanInv
      <4>3. QED
        BY <4>1, <4>2 DEF ObjectsToSave
    <3>2. QED
      BY <1>2, <2>1, <3>1 DEF SavingInv
  <2>5. SavedInv(t)' /\ DeletingInv(t)'
    BY <2>1 DEF SavedInv, DeletingInv, Saving, Deleting
  <2>6. QED
    BY <1>1, <1>2, <2>2, <2>3, <2>4, <2>5, LocalInv DEF TaskInv
<1>4. CASE BeginDeletes(t) \/ BulkDeleteRaises(t)
  <2>1. /\ (phase[t] \in Saving /\ todo[t] = {}) \/ phase[t] = "deleting"
        /\ phase'[t] \in Deleting
        /\ todo'[t] = ObjectsToDelete(t) /\ UNCHANGED pending
    BY <1>4 DEF BeginDeletes, BulkDeleteRaises, Deleting, TypeOK
  <2>2. OwnKeys(t)'
    BY <1>2, <2>1 DEF TaskInv, OwnKeys, ObjectsToDelete, Saving, Deleting
  <2>3. PlanInv(t)'
    BY <1>2, <2>1 DEF TaskInv, PlanInv, Early, Saving, Deleting
  <2>4. SavedInv(t)'
    BY <1>2, <2>1 DEF TaskInv, SavingInv, SavedInv, Saving, Deleting
  <2>5. DeletingInv(t)'
    <3>1. ASSUME NEW k \in job[t].keys, plan[t][k].outcome = Removed, NEW s \in plan[t][k].del
          PROVE  <<k, s>> \in ObjectsToDelete(t)
      <4>1. k \in Key /\ s \in Shard
        BY DEF TypeOK, Job, Decision
      <4>2. QED
        BY <3>1, <4>1 DEF ObjectsToDelete
    <3>2. QED
      BY <1>2, <2>1, <3>1 DEF DeletingInv, ObjectsToDelete
  <2>6. SavingInv(t)'
    BY <2>1 DEF SavingInv, Saving, Deleting
  <2>7. QED
    BY <1>1, <1>2, <2>2, <2>3, <2>4, <2>5, <2>6, LocalInv DEF TaskInv
<1>5. CASE BeginFinalize(t)
  <2>1. /\ phase[t] \in Deleting /\ todo[t] = {} /\ phase'[t] = "finalizing"
        /\ todo' = todo /\ pending'[t] = job[t].keys
    BY <1>5 DEF BeginFinalize, TypeOK
  <2>2. OwnKeys(t)'
    BY <1>2, <2>1 DEF TaskInv, OwnKeys
  <2>3. PlanInv(t)'
    BY <1>2, <2>1 DEF TaskInv, PlanInv, Early, Deleting
  <2>4. SavedInv(t)' /\ DeletingInv(t)'
    BY <1>2, <2>1 DEF TaskInv, SavedInv, DeletingInv, Deleting
  <2>5. SavingInv(t)'
    BY <2>1 DEF SavingInv, Saving
  <2>6. QED
    BY <1>1, <1>2, <2>2, <2>3, <2>4, <2>5, LocalInv DEF TaskInv
<1>6. QED
  BY <1>3, <1>4, <1>5

(* A record that gives up is FAILED, and the rest of the pass does not touch it. *)
LEMMA GiveUpInv ==
    ASSUME IInv, NEW t \in Task, NEW k \in Key, RecordSaveRaises(t, k) \/ RecordDeleteRaises(t, k)
    PROVE  IInv'
<1> USE DEF IInv
<1>1. TypeOK'
  BY WorkType DEF Work
<1>2. /\ phase[t] \in {"savingEach", "deletingEach"}
      /\ UNCHANGED <<world, row, hosted, job, phase, built, pending>>
      /\ todo'[t] = {o \in todo[t] : o[1] # k}
      /\ \A u \in Task \ {t} : plan'[u] = plan[u] /\ todo'[u] = todo[u]
  BY DEF RecordSaveRaises, RecordDeleteRaises, GiveUpRecord, store, reads, TypeOK
<1>3. /\ plan'[t][k].outcome \notin {Indexed, Removed}
      /\ \A j \in Key \ {k} : plan'[t][j] = plan[t][j]
  <2>1. plan'[t] = [plan[t] EXCEPT ![k] = [plan[t][k] EXCEPT !.outcome = Failed]]
    BY DEF RecordSaveRaises, RecordDeleteRaises, GiveUpRecord, TypeOK
  <2>2. plan[t] \in [Key -> Decision]
    BY DEF TypeOK
  <2>3. [plan[t][k] EXCEPT !.outcome = Failed].outcome = Failed
    BY <2>2 DEF Decision
  <2>4. QED
    BY <2>1, <2>2, <2>3 DEF Failed, Indexed, Removed
<1>4. job[t].keys \in SUBSET Key /\ todo[t] \in SUBSET (Key \X Shard)
  BY DEF TypeOK, Job
<1>5. OwnKeys(t)'
  BY <1>2 DEF TaskInv, OwnKeys
<1>6. PlanInv(t)'
  BY <1>2, <1>3, <1>4 DEF TaskInv, PlanInv, Early
<1>7. SavingInv(t)'
  BY <1>2, <1>3, <1>4 DEF TaskInv, SavingInv
<1>8. SavedInv(t)'
  BY <1>2, <1>3, <1>4 DEF TaskInv, SavedInv
<1>9. DeletingInv(t)'
  BY <1>2, <1>3, <1>4 DEF TaskInv, DeletingInv
<1>10. QED
  BY <1>1, <1>2, <1>5, <1>6, <1>7, <1>8, <1>9, LocalInv DEF TaskInv

(* What a task does to Algolia and to the rows it does to its own keys. *)
LEMMA SharedInv ==
    ASSUME IInv, NEW t \in Task, TypeOK', TaskInv(t)', NEW k \in job[t].keys,
           UNCHANGED <<world, job, phase, built, plan>>,
           \A j \in Key \ {k} : row'[j] = row[j] /\ hosted'[j] = hosted[j],
           row'[k].lastIndexed <= clock,
           \A u \in Task \ {t} : pending'[u] = pending[u] /\ todo'[u] = todo[u]
    PROVE  IInv'
<1>1. Exclusive'
  BY DEF IInv, Exclusive
<1>2. ClockInv'
  BY DEF IInv, ClockInv, world
<1>3. ASSUME NEW u \in Task, u # t PROVE TaskInv(u)'
  <2>1. job[u].keys \in SUBSET Key /\ k \notin job[u].keys
    BY <1>3 DEF IInv, Exclusive, TypeOK, Job
  <2>2. \A j \in job[u].keys : row'[j].ids = row[j].ids /\ hosted'[j] = hosted[j]
    BY <2>1
  <2>3. QED
    BY <1>3, <2>2, Frame DEF IInv
<1>4. QED
  BY <1>1, <1>2, <1>3 DEF IInv

LEMMA SaveInv ==
    ASSUME IInv, NEW t \in Task, NEW o \in Key \X Shard, SaveObject(t, o)
    PROVE  IInv'
<1> USE DEF IInv
<1>1. TypeOK'
  BY WorkType DEF Work
<1>2. PICK k \in Key, s \in Shard : o = <<k, s>>
  OBVIOUS
<1>3. k \in job[t].keys
  BY <1>2 DEF SaveObject, TaskInv, OwnKeys
<1>4. /\ phase[t] \in Saving
      /\ UNCHANGED <<world, row, job, phase, built, plan, pending>>
      /\ todo'[t] = todo[t] \ {<<k, s>>}
      /\ \A u \in Task \ {t} : todo'[u] = todo[u]
  BY <1>2 DEF SaveObject, reads, TypeOK
<1>5. /\ hosted'[k][s] = built[t][k].rev
      /\ \A r \in Shard \ {s} : hosted'[k][r] = hosted[k][r]
      /\ \A j \in Key \ {k} : hosted'[j] = hosted[j]
  BY <1>2 DEF SaveObject, TypeOK
<1>6. TaskInv(t)'
  <2>1. OwnKeys(t)'
    BY <1>4 DEF TaskInv, OwnKeys
  <2>2. PlanInv(t)'
    BY <1>4 DEF TaskInv, PlanInv
  <2>3. SavingInv(t)'
    <3>1. ASSUME NEW j \in job[t].keys, plan[t][j].outcome = Indexed,
                 NEW r \in built[t][j].shards
          PROVE  <<j, r>> \in todo'[t] \/ hosted'[j][r] = built[t][j].rev
      <4>1. j \in Key /\ r \in Shard
        BY DEF TypeOK, Job, Objects
      <4>2. <<j, r>> \in todo[t] \/ hosted[j][r] = built[t][j].rev
        BY <1>4, <3>1 DEF TaskInv, SavingInv
      <4>3. QED
        BY <1>4, <1>5, <4>1, <4>2
    <3>2. QED
      BY <1>4, <3>1 DEF SavingInv
  <2>4. SavedInv(t)' /\ DeletingInv(t)'
    BY <1>4 DEF SavedInv, DeletingInv, Saving, Deleting
  <2>5. QED
    BY <2>1, <2>2, <2>3, <2>4 DEF TaskInv
<1>7. row'[k].lastIndexed <= clock
  BY <1>4 DEF ClockInv
<1>8. QED
  BY <1>1, <1>3, <1>4, <1>5, <1>6, <1>7, SharedInv

LEMMA DeleteInv ==
    ASSUME IInv, NEW t \in Task, NEW o \in Key \X Shard, DeleteObject(t, o)
    PROVE  IInv'
<1> USE DEF IInv
<1>1. TypeOK'
  BY WorkType DEF Work
<1>2. PICK k \in Key, s \in Shard : o = <<k, s>>
  OBVIOUS
<1>3. k \in job[t].keys
  BY <1>2 DEF DeleteObject, TaskInv, OwnKeys
<1>4. /\ phase[t] \in Deleting /\ <<k, s>> \in todo[t]
      /\ UNCHANGED <<world, row, job, phase, built, plan, pending>>
      /\ todo'[t] = todo[t] \ {<<k, s>>}
      /\ \A u \in Task \ {t} : todo'[u] = todo[u]
  BY <1>2 DEF DeleteObject, reads, TypeOK
<1>5. /\ hosted'[k][s] = Never
      /\ \A r \in Shard \ {s} : hosted'[k][r] = hosted[k][r]
      /\ \A j \in Key \ {k} : hosted'[j] = hosted[j]
  BY <1>2 DEF DeleteObject, TypeOK
<1>6. s \in plan[t][k].del
  BY <1>4 DEF TaskInv, DeletingInv
<1>7. ASSUME NEW j \in job[t].keys
      PROVE  j \in Key /\ built[t][j].shards \subseteq Shard /\ plan[t][j].del \subseteq Shard
  BY DEF TypeOK, Job, Objects, Decision
<1>8. TaskInv(t)'
  <2>1. OwnKeys(t)'
    BY <1>4 DEF TaskInv, OwnKeys
  <2>2. PlanInv(t)'
    BY <1>4 DEF TaskInv, PlanInv
  <2>3. SavedInv(t)'
    <3>1. ASSUME NEW j \in job[t].keys, plan[t][j].outcome = Indexed,
                 NEW r \in built[t][j].shards
          PROVE  hosted'[j][r] = built[t][j].rev
      <4>1. hosted[j][r] = built[t][j].rev
        BY <1>4, <3>1 DEF TaskInv, SavedInv
      <4>2. <<j, r>> # <<k, s>>
        BY <1>3, <1>6, <3>1 DEF TaskInv, PlanInv
      <4>3. QED
        BY <1>5, <1>7, <4>1, <4>2
    <3>2. QED
      BY <1>4, <3>1 DEF SavedInv
  <2>4. DeletingInv(t)'
    <3>1. ASSUME NEW j \in job[t].keys, plan[t][j].outcome = Removed, NEW r \in plan[t][j].del
          PROVE  <<j, r>> \in todo'[t] \/ hosted'[j][r] = Never
      <4>1. <<j, r>> \in todo[t] \/ hosted[j][r] = Never
        BY <1>4, <3>1 DEF TaskInv, DeletingInv
      <4>2. QED
        BY <1>4, <1>5, <1>7, <4>1
    <3>2. QED
      BY <1>4, <3>1 DEF TaskInv, DeletingInv
  <2>5. SavingInv(t)'
    BY <1>4 DEF SavingInv, Saving, Deleting
  <2>6. QED
    BY <2>1, <2>2, <2>3, <2>4, <2>5 DEF TaskInv
<1>9. row'[k].lastIndexed <= clock
  BY <1>4 DEF ClockInv
<1>10. QED
  BY <1>1, <1>3, <1>4, <1>5, <1>8, <1>9, SharedInv

LEMMA FinalizeInv ==
    ASSUME IInv, NEW t \in Task, NEW k \in Key, Finalize(t, k) \/ FinalizeRaises(t, k)
    PROVE  IInv'
<1> USE DEF IInv
<1>1. TypeOK'
  BY WorkType DEF Work
<1>2. /\ phase[t] = "finalizing"
      /\ UNCHANGED <<world, hosted, job, phase, built, plan, todo>>
      /\ pending'[t] \subseteq pending[t]
      /\ \A u \in Task \ {t} : pending'[u] = pending[u]
  BY DEF Finalize, FinalizeRaises, store, reads, TypeOK
<1>3. k \in job[t].keys
  BY DEF Finalize, FinalizeRaises, TaskInv, OwnKeys
<1>4. /\ \A j \in Key \ {k} : row'[j] = row[j]
      /\ row'[k] \in {row[k], FinalRow(t, k)}
  BY DEF Finalize, FinalizeRaises, store, TypeOK
<1>5. /\ row'[k].lastIndexed <= clock
      /\ row'[k].ids = row[k].ids \/ plan[t][k].outcome = Indexed
  <2>1. clock \in Nat /\ row[k] \in Row /\ row[k].lastIndexed <= clock
    BY DEF TypeOK, ClockInv
  <2>2. /\ MarkAsIndexed(row[k], built[t][k].shards, clock).lastIndexed = clock
        /\ MarkAsRemoved(row[k]).lastIndexed = row[k].lastIndexed
        /\ MarkAsRemoved(row[k]).ids = row[k].ids
        /\ MarkAsFailed(row[k]).lastIndexed = row[k].lastIndexed
        /\ MarkAsFailed(row[k]).ids = row[k].ids
    BY <2>1 DEF MarkAsIndexed, MarkAsRemoved, MarkAsFailed, Row
  <2>3. QED
    BY <1>4, <2>1, <2>2 DEF FinalRow
<1>6. TaskInv(t)'
  <2>1. OwnKeys(t)'
    BY <1>2 DEF TaskInv, OwnKeys
  <2>2. PlanInv(t)'
    <3>1. job[t].keys \in SUBSET Key
      BY DEF TypeOK, Job
    <3>2. ASSUME NEW j \in job[t].keys, plan[t][j].outcome = Removed PROVE row'[j].ids = row[j].ids
      BY <1>4, <1>5, <3>1, <3>2 DEF Indexed, Removed
    <3>3. QED
      BY <1>2, <3>2 DEF TaskInv, PlanInv
  <2>3. SavingInv(t)' /\ SavedInv(t)' /\ DeletingInv(t)'
    BY <1>2 DEF TaskInv, SavingInv, SavedInv, DeletingInv
  <2>4. QED
    BY <2>1, <2>2, <2>3 DEF TaskInv
<1>7. QED
  BY <1>1, <1>2, <1>3, <1>4, <1>5, <1>6, SharedInv

LEMMA StepInv ==
    ASSUME Overlap = FALSE, IInv, [Next]_vars
    PROVE  IInv'
<1>1. CASE World
  BY <1>1, WorldInv
<1>2. ASSUME NEW t \in Task, Send(t) \/ Redeliver(t) \/ Abort(t) PROVE IInv'
  BY <1>2, MessageInv DEF Abort
<1>3. ASSUME NEW t \in Task, Work(t) PROVE IInv'
  BY <1>3, ReadInv, BuildInv, ResolveInv, PassInv, GiveUpInv, SaveInv, DeleteInv, FinalizeInv,
     MessageInv DEF Work, Finish
<1>4. CASE UNCHANGED vars
  <2>1. TypeOK' /\ Exclusive' /\ ClockInv'
    BY <1>4 DEF IInv, TypeOK, Exclusive, ClockInv, vars
  <2>2. \A t \in Task : TaskInv(t)'
    BY <1>4, Frame DEF IInv, vars
  <2>3. QED
    BY <2>1, <2>2 DEF IInv
<1>5. QED
  BY <1>1, <1>2, <1>3, <1>4 DEF Next

-----------------------------------------------------------------------------

LEMMA InvAlways ==
    ASSUME Overlap = FALSE
    PROVE  Spec => []IInv
<1>1. IInv /\ [Next]_vars => IInv'
  BY StepInv
<1>2. QED
  BY InitInv, <1>1, PTL DEF Spec

(* As long as no two live tasks hold the same key, whatever a bulk call loses, a
   per-record retry gives up on or a redelivery repeats, a task that deletes the
   orphans of a record has hosted every object it built for it (_execute_saves
   before _execute_deletes, outcome FAILED in the per-record fallback). *)
THEOREM DeletesFollowSaves ==
    ASSUME Overlap = FALSE
    PROVE  Spec => []SavedBeforeDeleted
<1>1. IInv => SavedBeforeDeleted
  <2> SUFFICES ASSUME IInv, NEW t \in Task, NEW k \in Key,
                      phase[t] \in Deleting \union {"finalizing"},
                      k \in job[t].keys, plan[t][k].outcome = Indexed
               PROVE  /\ built[t][k].shards # {}
                      /\ \A s \in built[t][k].shards : hosted[k][s] = built[t][k].rev
    BY DEF SavedBeforeDeleted
  <2>1. PlanInv(t) /\ SavedInv(t)
    BY DEF IInv, TaskInv
  <2>2. QED
    BY <2>1 DEF PlanInv, SavedInv
<1>2. QED
  BY InvAlways, <1>1, PTL

(* The one step of the program that takes an object out of the index. *)
LEMMA DeleteKeepsOrWithdraws ==
    ASSUME IInv, NEW t \in Task, NEW k \in Key, NEW s \in Shard, DeleteObject(t, <<k, s>>)
    PROVE  k \in Withdrawing \/ Hosted(k) \ {s} # {}
<1>1. phase[t] \in Deleting /\ <<k, s>> \in todo[t] /\ TaskInv(t)
  BY DEF DeleteObject, IInv
<1>2. /\ k \in job[t].keys /\ s \in plan[t][k].del
      /\ plan[t][k].outcome \in {Indexed, Removed}
  BY <1>1 DEF TaskInv, OwnKeys, DeletingInv
<1>3. CASE plan[t][k].outcome = Removed
  BY <1>2, <1>3 DEF Withdrawing
<1>4. CASE plan[t][k].outcome = Indexed
  <2>1. PICK r \in built[t][k].shards : TRUE
    BY <1>1, <1>2, <1>4 DEF TaskInv, PlanInv
  <2>2. r # s
    BY <1>1, <1>2, <1>4, <2>1 DEF TaskInv, PlanInv
  <2>3. hosted[k][r] # Never
    BY <1>1, <1>2, <1>4, <2>1 DEF TaskInv, PlanInv, SavedInv, Early, Deleting
  <2>4. r \in Shard
    BY <2>1 DEF IInv, TypeOK, Objects
  <2>5. QED
    BY <2>2, <2>3, <2>4 DEF Hosted
<1>5. QED
  BY <1>2, <1>3, <1>4

(* How the steps that reach Algolia change the set of hosted shards. *)
LEMMA HostedAfter ==
    ASSUME IInv, NEW t \in Task, NEW k \in Key, NEW s \in Shard
    PROVE  /\ SaveObject(t, <<k, s>>) =>
                \A j \in Key : Hosted(j)' = IF j = k THEN Hosted(j) \union {s} ELSE Hosted(j)
           /\ DeleteObject(t, <<k, s>>) =>
                \A j \in Key : Hosted(j)' = IF j = k THEN Hosted(j) \ {s} ELSE Hosted(j)
<1>1. hosted \in [Key -> [Shard -> Nat]] /\ TaskInv(t)
  BY DEF IInv, TypeOK
<1>2. ASSUME SaveObject(t, <<k, s>>) PROVE built[t][k].rev # Never
  <2>1. phase[t] \in Saving /\ <<k, s>> \in todo[t]
    BY <1>2 DEF SaveObject
  <2>2. QED
    BY <1>1, <2>1 DEF TaskInv, OwnKeys, PlanInv, Saving, Early
<1>3. SaveObject(t, <<k, s>>) => hosted' = [hosted EXCEPT ![k][s] = built[t][k].rev]
  BY DEF SaveObject
<1>4. DeleteObject(t, <<k, s>>) => hosted' = [hosted EXCEPT ![k][s] = Never]
  BY DEF DeleteObject
<1>5. QED
  BY <1>1, <1>2, <1>3, <1>4 DEF Hosted

(* Every other step leaves the index alone. *)
LEMMA IndexUntouched ==
    ASSUME [Next]_vars,
           \A t \in Task, k \in Key, s \in Shard :
               ~ SaveObject(t, <<k, s>>) /\ ~ DeleteObject(t, <<k, s>>)
    PROVE  UNCHANGED hosted
<1>1. \A t \in Task, o \in Key \X Shard : ~ SaveObject(t, o) /\ ~ DeleteObject(t, o)
  OBVIOUS
<1>2. CASE World
  BY <1>2 DEF World, EditContent, ChangeMembership, DeadlinePasses, DropMappings, store
<1>3. ASSUME NEW t \in Task, Send(t) \/ Redeliver(t) \/ Abort(t) PROVE UNCHANGED hosted
  BY <1>3 DEF Send, Enqueue, Redeliver, Abort, LeaveSlot, store
<1>4. ASSUME NEW t \in Task, Work(t) PROVE UNCHANGED hosted
  BY <1>1, <1>4 DEF Work, HitMappings, ComputeMappings, StoreMappings, LoadContent, BuildObjects,
     BeginSaves, BulkSaveRaises, BeginDeletes, BulkDeleteRaises, BeginFinalize, Finish, LeaveSlot,
     Resolve, ResolveFails, RecordSaveRaises, RecordDeleteRaises, GiveUpRecord, Finalize,
     FinalizeRaises, store
<1>5. QED
  BY <1>2, <1>3, <1>4 DEF Next, vars

(* As long as no two live tasks hold the same key, a record that Algolia hosts goes
   dark only because a task decided to remove it, at any interleaving, after any
   failure and any redelivery. *)
THEOREM NeverDarkAlways ==
    ASSUME Overlap = FALSE
    PROVE  Spec => NeverDark
<1>1. ASSUME IInv, [Next]_vars, NEW k \in Key, Hosted(k) # {}, Hosted(k)' = {}
      PROVE  k \in Withdrawing
  <2>1. ASSUME NEW t \in Task, NEW j \in Key, NEW s \in Shard, SaveObject(t, <<j, s>>)
        PROVE  FALSE
    BY <1>1, <2>1, HostedAfter
  <2>2. ASSUME NEW t \in Task, NEW j \in Key, NEW s \in Shard, DeleteObject(t, <<j, s>>)
        PROVE  k \in Withdrawing
    BY <1>1, <2>2, HostedAfter, DeleteKeepsOrWithdraws
  <2>3. CASE UNCHANGED hosted
    BY <1>1, <2>3 DEF Hosted
  <2>4. QED
    BY <1>1, <2>1, <2>2, <2>3, IndexUntouched
<1>2. IInv /\ [Next]_vars =>
          [\A k \in Key : Hosted(k) # {} /\ Hosted(k)' = {} => k \in Withdrawing]_vars
  BY <1>1
<1>3. QED
  BY InvAlways, <1>2, PTL DEF Spec, NeverDark

-----------------------------------------------------------------------------
(* The refinement.                                                           *)

LEMMA InitImplements == Init => Contract!CInit
BY DEF Init, Contract!CInit, Hosted, Withdrawing, EmptyRow, Contract!EmptyRow, Never,
       Contract!Never, NoJob

(* A step that touches neither the rows nor the index changes a task's mind at most. *)
LEMMA Quiet == UNCHANGED store => Contract!Reconsider
BY DEF store, Contract!Reconsider, Hosted, Withdrawing

LEMMA SaveImplements ==
    ASSUME IInv, NEW t \in Task, NEW k \in Key, NEW s \in Shard, SaveObject(t, <<k, s>>)
    PROVE  Contract!Upsert(k, s)
<1>1. UNCHANGED <<row, job, plan>>
  BY DEF SaveObject, reads
<1>2. Withdrawing' = Withdrawing
  BY <1>1 DEF Withdrawing
<1>3. QED
  BY <1>1, <1>2, HostedAfter DEF Contract!Upsert

LEMMA DeleteImplements ==
    ASSUME IInv, NEW t \in Task, NEW k \in Key, NEW s \in Shard, DeleteObject(t, <<k, s>>)
    PROVE  Contract!Prune(k, s) \/ Contract!Withdraw(k, s)
<1>1. UNCHANGED <<row, job, plan>>
  BY DEF DeleteObject, reads
<1>2. Withdrawing' = Withdrawing
  BY <1>1 DEF Withdrawing
<1>3. QED
  BY <1>1, <1>2, HostedAfter, DeleteKeepsOrWithdraws DEF Contract!Prune, Contract!Withdraw

LEMMA FinalizeImplements ==
    ASSUME IInv, NEW t \in Task, NEW k \in Key, Finalize(t, k)
    PROVE  Contract!CNext
<1>1. /\ phase[t] = "finalizing" /\ k \in job[t].keys /\ TaskInv(t) /\ row[k] \in Row
      /\ row' = [row EXCEPT ![k] = FinalRow(t, k)]
      /\ UNCHANGED <<hosted, job, plan>>
  BY DEF Finalize, IInv, TypeOK, TaskInv, OwnKeys, reads
<1>2. Withdrawing' = Withdrawing /\ \A j \in Key : Hosted(j)' = Hosted(j)
  BY <1>1 DEF Withdrawing, Hosted
<1>3. CASE plan[t][k].outcome = Indexed
  <2> DEFINE ids == built[t][k].shards
  <2>1. ids \in SUBSET Shard /\ ids # {} /\ ids \subseteq Hosted(k)
    <3>1. ids \in SUBSET Shard
      BY DEF IInv, TypeOK, Objects
    <3>2. ids # {} /\ \A s \in ids : hosted[k][s] # Never
      BY <1>1, <1>3 DEF TaskInv, PlanInv, SavedInv, Early
    <3>3. QED
      BY <3>1, <3>2 DEF Hosted
  <2>2. k \notin Withdrawing
    BY <1>1, <1>3 DEF Withdrawing, IInv, Exclusive, Indexed, Removed
  <2>3. clock \in 1..MaxClock /\ clock >= row[k].lastIndexed
    <3>1. clock \in 1..MaxClock /\ row[k].lastIndexed <= clock
      BY DEF IInv, ClockInv
    <3>2. row[k].lastIndexed \in Nat
      BY <1>1 DEF Row
    <3>3. QED
      BY <3>1, <3>2
  <2>4. row' = [row EXCEPT ![k] = [lastIndexed |-> clock, failed |-> FALSE,
                                   removed |-> FALSE, ids |-> ids]]
    <3>1. FinalRow(t, k) = MarkAsIndexed(row[k], ids, clock)
      BY <1>3 DEF FinalRow, Indexed, Removed, Failed
    <3>2. QED
      BY <1>1, <3>1 DEF MarkAsIndexed
  <2>5. Contract!StampIndexed(k, ids, clock)
    BY <1>2, <2>1, <2>2, <2>3, <2>4 DEF Contract!StampIndexed
  <2>6. QED
    BY <2>1, <2>3, <2>5 DEF Contract!CNext
<1>4. CASE plan[t][k].outcome = Removed
  <2>1. k \in Withdrawing
    BY <1>1, <1>4 DEF Withdrawing
  <2>2. row[k].ids \intersect Hosted(k) = {}
    <3>1. row[k].ids \subseteq plan[t][k].del
      BY <1>1, <1>4 DEF TaskInv, PlanInv
    <3>2. \A s \in plan[t][k].del : hosted[k][s] = Never
      BY <1>1, <1>4 DEF TaskInv, DeletingInv, Deleting
    <3>3. QED
      BY <3>1, <3>2 DEF Hosted
  <2>3. row' = [row EXCEPT ![k].removed = TRUE]
    <3>1. FinalRow(t, k) = MarkAsRemoved(row[k])
      BY <1>4 DEF FinalRow, Indexed, Removed, Failed
    <3>2. QED
      BY <1>1, <3>1 DEF MarkAsRemoved
  <2>4. Contract!StampRemoved(k)
    BY <1>2, <2>1, <2>2, <2>3 DEF Contract!StampRemoved
  <2>5. QED
    BY <2>4 DEF Contract!CNext
<1>5. CASE plan[t][k].outcome \notin {Indexed, Removed}
  <2>1. FinalRow(t, k) \in {row[k], MarkAsFailed(row[k])}
    BY <1>5 DEF FinalRow
  <2>2. CASE FinalRow(t, k) = row[k]
    <3>1. row' = row
      BY <1>1, <2>2 DEF IInv, TypeOK
    <3>2. QED
      BY <1>1, <3>1, Quiet DEF store, Contract!CNext
  <2>3. CASE FinalRow(t, k) = MarkAsFailed(row[k])
    <3>1. Contract!StampFailed(k)
      BY <1>1, <1>2, <2>3 DEF Contract!StampFailed, MarkAsFailed
    <3>2. QED
      BY <3>1 DEF Contract!CNext
  <2>4. QED
    BY <2>1, <2>2, <2>3
<1>6. QED
  BY <1>3, <1>4, <1>5

(* Neither the index nor the rows change in any other step. *)
LEMMA StoreUntouched ==
    ASSUME [Next]_vars,
           \A t \in Task, k \in Key, s \in Shard :
               ~ SaveObject(t, <<k, s>>) /\ ~ DeleteObject(t, <<k, s>>),
           \A t \in Task, k \in Key : ~ Finalize(t, k)
    PROVE  UNCHANGED store
<1>1. UNCHANGED hosted
  BY IndexUntouched
<1>2. UNCHANGED row
  <2>1. CASE World
    BY <2>1 DEF World, EditContent, ChangeMembership, DeadlinePasses, DropMappings, store
  <2>2. ASSUME NEW t \in Task, Send(t) \/ Redeliver(t) \/ Abort(t) PROVE UNCHANGED row
    BY <2>2 DEF Send, Enqueue, Redeliver, Abort, LeaveSlot, store
  <2>3. ASSUME NEW t \in Task, Work(t) PROVE UNCHANGED row
    BY <2>3 DEF Work, HitMappings, ComputeMappings, StoreMappings, LoadContent, BuildObjects,
       BeginSaves, BulkSaveRaises, BeginDeletes, BulkDeleteRaises, BeginFinalize, Finish,
       LeaveSlot, SaveObject, DeleteObject, Resolve, ResolveFails, RecordSaveRaises,
       RecordDeleteRaises, GiveUpRecord, FinalizeRaises, store
  <2>4. QED
    BY <2>1, <2>2, <2>3 DEF Next, vars
<1>3. QED
  BY <1>1, <1>2 DEF store

(* As long as no two live tasks hold the same key, the batch tasks implement
   IndexContract: what docs/decisions/0012 promises of the index and of the rows
   holds for every number of tasks, keys and shards. *)
THEOREM BatchImplementsContract ==
    ASSUME Overlap = FALSE
    PROVE  Spec => ImplementsContract
<1>1. ASSUME IInv, [Next]_vars PROVE Contract!CNext
  <2>1. ASSUME NEW t \in Task, NEW k \in Key, NEW s \in Shard,
               SaveObject(t, <<k, s>>) \/ DeleteObject(t, <<k, s>>)
        PROVE  Contract!CNext
    BY <1>1, <2>1, SaveImplements, DeleteImplements DEF Contract!CNext
  <2>2. ASSUME NEW t \in Task, NEW k \in Key, Finalize(t, k) PROVE Contract!CNext
    BY <1>1, <2>2, FinalizeImplements
  <2>3. CASE UNCHANGED store
    BY <2>3, Quiet DEF Contract!CNext
  <2>4. QED
    BY <1>1, <2>1, <2>2, <2>3, StoreUntouched
<1>2. IInv /\ [Next]_vars => [Contract!CNext]_(Contract!cvars)
  BY <1>1
<1>3. QED
  BY InitImplements, InvAlways, <1>2, PTL DEF Spec, ImplementsContract, Contract!CSpec

-----------------------------------------------------------------------------
(* IndexDispatch: canvases.                                                *)

\* What the groups of a canvas are still to index.
Pending(g) == UNION {g[i] : i \in DOMAIN g}

\* No record comes before a part of it, or at the same time.
PartsFirst(g) ==
    \A i, j \in DOMAIN g : i <= j =>
        \A a \in g[i] \intersect Record, b \in g[j] : b \notin Child[a]

\* A part of an item of a canvas is in an earlier group, or not in the canvas.
LEMMA TypesInOrder ==
    ASSUME NEW items \in SUBSET Item
    PROVE  PartsFirst(<<items \intersect Course, items \intersect Program,
                        items \intersect Pathway, items \intersect Video>>)
<1> DEFINE s == <<items \intersect Course, items \intersect Program,
                  items \intersect Pathway, items \intersect Video>>
<1> SUFFICES ASSUME NEW i \in 1..4, NEW j \in 1..4, i <= j,
                    NEW a \in s[i] \intersect Record, NEW b \in s[j]
             PROVE  b \notin Child[a]
  BY DEF PartsFirst
<1>1. s[1] \subseteq Course /\ s[2] \subseteq Program /\ s[3] \subseteq Pathway /\ s[4] \subseteq Video
  OBVIOUS
<1> HIDE DEF s
<1>2. CASE i = 1
  BY <1>1, <1>2, ChildAssumption
<1>3. CASE i = 2
  <2>1. b \in Program \union Pathway \union Video /\ Child[a] \subseteq Course
    BY <1>1, <1>3, ChildAssumption
  <2> QED
    BY <2>1, KeyAssumption DEF Record
<1>4. CASE i = 3
  <2>1. b \in Pathway \union Video /\ Child[a] \subseteq Program
    BY <1>1, <1>4, ChildAssumption
  <2> QED
    BY <2>1, KeyAssumption DEF Record
<1>5. CASE i = 4
  BY <1>1, <1>5, KeyAssumption
<1> QED
  BY <1>2, <1>3, <1>4, <1>5

\* A canvas has everything it is built for, parts first.
LEMMA GroupsBuilt ==
    ASSUME NEW items \in SUBSET Item
    PROVE  /\ OrderedGroups(items) \in Seq(SUBSET Item)
           /\ Pending(OrderedGroups(items)) = items
           /\ PartsFirst(OrderedGroups(items))
<1> DEFINE s == <<items \intersect Course, items \intersect Program,
                  items \intersect Pathway, items \intersect Video>>
           I == {i \in DOMAIN s : s[i] # {}}
           g == At(s, I)
<1>1. OrderedGroups(items) = g
  BY DEF OrderedGroups, Where
<1>2. s \in Seq(SUBSET Item) /\ DOMAIN s = 1..4
  BY DEF Item, Record
<1>3. PartsFirst(s)
  BY TypesInOrder
<1>4. \A x : x \in items <=> \E i \in 1..4 : x \in s[i]
  BY DEF Item, Record
<1> HIDE DEF s
<1>5. I \in SUBSET DOMAIN s /\ \A i \in 1..4 : i \in I <=> s[i] # {}
  BY <1>2
<1> HIDE DEF I
<1>6. /\ g \in Seq({s[i] : i \in I})
      /\ \A n \in DOMAIN g : \E i \in I : g[n] = s[i]
      /\ \A i \in I : \E n \in DOMAIN g : g[n] = s[i]
  BY <1>2, <1>5, AtLists
<1>7. \A m, n \in DOMAIN g : m < n => \E i, j \in I : i < j /\ g[m] = s[i] /\ g[n] = s[j]
  BY <1>2, <1>5, AtInOrder
<1> HIDE DEF g
<1>8. g \in Seq(SUBSET Item)
  <2>1. {s[i] : i \in I} \subseteq SUBSET Item
    BY <1>2, <1>5, SMTT(30)
  <2> QED
    BY <1>6, <2>1
<1>9. ASSUME NEW x PROVE x \in Pending(g) <=> x \in items
  <2>1. x \in Pending(g) <=> \E n \in DOMAIN g : x \in g[n]
    BY DEF Pending
  <2>2. (\E n \in DOMAIN g : x \in g[n]) <=> (\E i \in I : x \in s[i])
    BY <1>6
  <2>3. (\E i \in I : x \in s[i]) <=> (\E i \in 1..4 : x \in s[i])
    BY <1>2, <1>5
  <2> QED
    BY <1>4, <2>1, <2>2, <2>3
<1>10. PartsFirst(g)
  <2> SUFFICES ASSUME NEW m \in DOMAIN g, NEW n \in DOMAIN g, m <= n,
                      NEW a \in g[m] \intersect Record, NEW b \in g[n]
               PROVE  b \notin Child[a]
    BY DEF PartsFirst
  <2>1. \E i, j \in DOMAIN s : i <= j /\ g[m] = s[i] /\ g[n] = s[j]
    <3>1. CASE m = n
      <4>1. PICK i \in I : g[m] = s[i]
        BY <1>6
      <4>2. i \in DOMAIN s /\ i <= i
        BY <1>2, <1>5
      <4> QED
        BY <3>1, <4>1, <4>2
    <3>2. CASE m # n
      <4>1. m < n
        BY <1>8, <3>2
      <4> QED
        BY <1>2, <1>5, <1>7, <4>1
    <3> QED
      BY <3>1, <3>2
  <2> QED
    BY <1>3, <2>1 DEF PartsFirst
<1> QED
  BY <1>1, <1>8, <1>9, <1>10 DEF g, I

\* The groups after the first one, with what is left of that.
LEMMA GroupsShrink ==
    ASSUME NEW g \in Seq(SUBSET Item), g # <<>>, PartsFirst(g), NEW left \in SUBSET Head(g)
    PROVE  /\ Tail(g) \in Seq(SUBSET Item) /\ <<left>> \o Tail(g) \in Seq(SUBSET Item)
           /\ <<left>> \in Seq(SUBSET Item)
           /\ PartsFirst(Tail(g)) /\ PartsFirst(<<left>> \o Tail(g)) /\ PartsFirst(<<left>>)
           /\ Pending(g) = Head(g) \union Pending(Tail(g))
           /\ Pending(<<left>> \o Tail(g)) = left \union Pending(Tail(g))
           /\ <<left>> \o Tail(g) # <<>> /\ <<left>> # <<>>
<1> DEFINE t == Tail(g)
           h == <<left>> \o Tail(g)
<1>1. Len(g) \in Nat /\ Len(g) # 0 /\ DOMAIN g = 1..Len(g) /\ g[1] = Head(g)
  OBVIOUS
<1>2. t \in Seq(SUBSET Item) /\ DOMAIN t = 1..(Len(g) - 1) /\ \A i \in DOMAIN t : t[i] = g[i + 1]
  BY <1>1
<1>3. left \in SUBSET Item
  BY <1>1
<1>4. h \in Seq(SUBSET Item) /\ DOMAIN h = 1..Len(g) /\ h[1] = left
      /\ \A i \in DOMAIN h : i # 1 => h[i] = g[i]
  BY <1>1, <1>3
<1> HIDE DEF t, h
<1>5. PartsFirst(t)
  BY <1>1, <1>2, SMTT(30) DEF PartsFirst
<1>6. PartsFirst(h)
  <2>1. \A i \in DOMAIN h : h[i] \subseteq g[i] /\ i \in DOMAIN g
    BY <1>1, <1>4
  <2> QED
    BY <2>1 DEF PartsFirst
<1>7. PartsFirst(<<left>>)
  <2>1. \A a \in left \intersect Record, b \in left : b \notin Child[a]
    BY <1>1 DEF PartsFirst
  <2> QED
    BY <2>1 DEF PartsFirst
<1>8. ASSUME NEW x PROVE x \in Pending(g) <=> x \in Head(g) \/ x \in Pending(t)
  <2>1. x \in Pending(t) => \E i \in DOMAIN g : x \in g[i]
    BY <1>1, <1>2 DEF Pending
  <2>2. ASSUME NEW i \in DOMAIN g, x \in g[i], i # 1 PROVE x \in Pending(t)
    <3>1. i - 1 \in DOMAIN t /\ t[i - 1] = g[i]
      BY <1>1, <1>2, <2>2
    <3> QED
      BY <2>2, <3>1 DEF Pending
  <2> QED
    BY <1>1, <2>1, <2>2 DEF Pending
<1>9. ASSUME NEW x PROVE x \in Pending(h) <=> x \in left \/ x \in Pending(t)
  <2>1. ASSUME x \in Pending(t) PROVE x \in Pending(h)
    <3>1. PICK i \in DOMAIN t : x \in t[i]
      BY <2>1 DEF Pending
    <3>2. i + 1 \in DOMAIN h /\ h[i + 1] = t[i]
      BY <1>1, <1>2, <1>4
    <3> QED
      BY <3>1, <3>2 DEF Pending
  <2>2. ASSUME NEW i \in DOMAIN h, x \in h[i], i # 1 PROVE x \in Pending(t)
    <3>1. i - 1 \in DOMAIN t /\ t[i - 1] = h[i]
      BY <1>1, <1>2, <1>4, <2>2
    <3> QED
      BY <2>2, <3>1 DEF Pending
  <2> QED
    BY <1>1, <1>4, <2>1, <2>2 DEF Pending
<1>10. h # <<>> /\ <<left>> # <<>> /\ <<left>> \in Seq(SUBSET Item)
  BY <1>1, <1>3, <1>4
<1>11. Pending(g) = Head(g) \union Pending(t) /\ Pending(h) = left \union Pending(t)
  BY <1>8, <1>9
<1> QED
  BY <1>2, <1>4, <1>5, <1>6, <1>7, <1>10, <1>11 DEF t, h

-----------------------------------------------------------------------------
(* The inductive invariant.                                                *)

\* No stamp and no modification is ahead of the clock.
InTime == \A k \in Record : modified[k] <= now /\ state[k].lastIndexed <= now

\* A dispatch that has a canvas is running it, and a dry run has none.
CanvasRuns(r) == /\ groups[r] # <<>> => stage[r] = "running"
                 /\ stage[r] = "running" => ~ request[r].dryRun

\* The mappings of an undisturbed dispatch that emptied the cache are those of now, and so
\* is what its batches find in the cache.
CacheIsCurrent(r) ==
    stage[r] # "idle" /\ ~ disturbed[r] /\ Invalidates(request[r])
    => mappings[r] = eligible /\ cached \subseteq {eligible}

\* A dispatch has sent its canvas, which may have ended since, and nothing has disturbed it.
Undisturbed(r) == stage[r] # "mapped" /\ ~ request[r].dryRun /\ ~ disturbed[r]

\* What an undisturbed dispatch answers for is settled or still in its canvas.
NothingLeftBehind(r) ==
    Undisturbed(r) /\ request[r].includeFailed
    => \A k \in Scope(r) : Fresh(k) \/ state[k].removed \/ k \in Pending(groups[r])

ForcedFull == [Stragglers EXCEPT !.force = TRUE]

Synced(k) == /\ Fresh(k) /\ ~ state[k].removed
             /\ k \in tagged <=> k \in member
             /\ ~ HasNewerChild(k)

\* An undisturbed forced full dispatch has brought level whatever is no longer in its
\* canvas; what is, is indexable or a video; no record has left it before its parts.
SyncedOrPending(r) ==
    Undisturbed(r) /\ request[r] = ForcedFull
    => LET waiting == Pending(groups[r])
       IN  /\ waiting \intersect Record \subseteq eligible
           /\ \A k \in eligible \ waiting : Synced(k) /\ Child[k] \intersect waiting = {}
           /\ \A v \in Video \ waiting : videoAt[v] > modified[ParentCourse[v]]

\* What is known of a dispatch.
Known(r) == /\ PartsFirst(groups[r]) /\ CanvasRuns(r)
            /\ CacheIsCurrent(r) /\ NothingLeftBehind(r) /\ SyncedOrPending(r)

DispatchInv == DispatchTypeOK /\ InTime /\ \A r \in Run : Known(r)

-----------------------------------------------------------------------------
(* Steps of a canvas.                                                      *)

LEMMA EmptyCanvas == <<>> \in Seq(SUBSET Item) /\ PartsFirst(<<>>) /\ Pending(<<>>) = {}
BY DEF PartsFirst, Pending

\* When a task of an item ends, what is waiting loses the item if the task succeeds, and
\* no more than the rest of the canvas if it fails; no part of the item was waiting.
LEMMA CanvasAdvances ==
    ASSUME DispatchTypeOK, NEW r \in Run, PartsFirst(groups[r]), NEW i \in Current(r),
           Succeed(r, i) \/ Break(r, i)
    PROVE  /\ groups' = [groups EXCEPT ![r] = groups'[r]]
           /\ groups'[r] \in Seq(SUBSET Item) /\ PartsFirst(groups'[r])
           /\ Pending(groups'[r]) \subseteq Pending(groups[r])
           /\ Succeed(r, i) => Pending(groups[r]) \subseteq Pending(groups'[r]) \union {i}
           /\ i \in Pending(groups[r])
           /\ i \in Record => Child[i] \intersect Pending(groups[r]) = {}
           /\ stage' = [stage EXCEPT ![r] = IF groups'[r] = <<>> THEN "idle" ELSE "running"]
           /\ UNCHANGED <<modified, eligible, member, request, mappings, changes, manual>>
<1> DEFINE g == groups[r]
           left == Current(r) \ {i}
<1>1. groups \in [Run -> Seq(SUBSET Item)] /\ g \in Seq(SUBSET Item)
  BY DEF DispatchTypeOK
<1>2. g # <<>> /\ Current(r) = Head(g) /\ i \in Head(g)
  BY DEF Current
<1>3. left \in SUBSET Head(g)
  BY <1>2
<1>4. PICK remaining \in {<<>>, Tail(g), <<left>>, <<left>> \o Tail(g)} :
         /\ Advance(r, remaining)
         /\ Succeed(r, i) => remaining = IF left = {} THEN Tail(g) ELSE <<left>> \o Tail(g)
  <2>1. CASE Succeed(r, i)
    BY <2>1 DEF Succeed
  <2>2. CASE ~ Succeed(r, i)
    BY <2>2 DEF Break
  <2> QED
    BY <2>1, <2>2
<1>5. groups' = [groups EXCEPT ![r] = remaining] /\ groups'[r] = remaining
  BY <1>1, <1>4 DEF Advance
<1>6. /\ Tail(g) \in Seq(SUBSET Item) /\ <<left>> \o Tail(g) \in Seq(SUBSET Item)
      /\ <<left>> \in Seq(SUBSET Item)
      /\ PartsFirst(Tail(g)) /\ PartsFirst(<<left>> \o Tail(g)) /\ PartsFirst(<<left>>)
      /\ Pending(g) = Head(g) \union Pending(Tail(g))
      /\ Pending(<<left>> \o Tail(g)) = left \union Pending(Tail(g))
  BY <1>1, <1>2, <1>3, GroupsShrink
<1>7. Pending(<<left>>) = left
  BY DEF Pending
<1>8. PartsFirst(remaining) /\ remaining \in Seq(SUBSET Item)
  BY <1>4, <1>6, EmptyCanvas
<1>9. Pending(remaining) \subseteq Pending(g)
  BY <1>3, <1>4, <1>6, <1>7, EmptyCanvas
<1>10. Succeed(r, i) => Pending(g) \subseteq Pending(remaining) \union {i}
  <2> SUFFICES ASSUME Succeed(r, i) PROVE Pending(g) \subseteq Pending(remaining) \union {i}
    OBVIOUS
  <2>1. Head(g) \subseteq left \union {i}
    BY <1>2
  <2>2. CASE left = {}
    BY <1>4, <1>6, <2>1, <2>2
  <2>3. CASE left # {}
    BY <1>4, <1>6, <2>1, <2>3
  <2> QED
    BY <2>2, <2>3
<1>11. i \in Record => Child[i] \intersect Pending(g) = {}
  <2>1. 1 \in DOMAIN g /\ g[1] = Head(g) /\ \A j \in DOMAIN g : 1 <= j
    BY <1>1, <1>2
  <2> QED
    BY <1>2, <2>1 DEF PartsFirst, Pending
<1> QED
  BY <1>2, <1>4, <1>5, <1>6, <1>8, <1>9, <1>10, <1>11 DEF Advance, database

\* What a batch decides of a record.
LEMMA Decisions ==
    ASSUME DispatchTypeOK, NEW r \in Run, NEW k \in Record, NEW known,
           NEW d, d = ResolveDecision(state[k], modified[k], k \in known, Shard, state[k].ids,
                                      request[r].force)
    PROVE  /\ d.desired = Skipped => Fresh(k) /\ ~ request[r].force
           /\ k \in known /\ request[r].force => d.desired = Indexed
<1>1. state[k] \in Row /\ modified[k] \in Nat /\ request[r] \in Requests
  BY DEF DispatchTypeOK
<1>2. \A o, s : Decide(o, s).desired = o
  BY DEF Decide
<1>3. Indexed # Removed /\ Indexed # Skipped /\ Removed # Skipped
  BY DEF Indexed, Removed, Skipped
<1>4. d.desired = Skipped => Skippable(state[k], modified[k], request[r].force)
  BY <1>2, <1>3 DEF ResolveDecision
<1>5. Skippable(state[k], modified[k], request[r].force) => Fresh(k) /\ ~ request[r].force
  BY <1>1 DEF Skippable, Fresh, IsStale, Row
<1>6. k \in known /\ request[r].force => d.desired = Indexed
  BY <1>2, ShardAssumption DEF ResolveDecision, Skippable
<1> QED
  BY <1>4, <1>5, <1>6

-----------------------------------------------------------------------------
(* Types and times.                                                        *)

LEMMA DispatchTypesAtFirst == DispatchInit => DispatchTypeOK /\ InTime
<1> SUFFICES ASSUME DispatchInit PROVE DispatchTypeOK /\ InTime
  OBVIOUS
<1>1. state \in [Record -> Row] /\ \A k \in Record : state[k].lastIndexed = 0
  BY DEF DispatchInit, Row, EmptyRow, Never
<1>2. Stragglers \in Requests
  BY DEF Stragglers, Requests
<1>3. request \in [Run -> Requests] /\ groups \in [Run -> Seq(SUBSET Item)]
  BY <1>2, EmptyCanvas DEF DispatchInit
<1>4. videoAt \in [Video -> Nat] /\ modified \in [Record -> Nat]
  BY DEF DispatchInit, Never
<1>5. /\ now = 1 /\ \A k \in Record : modified[k] = 1
      /\ eligible \in SUBSET Record /\ member \in SUBSET Record /\ tagged \in SUBSET Record
      /\ cached \in SUBSET SUBSET Record /\ mappings \in [Run -> SUBSET Record]
      /\ stage \in [Run -> {"idle", "mapped", "running"}] /\ disturbed \in [Run -> BOOLEAN]
      /\ changes \in Nat /\ failures \in Nat /\ manual \in Nat
  BY DEF DispatchInit
<1> QED
  BY <1>1, <1>3, <1>4, <1>5 DEF DispatchTypeOK, InTime

LEMMA MappingsType ==
    ASSUME DispatchTypeOK, NEW emptied \in BOOLEAN
    PROVE  /\ Mappings(emptied) \in SUBSET Record
           /\ emptied \/ cached \subseteq {eligible} => Mappings(emptied) = eligible
BY DEF DispatchTypeOK, Mappings

LEMMA RowTypes ==
    ASSUME NEW s \in Row, NEW at \in Nat
    PROVE  MarkAsIndexed(s, Shard, at) \in Row /\ MarkAsRemoved(s) \in Row /\ MarkAsFailed(s) \in Row
BY DEF MarkAsIndexed, MarkAsRemoved, MarkAsFailed, Row

LEMMA WorldTypes ==
    ASSUME DispatchTypeOK, InTime,
           \/ \E k \in Record : Touch(k) \/ JoinOrLeave(k) \/ ChangeIndexable(k)
           \/ ExpireMappings
    PROVE  DispatchTypeOK' /\ InTime'
<1> USE DEF DispatchTypeOK, index, dispatch, database, counters
<1>1. ASSUME NEW k \in Record, Touch(k) PROVE DispatchTypeOK' /\ InTime'
  <2>1. now' \in Nat /\ now < now' /\ modified' = [modified EXCEPT ![k] = now']
    BY <1>1 DEF Touch
  <2>2. modified' \in [Record -> Nat] /\ changes' \in Nat /\ disturbed' \in [Run -> BOOLEAN]
    BY <1>1, <2>1 DEF Touch, Change
  <2>3. DispatchTypeOK'
    BY <1>1, <2>1, <2>2 DEF Touch, Change
  <2>4. ASSUME NEW j \in Record PROVE modified'[j] <= now' /\ state[j].lastIndexed <= now'
    <3>1. modified[j] \in Nat /\ state[j].lastIndexed \in Nat /\ modified[j] <= now
          /\ state[j].lastIndexed <= now /\ now \in Nat
      BY DEF Row, InTime
    <3> QED
      BY <2>1, <3>1
  <2> QED
    BY <1>1, <2>3, <2>4 DEF InTime, Touch, Change
<1>2. ASSUME NEW k \in Record, JoinOrLeave(k) \/ ChangeIndexable(k) PROVE DispatchTypeOK' /\ InTime'
  <2>0. Change
    BY <1>2 DEF JoinOrLeave, ChangeIndexable
  <2>1. changes' \in Nat /\ disturbed' \in [Run -> BOOLEAN]
    BY <2>0 DEF Change
  <2>2. eligible' \in SUBSET Record
    BY <1>2 DEF JoinOrLeave, ChangeIndexable
  <2>3. member' \in SUBSET Record
    BY <1>2 DEF JoinOrLeave, ChangeIndexable
  <2>4. UNCHANGED <<now, modified, state, tagged, videoAt, cached, stage, request, mappings,
                    groups, failures, manual>>
    BY <1>2 DEF JoinOrLeave, ChangeIndexable, Change
  <2> QED
    BY <1>2, <2>1, <2>2, <2>3, <2>4 DEF InTime
<1>3. CASE ExpireMappings
  BY <1>3 DEF ExpireMappings, InTime
<1> QED
  BY <1>1, <1>2, <1>3

LEMMA BeginTypes ==
    ASSUME DispatchTypeOK, InTime, NEW r \in Run, NEW q \in Request, Begin(r, q)
    PROVE  DispatchTypeOK' /\ InTime'
<1> USE DEF DispatchTypeOK, index, database
<1>1. q \in Requests
  BY RequestAssumption
<1>2. Invalidates(q) \in BOOLEAN
  BY <1>1 DEF Invalidates, Requests
<1>3. mappings'[r] = Mappings(Invalidates(q)) /\ mappings'[r] \in SUBSET Record
  BY <1>2, MappingsType DEF Begin
<1>4. mappings' \in [Run -> SUBSET Record] /\ cached' \in SUBSET SUBSET Record
  BY <1>3 DEF Begin
<1>5. request' \in [Run -> Requests] /\ disturbed' \in [Run -> BOOLEAN] /\ manual' \in Nat
      /\ stage' \in [Run -> {"idle", "mapped", "running"}]
  BY <1>1 DEF Begin
<1> QED
  BY <1>4, <1>5 DEF Begin, InTime

\* The items a dispatch selects.
LEMMA SelectionTypes ==
    ASSUME DispatchTypeOK, NEW r \in Run
    PROVE  Selected(r) \in SUBSET Item
<1>1. mappings[r] \in SUBSET Record /\ member \in SUBSET Record /\ tagged \in SUBSET Record
  BY DEF DispatchTypeOK
<1>2. ASSUME NEW keys \in SUBSET Record, NEW q PROVE KeysToDispatch(keys, q) \in SUBSET Record
  BY DEF KeysToDispatch
<1>3. ASSUME NEW keys, NEW force PROVE VideosToDispatch(keys, force) \in SUBSET Video
  BY DEF VideosToDispatch
<1>4. SelectAll(mappings[r], request[r]) \in SUBSET Item
  BY <1>1, <1>2, <1>3 DEF SelectAll, Item
<1>5. SelectForQuery(request[r]) \in SUBSET Item
  BY <1>1, <1>2, <1>3 DEF SelectForQuery, Item, AggregationKeys, QueryMembers
<1> QED
  BY <1>4, <1>5 DEF Selected

LEMMA SendTypes ==
    ASSUME DispatchTypeOK, InTime, NEW r \in Run, SendCanvas(r)
    PROVE  /\ DispatchTypeOK' /\ InTime'
           /\ groups' = [groups EXCEPT ![r] = groups'[r]]
           /\ PartsFirst(groups'[r])
           /\ ~ request[r].dryRun => Pending(groups'[r]) = Selected(r)
<1> DEFINE g == IF request[r].dryRun THEN <<>> ELSE OrderedGroups(Selected(r))
<1>1. g \in Seq(SUBSET Item) /\ PartsFirst(g) /\ (~ request[r].dryRun => Pending(g) = Selected(r))
  BY EmptyCanvas, SelectionTypes, GroupsBuilt
<1>2. groups' = [groups EXCEPT ![r] = g]
  BY DEF SendCanvas
<1> HIDE DEF g
<1>3. groups' \in [Run -> Seq(SUBSET Item)] /\ groups'[r] = g
  BY <1>1, <1>2 DEF DispatchTypeOK
<1>4. stage' \in [Run -> {"idle", "mapped", "running"}]
  BY DEF SendCanvas, DispatchTypeOK
<1> QED
  BY <1>1, <1>2, <1>3, <1>4 DEF SendCanvas, DispatchTypeOK, InTime, index, database, counters

\* The types of what any step of a canvas changes.
LEMMA CanvasTypes ==
    ASSUME DispatchTypeOK, NEW r \in Run, PartsFirst(groups[r]), NEW i \in Current(r),
           Succeed(r, i) \/ Break(r, i)
    PROVE  /\ groups' \in [Run -> Seq(SUBSET Item)]
           /\ stage' \in [Run -> {"idle", "mapped", "running"}]
<1>1. /\ groups' = [groups EXCEPT ![r] = groups'[r]] /\ groups'[r] \in Seq(SUBSET Item)
      /\ stage' = [stage EXCEPT ![r] = IF groups'[r] = <<>> THEN "idle" ELSE "running"]
  BY CanvasAdvances
<1>2. groups \in [Run -> Seq(SUBSET Item)] /\ stage \in [Run -> {"idle", "mapped", "running"}]
  BY DEF DispatchTypeOK
<1>3. groups' \in [Run -> Seq(SUBSET Item)]
  BY <1>1, <1>2
<1>4. stage' \in [Run -> {"idle", "mapped", "running"}]
  BY <1>1, <1>2
<1> QED
  BY <1>3, <1>4

LEMMA DisturbTypes ==
    ASSUME DispatchTypeOK, NEW r \in Run, DisturbOthers(r) \/ Fail
    PROVE  disturbed' \in [Run -> BOOLEAN]
<1>1. CASE DisturbOthers(r)
  <2>1. \A u \in Run : (disturbed[u] \/ u # r) \in BOOLEAN
    OBVIOUS
  <2> QED
    BY <1>1, <2>1 DEF DisturbOthers
<1>2. CASE Fail
  BY <1>2 DEF Fail
<1> QED
  BY <1>1, <1>2

LEMMA RecordTypes ==
    ASSUME DispatchTypeOK, InTime, NEW r \in Run, NEW k \in Record, PartsFirst(groups[r]),
           RunRecord(r, k) \/ FailRecord(r, k)
    PROVE  DispatchTypeOK' /\ InTime'
<1>1. k \in Current(r) /\ Succeed(r, k)
  BY DEF RunRecord, FailRecord
<1>2. /\ groups' \in [Run -> Seq(SUBSET Item)] /\ stage' \in [Run -> {"idle", "mapped", "running"}]
      /\ UNCHANGED <<modified, eligible, member, request, mappings, changes, manual>>
  BY <1>1, CanvasTypes, CanvasAdvances
<1>3. now \in Nat /\ state \in [Record -> Row] /\ tagged \in SUBSET Record /\ state[k] \in Row
  BY DEF DispatchTypeOK
<1>4. /\ now' \in Nat /\ now <= now'
      /\ state' = [state EXCEPT ![k] = state'[k]] /\ state'[k] \in Row /\ state'[k].lastIndexed <= now'
      /\ tagged' \in SUBSET Record /\ disturbed' \in [Run -> BOOLEAN] /\ failures' \in Nat
      /\ cached' \in SUBSET SUBSET Record /\ videoAt' = videoAt
  <2>1. CASE RunRecord(r, k)
    <3>1. PICK d : d = ResolveDecision(state[k], modified[k], k \in Mappings(FALSE), Shard, state[k].ids,
                                       request[r].force)
      OBVIOUS
    <3>2. cached' \in SUBSET SUBSET Record /\ videoAt' = videoAt /\ failures' \in Nat
      BY <2>1, MappingsType DEF RunRecord, DispatchTypeOK
    <3>3. CASE d.desired = Indexed
      <4>1. now' = now + 1 /\ state' = [state EXCEPT ![k] = MarkAsIndexed(state[k], Shard, now')]
            /\ tagged' \in SUBSET Record /\ DisturbOthers(r)
        BY <1>3, <2>1, <3>1, <3>3 DEF RunRecord, Indexed, Removed, Skipped
      <4>2. MarkAsIndexed(state[k], Shard, now').lastIndexed = now'
        BY DEF MarkAsIndexed
      <4>3. MarkAsIndexed(state[k], Shard, now') \in Row /\ now' \in Nat
        BY <1>3, <4>1, RowTypes
      <4> QED
        BY <1>3, <3>2, <4>1, <4>2, <4>3, DisturbTypes
    <3>4. CASE d.desired = Removed
      <4>1. now' = now /\ state' = [state EXCEPT ![k] = MarkAsRemoved(state[k])]
            /\ tagged' \in SUBSET Record /\ DisturbOthers(r)
        BY <1>3, <2>1, <3>1, <3>4 DEF RunRecord, Indexed, Removed, Skipped
      <4>2. MarkAsRemoved(state[k]).lastIndexed <= now /\ MarkAsRemoved(state[k]) \in Row
        BY <1>3, RowTypes DEF MarkAsRemoved, InTime, Row
      <4> QED
        BY <1>3, <3>2, <4>1, <4>2, DisturbTypes
    <3>5. CASE d.desired = Skipped
      <4>1. now' = now /\ state' = state /\ tagged' = tagged /\ disturbed' = disturbed
        BY <2>1, <3>1, <3>5 DEF RunRecord, Indexed, Removed, Skipped
      <4>2. state' = [state EXCEPT ![k] = state[k]] /\ state[k].lastIndexed <= now
        BY <1>3, <4>1 DEF InTime
      <4>3. state'[k] = state[k] /\ disturbed \in [Run -> BOOLEAN] /\ now <= now
        BY <1>3, <4>1 DEF DispatchTypeOK
      <4>4. tagged' \in SUBSET Record /\ disturbed' \in [Run -> BOOLEAN]
        BY <1>3, <4>1, <4>3
      <4> QED
        BY <1>3, <3>2, <4>1, <4>2, <4>3, <4>4
    <3> QED
      BY <2>1, <3>1, <3>3, <3>4, <3>5 DEF RunRecord
  <2>2. CASE FailRecord(r, k)
    <3>1. MarkAsFailed(state[k]) \in Row /\ MarkAsFailed(state[k]).lastIndexed <= now
      BY <1>3, RowTypes DEF MarkAsFailed, InTime, Row
    <3>2. /\ state' = [state EXCEPT ![k] = MarkAsFailed(state[k])]
          /\ UNCHANGED <<now, tagged, videoAt, cached>> /\ Fail
      BY <2>2 DEF FailRecord
    <3>3. cached \in SUBSET SUBSET Record /\ failures' \in Nat
      BY <3>2 DEF Fail, DispatchTypeOK
    <3> QED
      BY <1>3, <3>1, <3>2, <3>3, DisturbTypes
  <2> QED
    BY <2>1, <2>2
<1>5. DispatchTypeOK'
  BY <1>2, <1>3, <1>4 DEF DispatchTypeOK
<1>6. ASSUME NEW j \in Record PROVE modified'[j] <= now' /\ state'[j].lastIndexed <= now'
  <2>1. modified[j] \in Nat /\ state[j].lastIndexed \in Nat /\ modified[j] <= now
        /\ state[j].lastIndexed <= now
    BY DEF DispatchTypeOK, Row, InTime
  <2>2. modified'[j] <= now'
    BY <1>2, <1>3, <1>4, <2>1
  <2>3. j # k => state'[j] = state[j]
    BY <1>3, <1>4
  <2> QED
    BY <1>3, <1>4, <2>1, <2>2, <2>3
<1> QED
  BY <1>5, <1>6 DEF InTime

LEMMA OtherTypes ==
    ASSUME DispatchTypeOK, InTime, NEW r \in Run, PartsFirst(groups[r]),
           (\E v \in Video : RunVideo(r, v)) \/ (\E i \in Item : BreakCanvas(r, i))
    PROVE  DispatchTypeOK' /\ InTime'
<1>1. /\ groups' \in [Run -> Seq(SUBSET Item)] /\ stage' \in [Run -> {"idle", "mapped", "running"}]
      /\ UNCHANGED <<modified, eligible, member, request, mappings, changes, manual>>
  <2>1. \E i \in Current(r) : Succeed(r, i) \/ Break(r, i)
    BY DEF RunVideo, BreakCanvas
  <2> QED
    BY <2>1, CanvasTypes, CanvasAdvances
<1>2. /\ UNCHANGED <<state, tagged, cached>> /\ now' \in Nat /\ now <= now'
      /\ videoAt' \in [Video -> Nat] /\ disturbed' \in [Run -> BOOLEAN] /\ failures' \in Nat
  <2>1. ASSUME NEW v \in Video, RunVideo(r, v) PROVE <1>2!:
    BY <2>1, DisturbTypes DEF RunVideo, DispatchTypeOK
  <2>2. ASSUME NEW i \in Item, BreakCanvas(r, i) PROVE <1>2!:
    BY <2>2, DisturbTypes DEF BreakCanvas, Fail, DispatchTypeOK, index
  <2> QED
    BY <2>1, <2>2
<1>3. DispatchTypeOK'
  BY <1>1, <1>2 DEF DispatchTypeOK
<1>4. ASSUME NEW j \in Record PROVE modified'[j] <= now' /\ state'[j].lastIndexed <= now'
  <2>1. modified[j] \in Nat /\ state[j].lastIndexed \in Nat /\ modified[j] <= now
        /\ state[j].lastIndexed <= now /\ now \in Nat
    BY DEF DispatchTypeOK, Row, InTime
  <2> QED
    BY <1>1, <1>2, <2>1
<1> QED
  BY <1>3, <1>4 DEF InTime

-----------------------------------------------------------------------------
(* What each step does to what is known of a dispatch.                     *)

\* A disturbed dispatch answers for nothing.
LEMMA DisturbedKnown ==
    ASSUME NEW r \in Run, disturbed'[r], PartsFirst(groups'[r]), CanvasRuns(r)'
    PROVE  Known(r)'
BY DEF Known, CacheIsCurrent, NothingLeftBehind, SyncedOrPending, Undisturbed

\* A step that leaves the rows, the index and the dispatch alone; the cache may expire or
\* be filled.
LEMMA UntouchedKnown ==
    ASSUME NEW r \in Run, Known(r),
           UNCHANGED <<modified, eligible, member, state, tagged, videoAt>>,
           stage'[r] = stage[r], request'[r] = request[r], mappings'[r] = mappings[r],
           groups'[r] = groups[r], disturbed'[r] = disturbed[r],
           cached \subseteq {eligible} => cached' \subseteq {eligible}
    PROVE  Known(r)'
<1>1. PartsFirst(groups[r])' /\ CanvasRuns(r)' /\ CacheIsCurrent(r)'
  BY DEF Known, CanvasRuns, CacheIsCurrent, PartsFirst
<1>2. NothingLeftBehind(r)'
  BY DEF Known, NothingLeftBehind, Undisturbed, Scope, Fresh
<1>3. \A k : Synced(k)' <=> Synced(k)
  BY DEF Synced, Fresh, HasNewerChild
<1>4. SyncedOrPending(r)'
  BY <1>3 DEF Known, SyncedOrPending, Undisturbed
<1> QED
  BY <1>1, <1>2, <1>4 DEF Known

LEMMA WorldKnown ==
    ASSUME DispatchTypeOK, NEW r \in Run, Known(r),
           \/ \E k \in Record : Touch(k) \/ JoinOrLeave(k) \/ ChangeIndexable(k)
           \/ ExpireMappings
    PROVE  Known(r)'
<1>1. CASE \E k \in Record : Touch(k) \/ JoinOrLeave(k) \/ ChangeIndexable(k)
  <2>1. disturbed'[r] /\ groups' = groups /\ stage' = stage /\ request' = request
    BY <1>1 DEF Touch, JoinOrLeave, ChangeIndexable, Change, dispatch
  <2> QED
    BY <2>1, DisturbedKnown DEF Known, CanvasRuns
<1>2. CASE ExpireMappings
  BY <1>2, UntouchedKnown DEF ExpireMappings, database, index, dispatch
<1> QED
  BY <1>1, <1>2

LEMMA BeginKnown ==
    ASSUME DispatchTypeOK, NEW r \in Run, Known(r), NEW s \in Run, NEW q \in Request, Begin(s, q)
    PROVE  Known(r)'
<1>1. Invalidates(q) \in BOOLEAN
  BY RequestAssumption DEF Invalidates, Requests
<1>2. /\ mappings' = [mappings EXCEPT ![s] = Mappings(Invalidates(q))]
      /\ cached' = {Mappings(Invalidates(q))}
      /\ request' = [request EXCEPT ![s] = q] /\ disturbed' = [disturbed EXCEPT ![s] = FALSE]
      /\ stage' = [stage EXCEPT ![s] = "mapped"]
      /\ UNCHANGED <<modified, eligible, member, state, tagged, videoAt, groups>>
  BY DEF Begin, DispatchTypeOK, database, index
<1>3. Invalidates(q) \/ cached \subseteq {eligible} => Mappings(Invalidates(q)) = eligible
  BY <1>1, MappingsType
<1>4. CASE r # s
  <2>1. stage'[r] = stage[r] /\ request'[r] = request[r] /\ mappings'[r] = mappings[r]
        /\ disturbed'[r] = disturbed[r]
    BY <1>2, <1>4 DEF DispatchTypeOK
  <2> QED
    BY <1>2, <1>3, <2>1, UntouchedKnown
<1>5. CASE r = s
  <2>1. stage'[r] = "mapped" /\ request'[r] = q /\ mappings'[r] = Mappings(Invalidates(q))
    BY <1>2, <1>5 DEF DispatchTypeOK
  <2>2. CacheIsCurrent(r)'
    BY <1>2, <1>3, <2>1 DEF CacheIsCurrent, Invalidates
  <2>3. NothingLeftBehind(r)' /\ SyncedOrPending(r)'
    BY <2>1 DEF NothingLeftBehind, SyncedOrPending, Undisturbed
  <2>4. PartsFirst(groups[r])' /\ CanvasRuns(r)'
    BY <1>2, <1>5, <2>1 DEF Known, PartsFirst, CanvasRuns, Begin
  <2> QED
    BY <2>2, <2>3, <2>4 DEF Known
<1> QED
  BY <1>4, <1>5

\* What is not selected needs no indexing.
LEMMA UnselectedFresh ==
    ASSUME DispatchTypeOK, NEW r \in Run, request[r].includeFailed, NEW k \in Scope(r) \ Selected(r)
    PROVE  Fresh(k)
<1> DEFINE q == request[r]
<1>1. ASSUME NEW keys, k \in keys, k \notin KeysToDispatch(keys, q) PROVE Fresh(k)
  BY <1>1 DEF KeysToDispatch, NeedsIndexing, Fresh
<1>2. CASE q.kind = "query"
  <2>1. k \in member /\ k \notin KeysToDispatch(member, q)
    BY <1>2 DEF Scope, Selected, SelectForQuery, QueryMembers
  <2> QED
    BY <1>1, <2>1
<1>3. CASE q.kind # "query"
  <2>1. q.kind = "all"
    BY <1>3 DEF DispatchTypeOK, Requests
  <2>2. k \in mappings[r] /\ TypeOf(k) \in q.types
    BY <1>3 DEF Scope
  <2>3. k \notin KeysToDispatch(mappings[r], q)
    BY <2>1, <2>2 DEF Selected, SelectAll
  <2> QED
    BY <1>1, <2>2, <2>3
<1> QED
  BY <1>2, <1>3

LEMMA ForcedFields ==
    /\ ForcedFull.kind = "all" /\ ForcedFull.force = TRUE /\ ForcedFull.types = Types
    /\ ForcedFull.dryRun = FALSE /\ ForcedFull.includeFailed = TRUE /\ Invalidates(ForcedFull)
BY DEF ForcedFull, Stragglers, Invalidates

LEMMA ForcedSelectsAll ==
    ASSUME DispatchTypeOK, NEW r \in Run, request[r] = ForcedFull
    PROVE  Selected(r) = mappings[r] \union Video
<1>1. KeysToDispatch(mappings[r], ForcedFull) = mappings[r]
  BY ForcedFields DEF KeysToDispatch
<1>2. VideosToDispatch(mappings[r], ForcedFull.force) = Video
  BY ForcedFields DEF VideosToDispatch
<1>3. mappings[r] \in SUBSET Record
  BY DEF DispatchTypeOK
<1>4. \A i \in mappings[r] \union Video : TypeOf(i) \in Types
  BY <1>3 DEF TypeOf, Types, Record
<1> QED
  BY <1>1, <1>2, <1>4, ForcedFields DEF Selected, SelectAll

LEMMA SendKnown ==
    ASSUME DispatchTypeOK, InTime, NEW r \in Run, Known(r), NEW s \in Run, SendCanvas(s)
    PROVE  Known(r)'
<1>1. groups' = [groups EXCEPT ![s] = groups'[s]] /\ PartsFirst(groups'[s])
      /\ (~ request[s].dryRun => Pending(groups'[s]) = Selected(s))
  BY SendTypes
<1>2. /\ stage[s] = "mapped" /\ (request[s].dryRun => groups'[s] = <<>>)
      /\ stage' = [stage EXCEPT ![s] = IF groups'[s] = <<>> THEN "idle" ELSE "running"]
      /\ UNCHANGED <<modified, eligible, member, state, tagged, videoAt, cached, request, mappings, disturbed>>
  BY DEF SendCanvas, DispatchTypeOK, database, index
<1>3. CASE r # s
  <2>1. stage'[r] = stage[r] /\ groups'[r] = groups[r]
    BY <1>1, <1>2, <1>3 DEF DispatchTypeOK
  <2> QED
    BY <1>2, <2>1, UntouchedKnown
<1>4. CASE r = s
  <2>1. stage'[r] = IF groups'[r] = <<>> THEN "idle" ELSE "running"
    BY <1>2, <1>4 DEF DispatchTypeOK
  <2>2. CacheIsCurrent(r)'
    BY <1>2, <1>4 DEF Known, CacheIsCurrent, Invalidates
  <2>3. PartsFirst(groups[r])' /\ CanvasRuns(r)'
    BY <1>1, <1>2, <1>4, <2>1 DEF PartsFirst, CanvasRuns
  <2>4. ~ request[r].dryRun => Pending(groups'[r]) = Selected(r)
    BY <1>1, <1>4
  <2>5. NothingLeftBehind(r)'
    <3>1. \A k : Fresh(k)' <=> Fresh(k)
      BY <1>2 DEF Fresh
    <3>2. Scope(r)' = Scope(r)
      BY <1>2 DEF Scope
    <3>3. ~ request[r].dryRun /\ request[r].includeFailed
             => \A k \in Scope(r) : Fresh(k) \/ k \in Pending(groups'[r])
      BY <2>4, UnselectedFresh
    <3> QED
      BY <1>2, <3>1, <3>2, <3>3 DEF NothingLeftBehind, Undisturbed
  <2>6. SyncedOrPending(r)'
    <3> SUFFICES ASSUME ~ disturbed'[r], request'[r] = ForcedFull
                 PROVE  SyncedOrPending(r)'
      BY DEF SyncedOrPending, Undisturbed
    <3>1. mappings[r] = eligible
      BY <1>2, <1>4, ForcedFields DEF Known, CacheIsCurrent
    <3>2. Pending(groups'[r]) = eligible \union Video
      BY <1>2, <2>4, <3>1, ForcedSelectsAll, ForcedFields
    <3>3. eligible' = eligible /\ eligible \subseteq Record /\ Record \intersect Video = {}
      BY <1>2, KeyAssumption DEF DispatchTypeOK
    <3> QED
      BY <3>2, <3>3 DEF SyncedOrPending
  <2> QED
    BY <2>2, <2>3, <2>5, <2>6 DEF Known
<1> QED
  BY <1>3, <1>4

\* A batch on a record of a dispatch, seen by the dispatch itself.
LEMMA OwnRecordKnown ==
    ASSUME DispatchTypeOK, InTime, NEW r \in Run, Known(r), NEW k \in Record, RunRecord(r, k)
    PROVE  Known(r)'
<1> DEFINE waiting == Pending(groups[r])
           left == Pending(groups'[r])
           d == ResolveDecision(state[k], modified[k], k \in Mappings(FALSE), Shard, state[k].ids,
                                request[r].force)
<1>1. /\ PartsFirst(groups'[r]) /\ left \subseteq waiting /\ waiting \subseteq left \union {k}
      /\ k \in waiting /\ Child[k] \intersect waiting = {}
      /\ stage[r] = "running" /\ CanvasRuns(r)' /\ CacheIsCurrent(r)'
      /\ UNCHANGED <<modified, eligible, member, request, mappings, videoAt>>
  <2>1. PartsFirst(groups[r]) /\ k \in Current(r) /\ Succeed(r, k)
    BY DEF Known, RunRecord
  <2>2. stage[r] = "running"
    BY <2>1 DEF Known, CanvasRuns, Current
  <2>3. stage'[r] = IF groups'[r] = <<>> THEN "idle" ELSE "running"
    BY <2>1, CanvasAdvances DEF DispatchTypeOK
  <2>4. UNCHANGED <<modified, eligible, member, request, mappings, videoAt>>
    BY <2>1, CanvasAdvances DEF RunRecord
  <2>5. cached' = {Mappings(FALSE)} /\ (cached \subseteq {eligible} => Mappings(FALSE) = eligible)
    BY MappingsType DEF RunRecord
  <2>6. disturbed'[r] = disturbed[r]
    BY DEF RunRecord, DisturbOthers, DispatchTypeOK
  <2>7. CacheIsCurrent(r)'
    BY <2>2, <2>4, <2>5, <2>6 DEF Known, CacheIsCurrent, Invalidates
  <2>8. CanvasRuns(r)'
    BY <2>2, <2>3, <2>4 DEF Known, CanvasRuns
  <2> QED
    BY <2>1, <2>2, <2>4, <2>7, <2>8, CanvasAdvances
<1>2. /\ d.desired = Skipped => Fresh(k) /\ ~ request[r].force
      /\ k \in Mappings(FALSE) /\ request[r].force => d.desired = Indexed
  BY Decisions
<1>3. \/ /\ d.desired = Indexed
         /\ now' = now + 1
         /\ state' = [state EXCEPT ![k] = MarkAsIndexed(state[k], Shard, now')]
         /\ tagged' = (tagged \ {k}) \union ({k} \intersect member)
      \/ /\ d.desired = Removed
         /\ state' = [state EXCEPT ![k] = MarkAsRemoved(state[k])]
      \/ d.desired = Skipped /\ state' = state
  BY DEF RunRecord
<1>4. disturbed'[r] = disturbed[r]
  BY DEF RunRecord, DisturbOthers, DispatchTypeOK
<1>5. \A j \in Record : modified[j] \in Nat /\ state[j].lastIndexed \in Nat
                        /\ modified[j] <= now /\ state[j].lastIndexed <= now
  BY DEF DispatchTypeOK, InTime, Row
<1>6. now \in Nat /\ state \in [Record -> Row]
  BY DEF DispatchTypeOK
<1> HIDE DEF d
<1>7. d.desired = Indexed => Fresh(k)' /\ ~ state'[k].removed /\ state'[k].lastIndexed = now + 1
  <2> SUFFICES ASSUME d.desired = Indexed
               PROVE  Fresh(k)' /\ ~ state'[k].removed /\ state'[k].lastIndexed = now + 1
    OBVIOUS
  <2>1. state'[k] = MarkAsIndexed(state[k], Shard, now + 1)
    BY <1>3, <1>6 DEF Indexed, Removed, Skipped
  <2>2. state'[k].lastIndexed = now + 1 /\ ~ state'[k].failed /\ ~ state'[k].removed
    BY <2>1 DEF MarkAsIndexed
  <2>3. modified'[k] <= now /\ modified'[k] \in Nat
    BY <1>1, <1>5
  <2> QED
    BY <1>6, <2>2, <2>3 DEF Fresh, IsStale, Never
<1>8. NothingLeftBehind(r)'
  <2> SUFFICES ASSUME ~ request[r].dryRun, ~ disturbed[r], request[r].includeFailed,
                      NEW j \in Scope(r), j \notin left
               PROVE  Fresh(j)' \/ state'[j].removed
    BY <1>1, <1>4 DEF NothingLeftBehind, Undisturbed, Scope
  <2>0. j \in Record
    BY DEF Scope, DispatchTypeOK
  <2>1. CASE j # k
    <3>1. state'[j] = state[j] /\ modified'[j] = modified[j]
      BY <1>1, <1>3, <1>6, <2>0, <2>1
    <3>2. Fresh(j) \/ state[j].removed
      BY <1>1, <2>1 DEF Known, NothingLeftBehind, Undisturbed
    <3> QED
      BY <3>1, <3>2 DEF Fresh
  <2>2. CASE j = k
    <3>1. CASE d.desired = Removed
      BY <1>3, <1>6, <2>2, <3>1 DEF MarkAsRemoved, Indexed, Removed, Skipped, Row
    <3>2. CASE d.desired = Skipped
      BY <1>1, <1>2, <1>3, <2>2, <3>2 DEF Fresh, Indexed, Removed, Skipped
    <3> QED
      BY <1>3, <1>7, <2>2, <3>1, <3>2
  <2> QED
    BY <2>1, <2>2
<1>9. SyncedOrPending(r)'
  <2> SUFFICES ASSUME ~ disturbed[r], request[r] = ForcedFull
               PROVE  /\ left \intersect Record \subseteq eligible
                      /\ \A j \in eligible \ left : Synced(j)' /\ Child[j] \intersect left = {}
                      /\ \A v \in Video \ left : videoAt[v] > modified[ParentCourse[v]]
    BY <1>1, <1>4 DEF SyncedOrPending, Undisturbed
  <2>1. /\ waiting \intersect Record \subseteq eligible
        /\ \A j \in eligible \ waiting : Synced(j) /\ Child[j] \intersect waiting = {}
        /\ \A v \in Video \ waiting : videoAt[v] > modified[ParentCourse[v]]
    BY <1>1, ForcedFields DEF Known, SyncedOrPending, Undisturbed
  <2>2. cached \subseteq {eligible} /\ request[r].force
    BY <1>1, ForcedFields DEF Known, CacheIsCurrent
  <2>3. k \in Mappings(FALSE)
    BY <1>1, <2>1, <2>2, MappingsType
  <2>4. d.desired = Indexed
    BY <1>2, <2>2, <2>3
  <2>5. /\ state' = [state EXCEPT ![k] = state'[k]]
        /\ tagged' = (tagged \ {k}) \union ({k} \intersect member)
    BY <1>3, <1>6, <2>4 DEF Indexed, Removed, Skipped
  <2>6. Synced(k)'
    <3>1. ASSUME NEW c \in Child[k] PROVE ~ (state'[c].lastIndexed > state'[k].lastIndexed)
      <4>1. c \in Record /\ c # k
        BY <1>1, ChildAssumption
      <4>2. state'[c].lastIndexed <= now /\ state'[c].lastIndexed \in Nat
        BY <1>5, <1>6, <2>5, <4>1
      <4> QED
        BY <1>6, <1>7, <2>4, <4>2
    <3>2. k \in tagged' <=> k \in member'
      BY <1>1, <2>5
    <3> QED
      BY <1>7, <2>4, <3>1, <3>2 DEF Synced, HasNewerChild
  <2>7. ASSUME NEW j \in eligible \ left, j # k PROVE Synced(j)'
    <3>1. j \in Record /\ Synced(j) /\ k \notin Child[j]
      BY <1>1, <2>1, <2>7 DEF DispatchTypeOK
    <3>2. state'[j] = state[j] /\ modified'[j] = modified[j]
      BY <1>1, <1>6, <2>5, <2>7, <3>1
    <3>3. \A c \in Child[j] : state'[c] = state[c]
      BY <1>6, <2>5, <3>1, ChildAssumption
    <3>4. (j \in tagged' <=> j \in tagged) /\ member' = member
      BY <1>1, <2>5, <2>7
    <3> QED
      BY <3>1, <3>2, <3>3, <3>4 DEF Synced, Fresh, HasNewerChild
  <2>8. ASSUME NEW j \in eligible \ left PROVE Child[j] \intersect left = {}
    BY <1>1, <2>1, <2>8
  <2>9. \A v \in Video \ left : v \notin waiting
    BY <1>1, KeyAssumption
  <2>10. left \intersect Record \subseteq eligible
    BY <1>1, <2>1
  <2> QED
    BY <2>1, <2>6, <2>7, <2>8, <2>9, <2>10
<1> QED
  BY <1>1, <1>8, <1>9 DEF Known

\* A dispatch that another one disturbs, or that sees a batch do nothing.
LEMMA OtherKnown ==
    ASSUME DispatchTypeOK, InTime, NEW r \in Run, Known(r), NEW s \in Run \ {r}, PartsFirst(groups[s]),
           \/ \E k \in Record : RunRecord(s, k) \/ FailRecord(s, k)
           \/ \E v \in Video : RunVideo(s, v)
           \/ \E i \in Item : BreakCanvas(s, i)
    PROVE  Known(r)'
<1>1. \E i \in Current(s) : Succeed(s, i) \/ Break(s, i)
  BY DEF RunRecord, FailRecord, RunVideo, BreakCanvas
<1>2. /\ groups'[r] = groups[r] /\ stage'[r] = stage[r]
      /\ UNCHANGED <<modified, eligible, member, request, mappings>>
  BY <1>1, CanvasAdvances DEF DispatchTypeOK
<1>3. CASE disturbed'[r]
  BY <1>2, <1>3, DisturbedKnown DEF Known, CanvasRuns
<1>4. CASE ~ disturbed'[r]
  <2>1. PICK k \in Record : RunRecord(s, k)
    BY <1>4 DEF FailRecord, Fail, RunVideo, BreakCanvas, DisturbOthers
  <2>2. /\ UNCHANGED <<state, tagged, videoAt, disturbed>> /\ cached' = {Mappings(FALSE)}
    BY <1>4, <2>1 DEF RunRecord, DisturbOthers
  <2>3. cached \subseteq {eligible} => cached' \subseteq {eligible}
    BY <2>2, MappingsType
  <2> QED
    BY <1>2, <2>2, <2>3, UntouchedKnown
<1> QED
  BY <1>3, <1>4

\* The other steps of a dispatch's own canvas.
LEMMA OwnOtherKnown ==
    ASSUME DispatchTypeOK, InTime, NEW r \in Run, Known(r),
           \/ \E k \in Record : FailRecord(r, k)
           \/ \E v \in Video : RunVideo(r, v)
           \/ \E i \in Item : BreakCanvas(r, i)
    PROVE  Known(r)'
<1>1. PICK i \in Current(r) : /\ Succeed(r, i) \/ Break(r, i)
                              /\ \/ i \in Record /\ FailRecord(r, i)
                                 \/ i \in Video /\ RunVideo(r, i)
                                 \/ BreakCanvas(r, i)
  BY DEF FailRecord, RunVideo, BreakCanvas
<1>2. PartsFirst(groups[r])
  BY DEF Known
<1>3. /\ PartsFirst(groups'[r]) /\ Pending(groups'[r]) \subseteq Pending(groups[r])
      /\ Succeed(r, i) => Pending(groups[r]) \subseteq Pending(groups'[r]) \union {i}
      /\ i \in Pending(groups[r])
      /\ stage' = [stage EXCEPT ![r] = IF groups'[r] = <<>> THEN "idle" ELSE "running"]
      /\ UNCHANGED <<modified, eligible, member, request, mappings>>
  BY <1>1, <1>2, CanvasAdvances
<1>4. stage[r] = "running" /\ CanvasRuns(r)'
  BY <1>1, <1>3 DEF Known, CanvasRuns, Current, DispatchTypeOK
<1>5. CASE disturbed'[r]
  BY <1>3, <1>4, <1>5, DisturbedKnown
<1>6. CASE ~ disturbed'[r]
  <2>1. i \in Video /\ RunVideo(r, i)
    BY <1>1, <1>6 DEF FailRecord, BreakCanvas, Fail
  <2>2. /\ UNCHANGED <<state, tagged, cached>> /\ now' = now + 1 /\ Succeed(r, i)
        /\ videoAt' = [videoAt EXCEPT ![i] = now']
    BY <2>1 DEF RunVideo
  <2>3. disturbed'[r] = disturbed[r]
    BY <2>1 DEF RunVideo, DisturbOthers, DispatchTypeOK
  <2>4. i \notin Record
    BY <2>1, KeyAssumption
  <2>5. CacheIsCurrent(r)'
    BY <1>3, <1>4, <2>2, <2>3 DEF Known, CacheIsCurrent, Invalidates
  <2>6. \A j \in Record : /\ Fresh(j)' <=> Fresh(j)
                          /\ j \in Pending(groups[r]) => j \in Pending(groups'[r])
    BY <1>3, <2>2, <2>4 DEF Fresh
  <2>7. NothingLeftBehind(r)'
    <3>1. Scope(r)' = Scope(r) /\ Scope(r) \subseteq Record
      BY <1>3 DEF Scope, DispatchTypeOK
    <3> QED
      BY <1>3, <1>4, <2>2, <2>3, <2>6, <3>1 DEF Known, NothingLeftBehind, Undisturbed
  <2>8. SyncedOrPending(r)'
    <3>1. \A j \in Record : Synced(j)' <=> Synced(j)
      BY <1>3, <2>2, <2>6 DEF Synced, HasNewerChild
    <3>2. videoAt'[i] > modified[ParentCourse[i]]
      <4>1. ParentCourse[i] \in Record
        BY <2>1, ParentCourseAssumption DEF Record
      <4>2. modified[ParentCourse[i]] \in Nat /\ modified[ParentCourse[i]] <= now /\ now \in Nat
        BY <4>1 DEF DispatchTypeOK, InTime
      <4>3. videoAt'[i] = now + 1
        BY <2>1, <2>2 DEF DispatchTypeOK
      <4> QED
        BY <4>2, <4>3
    <3>3. \A v \in Video : v # i => videoAt'[v] = videoAt[v]
                                    /\ (v \in Pending(groups[r]) => v \in Pending(groups'[r]))
      BY <1>3, <2>2 DEF DispatchTypeOK
    <3> SUFFICES ASSUME ~ disturbed[r], request[r] = ForcedFull PROVE SyncedOrPending(r)'
      BY <1>3, <2>3 DEF SyncedOrPending, Undisturbed
    <3>4. /\ Pending(groups[r]) \intersect Record \subseteq eligible
          /\ \A j \in eligible \ Pending(groups[r]) :
                Synced(j) /\ Child[j] \intersect Pending(groups[r]) = {}
          /\ \A v \in Video \ Pending(groups[r]) : videoAt[v] > modified[ParentCourse[v]]
      BY <1>4, ForcedFields DEF Known, SyncedOrPending, Undisturbed
    <3>5. eligible \subseteq Record
      BY DEF DispatchTypeOK
    <3>6. \A j \in eligible \ Pending(groups'[r]) :
             Synced(j)' /\ Child[j] \intersect Pending(groups'[r]) = {}
      BY <1>3, <2>6, <3>1, <3>4, <3>5
    <3>7. \A v \in Video \ Pending(groups'[r]) : videoAt'[v] > modified[ParentCourse[v]]
      BY <3>2, <3>3, <3>4
    <3> QED
      BY <1>3, <3>4, <3>6, <3>7 DEF SyncedOrPending
  <2> QED
    BY <1>3, <1>4, <2>5, <2>7, <2>8 DEF Known
<1> QED
  BY <1>5, <1>6

-----------------------------------------------------------------------------
(* Theorems.                                                               *)

LEMMA DispatchInvAtFirst == DispatchInit => DispatchInv
<1> SUFFICES ASSUME DispatchInit PROVE DispatchInv
  OBVIOUS
<1>1. ASSUME NEW r \in Run PROVE Known(r)
  <2>1. groups[r] = <<>> /\ stage[r] = "idle" /\ request[r] = Stragglers /\ mappings[r] = {}
    BY DEF DispatchInit
  <2>2. Scope(r) = {} /\ Stragglers # ForcedFull
    BY <2>1 DEF Scope, ForcedFull, Stragglers
  <2> QED
    BY <2>1, <2>2, EmptyCanvas
       DEF Known, CanvasRuns, CacheIsCurrent, NothingLeftBehind, SyncedOrPending
<1> QED
  BY <1>1, DispatchTypesAtFirst DEF DispatchInv

LEMMA DispatchInvStays == DispatchInv /\ [DispatchNext]_dispatchVars => DispatchInv'
<1> SUFFICES ASSUME DispatchInv, [DispatchNext]_dispatchVars PROVE DispatchInv'
  OBVIOUS
<1> USE DEF DispatchInv
<1>0. \A r \in Run : PartsFirst(groups[r])
  BY DEF Known
<1>1. CASE \/ \E k \in Record : Touch(k) \/ JoinOrLeave(k) \/ ChangeIndexable(k)
           \/ ExpireMappings
  BY <1>1, WorldTypes, WorldKnown
<1>2. ASSUME NEW s \in Run, NEW q \in Request, Begin(s, q) PROVE DispatchInv'
  BY <1>2, BeginTypes, BeginKnown
<1>3. ASSUME NEW s \in Run, SendCanvas(s) PROVE DispatchInv'
  BY <1>3, SendTypes, SendKnown
<1>4. ASSUME NEW s \in Run, \E k \in Record : RunRecord(s, k) \/ FailRecord(s, k) PROVE DispatchInv'
  BY <1>0, <1>4, RecordTypes, OwnRecordKnown, OwnOtherKnown, OtherKnown
<1>5. ASSUME NEW s \in Run, (\E v \in Video : RunVideo(s, v)) \/ (\E i \in Item : BreakCanvas(s, i))
      PROVE  DispatchInv'
  BY <1>0, <1>5, OtherTypes, OwnOtherKnown, OtherKnown
<1>6. CASE UNCHANGED dispatchVars
  <2>1. DispatchTypeOK' /\ InTime'
    BY <1>6 DEF dispatchVars, DispatchTypeOK, InTime
  <2>2. ASSUME NEW r \in Run PROVE Known(r)'
    BY <1>6, UntouchedKnown DEF dispatchVars
  <2> QED
    BY <2>1, <2>2
<1> QED
  BY <1>1, <1>2, <1>3, <1>4, <1>5, <1>6 DEF DispatchNext, WorkOn

\* Whatever is dispatched, changes, fails or expires, rows, mappings and canvases have
\* their types.
THEOREM DispatchTypesHold == DispatchSpec => []DispatchTypeOK
<1>1. DispatchInv => DispatchTypeOK
  BY DEF DispatchInv
<1> QED
  BY <1>1, DispatchInvAtFirst, DispatchInvStays, PTL DEF DispatchSpec

\* The step that ends a dispatch leaves its canvas empty.
LEMMA EndsEmpty ==
    ASSUME DispatchInv, DispatchNext, NEW r \in Run, Ends(r)
    PROVE  Pending(groups'[r]) = {} /\ UNCHANGED <<modified, eligible, member, request, mappings>>
<1> USE DEF DispatchInv
<1>1. \A k \in Record : ~ (Touch(k) \/ JoinOrLeave(k) \/ ChangeIndexable(k))
  BY DEF Ends, Touch, JoinOrLeave, ChangeIndexable, Change, dispatch
<1>2. ~ ExpireMappings
  BY DEF Ends, ExpireMappings, dispatch
<1>3. \A s \in Run, q \in Request : ~ Begin(s, q)
  BY DEF Ends, Begin, DispatchTypeOK
<1>4. \A s \in Run : ~ SendCanvas(s)
  BY DEF Ends, SendCanvas, DispatchTypeOK
<1>5. PICK s \in Run : \E i \in Current(s) : Succeed(s, i) \/ Break(s, i)
  BY <1>1, <1>2, <1>3, <1>4 DEF DispatchNext, WorkOn, RunRecord, FailRecord, RunVideo, BreakCanvas
<1>6. /\ stage' = [stage EXCEPT ![s] = IF groups'[s] = <<>> THEN "idle" ELSE "running"]
      /\ UNCHANGED <<modified, eligible, member, request, mappings>>
  BY <1>5, CanvasAdvances DEF Known
<1>7. s = r /\ groups'[r] = <<>>
  BY <1>6 DEF Ends, DispatchTypeOK
<1> QED
  BY <1>6, <1>7, EmptyCanvas

\* A dispatch that nothing disturbs and that asks for failed records, too, leaves no record
\* of its scope behind, for any content, nesting of programs and pathways, arguments and
\* number of dispatches, whatever cached mappings it read.
THEOREM PassesFreshen == DispatchSpec => PassFreshens
<1>1. DispatchInv /\ DispatchInv' /\ [DispatchNext]_dispatchVars =>
         [\A r \in Run :
             Ends(r) /\ ~ disturbed'[r] /\ request[r].includeFailed
             => \A k \in Scope(r) : Fresh(k)' \/ state'[k].removed]_dispatchVars
  <2> SUFFICES ASSUME DispatchInv, DispatchInv', DispatchNext, NEW r \in Run,
                      Ends(r), ~ disturbed'[r], request[r].includeFailed, NEW k \in Scope(r)
               PROVE  Fresh(k)' \/ state'[k].removed
    OBVIOUS
  <2>1. NothingLeftBehind(r)'
    BY DEF DispatchInv, Known
  <2>2. Pending(groups'[r]) = {} /\ UNCHANGED <<modified, eligible, member, request, mappings>>
    BY EndsEmpty
  <2>3. k \in Scope(r)' /\ Undisturbed(r)' /\ request'[r].includeFailed
    BY <2>2 DEF Scope, Undisturbed, Ends, DispatchInv, Known, CanvasRuns
  <2> QED
    BY <2>1, <2>2, <2>3 DEF NothingLeftBehind
<1> QED
  BY <1>1, DispatchInvAtFirst, DispatchInvStays, PTL DEF DispatchSpec, PassFreshens

\* A forced full dispatch that nothing disturbs brings Algolia level with the database, for
\* any content, nesting and number of dispatches, whatever was stale, cached, failed or half
\* done before it.
THEOREM ForcedPassesSync == DispatchSpec => ForcedPassSyncs
<1>1. DispatchInv /\ DispatchInv' /\ [DispatchNext]_dispatchVars =>
         [\A r \in Run :
             Ends(r) /\ ~ disturbed'[r] /\ request[r] = [Stragglers EXCEPT !.force = TRUE]
             => /\ \A k \in eligible :
                      /\ Fresh(k)' /\ ~ state'[k].removed
                      /\ k \in tagged' <=> k \in member
                      /\ ~ HasNewerChild(k)'
                /\ \A v \in Video : videoAt'[v] > modified[ParentCourse[v]]]_dispatchVars
  <2> SUFFICES ASSUME DispatchInv, DispatchInv', DispatchNext, NEW r \in Run,
                      Ends(r), ~ disturbed'[r], request[r] = ForcedFull
               PROVE  /\ \A k \in eligible : /\ Fresh(k)' /\ ~ state'[k].removed
                                             /\ k \in tagged' <=> k \in member
                                             /\ ~ HasNewerChild(k)'
                      /\ \A v \in Video : videoAt'[v] > modified[ParentCourse[v]]
    BY DEF ForcedFull
  <2>1. SyncedOrPending(r)'
    BY DEF DispatchInv, Known
  <2>2. Pending(groups'[r]) = {} /\ UNCHANGED <<modified, eligible, member, request, mappings>>
    BY EndsEmpty
  <2>3. Undisturbed(r)' /\ request'[r] = ForcedFull
    BY <2>2, ForcedFields DEF Undisturbed, Ends
  <2>4. \A k \in eligible : Synced(k)'
    BY <2>1, <2>2, <2>3 DEF SyncedOrPending
  <2>5. \A v \in Video : videoAt'[v] > modified[ParentCourse[v]]
    BY <2>1, <2>2, <2>3 DEF SyncedOrPending
  <2> QED
    BY <2>2, <2>4, <2>5 DEF Synced
<1> QED
  BY <1>1, DispatchInvAtFirst, DispatchInvStays, PTL DEF DispatchSpec, ForcedPassSyncs


-----------------------------------------------------------------------------
(* ValidateIndices.                                                        *)

LEMMA LabelIsTwo == Label = {"v1", "v2"} /\ Labels[1] = "v1" /\ Labels[2] = "v2"
BY DEF Label, Labels, ToSet

\* Each subcommand has a place of its own in the order they are run in.
LEMMA OrderPlaces ==
    /\ DOMAIN Order = 1..8
    /\ \A i, j \in 1..8 : Order[i] = Order[j] => i = j
    /\ Order[1] = "fetch" /\ Order[2] = "fetch-level-type" /\ Order[3] = "fetch-spot-check"
    /\ Order[4] = "fetch-id-diff" /\ Order[5] = "analyze" /\ Order[6] = "level-type"
    /\ Order[7] = "spot-check" /\ Order[8] = "sort-arrays"
    /\ ToSet(Order) = {Order[i] : i \in 1..8}
BY DEF Order, ToSet

\* At most one subcommand is due, and sort-arrays only when no other is left.
LEMMA OneIsDue ==
    ASSUME NEW c \in ToSet(Order), NEW d \in ToSet(Order), Due(c), Due(d)
    PROVE  c = d
<1>1. PICK i \in 1..8 : Order[i] = c
  BY OrderPlaces
<1>2. PICK j \in 1..8 : Order[j] = d
  BY OrderPlaces
<1>3. i <= j /\ j <= i
  BY <1>1, <1>2, OrderPlaces DEF Due
<1> QED
  BY <1>1, <1>2, <1>3

LEMMA SortIsLast ==
    ASSUME run.left \subseteq ToSet(Order), Due("sort-arrays")
    PROVE  run.left \ {"sort-arrays"} = {}
<1> SUFFICES ASSUME NEW c \in run.left, c # "sort-arrays" PROVE FALSE
  OBVIOUS
<1>1. PICK i \in 1..8 : Order[i] = c
  BY OrderPlaces
<1>2. i = 8
  BY <1>1, OrderPlaces DEF Due
<1> QED
  BY <1>1, <1>2, OrderPlaces

-----------------------------------------------------------------------------
(* The inductive invariant.                                                *)

OnlyIn(l) == ObjectIds(l) \ ObjectIds(Other(l))

\* The invocation is a record of what it has left, and how far it is with that; an
\* invocation that has found the arrays in another order only has come to its end.
RunInv ==
    /\ run = [left |-> run.left, step |-> run.step, sample |-> run.sample, got |-> run.got]
    /\ run.got = [l \in Label |-> run.got[l]]
    /\ run.left \subseteq ToSet(Order)
    /\ run.step \in 1..4 /\ (run.step > 2 => Due("fetch"))
    /\ said = "ordering_only" => run.left = {}

\* A clean file says of its index what the subcommand asked for, a sample of some ids.
FilesInv ==
    /\ indices \in [Label -> [Id -> Doc \union {None}]]
    /\ file = [f \in Kind \X Label |-> file[f]]
    /\ \A l \in Label :
          /\ <<"ids", l>> \in clean => file[<<"ids", l>>] = ObjectIds(l)
          /\ <<"level", l>> \in clean => file[<<"level", l>>] = indices[l]
          /\ <<"sample", l>> \in clean =>
                \A i \in Id : file[<<"sample", l>>][i] \in {None, indices[l][i]}

Mismatches == {i \in ObjectIds("v1") \intersect ObjectIds("v2") :
                  LevelOf[indices["v1"][i]] # LevelOf[indices["v2"][i]]}

Difference(i, f) == [id |-> i, field |-> f, v1 |-> Fields[f][indices["v1"][i]],
                                            v2 |-> Fields[f][indices["v2"][i]]]
Differences == {d \in {Difference(i, f) : i \in Shared("sample"), f \in DOMAIN Fields} : d.v1 # d.v2}

\* What a result has to be.
Truth(r, value) ==
    CASE r = "diff"       -> \A l \in Label : value[l] = OnlyIn(l)
      [] r = "mismatches" -> value = Mismatches
      [] r = "records"    -> \A l \in Label : value[l] = [i \in OnlyIn(l) |-> indices[l][i]]
      [] r = "diffs"      -> value = Differences

ResultsInv ==
    /\ result = [r \in Results |-> result[r]]
    /\ current \subseteq Results
    /\ \A r \in current : Truth(r, result[r])

\* Between the two indices fetch-id-diff has the records of the first.
HalfFetched ==
    Due("fetch-id-diff") /\ run.step = 2 /\ "diff" \in current
    => run.got["v1"] = [i \in OnlyIn("v1") |-> indices["v1"][i]]

SameElements ==
    \A i \in Shared("sample") : ToSet(TagsOf[indices["v1"][i]]) \subseteq ToSet(TagsOf[indices["v2"][i]])

VerdictInv == said = "ordering_only" /\ "diffs" \in current => SameElements

ScriptInv == RunInv /\ FilesInv /\ ResultsInv /\ HalfFetched /\ VerdictInv

-----------------------------------------------------------------------------
(* The invocation.                                                         *)

LEMMA IdleRun == /\ Idle.left = {} /\ Idle.step = 1 /\ Idle.got = [l \in Label |-> None]
                 /\ Idle = [left |-> {}, step |-> 1, sample |-> None, got |-> Idle.got]
BY DEF Idle

\* How a step leaves the invocation: ended, or through with a subcommand, or a step on in
\* the one it is in, or as it was.
Moves(c) == \/ End \/ Done(c)
            \/ c = "fetch" /\ run.step < 4 /\ Step(run.step + 1)
            \/ Step(2)
            \/ \E s : run' = [run EXCEPT !.sample = s]
            \/ \E g : run' = [run EXCEPT !.step = 2, !.got = [run.got EXCEPT !["v1"] = g]]

LEMMA DueFollows ==
    ASSUME NEW d, run'.left = run.left
    PROVE  Due(d)' <=> Due(d)
<1>1. Due(d) <=> /\ d \in run.left
                 /\ \A i \in 1..8 : Order[i] \in run.left => \E j \in 1..8 : Order[j] = d /\ j <= i
  BY OrderPlaces DEF Due
<1>2. Due(d)' <=> /\ d \in run'.left
                  /\ \A i \in 1..8 : Order[i] \in run'.left => \E j \in 1..8 : Order[j] = d /\ j <= i
  BY OrderPlaces DEF Due
<1> QED
  BY <1>1, <1>2

LEMMA CommandsInOrder ==
    {"fetch", "fetch-level-type", "fetch-spot-check", "fetch-id-diff", "analyze", "level-type",
     "spot-check", "sort-arrays"} \subseteq ToSet(Order)
BY OrderPlaces

\* Only sort-arrays, when it is through, finds the arrays in another order.
Says(c) == \/ said' = said
           \/ said' # "ordering_only"
           \/ c = "sort-arrays" /\ Done(c)

LEMMA MovesKeep ==
    ASSUME RunInv, NEW c \in ToSet(Order), Due(c), Moves(c), Says(c)
    PROVE  /\ RunInv'
           /\ c # "fetch-id-diff" => ~ (Due("fetch-id-diff")' /\ run'.step = 2)
<1>1. run.left # {} /\ said # "ordering_only"
  BY DEF Due, RunInv
<1>2. CASE End \/ Done(c)
  <2>1. /\ run'.step = 1 /\ run'.got = [l \in Label |-> run'.got[l]]
        /\ run' = [left |-> run'.left, step |-> run'.step, sample |-> run'.sample, got |-> run'.got]
        /\ run'.left \subseteq run.left
    BY <1>2, IdleRun DEF End, Done, Idle
  <2>2. c = "sort-arrays" /\ Done(c) => run'.left = {}
    BY SortIsLast, IdleRun DEF Done, Idle, RunInv
  <2>3. said' = "ordering_only" => run'.left = {}
    BY <1>1, <1>2, <2>1, <2>2 DEF Says, End
  <2>4. run'.left \subseteq ToSet(Order) /\ run'.step \in 1..4 /\ ~ (run'.step > 2)
    BY <2>1 DEF RunInv
  <2> QED
    BY <2>1, <2>3, <2>4 DEF RunInv
<1>3. CASE ~ (End \/ Done(c))
  <2>1. run = [left |-> run.left, step |-> run.step, sample |-> run.sample, got |-> run.got]
        /\ run.got = [l \in Label |-> run.got[l]]
    BY DEF RunInv
  <2>2. /\ run' = [left |-> run.left, step |-> run'.step, sample |-> run'.sample, got |-> run'.got]
        /\ run'.got = [l \in Label |-> run'.got[l]]
    <3>1. ASSUME NEW n, Step(n) PROVE <2>2!:
      BY <2>1, <3>1 DEF Step
    <3>2. ASSUME NEW s, run' = [run EXCEPT !.sample = s] PROVE <2>2!:
      BY <2>1, <3>2
    <3>3. ASSUME NEW g, run' = [run EXCEPT !.step = 2, !.got = [run.got EXCEPT !["v1"] = g]] PROVE <2>2!:
      <4>1. run' = [left |-> run.left, step |-> 2, sample |-> run.sample, got |-> [run.got EXCEPT !["v1"] = g]]
        BY <2>1, <3>3
      <4> QED
        BY <2>1, <4>1
    <3> QED
      BY <1>3, <3>1, <3>2, <3>3 DEF Moves
  <2>3. /\ run'.step \in 1..4 /\ (run'.step > 2 => Due("fetch"))
    <3>1. run.step \in 1..4 /\ (run.step > 2 => Due("fetch"))
      BY DEF RunInv
    <3>2. CASE c = "fetch" /\ run.step < 4 /\ Step(run.step + 1)
      <4>1. run'.step = run.step + 1
        BY <2>1, <3>2 DEF Step
      <4> QED
        BY <3>1, <3>2, <4>1
    <3>3. CASE Step(2)
      <4>1. run'.step = 2
        BY <2>1, <3>3 DEF Step
      <4> QED
        BY <4>1
    <3>4. ASSUME NEW s, run' = [run EXCEPT !.sample = s] PROVE run'.step = run.step
      BY <2>1, <3>4
    <3>5. ASSUME NEW g, run' = [run EXCEPT !.step = 2, !.got = [run.got EXCEPT !["v1"] = g]] PROVE run'.step = 2
      BY <2>1, <3>5
    <3>6. CASE run'.step = run.step \/ run'.step = 2
      BY <3>1, <3>6
    <3> QED
      BY <1>3, <3>1, <3>2, <3>3, <3>4, <3>5, <3>6 DEF Moves
  <2>4. run'.left = run.left
    BY <2>2
  <2>5. c # "fetch-id-diff" => ~ Due("fetch-id-diff")'
    BY <2>4, OneIsDue, CommandsInOrder, DueFollows
  <2>6. run'.step > 2 => Due("fetch")'
    BY <2>3, <2>4, DueFollows
  <2>7. said' = "ordering_only" => run'.left = {}
    BY <1>1, <1>3 DEF Says
  <2> QED
    BY <2>2, <2>3, <2>4, <2>5, <2>6, <2>7 DEF RunInv
<1> QED
  BY <1>2, <1>3

-----------------------------------------------------------------------------
(* The files and the results.                                              *)

\* What files and results say is true stays so as long as the indices do, the differences
\* as long as the samples do, too.
LEMMA TruthStays ==
    ASSUME UNCHANGED indices, NEW r \in Results, Truth(r, result'[r]),
           r = "diffs" => Shared("sample")' = Shared("sample")
    PROVE  Truth(r, result[r])'
<1>1. \A l : ObjectIds(l)' = ObjectIds(l) /\ OnlyIn(l)' = OnlyIn(l)
  BY DEF ObjectIds, OnlyIn
<1>2. Mismatches' = Mismatches
  BY <1>1 DEF Mismatches
<1>3. \A i, f : Difference(i, f)' = Difference(i, f)
  BY DEF Difference
<1>4. CASE r = "diffs"
  <2>1. Differences' = Differences
    BY <1>3, <1>4 DEF Differences
  <2> QED
    BY <1>4, <2>1 DEF Truth
<1>5. CASE r # "diffs"
  BY <1>1, <1>2, <1>5 DEF Truth, Results
<1> QED
  BY <1>4, <1>5

LEMMA FilesStay ==
    ASSUME FilesInv, UNCHANGED <<indices, file, clean>>
    PROVE  FilesInv' /\ Shared("sample")' = Shared("sample")
<1>1. \A l : ObjectIds(l)' = ObjectIds(l)
  BY DEF ObjectIds
<1> QED
  BY <1>1 DEF FilesInv, Shared

\* A step that leaves files, results and indices alone.
LEMMA QuietKeeps ==
    ASSUME FilesInv, ResultsInv, UNCHANGED <<indices, file, result, clean, current>>
    PROVE  FilesInv' /\ ResultsInv' /\ (SameElements => SameElements')
<1>1. FilesInv' /\ Shared("sample")' = Shared("sample")
  BY FilesStay
<1>2. ResultsInv'
  <2>1. \A r \in current : Truth(r, result[r])'
    BY <1>1, TruthStays DEF ResultsInv
  <2> QED
    BY <2>1 DEF ResultsInv
<1> QED
  BY <1>1, <1>2 DEF SameElements

\* A fetch makes a file clean, and the results of its kind old.
LEMMA SaveKeeps ==
    ASSUME FilesInv, ResultsInv, NEW kind \in {"facets", "ids", "level", "sample"}, NEW l \in Label,
           Save(kind, l)
    PROVE  FilesInv' /\ ResultsInv' /\ current' \subseteq current
<1> DEFINE f == <<kind, l>>
<1>1. /\ file' = [file EXCEPT ![f] = Fetched(kind, l)] /\ clean' = clean \union {f}
      /\ current' = current \ ResultsOf(kind) /\ UNCHANGED <<indices, result>>
  BY DEF Save
<1>2. file = [g \in Kind \X Label |-> file[g]] /\ f \in Kind \X Label
  BY DEF FilesInv, Kind
<1>3. file' = [g \in Kind \X Label |-> file'[g]] /\ file'[f] = Fetched(kind, l)
      /\ \A g \in Kind \X Label : g # f => file'[g] = file[g]
  BY <1>1, <1>2
<1>4. \A m : ObjectIds(m)' = ObjectIds(m)
  BY <1>1 DEF ObjectIds
<1>5. FilesInv'
  <2>1. /\ kind = "ids" => file'[f] = ObjectIds(l)
        /\ kind = "level" => file'[f] = indices[l]
        /\ kind = "sample" => \A i \in Id : file'[f][i] \in {None, indices[l][i]}
    BY <1>3 DEF Fetched
  <2>2. ASSUME NEW m \in Label
        PROVE  /\ <<"ids", m>> \in clean' => file'[<<"ids", m>>] = ObjectIds(m)
               /\ <<"level", m>> \in clean' => file'[<<"level", m>>] = indices[m]
               /\ <<"sample", m>> \in clean' =>
                     \A i \in Id : file'[<<"sample", m>>][i] \in {None, indices[m][i]}
    <3>1. /\ <<"ids", m>> \in Kind \X Label /\ <<"level", m>> \in Kind \X Label
          /\ <<"sample", m>> \in Kind \X Label
      BY DEF Kind
    <3>2. \A k \in Kind : <<k, m>> # f => (<<k, m>> \in clean' <=> <<k, m>> \in clean)
      BY <1>1
    <3>3. <<"ids", m>> \in clean' => file'[<<"ids", m>>] = ObjectIds(m)
      BY <1>3, <2>1, <3>1, <3>2 DEF FilesInv, Kind
    <3>4. <<"level", m>> \in clean' => file'[<<"level", m>>] = indices[m]
      BY <1>3, <2>1, <3>1, <3>2 DEF FilesInv, Kind
    <3>5. <<"sample", m>> \in clean' => \A i \in Id : file'[<<"sample", m>>][i] \in {None, indices[m][i]}
      BY <1>3, <2>1, <3>1, <3>2 DEF FilesInv, Kind
    <3> QED
      BY <3>3, <3>4, <3>5
  <2> QED
    BY <1>1, <1>3, <1>4, <2>2 DEF FilesInv
<1>6. ResultsInv'
  <2>1. ASSUME NEW r \in current' PROVE Truth(r, result[r])'
    <3>1. r \in current /\ r \in Results /\ Truth(r, result[r])
      BY <1>1 DEF ResultsInv
    <3>2. ASSUME r = "diffs" PROVE Shared("sample")' = Shared("sample")
      <4>1. kind # "sample"
        BY <1>1, <3>2 DEF ResultsOf
      <4>2. \A m \in Label : file'[<<"sample", m>>] = file[<<"sample", m>>]
        BY <1>3, <4>1 DEF Kind
      <4> QED
        BY <4>2 DEF Shared
    <3>3. Truth(r, result'[r])
      BY <1>1, <3>1
    <3> QED
      BY <1>1, <3>1, <3>2, <3>3, TruthStays
  <2> QED
    BY <1>1, <2>1 DEF ResultsInv
<1> QED
  BY <1>1, <1>5, <1>6

\* A result that is written is current only if it is true.
LEMMA WriteKeeps ==
    ASSUME FilesInv, ResultsInv, NEW name \in Results, NEW value, NEW agrees \in BOOLEAN,
           Write(name, value, agrees), agrees => Truth(name, value)
    PROVE  FilesInv' /\ ResultsInv'
<1>1. /\ result' = [result EXCEPT ![name] = value]
      /\ current' = IF agrees THEN current \union {name} ELSE current \ {name}
      /\ UNCHANGED <<indices, file, clean>>
  BY DEF Write
<1>2. FilesInv' /\ Shared("sample")' = Shared("sample")
  BY <1>1, FilesStay
<1>3. result' = [r \in Results |-> result'[r]] /\ result'[name] = value
      /\ \A r \in Results : r # name => result'[r] = result[r]
  BY <1>1 DEF ResultsInv
<1>4. current' \subseteq Results
  BY <1>1 DEF ResultsInv
<1>5. ASSUME NEW r \in current' PROVE Truth(r, result[r])'
  <2>1. Truth(r, result'[r])
    BY <1>1, <1>3, <1>4 DEF ResultsInv
  <2> QED
    BY <1>1, <1>2, <1>4, <2>1, TruthStays
<1> QED
  BY <1>2, <1>3, <1>4, <1>5 DEF ResultsInv

\* A write of an index makes its files stale, and every result.
LEMMA ChangeKeeps ==
    ASSUME ScriptInv, ChangeIndex
    PROVE  ScriptInv'
<1>1. PICK l \in Label, i \in Id, d \in Doc \union {None} :
         /\ indices' = [indices EXCEPT ![l][i] = d]
         /\ clean' = {f \in clean : f[2] # l}
  BY DEF ChangeIndex
<1>2. current' = {} /\ UNCHANGED <<file, result, run, said>>
  BY DEF ChangeIndex
<1>3. indices \in [Label -> [Id -> Doc \union {None}]]
  BY DEF ScriptInv, FilesInv
<1>4. indices' \in [Label -> [Id -> Doc \union {None}]] /\ \A m \in Label : m # l => indices'[m] = indices[m]
  BY <1>1, <1>3
<1>5. ASSUME NEW m \in Label, NEW k, <<k, m>> \in clean'
      PROVE  <<k, m>> \in clean /\ indices'[m] = indices[m] /\ ObjectIds(m)' = ObjectIds(m)
  <2>1. m # l /\ <<k, m>> \in clean
    BY <1>1, <1>5
  <2> QED
    BY <1>4, <2>1 DEF ObjectIds
<1>6. FilesInv'
  BY <1>2, <1>4, <1>5 DEF ScriptInv, FilesInv
<1>7. ResultsInv' /\ HalfFetched' /\ VerdictInv'
  BY <1>2 DEF ScriptInv, ResultsInv, HalfFetched, VerdictInv
<1>8. RunInv'
  BY <1>2, DueFollows DEF ScriptInv, RunInv
<1> QED
  BY <1>6, <1>7, <1>8 DEF ScriptInv

LEMMA InvokeKeeps ==
    ASSUME ScriptInv, Invoke
    PROVE  ScriptInv'
<1>1. PICK active \in SUBSET ToSet(Order) : run' = [Idle EXCEPT !.left = active]
  BY DEF Invoke
<1>2. run' = [left |-> active, step |-> 1, sample |-> None, got |-> Idle.got]
  BY <1>1, IdleRun
<1>3. UNCHANGED <<indices, file, result, clean, current>> /\ said' = None
  BY DEF Invoke
<1>4. FilesInv' /\ ResultsInv'
  BY <1>3, QuietKeeps DEF ScriptInv
<1>5. RunInv'
  BY <1>2, <1>3, IdleRun, NoneAssumption DEF RunInv
<1>6. HalfFetched' /\ VerdictInv'
  BY <1>2, <1>3, NoneAssumption DEF HalfFetched, VerdictInv
<1> QED
  BY <1>4, <1>5, <1>6 DEF ScriptInv

\* A subcommand other than fetch-id-diff and sort-arrays has only to keep files and results.
LEMMA OthersKeep ==
    ASSUME ScriptInv, NEW c \in ToSet(Order) \ {"fetch-id-diff", "sort-arrays"}, Due(c), Moves(c),
           said' = said, FilesInv', ResultsInv'
    PROVE  ScriptInv'
<1>1. RunInv' /\ ~ (Due("fetch-id-diff")' /\ run'.step = 2)
  BY MovesKeep DEF ScriptInv, Says
<1>2. said # "ordering_only"
  BY DEF ScriptInv, RunInv, Due
<1> QED
  BY <1>1, <1>2 DEF ScriptInv, HalfFetched, VerdictInv

\* An invocation that ends, or says a verdict on what it has.
LEMMA QuietStepKeeps ==
    ASSUME ScriptInv, NEW c \in ToSet(Order), Due(c), End \/ Done(c),
           said' = said \/ said' = "parity",
           UNCHANGED <<indices, file, result, clean, current>>
    PROVE  ScriptInv'
<1>1. FilesInv' /\ ResultsInv'
  BY QuietKeeps DEF ScriptInv
<1>2. Moves(c) /\ Says(c)
  BY DEF Moves, Says
<1>3. RunInv'
  BY <1>2, MovesKeep DEF ScriptInv
<1>4. run'.step = 1
  BY DEF End, Done, Idle
<1>5. said' # "ordering_only"
  BY DEF ScriptInv, RunInv, Due
<1> QED
  BY <1>1, <1>3, <1>4, <1>5 DEF ScriptInv, HalfFetched, VerdictInv

LEMMA InterruptKeeps ==
    ASSUME ScriptInv, Interrupt
    PROVE  ScriptInv'
<1>1. run' = Idle /\ UNCHANGED <<indices, file, result, said, clean, current>> /\ run.left # {}
  BY DEF Interrupt, End
<1>2. FilesInv' /\ ResultsInv'
  BY <1>1, QuietKeeps DEF ScriptInv
<1>3. RunInv'
  BY <1>1, IdleRun DEF RunInv
<1>4. HalfFetched' /\ VerdictInv'
  BY <1>1, IdleRun DEF ScriptInv, RunInv, HalfFetched, VerdictInv
<1> QED
  BY <1>2, <1>3, <1>4 DEF ScriptInv

-----------------------------------------------------------------------------
(* The subcommands.                                                        *)

LEMMA FetchesKeep ==
    ASSUME ScriptInv, Fetch \/ FetchLevelType \/ FetchSpotCheck
    PROVE  ScriptInv'
<1>1. run.step \in 1..4 /\ (run.step > 2 => Due("fetch")) /\ Labels[1] \in Label /\ Labels[2] \in Label
  BY LabelIsTwo DEF ScriptInv, RunInv
<1>2. CASE Fetch
  <2>1. (run.step + 1) \div 2 \in {1, 2}
    BY <1>1
  <2>2. PICK kind \in {"facets", "ids"}, l \in Label : Save(kind, l)
    BY <1>1, <1>2, <2>1 DEF Fetch
  <2>3. Due("fetch") /\ Moves("fetch")
    BY <1>1, <1>2 DEF Fetch, Moves
  <2>4. said' = said
    BY <2>2 DEF Save
  <2> QED
    BY <2>2, <2>3, <2>4, SaveKeeps, OthersKeep, CommandsInOrder DEF ScriptInv
<1>3. ASSUME NEW c \in {"fetch-level-type", "fetch-spot-check"}, NEW kind \in {"level", "sample"},
             Due(c), Save(kind, Labels[run.step]), Step(2) \/ Done(c)
      PROVE  ScriptInv'
  <2>1. run.step \in {1, 2}
    <3>1. ~ Due("fetch")
      BY <1>3, OneIsDue, CommandsInOrder
    <3> QED
      BY <1>1, <3>1
  <2>2. Labels[run.step] \in Label /\ said' = said /\ Moves(c)
    BY <1>1, <1>3, <2>1 DEF Save, Moves
  <2> QED
    BY <1>3, <2>2, SaveKeeps, OthersKeep, CommandsInOrder DEF ScriptInv
<1>4. CASE FetchLevelType
  BY <1>3, <1>4 DEF FetchLevelType
<1>5. CASE FetchSpotCheck
  BY <1>3, <1>5 DEF FetchSpotCheck
<1> QED
  BY <1>2, <1>4, <1>5

LEMMA DrawKeeps ==
    ASSUME ScriptInv, DrawSample
    PROVE  ScriptInv'
<1>1. Due("fetch-spot-check") /\ Moves("fetch-spot-check")
  BY DEF DrawSample, Moves
<1>2. UNCHANGED <<indices, file, result, said, clean, current>>
  BY DEF DrawSample
<1> QED
  BY <1>1, <1>2, QuietKeeps, OthersKeep, CommandsInOrder DEF ScriptInv

\* What the analyses compute of clean files is true.
LEMMA ConcludeKeeps ==
    ASSUME ScriptInv, NEW c \in {"analyze", "level-type", "spot-check"}, NEW name \in Results, NEW value,
           Conclude(c, name, value), Needs(c) \subseteq clean => Truth(name, value)
    PROVE  ScriptInv'
<1>1. Due(c) /\ Moves(c) /\ said' = said
  BY DEF Conclude, Moves
<1>2. (Needs(c) \subseteq clean) \in BOOLEAN /\ Write(name, value, Needs(c) \subseteq clean)
  BY DEF Conclude
<1>3. FilesInv' /\ ResultsInv'
  BY <1>2, WriteKeeps DEF ScriptInv
<1> QED
  BY <1>1, <1>3, OthersKeep, CommandsInOrder

LEMMA AnalyzeKeeps ==
    ASSUME ScriptInv, Analyze
    PROVE  ScriptInv'
<1> DEFINE value == [l \in Label |-> Ids(l) \ Ids(Other(l))]
<1>1. ASSUME Needs("analyze") \subseteq clean PROVE Truth("diff", value)
  <2>1. \A l \in Label : <<"ids", l>> \in clean /\ Other(l) \in Label
    BY <1>1, LabelIsTwo DEF Needs, Other
  <2>2. \A l \in Label : Ids(l) = ObjectIds(l)
    BY <2>1 DEF Ids, ScriptInv, FilesInv
  <2> QED
    BY <2>1, <2>2 DEF Truth, OnlyIn
<1>2. Conclude("analyze", "diff", value)
  BY DEF Analyze
<1> QED
  BY <1>1, <1>2, ConcludeKeeps DEF Results

LEMMA LevelTypeKeeps ==
    ASSUME ScriptInv, LevelType
    PROVE  ScriptInv'
<1> DEFINE value == {i \in Shared("level") :
                        LevelOf[file[<<"level", "v1">>][i]] # LevelOf[file[<<"level", "v2">>][i]]}
<1>1. ASSUME Needs("level-type") \subseteq clean PROVE Truth("mismatches", value)
  <2>1. \A l \in {"v1", "v2"} : file[<<"level", l>>] = indices[l]
    BY <1>1, LabelIsTwo DEF Needs, ScriptInv, FilesInv
  <2>2. Shared("level") = ObjectIds("v1") \intersect ObjectIds("v2")
    BY <2>1, LabelIsTwo DEF Shared, ObjectIds
  <2> QED
    BY <2>1, <2>2 DEF Truth, Mismatches
<1>2. Conclude("level-type", "mismatches", value)
  BY DEF LevelType
<1> QED
  BY <1>1, <1>2, ConcludeKeeps DEF Results

LEMMA SpotCheckKeeps ==
    ASSUME ScriptInv, SpotCheck
    PROVE  ScriptInv'
<1> DEFINE Value(l, i, f) == Fields[f][file[<<"sample", l>>][i]]
           Found(i, f) == [id |-> i, field |-> f, v1 |-> Value("v1", i, f), v2 |-> Value("v2", i, f)]
           value == {d \in {Found(i, f) : i \in Shared("sample"), f \in DOMAIN Fields} : d.v1 # d.v2}
<1>1. ASSUME Needs("spot-check") \subseteq clean PROVE Truth("diffs", value)
  <2>1. ASSUME NEW i \in Shared("sample"), NEW l \in {"v1", "v2"}
        PROVE  file[<<"sample", l>>][i] = indices[l][i]
    <3>1. i \in Id /\ file[<<"sample", l>>][i] # None
      BY LabelIsTwo DEF Shared
    <3> QED
      BY <1>1, <3>1, LabelIsTwo DEF Needs, ScriptInv, FilesInv
  <2>2. \A i \in Shared("sample"), f \in DOMAIN Fields : Found(i, f) = Difference(i, f)
    BY <2>1 DEF Difference
  <2>3. value = Differences
    BY <2>2 DEF Differences
  <2> QED
    BY <2>3 DEF Truth
<1>2. Conclude("spot-check", "diffs", value)
  BY DEF SpotCheck
<1> QED
  BY <1>1, <1>2, ConcludeKeeps DEF Results

LEMMA ExitsKeep ==
    ASSUME ScriptInv, ExitMissing \/ LevelTypeRaises \/ SayParity
    PROVE  ScriptInv'
<1>1. \E c \in ToSet(Order) : Due(c) /\ (End \/ Done(c))
  BY CommandsInOrder DEF ExitMissing, LevelTypeRaises, SayParity
<1>2. /\ said' = said \/ said' = "parity"
      /\ UNCHANGED <<indices, file, result, clean, current>>
  BY DEF ExitMissing, LevelTypeRaises, SayParity
<1> QED
  BY <1>1, <1>2, QuietStepKeeps

LEMMA FetchIdDiffKeeps ==
    ASSUME ScriptInv, FetchIdDiff
    PROVE  ScriptInv'
<1> DEFINE l == Labels[run.step]
           Found(m) == [i \in result["diff"][m] |-> indices[m][i]]
           got == [run.got EXCEPT ![l] = Found(l)]
<1>1. Due("fetch-id-diff") /\ said' = said /\ said # "ordering_only"
  BY DEF FetchIdDiff, ScriptInv, RunInv, Due
<1>2. run.got = [m \in Label |-> run.got[m]]
  BY DEF ScriptInv, RunInv
<1>3. \A m \in Label : "diff" \in current => Found(m) = [i \in OnlyIn(m) |-> indices[m][i]]
  BY DEF ScriptInv, ResultsInv, Truth
<1>4. CASE /\ run.step = 1 /\ run' = [run EXCEPT !.step = 2, !.got = got]
           /\ UNCHANGED <<indices, file, result, clean, current>>
  <2>1. l = "v1" /\ got = [run.got EXCEPT !["v1"] = Found("v1")]
    BY <1>4, LabelIsTwo
  <2>2. Moves("fetch-id-diff")
    BY <1>4, <2>1 DEF Moves
  <2>3. RunInv' /\ FilesInv' /\ ResultsInv'
    BY <1>1, <1>4, <2>2, MovesKeep, QuietKeeps, CommandsInOrder DEF ScriptInv, Says
  <2>4. HalfFetched'
    <3>1. run'.got = got /\ got["v1"] = Found("v1")
      BY <1>2, <1>4, <2>1, LabelIsTwo DEF ScriptInv, RunInv
    <3>2. OnlyIn("v1")' = OnlyIn("v1")
      BY <1>4 DEF OnlyIn, ObjectIds
    <3> QED
      BY <1>3, <1>4, <3>1, <3>2, LabelIsTwo DEF HalfFetched
  <2> QED
    BY <1>1, <2>3, <2>4 DEF ScriptInv, VerdictInv
<1>5. CASE run.step = 2 /\ Write("records", got, "diff" \in current) /\ Done("fetch-id-diff")
  <2>1. l = "v2"
    BY <1>5, LabelIsTwo
  <2>2. ASSUME "diff" \in current PROVE Truth("records", got)
    <3>1. got["v1"] = [i \in OnlyIn("v1") |-> indices["v1"][i]]
      BY <1>1, <1>2, <1>5, <2>1, <2>2, LabelIsTwo DEF ScriptInv, HalfFetched
    <3>2. got["v2"] = [i \in OnlyIn("v2") |-> indices["v2"][i]]
      BY <1>2, <1>3, <2>1, <2>2, LabelIsTwo
    <3> QED
      BY <3>1, <3>2, LabelIsTwo DEF Truth
  <2>3. FilesInv' /\ ResultsInv'
    <3>1. ("diff" \in current) \in BOOLEAN /\ "records" \in Results
      BY DEF Results
    <3>2. Write("records", got, "diff" \in current) /\ FilesInv /\ ResultsInv
      BY <1>5 DEF ScriptInv
    <3> HIDE DEF got
    <3> QED
      BY <2>2, <3>1, <3>2, WriteKeeps
  <2>4. Moves("fetch-id-diff") /\ Says("fetch-id-diff")
    BY <1>1, <1>5 DEF Moves, Says
  <2>5. RunInv' /\ run'.step = 1
    BY <1>1, <1>5, <2>4, MovesKeep, CommandsInOrder DEF ScriptInv, Done, Idle
  <2> QED
    BY <1>1, <2>3, <2>5 DEF ScriptInv, HalfFetched, VerdictInv
<1> QED
  BY <1>4, <1>5 DEF FetchIdDiff

\* Lists that are equal when sorted have the same elements.
LEMMA SortedAlike ==
    ASSUME NEW s, NEW t, Normalized(s) = Normalized(t)
    PROVE  ToSet(s) = ToSet(t)
<1>1. DOMAIN Normalized(s) = ToSet(s) /\ DOMAIN Normalized(t) = ToSet(t)
  BY DEF Normalized
<1> QED
  BY <1>1

LEMMA SortKeeps ==
    ASSUME ScriptInv, SortArrays
    PROVE  ScriptInv'
<1> DEFINE arrays == {d \in result["diffs"] : d.field = "tags"}
<1>1. Due("sort-arrays") /\ Done("sort-arrays") /\ UNCHANGED <<indices, file, result, clean, current>>
  BY DEF SortArrays
<1>2. said' = "ordering_only" => \A d \in arrays : Normalized(d.v1) = Normalized(d.v2)
  BY DEF SortArrays
<1>3. Moves("sort-arrays") /\ Says("sort-arrays")
  BY <1>1 DEF Moves, Says
<1>4. RunInv' /\ run'.step = 1
  BY <1>1, <1>3, MovesKeep, CommandsInOrder DEF ScriptInv, Done, Idle
<1>5. FilesInv' /\ ResultsInv' /\ (SameElements => SameElements')
  BY <1>1, QuietKeeps DEF ScriptInv
<1>6. ASSUME said' = "ordering_only", "diffs" \in current PROVE SameElements
  <2> SUFFICES ASSUME NEW i \in Shared("sample")
               PROVE  ToSet(TagsOf[indices["v1"][i]]) \subseteq ToSet(TagsOf[indices["v2"][i]])
    BY DEF SameElements
  <2> DEFINE d == Difference(i, "tags")
  <2>1. /\ d.id = i /\ d.field = "tags" /\ d.v1 = TagsOf[indices["v1"][i]]
        /\ d.v2 = TagsOf[indices["v2"][i]] /\ "tags" \in DOMAIN Fields
    BY DEF Difference, Fields
  <2>2. CASE d.v1 # d.v2
    <3>1. d \in Differences
      BY <2>1, <2>2 DEF Differences
    <3>2. result["diffs"] = Differences
      BY <1>6 DEF ScriptInv, ResultsInv, Truth
    <3>3. Normalized(d.v1) = Normalized(d.v2)
      BY <1>2, <1>6, <2>1, <3>1, <3>2
    <3> QED
      BY <2>1, <3>3, SortedAlike
  <2>3. CASE d.v1 = d.v2
    BY <2>1, <2>3
  <2> QED
    BY <2>2, <2>3
<1> QED
  BY <1>1, <1>4, <1>5, <1>6 DEF ScriptInv, HalfFetched, VerdictInv

-----------------------------------------------------------------------------
LEMMA ScriptInvAtFirst == ScriptInit => ScriptInv
<1> SUFFICES ASSUME ScriptInit PROVE ScriptInv
  OBVIOUS
<1>1. run = Idle /\ said = None /\ clean = {} /\ current = {}
  BY DEF ScriptInit
<1>2. RunInv
  BY <1>1, IdleRun DEF RunInv
<1>3. FilesInv
  BY <1>1, IndicesAssumption DEF ScriptInit, FilesInv
<1>4. ResultsInv
  BY <1>1 DEF ScriptInit, ResultsInv
<1> QED
  BY <1>1, <1>2, <1>3, <1>4 DEF ScriptInv, HalfFetched, VerdictInv

LEMMA ScriptInvStays == ScriptInv /\ [ScriptNext]_scriptVars => ScriptInv'
<1> SUFFICES ASSUME ScriptInv, [ScriptNext]_scriptVars PROVE ScriptInv'
  OBVIOUS
<1>1. CASE Script
  BY <1>1, FetchesKeep, DrawKeeps, ExitsKeep, AnalyzeKeeps, LevelTypeKeeps, SpotCheckKeeps,
     FetchIdDiffKeeps, SortKeeps DEF Script
<1>2. CASE UNCHANGED scriptVars
  <2>1. UNCHANGED <<indices, file, result, run, said, clean, current>>
    BY <1>2 DEF scriptVars
  <2>2. FilesInv' /\ ResultsInv' /\ (SameElements => SameElements')
    BY <2>1, QuietKeeps DEF ScriptInv
  <2>3. RunInv'
    BY <2>1, DueFollows DEF ScriptInv, RunInv
  <2>4. OnlyIn("v1")' = OnlyIn("v1") /\ (Due("fetch-id-diff")' <=> Due("fetch-id-diff"))
    BY <2>1, DueFollows DEF OnlyIn, ObjectIds
  <2>5. HalfFetched' /\ VerdictInv'
    BY <2>1, <2>2, <2>4 DEF ScriptInv, HalfFetched, VerdictInv
  <2> QED
    BY <2>2, <2>3, <2>5 DEF ScriptInv
<1> QED
  BY <1>1, <1>2, ChangeKeeps, InvokeKeeps, InterruptKeeps DEF ScriptNext

\* However often the script is interrupted, whichever of its files are of which invocation
\* and whatever is written meanwhile: a result computed from files that the indices have not
\* moved away from is what the indices say, for any records, fields and samples.
THEOREM ReportsAreTrue == ScriptSpec => []ReportsMatchIndices
<1>1. ScriptInv => ReportsMatchIndices
  <2> SUFFICES ASSUME ScriptInv PROVE ReportsMatchIndices
    OBVIOUS
  <2>1. \A r \in current : Truth(r, result[r])
    BY DEF ScriptInv, ResultsInv
  <2>2. "diff" \in current => \A l \in Label : result["diff"][l] = OnlyIn(l)
    BY <2>1 DEF Truth
  <2>3. "mismatches" \in current => result["mismatches"] = Mismatches
    BY <2>1 DEF Truth
  <2>4. "records" \in current =>
           \A l \in Label : result["records"][l] = [i \in OnlyIn(l) |-> indices[l][i]]
    BY <2>1 DEF Truth
  <2>5. ASSUME "diffs" \in current
        PROVE  {<<d.id, d.field>> : d \in result["diffs"]} =
                  {p \in Shared("sample") \X DOMAIN Fields :
                      Fields[p[2]][indices["v1"][p[1]]] # Fields[p[2]][indices["v2"][p[1]]]}
    <3>1. result["diffs"] = Differences
      BY <2>1, <2>5 DEF Truth
    <3>2. \A i, f : /\ Difference(i, f).id = i /\ Difference(i, f).field = f
                    /\ Difference(i, f).v1 = Fields[f][indices["v1"][i]]
                    /\ Difference(i, f).v2 = Fields[f][indices["v2"][i]]
      BY DEF Difference
    <3>3. ASSUME NEW p
          PROVE  p \in {<<d.id, d.field>> : d \in Differences} <=>
                 \E i \in Shared("sample"), f \in DOMAIN Fields :
                    p = <<i, f>> /\ Fields[f][indices["v1"][i]] # Fields[f][indices["v2"][i]]
      BY <3>2 DEF Differences
    <3> QED
      BY <3>1, <3>3
  <2>6. "diffs" \in current /\ said = "ordering_only" => SameElements
    BY DEF ScriptInv, VerdictInv
  <2> QED
    BY <2>2, <2>3, <2>4, <2>5, <2>6 DEF ReportsMatchIndices, OnlyIn, Mismatches, SameElements
<1> QED
  BY <1>1, ScriptInvAtFirst, ScriptInvStays, PTL DEF ScriptSpec
=============================================================================
