--------------------------- MODULE MetadataSyncProofs ---------------------------
(***************************************************************************)
(* Proofs about MetadataSync: its types, that the semaphore keeps tasks    *)
(* with the same input from running twice within its window, and the order *)
(* in which updates run.  Then about FullUpdate, the body of one of those  *)
(* tasks: its types, what a dry run leaves alone and, while one full       *)
(* update runs at a time, the links a course has when it is written.       *)
(*                                                                         *)
(* OncePerWindow is inductive together with TypeOK.  Every action but      *)
(* Check is Calm: it leaves a task's input alone, lets it get no younger,  *)
(* makes no guarded task executed that was not, and sends new tasks not    *)
(* yet executed.  Check executes a task only when RecentlyRun finds no other.  *)
(***************************************************************************)
EXTENDS MetadataSync, FullUpdate, OrderingProofs, SequenceTheorems, TLAPS

\* What every action but Check does to the tasks.
Calm ==
    /\ Len(tasks) <= Len(tasks')
    /\ \A t \in Tasks : /\ tasks'[t].sig = tasks[t].sig
                        /\ tasks'[t].age >= tasks[t].age
                        /\ Guarded(tasks[t].sig) /\ Executed(t)' => Executed(t)
    /\ \A t \in Tasks' \ Tasks : tasks'[t].state = "sent"

-----------------------------------------------------------------------------
(* Types.                                                                  *)

LEMMA NewTaskType ==
    ASSUME NEW sig \in Signature, NEW rest \in Seq(Signature), NEW r \in Nat
    PROVE  NewTask(sig, rest, r) \in Task
  BY WindowAssumption, SMT DEF NewTask, Task, State, Ages

\* Concatenation, in the form the actions need it: lengths, places and types.
LEMMA Concatenation ==
    ASSUME NEW S, NEW s1 \in Seq(S), NEW s2 \in Seq(S)
    PROVE  /\ s1 \o s2 \in Seq(S)
           /\ Len(s1 \o s2) = Len(s1) + Len(s2)
           /\ \A i \in 1..Len(s1) : (s1 \o s2)[i] = s1[i]
           /\ \A i \in (Len(s1) + 1)..(Len(s1) + Len(s2)) : (s1 \o s2)[i] = s2[i - Len(s1)]
  BY SMT

LEMMA AgeOfRow ==
    ASSUME NEW task \in Task
    PROVE  task.age \in Nat
  BY WindowAssumption, SMT DEF Task, Ages

\* One row, its state or its age changed.
LEMMA StateOfRow ==
    ASSUME NEW task \in Task, NEW s \in State
    PROVE  /\ [task EXCEPT !.state = s] \in Task
           /\ [task EXCEPT !.state = s].state = s
           /\ [task EXCEPT !.state = s].sig = task.sig
           /\ [task EXCEPT !.state = s].age = task.age
  BY SMT DEF Task

LEMMA OlderRow ==
    ASSUME NEW task \in Task
    PROVE  /\ Older(task) \in Task
           /\ Older(task).state = task.state
           /\ Older(task).sig = task.sig
           /\ Older(task).age >= task.age
  BY WindowAssumption, SMT DEF Older, Task, Ages

LEMMA StateOfTask ==
    ASSUME tasks \in Seq(Task), NEW t \in Tasks, NEW s \in State
    PROVE  LET new == [tasks EXCEPT ![t].state = s]
           IN  /\ new \in Seq(Task)
               /\ Len(new) = Len(tasks)
               /\ new[t].state = s
               /\ \A u \in Tasks : new[u].sig = tasks[u].sig /\ new[u].age = tasks[u].age
               /\ \A u \in Tasks \ {t} : new[u].state = tasks[u].state
<1> DEFINE changed == [tasks[t] EXCEPT !.state = s]
<1>1. tasks[t] \in Task
  BY SMT DEF Tasks
<1>2. changed \in Task /\ changed.state = s /\ changed.sig = tasks[t].sig /\ changed.age = tasks[t].age
  BY <1>1, StateOfRow
<1>3. [tasks EXCEPT ![t].state = s] = [tasks EXCEPT ![t] = changed]
  OBVIOUS
<1> HIDE DEF changed
<1>4. /\ [tasks EXCEPT ![t] = changed] \in Seq(Task)
      /\ Len([tasks EXCEPT ![t] = changed]) = Len(tasks)
      /\ [tasks EXCEPT ![t] = changed][t] = changed
      /\ \A u \in Tasks \ {t} : [tasks EXCEPT ![t] = changed][u] = tasks[u]
  BY <1>2, SMT DEF Tasks
<1> QED
  BY <1>2, <1>3, <1>4

\* A step that changes the state of one task and executes no guarded task.
LEMMA SetStateIsCalm ==
    ASSUME tasks \in Seq(Task), NEW t \in Tasks, NEW s \in State, SetState(t, s),
           s \in {"running", "SUCCESS"} => Executed(t) \/ ~ Guarded(tasks[t].sig)
    PROVE  tasks' \in Seq(Task) /\ Calm
<1>1. /\ tasks' \in Seq(Task)
      /\ Len(tasks') = Len(tasks)
      /\ tasks'[t].state = s
      /\ \A u \in Tasks : tasks'[u].sig = tasks[u].sig /\ tasks'[u].age = tasks[u].age
      /\ \A u \in Tasks \ {t} : tasks'[u].state = tasks[u].state
  BY StateOfTask DEF SetState
<1>2. Tasks' = Tasks
  BY <1>1 DEF Tasks
<1>3. \A u \in Tasks : tasks[u] \in Task
  BY SMT DEF Tasks
<1>4. \A u \in Tasks : tasks[u].age \in Nat
  BY <1>3, AgeOfRow
<1>5. \A u \in Tasks : Guarded(tasks[u].sig) /\ Executed(u)' => Executed(u)
  BY <1>1 DEF Executed
<1>6. Len(tasks) \in Nat
  BY SMT
<1> QED
  BY <1>1, <1>2, <1>4, <1>5, <1>6, SMT DEF Calm

\* A step that sends tasks.
LEMMA SendIsCalm ==
    ASSUME tasks \in Seq(Task), NEW new \in Seq(Task), tasks' = tasks \o new,
           \A i \in 1..Len(new) : new[i].state = "sent"
    PROVE  tasks' \in Seq(Task) /\ Calm
<1>1. /\ tasks' \in Seq(Task)
      /\ Len(tasks') = Len(tasks) + Len(new)
      /\ \A i \in 1..Len(tasks) : tasks'[i] = tasks[i]
      /\ \A i \in (Len(tasks) + 1)..(Len(tasks) + Len(new)) : tasks'[i] = new[i - Len(tasks)]
  BY Concatenation
<1>2. Len(tasks) \in Nat /\ Len(new) \in Nat
  BY SMT
<1>3. \A u \in Tasks : tasks'[u] = tasks[u]
  BY <1>1 DEF Tasks
<1>4. \A u \in Tasks' \ Tasks : u - Len(tasks) \in 1..Len(new) /\ tasks'[u] = new[u - Len(tasks)]
  BY <1>1, <1>2, SMT DEF Tasks
<1>5. \A u \in Tasks : tasks[u] \in Task
  BY SMT DEF Tasks
<1>6. \A u \in Tasks : tasks[u].age \in Nat
  BY <1>5, AgeOfRow
<1>7. \A u \in Tasks : Executed(u)' => Executed(u)
  BY <1>3 DEF Executed
<1>8. \A u \in Tasks' \ Tasks : tasks'[u].state = "sent"
  BY <1>4
<1>9. Len(tasks) <= Len(tasks')
  BY <1>1, <1>2, SMT
<1>10. ASSUME NEW u \in Tasks
       PROVE  tasks'[u].sig = tasks[u].sig /\ tasks'[u].age >= tasks[u].age
  <2>1. tasks'[u].sig = tasks[u].sig /\ tasks'[u].age = tasks[u].age
    BY <1>3
  <2>2. tasks[u].age \in Nat
    BY <1>6
  <2> QED
    BY <2>1, <2>2, SMT
<1> QED
  BY <1>1, <1>7, <1>8, <1>9, <1>10 DEF Calm

\* A calm step cannot break what the semaphore promises.
LEMMA PastWindow ==
    ASSUME NEW a \in Nat, NEW b \in Nat, b >= a, a > Window
    PROVE  b > Window
  BY WindowAssumption

LEMMA CalmKeepsOncePerWindow ==
    ASSUME tasks \in Seq(Task), tasks' \in Seq(Task), OncePerWindow, Calm
    PROVE  OncePerWindow'
<1> SUFFICES ASSUME NEW t \in Tasks', NEW u \in Tasks', t # u, tasks'[t].sig = tasks'[u].sig,
                    Guarded(tasks'[t].sig), ~ Forced(tasks'[t].sig),
                    Executed(t)', Executed(u)'
             PROVE  tasks'[t].age > Window \/ tasks'[u].age > Window
  BY DEF OncePerWindow, Executed, Guarded, Forced, Tasks
<1>1. t \in Tasks /\ u \in Tasks
  BY DEF Calm, Executed
<1>2. /\ tasks'[t].sig = tasks[t].sig /\ tasks'[t].age >= tasks[t].age /\ Executed(t)
      /\ tasks'[u].sig = tasks[u].sig /\ tasks'[u].age >= tasks[u].age /\ Executed(u)
  BY <1>1 DEF Calm
<1>3. tasks[t].age > Window \/ tasks[u].age > Window
  BY <1>1, <1>2 DEF OncePerWindow
<1>4. /\ tasks[t] \in Task /\ tasks[u] \in Task
      /\ tasks'[t] \in Task /\ tasks'[u] \in Task
  BY <1>1, SMT DEF Tasks
<1>5. /\ tasks[t].age \in Nat /\ tasks[u].age \in Nat
      /\ tasks'[t].age \in Nat /\ tasks'[u].age \in Nat
  BY <1>4, AgeOfRow
<1>6. CASE tasks[t].age > Window
  BY <1>2, <1>5, <1>6, PastWindow, Zenon
<1>7. CASE tasks[u].age > Window
  BY <1>2, <1>5, <1>7, PastWindow, Zenon
<1> QED
  BY <1>3, <1>6, <1>7

-----------------------------------------------------------------------------
(* The actions.                                                            *)

LEMMA RestType ==
    ASSUME TypeOK, NEW t \in Tasks
    PROVE  /\ Rest(t) \in Seq(Task)
           /\ \A i \in 1..Len(Rest(t)) : Rest(t)[i].state = "sent"
<1>1. tasks[t] \in Task
  BY SMT DEF TypeOK, Tasks
<1>2. tasks[t].rest \in Seq(Signature) /\ tasks[t].refresh \in Nat
  BY <1>1, SMT DEF Task
<1>3. CASE tasks[t].rest = <<>>
  <2>1. Rest(t) = <<>>
    BY <1>3 DEF Rest
  <2> QED
    BY <2>1, SMT
<1>4. CASE tasks[t].rest # <<>>
  <2> DEFINE next == NewTask(Head(tasks[t].rest), Tail(tasks[t].rest), tasks[t].refresh)
  <2>1. Head(tasks[t].rest) \in Signature /\ Tail(tasks[t].rest) \in Seq(Signature)
    BY <1>2, <1>4, HeadTailProperties
  <2>2. next \in Task
    BY <1>2, <2>1, NewTaskType
  <2>3. next.state = "sent"
    BY DEF NewTask
  <2>4. Rest(t) = <<next>>
    BY <1>4 DEF Rest
  <2> QED
    <3> HIDE DEF next
    <3> QED
      BY <2>2, <2>3, <2>4, SMT
<1> QED
  BY <1>3, <1>4

\* A step of a worker on one task, other than Check.
LEMMA HandleStep ==
    ASSUME TypeOK, NEW t \in Tasks, Start(t) \/ Revoke(t) \/ Succeed(t) \/ Fail(t) \/ RunAgain(t)
    PROVE  tasks' \in Seq(Task) /\ Calm
<1>0. tasks \in Seq(Task)
  BY DEF TypeOK
<1>1. CASE Start(t)
  <2>1. PICK s \in State : SetState(t, s) /\ (s \in {"running", "SUCCESS"} => ~ Guarded(tasks[t].sig))
    <3>1. CASE Guarded(tasks[t].sig)
      <4>1. SetState(t, "checking")
        BY <1>1, <3>1 DEF Start
      <4> QED
        BY <4>1 DEF State
    <3>2. CASE ~ Guarded(tasks[t].sig)
      <4>1. SetState(t, "running")
        BY <1>1, <3>2 DEF Start
      <4> QED
        BY <3>2, <4>1 DEF State
    <3> QED
      BY <3>1, <3>2
  <2> QED
    BY <1>0, <2>1, SetStateIsCalm
<1>2. CASE Revoke(t)
  <2>1. SetState(t, "REVOKED") /\ "REVOKED" \in State
    BY <1>2 DEF Revoke, State
  <2> QED
    BY <1>0, <2>1, SetStateIsCalm
<1>3. CASE Fail(t)
  <2>1. SetState(t, "FAILURE") /\ "FAILURE" \in State
    BY <1>3 DEF Fail, State
  <2> QED
    BY <1>0, <2>1, SetStateIsCalm
<1>4. CASE RunAgain(t)
  <2>1. SetState(t, "sent") /\ "sent" \in State
    BY <1>4 DEF RunAgain, State
  <2> QED
    BY <1>0, <2>1, SetStateIsCalm
<1>5. CASE Succeed(t)
  \* SUCCESS first, then the message of the next task: both are calm at once.
  <2> DEFINE done == [tasks EXCEPT ![t].state = "SUCCESS"]
  <2>1. tasks' = done \o Rest(t) /\ Executed(t)
    BY <1>5 DEF Succeed, Executed
  <2>2. /\ done \in Seq(Task)
        /\ Len(done) = Len(tasks)
        /\ \A u \in Tasks : done[u].sig = tasks[u].sig /\ done[u].age = tasks[u].age
        /\ \A u \in Tasks \ {t} : done[u].state = tasks[u].state
    <3>1. "SUCCESS" \in State
      BY DEF State
    <3> QED
      BY <1>0, <3>1, StateOfTask
  <2> HIDE DEF done
  <2>3. Rest(t) \in Seq(Task) /\ \A i \in 1..Len(Rest(t)) : Rest(t)[i].state = "sent"
    BY RestType
  <2>4. /\ tasks' \in Seq(Task)
        /\ Len(tasks') = Len(tasks) + Len(Rest(t))
        /\ \A u \in 1..Len(tasks) : tasks'[u] = done[u]
        /\ \A u \in (Len(tasks) + 1)..(Len(tasks) + Len(Rest(t))) :
               tasks'[u] = Rest(t)[u - Len(tasks)]
    <3>1. /\ done \o Rest(t) \in Seq(Task)
          /\ Len(done \o Rest(t)) = Len(done) + Len(Rest(t))
          /\ \A u \in 1..Len(done) : (done \o Rest(t))[u] = done[u]
          /\ \A u \in (Len(done) + 1)..(Len(done) + Len(Rest(t))) :
                 (done \o Rest(t))[u] = Rest(t)[u - Len(done)]
      <4>1. done \in Seq(Task) /\ Rest(t) \in Seq(Task)
        BY <2>2, <2>3
      <4> QED
        BY <4>1, Concatenation
    <3> QED
      BY <2>1, <2>2, <3>1
  <2>5. Len(tasks) \in Nat /\ Len(Rest(t)) \in Nat
    BY <1>0, <2>3, LenProperties
  <2>6. \A u \in Tasks' \ Tasks :
            u - Len(tasks) \in 1..Len(Rest(t)) /\ tasks'[u] = Rest(t)[u - Len(tasks)]
    BY <2>4, <2>5, SMT DEF Tasks
  <2>7. \A u \in Tasks' \ Tasks : tasks'[u].state = "sent"
    BY <2>3, <2>6
  <2>8. ASSUME NEW u \in Tasks
        PROVE  tasks'[u].sig = tasks[u].sig /\ tasks'[u].age >= tasks[u].age
    <3>1. tasks'[u].sig = tasks[u].sig /\ tasks'[u].age = tasks[u].age
      BY <2>2, <2>4 DEF Tasks
    <3>2. tasks[u] \in Task
      BY <1>0, ElementOfSeq DEF Tasks
    <3> QED
      BY <3>1, <3>2, AgeOfRow, SMT
  <2>9. \A u \in Tasks : Executed(u)' => Executed(u)
    BY <2>1, <2>2, <2>4 DEF Executed, Tasks
  <2>10. Len(tasks) <= Len(tasks')
    BY <2>4, <2>5, SMT
  <2> QED
    BY <2>4, <2>7, <2>8, <2>9, <2>10 DEF Calm
<1> QED
  BY <1>1, <1>2, <1>3, <1>4, <1>5

LEMMA TickStep ==
    ASSUME TypeOK, Tick
    PROVE  tasks' \in Seq(Task) /\ Calm
<1>1. tasks \in Seq(Task) /\ Len(tasks) \in Nat
  BY LenProperties DEF TypeOK
<1>2. tasks' = [t \in 1..Len(tasks) |-> Older(tasks[t])]
  BY DEF Tick, Tasks
<1>3. \A t \in Tasks : tasks[t] \in Task
  BY <1>1, ElementOfSeq DEF Tasks
<1>4. \A t \in Tasks : /\ Older(tasks[t]) \in Task
                        /\ Older(tasks[t]).state = tasks[t].state
                        /\ Older(tasks[t]).sig = tasks[t].sig
                        /\ Older(tasks[t]).age >= tasks[t].age
  BY <1>3, OlderRow
<1>5. tasks' \in Seq(Task) /\ Len(tasks') = Len(tasks)
  <2>1. \A t \in 1..Len(tasks) : Older(tasks[t]) \in Task
    BY <1>4 DEF Tasks
  <2> HIDE DEF Older
  <2> QED
    BY <1>1, <1>2, <2>1, SMT
<1>6. \A t \in Tasks : tasks'[t] = Older(tasks[t])
  BY <1>2 DEF Tasks
<1>7. Tasks' = Tasks
  BY <1>5 DEF Tasks
<1>8. Len(tasks) <= Len(tasks')
  BY <1>1, <1>5, SMT
<1> QED
  BY <1>4, <1>5, <1>6, <1>7, <1>8 DEF Calm, Executed

LEMMA AppendIsCalm ==
    ASSUME tasks \in Seq(Task), NEW task \in Task, task.state = "sent", tasks' = Append(tasks, task)
    PROVE  tasks' \in Seq(Task) /\ Calm
<1>1. <<task>> \in Seq(Task) /\ Len(<<task>>) = 1 /\ <<task>>[1] = task
  BY SMT
<1>2. tasks' = tasks \o <<task>>
  BY SMT
<1>3. \A i \in 1..Len(<<task>>) : <<task>>[i].state = "sent"
  BY <1>1, SMT
<1> QED
  BY <1>1, <1>2, <1>3, SendIsCalm

LEMMA RequestStep ==
    ASSUME TypeOK, (\E q \in Query : Refresh(q)) \/ (\E force \in BOOLEAN : UpdateFull(force))
    PROVE  TypeOK' /\ Calm
<1>0. tasks \in Seq(Task) /\ refreshes \in Nat /\ fullRuns \in Nat
  BY DEF TypeOK
<1>1. ASSUME NEW q \in Query, Refresh(q)
      PROVE  TypeOK' /\ Calm
  <2> DEFINE rest == <<Sig("update_full", "none"), SigFor("dispatch_query", q, "none")>>
             task == NewTask(SigFor("update_catalog", q, "none"), rest, refreshes')
  <2>1. /\ Sig("update_full", "none") \in Signature
        /\ SigFor("dispatch_query", q, "none") \in Signature
        /\ SigFor("update_catalog", q, "none") \in Signature
    BY DEF Sig, SigFor, Signature, Names, Kwargs
  <2>2. rest \in Seq(Signature)
    BY <2>1, SMT
  <2>3. refreshes' \in Nat
    BY <1>0, <1>1, SMT DEF Refresh
  <2>4. task \in Task /\ task.state = "sent"
    <3>1. task \in Task
      BY <2>1, <2>2, <2>3, NewTaskType
    <3> QED
      BY <3>1 DEF NewTask
  <2>5. tasks' = Append(tasks, task)
    BY <1>1 DEF Refresh
  <2>6. tasks' \in Seq(Task) /\ Calm
    <3> HIDE DEF task
    <3> QED
      BY <1>0, <2>4, <2>5, AppendIsCalm
  <2> QED
    BY <1>1, <2>3, <2>6 DEF TypeOK, Refresh, command
<1>2. ASSUME NEW force \in BOOLEAN, UpdateFull(force)
      PROVE  TypeOK' /\ Calm
  <2> DEFINE sig  == Sig("update_full", IF force THEN "force=True" ELSE "force=False")
             task == NewTask(sig, <<>>, 0)
  <2>1. sig \in Signature
    BY DEF Sig, Signature, Names, Kwargs, NoQuery
  <2>2. task \in Task /\ task.state = "sent"
    <3>1. <<>> \in Seq(Signature)
      BY SMT
    <3>2. task \in Task
      BY <2>1, <3>1, NewTaskType
    <3> QED
      BY <3>2 DEF NewTask
  <2>3. fullRuns' \in Nat
    BY <1>0, <1>2, SMT DEF UpdateFull
  <2>4. tasks' \in Seq(Task) /\ Calm
    <3>1. tasks' = Append(tasks, task)
      BY <1>2 DEF UpdateFull
    <3> HIDE DEF task
    <3> QED
      BY <1>0, <2>2, <3>1, AppendIsCalm
  <2> QED
    BY <1>2, <2>3, <2>4 DEF TypeOK, UpdateFull, command
<1> QED
  BY <1>1, <1>2

-----------------------------------------------------------------------------
(* The update_content_metadata command.                                    *)

Stages == {"idle", "pathways", "courses", "queries", "full", "dispatch", "done", "crashed"}

LEMMA SendAndWaitStep ==
    ASSUME TypeOK, NEW c \in Command, NEW next \in Stages, NEW sigs \in Seq(Signature),
           SendAndWait(c, next, sigs)
    PROVE  /\ tasks' \in Seq(Task) /\ Calm
           /\ waiting' \in [Command -> Seq(Nat)]
           /\ stage' \in [Command -> Stages]
<1> DEFINE new == [i \in 1..Len(sigs) |-> NewTask(sigs[i], <<>>, 0)]
           ids == [i \in 1..Len(sigs) |-> Len(tasks) + i]
<1>0. tasks \in Seq(Task) /\ Len(tasks) \in Nat /\ Len(sigs) \in Nat
  BY LenProperties DEF TypeOK
<1>1. \A i \in 1..Len(sigs) : NewTask(sigs[i], <<>>, 0) \in Task
  <2>1. <<>> \in Seq(Signature)
    BY SMT
  <2>2. \A i \in 1..Len(sigs) : sigs[i] \in Signature
    BY ElementOfSeq
  <2> QED
    BY <2>1, <2>2, NewTaskType
<1>2. new \in Seq(Task) /\ Len(new) = Len(sigs)
  BY <1>0, <1>1, SMT
<1>3. \A i \in 1..Len(new) : new[i].state = "sent"
  BY <1>2 DEF NewTask
<1>4. ids \in Seq(Nat)
  BY <1>0, SMT
<1>5. tasks' = tasks \o new
  BY DEF SendAndWait
<1>6. tasks' \in Seq(Task) /\ Calm
  <2> HIDE DEF new
  <2> QED
    BY <1>0, <1>2, <1>3, <1>5, SendIsCalm
<1>7. waiting' = [waiting EXCEPT ![c] = ids] /\ stage' = [stage EXCEPT ![c] = next]
  BY DEF SendAndWait
<1> QED
  BY <1>4, <1>6, <1>7 DEF TypeOK, Stages

LEMMA LeaveStep ==
    ASSUME TypeOK, NEW c \in Command, NEW next \in Stages, Leave(c, next)
    PROVE  /\ tasks' = tasks
           /\ waiting' \in [Command -> Seq(Nat)]
           /\ stage' \in [Command -> Stages]
<1>1. <<>> \in Seq(Nat)
  BY SMT
<1> QED
  BY <1>1 DEF TypeOK, Leave, Stages

LEMMA IdleIsCalm ==
    ASSUME tasks \in Seq(Task), tasks' = tasks
    PROVE  tasks' \in Seq(Task) /\ Calm
<1>1. Tasks' = Tasks /\ Len(tasks) <= Len(tasks')
  BY LenProperties, SMT DEF Tasks
<1>2. \A t \in Tasks : tasks[t].age \in Nat
  BY ElementOfSeq, AgeOfRow DEF Tasks
<1>3. \A t \in Tasks : tasks'[t].age >= tasks[t].age
  BY <1>2, SMT
<1> QED
  BY <1>1, <1>3 DEF Calm, Executed

LEMMA LeaveIsCalm ==
    ASSUME TypeOK, NEW c \in Command, NEW next \in Stages, Leave(c, next)
    PROVE  /\ tasks' \in Seq(Task) /\ Calm
           /\ waiting' \in [Command -> Seq(Nat)]
           /\ stage' \in [Command -> Stages]
<1>1. tasks \in Seq(Task)
  BY DEF TypeOK
<1> QED
  BY <1>1, LeaveStep, IdleIsCalm

\* What the command sends has the type of a signature.
LEMMA CommandSignatures ==
    ASSUME NEW force \in BOOLEAN
    PROVE  /\ Sig("fetch_pathways", CommandKwargs(force)) \in Signature
           /\ Sig("fetch_courses", CommandKwargs(force)) \in Signature
           /\ Sig("dispatch", CommandKwargs(force)) \in Signature
           /\ \A q \in Query : SigFor("update_catalog", q, CommandKwargs(force)) \in Signature
  BY DEF Sig, SigFor, Signature, Names, Kwargs, CommandKwargs, NoQuery

LEMMA ProceedStep ==
    ASSUME TypeOK, NEW c \in Command, Proceed(c)
    PROVE  /\ tasks' \in Seq(Task) /\ Calm
           /\ waiting' \in [Command -> Seq(Nat)]
           /\ stage' \in [Command -> Stages]
<1> DEFINE kwargs == CommandKwargs(flags[c])
           updates == [i \in 1..Len(InUse) |-> SigFor("update_catalog", InUse[i], kwargs)]
<1>0. flags[c] \in BOOLEAN
  BY DEF TypeOK
<1>1. CASE SendAndWait(c, "courses", <<Sig("fetch_courses", kwargs)>>)
  <2>1. Sig("fetch_courses", kwargs) \in Signature
    BY <1>0, CommandSignatures
  <2>2. <<Sig("fetch_courses", kwargs)>> \in Seq(Signature)
    BY <2>1, SMT
  <2>3. "courses" \in Stages
    BY DEF Stages
  <2> QED
    BY <1>1, <2>2, <2>3, SendAndWaitStep
<1>2. CASE SendAndWait(c, "queries", updates)
  <2>1. \A i \in 1..Len(InUse) : SigFor("update_catalog", InUse[i], kwargs) \in Signature
    BY <1>0, CommandSignatures, InUseAssumption, ElementOfSeq
  <2>2. updates \in Seq(Signature)
    <3>1. Len(InUse) \in Nat
      BY InUseAssumption, LenProperties
    <3> QED
      BY <2>1, <3>1, SMT
  <2>3. "queries" \in Stages
    BY DEF Stages
  <2> QED
    BY <1>2, <2>2, <2>3, SendAndWaitStep
<1>3. CASE Leave(c, "full") \/ Leave(c, "done")
  <2>1. "full" \in Stages /\ "done" \in Stages
    BY DEF Stages
  <2> QED
    BY <1>3, <2>1, LeaveIsCalm
<1> QED
  BY <1>1, <1>2, <1>3 DEF Proceed

LEMMA CommandStep ==
    ASSUME TypeOK, NEW c \in Command,
           \/ \E force \in BOOLEAN : RunCommand(c, force)
           \/ Advance(c) \/ GetTimesOut(c) \/ FullSyncRaises(c)
    PROVE  TypeOK' /\ Calm
<1>0. "pathways" \in Stages /\ "crashed" \in Stages /\ "dispatch" \in Stages
  BY DEF Stages
<1>1. ASSUME NEW force \in BOOLEAN, RunCommand(c, force)
      PROVE  TypeOK' /\ Calm
  <2>1. <<Sig("fetch_pathways", CommandKwargs(force))>> \in Seq(Signature)
    BY CommandSignatures, SMT
  <2>2. /\ tasks' \in Seq(Task) /\ Calm
        /\ waiting' \in [Command -> Seq(Nat)]
        /\ stage' \in [Command -> Stages]
    BY <1>0, <1>1, <2>1, SendAndWaitStep DEF RunCommand
  <2>3. flags' \in [Command -> BOOLEAN]
    BY <1>1 DEF RunCommand, TypeOK
  <2> QED
    BY <1>1, <2>2, <2>3 DEF RunCommand, TypeOK, Stages, counters
<1>2. CASE Get(c)
  <2>1. Proceed(c) /\ UNCHANGED <<flags, counters>>
    BY <1>2 DEF Get
  <2> QED
    BY <2>1, ProceedStep DEF TypeOK, Stages, counters
<1>3. CASE GetRaises(c)
  <2>1. (Proceed(c) \/ Leave(c, "crashed")) /\ UNCHANGED <<flags, counters>>
    BY <1>3 DEF GetRaises
  <2> QED
    BY <1>0, <2>1, ProceedStep, LeaveIsCalm DEF TypeOK, Stages, counters
<1>4. ASSUME SendDispatch(c)
      PROVE  /\ tasks' \in Seq(Task) /\ Calm
             /\ waiting' \in [Command -> Seq(Nat)]
             /\ stage' \in [Command -> Stages]
  <2>1. Sig("dispatch", CommandKwargs(flags[c])) \in Signature
    BY CommandSignatures DEF TypeOK
  <2>2. <<Sig("dispatch", CommandKwargs(flags[c]))>> \in Seq(Signature)
    BY <2>1, SMT
  <2> QED
    BY <1>0, <1>4, <2>2, SendAndWaitStep DEF SendDispatch
<1>5. CASE FullSync(c)
  BY <1>4, <1>5 DEF FullSync, TypeOK, Stages, counters
<1>6. CASE GetTimesOut(c) \/ FullSyncRaises(c)
  <2>1. /\ SendDispatch(c) \/ Leave(c, "crashed")
        /\ troubles' = troubles + 1
        /\ UNCHANGED <<flags, refreshes, fullRuns>>
    BY <1>6 DEF GetTimesOut, FullSyncRaises
  <2>2. troubles' \in Nat
    BY <2>1, SMT DEF TypeOK
  <2> QED
    BY <1>0, <1>4, <2>1, <2>2, LeaveIsCalm DEF TypeOK, Stages
<1> QED
  BY <1>1, <1>2, <1>3, <1>5, <1>6 DEF Advance

-----------------------------------------------------------------------------
(* The semaphore.                                                          *)

\* The one step that executes a guarded task.
LEMMA CheckStep ==
    ASSUME TypeOK, OncePerWindow, NEW t \in Tasks, Check(t)
    PROVE  tasks' \in Seq(Task) /\ OncePerWindow'
<1>0. tasks \in Seq(Task)
  BY DEF TypeOK
<1>1. CASE SetState(t, "blocked")
  <2>1. "blocked" \in State
    BY DEF State
  <2>2. tasks' \in Seq(Task) /\ Calm
    BY <1>0, <1>1, <2>1, SetStateIsCalm
  <2> QED
    BY <1>0, <2>2, CalmKeepsOncePerWindow
<1>2. CASE SetState(t, "running") /\ (Forced(tasks[t].sig) \/ ~ RecentlyRun(tasks[t].sig, t))
  <2>1. /\ tasks' \in Seq(Task)
        /\ Len(tasks') = Len(tasks)
        /\ \A u \in Tasks : tasks'[u].sig = tasks[u].sig /\ tasks'[u].age = tasks[u].age
        /\ \A u \in Tasks \ {t} : tasks'[u].state = tasks[u].state
    <3>1. "running" \in State
      BY DEF State
    <3> QED
      BY <1>0, <1>2, <3>1, StateOfTask DEF SetState
  <2>2. Tasks' = Tasks
    BY <2>1 DEF Tasks
  <2>3. \A u \in Tasks \ {t} : Executed(u)' => Executed(u)
    BY <2>1 DEF Executed
  <2>4. \A u \in Tasks : tasks[u].age \in Nat
    BY <1>0, ElementOfSeq, AgeOfRow DEF Tasks
  <2>5. ASSUME NEW u \in Tasks \ {t}, tasks[u].sig = tasks[t].sig,
               ~ Forced(tasks[t].sig), Executed(u)
        PROVE  tasks[u].age > Window
    <3>1. tasks[u].state \notin {"FAILURE", "REVOKED"}
      BY <2>5 DEF Executed
    <3>2. ~ (tasks[u].age <= Window)
      BY <1>2, <2>5, <3>1 DEF RecentlyRun
    <3> QED
      BY <2>4, <3>2, WindowAssumption, SMT
  <2> QED
    BY <2>1, <2>2, <2>3, <2>5 DEF OncePerWindow
<1> QED
  BY <1>1, <1>2 DEF Check

LEMMA Step ==
    ASSUME TypeOK, OncePerWindow, [Next]_vars
    PROVE  TypeOK' /\ OncePerWindow'
<1>0. tasks \in Seq(Task)
  BY DEF TypeOK
<1>1. ASSUME NEW t \in Tasks, Handle(t) \/ Fail(t) \/ RunAgain(t)
      PROVE  TypeOK' /\ OncePerWindow'
  <2>1. tasks' \in Seq(Task) /\ OncePerWindow'
    <3>1. CASE Check(t)
      BY <3>1, CheckStep
    <3>2. CASE Start(t) \/ Revoke(t) \/ Succeed(t) \/ Fail(t) \/ RunAgain(t)
      BY <1>0, <3>2, HandleStep, CalmKeepsOncePerWindow
    <3> QED
      BY <1>1, <3>1, <3>2 DEF Handle
  <2>2. UNCHANGED <<stage, flags, waiting, refreshes, fullRuns>>
    BY <1>1 DEF Handle, Start, Check, Revoke, Succeed, Fail, RunAgain, Trouble, command, counters
  <2>3. troubles' \in Nat
    <3>1. troubles' = troubles \/ troubles' = troubles + 1
      BY <1>1 DEF Handle, Start, Check, Revoke, Succeed, Fail, RunAgain, Trouble, counters
    <3> QED
      BY <3>1, SMT DEF TypeOK
  <2> QED
    BY <2>1, <2>2, <2>3 DEF TypeOK
<1>2. CASE Tick
  <2>1. tasks' \in Seq(Task) /\ OncePerWindow'
    BY <1>0, <1>2, TickStep, CalmKeepsOncePerWindow
  <2> QED
    BY <1>2, <2>1 DEF Tick, TypeOK, command, counters
<1>3. ASSUME TypeOK', Calm
      PROVE  TypeOK' /\ OncePerWindow'
  <2>1. tasks' \in Seq(Task)
    BY <1>3 DEF TypeOK
  <2> QED
    BY <1>0, <1>3, <2>1, CalmKeepsOncePerWindow
<1>4. CASE (\E q \in Query : Refresh(q)) \/ (\E force \in BOOLEAN : UpdateFull(force))
  BY <1>3, <1>4, RequestStep
<1>5. ASSUME NEW c \in Command,
             \/ \E force \in BOOLEAN : RunCommand(c, force)
             \/ Advance(c) \/ GetTimesOut(c) \/ FullSyncRaises(c)
      PROVE  TypeOK' /\ OncePerWindow'
  BY <1>3, <1>5, CommandStep
<1>6. CASE UNCHANGED vars
  <2>1. TypeOK'
    BY <1>6 DEF vars, TypeOK
  <2>2. Calm
    BY <1>0, <1>6, IdleIsCalm DEF vars
  <2> QED
    BY <1>3, <2>1, <2>2
<1> QED
  BY <1>1, <1>2, <1>4, <1>5, <1>6 DEF Next

LEMMA Initially ==
    ASSUME Init
    PROVE  TypeOK /\ OncePerWindow
<1>1. tasks = <<>> /\ <<>> \in Seq(Task) /\ Tasks = {}
  BY SMT DEF Init, Tasks
<1>2. waiting \in [Command -> Seq(Nat)]
  <2>1. <<>> \in Seq(Nat)
    BY SMT
  <2> QED
    BY <2>1 DEF Init
<1>3. refreshes \in Nat /\ fullRuns \in Nat /\ troubles \in Nat
  BY SMT DEF Init
<1> QED
  BY <1>1, <1>2, <1>3 DEF Init, TypeOK, OncePerWindow

\* Every reachable state of the tasks, the commands and the counters has the declared
\* types (apps/api/tasks.py and the commands that send its tasks).
THEOREM TypeCorrect == Spec => []TypeOK
<1>1. Init => TypeOK /\ OncePerWindow
  BY Initially
<1>2. TypeOK /\ OncePerWindow /\ [Next]_vars => TypeOK' /\ OncePerWindow'
  BY Step
<1> QED
  BY <1>1, <1>2, PTL DEF Spec

\* expiring_task_semaphore: of the unforced tasks with the same input sent within the
\* window at most one has run or is running, for any window, any number of requests and
\* commands, and any failures, retries and lost workers.
THEOREM SemaphoreHolds == Spec => []OncePerWindow
<1>1. Init => TypeOK /\ OncePerWindow
  BY Initially
<1>2. TypeOK /\ OncePerWindow /\ [Next]_vars => TypeOK' /\ OncePerWindow'
  BY Step
<1> QED
  BY <1>1, <1>2, PTL DEF Spec

-----------------------------------------------------------------------------
(***************************************************************************)
(* The order of updates: the chain that a refresh sends, and the group of  *)
(* tasks the command waits for.                                            *)
(*                                                                         *)
(* A task keeps its input and the rest of its chain, and SUCCESS is the    *)
(* last of its states.  So it is enough to say of each task what had       *)
(* succeeded when it was sent: nothing for a task that starts a chain, the *)
(* update of its query for the second one, both updates for the dispatch.  *)
(***************************************************************************)

Succeeded(u) == tasks[u].state = "SUCCESS"

\* What holds of every task there was before a step.
Kept(t) == /\ tasks'[t].sig = tasks[t].sig /\ tasks'[t].rest = tasks[t].rest
           /\ Succeeded(t) => Succeeded(t)'

Grows == Len(tasks) <= Len(tasks') /\ \A t \in Tasks : Kept(t)

\* A task that no other one sends: it is alone, or starts the chain of a refresh.
Alone(task) == task.rest = <<>> /\ task.sig.name # "dispatch_query"

StartsFor(task, q) ==
    /\ task.sig = SigFor("update_catalog", q, "none")
    /\ task.rest = <<Sig("update_full", "none"), SigFor("dispatch_query", q, "none")>>

Starts(task) == Alone(task) \/ \E q \in Query : StartsFor(task, q)

Updated(u, q) == tasks[u].sig = SigFor("update_catalog", q, "none") /\ Succeeded(u)

Second(t, q) ==
    /\ tasks[t].sig = Sig("update_full", "none")
    /\ tasks[t].rest = <<SigFor("dispatch_query", q, "none")>>
    /\ \E u \in 1..(t - 1) : Updated(u, q)

Third(t, q) ==
    /\ tasks[t].sig = SigFor("dispatch_query", q, "none")
    /\ tasks[t].rest = <<>>
    /\ \E u, v \in 1..(t - 1) :
          u < v /\ Updated(u, q) /\ tasks[v].sig.name = "update_full" /\ Succeeded(v)

InTurn(t) == Starts(tasks[t]) \/ \E q \in Query : Second(t, q) \/ Third(t, q)

Chained == \A t \in Tasks : InTurn(t)

\* The command waits for a task for each query in use.
Waits(c) ==
    stage[c] = "queries" =>
       /\ Len(waiting[c]) = Len(InUse)
       /\ \A i \in DOMAIN InUse :
             /\ waiting[c][i] \in Tasks
             /\ tasks[waiting[c][i]].sig = SigFor("update_catalog", InUse[i], CommandKwargs(flags[c]))

Grouped(c) ==
    stage[c] = "full" =>
       \A i \in DOMAIN InUse : \E t \in Tasks :
          /\ tasks[t].sig = SigFor("update_catalog", InUse[i], CommandKwargs(flags[c]))
          /\ Succeeded(t)

OrderInv == TypeOK /\ Chained /\ \A c \in Command : Waits(c) /\ Grouped(c)

-----------------------------------------------------------------------------
(* What grows keeps its order.                                             *)

LEMMA TaskBefore ==
    ASSUME tasks \in Seq(Task), NEW t \in Tasks, NEW u \in 1..(t - 1)
    PROVE  u \in Tasks
<1>1. Len(tasks) \in Nat
  BY LenProperties
<1> QED
  BY <1>1, SMT DEF Tasks

LEMMA OrderIsKept ==
    ASSUME tasks \in Seq(Task), Grows, NEW t \in Tasks, InTurn(t)
    PROVE  InTurn(t)'
<1>1. Kept(t) /\ \A u \in 1..(t - 1) : Kept(u)
  BY TaskBefore DEF Grows
<1>2. CASE Starts(tasks[t])
  BY <1>1, <1>2 DEF Kept, InTurn, Starts, Alone, StartsFor
<1>3. ASSUME NEW q \in Query, Second(t, q) PROVE InTurn(t)'
  BY <1>1, <1>3 DEF Kept, InTurn, Second, Updated, Succeeded
<1>4. ASSUME NEW q \in Query, Third(t, q) PROVE InTurn(t)'
  BY <1>1, <1>4 DEF Kept, InTurn, Third, Updated, Succeeded
<1> QED
  BY <1>2, <1>3, <1>4 DEF InTurn

LEMMA GrowsKeepsChained ==
    ASSUME tasks \in Seq(Task), Chained, Grows, \A t \in Tasks' \ Tasks : InTurn(t)'
    PROVE  Chained'
<1>1. \A t \in Tasks : InTurn(t)'
  BY OrderIsKept DEF Chained
<1>2. Chained' <=> \A t \in Tasks' : InTurn(t)'
  BY DEF Chained
<1> QED
  BY <1>1, <1>2

LEMMA GrowsKeepsGroups ==
    ASSUME tasks \in Seq(Task), tasks' \in Seq(Task), Grows, NEW c \in Command, Waits(c), Grouped(c),
           stage'[c] = stage[c], waiting'[c] = waiting[c], flags'[c] = flags[c]
    PROVE  Waits(c)' /\ Grouped(c)'
<1>1. Tasks \subseteq Tasks'
  BY LenProperties, SMT DEF Grows, Tasks
<1>2. \A t \in Tasks : Kept(t)
  BY DEF Grows
<1>3. Waits(c)'
  BY <1>1, <1>2 DEF Waits, Kept
<1>4. Grouped(c)'
  BY <1>1, <1>2 DEF Grouped, Kept, Succeeded
<1> QED
  BY <1>3, <1>4

-----------------------------------------------------------------------------
(* What the actions do to the tasks.                                       *)

LEMMA RestOfRow ==
    ASSUME NEW task \in Task, NEW s \in State
    PROVE  [task EXCEPT !.state = s].rest = task.rest
  BY SMT DEF Task

LEMMA RowChanged ==
    ASSUME tasks \in Seq(Task), NEW t \in Tasks, NEW s \in State
    PROVE  LET new == [tasks EXCEPT ![t].state = s]
           IN  /\ new \in Seq(Task) /\ Len(new) = Len(tasks) /\ new[t].state = s
               /\ \A u \in Tasks : new[u].sig = tasks[u].sig /\ new[u].rest = tasks[u].rest
               /\ \A u \in Tasks \ {t} : new[u].state = tasks[u].state
<1> DEFINE changed == [tasks[t] EXCEPT !.state = s]
           new == [tasks EXCEPT ![t].state = s]
<1>1. tasks[t] \in Task
  BY ElementOfSeq DEF Tasks
<1>2. changed.rest = tasks[t].rest
  BY <1>1, RestOfRow
<1>3. new = [tasks EXCEPT ![t] = changed]
  OBVIOUS
<1>4. /\ new \in Seq(Task) /\ Len(new) = Len(tasks) /\ new[t].state = s
      /\ \A u \in Tasks : new[u].sig = tasks[u].sig
      /\ \A u \in Tasks \ {t} : new[u].state = tasks[u].state
  BY StateOfTask
<1>5. \A u \in Tasks : new[u].rest = tasks[u].rest
  <2> HIDE DEF changed
  <2>1. \A u \in Tasks : [tasks EXCEPT ![t] = changed][u] = IF u = t THEN changed ELSE tasks[u]
    BY SMT DEF Tasks
  <2> QED
    BY <1>2, <1>3, <2>1
<1> QED
  BY <1>4, <1>5

\* A step that changes the state of a task that has not succeeded.
LEMMA SetStateGrows ==
    ASSUME tasks \in Seq(Task), NEW t \in Tasks, NEW s \in State, SetState(t, s), ~ Succeeded(t)
    PROVE  tasks' \in Seq(Task) /\ Grows /\ Tasks' = Tasks
<1>1. /\ tasks' \in Seq(Task) /\ Len(tasks') = Len(tasks) /\ tasks'[t].state = s
      /\ \A u \in Tasks : tasks'[u].sig = tasks[u].sig /\ tasks'[u].rest = tasks[u].rest
      /\ \A u \in Tasks \ {t} : tasks'[u].state = tasks[u].state
  BY RowChanged DEF SetState
<1>2. \A u \in Tasks : Kept(u)
  BY <1>1 DEF Kept, Succeeded
<1>3. Len(tasks) <= Len(tasks')
  BY <1>1, LenProperties, SMT
<1> QED
  BY <1>1, <1>2, <1>3 DEF Grows, Tasks

\* A step that sends tasks.
LEMMA SendGrows ==
    ASSUME tasks \in Seq(Task), NEW new \in Seq(Task), tasks' = tasks \o new
    PROVE  /\ tasks' \in Seq(Task) /\ Grows
           /\ Len(tasks') = Len(tasks) + Len(new)
           /\ \A i \in 1..Len(new) : Len(tasks) + i \in Tasks' /\ tasks'[Len(tasks) + i] = new[i]
           /\ \A t \in Tasks' \ Tasks : t - Len(tasks) \in 1..Len(new) /\ tasks'[t] = new[t - Len(tasks)]
<1>1. /\ tasks' \in Seq(Task) /\ Len(tasks') = Len(tasks) + Len(new)
      /\ \A i \in 1..Len(tasks) : tasks'[i] = tasks[i]
      /\ \A i \in (Len(tasks) + 1)..(Len(tasks) + Len(new)) : tasks'[i] = new[i - Len(tasks)]
  BY Concatenation
<1>2. Len(tasks) \in Nat /\ Len(new) \in Nat
  BY LenProperties
<1>3. \A t \in Tasks : Kept(t)
  BY <1>1 DEF Tasks, Kept, Succeeded
<1>4. Len(tasks) <= Len(tasks')
  BY <1>1, <1>2, SMT
<1>5. ASSUME NEW i \in 1..Len(new)
      PROVE  Len(tasks) + i \in Tasks' /\ tasks'[Len(tasks) + i] = new[i]
  <2>1. Len(tasks) + i \in (Len(tasks) + 1)..(Len(tasks) + Len(new)) /\ (Len(tasks) + i) - Len(tasks) = i
    BY <1>2, SMT
  <2>2. Len(tasks) + i \in Tasks'
    BY <1>1, <1>2, SMT DEF Tasks
  <2> QED
    BY <1>1, <2>1, <2>2
<1>6. ASSUME NEW t \in Tasks' \ Tasks
      PROVE  t - Len(tasks) \in 1..Len(new) /\ tasks'[t] = new[t - Len(tasks)]
  <2>1. t \in (Len(tasks) + 1)..(Len(tasks) + Len(new)) /\ t - Len(tasks) \in 1..Len(new)
    BY <1>1, <1>2, SMT DEF Tasks
  <2> QED
    BY <1>1, <2>1
<1> QED
  BY <1>1, <1>3, <1>4, <1>5, <1>6 DEF Grows

\* The task that a task of a chain sends when it succeeds.
LEMMA SentInOrder ==
    ASSUME tasks \in Seq(Task), tasks' \in Seq(Task), Grows, NEW t \in Tasks, InTurn(t),
           tasks[t].rest # <<>>, Succeeded(t)', NEW n \in Tasks', n = Len(tasks) + 1,
           tasks'[n].sig = Head(tasks[t].rest), tasks'[n].rest = Tail(tasks[t].rest)
    PROVE  InTurn(n)'
<1>0. Len(tasks) \in Nat /\ t \in 1..(n - 1) /\ t \in Nat
  BY LenProperties, SMT DEF Tasks
<1>1. Kept(t) /\ \A u \in 1..(t - 1) : Kept(u) /\ u \in 1..(n - 1) /\ u < t
  <2>1. \A u \in 1..(t - 1) : u \in Tasks
    BY TaskBefore
  <2>2. \A u \in 1..(t - 1) : u \in 1..(n - 1) /\ u < t
    BY <1>0, SMT
  <2> QED
    BY <2>1, <2>2 DEF Grows
<1>2. ASSUME NEW q \in Query, StartsFor(tasks[t], q)
      PROVE  InTurn(n)'
  <2> DEFINE second == Sig("update_full", "none")
             third  == SigFor("dispatch_query", q, "none")
  <2>1. tasks'[n].sig = second /\ tasks'[n].rest = <<third>>
    <3>1. tasks[t].rest = <<second, third>>
      BY <1>2 DEF StartsFor
    <3> HIDE DEF second, third
    <3>2. Head(<<second, third>>) = second /\ Tail(<<second, third>>) = <<third>>
      BY SMT
    <3> QED
      BY <3>1, <3>2
  <2>2. Updated(t, q)'
    BY <1>1, <1>2 DEF Updated, StartsFor, Kept
  <2>3. Second(n, q)'
    BY <1>0, <2>1, <2>2 DEF Second
  <2> QED
    BY <2>3 DEF InTurn
<1>3. ASSUME NEW q \in Query, Second(t, q)
      PROVE  InTurn(n)'
  <2> DEFINE third == SigFor("dispatch_query", q, "none")
  <2>1. tasks'[n].sig = third /\ tasks'[n].rest = <<>>
    <3>1. tasks[t].rest = <<third>>
      BY <1>3 DEF Second
    <3> HIDE DEF third
    <3>2. Head(<<third>>) = third /\ Tail(<<third>>) = <<>>
      BY SMT
    <3> QED
      BY <3>1, <3>2
  <2>2. PICK u \in 1..(t - 1) : Updated(u, q)
    BY <1>3 DEF Second
  <2>3. Updated(u, q)' /\ u < t /\ u \in 1..(n - 1)
    BY <1>1, <2>2 DEF Updated, Kept
  <2>4. tasks'[t].sig.name = "update_full" /\ Succeeded(t)'
    BY <1>1, <1>3 DEF Second, Kept, Sig
  <2>5. Third(n, q)'
    BY <1>0, <2>1, <2>3, <2>4 DEF Third
  <2> QED
    BY <2>5 DEF InTurn
<1> QED
  BY <1>2, <1>3 DEF InTurn, Starts, Alone, Third

LEMMA SucceedOrder ==
    ASSUME TypeOK, Chained, NEW t \in Tasks, Succeed(t)
    PROVE  tasks' \in Seq(Task) /\ Grows /\ Chained'
<1> DEFINE done == [tasks EXCEPT ![t].state = "SUCCESS"]
<1>0. tasks \in Seq(Task) /\ Len(tasks) \in Nat /\ tasks' \in Seq(Task)
  BY HandleStep, LenProperties DEF TypeOK
<1>1. /\ done \in Seq(Task) /\ Len(done) = Len(tasks) /\ done[t].state = "SUCCESS"
      /\ \A u \in Tasks : done[u].sig = tasks[u].sig /\ done[u].rest = tasks[u].rest
      /\ \A u \in Tasks \ {t} : done[u].state = tasks[u].state
  BY <1>0, RowChanged DEF State
<1>2. tasks' = done \o Rest(t)
  BY DEF Succeed
<1> HIDE DEF done
<1>3. Rest(t) \in Seq(Task)
  BY RestType
<1>4. /\ Len(tasks') = Len(tasks) + Len(Rest(t))
      /\ \A i \in 1..Len(tasks) : tasks'[i] = done[i]
      /\ \A i \in (Len(tasks) + 1)..(Len(tasks) + Len(Rest(t))) : tasks'[i] = Rest(t)[i - Len(tasks)]
  <2>1. /\ Len(done \o Rest(t)) = Len(done) + Len(Rest(t))
        /\ \A i \in 1..Len(done) : (done \o Rest(t))[i] = done[i]
        /\ \A i \in (Len(done) + 1)..(Len(done) + Len(Rest(t))) :
               (done \o Rest(t))[i] = Rest(t)[i - Len(done)]
    <3>1. done \in Seq(Task) /\ Rest(t) \in Seq(Task)
      BY <1>1, <1>3
    <3> QED
      BY <3>1, Concatenation
  <2> QED
    BY <1>1, <1>2, <2>1
<1>5. Len(Rest(t)) \in Nat
  BY <1>3, LenProperties
<1>6. \A u \in Tasks : Kept(u)
  BY <1>1, <1>4 DEF Kept, Succeeded, Tasks
<1>7. Succeeded(t)'
  BY <1>1, <1>4 DEF Succeeded, Tasks
<1>8. Grows
  BY <1>0, <1>4, <1>5, <1>6, SMT DEF Grows
<1>9. ASSUME NEW n \in Tasks' \ Tasks
      PROVE  InTurn(n)'
  <2>1. tasks[t].rest # <<>> /\ Rest(t) = <<NewTask(Head(tasks[t].rest), Tail(tasks[t].rest), tasks[t].refresh)>>
    <3>1. CASE tasks[t].rest = <<>>
      <4>1. Len(Rest(t)) = 0
        BY <3>1, SMT DEF Rest
      <4> QED
        BY <1>0, <1>4, <1>9, <4>1, SMT DEF Tasks
    <3> QED
      BY <3>1 DEF Rest
  <2> DEFINE next == NewTask(Head(tasks[t].rest), Tail(tasks[t].rest), tasks[t].refresh)
  <2>2. next.sig = Head(tasks[t].rest) /\ next.rest = Tail(tasks[t].rest)
    BY DEF NewTask
  <2> HIDE DEF next
  <2>3. Len(Rest(t)) = 1 /\ Rest(t)[1] = next
    BY <2>1, SMT DEF next
  <2>4. n = Len(tasks) + 1
    BY <1>0, <1>4, <1>9, <2>3, SMT DEF Tasks
  <2>5. tasks'[n] = next
    <3>1. n \in (Len(tasks) + 1)..(Len(tasks) + Len(Rest(t))) /\ n - Len(tasks) = 1
      BY <1>0, <2>3, <2>4, SMT
    <3> QED
      BY <1>4, <2>3, <3>1
  <2>6. InTurn(t)
    BY DEF Chained
  <2> QED
    BY <1>0, <1>7, <1>8, <1>9, <2>1, <2>2, <2>4, <2>5, <2>6, SentInOrder
<1> QED
  BY <1>0, <1>8, <1>9, GrowsKeepsChained

\* Steps of workers, and time.
LEMMA WorkerOrder ==
    ASSUME TypeOK, Chained, NEW t \in Tasks, Handle(t) \/ Fail(t) \/ RunAgain(t)
    PROVE  tasks' \in Seq(Task) /\ Grows /\ Chained'
<1>0. tasks \in Seq(Task)
  BY DEF TypeOK
<1>1. CASE Succeed(t)
  BY <1>1, SucceedOrder
<1>2. ASSUME NEW s \in State, SetState(t, s), ~ Succeeded(t)
      PROVE  tasks' \in Seq(Task) /\ Grows /\ Chained'
  <2>1. tasks' \in Seq(Task) /\ Grows /\ Tasks' = Tasks
    BY <1>0, <1>2, SetStateGrows
  <2> QED
    BY <1>0, <2>1, GrowsKeepsChained
<1>3. CASE Start(t)
  BY <1>2, <1>3 DEF Start, State, Succeeded
<1>4. CASE Check(t)
  BY <1>2, <1>4 DEF Check, State, Succeeded
<1>5. CASE Revoke(t) \/ Fail(t) \/ RunAgain(t)
  BY <1>2, <1>5 DEF Revoke, Fail, RunAgain, State, Succeeded
<1> QED
  BY <1>1, <1>3, <1>4, <1>5 DEF Handle

LEMMA OlderRest ==
    ASSUME NEW task \in Task
    PROVE  Older(task).rest = task.rest
  BY SMT DEF Older, Task

LEMMA TickOrder ==
    ASSUME TypeOK, Chained, Tick
    PROVE  tasks' \in Seq(Task) /\ Grows /\ Chained'
<1>0. tasks \in Seq(Task) /\ Len(tasks) \in Nat /\ tasks' \in Seq(Task)
  BY LenProperties, TickStep DEF TypeOK
<1>1. tasks' = [t \in Tasks |-> Older(tasks[t])]
  BY DEF Tick
<1>2. \A t \in Tasks : tasks[t] \in Task
  BY <1>0, ElementOfSeq DEF Tasks
<1>3. \A t \in Tasks : Kept(t)
  BY <1>1, <1>2, OlderRow, OlderRest DEF Kept, Succeeded
<1>4. Len(tasks') = Len(tasks)
  <2>1. DOMAIN tasks' = 1..Len(tasks)
    BY <1>1 DEF Tasks
  <2> QED
    BY <1>0, <2>1, SMT
<1>5. Grows /\ Tasks' = Tasks
  BY <1>0, <1>3, <1>4, SMT DEF Grows, Tasks
<1> QED
  BY <1>0, <1>5, GrowsKeepsChained

-----------------------------------------------------------------------------
(* Requests and the command.                                               *)

\* Tasks that start a chain, or are alone, are in order.
LEMMA SendOrder ==
    ASSUME tasks \in Seq(Task), Chained, NEW new \in Seq(Task), tasks' = tasks \o new,
           \A i \in 1..Len(new) : Starts(new[i])
    PROVE  tasks' \in Seq(Task) /\ Grows /\ Chained'
<1>1. /\ tasks' \in Seq(Task) /\ Grows
      /\ \A t \in Tasks' \ Tasks : t - Len(tasks) \in 1..Len(new) /\ tasks'[t] = new[t - Len(tasks)]
  BY SendGrows
<1>2. \A t \in Tasks' \ Tasks : InTurn(t)'
  <2>1. \A t \in Tasks' \ Tasks : Starts(tasks'[t])
    BY <1>1
  <2> QED
    BY <2>1 DEF InTurn, Starts, Alone, StartsFor
<1> QED
  BY <1>1, <1>2, GrowsKeepsChained

LEMMA AppendOrder ==
    ASSUME tasks \in Seq(Task), Chained, NEW task \in Task, tasks' = Append(tasks, task), Starts(task)
    PROVE  tasks' \in Seq(Task) /\ Grows /\ Chained'
<1>1. <<task>> \in Seq(Task) /\ Len(<<task>>) = 1 /\ <<task>>[1] = task
  BY SMT
<1>2. tasks' = tasks \o <<task>>
  BY SMT
<1>3. \A i \in 1..Len(<<task>>) : Starts(<<task>>[i])
  BY <1>1, SMT
<1> QED
  BY <1>1, <1>2, <1>3, SendOrder

LEMMA RequestOrder ==
    ASSUME TypeOK, Chained,
           (\E q \in Query : Refresh(q)) \/ (\E force \in BOOLEAN : UpdateFull(force))
    PROVE  Grows /\ Chained'
<1>0. tasks \in Seq(Task) /\ refreshes' \in Nat
  <2>1. refreshes' = refreshes \/ refreshes' = refreshes + 1
    BY DEF Refresh, UpdateFull
  <2> QED
    BY <2>1, SMT DEF TypeOK
<1>1. ASSUME NEW q \in Query, Refresh(q)
      PROVE  Grows /\ Chained'
  <2> DEFINE rest == <<Sig("update_full", "none"), SigFor("dispatch_query", q, "none")>>
             task == NewTask(SigFor("update_catalog", q, "none"), rest, refreshes')
  <2>1. /\ Sig("update_full", "none") \in Signature
        /\ SigFor("dispatch_query", q, "none") \in Signature
        /\ SigFor("update_catalog", q, "none") \in Signature
    BY DEF Sig, SigFor, Signature, Names, Kwargs
  <2>2. rest \in Seq(Signature)
    BY <2>1, SMT
  <2>3. task \in Task
    BY <1>0, <2>1, <2>2, NewTaskType
  <2>4. Starts(task)
    BY DEF NewTask, Starts, StartsFor
  <2>5. tasks' = Append(tasks, task)
    BY <1>1 DEF Refresh
  <2> HIDE DEF task
  <2> QED
    BY <1>0, <2>3, <2>4, <2>5, AppendOrder
<1>2. ASSUME NEW force \in BOOLEAN, UpdateFull(force)
      PROVE  Grows /\ Chained'
  <2> DEFINE sig  == Sig("update_full", IF force THEN "force=True" ELSE "force=False")
             task == NewTask(sig, <<>>, 0)
  <2>1. sig \in Signature /\ sig.name = "update_full"
    BY DEF Sig, Signature, Names, Kwargs, NoQuery
  <2>2. task \in Task
    <3>1. <<>> \in Seq(Signature)
      BY SMT
    <3> QED
      BY <2>1, <3>1, NewTaskType
  <2>3. Starts(task)
    <3> HIDE DEF sig
    <3> QED
      BY <2>1 DEF NewTask, Starts, Alone
  <2>4. tasks' = Append(tasks, task)
    BY <1>2 DEF UpdateFull
  <2> HIDE DEF task
  <2> QED
    BY <1>0, <2>2, <2>3, <2>4, AppendOrder
<1> QED
  BY <1>1, <1>2

\* The command sends tasks that are alone, and remembers where they are.
LEMMA SendAndWaitOrder ==
    ASSUME TypeOK, Chained, NEW c \in Command, NEW next, NEW sigs \in Seq(Signature),
           SendAndWait(c, next, sigs), \A i \in 1..Len(sigs) : sigs[i].name # "dispatch_query"
    PROVE  /\ tasks' \in Seq(Task) /\ Grows /\ Chained'
           /\ Len(waiting'[c]) = Len(sigs)
           /\ \A i \in 1..Len(sigs) : /\ waiting'[c][i] \in Tasks'
                                       /\ tasks'[waiting'[c][i]].sig = sigs[i]
           /\ stage'[c] = next
           /\ \A d \in Command \ {c} : stage'[d] = stage[d] /\ waiting'[d] = waiting[d]
<1> DEFINE new == [i \in 1..Len(sigs) |-> NewTask(sigs[i], <<>>, 0)]
           ids == [i \in 1..Len(sigs) |-> Len(tasks) + i]
<1>0. tasks \in Seq(Task) /\ Len(tasks) \in Nat /\ Len(sigs) \in Nat
  BY LenProperties DEF TypeOK
<1>1. \A i \in 1..Len(sigs) : NewTask(sigs[i], <<>>, 0) \in Task
  <2>1. <<>> \in Seq(Signature)
    BY SMT
  <2>2. \A i \in 1..Len(sigs) : sigs[i] \in Signature
    BY ElementOfSeq
  <2> QED
    BY <2>1, <2>2, NewTaskType
<1>2. new \in Seq(Task) /\ Len(new) = Len(sigs)
  BY <1>0, <1>1, SMT
<1>3. \A i \in 1..Len(new) : new[i].sig = sigs[i] /\ Starts(new[i])
  BY <1>2 DEF NewTask, Starts, Alone
<1>4. Len(ids) = Len(sigs) /\ \A i \in 1..Len(sigs) : ids[i] = Len(tasks) + i
  BY <1>0, SMT
<1>5. tasks' = tasks \o new
  BY DEF SendAndWait
<1>6. /\ waiting'[c] = ids /\ stage'[c] = next
      /\ \A d \in Command \ {c} : stage'[d] = stage[d] /\ waiting'[d] = waiting[d]
  BY DEF SendAndWait, TypeOK
<1> HIDE DEF new, ids
<1>7. tasks' \in Seq(Task) /\ Grows /\ Chained'
  BY <1>0, <1>2, <1>3, <1>5, SendOrder
<1>8. \A i \in 1..Len(new) : Len(tasks) + i \in Tasks' /\ tasks'[Len(tasks) + i] = new[i]
  BY <1>0, <1>2, <1>5, SendGrows
<1> QED
  BY <1>2, <1>3, <1>4, <1>6, <1>7, <1>8

LEMMA LeaveOrder ==
    ASSUME TypeOK, Chained, NEW c \in Command, NEW next, Leave(c, next)
    PROVE  /\ tasks' \in Seq(Task) /\ Grows /\ Chained'
           /\ stage'[c] = next
           /\ \A d \in Command \ {c} : stage'[d] = stage[d] /\ waiting'[d] = waiting[d]
<1>1. tasks \in Seq(Task) /\ tasks' = tasks /\ Tasks' = Tasks
  BY DEF Leave, TypeOK, Tasks
<1>2. Grows
  BY <1>1, LenProperties, SMT DEF Grows, Kept, Succeeded
<1>3. Chained'
  BY <1>1, <1>2, GrowsKeepsChained
<1> QED
  BY <1>1, <1>2, <1>3 DEF Leave, TypeOK

\* Commands that a step of c is not about.
LEMMA OthersKept ==
    ASSUME OrderInv, tasks' \in Seq(Task), Grows, NEW c \in Command,
           \A d \in Command \ {c} : /\ stage'[d] = stage[d] /\ waiting'[d] = waiting[d]
                                    /\ flags'[d] = flags[d]
    PROVE  \A d \in Command \ {c} : Waits(d)' /\ Grouped(d)'
  BY GrowsKeepsGroups DEF OrderInv, TypeOK

\* At any other stage there is nothing to say of a command.
LEMMA OtherStages ==
    ASSUME NEW c, stage'[c] \notin {"queries", "full"}
    PROVE  Waits(c)' /\ Grouped(c)'
  BY DEF Waits, Grouped

LEMMA SendOther ==
    ASSUME OrderInv, NEW c \in Command, NEW next, NEW sigs \in Seq(Signature),
           SendAndWait(c, next, sigs), \A i \in 1..Len(sigs) : sigs[i].name # "dispatch_query",
           next \notin {"queries", "full"},
           \A d \in Command \ {c} : flags'[d] = flags[d]
    PROVE  Chained' /\ \A d \in Command : Waits(d)' /\ Grouped(d)'
<1>1. /\ tasks' \in Seq(Task) /\ Grows /\ Chained'
      /\ stage'[c] = next
      /\ \A d \in Command \ {c} : stage'[d] = stage[d] /\ waiting'[d] = waiting[d]
  BY SendAndWaitOrder DEF OrderInv
<1>2. \A d \in Command \ {c} : Waits(d)' /\ Grouped(d)'
  BY <1>1, OthersKept
<1>3. Waits(c)' /\ Grouped(c)'
  BY <1>1, OtherStages
<1> QED
  BY <1>1, <1>2, <1>3

LEMMA LeaveOther ==
    ASSUME OrderInv, NEW c \in Command, NEW next, Leave(c, next), UNCHANGED flags,
           next \notin {"queries", "full"}
    PROVE  Chained' /\ \A d \in Command : Waits(d)' /\ Grouped(d)'
<1>1. /\ tasks' \in Seq(Task) /\ Grows /\ Chained'
      /\ stage'[c] = next
      /\ \A d \in Command \ {c} : stage'[d] = stage[d] /\ waiting'[d] = waiting[d]
  BY LeaveOrder DEF OrderInv
<1>2. \A d \in Command \ {c} : Waits(d)' /\ Grouped(d)'
  BY <1>1, OthersKept
<1>3. Waits(c)' /\ Grouped(c)'
  BY <1>1, OtherStages
<1> QED
  BY <1>1, <1>2, <1>3

\* get() has returned: every task waited for has succeeded.
LEMMA GetOrder ==
    ASSUME OrderInv, NEW c \in Command, Get(c)
    PROVE  Chained' /\ \A d \in Command : Waits(d)' /\ Grouped(d)'
<1> DEFINE kwargs == CommandKwargs(flags[c])
           updates == [i \in 1..Len(InUse) |-> SigFor("update_catalog", InUse[i], kwargs)]
<1>0. flags[c] \in BOOLEAN /\ UNCHANGED flags /\ TypeOK /\ Chained
  BY DEF OrderInv, TypeOK, Get
<1>1. CASE SendAndWait(c, "courses", <<Sig("fetch_courses", kwargs)>>)
  <2>1. Sig("fetch_courses", kwargs) \in Signature
    BY <1>0, CommandSignatures
  <2>2. Sig("fetch_courses", kwargs).name # "dispatch_query"
    BY DEF Sig
  <2> DEFINE sig == Sig("fetch_courses", kwargs)
  <2> HIDE DEF sig
  <2>3. <<sig>> \in Seq(Signature) /\ \A i \in 1..Len(<<sig>>) : <<sig>>[i].name # "dispatch_query"
    BY <2>1, <2>2, SMT DEF sig
  <2>4. SendAndWait(c, "courses", <<sig>>)
    BY <1>1 DEF sig
  <2>5. \A d \in Command \ {c} : flags'[d] = flags[d]
    BY <1>0
  <2> QED
    BY <2>3, <2>4, <2>5, SendOther
<1>2. CASE stage[c] = "courses" /\ SendAndWait(c, "queries", updates)
  <2>1. \A i \in 1..Len(InUse) : SigFor("update_catalog", InUse[i], kwargs) \in Signature
    BY <1>0, CommandSignatures, InUseAssumption, ElementOfSeq
  <2>2. updates \in Seq(Signature) /\ Len(updates) = Len(InUse)
    <3>1. Len(InUse) \in Nat
      BY InUseAssumption, LenProperties
    <3> QED
      BY <2>1, <3>1, SMT
  <2>3. \A i \in 1..Len(InUse) : updates[i] = SigFor("update_catalog", InUse[i], kwargs)
    OBVIOUS
  <2>4. \A i \in 1..Len(updates) : updates[i].name # "dispatch_query"
    BY <2>2, <2>3 DEF SigFor
  <2> HIDE DEF updates, kwargs
  <2>5. /\ tasks' \in Seq(Task) /\ Grows /\ Chained'
        /\ Len(waiting'[c]) = Len(updates)
        /\ \A i \in 1..Len(updates) : /\ waiting'[c][i] \in Tasks'
                                       /\ tasks'[waiting'[c][i]].sig = updates[i]
        /\ stage'[c] = "queries"
        /\ \A d \in Command \ {c} : stage'[d] = stage[d] /\ waiting'[d] = waiting[d]
    BY <1>0, <1>2, <2>2, <2>4, SendAndWaitOrder
  <2>6. DOMAIN InUse = 1..Len(InUse)
    BY InUseAssumption, LenProperties
  <2>7. Waits(c)'
    BY <1>0, <2>2, <2>3, <2>5, <2>6 DEF Waits, kwargs
  <2>8. Grouped(c)'
    BY <2>5 DEF Grouped
  <2>9. \A d \in Command \ {c} : Waits(d)' /\ Grouped(d)'
    BY <1>0, <2>5, OthersKept
  <2> QED
    BY <2>5, <2>7, <2>8, <2>9
<1>3. CASE stage[c] = "queries" /\ Leave(c, "full")
  <2>1. /\ tasks' \in Seq(Task) /\ Grows /\ Chained'
        /\ stage'[c] = "full"
        /\ \A d \in Command \ {c} : stage'[d] = stage[d] /\ waiting'[d] = waiting[d]
    BY <1>0, <1>3, LeaveOrder
  <2>2. Waits(c)'
    BY <2>1 DEF Waits
  <2>3. DOMAIN InUse = 1..Len(waiting[c])
    BY <1>3, InUseAssumption, LenProperties DEF OrderInv, Waits
  <2>4. ASSUME NEW i \in DOMAIN InUse
        PROVE  /\ waiting[c][i] \in Tasks /\ Succeeded(waiting[c][i])
               /\ tasks[waiting[c][i]].sig = SigFor("update_catalog", InUse[i], kwargs)
    BY <1>3, <2>3 DEF OrderInv, Waits, Get, Results, StateOf, Succeeded
  <2>5. Tasks' = Tasks /\ tasks' = tasks
    BY <1>3 DEF Leave, Tasks
  <2>6. Grouped(c)'
    BY <1>0, <2>4, <2>5 DEF Grouped, Succeeded
  <2>7. \A d \in Command \ {c} : Waits(d)' /\ Grouped(d)'
    BY <1>0, <2>1, OthersKept
  <2> QED
    BY <2>1, <2>2, <2>6, <2>7
<1>4. CASE Leave(c, "done")
  BY <1>0, <1>4, LeaveOther
<1> QED
  BY <1>1, <1>2, <1>3, <1>4 DEF Get, Proceed

LEMMA CommandOrder ==
    ASSUME OrderInv, NEW c \in Command,
           \/ \E force \in BOOLEAN : RunCommand(c, force)
           \/ Advance(c) \/ GetTimesOut(c) \/ FullSyncRaises(c)
    PROVE  Chained' /\ \A d \in Command : Waits(d)' /\ Grouped(d)'
<1>1. ASSUME NEW force \in BOOLEAN, RunCommand(c, force)
      PROVE  Chained' /\ \A d \in Command : Waits(d)' /\ Grouped(d)'
  <2> DEFINE sig == Sig("fetch_pathways", CommandKwargs(force))
  <2>1. sig \in Signature /\ sig.name # "dispatch_query"
    BY CommandSignatures DEF Sig
  <2>2. SendAndWait(c, "pathways", <<sig>>)
    BY <1>1 DEF RunCommand
  <2>3. \A d \in Command \ {c} : flags'[d] = flags[d]
    BY <1>1 DEF RunCommand, OrderInv, TypeOK
  <2> HIDE DEF sig
  <2>4. <<sig>> \in Seq(Signature) /\ \A i \in 1..Len(<<sig>>) : <<sig>>[i].name # "dispatch_query"
    BY <2>1, SMT
  <2> QED
    BY <2>2, <2>3, <2>4, SendOther
<1>2. CASE Get(c)
  BY <1>2, GetOrder
\* The class that get() raises for a revoked task is not the one caught.
<1>3. CASE GetRaises(c)
  <2>1. Leave(c, "crashed") /\ UNCHANGED flags
    BY <1>3 DEF GetRaises, Caught, Raised
  <2> QED
    BY <2>1, LeaveOther
<1>4. ASSUME SendDispatch(c), UNCHANGED flags
      PROVE  Chained' /\ \A d \in Command : Waits(d)' /\ Grouped(d)'
  <2> DEFINE sig == Sig("dispatch", CommandKwargs(flags[c]))
  <2>1. sig \in Signature /\ sig.name # "dispatch_query"
    BY CommandSignatures DEF Sig, OrderInv, TypeOK
  <2>2. SendAndWait(c, "dispatch", <<sig>>)
    BY <1>4 DEF SendDispatch
  <2>3. \A d \in Command \ {c} : flags'[d] = flags[d]
    BY <1>4
  <2> HIDE DEF sig
  <2>4. <<sig>> \in Seq(Signature) /\ \A i \in 1..Len(<<sig>>) : <<sig>>[i].name # "dispatch_query"
    BY <2>1, SMT
  <2> QED
    BY <2>2, <2>3, <2>4, SendOther
<1>5. CASE FullSync(c)
  BY <1>4, <1>5 DEF FullSync
<1>6. CASE GetTimesOut(c) \/ FullSyncRaises(c)
  <2>1. (SendDispatch(c) \/ Leave(c, "crashed")) /\ UNCHANGED flags
    BY <1>6 DEF GetTimesOut, FullSyncRaises
  <2> QED
    BY <1>4, <2>1, LeaveOther
<1> QED
  BY <1>1, <1>2, <1>3, <1>5, <1>6 DEF Advance

-----------------------------------------------------------------------------

LEMMA OrderStep ==
    ASSUME OrderInv, OncePerWindow, [Next]_vars
    PROVE  OrderInv'
<1>0. TypeOK' /\ TypeOK /\ Chained /\ tasks \in Seq(Task) /\ tasks' \in Seq(Task)
  BY Step DEF OrderInv, TypeOK
<1>1. ASSUME Grows, UNCHANGED command
      PROVE  \A d \in Command : Waits(d)' /\ Grouped(d)'
  BY <1>0, <1>1, GrowsKeepsGroups DEF OrderInv, command
<1>2. ASSUME NEW t \in Tasks, Handle(t) \/ Fail(t) \/ RunAgain(t)
      PROVE  OrderInv'
  <2>1. Grows /\ Chained'
    BY <1>0, <1>2, WorkerOrder
  <2>2. UNCHANGED command
    BY <1>2 DEF Handle, Start, Check, Revoke, Succeed, Fail, RunAgain, Trouble
  <2> QED
    BY <1>0, <1>1, <2>1, <2>2 DEF OrderInv
<1>3. CASE Tick
  <2>1. Grows /\ Chained' /\ UNCHANGED command
    BY <1>0, <1>3, TickOrder DEF Tick
  <2> QED
    BY <1>0, <1>1, <2>1 DEF OrderInv
<1>4. CASE (\E q \in Query : Refresh(q)) \/ (\E force \in BOOLEAN : UpdateFull(force))
  <2>1. Grows /\ Chained'
    BY <1>0, <1>4, RequestOrder
  <2>2. UNCHANGED command
    BY <1>4 DEF Refresh, UpdateFull
  <2> QED
    BY <1>0, <1>1, <2>1, <2>2 DEF OrderInv
<1>5. ASSUME NEW c \in Command,
             \/ \E force \in BOOLEAN : RunCommand(c, force)
             \/ Advance(c) \/ GetTimesOut(c) \/ FullSyncRaises(c)
      PROVE  OrderInv'
  BY <1>0, <1>5, CommandOrder DEF OrderInv
<1>6. CASE UNCHANGED vars
  <2>1. Tasks' = Tasks /\ UNCHANGED <<tasks, command>>
    BY <1>6 DEF vars, Tasks, command
  <2>2. Grows
    BY <1>0, <2>1, LenProperties, SMT DEF Grows, Kept, Succeeded
  <2>3. Chained'
    BY <1>0, <2>1, <2>2, GrowsKeepsChained
  <2> QED
    BY <1>0, <1>1, <2>1, <2>2, <2>3 DEF OrderInv
<1> QED
  BY <1>2, <1>3, <1>4, <1>5, <1>6 DEF Next

LEMMA OrderInitially ==
    ASSUME Init
    PROVE  OrderInv /\ OncePerWindow
<1>1. Tasks = {}
  BY SMT DEF Init, Tasks
<1> QED
  BY <1>1, Initially DEF Init, OrderInv, Chained, Waits, Grouped

LEMMA OrderHolds == Spec => []OrderInv
<1>1. Init => OrderInv /\ OncePerWindow
  BY OrderInitially
<1>2. OrderInv /\ OncePerWindow /\ [Next]_vars => OrderInv' /\ OncePerWindow'
  BY OrderStep, Step DEF OrderInv
<1> QED
  BY <1>1, <1>2, PTL DEF Spec

\* A refresh brings its catalog to Algolia only after its update of the catalog and an
\* update of all metadata have succeeded, in this order (the chain that
\* EnterpriseCatalogRefreshDataFromDiscovery.post builds), whatever fails, is revoked or
\* is run again.
THEOREM ChainInOrder == Spec => []DispatchFollowsUpdates
<1>1. OrderInv => DispatchFollowsUpdates
  <2> SUFFICES ASSUME OrderInv, NEW t \in Tasks, tasks[t].sig.name = "dispatch_query"
               PROVE  \E u, v \in 1..(t - 1) :
                         /\ u < v
                         /\ tasks[u].sig = SigFor("update_catalog", tasks[t].sig.query, "none")
                         /\ tasks[v].sig.name = "update_full"
                         /\ tasks[u].state = "SUCCESS" /\ tasks[v].state = "SUCCESS"
    BY DEF DispatchFollowsUpdates
  <2>1. PICK q \in Query : Third(t, q)
    <3>1. InTurn(t)
      BY DEF OrderInv, Chained
    <3>2. ~ Starts(tasks[t])
      <4>1. ~ Alone(tasks[t])
        BY DEF Alone
      <4>2. \A q \in Query : SigFor("update_catalog", q, "none").name = "update_catalog"
        BY DEF SigFor
      <4>3. \A q \in Query : ~ StartsFor(tasks[t], q)
        BY <4>2 DEF StartsFor
      <4> QED
        BY <4>1, <4>3 DEF Starts
    <3>3. \A q \in Query : ~ Second(t, q)
      BY DEF Second, Sig
    <3> QED
      BY <3>1, <3>2, <3>3 DEF InTurn
  <2>2. tasks[t].sig.query = q
    BY <2>1 DEF Third, SigFor
  <2> QED
    BY <2>1, <2>2 DEF Third, Updated, Succeeded
<1> QED
  BY <1>1, OrderHolds, PTL

\* The command comes to the full update only when each update of a catalog query in use
\* has succeeded, for any list of queries and any number of commands.
THEOREM GroupBeforeFull == Spec => []GroupDoneBeforeFull
<1>1. OrderInv => GroupDoneBeforeFull
  BY DEF OrderInv, Grouped, GroupDoneBeforeFull, Succeeded
<1> QED
  BY <1>1, OrderHolds, PTL

-----------------------------------------------------------------------------
(* The dry run of the full update.                                         *)

\* Every worker has a job.
Jobs == job = [t \in Worker |-> job[t]]

\* A step of one worker changes its own job only.
LEMMA OwnJob ==
    ASSUME Jobs, NEW s \in Worker, NEW j, Becomes(s, j)
    PROVE  Jobs' /\ \A t \in Worker \ {s} : job'[t] = job[t]
  BY DEF Jobs, Becomes

LEMMA WorkerJobs ==
    ASSUME Jobs, NEW s \in Worker, NEW dry, WorkOn(s) \/ StartFull(s, dry) \/ Break(s)
    PROVE  Jobs' /\ \A t \in Worker \ {s} : job'[t] = job[t]
<1>1. \E j : Becomes(s, j)
  <2>1. CASE StartFull(s, FALSE) \/ StartFull(s, dry) \/ Break(s)
    BY <2>1 DEF StartFull, Break
  <2>2. CASE FetchCourses(s)
    BY <2>2 DEF FetchCourses
  <2>3. CASE LoadRecords(s) \/ StorePrograms(s)
    BY <2>3 DEF LoadRecords, StorePrograms
  <2>4. CASE Unlink(s) \/ Link(s)
    BY <2>4 DEF Unlink, Link
  <2>5. CASE PadBatchPrograms(s) \/ UpdateCopies(s)
    BY <2>5 DEF PadBatchPrograms, UpdateCopies
  <2>6. CASE WriteCourses(s) \/ Finish(s)
    BY <2>6 DEF WriteCourses, Finish
  <2> QED
    BY <2>1, <2>2, <2>3, <2>4, <2>5, <2>6 DEF WorkOn
<1> QED
  BY <1>1, OwnJob

\* Steps of no worker.
LEMMA OthersSpareJobs ==
    ASSUME \/ \E x \in Course \union Program : Edit(x)
           \/ \E c \in Course : Ingest(c) \/ FetchMissingCourse(c)
           \/ \E p \in Program : IngestMissing(p)
           \/ \E w \in Pathway, dry \in BOOLEAN : LinkPathway(w, dry)
           \/ \E w \in Pathway : Deactivate(w)
    PROVE  UNCHANGED job /\ UNCHANGED mishaps
  BY DEF Edit, Ingest, FetchMissingCourse, IngestMissing, LinkPathway, Deactivate

LEMMA JobsStay == Jobs /\ [FullNext]_fullVars => Jobs'
<1> SUFFICES ASSUME Jobs, [FullNext]_fullVars PROVE Jobs'
  OBVIOUS
<1>1. CASE UNCHANGED job
  BY <1>1 DEF Jobs
<1>2. ASSUME NEW t \in Worker, WorkOn(t) \/ StartFull(t, TRUE) \/ Break(t)
      PROVE  Jobs'
  BY <1>2, WorkerJobs
<1> QED
  BY <1>1, <1>2, OthersSpareJobs DEF FullNext, fullVars

\* Programs that exist keep their padding in each step of a dry run.
Spared == row' = row /\ \A p \in Program : program[p] # -1 => program'[p] = program[p]

LEMMA DryStepSpares ==
    ASSUME NEW t \in Worker, job[t].dry, WorkOn(t) \/ StartFull(t, TRUE) \/ Break(t)
    PROVE  Spared
<1>1. CASE StorePrograms(t)
  BY <1>1 DEF StorePrograms, Spared
<1>2. CASE PadBatchPrograms(t) \/ Finish(t)
  BY <1>2 DEF PadBatchPrograms, Finish, PadPrograms, Spared
<1>3. CASE WriteCourses(t)
  BY <1>3 DEF WriteCourses, Spared
<1>4. CASE \/ FetchCourses(t) \/ LoadRecords(t) \/ Unlink(t)
           \/ Link(t) \/ UpdateCopies(t)
  BY <1>4 DEF FetchCourses, LoadRecords, Unlink, Link,
              UpdateCopies, Spared
<1>5. CASE StartFull(t, FALSE) \/ StartFull(t, TRUE) \/ Break(t)
  BY <1>5 DEF StartFull, Break, Spared
<1> QED
  BY <1>1, <1>2, <1>3, <1>4, <1>5 DEF WorkOn

\* update_full_content_metadata_task(dry_run=True), its helpers deep in the call tree
\* included: no step of it writes a course's row or pads a program that exists, whatever
\* runs beside it.
THEOREM DryRunSpares == FullSpec => DryRunSparesContent
<1>1. FullInit => Jobs
  BY DEF FullInit, Jobs
<1>2. Jobs /\ [FullNext]_fullVars =>
         [\A t \in Worker : job[t].dry /\ job'[t] # job[t] =>
             row' = row /\ \A p \in Program : program[p] # -1 => program'[p] = program[p]]_fullVars
  <2> SUFFICES ASSUME Jobs, FullNext, NEW t \in Worker, job[t].dry, job'[t] # job[t]
               PROVE  row' = row /\ \A p \in Program : program[p] # -1 => program'[p] = program[p]
    OBVIOUS
  <2>1. ASSUME NEW s \in Worker, WorkOn(s) \/ StartFull(s, TRUE) \/ Break(s)
        PROVE  Spared
    <3>1. s = t
      BY <2>1, WorkerJobs
    <3> QED
      BY <2>1, <3>1, DryStepSpares
  <2> QED
    BY <2>1, OthersSpareJobs DEF FullNext, Spared
<1> QED
  BY <1>1, <1>2, JobsStay, PTL DEF FullSpec, DryRunSparesContent

-----------------------------------------------------------------------------
(* The types of the full update.                                           *)

Loads == UNION {[s -> Row] : s \in SUBSET Course}
Dicts == UNION {[s -> Dict] : s \in SUBSET Course}

LEMMA JobIs ==
    Job = [pc : {"idle", "courses", "reviews", "programs", "unlink", "link", "copies"},
           dry : BOOLEAN, todo : Seq(Course), loaded : Loads, dicts : Dicts,
           queue : Seq(Course), linking : SUBSET Program, kept : SUBSET Program,
           copies : Seq(Course)]
  BY DEF Job, Loads, Dicts

\* The fields of a job.
LEMMA JobFields ==
    ASSUME NEW j \in Job
    PROVE  /\ j.dry \in BOOLEAN /\ j.todo \in Seq(Course)
           /\ j.loaded \in Loads /\ j.dicts \in Dicts
           /\ j.queue \in Seq(Course) /\ j.copies \in Seq(Course)
           /\ j.linking \subseteq Program /\ j.kept \subseteq Program
  BY JobIs

LEMMA DictFields ==
    ASSUME NEW d \in Dicts, NEW c \in DOMAIN d
    PROVE  /\ DOMAIN d \subseteq Course
           /\ d[c].version \in 1..MaxVersion /\ d[c].programs \subseteq Program
<1>1. PICK s \in SUBSET Course : d \in [s -> Dict]
  BY DEF Dicts
<1>2. DOMAIN d = s /\ d[c] \in Dict
  BY <1>1
<1> QED
  BY <1>2 DEF Dict

LEMMA LoadFields ==
    ASSUME NEW d \in Loads, NEW c \in DOMAIN d
    PROVE  DOMAIN d \subseteq Course /\ d[c] \in Row
<1>1. PICK s \in SUBSET Course : d \in [s -> Row]
  BY DEF Loads
<1> QED
  BY <1>1

\* The courses still in the queue are courses of the batch, and the task is at one of
\* them while it links; whatever is loaded was asked for.
Shaped(j) ==
    /\ \A i \in 1..Len(j.queue) : j.queue[i] \in DOMAIN j.dicts
    /\ j.pc \in {"unlink", "link"} => j.queue # <<>>
    /\ j.pc = "copies" => j.queue = <<>>
    /\ j.pc \in {"programs", "unlink", "link", "copies"} => DOMAIN j.loaded = DOMAIN j.dicts

FullInv == FullTypeOK /\ \A t \in Worker : Shaped(job[t])

LEMMA NextBatchType ==
    ASSUME NEW dry \in BOOLEAN, NEW rest \in Seq(Course)
    PROVE  NextBatch(dry, rest) \in Job /\ Shaped(NextBatch(dry, rest))
<1>1. <<>> \in Loads /\ <<>> \in Dicts
  <2>1. <<>> \in [{} -> Row] /\ <<>> \in [{} -> Dict]
    OBVIOUS
  <2> QED
    BY <2>1 DEF Loads, Dicts
<1>2. <<>> \in Seq(Course) /\ Len(<<>>) = 0
  BY EmptySeq
<1> QED
  BY <1>1, <1>2, JobIs DEF NextBatch, Shaped

LEMMA IdleJobType == IdleJob \in Job /\ Shaped(IdleJob)
<1>1. <<>> \in Seq(Course) /\ Len(<<>>) = 0
  BY EmptySeq
<1>2. NextBatch(FALSE, <<>>) \in Job /\ Shaped(NextBatch(FALSE, <<>>))
  BY <1>1, NextBatchType
<1> QED
  BY <1>1, <1>2, JobIs DEF IdleJob, NextBatch, Shaped

\* The courses of a batch, in order.
LEMMA CoursesListed ==
    ASSUME NEW S \in SUBSET Course
    PROVE  /\ Ascending(S) \in Seq(S) /\ Ascending(S) \in Seq(Course)
           /\ \A i \in 1..Len(Ascending(S)) : Ascending(S)[i] \in S
           /\ \A c \in S : \E i \in 1..Len(Ascending(S)) : Ascending(S)[i] = c
<1>0. IsFiniteSet(Course) /\ Course \subseteq Nat
  BY CourseAssumption
<1>1. S \in SUBSET Int /\ IsFiniteSet(S)
  <2>1. IsFiniteSet(S)
    BY <1>0, FS_Subset
  <2> QED
    BY <1>0, <2>1
<1>2. /\ Ascending(S) \in Seq(S) /\ Len(Ascending(S)) = Cardinality(S)
      /\ \A a \in S : \E n \in 1..Cardinality(S) : Ascending(S)[n] = a
  BY <1>1, AscendingLists
<1>3. \A i \in 1..Len(Ascending(S)) : Ascending(S)[i] \in S
  BY <1>2, ElementOfSeq
<1>4. Ascending(S) \in Seq(Course)
  BY <1>2
<1> QED
  BY <1>2, <1>3, <1>4

LEMMA BatchTypes ==
    ASSUME NEW todo \in Seq(Course)
    PROVE  Batch(todo) \subseteq Course /\ AfterBatch(todo) \in Seq(Course)
<1>1. Length(todo) \in Nat /\ Length(todo) <= Len(todo)
  BY SizeAssumption DEF Length
<1>2. Batch(todo) \subseteq Course
  BY <1>1 DEF Batch
<1>3. \A i \in (Length(todo) + 1)..Len(todo) : todo[i] \in Course
  BY <1>1
<1>4. AfterBatch(todo) \in Seq(Course)
  BY <1>1, <1>3, SubSeqProperties DEF AfterBatch
<1> QED
  BY <1>2, <1>4

LEMMA FullInvAtFirst == FullInit => FullInv
<1> SUFFICES ASSUME FullInit PROVE FullInv
  OBVIOUS
<1>1. 1 \in 1..MaxVersion /\ 0 \in 0..MaxVersion /\ 1 \in 0..MaxVersion /\ MaxVersion \in Nat
  BY SizeAssumption
<1>2. row \in [Course -> Row]
  BY <1>1 DEF FullInit, Row
<1>3. /\ source \in [Course \union Program -> 1..MaxVersion]
      /\ program \in [Program -> -1..MaxVersion]
      /\ copy \in [Restricted -> 1..MaxVersion]
  BY <1>1 DEF FullInit
<1>4. offers \in [Course -> SUBSET Program] /\ active \in SUBSET Pathway /\ mishaps \in 0..MaxMishaps
  BY ContentAssumption, SizeAssumption DEF FullInit
<1>5. \A t \in Worker : job[t] \in Job /\ Shaped(job[t])
  BY IdleJobType DEF FullInit
<1>6. job \in [Worker -> Job]
  BY <1>5 DEF FullInit
<1> QED
  BY <1>2, <1>3, <1>4, <1>5, <1>6 DEF FullInv, FullTypeOK, FullInit

\* The job a step of the worker leaves it with, one lemma for each kind of step.
LEMMA StartedJob ==
    ASSUME NEW t \in Worker, NEW dry \in BOOLEAN, StartFull(t, dry)
    PROVE  \E j \in Job : Shaped(j) /\ Becomes(t, j)
<1> DEFINE S == {c \in Course : Exists(c)}
<1>1. S \in SUBSET Course /\ Ascending(S) \in Seq(Course)
  BY CoursesListed
<1> QED
  BY <1>1, NextBatchType DEF StartFull

LEMMA FetchedJob ==
    ASSUME FullInv, NEW t \in Worker, FetchCourses(t)
    PROVE  \E j \in Job : Shaped(j) /\ Becomes(t, j)
<1> DEFINE j == job[t]
           b == Batch(j.todo)
           rest == AfterBatch(j.todo)
<1>1. j \in Job /\ source \in [Course \union Program -> 1..MaxVersion]
      /\ offers \in [Course -> SUBSET Program]
  BY DEF FullInv, FullTypeOK
<1>2. j.dry \in BOOLEAN /\ j.todo \in Seq(Course)
  BY <1>1, JobFields
<1>3. b \subseteq Course /\ rest \in Seq(Course)
  BY <1>2, BatchTypes
<1> DEFINE next == NextBatch(j.dry, rest)
<1>4. next \in Job /\ Shaped(next) /\ next.queue = <<>>
  BY <1>2, <1>3, NextBatchType DEF NextBatch
<1>5. PICK got \in SUBSET b :
         Becomes(t, IF got = {} THEN next
                    ELSE [next EXCEPT !.pc = "reviews",
                             !.dicts = [c \in got |-> [version |-> source[c], programs |-> offers[c]]]])
  BY DEF FetchCourses
<1> DEFINE d == [c \in got |-> [version |-> source[c], programs |-> offers[c]]]
<1>6. d \in Dicts
  <2>1. d \in [got -> Dict]
    BY <1>1, <1>3 DEF Dict
  <2> QED
    BY <1>3, <2>1 DEF Dicts
<1> HIDE DEF next, d
<1> DEFINE new == [next EXCEPT !.pc = "reviews", !.dicts = d]
<1>7. new \in Job /\ new.pc = "reviews" /\ new.queue = <<>>
  BY <1>4, <1>6, JobIs
<1>8. Shaped(new)
  BY <1>7, EmptySeq DEF Shaped
<1>9. Becomes(t, next) \/ Becomes(t, new)
  BY <1>5 DEF d
<1> QED
  BY <1>4, <1>7, <1>8, <1>9

LEMMA LoadedJob ==
    ASSUME FullInv, NEW t \in Worker, LoadRecords(t)
    PROVE  \E j \in Job : Shaped(j) /\ Becomes(t, j)
<1> DEFINE j == job[t]
           got == DOMAIN j.dicts
           rows == [c \in got |-> row[c]]
           new == [j EXCEPT !.pc = "programs", !.loaded = rows,
                            !.queue = Ascending(got), !.copies = Ascending(got)]
<1>1. j \in Job /\ row \in [Course -> Row]
  BY DEF FullInv, FullTypeOK
<1>2. got \subseteq Course
  BY <1>1, JobFields, DictFields
<1>3. rows \in Loads
  <2>1. rows \in [got -> Row]
    BY <1>1, <1>2
  <2> QED
    BY <1>2, <2>1 DEF Loads
<1>4. Ascending(got) \in Seq(Course) /\ \A i \in 1..Len(Ascending(got)) : Ascending(got)[i] \in got
  BY <1>2, CoursesListed
<1>5. DOMAIN rows = got
  OBVIOUS
<1> HIDE DEF rows
<1>6. /\ new \in Job /\ new.pc = "programs" /\ new.loaded = rows
      /\ new.queue = Ascending(got) /\ new.dicts = j.dicts
  BY <1>1, <1>3, <1>4, JobIs
<1>7. Becomes(t, new)
  BY DEF LoadRecords, rows
<1>8. Shaped(new)
  BY <1>4, <1>5, <1>6 DEF Shaped
<1> QED
  BY <1>6, <1>7, <1>8

\* The course at hand is one of the batch, and what it names are programs.
LEMMA AtHand ==
    ASSUME FullInv, NEW t \in Worker, job[t].queue # <<>>
    PROVE  /\ Head(job[t].queue) \in DOMAIN job[t].dicts
           /\ Head(job[t].queue) \in Course
           /\ job[t].dicts[Head(job[t].queue)].programs \subseteq Program
<1> DEFINE j == job[t]
<1>1. j \in Job /\ Shaped(j)
  BY DEF FullInv, FullTypeOK
<1>2. j.queue \in Seq(Course) /\ j.dicts \in Dicts
  BY <1>1, JobFields
<1>3. 1 \in 1..Len(j.queue) /\ Head(j.queue) = j.queue[1]
  BY <1>2
<1>4. Head(j.queue) \in DOMAIN j.dicts
  BY <1>1, <1>3 DEF Shaped
<1> QED
  BY <1>2, <1>4, DictFields

LEMMA StoredJob ==
    ASSUME FullInv, NEW t \in Worker, StorePrograms(t)
    PROVE  \E j \in Job : Shaped(j) /\ Becomes(t, j)
<1> DEFINE j == job[t]
<1>1. j \in Job /\ Shaped(j) /\ j.pc = "programs" /\ j.queue # <<>>
  BY DEF FullInv, FullTypeOK, StorePrograms
<1>2. PICK s \in SUBSET Program : Becomes(t, [j EXCEPT !.pc = "unlink", !.linking = s])
  BY <1>1, AtHand DEF StorePrograms
<1> DEFINE new == [j EXCEPT !.pc = "unlink", !.linking = s]
<1>3. /\ new \in Job /\ new.pc = "unlink" /\ new.queue = j.queue
      /\ new.loaded = j.loaded /\ new.dicts = j.dicts
  BY <1>1, JobIs
<1>4. Shaped(new)
  BY <1>1, <1>3 DEF Shaped
<1> QED
  BY <1>2, <1>3, <1>4

LEMMA UnlinkedJob ==
    ASSUME FullInv, NEW t \in Worker, Unlink(t)
    PROVE  \E j \in Job : Shaped(j) /\ Becomes(t, j)
<1> DEFINE j == job[t]
           new == [j EXCEPT !.pc = "link"]
<1>1. j \in Job /\ Shaped(j) /\ j.pc = "unlink" /\ Becomes(t, new)
  BY DEF FullInv, FullTypeOK, Unlink
<1>2. /\ new \in Job /\ new.pc = "link" /\ new.queue = j.queue
      /\ new.loaded = j.loaded /\ new.dicts = j.dicts
  BY <1>1, JobIs
<1>3. Shaped(new)
  BY <1>1, <1>2 DEF Shaped
<1> QED
  BY <1>1, <1>2, <1>3

LEMMA LinkedJob ==
    ASSUME FullInv, NEW t \in Worker, Link(t)
    PROVE  \E j \in Job : Shaped(j) /\ Becomes(t, j)
<1> DEFINE j == job[t]
           rest == Tail(j.queue)
           all == j.kept \union j.linking
           new == [j EXCEPT !.pc = "programs", !.queue = rest, !.kept = all, !.linking = {}]
<1>1. j \in Job /\ Shaped(j) /\ j.pc = "link" /\ Becomes(t, new)
  BY DEF FullInv, FullTypeOK, Link
<1>2. j.queue \in Seq(Course) /\ j.queue # <<>> /\ all \subseteq Program
  BY <1>1, JobFields DEF Shaped
<1>3. /\ rest \in Seq(Course) /\ Len(rest) = Len(j.queue) - 1
      /\ \A i \in 1..Len(rest) : rest[i] = j.queue[i + 1]
  BY <1>2, HeadTailProperties
<1>4. \A i \in 1..Len(rest) : rest[i] \in DOMAIN j.dicts
  <2>1. \A i \in 1..Len(rest) : i + 1 \in 1..Len(j.queue)
    BY <1>2, <1>3
  <2> QED
    BY <1>1, <1>3, <2>1 DEF Shaped
<1> HIDE DEF rest, all
<1>5. /\ new \in Job /\ new.pc = "programs" /\ new.queue = rest
      /\ new.loaded = j.loaded /\ new.dicts = j.dicts
  BY <1>1, <1>2, <1>3, JobIs
<1>6. Shaped(new)
  BY <1>1, <1>4, <1>5 DEF Shaped
<1> QED
  BY <1>1, <1>5, <1>6

LEMMA PaddedJob ==
    ASSUME FullInv, NEW t \in Worker, PadBatchPrograms(t) \/ UpdateCopies(t)
    PROVE  \E j \in Job : Shaped(j) /\ Becomes(t, j)
<1> DEFINE j == job[t]
<1>1. j \in Job /\ Shaped(j) /\ j.pc \in {"programs", "copies"} /\ j.queue = <<>>
  BY DEF FullInv, FullTypeOK, PadBatchPrograms, UpdateCopies, Shaped
<1>2. PICK rest \in Seq(Course) : Becomes(t, [j EXCEPT !.pc = "copies", !.copies = rest])
  <2>1. CASE PadBatchPrograms(t)
    <3>1. j.copies \in Seq(Course) /\ [j EXCEPT !.pc = "copies"] = [j EXCEPT !.pc = "copies", !.copies = j.copies]
      BY <1>1, JobIs
    <3> QED
      BY <2>1, <3>1 DEF PadBatchPrograms
  <2>2. CASE UpdateCopies(t)
    <3>1. j.copies \in Seq(Course) /\ j.copies # <<>> /\ j.pc = "copies"
      BY <1>1, <2>2, JobFields DEF UpdateCopies
    <3>2. Tail(j.copies) \in Seq(Course)
      BY <3>1
    <3>3. [j EXCEPT !.copies = Tail(@)] = [j EXCEPT !.pc = "copies", !.copies = Tail(j.copies)]
      BY <1>1, <3>1, JobIs
    <3> QED
      BY <2>2, <3>2, <3>3 DEF UpdateCopies
  <2> QED
    BY <2>1, <2>2
<1> DEFINE new == [j EXCEPT !.pc = "copies", !.copies = rest]
<1>3. /\ new \in Job /\ new.pc = "copies" /\ new.queue = j.queue
      /\ new.loaded = j.loaded /\ new.dicts = j.dicts
  BY <1>1, JobIs
<1>4. Shaped(new)
  BY <1>1, <1>3 DEF Shaped
<1> QED
  BY <1>2, <1>3, <1>4

\* The job of a worker after each of its steps.
LEMMA WorkerJob ==
    ASSUME FullInv, NEW t \in Worker, WorkOn(t) \/ StartFull(t, TRUE) \/ Break(t)
    PROVE  \E j \in Job : Shaped(j) /\ Becomes(t, j)
<1>1. CASE StartFull(t, FALSE) \/ StartFull(t, TRUE)
  BY <1>1, StartedJob
<1>2. CASE WriteCourses(t)
  <2>1. job[t].dry \in BOOLEAN /\ job[t].todo \in Seq(Course)
    BY JobFields DEF FullInv, FullTypeOK
  <2> QED
    BY <1>2, <2>1, NextBatchType DEF WriteCourses
<1>3. CASE Finish(t) \/ Break(t)
  BY <1>3, IdleJobType DEF Finish, Break
<1> QED
  BY <1>1, <1>2, <1>3, FetchedJob, LoadedJob, StoredJob, UnlinkedJob, LinkedJob, PaddedJob DEF WorkOn

\* Everything but the jobs.
DataTypes ==
    /\ source \in [Course \union Program -> 1..MaxVersion]
    /\ offers \in [Course -> SUBSET Program]
    /\ active \in SUBSET Pathway
    /\ row \in [Course -> Row]
    /\ program \in [Program -> -1..MaxVersion]
    /\ copy \in [Restricted -> 1..MaxVersion]
    /\ links \in SUBSET ((Course \X Program) \union (Pathway \X (Course \union Program)))
    /\ mishaps \in 0..MaxMishaps

LEMMA MishapType == DataTypes /\ (Mishap \/ UNCHANGED mishaps) => mishaps' \in 0..MaxMishaps
  BY SizeAssumption DEF DataTypes, Mishap

LEMMA PaddedTypes ==
    ASSUME DataTypes, NEW t, NEW s, PadPrograms(t, s)
    PROVE  program' \in [Program -> -1..MaxVersion] /\ mishaps' \in 0..MaxMishaps
<1>1. Mishap \/ UNCHANGED mishaps
  BY DEF PadPrograms
<1>2. \A p \in Program : source[p] \in -1..MaxVersion
  BY SizeAssumption DEF DataTypes
<1> QED
  BY <1>1, <1>2, MishapType DEF PadPrograms, DataTypes

LEMMA OthersTypes ==
    ASSUME DataTypes,
           \/ \E x \in Course \union Program : Edit(x)
           \/ \E c \in Course : Ingest(c) \/ FetchMissingCourse(c)
           \/ \E p \in Program : IngestMissing(p)
           \/ \E w \in Pathway, dry \in BOOLEAN : LinkPathway(w, dry)
           \/ \E w \in Pathway : Deactivate(w)
    PROVE  DataTypes'
<1>1. ASSUME NEW x \in Course \union Program, Edit(x) PROVE DataTypes'
  <2>1. source[x] + 1 \in 1..MaxVersion
    BY <1>1, SizeAssumption DEF Edit, DataTypes
  <2>2. offers' \in [Course -> SUBSET Program]
    BY <1>1 DEF Edit, DataTypes
  <2> QED
    BY <1>1, <2>1, <2>2 DEF Edit, DataTypes
<1>2. ASSUME NEW c \in Course, Ingest(c) PROVE DataTypes'
  <2>1. source[c] \in 0..MaxVersion /\ row[c] \in Row
    BY SizeAssumption DEF DataTypes
  <2>2. [row[c] EXCEPT !.plucked = source[c], !.modified = source[c]] \in Row
    BY <2>1 DEF Row
  <2>3. row' \in [Course -> Row]
    BY <1>2, <2>2 DEF Ingest, DataTypes
  <2> QED
    BY <1>2, <2>3 DEF Ingest, DataTypes, content
<1>3. ASSUME NEW p \in Program, IngestMissing(p) PROVE DataTypes'
  <2>1. 0 \in -1..MaxVersion
    BY SizeAssumption
  <2> QED
    BY <1>3, <2>1 DEF IngestMissing, DataTypes, content
<1>4. ASSUME NEW w \in Pathway, NEW dry \in BOOLEAN, LinkPathway(w, dry) PROVE DataTypes'
  <2>1. Contents[w] \subseteq Course \union Program
    BY ContentAssumption
  <2>2. links' \subseteq links \union {<<w, x>> : x \in Contents[w]}
    BY <1>4, Zenon DEF LinkPathway
  <2>3. {<<w, x>> : x \in Contents[w]} \subseteq Pathway \X (Course \union Program)
    BY <2>1
  <2>4. links' \in SUBSET ((Course \X Program) \union (Pathway \X (Course \union Program)))
    BY <2>2, <2>3 DEF DataTypes
  <2> QED
    BY <1>4, <2>4 DEF LinkPathway, DataTypes, content
<1>5. ASSUME NEW w \in Pathway, Deactivate(w) PROVE DataTypes'
  BY <1>5 DEF Deactivate, DataTypes
<1> QED
  BY <1>1, <1>2, <1>3, <1>4, <1>5 DEF FetchMissingCourse

LEMMA WorkersTypes ==
    ASSUME FullInv, DataTypes, NEW t \in Worker, WorkOn(t) \/ StartFull(t, TRUE) \/ Break(t)
    PROVE  DataTypes'
<1> DEFINE j == job[t]
<1>1. j \in Job /\ Shaped(j)
  BY DEF FullInv, FullTypeOK
<1>2. CASE \E dry \in BOOLEAN : StartFull(t, dry)
  <2>1. Mishap \/ UNCHANGED mishaps
    BY <1>2 DEF StartFull
  <2> QED
    BY <1>2, <2>1, MishapType DEF StartFull, DataTypes, content
<1>3. CASE FetchCourses(t)
  <2>1. Mishap \/ UNCHANGED mishaps
    BY <1>3 DEF FetchCourses
  <2> QED
    BY <1>3, <2>1, MishapType DEF FetchCourses, DataTypes, content
<1>4. CASE LoadRecords(t)
  BY <1>4 DEF LoadRecords, DataTypes, content
<1>5. CASE StorePrograms(t)
  <2>1. Mishap \/ UNCHANGED mishaps
    BY <1>5 DEF StorePrograms
  <2>2. 0 \in -1..MaxVersion
    BY SizeAssumption
  <2>3. program' \in [Program -> -1..MaxVersion]
    BY <1>5, <2>2 DEF StorePrograms, DataTypes
  <2> QED
    BY <1>5, <2>1, <2>3, MishapType DEF StorePrograms, DataTypes, content
<1>6. CASE Unlink(t)
  BY <1>6 DEF Unlink, DataTypes, content
<1>7. CASE Link(t)
  <2>1. j.queue # <<>> /\ j.linking \subseteq Program
    BY <1>1, <1>7, JobFields DEF Link, Shaped
  <2>2. Head(j.queue) \in Course
    BY <2>1, AtHand
  <2>3. {Head(j.queue)} \X j.linking \subseteq Course \X Program
    BY <2>1, <2>2
  <2> QED
    BY <1>7, <2>3 DEF Link, DataTypes, content
<1>8. CASE PadBatchPrograms(t) \/ Finish(t)
  <2>1. \E s : PadPrograms(t, s)
    BY <1>8 DEF PadBatchPrograms, Finish
  <2> QED
    BY <1>8, <2>1, PaddedTypes DEF PadBatchPrograms, Finish, DataTypes, content
<1>9. CASE UpdateCopies(t)
  <2>1. \A c \in Restricted : source[c] \in 1..MaxVersion
    BY RestrictedAssumption DEF DataTypes
  <2>2. copy' \in [Restricted -> 1..MaxVersion]
    BY <1>9, <2>1 DEF UpdateCopies, DataTypes
  <2> QED
    BY <1>9, <2>2 DEF UpdateCopies, DataTypes, content
<1>10. CASE WriteCourses(t)
  <2>1. DOMAIN j.loaded = DOMAIN j.dicts /\ j.loaded \in Loads /\ j.dicts \in Dicts
    BY <1>1, <1>10, JobFields DEF WriteCourses, Shaped
  <2>2. ASSUME NEW c \in DOMAIN j.loaded PROVE Merged(c, j.loaded[c], j.dicts[c]) \in Row
    <3>1. j.loaded[c] \in Row /\ j.dicts[c].version \in 1..MaxVersion
      BY <2>1, LoadFields, DictFields
    <3>2. j.dicts[c].version \in 0..MaxVersion
      BY <3>1, SizeAssumption
    <3> QED
      BY <3>1, <3>2 DEF Merged, Row
  <2>3. row' \in [Course -> Row]
    BY <1>10, <2>2 DEF WriteCourses, DataTypes
  <2> QED
    BY <1>10, <2>3 DEF WriteCourses, DataTypes, content
<1>11. CASE Break(t)
  BY <1>11, MishapType DEF Break, DataTypes, content
<1> QED
  BY <1>2, <1>3, <1>4, <1>5, <1>6, <1>7, <1>8, <1>9, <1>10, <1>11 DEF WorkOn

LEMMA FullInvStays == FullInv /\ [FullNext]_fullVars => FullInv'
<1> SUFFICES ASSUME FullInv, [FullNext]_fullVars PROVE FullInv'
  OBVIOUS
<1>1. DataTypes /\ job \in [Worker -> Job] /\ \A t \in Worker : Shaped(job[t])
  BY DEF FullInv, FullTypeOK, DataTypes
<1>2. DataTypes' /\ job' \in [Worker -> Job] /\ (\A t \in Worker : Shaped(job[t]))' => FullInv'
  BY DEF FullInv, FullTypeOK, DataTypes
<1>3. CASE UNCHANGED fullVars
  BY <1>1, <1>2, <1>3 DEF fullVars, DataTypes
<1>4. ASSUME NEW t \in Worker, WorkOn(t) \/ StartFull(t, TRUE) \/ Break(t) PROVE FullInv'
  <2>1. PICK j \in Job : Shaped(j) /\ Becomes(t, j)
    BY <1>4, WorkerJob
  <2>2. job' \in [Worker -> Job] /\ (\A s \in Worker : Shaped(job[s]))'
    BY <1>1, <2>1 DEF Becomes
  <2> QED
    BY <1>1, <1>2, <1>4, <2>2, WorkersTypes
<1>5. CASE \/ \E x \in Course \union Program : Edit(x)
           \/ \E c \in Course : Ingest(c) \/ FetchMissingCourse(c)
           \/ \E p \in Program : IngestMissing(p)
           \/ \E w \in Pathway, dry \in BOOLEAN : LinkPathway(w, dry)
           \/ \E w \in Pathway : Deactivate(w)
  BY <1>1, <1>2, <1>5, OthersSpareJobs, OthersTypes
<1> QED
  BY <1>3, <1>4, <1>5 DEF FullNext

\* Rows, copies and links keep their types, and so does the batch a worker has at hand,
\* whatever the workers interleave with.
THEOREM FullTypesHold == FullSpec => []FullTypeOK
<1>1. FullInv => FullTypeOK
  BY DEF FullInv
<1> QED
  BY <1>1, FullInvAtFirst, FullInvStays, PTL DEF FullSpec

-----------------------------------------------------------------------------
(* The links of a course when its metadata is written.                     *)

\* What the semaphore makes of the workers while a task takes no longer than its window.
OneAtATime == \A s, t \in Worker : job[s].pc # "idle" /\ job[t].pc # "idle" => s = t

Queued(t, c) == \E i \in 1..Len(job[t].queue) : job[t].queue[i] = c

\* The programs of a course, or those about to be linked, are the ones it names.
Agree(t, c, s) == /\ s \subseteq job[t].dicts[c].programs
                  /\ mishaps = 0 => s = job[t].dicts[c].programs

Linking == {"programs", "unlink", "link", "copies"}

LinkedSoFar(t) ==
    job[t].pc \in Linking =>
        /\ \A c \in DOMAIN job[t].dicts : Queued(t, c) \/ Agree(t, c, ProgramsOf(c))
        /\ job[t].pc \in {"unlink", "link"} => Agree(t, Head(job[t].queue), job[t].linking)
        /\ job[t].pc = "link" => ProgramsOf(Head(job[t].queue)) = {}

\* A worker keeps at what it does while the links of its courses stay.
LEMMA LinkedStays ==
    ASSUME FullInv, NEW t \in Worker, LinkedSoFar(t), job'[t] = job[t],
           mishaps' = mishaps \/ Mishap,
           \A c \in Course : ProgramsOf(c)' = ProgramsOf(c)
    PROVE  LinkedSoFar(t)'
<1> SUFFICES ASSUME job[t].pc \in Linking PROVE LinkedSoFar(t)'
  BY DEF LinkedSoFar
<1>1. DOMAIN job[t].dicts \subseteq Course
  BY JobFields, DictFields DEF FullInv, FullTypeOK
<1>2. mishaps' = 0 => mishaps = 0
  BY SizeAssumption DEF FullInv, FullTypeOK, Mishap
<1>3. ASSUME NEW c \in DOMAIN job[t].dicts PROVE (Queued(t, c) \/ Agree(t, c, ProgramsOf(c)))'
  <2>1. ProgramsOf(c)' = ProgramsOf(c)
    BY <1>1
  <2> QED
    BY <1>2, <2>1 DEF LinkedSoFar, Agree, Queued
<1>4. (job[t].pc \in {"unlink", "link"} => Agree(t, Head(job[t].queue), job[t].linking))'
  BY <1>2 DEF LinkedSoFar, Agree
<1>5. (job[t].pc = "link" => ProgramsOf(Head(job[t].queue)) = {})'
  <2> SUFFICES ASSUME job[t].pc = "link" PROVE ProgramsOf(Head(job[t].queue))' = {}
    OBVIOUS
  <2>1. job[t].queue # <<>>
    BY DEF FullInv, Shaped
  <2>2. Head(job[t].queue) \in Course
    BY <2>1, AtHand
  <2> QED
    BY <2>2 DEF LinkedSoFar
<1> QED
  BY <1>3, <1>4, <1>5 DEF LinkedSoFar

\* Pathways and their links are none of a course's.
LEMMA OthersSpareLinks ==
    ASSUME NEW c \in Course,
           \/ \E x \in Course \union Program : Edit(x)
           \/ \E d \in Course : Ingest(d) \/ FetchMissingCourse(d)
           \/ \E p \in Program : IngestMissing(p)
           \/ \E w \in Pathway, dry \in BOOLEAN : LinkPathway(w, dry)
           \/ \E w \in Pathway : Deactivate(w)
    PROVE  ProgramsOf(c)' = ProgramsOf(c)
<1>1. ASSUME NEW w \in Pathway, NEW dry \in BOOLEAN, LinkPathway(w, dry)
      PROVE  ProgramsOf(c)' = ProgramsOf(c)
  <2>1. w # c
    BY DisjointAssumption
  <2>2. \A p : <<c, p>> \in links' <=> <<c, p>> \in links
    BY <1>1, <2>1 DEF LinkPathway
  <2> QED
    BY <2>2 DEF ProgramsOf
<1>2. CASE UNCHANGED links
  BY <1>2 DEF ProgramsOf
<1> QED
  BY <1>1, <1>2 DEF Edit, Ingest, FetchMissingCourse, IngestMissing, Deactivate

\* Steps of a worker that link nothing.
LEMMA LinkedByOthers ==
    ASSUME FullInv, NEW t \in Worker,
           \/ WriteCourses(t) \/ Finish(t) \/ Break(t) \/ FetchCourses(t)
           \/ StartFull(t, TRUE) \/ StartFull(t, FALSE)
    PROVE  LinkedSoFar(t)'
<1>1. job \in [Worker -> Job]
  BY DEF FullInv, FullTypeOK
<1>2. \E new : Becomes(t, new) /\ new.pc \in {"idle", "courses", "reviews"}
  <2>1. \A dry, rest : NextBatch(dry, rest).pc = "courses"
    BY DEF NextBatch
  <2>2. IdleJob.pc = "idle"
    BY DEF IdleJob, NextBatch
  <2>3. CASE FetchCourses(t)
    <3> DEFINE next == NextBatch(job[t].dry, AfterBatch(job[t].todo))
    <3>1. PICK got \in SUBSET Batch(job[t].todo) :
             Becomes(t, IF got = {} THEN next
                        ELSE [next EXCEPT !.pc = "reviews",
                                 !.dicts = [c \in got |-> [version |-> source[c], programs |-> offers[c]]]])
      BY <2>3 DEF FetchCourses
    <3>2. \A d : [next EXCEPT !.pc = "reviews", !.dicts = d].pc = "reviews"
      BY DEF NextBatch
    <3> QED
      BY <2>1, <3>1, <3>2
  <2>4. CASE StartFull(t, TRUE) \/ StartFull(t, FALSE)
    BY <2>1, <2>4 DEF StartFull
  <2>5. CASE WriteCourses(t)
    BY <2>1, <2>5 DEF WriteCourses
  <2>6. CASE Finish(t) \/ Break(t)
    BY <2>2, <2>6 DEF Finish, Break
  <2> QED
    BY <2>3, <2>4, <2>5, <2>6
<1>3. job'[t].pc \notin Linking
  BY <1>1, <1>2 DEF Becomes, Linking
<1> QED
  BY <1>3 DEF LinkedSoFar

LEMMA LinkedByLoad ==
    ASSUME FullInv, NEW t \in Worker, LoadRecords(t)
    PROVE  LinkedSoFar(t)'
<1> DEFINE got == DOMAIN job[t].dicts
<1>1. job \in [Worker -> Job] /\ got \subseteq Course
  BY JobFields, DictFields DEF FullInv, FullTypeOK
<1>2. job[t] \in Job
  BY <1>1
<1>3. /\ job'[t].pc = "programs" /\ job'[t].queue = Ascending(got)
      /\ job'[t].dicts = job[t].dicts
  BY <1>1, <1>2, JobIs DEF LoadRecords, Becomes
<1>4. \A c \in got : \E i \in 1..Len(Ascending(got)) : Ascending(got)[i] = c
  BY <1>1, CoursesListed
<1>5. \A c \in got : Queued(t, c)'
  BY <1>3, <1>4 DEF Queued
<1> QED
  BY <1>3, <1>5 DEF LinkedSoFar

LEMMA LinkedByStore ==
    ASSUME FullInv, NEW t \in Worker, LinkedSoFar(t), StorePrograms(t)
    PROVE  LinkedSoFar(t)'
<1> DEFINE p == job[t].dicts[Head(job[t].queue)].programs
<1>1. job \in [Worker -> Job] /\ job[t] \in Job
  BY DEF FullInv, FullTypeOK
<1>2. PICK s : /\ Becomes(t, [job[t] EXCEPT !.pc = "unlink", !.linking = s])
               /\ s \subseteq p
               /\ (s = p /\ UNCHANGED mishaps) \/ Mishap
  BY DEF StorePrograms
<1>3. /\ job'[t].pc = "unlink" /\ job'[t].queue = job[t].queue
      /\ job'[t].dicts = job[t].dicts /\ job'[t].linking = s
  BY <1>1, <1>2, JobIs DEF Becomes
<1>4. job[t].pc \in Linking /\ links' = links
  BY DEF StorePrograms, Linking
<1>5. mishaps' = 0 => mishaps = 0 /\ s = p
  BY <1>2, SizeAssumption DEF FullInv, FullTypeOK, Mishap
<1>6. (\A c \in DOMAIN job[t].dicts : Queued(t, c) \/ Agree(t, c, ProgramsOf(c)))'
  BY <1>3, <1>4, <1>5 DEF LinkedSoFar, Agree, Queued, ProgramsOf
<1>7. Agree(t, Head(job[t].queue), job[t].linking)'
  BY <1>2, <1>3, <1>5 DEF Agree
<1> QED
  BY <1>3, <1>6, <1>7 DEF LinkedSoFar

LEMMA LinkedByUnlink ==
    ASSUME FullInv, NEW t \in Worker, LinkedSoFar(t), Unlink(t)
    PROVE  LinkedSoFar(t)'
<1> DEFINE h == Head(job[t].queue)
<1>1. job \in [Worker -> Job] /\ job[t] \in Job /\ Shaped(job[t])
  BY DEF FullInv, FullTypeOK
<1>2. /\ job'[t].pc = "link" /\ job'[t].queue = job[t].queue
      /\ job'[t].dicts = job[t].dicts /\ job'[t].linking = job[t].linking
  BY <1>1, JobIs DEF Unlink, Becomes
<1>3. /\ job[t].pc = "unlink" /\ job[t].pc \in Linking /\ mishaps' = mishaps
      /\ links' = {l \in links : ~(l[1] = h /\ l[2] \in Program)}
  BY DEF Unlink, Linking
<1>4. job[t].queue # <<>> /\ job[t].queue \in Seq(Course)
  BY <1>1, <1>3, JobFields DEF Shaped
<1>5. Queued(t, h)'
  <2>1. 1 \in 1..Len(job[t].queue) /\ job[t].queue[1] = h
    BY <1>4
  <2> QED
    BY <1>2, <2>1 DEF Queued
<1>6. ASSUME NEW c, c # h PROVE ProgramsOf(c)' = ProgramsOf(c)
  BY <1>3, <1>6 DEF ProgramsOf
<1>7. (\A c \in DOMAIN job[t].dicts : Queued(t, c) \/ Agree(t, c, ProgramsOf(c)))'
  <2> SUFFICES ASSUME NEW c \in DOMAIN job[t].dicts, c # h
               PROVE  Queued(t, c)' \/ Agree(t, c, ProgramsOf(c))'
    BY <1>2, <1>5
  <2>1. ProgramsOf(c)' = ProgramsOf(c)
    BY <1>6
  <2> QED
    BY <1>2, <1>3, <2>1 DEF LinkedSoFar, Agree, Queued
<1>8. Agree(t, h, job[t].linking)'
  BY <1>2, <1>3 DEF LinkedSoFar, Agree
<1>9. ProgramsOf(h)' = {}
  BY <1>2, <1>3 DEF ProgramsOf
<1>10. h' = h
  BY <1>2
<1> QED
  BY <1>2, <1>7, <1>8, <1>9, <1>10 DEF LinkedSoFar

LEMMA LinkedByLink ==
    ASSUME FullInv, NEW t \in Worker, LinkedSoFar(t), Link(t)
    PROVE  LinkedSoFar(t)'
<1> DEFINE q == job[t].queue
           h == Head(q)
<1>1. job \in [Worker -> Job] /\ job[t] \in Job /\ Shaped(job[t])
  BY DEF FullInv, FullTypeOK
<1>2. /\ job'[t].pc = "programs" /\ job'[t].queue = Tail(q)
      /\ job'[t].dicts = job[t].dicts
  BY <1>1, JobIs DEF Link, Becomes
<1>3. /\ job[t].pc = "link" /\ job[t].pc \in Linking /\ mishaps' = mishaps
      /\ links' = links \union ({h} \X job[t].linking)
  BY DEF Link, Linking
<1>4. q # <<>> /\ q \in Seq(Course) /\ job[t].linking \subseteq Program
  BY <1>1, <1>3, JobFields DEF Shaped
<1>5. /\ Len(Tail(q)) = Len(q) - 1 /\ q[1] = h
      /\ \A i \in 1..Len(Tail(q)) : Tail(q)[i] = q[i + 1]
  BY <1>4, HeadTailProperties
<1>6. ASSUME NEW c, c # h, Queued(t, c) PROVE Queued(t, c)'
  <2>1. PICK i \in 1..Len(q) : q[i] = c
    BY <1>6 DEF Queued
  <2>2. i - 1 \in 1..Len(Tail(q)) /\ Tail(q)[i - 1] = q[i]
    BY <1>4, <1>5, <1>6, <2>1
  <2> QED
    BY <1>2, <2>1, <2>2 DEF Queued
<1>7. ASSUME NEW c, c # h PROVE ProgramsOf(c)' = ProgramsOf(c)
  BY <1>3, <1>7 DEF ProgramsOf
<1>8. ASSUME NEW c, c = h PROVE ProgramsOf(c)' = job[t].linking /\ Agree(t, c, job[t].linking)
  <2>1. ProgramsOf(c) = {} /\ Agree(t, c, job[t].linking)
    BY <1>3, <1>8 DEF LinkedSoFar
  <2>2. \A p : <<c, p>> \in links' <=> <<c, p>> \in links \/ p \in job[t].linking
    BY <1>3, <1>8
  <2>3. ProgramsOf(c)' = ProgramsOf(c) \union job[t].linking
    BY <1>4, <2>2 DEF ProgramsOf
  <2> QED
    BY <2>1, <2>3
<1>9. ASSUME NEW c \in DOMAIN job[t].dicts
      PROVE  Queued(t, c)' \/ Agree(t, c, ProgramsOf(c))'
  <2>1. CASE c = h
    BY <1>2, <1>3, <1>8, <2>1 DEF Agree
  <2>2. CASE c # h
    <3>1. ProgramsOf(c)' = ProgramsOf(c)
      BY <1>7, <2>2
    <3>2. Queued(t, c) \/ Agree(t, c, ProgramsOf(c))
      BY <1>3 DEF LinkedSoFar
    <3> QED
      BY <1>2, <1>3, <1>6, <2>2, <3>1, <3>2 DEF Agree
  <2> QED
    BY <2>1, <2>2
<1> QED
  BY <1>2, <1>9 DEF LinkedSoFar

LEMMA LinkedByPadding ==
    ASSUME FullInv, NEW t \in Worker, LinkedSoFar(t), PadBatchPrograms(t) \/ UpdateCopies(t)
    PROVE  LinkedSoFar(t)'
<1>1. job \in [Worker -> Job] /\ job[t] \in Job
  BY DEF FullInv, FullTypeOK
<1>2. /\ job'[t].pc = "copies" /\ job'[t].queue = job[t].queue
      /\ job'[t].dicts = job[t].dicts
  <2>1. CASE PadBatchPrograms(t)
    BY <1>1, <2>1, JobIs DEF PadBatchPrograms, Becomes
  <2>2. CASE UpdateCopies(t)
    BY <1>1, <2>2, JobIs DEF UpdateCopies, Becomes
  <2> QED
    BY <2>1, <2>2
<1>3. job[t].pc \in Linking /\ links' = links
  BY DEF PadBatchPrograms, UpdateCopies, Linking
<1>4. mishaps' = mishaps \/ Mishap
  BY DEF PadBatchPrograms, UpdateCopies, PadPrograms
<1>5. mishaps' = 0 => mishaps = 0
  BY <1>4, SizeAssumption DEF FullInv, FullTypeOK, Mishap
<1>6. (\A c \in DOMAIN job[t].dicts : Queued(t, c) \/ Agree(t, c, ProgramsOf(c)))'
  BY <1>2, <1>3, <1>5 DEF LinkedSoFar, Agree, Queued, ProgramsOf
<1> QED
  BY <1>2, <1>6 DEF LinkedSoFar

LEMMA LinkedByWorker ==
    ASSUME FullInv, NEW t \in Worker, LinkedSoFar(t),
           WorkOn(t) \/ StartFull(t, TRUE) \/ Break(t)
    PROVE  LinkedSoFar(t)'
  BY LinkedByOthers, LinkedByLoad, LinkedByStore, LinkedByUnlink, LinkedByLink, LinkedByPadding
     DEF WorkOn

\* A worker that is idle can only start, and then it is not alone.
LEMMA NoOtherWorks ==
    ASSUME FullInv, OneAtATime, OneAtATime', NEW s \in Worker, NEW t \in Worker, s # t,
           WorkOn(s) \/ StartFull(s, TRUE) \/ Break(s)
    PROVE  job'[t] = job[t] /\ job[t].pc = "idle"
<1>1. job \in [Worker -> Job] /\ Jobs
  BY DEF FullInv, FullTypeOK, Jobs
<1>2. job'[t] = job[t]
  BY <1>1, WorkerJobs
<1>3. CASE job[s].pc # "idle"
  BY <1>2, <1>3 DEF OneAtATime
<1>4. CASE job[s].pc = "idle"
  <2>1. StartFull(s, FALSE) \/ StartFull(s, TRUE)
    BY <1>4 DEF WorkOn, FetchCourses, LoadRecords, StorePrograms, Unlink, Link,
                PadBatchPrograms, UpdateCopies, WriteCourses, Finish, Break
  <2>2. job'[s].pc = "courses"
    BY <1>1, <2>1 DEF StartFull, Becomes, NextBatch
  <2> QED
    BY <1>2, <2>2 DEF OneAtATime
<1> QED
  BY <1>2, <1>3, <1>4

LEMMA LinkedNext ==
    ASSUME FullInv, OneAtATime, OneAtATime', [FullNext]_fullVars,
           NEW t \in Worker, LinkedSoFar(t)
    PROVE  LinkedSoFar(t)'
<1>1. CASE UNCHANGED fullVars
  <2>1. \A c \in Course : ProgramsOf(c)' = ProgramsOf(c)
    BY <1>1 DEF fullVars, ProgramsOf
  <2> QED
    BY <1>1, <2>1, LinkedStays DEF fullVars
<1>2. ASSUME NEW s \in Worker, WorkOn(s) \/ StartFull(s, TRUE) \/ Break(s)
      PROVE  LinkedSoFar(t)'
  <2>1. CASE s = t
    BY <1>2, <2>1, LinkedByWorker
  <2>2. CASE s # t
    <3>1. job'[t].pc = "idle"
      BY <1>2, <2>2, NoOtherWorks
    <3> QED
      BY <3>1 DEF LinkedSoFar, Linking
  <2> QED
    BY <2>1, <2>2
<1>3. CASE \/ \E x \in Course \union Program : Edit(x)
           \/ \E c \in Course : Ingest(c) \/ FetchMissingCourse(c)
           \/ \E p \in Program : IngestMissing(p)
           \/ \E w \in Pathway, dry \in BOOLEAN : LinkPathway(w, dry)
           \/ \E w \in Pathway : Deactivate(w)
  <2>1. UNCHANGED job /\ UNCHANGED mishaps
    BY <1>3, OthersSpareJobs
  <2>2. \A c \in Course : ProgramsOf(c)' = ProgramsOf(c)
    BY <1>3, OthersSpareLinks
  <2> QED
    BY <2>1, <2>2, LinkedStays
<1> QED
  BY <1>1, <1>2, <1>3 DEF FullNext

\* update_full_content_metadata_task writes a course linked to what it names, however ingests,
\* pathway tasks and edits come in between and whatever breaks off, as long as no two full
\* updates overlap.  (Two do when one outlives the window of its semaphore: the second may
\* then unlink the course between the other's link and its write.)
THEOREM LinkedWhenAlone == FullSpec /\ []OneAtATime => LinkedBeforeWritten
<1> DEFINE AllLinked == \A t \in Worker : LinkedSoFar(t)
<1>1. FullInit => AllLinked
  BY DEF FullInit, IdleJob, NextBatch, LinkedSoFar, Linking
<1>2. FullInv /\ OneAtATime /\ OneAtATime' /\ AllLinked /\ [FullNext]_fullVars => AllLinked'
  BY LinkedNext
<1>3. FullInv /\ AllLinked /\ [FullNext]_fullVars =>
         [\A t \in Worker, c \in Course :
             /\ job[t].pc = "copies" /\ job'[t].pc = "courses"
             /\ c \in DOMAIN job[t].loaded
             => /\ ProgramsOf(c) \subseteq job[t].dicts[c].programs
                /\ mishaps = 0 => ProgramsOf(c) = job[t].dicts[c].programs]_fullVars
  <2> SUFFICES ASSUME FullInv, AllLinked, NEW t \in Worker, NEW c \in Course,
                      job[t].pc = "copies", c \in DOMAIN job[t].loaded
               PROVE  /\ ProgramsOf(c) \subseteq job[t].dicts[c].programs
                      /\ mishaps = 0 => ProgramsOf(c) = job[t].dicts[c].programs
    BY Zenon
  <2>1. job[t].queue = <<>> /\ c \in DOMAIN job[t].dicts
    BY DEF FullInv, Shaped
  <2>2. ~Queued(t, c)
    BY <2>1, EmptySeq DEF Queued
  <2> QED
    BY <2>1, <2>2 DEF LinkedSoFar, Linking, Agree
<1> HIDE DEF AllLinked
<1> QED
  BY <1>1, <1>2, <1>3, FullInvAtFirst, FullInvStays, PTL DEF FullSpec, LinkedBeforeWritten
=============================================================================
