--------------------------- MODULE BatchJobsProofs ---------------------------
(***************************************************************************)
(* Theorems about BatchJobs, for any number of jobs, workers and slots and *)
(* any number of crashes and store errors.                                 *)
(***************************************************************************)
EXTENDS BatchJobs, FiniteSetTheorems, TLAPS

(***************************************************************************)
(* What the three ways of changing a task or a document do to the types.   *)
(***************************************************************************)
TasksTyped ==
    /\ task \in [Tasks -> Task]
    /\ \A t \in Tasks : task[t].job = None <=> task[t].pc = "free"

\* Move changes one task's place and no task's job.
LEMMA MoveEffect ==
    ASSUME TasksTyped, NEW t \in Tasks, NEW pc \in PCs \ {"free"},
           task[t].pc # "free", Move(t, pc)
    PROVE  /\ TasksTyped'
           /\ \A u \in Tasks : /\ task'[u].job = task[u].job
                               /\ task'[u].pc = IF u = t THEN pc ELSE task[u].pc
<1>1. task' = [task EXCEPT ![t] = [@ EXCEPT !.pc = pc]]
  BY DEF Move, TasksTyped
<1>2. task[t] \in Task
  BY DEF TasksTyped
<1>3. [task[t] EXCEPT !.pc = pc] = [pc |-> pc, job |-> task[t].job]
  BY <1>2 DEF Task
<1>4. [pc |-> pc, job |-> task[t].job] \in Task
  BY <1>2 DEF Task
<1>5. task' \in [Tasks -> Task]
  BY <1>1, <1>3, <1>4 DEF TasksTyped
<1>6. \A u \in Tasks : /\ task'[u].job = task[u].job
                       /\ task'[u].pc = IF u = t THEN pc ELSE task[u].pc
  BY <1>1, <1>3 DEF TasksTyped
<1> QED
  BY <1>5, <1>6 DEF TasksTyped

\* End frees one slot and leaves the others alone.
LEMMA EndEffect ==
    ASSUME TasksTyped, NEW t \in Tasks, End(t)
    PROVE  /\ TasksTyped'
           /\ \A u \in Tasks : task'[u] = IF u = t THEN FreeTask ELSE task[u]
<1>1. FreeTask \in Task
  BY DEF FreeTask, Task, PCs
<1> QED
  BY <1>1 DEF End, TasksTyped, FreeTask

\* Store sets one job's status and adds it to what that job has held.
LEMMA StoreEffect ==
    ASSUME TypeOK, NEW j \in Jobs, NEW s \in Status, Store(j, s)
    PROVE  /\ status' \in [Jobs -> Status]
           /\ recorded' \in [Jobs -> SUBSET Status]
           /\ \A i \in Jobs : status'[i] = IF i = j THEN s ELSE status[i]
           /\ \A i \in Jobs : recorded'[i] = IF i = j THEN recorded[i] \cup {s}
                                             ELSE recorded[i]
<1>1. status \in [Jobs -> Status] /\ recorded \in [Jobs -> SUBSET Status]
  BY DEF TypeOK
<1>2. recorded[j] \cup {s} \in SUBSET Status
  BY <1>1
<1> QED
  BY <1>1, <1>2 DEF Store

\* A task that is not free works for a job.
LEMMA BusyTask ==
    ASSUME TypeOK, NEW t \in Tasks, task[t].pc # "free"
    PROVE  task[t].job \in Jobs
BY DEF TypeOK, Task

\* The status names the actions write.
LEMMA StatusNames ==
    /\ {"none", "queued", "processing", "completed", "failed", "cancelled"}
         \subseteq Status
    /\ {"completed", "failed", "cancelled"} \subseteq Final
BY DEF Status, Final

\* The places a busy task may be at.
LEMMA PCNames ==
    /\ {"claiming", "erroring", "processing", "completing", "failing",
        "tellCompleted", "tellFailed"} \subseteq PCs \ {"free"}
BY DEF PCs, OwnerPCs

\* TypeOK with the task table's part named.
LEMMA TypeFromTasks ==
    TypeOK <=> /\ status \in [Jobs -> Status]
               /\ queue \in Seq(Jobs)
               /\ worker \in [Workers -> {"up", "draining", "down"}]
               /\ TasksTyped
               /\ cancel \in [Clients -> Jobs \cup {None}]
               /\ recorded \in [Jobs -> SUBSET Status]
               /\ begun \in SUBSET Jobs
               /\ notified \in [Jobs -> SUBSET Final]
               /\ faults \in Nat
BY DEF TypeOK, TasksTyped

\* A disturbance keeps the fault count a number.
LEMMA DisturbType == ASSUME TypeOK, Disturb PROVE faults' \in Nat
BY DEF TypeOK, Disturb

(***************************************************************************)
(* Polling only fills free slots, with jobs that are not yet owned.        *)
(***************************************************************************)
LEMMA PollEffect ==
    ASSUME TypeOK, NEW w \in Workers, Poll(w)
    PROVE  /\ TasksTyped'
           /\ \A t \in Tasks : \/ task'[t] = task[t]
                               \/ /\ task[t].pc = "free"
                                  /\ task'[t].pc = "claiming"
                                  /\ task'[t].job \in Jobs
<1>1. PICK taken \in [FreeSlots(w) -> Jobs \cup {None}] :
        task' = [t \in Tasks |->
                  IF t[1] = w /\ t[2] \in {k \in FreeSlots(w) : taken[k] # None}
                  THEN [pc |-> "claiming", job |-> taken[t[2]]]
                  ELSE task[t]]
  BY DEF Poll
<1>2. ASSUME NEW t \in Tasks, t[1] = w,
             t[2] \in {k \in FreeSlots(w) : taken[k] # None}
      PROVE  /\ task[t].pc = "free"
             /\ taken[t[2]] \in Jobs
             /\ [pc |-> "claiming", job |-> taken[t[2]]] \in Task
  <2>1. t = <<w, t[2]>>
    BY <1>2 DEF Tasks
  <2>2. taken[t[2]] \in Jobs
    BY <1>2
  <2> QED
    BY <1>2, <2>1, <2>2, PCNames DEF FreeSlots, Task
<1>3. \A t \in Tasks : \/ task'[t] = task[t]
                       \/ /\ task[t].pc = "free"
                          /\ task'[t].pc = "claiming"
                          /\ task'[t].job \in Jobs
                          /\ task'[t] \in Task
  BY <1>1, <1>2
<1>4. TasksTyped
  BY TypeFromTasks
<1>5. task' \in [Tasks -> Task]
  BY <1>1, <1>3, <1>4 DEF TasksTyped
<1> QED
  BY <1>3, <1>4, <1>5, BatchConstants DEF TasksTyped

\* A crash frees every slot of its worker and no other.
LEMMA CrashEffect ==
    ASSUME TasksTyped, NEW w \in Workers, Crash(w)
    PROVE  /\ TasksTyped'
           /\ \A t \in Tasks : task'[t] = IF t[1] = w THEN FreeTask ELSE task[t]
<1>1. FreeTask \in Task
  BY DEF FreeTask, Task, PCs
<1> QED
  BY <1>1 DEF Crash, TasksTyped, FreeTask

(***************************************************************************)
(* Every variable keeps its type, and a slot names a job exactly while a   *)
(* task runs in it.                                                        *)
(***************************************************************************)
THEOREM TypeCorrect == Spec => []TypeOK
<1>1. Init => TypeOK
  <2> SUFFICES ASSUME Init PROVE TypeOK
    OBVIOUS
  <2>1. FreeTask \in Task
    BY DEF FreeTask, Task, PCs
  <2>2. TasksTyped
    BY <2>1 DEF Init, TasksTyped, FreeTask
  <2> QED
    BY <2>2, StatusNames, TypeFromTasks DEF Init
<1>2. TypeOK /\ [Next]_vars => TypeOK'
  <2> SUFFICES ASSUME TypeOK, [Next]_vars PROVE TypeOK'
    OBVIOUS
  <2>0. TasksTyped
    BY TypeFromTasks
  <2>1. ASSUME NEW j \in Jobs, CreateJob(j) PROVE TypeOK'
    BY <2>0, <2>1, StatusNames, StoreEffect, TypeFromTasks
       DEF CreateJob, TasksTyped, TypeOK
  <2>2. ASSUME NEW c \in Clients, NEW j \in Jobs, CancelRead(c, j) PROVE TypeOK'
    BY <2>2 DEF CancelRead, TypeOK
  <2>3. ASSUME NEW c \in Clients, CancelWrite(c) PROVE TypeOK'
    <3>1. cancel[c] \in Jobs
      BY <2>3 DEF CancelWrite, TypeOK
    <3>2. status' \in [Jobs -> Status] /\ recorded' \in [Jobs -> SUBSET Status]
      BY <2>3, <3>1, StatusNames, StoreEffect DEF CancelWrite
    <3>3. cancel' \in [Clients -> Jobs \cup {None}]
      BY <2>3 DEF CancelWrite, TypeOK
    <3> QED
      BY <2>3, <3>2, <3>3 DEF CancelWrite, TypeOK
  <2>4. ASSUME NEW w \in Workers, Poll(w) PROVE TypeOK'
    BY <2>4, PollEffect, TypeFromTasks DEF Poll, TypeOK, TasksTyped
  <2>5. ASSUME NEW w \in Workers, Shutdown(w) PROVE TypeOK'
    BY <2>5, DisturbType DEF Shutdown, TypeOK
  <2>6. ASSUME NEW w \in Workers, Exit(w) \/ Restart(w) PROVE TypeOK'
    BY <2>6 DEF Exit, Restart, TypeOK
  <2>7. ASSUME NEW w \in Workers, Crash(w) PROVE TypeOK'
    <3>1. TasksTyped'
      BY <2>0, <2>7, CrashEffect
    <3> QED
      BY <2>7, <3>1, DisturbType DEF Crash, TypeOK, TasksTyped
  <2>8. ASSUME NEW t \in Tasks, TaskStep(t) \/ ClaimRaises(t) \/ RecordRaises(t)
        PROVE  TypeOK'
    <3>1. task[t].pc # "free"
      BY <2>8 DEF TaskStep, Claim, Process, RecordResult, Notify, HandleError,
                  ClaimRaises, RecordRaises
    <3>2. task[t].job \in Jobs
      BY <3>1, BusyTask
    <3>3. End(t) \/ \E pc \in PCs \ {"free"} : Move(t, pc)
      BY <2>8, PCNames
         DEF TaskStep, Claim, Process, RecordResult, Notify, HandleError,
             ClaimRaises, RecordRaises
    <3>4. TasksTyped'
      BY <2>0, <3>1, <3>3, MoveEffect, EndEffect
    <3>5. UNCHANGED <<status, recorded>> \/ \E s \in Status : Store(task[t].job, s)
      BY <2>8, StatusNames
         DEF TaskStep, Claim, Process, RecordResult, Notify, HandleError,
             ClaimRaises, RecordRaises
    <3>6. status' \in [Jobs -> Status] /\ recorded' \in [Jobs -> SUBSET Status]
      BY <3>2, <3>5, StoreEffect DEF TypeOK
    <3>7. begun' \in SUBSET Jobs
      BY <2>8, <3>2
         DEF TaskStep, Claim, Process, RecordResult, Notify, HandleError,
             ClaimRaises, RecordRaises, TypeOK
    <3>8. notified' \in [Jobs -> SUBSET Final]
      <4>1. notified \in [Jobs -> SUBSET Final]
        BY DEF TypeOK
      <4>2. \/ UNCHANGED notified
            \/ \E s \in Final :
                 notified' = [notified EXCEPT ![task[t].job] = @ \cup {s}]
        BY <2>8, StatusNames
           DEF TaskStep, Claim, Process, RecordResult, Notify, HandleError,
               ClaimRaises, RecordRaises
      <4> QED
        BY <3>2, <4>1, <4>2
    <3>9. UNCHANGED <<queue, worker, cancel>> /\ faults' \in Nat
      BY <2>8, DisturbType
         DEF TaskStep, Claim, Process, RecordResult, Notify, HandleError,
             ClaimRaises, RecordRaises, TypeOK
    <3> QED
      BY <3>4, <3>6, <3>7, <3>8, <3>9 DEF TypeOK, TasksTyped
  <2>9. CASE UNCHANGED vars
    BY <2>9 DEF vars, TypeOK
  <2> QED
    BY <2>1, <2>2, <2>3, <2>4, <2>5, <2>6, <2>7, <2>8, <2>9
       DEF Next, WorkerStep
<1> QED
  BY <1>1, <1>2, PTL DEF Spec

-----------------------------------------------------------------------------
(***************************************************************************)
(* Seen from outside a step does one of three things: a task becomes the   *)
(* owner of a queued job, an owner tells the subscribers and is done, or   *)
(* nothing begins and nobody is told.                                      *)
(***************************************************************************)
Began(t, j) ==
    /\ status[j] = "queued"
    /\ \A i \in Jobs : status'[i] = IF i = j THEN "processing" ELSE status[i]
    /\ begun' = begun \cup {j}
    /\ notified' = notified
    /\ \A u \in Tasks, i \in Jobs : Owns(u, i)' <=> Owns(u, i) \/ (u = t /\ i = j)

ToldBy(t, j) ==
    /\ Owns(t, j)
    /\ status' = status
    /\ begun' = begun
    /\ \E s \in Final : notified' = [notified EXCEPT ![j] = @ \cup {s}]
    /\ \A u \in Tasks, i \in Jobs : Owns(u, i)' <=> Owns(u, i) /\ u # t

Quiet ==
    /\ begun' = begun
    /\ notified' = notified
    /\ \A u \in Tasks, i \in Jobs : Owns(u, i)' => Owns(u, i)
    /\ \A i \in Jobs : status'[i] \in {"none", "queued"}
                        => status[i] \in {"none", "queued"}

\* Ownership is lost where the owner moves to a place that owns nothing.
LEMMA OwnersAfterMove ==
    ASSUME TasksTyped, NEW t \in Tasks, NEW pc \in PCs \ {"free"},
           task[t].pc # "free", Move(t, pc)
    PROVE  \A u \in Tasks, i \in Jobs :
             Owns(u, i)' <=> IF u = t THEN task[t].job = i /\ pc \in OwnerPCs
                             ELSE Owns(u, i)
BY MoveEffect DEF Owns

\* A task that ends owns nothing; no other owner changes.
LEMMA OwnersAfterEnd ==
    ASSUME TasksTyped, NEW t \in Tasks, End(t)
    PROVE  \A u \in Tasks, i \in Jobs : Owns(u, i)' <=> Owns(u, i) /\ u # t
BY EndEffect, BatchConstants DEF Owns, FreeTask, OwnerPCs

\* No write but create_job's makes a job queued.
LEMMA StoreQuiet ==
    ASSUME TypeOK, NEW j \in Jobs,
           NEW s \in {"processing", "completed", "failed", "cancelled"}, Store(j, s)
    PROVE  \A i \in Jobs : status'[i] \in {"none", "queued"}
                             => status[i] \in {"none", "queued"}
<1>1. s \in Status
  BY StatusNames
<1> QED
  BY <1>1, StoreEffect

\* Every step begins one job, tells one job's subscribers, or does neither.
LEMMA StepShape ==
    ASSUME TypeOK, [Next]_vars
    PROVE  \/ \E t \in Tasks, j \in Jobs : Began(t, j) \/ ToldBy(t, j)
           \/ Quiet
<1>0. TasksTyped
  BY TypeFromTasks
<1>1. ASSUME NEW j \in Jobs, CreateJob(j) PROVE Quiet
  <2>1. \A i \in Jobs : status'[i] = IF i = j THEN "queued" ELSE status[i]
    BY <1>1, StatusNames, StoreEffect DEF CreateJob
  <2> QED
    BY <1>1, <2>1 DEF CreateJob, Quiet, Owns
<1>2. ASSUME NEW c \in Clients, NEW j \in Jobs, CancelRead(c, j) PROVE Quiet
  BY <1>2 DEF CancelRead, Quiet, Owns
<1>3. ASSUME NEW c \in Clients, CancelWrite(c) PROVE Quiet
  <2>1. cancel[c] \in Jobs
    BY <1>3 DEF CancelWrite, TypeOK
  <2> QED
    BY <1>3, <2>1, StoreQuiet DEF CancelWrite, Quiet, Owns
<1>4. ASSUME NEW w \in Workers, Poll(w) PROVE Quiet
  <2>1. \A u \in Tasks, i \in Jobs : Owns(u, i)' => Owns(u, i)
    BY <1>4, PollEffect DEF Owns, OwnerPCs
  <2> QED
    BY <1>4, <2>1 DEF Poll, Quiet
<1>5. ASSUME NEW w \in Workers, Shutdown(w) \/ Exit(w) \/ Restart(w) PROVE Quiet
  BY <1>5 DEF Shutdown, Exit, Restart, Quiet, Owns
<1>6. ASSUME NEW w \in Workers, Crash(w) PROVE Quiet
  <2>1. \A u \in Tasks, i \in Jobs : Owns(u, i)' => Owns(u, i)
    BY <1>0, <1>6, CrashEffect DEF Owns, FreeTask, OwnerPCs
  <2> QED
    BY <1>6, <2>1 DEF Crash, Quiet
<1>7. ASSUME NEW t \in Tasks, Claim(t)
      PROVE  Quiet \/ \E j \in Jobs : Began(t, j)
  <2>1. task[t].pc = "claiming" /\ task[t].job \in Jobs
    BY <1>7, BusyTask DEF Claim
  <2>2. CASE status[task[t].job] = "queued"
    <3>1. PICK j \in Jobs : j = task[t].job
      BY <2>1
    <3>2. Store(j, "processing") /\ Move(t, "processing")
          /\ begun' = begun \cup {j} /\ notified' = notified
      BY <1>7, <2>2, <3>1 DEF Claim
    <3>3. \A i \in Jobs : status'[i] = IF i = j THEN "processing" ELSE status[i]
      BY <3>2, StatusNames, StoreEffect
    <3>4. \A u \in Tasks, i \in Jobs :
            Owns(u, i)' <=> IF u = t THEN j = i ELSE Owns(u, i)
      BY <1>0, <2>1, <3>1, <3>2, PCNames, OwnersAfterMove DEF OwnerPCs
    <3>5. \A i \in Jobs : ~Owns(t, i)
      BY <2>1 DEF Owns, OwnerPCs
    <3> QED
      BY <2>2, <3>1, <3>2, <3>3, <3>4, <3>5 DEF Began
  <2>3. CASE status[task[t].job] # "queued"
    BY <1>0, <1>7, <2>3, OwnersAfterEnd DEF Claim, Quiet
  <2> QED
    BY <2>2, <2>3
<1>8. ASSUME NEW t \in Tasks,
             ClaimRaises(t) \/ Process(t) \/ RecordResult(t) \/ RecordRaises(t)
      PROVE  Quiet
  <2>1. task[t].pc # "free" /\ task[t].job \in Jobs
    BY <1>8, BusyTask DEF ClaimRaises, Process, RecordResult, RecordRaises
  <2>2. \E pc \in PCs \ {"free"} :
          Move(t, pc) /\ (pc \in OwnerPCs => task[t].pc \in OwnerPCs)
    BY <1>8, PCNames
       DEF ClaimRaises, Process, RecordResult, RecordRaises, OwnerPCs
  <2>3. \A u \in Tasks, i \in Jobs : Owns(u, i)' => Owns(u, i)
    BY <1>0, <2>1, <2>2, OwnersAfterMove DEF Owns
  <2>4. \/ UNCHANGED status
        \/ \E s \in {"processing", "completed", "failed", "cancelled"} :
             Store(task[t].job, s)
    BY <1>8 DEF ClaimRaises, Process, RecordResult, RecordRaises
  <2>5. \A i \in Jobs : status'[i] \in {"none", "queued"}
                          => status[i] \in {"none", "queued"}
    BY <2>1, <2>4, StoreQuiet
  <2> QED
    BY <1>8, <2>3, <2>5
       DEF ClaimRaises, Process, RecordResult, RecordRaises, Quiet
<1>9. ASSUME NEW t \in Tasks, HandleError(t) PROVE Quiet
  <2>1. task[t].job \in Jobs
    BY <1>9, BusyTask DEF HandleError
  <2>2. \A i \in Jobs : status'[i] \in {"none", "queued"}
                          => status[i] \in {"none", "queued"}
    BY <1>9, <2>1, StoreQuiet DEF HandleError
  <2> QED
    BY <1>0, <1>9, <2>2, OwnersAfterEnd DEF HandleError, Quiet
<1>10. ASSUME NEW t \in Tasks, Notify(t) PROVE \E j \in Jobs : ToldBy(t, j)
  <2>1. PICK j \in Jobs : j = task[t].job
    BY <1>10, BusyTask DEF Notify
  <2>2. Owns(t, j)
    BY <1>10, <2>1 DEF Notify, Owns, OwnerPCs
  <2> QED
    BY <1>0, <1>10, <2>1, <2>2, OwnersAfterEnd, StatusNames DEF Notify, ToldBy
<1>11. CASE UNCHANGED vars
  BY <1>11 DEF vars, Quiet, Owns
<1> QED
  BY <1>1, <1>2, <1>3, <1>4, <1>5, <1>6, <1>7, <1>8, <1>9, <1>10, <1>11
     DEF Next, WorkerStep, TaskStep

-----------------------------------------------------------------------------
\* An owner has told nobody yet.
OwnersAreSilent ==
    \A t \in Tasks, j \in Jobs : Owns(t, j) => notified[j] = {}

(***************************************************************************)
(* The inductive invariant: a queued job is untouched, an owned one has    *)
(* one owner, and that owner has not told anybody.                         *)
(***************************************************************************)
Ownership == TypeOK /\ QueuedIsUntouched /\ SoleOwner /\ OwnersAreSilent

\* The inductive invariant holds in every reachable state.
LEMMA OwnershipHolds == Spec => []Ownership
<1>1. Init => QueuedIsUntouched /\ SoleOwner /\ OwnersAreSilent
  BY DEF Init, QueuedIsUntouched, SoleOwner, OwnersAreSilent, Owns, FreeTask,
         OwnerPCs
<1>2. Ownership /\ [Next]_vars => QueuedIsUntouched' /\ SoleOwner' /\ OwnersAreSilent'
  <2> SUFFICES ASSUME Ownership, [Next]_vars
               PROVE  QueuedIsUntouched' /\ SoleOwner' /\ OwnersAreSilent'
    OBVIOUS
  <2>1. ASSUME NEW t \in Tasks, NEW j \in Jobs, Began(t, j)
        PROVE  QueuedIsUntouched' /\ SoleOwner' /\ OwnersAreSilent'
    <3>1. QueuedIsUntouched'
      BY <2>1 DEF Began, Ownership, QueuedIsUntouched
    <3>2. \A u \in Tasks : ~Owns(u, j)
      BY <2>1 DEF Began, Ownership, QueuedIsUntouched
    <3>3. SoleOwner'
      BY <2>1, <3>2 DEF Began, Ownership, SoleOwner
    <3>4. OwnersAreSilent'
      BY <2>1 DEF Began, Ownership, QueuedIsUntouched, OwnersAreSilent
    <3> QED
      BY <3>1, <3>3, <3>4
  <2>2. ASSUME NEW t \in Tasks, NEW j \in Jobs, ToldBy(t, j)
        PROVE  QueuedIsUntouched' /\ SoleOwner' /\ OwnersAreSilent'
    <3>1. \A i \in Jobs : i # j => notified'[i] = notified[i]
      BY <2>2 DEF ToldBy
    <3>2. status[j] \notin {"none", "queued"}
      BY <2>2 DEF ToldBy, Ownership, QueuedIsUntouched
    <3>3. \A u \in Tasks : ~Owns(u, j)'
      BY <2>2 DEF ToldBy, Ownership, SoleOwner
    <3>4. QueuedIsUntouched'
      BY <2>2, <3>1, <3>2 DEF ToldBy, Ownership, QueuedIsUntouched
    <3>5. SoleOwner'
      BY <2>2 DEF ToldBy, Ownership, SoleOwner
    <3>6. OwnersAreSilent'
      BY <2>2, <3>1, <3>3 DEF ToldBy, Ownership, OwnersAreSilent
    <3> QED
      BY <3>4, <3>5, <3>6
  <2>3. CASE Quiet
    BY <2>3 DEF Quiet, Ownership, QueuedIsUntouched, SoleOwner, OwnersAreSilent
  <2> QED
    BY <2>1, <2>2, <2>3, StepShape DEF Ownership
<1> QED
  BY <1>1, <1>2, TypeCorrect, PTL DEF Spec, Ownership

(***************************************************************************)
(* However many workers poll and claim, a job has one owner at most.       *)
(***************************************************************************)
THEOREM OneOwner == Spec => []SoleOwner
BY OwnershipHolds, PTL DEF Ownership

(***************************************************************************)
(* A job that is still queued has not been begun, owned or reported.       *)
(***************************************************************************)
THEOREM QueuedUntouched == Spec => []QueuedIsUntouched
BY OwnershipHolds, PTL DEF Ownership

-----------------------------------------------------------------------------
(***************************************************************************)
(* The queue implements SoleProcessing: a step that begins a job maps to   *)
(* Begin, one that tells to Tell, and every other one drops the jobs that  *)
(* have no owner after it.                                                 *)
(***************************************************************************)
THEOREM Refinement == Spec => ImplementsSoleProcessing
<1> DEFINE Working(j) == {t \in Tasks : Owns(t, j)}
<1>1. Init => Promise!Init
  BY DEF Init, Promise!Init, Owns, FreeTask, OwnerPCs
<1>2. Ownership /\ [Next]_vars => [Promise!Next]_(Promise!vars)
  <2> SUFFICES ASSUME Ownership, [Next]_vars PROVE Promise!Next
    OBVIOUS
  <2>1. ASSUME NEW t \in Tasks, NEW j \in Jobs, Began(t, j)
        PROVE  Promise!Begin(j, t)
    <3>1. j \notin begun /\ Working(j) = {}
      BY <2>1 DEF Began, Ownership, QueuedIsUntouched
    <3>2. Working(j)' = {t}
      BY <2>1, <3>1 DEF Began
    <3>3. \A i \in Jobs : i # j => Working(i)' = Working(i)
      BY <2>1 DEF Began
    <3>4. [i \in Jobs |-> Working(i)]'
            = [[i \in Jobs |-> Working(i)] EXCEPT ![j] = {t}]
      BY <3>2, <3>3
    <3> QED
      BY <2>1, <3>1, <3>4 DEF Began, Promise!Begin
  <2>2. ASSUME NEW t \in Tasks, NEW j \in Jobs, ToldBy(t, j)
        PROVE  Promise!Tell(j)
    <3>1. notified \in [Jobs -> SUBSET Final]
      BY DEF Ownership, TypeOK
    <3>2. notified[j] = {} /\ Working(j) # {}
      BY <2>2 DEF ToldBy, Ownership, OwnersAreSilent
    <3>3. /\ notified'[j] # {}
          /\ \A i \in Jobs : i # j => notified'[i] = notified[i]
      BY <2>2, <3>1 DEF ToldBy
    <3>4. Working(j)' = {}
      BY <2>2 DEF ToldBy, Ownership, SoleOwner
    <3>5. \A i \in Jobs : i # j => Working(i)' = Working(i)
      <4>1. \A i \in Jobs : i # j => ~Owns(t, i)
        BY <2>2 DEF ToldBy, Owns
      <4> QED
        BY <2>2, <4>1 DEF ToldBy
    <3>6. [i \in Jobs |-> Working(i)]'
            = [[i \in Jobs |-> Working(i)] EXCEPT ![j] = {}]
      BY <3>4, <3>5
    <3>7. {i \in Jobs : notified'[i] # {}} = {i \in Jobs : notified[i] # {}} \cup {j}
      BY <3>3
    <3> QED
      BY <2>2, <3>2, <3>6, <3>7 DEF ToldBy, Promise!Tell
  <2>3. CASE Quiet
    <3> DEFINE S == {i \in Jobs : Working(i)' = {}}
    <3>1. \A i \in Jobs : Working(i)' = IF i \in S THEN {} ELSE Working(i)
      BY <2>3 DEF Quiet, Ownership, SoleOwner
    <3>2. [i \in Jobs |-> Working(i)]'
            = [i \in Jobs |-> IF i \in S THEN {} ELSE [k \in Jobs |-> Working(k)][i]]
      BY <3>1
    <3>3. Promise!Drop(S)
      BY <2>3, <3>2 DEF Quiet, Promise!Drop
    <3> QED
      BY <3>3 DEF Promise!Next
  <2> QED
    BY <2>1, <2>2, <2>3, StepShape DEF Ownership, Promise!Next
<1> QED
  BY <1>1, <1>2, OwnershipHolds, PTL DEF Spec, ImplementsSoleProcessing, Promise!Spec

-----------------------------------------------------------------------------
\* What a task is about to tell has been stored.
TellersHaveRecorded ==
    \A t \in Tasks :
      /\ task[t].pc = "tellCompleted" => "completed" \in recorded[task[t].job]
      /\ task[t].pc = "tellFailed" => "failed" \in recorded[task[t].job]

Reports == TellersHaveRecorded /\ ToldWhatWasRecorded

(***************************************************************************)
(* Records are never taken back, so a step keeps the reports honest if it  *)
(* tells nobody and makes no new teller.                                   *)
(***************************************************************************)
LEMMA NobodyTells ==
    ASSUME TypeOK, Reports, UNCHANGED notified,
           \A j \in Jobs : recorded[j] \subseteq recorded'[j],
           \A t \in Tasks : task'[t].pc \in {"tellCompleted", "tellFailed"}
                             => task'[t] = task[t]
    PROVE  Reports'
<1>1. \A t \in Tasks : task[t].pc \in {"tellCompleted", "tellFailed"}
                        => task[t].job \in Jobs
  BY BusyTask
<1>2. TellersHaveRecorded'
  BY <1>1 DEF Reports, TellersHaveRecorded
<1>3. ToldWhatWasRecorded'
  BY DEF Reports, ToldWhatWasRecorded
<1> QED
  BY <1>2, <1>3 DEF Reports

\* What a job's document has held is never forgotten.
LEMMA RecordsGrow ==
    ASSUME TypeOK, NEW j \in Jobs, NEW s \in Status,
           Store(j, s) \/ UNCHANGED recorded
    PROVE  \A i \in Jobs : recorded[i] \subseteq recorded'[i]
BY StoreEffect

(***************************************************************************)
(* Subscribers are told once, and of a status the document has held.       *)
(***************************************************************************)
THEOREM ReportsAreHonest == Spec => []ToldWhatWasRecorded
<1>1. Init => Reports
  BY FS_EmptySet DEF Init, Reports, TellersHaveRecorded, ToldWhatWasRecorded,
                     FreeTask
<1>2. Ownership /\ Reports /\ [Next]_vars => Reports'
  <2> SUFFICES ASSUME Ownership, Reports, [Next]_vars PROVE Reports'
    OBVIOUS
  <2>0. TypeOK /\ TasksTyped
    BY TypeFromTasks DEF Ownership
  <2>1. ASSUME NEW j \in Jobs, CreateJob(j) PROVE Reports'
    BY <2>0, <2>1, StatusNames, RecordsGrow, NobodyTells DEF CreateJob
  <2>2. ASSUME NEW c \in Clients, CancelWrite(c) PROVE Reports'
    <3>1. cancel[c] \in Jobs
      BY <2>0, <2>2 DEF CancelWrite, TypeOK
    <3> QED
      BY <2>0, <2>2, <3>1, StatusNames, RecordsGrow, NobodyTells DEF CancelWrite
  <2>3. ASSUME NEW w \in Workers, Poll(w) PROVE Reports'
    <3>1. \A t \in Tasks : task'[t].pc \in {"tellCompleted", "tellFailed"}
                            => task'[t] = task[t]
      BY <2>0, <2>3, PollEffect
    <3> QED
      BY <2>0, <2>3, <3>1, NobodyTells DEF Poll
  <2>4. ASSUME NEW w \in Workers, Crash(w) PROVE Reports'
    <3>1. \A t \in Tasks : task'[t].pc \in {"tellCompleted", "tellFailed"}
                            => task'[t] = task[t]
      BY <2>0, <2>4, CrashEffect DEF FreeTask
    <3> QED
      BY <2>0, <2>4, <3>1, NobodyTells DEF Crash
  <2>5. ASSUME UNCHANGED <<task, recorded, notified>> PROVE Reports'
    BY <2>0, <2>5, NobodyTells
  <2>6. ASSUME NEW t \in Tasks,
               \/ Claim(t) \/ ClaimRaises(t) \/ Process(t) \/ RecordRaises(t)
               \/ HandleError(t)
        PROVE  Reports'
    <3>1. task[t].pc # "free" /\ task[t].job \in Jobs
      BY <2>0, <2>6, BusyTask
         DEF Claim, ClaimRaises, Process, RecordRaises, HandleError
    <3>2. \/ End(t)
          \/ \E pc \in PCs \ {"free", "tellCompleted", "tellFailed"} : Move(t, pc)
      BY <2>6, PCNames
         DEF Claim, ClaimRaises, Process, RecordRaises, HandleError
    <3>3. \A u \in Tasks : task'[u].pc \in {"tellCompleted", "tellFailed"} => u # t
      BY <2>0, <3>1, <3>2, MoveEffect, EndEffect DEF FreeTask
    <3>4. \A u \in Tasks : u # t => task'[u] = task[u]
      BY <2>0, <3>2 DEF Move, End, TasksTyped
    <3>5. \E s \in Status : Store(task[t].job, s) \/ UNCHANGED recorded
      BY <2>6, StatusNames
         DEF Claim, ClaimRaises, Process, RecordRaises, HandleError
    <3>6. \A i \in Jobs : recorded[i] \subseteq recorded'[i]
      BY <2>0, <3>1, <3>5, RecordsGrow
    <3>7. UNCHANGED notified
      BY <2>6 DEF Claim, ClaimRaises, Process, RecordRaises, HandleError
    <3> QED
      BY <2>0, <3>3, <3>4, <3>6, <3>7, NobodyTells
  <2>7. ASSUME NEW t \in Tasks, RecordResult(t) PROVE Reports'
    <3>1. task[t].pc # "free" /\ task[t].job \in Jobs
      BY <2>0, <2>7, BusyTask DEF RecordResult
    <3>2. \/ Store(task[t].job, "completed") /\ Move(t, "tellCompleted")
          \/ Store(task[t].job, "failed") /\ Move(t, "tellFailed")
      BY <2>7 DEF RecordResult
    <3>3. \A i \in Jobs : recorded[i] \subseteq recorded'[i]
      BY <2>0, <3>1, <3>2, StatusNames, RecordsGrow
    <3>4. \A u \in Tasks : u # t => task'[u] = task[u]
      BY <2>0, <3>2 DEF Move, TasksTyped
    <3>5. /\ task'[t].job = task[t].job
          /\ task'[t].pc = "tellCompleted" => "completed" \in recorded'[task[t].job]
          /\ task'[t].pc = "tellFailed" => "failed" \in recorded'[task[t].job]
      <4>1. CASE Store(task[t].job, "completed") /\ Move(t, "tellCompleted")
        <5>1. "completed" \in recorded'[task[t].job]
          BY <2>0, <3>1, <4>1 DEF Store, TypeOK
        <5> QED
          BY <2>0, <3>1, <4>1, <5>1, PCNames, MoveEffect
      <4>2. CASE Store(task[t].job, "failed") /\ Move(t, "tellFailed")
        <5>1. "failed" \in recorded'[task[t].job]
          BY <2>0, <3>1, <4>2 DEF Store, TypeOK
        <5> QED
          BY <2>0, <3>1, <4>2, <5>1, PCNames, MoveEffect
      <4> QED
        BY <3>2, <4>1, <4>2
    <3>6. \A u \in Tasks : task[u].pc \in {"tellCompleted", "tellFailed"}
                            => task[u].job \in Jobs
      BY <2>0, BusyTask
    <3>7. TellersHaveRecorded'
      BY <3>3, <3>4, <3>5, <3>6 DEF Reports, TellersHaveRecorded
    <3>8. ToldWhatWasRecorded'
      BY <2>7, <3>3 DEF RecordResult, Reports, ToldWhatWasRecorded
    <3> QED
      BY <3>7, <3>8 DEF Reports
  <2>8. ASSUME NEW t \in Tasks, Notify(t) PROVE Reports'
    <3>1. PICK j \in Jobs : j = task[t].job
      BY <2>0, <2>8, BusyTask DEF Notify
    <3>2. PICK s \in Final : /\ notified' = [notified EXCEPT ![j] = @ \cup {s}]
                             /\ s \in recorded[j]
      BY <2>8, <3>1, StatusNames DEF Notify, Reports, TellersHaveRecorded
    <3>3. notified[j] = {}
      BY <2>8, <3>1 DEF Notify, Owns, OwnerPCs, Ownership, OwnersAreSilent
    <3>4. \A i \in Jobs : notified'[i] = IF i = j THEN {s} ELSE notified[i]
      BY <2>0, <3>2, <3>3 DEF TypeOK
    <3>5. UNCHANGED recorded
      BY <2>8 DEF Notify
    <3>6. ToldWhatWasRecorded'
      <4>1. Cardinality({s}) = 1
        BY FS_Singleton
      <4>2. notified'[j] \subseteq recorded'[j] /\ Cardinality(notified'[j]) <= 1
        BY <3>2, <3>4, <3>5, <4>1
      <4>3. \A i \in Jobs : i # j => /\ notified'[i] \subseteq recorded'[i]
                                     /\ Cardinality(notified'[i]) <= 1
        BY <3>4, <3>5 DEF Reports, ToldWhatWasRecorded
      <4> QED
        BY <4>2, <4>3 DEF ToldWhatWasRecorded
    <3>7. TellersHaveRecorded'
      BY <2>0, <2>8, <3>5, EndEffect DEF Notify, Reports, TellersHaveRecorded, FreeTask
    <3> QED
      BY <3>6, <3>7 DEF Reports
  <2>9. CASE UNCHANGED vars
    BY <2>5, <2>9 DEF vars
  <2>10. ASSUME NEW w \in Workers, Shutdown(w) \/ Exit(w) \/ Restart(w)
         PROVE  Reports'
    BY <2>5, <2>10 DEF Shutdown, Exit, Restart
  <2>11. ASSUME NEW c \in Clients, NEW j \in Jobs, CancelRead(c, j) PROVE Reports'
    BY <2>5, <2>11 DEF CancelRead
  <2> QED
    BY <2>1, <2>2, <2>3, <2>4, <2>6, <2>7, <2>8, <2>9, <2>10, <2>11
       DEF Next, WorkerStep, TaskStep
<1> QED
  BY <1>1, <1>2, OwnershipHolds, PTL DEF Spec, Reports
=============================================================================
