------------------------------ MODULE BatchJobs ------------------------------
(***************************************************************************)
(* The batch job queue: the batch_jobs collection, worker processes that   *)
(* poll it and run up to MAX_CONCURRENT_JOBS tasks each, and the requests  *)
(* that create and cancel jobs.  Every store call is one atomic step; the  *)
(* awaits between them are where the actors interleave.                    *)
(***************************************************************************)
EXTENDS Naturals, Sequences, FiniteSets

CONSTANTS
    Jobs,       \* job ids (a UUID is never used twice)
    Workers,    \* worker processes
    Slots,      \* task slots of a worker: MAX_CONCURRENT_JOBS of them
    Clients,    \* callers of the cancel endpoint
    None,       \* no job
    MaxFaults   \* model bound: store errors, crashes and stop signals

ASSUME BatchConstants ==
    /\ None \notin Jobs
    /\ MaxFaults \in Nat

VARIABLES
    status,     \* the stored status of each job, "none" before it is created
    queue,      \* ids in created_at order
    worker,     \* "up", "draining" (shutdown requested) or "down"
    task,       \* worker x slot -> where its process_job_async is, on which job
    cancel,     \* client -> the job its cancel request has read as cancellable
    recorded,   \* ghost: every status a job's document has ever held
    begun,      \* ghost: jobs whose workflow has been started
    notified,   \* job -> statuses its webhook or email was sent with
    faults      \* store errors, crashes and stop signals so far

vars == <<status, queue, worker, task, cancel, recorded, begun, notified,
          faults>>

Tasks == Workers \X Slots

Final == {"completed", "failed", "cancelled"}
Status == {"none", "queued", "processing"} \cup Final

\* Past its claim a task owns the job until it ends.
OwnerPCs == {"processing", "completing", "failing", "tellCompleted",
             "tellFailed"}
PCs == {"free", "claiming", "erroring"} \cup OwnerPCs

Task == [pc : PCs, job : Jobs \cup {None}]
FreeTask == [pc |-> "free", job |-> None]

(***************************************************************************)
(* The types of the variables.                                             *)
(***************************************************************************)
TypeOK ==
    /\ status \in [Jobs -> Status]
    /\ queue \in Seq(Jobs)
    /\ worker \in [Workers -> {"up", "draining", "down"}]
    /\ task \in [Tasks -> Task]
    /\ \A t \in Tasks : task[t].job = None <=> task[t].pc = "free"
    /\ cancel \in [Clients -> Jobs \cup {None}]
    /\ recorded \in [Jobs -> SUBSET Status]
    /\ begun \in SUBSET Jobs
    /\ notified \in [Jobs -> SUBSET Final]
    /\ faults \in Nat

Init ==
    /\ status = [j \in Jobs |-> "none"]
    /\ queue = <<>>
    /\ worker = [w \in Workers |-> "up"]
    /\ task = [t \in Tasks |-> FreeTask]
    /\ cancel = [c \in Clients |-> None]
    /\ recorded = [j \in Jobs |-> {}]
    /\ begun = {}
    /\ notified = [j \in Jobs |-> {}]
    /\ faults = 0

-----------------------------------------------------------------------------
(***************************************************************************)
(* The store: update_status sets the status of a job whatever it was.      *)
(***************************************************************************)
Store(j, s) ==
    /\ status' = [status EXCEPT ![j] = s]
    /\ recorded' = [recorded EXCEPT ![j] = @ \cup {s}]

Move(t, pc) == task' = [task EXCEPT ![t].pc = pc]

\* Slip: ended tasks are never taken out of active_tasks.
EndKeepingSlot(t) == task' = [task EXCEPT ![t].pc = "ended"]

End(t) == task' = [task EXCEPT ![t] = FreeTask]

\* A store error, a crash or a stop signal: finitely many of them.
Disturb == faults < MaxFaults /\ faults' = faults + 1

\* create_job.
CreateJob(j) ==
    /\ status[j] = "none"
    /\ Store(j, "queued")
    /\ queue' = Append(queue, j)
    /\ UNCHANGED <<worker, task, cancel, begun, notified, faults>>

\* cancel_batch_job: get_job and the status check, then the update.
CancelRead(c, j) ==
    /\ cancel[c] = None
    /\ status[j] \in {"queued", "processing"}
    /\ cancel' = [cancel EXCEPT ![c] = j]
    /\ UNCHANGED <<status, queue, worker, task, recorded, begun, notified,
                   faults>>

CancelWrite(c) ==
    /\ cancel[c] # None
    /\ Store(cancel[c], "cancelled")
    /\ cancel' = [cancel EXCEPT ![c] = None]
    /\ UNCHANGED <<queue, worker, task, begun, notified, faults>>

-----------------------------------------------------------------------------
(***************************************************************************)
(* The worker loop.  Finished tasks are discarded before capacity is       *)
(* counted, so a slot whose task has ended is free.                        *)
(***************************************************************************)
FreeSlots(w) == {k \in Slots : task[<<w, k>>].pc = "free"}

Pending == SelectSeq(queue, LAMBDA j : status[j] = "queued")

\* get_pending_jobs(limit = available slots), oldest first, one task per job.
Poll(w) ==
    /\ worker[w] = "up"
    /\ \E taken \in [FreeSlots(w) -> Jobs \cup {None}] :
         LET n     == IF Len(Pending) < Cardinality(FreeSlots(w))
                      THEN Len(Pending) ELSE Cardinality(FreeSlots(w))
             first == {Pending[i] : i \in 1 .. n}
             used  == {k \in FreeSlots(w) : taken[k] # None}
         IN  /\ first # {}
             /\ {taken[k] : k \in used} = first
             /\ Cardinality(used) = Cardinality(first)
             /\ task' = [t \in Tasks |->
                  IF t[1] = w /\ t[2] \in used
                  THEN [pc |-> "claiming", job |-> taken[t[2]]]
                  ELSE task[t]]
    /\ UNCHANGED <<status, queue, worker, cancel, recorded, begun, notified,
                   faults>>

\* SIGTERM: no more polls; the loop waits for its tasks, then exits.
Shutdown(w) ==
    /\ worker[w] = "up"
    /\ Disturb
    /\ worker' = [worker EXCEPT ![w] = "draining"]
    /\ UNCHANGED <<status, queue, task, cancel, recorded, begun, notified>>

Exit(w) ==
    /\ worker[w] = "draining"
    /\ FreeSlots(w) = Slots
    /\ worker' = [worker EXCEPT ![w] = "down"]
    /\ UNCHANGED <<status, queue, task, cancel, recorded, begun, notified,
                   faults>>

Restart(w) ==
    /\ worker[w] = "down"
    /\ worker' = [worker EXCEPT ![w] = "up"]
    /\ UNCHANGED <<status, queue, task, cancel, recorded, begun, notified,
                   faults>>

\* The process dies; its jobs keep whatever status they had.
Crash(w) ==
    /\ worker[w] # "down"
    /\ Disturb
    /\ worker' = [worker EXCEPT ![w] = "down"]
    /\ task' = [t \in Tasks |-> IF t[1] = w THEN FreeTask ELSE task[t]]
    /\ UNCHANGED <<status, queue, cancel, recorded, begun, notified>>

-----------------------------------------------------------------------------
(***************************************************************************)
(* process_job_async.                                                      *)
(***************************************************************************)

\* Slip: the claim does not look at the status it replaces.
ClaimUnchecked(t) ==
    /\ task[t].pc = "claiming"
    /\ Store(task[t].job, "processing")
    /\ begun' = begun \cup {task[t].job}
    /\ Move(t, "processing")
    /\ UNCHANGED <<queue, worker, cancel, notified, faults>>

\* claim_job: one find_one_and_update that only matches a queued job.
Claim(t) ==
    /\ task[t].pc = "claiming"
    /\ \/ /\ status[task[t].job] = "queued"
          /\ Store(task[t].job, "processing")
          /\ begun' = begun \cup {task[t].job}
          /\ Move(t, "processing")
       \/ /\ status[task[t].job] # "queued"
          /\ End(t)
          /\ UNCHANGED <<status, recorded, begun>>
    /\ UNCHANGED <<queue, worker, cancel, notified, faults>>

\* The claim raises, its effect applied or not: the except branch follows.
ClaimRaises(t) ==
    /\ task[t].pc = "claiming"
    /\ Disturb
    /\ \/ /\ status[task[t].job] = "queued"
          /\ Store(task[t].job, "processing")
       \/ UNCHANGED <<status, recorded>>
    /\ Move(t, "erroring")
    /\ UNCHANGED <<queue, worker, cancel, begun, notified>>

\* process_batch_job turns every exception into an unsuccessful result.
Process(t) ==
    /\ task[t].pc = "processing"
    /\ \E result \in {"completing", "failing"} : Move(t, result)
    /\ UNCHANGED <<status, queue, worker, cancel, recorded, begun, notified,
                   faults>>

\* Slip: the subscribers are told before the status is stored.
RecordResultAfterTelling(t) ==
    /\ \/ task[t].pc = "completing" /\ Move(t, "tellCompleted")
       \/ task[t].pc = "failing" /\ Move(t, "tellFailed")
    /\ UNCHANGED <<status, recorded>>
    /\ UNCHANGED <<queue, worker, cancel, begun, notified, faults>>

\* Slip: complete_job stores the word of ScheduleRunStatus.
RecordScheduleRunStatus(t) ==
    /\ \/ /\ task[t].pc = "completing"
          /\ Store(task[t].job, "success")
          /\ Move(t, "tellCompleted")
       \/ /\ task[t].pc = "failing"
          /\ Store(task[t].job, "failed")
          /\ Move(t, "tellFailed")
    /\ UNCHANGED <<queue, worker, cancel, begun, notified, faults>>

\* complete_job / fail_job, whatever the status has become meanwhile.
RecordResult(t) ==
    /\ \/ /\ task[t].pc = "completing"
          /\ Store(task[t].job, "completed")
          /\ Move(t, "tellCompleted")
       \/ /\ task[t].pc = "failing"
          /\ Store(task[t].job, "failed")
          /\ Move(t, "tellFailed")
    /\ UNCHANGED <<queue, worker, cancel, begun, notified, faults>>

RecordRaises(t) ==
    /\ task[t].pc \in {"completing", "failing"}
    /\ Disturb
    /\ \/ Store(task[t].job, IF task[t].pc = "completing" THEN "completed"
                             ELSE "failed")
       \/ UNCHANGED <<status, recorded>>
    /\ Move(t, "erroring")
    /\ UNCHANGED <<queue, worker, cancel, begun, notified>>

\* send_webhook_notification and send_email_notification never raise.
Notify(t) ==
    /\ task[t].pc \in {"tellCompleted", "tellFailed"}
    /\ notified' = [notified EXCEPT ![task[t].job] = @ \cup
                      {IF task[t].pc = "tellCompleted" THEN "completed"
                       ELSE "failed"}]
    /\ End(t)
    /\ UNCHANGED <<status, queue, worker, cancel, recorded, begun, faults>>

\* The except branch: fail_job, whose own failure is only logged.
HandleError(t) ==
    /\ task[t].pc = "erroring"
    /\ \/ /\ Store(task[t].job, "failed")
          /\ UNCHANGED faults
       \/ /\ Disturb
          /\ UNCHANGED <<status, recorded>>
    /\ End(t)
    /\ UNCHANGED <<queue, worker, cancel, begun, notified>>

TaskStep(t) ==
    \/ Claim(t) \/ Process(t) \/ RecordResult(t) \/ Notify(t)
    \/ HandleError(t)

WorkerStep(w) == Poll(w) \/ Exit(w) \/ Restart(w)

-----------------------------------------------------------------------------
Next ==
    \/ \E j \in Jobs : CreateJob(j) \/ \E c \in Clients : CancelRead(c, j)
    \/ \E c \in Clients : CancelWrite(c)
    \/ \E w \in Workers : WorkerStep(w) \/ Shutdown(w) \/ Crash(w)
    \/ \E t \in Tasks : TaskStep(t) \/ ClaimRaises(t) \/ RecordRaises(t)

(***************************************************************************)
(* Fairness: the event loop of a worker runs what is ready and the process *)
(* supervisor restarts a worker that is down.  Nobody has to create or     *)
(* cancel jobs or to stop a worker.                                        *)
(***************************************************************************)
Fairness ==
    /\ \A w \in Workers : WF_vars(WorkerStep(w))
    /\ \A t \in Tasks : WF_vars(TaskStep(t))
    /\ \A c \in Clients : WF_vars(CancelWrite(c))

Spec == Init /\ [][Next]_vars /\ Fairness

-----------------------------------------------------------------------------
(***************************************************************************)
(* Properties.                                                             *)
(***************************************************************************)
Owns(t, j) == task[t].job = j /\ task[t].pc \in OwnerPCs

(***************************************************************************)
(* claim_job is documented as the step that prevents duplicate processing: *)
(* however many workers poll the same job, and poll it again before it is  *)
(* claimed, one task at most is past its claim.                            *)
(***************************************************************************)
SoleOwner ==
    \A j \in Jobs : \A t, u \in Tasks : Owns(t, j) /\ Owns(u, j) => t = u

(***************************************************************************)
(* A job that is still queued has never been worked on: no error path,     *)
(* crash or late write puts a job back for a second run.                   *)
(***************************************************************************)
QueuedIsUntouched ==
    \A j \in Jobs : status[j] \in {"none", "queued"}
        => /\ j \notin begun
           /\ notified[j] = {}
           /\ \A t \in Tasks : ~Owns(t, j)

(***************************************************************************)
(* The webhook reports a status the document has held: process_job_async   *)
(* stores before it tells, and tells once.                                 *)
(***************************************************************************)
ToldWhatWasRecorded ==
    \A j \in Jobs : /\ notified[j] \subseteq recorded[j]
                    /\ Cardinality(notified[j]) <= 1

Orphaned(j) == status[j] = "processing" /\ \A t \in Tasks : task[t].job # j

(***************************************************************************)
(* A queued job reaches a final status, or a crash or a failing fail_job   *)
(* leaves it in "processing" with no task, where nothing picks it up.      *)
(***************************************************************************)
QueuedIsSettled ==
    \A j \in Jobs : status[j] = "queued" ~> status[j] \in Final \/ Orphaned(j)

(***************************************************************************)
(* The queue implements SoleProcessing: each job's workflow is begun at    *)
(* most once, by one task, and its subscribers are told at most once, by   *)
(* that task.                                                              *)
(***************************************************************************)
Promise == INSTANCE SoleProcessing WITH
    working <- [j \in Jobs |-> {t \in Tasks : Owns(t, j)}],
    told    <- {j \in Jobs : notified[j] # {}}

ImplementsSoleProcessing == Promise!Spec

(***************************************************************************)
(* The endpoint's comment: only queued and processing jobs can be          *)
(* cancelled, completed or failed ones cannot; the lifecycle lists         *)
(* completed, failed and cancelled as the ends of a job.  So a final       *)
(* status is never replaced.                                               *)
(***************************************************************************)
FinalStatusIsFinal ==
    [][\A j \in Jobs : status[j] \in Final => status'[j] = status[j]]_status
=============================================================================
