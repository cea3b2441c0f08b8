------------------------- MODULE NewsletterScheduler -------------------------
(***************************************************************************)
(* The newsletter scheduler: the scheduled_newsletters collection, the     *)
(* change stream that announces its writes, the watcher task that mirrors  *)
(* them into one APScheduler date job per enabled schedule, the manual     *)
(* trigger that rebuilds the same job set, and the callback that runs a    *)
(* schedule and writes its next date back.                                 *)
(*                                                                         *)
(* Time is counted in slots of an hour or more, Day of them in a day, so   *)
(* that every store round trip, event delivery and reconnect delay of a    *)
(* healthy process fits in one slot.                                       *)
(***************************************************************************)
EXTENDS Integers, Sequences

CONSTANTS
    Schedules,      \* ids the store may hand out; an id is never used twice
    ClockTimes,     \* well-formed run_time values, as slots within a day
    BadTime,        \* a run_time that does not parse as HH:MM
    CreateTimes,    \* the run_time values create_schedule is called with
    DefaultTime,    \* the slot of 08:00, _calculate_next_run's fallback
    Intervals,      \* interval_days values
    Day,            \* slots per day
    Grace,          \* misfire_grace_time in whole slots
    None,           \* absent document, job or field
    FaultKinds,     \* subset of {"stream", "store", "crash"}
    MaxTime, MaxEdits, MaxTriggers, MaxFaults, MaxPending   \* model bounds

ASSUME SchedulerConstants ==
    /\ Day \in Nat \ {0}
    /\ ClockTimes \subseteq 0 .. Day - 1
    /\ CreateTimes \subseteq ClockTimes \cup {BadTime}
    /\ DefaultTime \in 0 .. Day - 1
    /\ Intervals \subseteq Nat \ {0}
    /\ Grace \in Nat
    /\ BadTime \notin Nat
    /\ None \notin Nat \cup BOOLEAN \cup {BadTime}
    /\ FaultKinds \subseteq {"stream", "store", "crash"}
    /\ {MaxTime, MaxEdits, MaxTriggers, MaxFaults, MaxPending} \subseteq Nat

VARIABLES
    now,        \* current slot
    doc,        \* the collection: id -> document or None
    used,       \* ids handed out so far
    up,         \* the API process (scheduler and request handlers) is running
    watcher,    \* where the watcher task is
    recon,      \* the two reconciles: the watcher's and the manual trigger's
    snap,       \* what each reconcile's list_all returned
    stream,     \* change events the server holds for the open stream
    batch,      \* events already looked up and buffered by the driver
    jobs,       \* APScheduler: id -> run_date or None
    exec,       \* the running instance of each job's callback
    mark,       \* the next_run a mark_complete in flight has computed
    edit,       \* the read half of an update / toggle / mark_complete request
    drift,      \* ghost: a manual trigger has rebuilt the jobs since the watcher did
    failed,     \* ghost: schedules a failing store call has taken the date of in
                \* this slot, and that no job has been registered for since
    budget      \* edits, triggers and faults used so far (model bounds)

vars == <<now, doc, used, up, watcher, recon, snap, stream, batch,
          jobs, exec, mark, edit, drift, failed, budget>>

Reconcilers == {"watcher", "trigger"}

Doc == [enabled : BOOLEAN, next_run : Nat,
        run_time : ClockTimes \cup {BadTime}, interval : Intervals]

ASSUME NoneIsNoDocument == None \notin Doc

Event == [op : {"insert", "update", "delete"}, id : Schedules,
          doc : Doc \cup {None}]

\* The $set of a request: None where the request leaves a field alone.
Edit == [id : Schedules, enabled : BOOLEAN \cup {None},
         next_run : Nat \cup {None}, run_time : ClockTimes \cup {None},
         interval : Intervals \cup {None}]

(***************************************************************************)
(* The types of the variables: the one shallow invariant of this module.   *)
(***************************************************************************)
TypeOK ==
    /\ now \in Nat
    /\ doc \in [Schedules -> Doc \cup {None}]
    /\ used \in SUBSET Schedules
    /\ up \in BOOLEAN
    /\ watcher \in {"stopped", "opening", "opened", "reconciling",
                    "streaming", "waiting"}
    /\ recon \in [Reconcilers -> {"idle", "listing", "listed"}]
    /\ snap \in [Reconcilers -> [Schedules -> Doc \cup {None}]]
    /\ stream \in Seq(Event)
    /\ batch \in Seq(Event)
    /\ jobs \in [Schedules -> Nat \cup {None}]
    /\ exec \in [Schedules -> {"idle", "loading", "running", "marking",
                               "remarking", "writing", "rewriting"}]
    /\ mark \in [Schedules -> Nat]
    /\ edit \in Edit \cup {None}
    /\ drift \in BOOLEAN
    /\ failed \subseteq Schedules
    /\ budget \in [edits : Nat, triggers : Nat, faults : Nat]

NoDocs == [s \in Schedules |-> None]
NoJobs == [s \in Schedules |-> None]

Init ==
    /\ now = 0
    /\ doc = NoDocs
    /\ used = {}
    /\ up = FALSE
    /\ watcher = "stopped"
    /\ recon = [a \in Reconcilers |-> "idle"]
    /\ snap = [a \in Reconcilers |-> NoDocs]
    /\ stream = <<>>
    /\ batch = <<>>
    /\ jobs = NoJobs
    /\ exec = [s \in Schedules |-> "idle"]
    /\ mark = [s \in Schedules |-> 0]
    /\ edit = None
    /\ drift = FALSE
    /\ failed = {}
    /\ budget = [edits |-> 0, triggers |-> 0, faults |-> 0]

-----------------------------------------------------------------------------
(***************************************************************************)
(* Dates.                                                                  *)
(***************************************************************************)
DayStart(t) == t - (t % Day)

\* _calculate_next_run: the next occurrence of run_time strictly after t.
\* The interval does not enter into it.
CalculateNextRun(run_time, t) ==
    LET slot  == IF run_time = BadTime THEN DefaultTime ELSE run_time
        today == DayStart(t) + slot
    IN  IF today <= t THEN today + Day ELSE today

\* Slip: the interval is not added.
CompletedToday(d, t) == DayStart(t) + d.run_time

\* mark_complete: today at run_time, advanced by the interval.
CompletedNextRun(d, t) == DayStart(t) + d.run_time + d.interval * Day

Enabled(d) == d # None /\ d.enabled

-----------------------------------------------------------------------------
(***************************************************************************)
(* The store.  A write is announced to the stream if one is open; an       *)
(* update event gets its document only when the server delivers it.        *)
(***************************************************************************)
StreamOpen == watcher \in {"opened", "reconciling", "streaming"}

Announce(op, s, d) ==
    /\ StreamOpen => Len(stream) + Len(batch) < MaxPending
    /\ stream' = IF StreamOpen
                 THEN Append(stream, [op |-> op, id |-> s, doc |-> d])
                 ELSE stream

Spend(kind) ==
    /\ kind \in FaultKinds
    /\ budget.faults < MaxFaults
    /\ budget' = [budget EXCEPT !.faults = @ + 1]

SpendEdit ==
    /\ budget.edits < MaxEdits
    /\ budget' = [budget EXCEPT !.edits = @ + 1]

CreateSchedule(s) ==
    /\ up
    /\ s \notin used
    /\ \E run_time \in CreateTimes, interval \in Intervals :
         LET d == [enabled |-> TRUE, run_time |-> run_time,
                   interval |-> interval,
                   next_run |-> CalculateNextRun(run_time, now)]
         IN  /\ doc' = [doc EXCEPT ![s] = d]
             /\ Announce("insert", s, d)
    /\ used' = used \cup {s}
    /\ UNCHANGED <<now, up, watcher, recon, snap, batch, jobs, exec, mark,
                   edit, budget, drift, failed>>

DeleteSchedule(s) ==
    /\ up
    /\ doc[s] # None
    /\ SpendEdit
    /\ doc' = [doc EXCEPT ![s] = None]
    /\ Announce("delete", s, None)
    /\ UNCHANGED <<now, used, up, watcher, recon, snap, batch, jobs, exec,
                   mark, edit, drift, failed>>

BlankEdit(s) == [id |-> s, enabled |-> None, next_run |-> None,
                 run_time |-> None, interval |-> None]

\* update: find_one, then the $set it will write.  next_run is recomputed
\* only when run_time or interval_days is part of the request.
UpdateRead(s) ==
    /\ up /\ edit = None /\ doc[s] # None
    /\ SpendEdit
    /\ \E e \in {[BlankEdit(s) EXCEPT !.enabled = b] : b \in BOOLEAN}
              \cup {[BlankEdit(s) EXCEPT !.run_time = r,
                        !.next_run = CalculateNextRun(r, now)]
                    : r \in ClockTimes}
              \cup {[BlankEdit(s) EXCEPT !.interval = i,
                        !.next_run = CalculateNextRun(doc[s].run_time, now)]
                    : i \in Intervals} :
         edit' = e
    /\ UNCHANGED <<now, doc, used, up, watcher, recon, snap, stream, batch,
                   jobs, exec, mark, drift, failed>>

\* toggle: only enabling recomputes next_run.
ToggleRead(s) ==
    /\ up /\ edit = None /\ doc[s] # None
    /\ SpendEdit
    /\ edit' = [BlankEdit(s) EXCEPT
                  !.enabled = ~doc[s].enabled,
                  !.next_run = IF doc[s].enabled THEN None
                               ELSE CalculateNextRun(doc[s].run_time, now)]
    /\ UNCHANGED <<now, doc, used, up, watcher, recon, snap, stream, batch,
                   jobs, exec, mark, drift, failed>>

\* POST /{id}/mark_complete: the polling client reports a run of its own.
\* An unparsable run_time makes mark_complete raise before it writes.
ExternalMarkRead(s) ==
    /\ up /\ edit = None /\ doc[s] # None
    /\ doc[s].run_time # BadTime
    /\ SpendEdit
    /\ edit' = [BlankEdit(s) EXCEPT !.next_run = CompletedNextRun(doc[s], now)]
    /\ UNCHANGED <<now, doc, used, up, watcher, recon, snap, stream, batch,
                   jobs, exec, mark, drift, failed>>

\* Slip: a field the request leaves out is written as null.
ProvidedOrNull(new, old) == new

\* exclude_unset: a field the request leaves out keeps its value.
Provided(new, old) == IF new = None THEN old ELSE new

Merge(d, e) ==
    [enabled  |-> Provided(e.enabled, d.enabled),
     next_run |-> Provided(e.next_run, d.next_run),
     run_time |-> Provided(e.run_time, d.run_time),
     interval |-> Provided(e.interval, d.interval)]

\* update_one matches nothing, and announces nothing, once the id is deleted.
EditWrite ==
    /\ up /\ edit # None
    /\ LET s == edit.id IN
         \/ /\ doc[s] # None
            /\ doc' = [doc EXCEPT ![s] = Merge(@, edit)]
            /\ Announce("update", s, None)
         \/ /\ doc[s] = None
            /\ UNCHANGED <<doc, stream>>
    /\ edit' = None
    /\ UNCHANGED <<now, used, up, watcher, recon, snap, batch, jobs, exec,
                   mark, budget, drift, failed>>

-----------------------------------------------------------------------------
(***************************************************************************)
(* The job set.                                                            *)
(***************************************************************************)

\* Slip: a disabled document is skipped, as a reconcile may skip it.
RegisterEnabledOnly(j, s, d) ==
    [j EXCEPT ![s] = IF d.enabled THEN d.next_run ELSE j[s]]

\* _register_schedule_job: replace the job, or drop it for a disabled document.
Register(j, s, d) == [j EXCEPT ![s] = IF d.enabled THEN d.next_run ELSE None]

\* _reconcile_jobs_from_db drops every job, awaits list_all, registers what
\* the list held.  A disabled document is skipped, not removed.
ReconcileStart(a) ==
    /\ up
    /\ recon[a] = "idle"
    /\ IF a = "watcher"
       THEN /\ watcher = "opened"
            /\ watcher' = "reconciling"
            /\ drift' = (drift /\ recon["trigger"] # "idle")
            /\ UNCHANGED budget
       ELSE /\ budget.triggers < MaxTriggers
            /\ budget' = [budget EXCEPT !.triggers = @ + 1]
            /\ drift' = TRUE
            /\ UNCHANGED watcher
    /\ jobs' = NoJobs
    /\ recon' = [recon EXCEPT ![a] = "listing"]
    /\ UNCHANGED <<now, doc, used, up, snap, stream, batch, exec, mark, edit,
                   failed>>

ReconcileRead(a) ==
    /\ recon[a] = "listing"
    /\ snap' = [snap EXCEPT ![a] = doc]
    /\ recon' = [recon EXCEPT ![a] = "listed"]
    /\ UNCHANGED <<now, doc, used, up, watcher, stream, batch, jobs, exec,
                   mark, edit, budget, drift, failed>>

ReconcileRegister(a) ==
    /\ recon[a] = "listed"
    /\ jobs' = [s \in Schedules |-> IF Enabled(snap[a][s])
                                    THEN snap[a][s].next_run ELSE jobs[s]]
    /\ recon' = [recon EXCEPT ![a] = "idle"]
    /\ snap' = [snap EXCEPT ![a] = NoDocs]
    /\ watcher' = IF a = "watcher" THEN "streaming" ELSE watcher
    /\ failed' = {s \in failed : ~Enabled(snap[a][s])}
    /\ UNCHANGED <<now, doc, used, up, stream, batch, exec, mark, edit, budget,
                   drift>>

\* list_all raises inside POST /trigger: the dropped jobs stay dropped.
TriggerFail ==
    /\ recon["trigger"] = "listing"
    /\ Spend("store")
    /\ recon' = [recon EXCEPT !["trigger"] = "idle"]
    /\ failed' = failed \cup {s \in Schedules : jobs[s] = None}
    /\ UNCHANGED <<now, doc, used, up, watcher, snap, stream, batch, jobs,
                   exec, mark, edit, drift>>

-----------------------------------------------------------------------------
(***************************************************************************)
(* The watcher task.                                                       *)
(***************************************************************************)
OpenStream ==
    /\ watcher = "opening"
    /\ watcher' = "opened"
    /\ UNCHANGED <<now, doc, used, up, recon, snap, stream, batch, jobs, exec,
                   mark, edit, budget, drift, failed>>

\* The server looks the document up and hands the event over; the driver may
\* buffer several before the task applies them.  An insert carries the
\* document as inserted.
Deliver ==
    /\ StreamOpen
    /\ stream # <<>>
    /\ batch' = Append(batch,
                  IF Head(stream).op = "update"
                  THEN [Head(stream) EXCEPT !.doc = doc[Head(stream).id]]
                  ELSE Head(stream))
    /\ stream' = Tail(stream)
    /\ UNCHANGED <<now, doc, used, up, watcher, recon, snap, jobs, exec, mark,
                   edit, budget, drift, failed>>

\* _apply_change.
ApplyChange ==
    /\ watcher = "streaming"
    /\ batch # <<>>
    /\ LET e == Head(batch) IN
         \/ /\ e.op = "delete"
            /\ jobs' = [jobs EXCEPT ![e.id] = None]
         \/ /\ e.op # "delete" /\ e.doc = None
            /\ UNCHANGED jobs
         \/ /\ e.op # "delete" /\ e.doc # None
            /\ jobs' = Register(jobs, e.id, e.doc)
    /\ batch' = Tail(batch)
    /\ failed' = {s \in failed : jobs'[s] = jobs[s]}
    /\ UNCHANGED <<now, doc, used, up, watcher, recon, snap, stream, exec,
                   mark, edit, budget, drift>>

\* The stream, or the list_all of its reconcile, raises: what was pending is
\* gone with the stream and the task waits before it starts over.
StreamFail ==
    /\ watcher \in {"opening", "opened", "reconciling", "streaming"}
    /\ recon["watcher"] # "listed"
    /\ Spend("stream")
    /\ watcher' = "waiting"
    /\ recon' = [recon EXCEPT !["watcher"] = "idle"]
    /\ stream' = <<>>
    /\ batch' = <<>>
    /\ UNCHANGED <<now, doc, used, up, snap, jobs, exec, mark, edit, drift, failed>>

Reconnect ==
    /\ watcher = "waiting"
    /\ watcher' = "opening"
    /\ UNCHANGED <<now, doc, used, up, recon, snap, stream, batch, jobs, exec,
                   mark, edit, budget, drift, failed>>

-----------------------------------------------------------------------------
(***************************************************************************)
(* Firing.  APScheduler drops a date job as it fires; the instance limit   *)
(* of one and the misfire grace decide whether the callback starts.        *)
(***************************************************************************)
Due(s) == jobs[s] # None /\ jobs[s] <= now

Fire(s) ==
    /\ up /\ Due(s)
    /\ jobs' = [jobs EXCEPT ![s] = None]
    /\ \/ /\ exec[s] = "idle" /\ now - jobs[s] <= Grace
          /\ exec' = [exec EXCEPT ![s] = "loading"]
       \/ /\ exec[s] = "idle" /\ now - jobs[s] > Grace
          /\ UNCHANGED exec
       \/ /\ exec[s] # "idle"
          /\ UNCHANGED exec
    /\ UNCHANGED <<now, doc, used, up, watcher, recon, snap, stream, batch,
                   mark, edit, budget, drift, failed>>

\* _execute_schedule_by_id loads the document fresh; a deleted or disabled
\* schedule ends the callback.
Load(s) ==
    /\ exec[s] = "loading"
    /\ exec' = [exec EXCEPT ![s] = IF Enabled(doc[s]) THEN "running" ELSE "idle"]
    /\ UNCHANGED <<now, doc, used, up, watcher, recon, snap, stream, batch,
                   jobs, mark, edit, budget, drift, failed>>

\* get_by_id is outside the try: its failure ends the callback.
LoadFail(s) ==
    /\ exec[s] = "loading"
    /\ Spend("store")
    /\ exec' = [exec EXCEPT ![s] = "idle"]
    /\ failed' = failed \cup {s}
    /\ UNCHANGED <<now, doc, used, up, watcher, recon, snap, stream, batch,
                   jobs, mark, edit, drift>>

\* Slip: only a run that succeeds is marked.
RunEndsUnmarkedOnError(s) ==
    /\ exec[s] = "running"
    /\ \E next \in {"marking", "idle"} :
         exec' = [exec EXCEPT ![s] = next]
    /\ UNCHANGED <<now, doc, used, up, watcher, recon, snap, stream, batch,
                   jobs, mark, edit, budget, drift, failed>>

\* run_scheduled_newsletter returns ("marking") or raises ("remarking": the
\* except branch's mark_complete).
RunEnds(s) ==
    /\ exec[s] = "running"
    /\ \E next \in {"marking", "remarking"} :
         exec' = [exec EXCEPT ![s] = next]
    /\ UNCHANGED <<now, doc, used, up, watcher, recon, snap, stream, batch,
                   jobs, mark, edit, budget, drift, failed>>

\* mark_complete's find_one.  A deleted schedule needs no mark.
MarkRead(s) ==
    /\ exec[s] \in {"marking", "remarking"}
    /\ \/ /\ doc[s] = None
          /\ exec' = [exec EXCEPT ![s] = "idle"]
          /\ UNCHANGED mark
       \/ /\ doc[s] # None
          /\ doc[s].run_time # BadTime
          /\ exec' = [exec EXCEPT ![s] = IF @ = "marking" THEN "writing"
                                         ELSE "rewriting"]
          /\ mark' = [mark EXCEPT ![s] = CompletedNextRun(doc[s], now)]
    /\ UNCHANGED <<now, doc, used, up, watcher, recon, snap, stream, batch,
                   jobs, edit, budget, drift, failed>>

\* mark_complete's update_one.
MarkWrite(s) ==
    /\ exec[s] \in {"writing", "rewriting"}
    /\ \/ /\ doc[s] # None
          /\ doc' = [doc EXCEPT ![s].next_run = mark[s]]
          /\ Announce("update", s, None)
       \/ /\ doc[s] = None
          /\ UNCHANGED <<doc, stream>>
    /\ exec' = [exec EXCEPT ![s] = "idle"]
    /\ mark' = [mark EXCEPT ![s] = 0]
    /\ UNCHANGED <<now, used, up, watcher, recon, snap, batch, jobs, edit,
                   budget, drift, failed>>

\* A raising mark_complete: the success mark is retried as a failure mark by
\* the except branch, whose own failure ends the callback.
AfterMarkRaised(s) ==
    /\ exec' = [exec EXCEPT ![s] = IF @ \in {"marking", "writing"}
                                   THEN "remarking" ELSE "idle"]
    /\ mark' = [mark EXCEPT ![s] = 0]
    /\ UNCHANGED <<now, doc, used, up, watcher, recon, snap, stream, batch,
                   jobs, edit, drift>>

MarkUnparsable(s) ==
    /\ exec[s] \in {"marking", "remarking"}
    /\ doc[s] # None /\ doc[s].run_time = BadTime
    /\ UNCHANGED <<budget, failed>>
    /\ AfterMarkRaised(s)

MarkFail(s) ==
    /\ exec[s] \in {"marking", "remarking", "writing", "rewriting"}
    /\ Spend("store")
    /\ failed' = IF exec[s] \in {"remarking", "rewriting"}
                 THEN failed \cup {s} ELSE failed
    /\ AfterMarkRaised(s)

-----------------------------------------------------------------------------
(***************************************************************************)
(* The process and the clock.                                              *)
(***************************************************************************)

\* start_scheduler.
Start ==
    /\ ~up
    /\ up' = TRUE
    /\ watcher' = "opening"
    /\ UNCHANGED <<now, doc, used, recon, snap, stream, batch, jobs, exec,
                   mark, edit, budget, drift, failed>>

\* stop_scheduler or a crash: the job set and everything in flight is memory.
Crash ==
    /\ up
    /\ Spend("crash")
    /\ up' = FALSE
    /\ watcher' = "stopped"
    /\ recon' = [a \in Reconcilers |-> "idle"]
    /\ snap' = [a \in Reconcilers |-> NoDocs]
    /\ stream' = <<>>
    /\ batch' = <<>>
    /\ jobs' = NoJobs
    /\ exec' = [s \in Schedules |-> "idle"]
    /\ mark' = [s \in Schedules |-> 0]
    /\ edit' = None
    /\ drift' = FALSE
    /\ failed' = {}
    /\ UNCHANGED <<now, doc, used>>

\* Nothing short is under way: no store round trip, no undelivered event, no
\* job past its date.  A run, an outage of the store or of the process may
\* last for slots.
Settled ==
    up => /\ \A s \in Schedules : ~Due(s) /\ exec[s] \in {"idle", "running"}
          /\ \A a \in Reconcilers : recon[a] = "idle"
          /\ watcher \in {"waiting", "streaming"}
          /\ stream = <<>> /\ batch = <<>>
          /\ edit = None

Tick ==
    /\ now < MaxTime
    /\ Settled
    /\ now' = now + 1
    /\ failed' = {}
    /\ UNCHANGED <<doc, used, up, watcher, recon, snap, stream, batch, jobs,
                   exec, mark, edit, budget, drift>>

-----------------------------------------------------------------------------
WatcherStep == OpenStream \/ Deliver \/ ApplyChange \/ Reconnect

ReconcileStep(a) == ReconcileRead(a) \/ ReconcileRegister(a)

ExecStep(s) ==
    \/ Load(s) \/ RunEnds(s) \/ MarkRead(s) \/ MarkWrite(s)
    \/ MarkUnparsable(s)

Request(s) ==
    \/ CreateSchedule(s) \/ DeleteSchedule(s) \/ UpdateRead(s)
    \/ ToggleRead(s) \/ ExternalMarkRead(s)

Next ==
    \/ \E s \in Schedules : \/ Request(s) \/ Fire(s) \/ ExecStep(s)
                            \/ LoadFail(s) \/ MarkFail(s)
    \/ EditWrite
    \/ \E a \in Reconcilers : ReconcileStart(a) \/ ReconcileStep(a)
    \/ TriggerFail
    \/ WatcherStep \/ StreamFail
    \/ Start \/ Crash \/ Tick

(***************************************************************************)
(* Fairness: the event loop runs what is ready, the watcher loops for ever *)
(* and the supervisor restarts the process.  Requests, triggers, faults    *)
(* and the passing of time are never forced.                               *)
(***************************************************************************)
Fairness ==
    /\ WF_vars(Start)
    /\ WF_vars(WatcherStep)
    /\ WF_vars(ReconcileStart("watcher"))
    /\ \A a \in Reconcilers : WF_vars(ReconcileStep(a))
    /\ WF_vars(EditWrite)
    /\ \A s \in Schedules : WF_vars(Fire(s)) /\ WF_vars(ExecStep(s))

Spec == Init /\ [][Next]_vars /\ Fairness

-----------------------------------------------------------------------------
(***************************************************************************)
(* Properties.                                                             *)
(***************************************************************************)

CaughtUp == /\ watcher = "streaming"
            /\ stream = <<>> /\ batch = <<>>
            /\ recon["trigger"] = "idle"

JobMirrors(s) ==
    /\ jobs[s] # None => Enabled(doc[s]) /\ jobs[s] = doc[s].next_run
    /\ Enabled(doc[s]) /\ doc[s].next_run > now => jobs[s] = doc[s].next_run

(***************************************************************************)
(* The module comment of newsletter_scheduler.py promises a job set kept   *)
(* in sync with the collection.  Once the watcher has nothing left to      *)
(* apply: every job is that of an enabled schedule, at the date the        *)
(* document holds, and every enabled schedule whose date is still to come  *)
(* has its job.  Lost events, reconnects, restarts, overlapping requests   *)
(* and the write of a finishing run must not leave it otherwise; nor may a *)
(* manual trigger once the watcher has rebuilt the jobs after it.          *)
(***************************************************************************)
JobsMirrorDocs == CaughtUp /\ ~drift => \A s \in Schedules : JobMirrors(s)

(***************************************************************************)
(* The promise as the module comment states it, with no exception for a    *)
(* manual trigger.                                                         *)
(***************************************************************************)
JobSetInSync == CaughtUp => \A s \in Schedules : JobMirrors(s)

(***************************************************************************)
(* A date that mark_complete has written is in the future when it is       *)
(* written, whatever the time the run took and however late it started:    *)
(* otherwise the change stream would re-register it and the schedule would *)
(* run again at once.                                                      *)
(***************************************************************************)
MarkedDateIsFuture ==
    [][\A s \in Schedules :
         (exec'[s] # exec[s] /\ doc'[s] # doc[s]) => doc'[s].next_run > now]_vars

Overdue(s) == Enabled(doc[s]) /\ doc[s].next_run <= now

(***************************************************************************)
(* A schedule that comes due while the process is up and its watcher has   *)
(* caught up gets a new date: it runs and is marked, succeeds or not.  The *)
(* only things that may hold it back are the owner (disabled, deleted), a  *)
(* crash, a run_time mark_complete cannot parse, a watcher whose reconcile *)
(* failed between dropping the jobs and listing the documents, and a store *)
(* call that raises at one of three places: get_by_id before the run, the  *)
(* last mark_complete after it (the mark of a failed run, or both marks of *)
(* a finished one), and list_all in a manual trigger that has dropped the  *)
(* jobs.  A run that raises does not hold it back, nor does the first mark *)
(* of a finished run.                                                      *)
(***************************************************************************)
DueRunsAndAdvances ==
    \A s \in Schedules :
      (up /\ CaughtUp /\ Overdue(s) /\ doc[s].next_run = now
          /\ jobs[s] = now /\ doc[s].run_time # BadTime)
        ~> (\/ ~Overdue(s) \/ ~up \/ s \in failed
            \/ watcher = "waiting" /\ jobs[s] = None)

(***************************************************************************)
(* _register_schedule_job and check_and_run_schedules say that a schedule  *)
(* whose date has passed fires immediately on registration, the catch-up   *)
(* of a cold start.  So an overdue enabled schedule is one day overdue no  *)
(* more.                                                                   *)
(***************************************************************************)
OverdueCatchesUp == \A s \in Schedules : Overdue(s) ~> ~Overdue(s)
=============================================================================
