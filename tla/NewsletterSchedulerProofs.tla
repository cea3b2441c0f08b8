---------------------- MODULE NewsletterSchedulerProofs ----------------------
(***************************************************************************)
(* Theorems about NewsletterScheduler, for any set of schedules, any day   *)
(* length and grace and any bounds.                                        *)
(***************************************************************************)
EXTENDS NewsletterScheduler, SequenceTheorems, TLAPS

\* What the assumption on the constants says of each.
LEMMA ConstantTypes ==
    /\ Day \in Nat /\ Day > 0
    /\ DefaultTime \in Nat
    /\ \A r \in ClockTimes : r \in Nat
    /\ \A i \in Intervals : i \in Nat /\ i > 0
    /\ CreateTimes \subseteq ClockTimes \cup {BadTime}
<1>1. Day \in Nat /\ Day > 0
  BY SchedulerConstants
<1>2. DefaultTime \in Nat /\ \A r \in ClockTimes : r \in Nat
  BY <1>1, SchedulerConstants
<1>3. \A i \in Intervals : i \in Nat /\ i > 0
  BY SchedulerConstants
<1> QED
  BY <1>1, <1>2, <1>3, SchedulerConstants

(***************************************************************************)
(* The arithmetic of dates.                                                *)
(***************************************************************************)
LEMMA DayStartBounds ==
    ASSUME NEW t \in Nat
    PROVE  DayStart(t) \in Nat /\ DayStart(t) <= t /\ t < DayStart(t) + Day
<1>1. Day \in Nat /\ Day > 0
  BY ConstantTypes
<1>2. t % Day \in Nat /\ t % Day < Day /\ t % Day <= t
  BY <1>1
<1> QED
  BY <1>1, <1>2 DEF DayStart

\* _calculate_next_run returns a date, for a bad run_time too.
LEMMA CalculateNextRunType ==
    ASSUME NEW run_time \in ClockTimes \cup {BadTime}, NEW t \in Nat
    PROVE  CalculateNextRun(run_time, t) \in Nat
<1>1. (IF run_time = BadTime THEN DefaultTime ELSE run_time) \in Nat
  BY ConstantTypes
<1>2. DayStart(t) \in Nat /\ Day \in Nat
  BY DayStartBounds, ConstantTypes
<1> QED
  BY <1>1, <1>2 DEF CalculateNextRun

\* mark_complete's date is after the moment it is computed: its day begins at
\* most a day back and the interval is a day or more.
LEMMA CompletedNextRunIsFuture ==
    ASSUME NEW d \in Doc, d.run_time # BadTime, NEW t \in Nat
    PROVE  CompletedNextRun(d, t) \in Nat /\ CompletedNextRun(d, t) > t
<1>1. d.run_time \in ClockTimes /\ d.interval \in Intervals
  BY DEF Doc
<1>2. /\ d.run_time \in Nat
      /\ d.interval \in Nat /\ d.interval > 0
      /\ Day \in Nat /\ Day > 0
  BY <1>1, ConstantTypes
<1>3. d.interval * Day >= Day /\ d.interval * Day \in Nat
  BY <1>2
<1> QED
  BY <1>2, <1>3, DayStartBounds DEF CompletedNextRun

-----------------------------------------------------------------------------
(***************************************************************************)
(* The types of what the actions write.                                    *)
(***************************************************************************)
LEMMA AnnounceType ==
    ASSUME TypeOK, NEW op \in {"insert", "update", "delete"},
           NEW s \in Schedules, NEW d \in Doc \cup {None}, Announce(op, s, d)
    PROVE  stream' \in Seq(Event)
<1>1. [op |-> op, id |-> s, doc |-> d] \in Event
  BY DEF Event
<1>2. stream \in Seq(Event)
  BY DEF TypeOK
<1> QED
  BY <1>1, <1>2 DEF Announce

Budget == [edits : Nat, triggers : Nat, faults : Nat]

\* Spending a fault or an edit keeps the budget a record of numbers.
LEMMA SpendType ==
    ASSUME TypeOK, SpendEdit \/ \E kind : Spend(kind)
    PROVE  budget' \in Budget
<1>1. budget \in Budget
  BY DEF TypeOK, Budget
<1>2. /\ budget.edits + 1 \in Nat /\ budget.faults + 1 \in Nat
      /\ budget.edits \in Nat /\ budget.faults \in Nat /\ budget.triggers \in Nat
  BY <1>1 DEF Budget
<1>3. \/ budget' = [budget EXCEPT !.edits = budget.edits + 1]
      \/ budget' = [budget EXCEPT !.faults = budget.faults + 1]
  BY DEF SpendEdit, Spend
<1> QED
  BY <1>1, <1>2, <1>3 DEF Budget

\* Every request the actions build is a well-typed edit.
LEMMA BlankEditType ==
    ASSUME NEW s \in Schedules
    PROVE  /\ BlankEdit(s) \in Edit
           /\ \A b \in BOOLEAN \cup {None} :
                [BlankEdit(s) EXCEPT !.enabled = b] \in Edit
           /\ \A n \in Nat \cup {None} :
                [BlankEdit(s) EXCEPT !.next_run = n] \in Edit
           /\ \A b \in BOOLEAN \cup {None}, n \in Nat \cup {None} :
                [BlankEdit(s) EXCEPT !.enabled = b, !.next_run = n] \in Edit
           /\ \A r \in ClockTimes, n \in Nat :
                [BlankEdit(s) EXCEPT !.run_time = r, !.next_run = n] \in Edit
           /\ \A i \in Intervals, n \in Nat :
                [BlankEdit(s) EXCEPT !.interval = i, !.next_run = n] \in Edit
BY DEF BlankEdit, Edit

\* A stored document has well-typed fields.
LEMMA DocFields ==
    ASSUME TypeOK, NEW s \in Schedules, doc[s] # None
    PROVE  /\ doc[s] \in Doc
           /\ doc[s].enabled \in BOOLEAN /\ doc[s].next_run \in Nat
           /\ doc[s].run_time \in ClockTimes \cup {BadTime}
           /\ doc[s].interval \in Intervals
<1>1. doc[s] \in Doc
  BY DEF TypeOK
<1> QED
  BY <1>1 DEF Doc

\* A merge of an edit into a document is a document.
LEMMA MergeType ==
    ASSUME NEW d \in Doc, NEW e \in Edit
    PROVE  Merge(d, e) \in Doc
<1>1. Provided(e.enabled, d.enabled) \in BOOLEAN
  BY DEF Provided, Edit, Doc
<1>2. Provided(e.next_run, d.next_run) \in Nat
  BY DEF Provided, Edit, Doc
<1>3. Provided(e.run_time, d.run_time) \in ClockTimes \cup {BadTime}
  BY DEF Provided, Edit, Doc
<1>4. Provided(e.interval, d.interval) \in Intervals
  BY DEF Provided, Edit, Doc
<1> QED
  BY <1>1, <1>2, <1>3, <1>4 DEF Merge, Doc

\* A document with another date is a document.
LEMMA NewNextRunType ==
    ASSUME NEW d \in Doc, NEW n \in Nat
    PROVE  [d EXCEPT !.next_run = n] \in Doc
BY DEF Doc

\* The initial state is well typed.
LEMMA InitTypes ==
    ASSUME Init
    PROVE  TypeOK
<1>1. /\ snap \in [Reconcilers -> [Schedules -> Doc \cup {None}]]
      /\ doc \in [Schedules -> Doc \cup {None}]
      /\ jobs \in [Schedules -> Nat \cup {None}]
  BY DEF Init, NoDocs, NoJobs
<1>2. budget \in [edits : Nat, triggers : Nat, faults : Nat]
  BY DEF Init
<1>3. stream \in Seq(Event) /\ batch \in Seq(Event)
  BY DEF Init
<1>4. /\ recon \in [Reconcilers -> {"idle", "listing", "listed"}]
      /\ exec \in [Schedules -> {"idle", "loading", "running", "marking",
                                 "remarking", "writing", "rewriting"}]
      /\ mark \in [Schedules -> Nat]
  BY DEF Init
<1> QED
  BY <1>1, <1>2, <1>3, <1>4 DEF Init, TypeOK

\* Every action writes values of the right types.
LEMMA StepTypes ==
    ASSUME TypeOK, [Next]_vars
    PROVE  TypeOK'
<1>1. ASSUME NEW s \in Schedules, CreateSchedule(s) PROVE TypeOK'
  <2>1. PICK run_time \in CreateTimes, interval \in Intervals :
          /\ doc' = [doc EXCEPT ![s] =
                      [enabled |-> TRUE, run_time |-> run_time,
                       interval |-> interval,
                       next_run |-> CalculateNextRun(run_time, now)]]
          /\ Announce("insert", s,
                      [enabled |-> TRUE, run_time |-> run_time,
                       interval |-> interval,
                       next_run |-> CalculateNextRun(run_time, now)])
    BY <1>1 DEF CreateSchedule
  <2>2. run_time \in ClockTimes \cup {BadTime}
    BY ConstantTypes
  <2>3. CalculateNextRun(run_time, now) \in Nat
    BY <2>2, CalculateNextRunType DEF TypeOK
  <2>4. [enabled |-> TRUE, run_time |-> run_time, interval |-> interval,
         next_run |-> CalculateNextRun(run_time, now)] \in Doc
    BY <2>2, <2>3 DEF Doc
  <2>5. doc' \in [Schedules -> Doc \cup {None}]
    BY <2>1, <2>4 DEF TypeOK
  <2>6. stream' \in Seq(Event)
    BY <2>1, <2>4, AnnounceType
  <2>7. used' \in SUBSET Schedules
    BY <1>1 DEF CreateSchedule, TypeOK
  <2> QED
    BY <1>1, <2>5, <2>6, <2>7 DEF CreateSchedule, TypeOK
<1>2. ASSUME NEW s \in Schedules, DeleteSchedule(s) PROVE TypeOK'
  <2>1. stream' \in Seq(Event)
    BY <1>2, AnnounceType DEF DeleteSchedule
  <2>2. budget' \in Budget
    BY <1>2, SpendType DEF DeleteSchedule
  <2>3. doc' \in [Schedules -> Doc \cup {None}]
    BY <1>2 DEF DeleteSchedule, TypeOK
  <2> QED
    BY <1>2, <2>1, <2>2, <2>3 DEF DeleteSchedule, TypeOK, Budget
<1>3. ASSUME NEW s \in Schedules,
             UpdateRead(s) \/ ToggleRead(s) \/ ExternalMarkRead(s)
      PROVE  TypeOK'
  <2>0. now \in Nat
    BY DEF TypeOK
  <2>1. /\ doc[s] \in Doc
        /\ doc[s].enabled \in BOOLEAN /\ doc[s].run_time \in ClockTimes \cup {BadTime}
    BY <1>3, DocFields DEF UpdateRead, ToggleRead, ExternalMarkRead
  <2>2. CalculateNextRun(doc[s].run_time, now) \in Nat
    BY <2>0, <2>1, CalculateNextRunType
  <2>6. edit' \in Edit
    <3>1. CASE UpdateRead(s)
      <4>1. PICK e \in {[BlankEdit(s) EXCEPT !.enabled = b] : b \in BOOLEAN}
                    \cup {[BlankEdit(s) EXCEPT !.run_time = r,
                              !.next_run = CalculateNextRun(r, now)]
                          : r \in ClockTimes}
                    \cup {[BlankEdit(s) EXCEPT !.interval = i,
                              !.next_run = CalculateNextRun(doc[s].run_time, now)]
                          : i \in Intervals} : edit' = e
        BY <3>1 DEF UpdateRead
      <4>2. \A r \in ClockTimes : CalculateNextRun(r, now) \in Nat
        BY <2>0, CalculateNextRunType
      <4>3. CASE \E b \in BOOLEAN : edit' = [BlankEdit(s) EXCEPT !.enabled = b]
        BY <4>3, BlankEditType
      <4>4. CASE \E r \in ClockTimes :
                   edit' = [BlankEdit(s) EXCEPT !.run_time = r,
                              !.next_run = CalculateNextRun(r, now)]
        <5>1. PICK r \in ClockTimes, n \in Nat :
                edit' = [BlankEdit(s) EXCEPT !.run_time = r, !.next_run = n]
          BY <4>2, <4>4, Zenon
        <5>2. [BlankEdit(s) EXCEPT !.run_time = r, !.next_run = n] \in Edit
          BY BlankEditType
        <5> QED
          BY <5>1, <5>2
      <4>5. CASE \E i \in Intervals :
                   edit' = [BlankEdit(s) EXCEPT !.interval = i,
                              !.next_run = CalculateNextRun(doc[s].run_time, now)]
        <5>1. PICK i \in Intervals, n \in Nat :
                edit' = [BlankEdit(s) EXCEPT !.interval = i, !.next_run = n]
          BY <2>2, <4>5, Zenon
        <5>2. [BlankEdit(s) EXCEPT !.interval = i, !.next_run = n] \in Edit
          BY BlankEditType
        <5> QED
          BY <5>1, <5>2
      <4> QED
        BY <4>1, <4>3, <4>4, <4>5
    <3>2. CASE ToggleRead(s)
      <4>1. (~doc[s].enabled) \in BOOLEAN
        BY <2>1
      <4>2. (IF doc[s].enabled THEN None ELSE CalculateNextRun(doc[s].run_time, now))
              \in Nat \cup {None}
        BY <2>2
      <4>3. edit' = [BlankEdit(s) EXCEPT
                      !.enabled = ~doc[s].enabled,
                      !.next_run = IF doc[s].enabled THEN None
                                   ELSE CalculateNextRun(doc[s].run_time, now)]
        BY <3>2 DEF ToggleRead
      <4>4. \A b \in BOOLEAN \cup {None}, n \in Nat \cup {None} :
              [BlankEdit(s) EXCEPT !.enabled = b, !.next_run = n] \in Edit
        BY BlankEditType
      <4>5. PICK b \in BOOLEAN \cup {None}, n \in Nat \cup {None} :
              edit' = [BlankEdit(s) EXCEPT !.enabled = b, !.next_run = n]
        BY <4>1, <4>2, <4>3, Zenon
      <4> QED
        BY <4>4, <4>5
    <3>3. CASE ExternalMarkRead(s)
      <4>1. CompletedNextRun(doc[s], now) \in Nat
        BY <2>0, <2>1, <3>3, CompletedNextRunIsFuture DEF ExternalMarkRead
      <4> QED
        BY <3>3, <4>1, BlankEditType DEF ExternalMarkRead
    <3> QED
      BY <1>3, <3>1, <3>2, <3>3
  <2>7. budget' \in Budget
    BY <1>3, SpendType DEF UpdateRead, ToggleRead, ExternalMarkRead
  <2> QED
    BY <1>3, <2>6, <2>7
       DEF UpdateRead, ToggleRead, ExternalMarkRead, TypeOK, Budget
<1>4. ASSUME EditWrite PROVE TypeOK'
  <2>1. edit \in Edit /\ edit.id \in Schedules
    BY <1>4 DEF EditWrite, TypeOK, Edit
  <2>2. CASE doc[edit.id] # None
    <3>1. doc' = [doc EXCEPT ![edit.id] = Merge(doc[edit.id], edit)]
          /\ Announce("update", edit.id, None)
      BY <1>4, <2>2 DEF EditWrite
    <3>2. Merge(doc[edit.id], edit) \in Doc
      BY <2>1, <2>2, DocFields, MergeType
    <3>3. doc' \in [Schedules -> Doc \cup {None}]
      BY <2>1, <3>1, <3>2 DEF TypeOK
    <3>4. stream' \in Seq(Event)
      BY <2>1, <3>1, AnnounceType
    <3> QED
      BY <1>4, <3>3, <3>4 DEF EditWrite, TypeOK
  <2>3. CASE doc[edit.id] = None
    BY <1>4, <2>3 DEF EditWrite, TypeOK
  <2> QED
    BY <2>2, <2>3
<1>5. ASSUME NEW a \in Reconcilers, ReconcileStart(a) PROVE TypeOK'
  <2>1. budget' \in Budget
    <3>1. budget \in Budget
      BY DEF TypeOK, Budget
    <3>2. budget' = budget \/ budget' = [budget EXCEPT !.triggers = budget.triggers + 1]
      BY <1>5 DEF ReconcileStart
    <3> QED
      BY <3>1, <3>2 DEF Budget
  <2>2. recon' \in [Reconcilers -> {"idle", "listing", "listed"}]
    BY <1>5 DEF ReconcileStart, TypeOK
  <2>3. watcher' = watcher \/ watcher' = "reconciling"
    BY <1>5 DEF ReconcileStart
  <2>4. drift' \in BOOLEAN
    <3>1. CASE a = "watcher"
      BY <1>5, <3>1 DEF ReconcileStart
    <3>2. CASE a # "watcher"
      BY <1>5, <3>2 DEF ReconcileStart
    <3> QED
      BY <3>1, <3>2
  <2>5. jobs' \in [Schedules -> Nat \cup {None}]
    BY <1>5 DEF ReconcileStart, NoJobs
  <2> QED
    BY <1>5, <2>1, <2>2, <2>3, <2>4, <2>5 DEF ReconcileStart, TypeOK, Budget
<1>6. ASSUME NEW a \in Reconcilers, ReconcileRead(a) PROVE TypeOK'
  <2>1. recon' \in [Reconcilers -> {"idle", "listing", "listed"}]
    BY <1>6 DEF ReconcileRead, TypeOK
  <2>2. snap' \in [Reconcilers -> [Schedules -> Doc \cup {None}]]
    BY <1>6 DEF ReconcileRead, TypeOK
  <2> QED
    BY <1>6, <2>1, <2>2 DEF ReconcileRead, TypeOK
<1>7. ASSUME NEW a \in Reconcilers, ReconcileRegister(a) PROVE TypeOK'
  <2>1. recon' \in [Reconcilers -> {"idle", "listing", "listed"}]
    BY <1>7 DEF ReconcileRegister, TypeOK
  <2>2. snap' \in [Reconcilers -> [Schedules -> Doc \cup {None}]]
    BY <1>7 DEF ReconcileRegister, TypeOK, NoDocs
  <2>3. jobs' \in [Schedules -> Nat \cup {None}]
    <3>1. snap[a] \in [Schedules -> Doc \cup {None}]
      BY DEF TypeOK
    <3>2. \A s \in Schedules : (IF Enabled(snap[a][s]) THEN snap[a][s].next_run
                                ELSE jobs[s]) \in Nat \cup {None}
      BY <3>1 DEF TypeOK, Doc, Enabled
    <3> QED
      BY <1>7, <3>2 DEF ReconcileRegister
  <2>4. watcher' = watcher \/ watcher' = "streaming"
    BY <1>7 DEF ReconcileRegister
  <2> QED
    BY <1>7, <2>1, <2>2, <2>3, <2>4 DEF ReconcileRegister, TypeOK
<1>8. ASSUME TriggerFail \/ StreamFail PROVE TypeOK'
  <2>1. budget' \in Budget
    BY <1>8, SpendType DEF TriggerFail, StreamFail
  <2>2. recon' \in [Reconcilers -> {"idle", "listing", "listed"}]
    BY <1>8 DEF TriggerFail, StreamFail, TypeOK
  <2>3. /\ stream' = stream \/ stream' = <<>>
        /\ batch' = batch \/ batch' = <<>>
        /\ watcher' = watcher \/ watcher' = "waiting"
    BY <1>8 DEF TriggerFail, StreamFail
  <2>4. stream \in Seq(Event) /\ batch \in Seq(Event) /\ <<>> \in Seq(Event)
    BY DEF TypeOK
  <2>5. stream' \in Seq(Event)
    BY <2>3, <2>4
  <2>6. batch' \in Seq(Event)
    BY <2>3, <2>4
  <2> QED
    BY <1>8, <2>1, <2>2, <2>3, <2>5, <2>6 DEF TriggerFail, StreamFail, TypeOK, Budget
<1>9. ASSUME OpenStream \/ Reconnect PROVE TypeOK'
  BY <1>9 DEF OpenStream, Reconnect, TypeOK
<1>10. ASSUME Deliver PROVE TypeOK'
  <2>1. Head(stream) \in Event /\ Tail(stream) \in Seq(Event)
    BY <1>10, HeadTailProperties DEF Deliver, TypeOK
  <2>2. [Head(stream) EXCEPT !.doc = doc[Head(stream).id]] \in Event
    BY <2>1 DEF TypeOK, Event
  <2>3. batch' \in Seq(Event)
    BY <1>10, <2>1, <2>2 DEF Deliver, TypeOK
  <2> QED
    BY <1>10, <2>1, <2>3 DEF Deliver, TypeOK
<1>11. ASSUME ApplyChange PROVE TypeOK'
  <2>1. Head(batch) \in Event /\ Tail(batch) \in Seq(Event)
    BY <1>11, HeadTailProperties DEF ApplyChange, TypeOK
  <2>2. Head(batch).id \in Schedules /\ Head(batch).doc \in Doc \cup {None}
    BY <2>1 DEF Event
  <2>3. jobs' \in [Schedules -> Nat \cup {None}]
    <3>1. CASE Head(batch).op = "delete"
      BY <1>11, <3>1 DEF ApplyChange, TypeOK
    <3>2. CASE Head(batch).op # "delete" /\ Head(batch).doc = None
      BY <1>11, <3>2 DEF ApplyChange, TypeOK
    <3>3. CASE Head(batch).op # "delete" /\ Head(batch).doc # None
      <4>1. Head(batch).doc.next_run \in Nat
        BY <2>2, <3>3 DEF Doc
      <4>2. jobs' = Register(jobs, Head(batch).id, Head(batch).doc)
        BY <1>11, <3>3 DEF ApplyChange
      <4> QED
        BY <2>2, <4>1, <4>2 DEF Register, TypeOK
    <3> QED
      BY <3>1, <3>2, <3>3
  <2> QED
    BY <1>11, <2>1, <2>3 DEF ApplyChange, TypeOK
<1>12. ASSUME NEW s \in Schedules, Fire(s) PROVE TypeOK'
  <2>1. jobs' \in [Schedules -> Nat \cup {None}]
    BY <1>12 DEF Fire, TypeOK
  <2>2. exec' = exec \/ exec' = [exec EXCEPT ![s] = "loading"]
    BY <1>12 DEF Fire
  <2> QED
    BY <1>12, <2>1, <2>2 DEF Fire, TypeOK
<1>13. ASSUME NEW s \in Schedules, Load(s) PROVE TypeOK'
  BY <1>13 DEF Load, TypeOK
<1>14. ASSUME NEW s \in Schedules, LoadFail(s) PROVE TypeOK'
  <2>1. budget' \in Budget
    BY <1>14, SpendType DEF LoadFail
  <2> QED
    BY <1>14, <2>1 DEF LoadFail, TypeOK, Budget
<1>15. ASSUME NEW s \in Schedules, RunEnds(s) PROVE TypeOK'
  BY <1>15 DEF RunEnds, TypeOK
<1>16. ASSUME NEW s \in Schedules, MarkRead(s) PROVE TypeOK'
  <2>1. CASE doc[s] = None
    BY <1>16, <2>1 DEF MarkRead, TypeOK
  <2>2. CASE doc[s] # None
    <3>1. doc[s].run_time # BadTime
      BY <1>16, <2>2 DEF MarkRead
    <3>2. CompletedNextRun(doc[s], now) \in Nat
      BY <2>2, <3>1, DocFields, CompletedNextRunIsFuture DEF TypeOK
    <3>3. mark' \in [Schedules -> Nat]
      BY <1>16, <2>2, <3>2 DEF MarkRead, TypeOK
    <3>4. exec' \in [Schedules -> {"idle", "loading", "running", "marking",
                                   "remarking", "writing", "rewriting"}]
      BY <1>16, <2>2 DEF MarkRead, TypeOK
    <3> QED
      BY <1>16, <3>3, <3>4 DEF MarkRead, TypeOK
  <2> QED
    BY <2>1, <2>2
<1>17. ASSUME NEW s \in Schedules, MarkWrite(s) PROVE TypeOK'
  <2>1. doc' \in [Schedules -> Doc \cup {None}]
    <3>1. CASE doc[s] # None
      <4>1. doc' = [doc EXCEPT ![s] = [doc[s] EXCEPT !.next_run = mark[s]]]
        BY <1>17, <3>1 DEF MarkWrite
      <4>2. mark[s] \in Nat
        BY DEF TypeOK
      <4>3. [doc[s] EXCEPT !.next_run = mark[s]] \in Doc
        BY <3>1, <4>2, DocFields, NewNextRunType
      <4> QED
        BY <4>1, <4>3 DEF TypeOK
    <3>2. CASE doc[s] = None
      BY <1>17, <3>2 DEF MarkWrite, TypeOK
    <3> QED
      BY <3>1, <3>2
  <2>2. stream' \in Seq(Event)
    <3>1. CASE doc[s] # None
      BY <1>17, <3>1, AnnounceType DEF MarkWrite
    <3>2. CASE doc[s] = None
      BY <1>17, <3>2 DEF MarkWrite, TypeOK
    <3> QED
      BY <3>1, <3>2
  <2>3. /\ mark' \in [Schedules -> Nat]
        /\ exec' \in [Schedules -> {"idle", "loading", "running", "marking",
                                    "remarking", "writing", "rewriting"}]
    BY <1>17 DEF MarkWrite, TypeOK
  <2> QED
    BY <1>17, <2>1, <2>2, <2>3 DEF MarkWrite, TypeOK
<1>18. ASSUME NEW s \in Schedules, MarkUnparsable(s) \/ MarkFail(s) PROVE TypeOK'
  <2>1. budget' \in Budget
    <3>1. CASE MarkUnparsable(s)
      BY <3>1 DEF MarkUnparsable, TypeOK, Budget
    <3>2. CASE MarkFail(s)
      BY <3>2, SpendType DEF MarkFail
    <3> QED
      BY <1>18, <3>1, <3>2
  <2>2. AfterMarkRaised(s)
    BY <1>18 DEF MarkUnparsable, MarkFail
  <2>3. /\ mark' \in [Schedules -> Nat]
        /\ exec' \in [Schedules -> {"idle", "loading", "running", "marking",
                                    "remarking", "writing", "rewriting"}]
    BY <2>2 DEF AfterMarkRaised, TypeOK
  <2>4. failed' \subseteq Schedules
    BY <1>18 DEF MarkUnparsable, MarkFail, TypeOK
  <2> QED
    BY <2>1, <2>2, <2>3, <2>4 DEF AfterMarkRaised, TypeOK, Budget
<1>19. ASSUME Start PROVE TypeOK'
  BY <1>19 DEF Start, TypeOK
<1>20. ASSUME Crash PROVE TypeOK'
  <2>1. budget' \in Budget
    BY <1>20, SpendType DEF Crash
  <2>2. /\ snap' \in [Reconcilers -> [Schedules -> Doc \cup {None}]]
        /\ jobs' \in [Schedules -> Nat \cup {None}]
    BY <1>20 DEF Crash, NoDocs, NoJobs
  <2>3. stream' \in Seq(Event) /\ batch' \in Seq(Event)
    BY <1>20 DEF Crash
  <2>4. /\ recon' \in [Reconcilers -> {"idle", "listing", "listed"}]
        /\ exec' \in [Schedules -> {"idle", "loading", "running", "marking",
                                    "remarking", "writing", "rewriting"}]
        /\ mark' \in [Schedules -> Nat]
    BY <1>20 DEF Crash
  <2> QED
    BY <1>20, <2>1, <2>2, <2>3, <2>4 DEF Crash, TypeOK, Budget
<1>21. ASSUME Tick PROVE TypeOK'
  BY <1>21 DEF Tick, TypeOK
<1>22. ASSUME UNCHANGED vars PROVE TypeOK'
  BY <1>22 DEF vars, TypeOK
<1> QED
  BY <1>1, <1>2, <1>3, <1>4, <1>5, <1>6, <1>7, <1>8, <1>9, <1>10, <1>11,
     <1>12, <1>13, <1>14, <1>15, <1>16, <1>17, <1>18, <1>19, <1>20, <1>21, <1>22
     DEF Next, Request, ExecStep, ReconcileStep, WatcherStep

(***************************************************************************)
(* Every variable keeps its type: no request, event or mark writes a       *)
(* document, an event or a job date of another shape.                      *)
(***************************************************************************)
THEOREM TypeCorrect == Spec => []TypeOK
  BY InitTypes, StepTypes, PTL DEF Spec

-----------------------------------------------------------------------------
(***************************************************************************)
(* A callback in flight keeps the process up and the clock still, except   *)
(* while the newsletter itself is being produced; so the date mark_complete *)
(* computed from the document it read is still to come when it is written. *)
(***************************************************************************)
MarksAreFuture ==
    \A s \in Schedules :
      /\ exec[s] # "idle" => up
      /\ exec[s] \in {"writing", "rewriting"} => mark[s] > now

MarkInv == TypeOK /\ MarksAreFuture

\* What a step does to the callbacks, the marks, the process and the clock.
LEMMA MarkStep ==
    ASSUME MarkInv, [Next]_vars
    PROVE  MarksAreFuture'
<1>1. TypeOK /\ MarksAreFuture
  BY DEF MarkInv
<1>2. ASSUME UNCHANGED <<exec, mark, up, now>> PROVE MarksAreFuture'
  BY <1>1, <1>2 DEF MarksAreFuture
<1>3. ASSUME NEW s \in Schedules, Request(s) PROVE MarksAreFuture'
  BY <1>2, <1>3 DEF Request, CreateSchedule, DeleteSchedule, UpdateRead,
                    ToggleRead, ExternalMarkRead
<1>4. ASSUME NEW s \in Schedules,
             Fire(s) \/ Load(s) \/ LoadFail(s) \/ RunEnds(s)
      PROVE  MarksAreFuture'
  <2>1. /\ UNCHANGED <<mark, up, now>>
        /\ \/ exec' = exec
           \/ \E n \in {"idle", "loading", "running", "marking", "remarking"} :
                exec' = [exec EXCEPT ![s] = n]
    BY <1>4 DEF Fire, Load, LoadFail, RunEnds
  <2>2. exec[s] # "idle" => up
    BY <1>1 DEF MarksAreFuture
  <2>3. up
    BY <1>4, <2>2 DEF Fire, Load, LoadFail, RunEnds
  <2> QED
    BY <1>1, <2>1, <2>3 DEF MarksAreFuture, TypeOK
<1>5. ASSUME NEW s \in Schedules, MarkRead(s) PROVE MarksAreFuture'
  <2>1. up
    BY <1>1, <1>5 DEF MarksAreFuture, MarkRead
  <2>2. CASE doc[s] = None
    BY <1>1, <1>5, <2>1, <2>2 DEF MarksAreFuture, MarkRead, TypeOK
  <2>3. CASE doc[s] # None
    <3>1. doc[s].run_time # BadTime
      BY <1>5, <2>3 DEF MarkRead
    <3>2. CompletedNextRun(doc[s], now) > now
      BY <1>1, <2>3, <3>1, DocFields, CompletedNextRunIsFuture DEF TypeOK
    <3>3. /\ mark' = [mark EXCEPT ![s] = CompletedNextRun(doc[s], now)]
          /\ UNCHANGED <<up, now>>
          /\ \A t \in Schedules : t # s => exec'[t] = exec[t]
      BY <1>1, <1>5, <2>3 DEF MarkRead, TypeOK
    <3>4. mark'[s] > now' /\ \A t \in Schedules : t # s => mark'[t] = mark[t]
      BY <1>1, <3>2, <3>3 DEF TypeOK
    <3> QED
      BY <1>1, <2>1, <3>3, <3>4 DEF MarksAreFuture
  <2> QED
    BY <2>2, <2>3
<1>6. ASSUME NEW s \in Schedules, MarkWrite(s) PROVE MarksAreFuture'
  BY <1>1, <1>6 DEF MarksAreFuture, MarkWrite, TypeOK
<1>7. ASSUME NEW s \in Schedules, MarkUnparsable(s) \/ MarkFail(s)
      PROVE  MarksAreFuture'
  <2>1. up
    BY <1>1, <1>7 DEF MarksAreFuture, MarkUnparsable, MarkFail
  <2>2. AfterMarkRaised(s)
    BY <1>7 DEF MarkUnparsable, MarkFail
  <2> QED
    BY <1>1, <2>1, <2>2 DEF MarksAreFuture, AfterMarkRaised, TypeOK
<1>8. ASSUME Crash PROVE MarksAreFuture'
  BY <1>8 DEF Crash, MarksAreFuture
<1>9. ASSUME Start PROVE MarksAreFuture'
  BY <1>1, <1>9 DEF Start, MarksAreFuture
<1>10. ASSUME Tick PROVE MarksAreFuture'
  <2>1. \A s \in Schedules : exec[s] \in {"idle", "running"}
    BY <1>1, <1>10 DEF Tick, Settled, MarksAreFuture
  <2> QED
    BY <1>1, <1>10, <2>1 DEF Tick, MarksAreFuture
<1>11. ASSUME \/ EditWrite \/ TriggerFail \/ WatcherStep \/ StreamFail
              \/ \E a \in Reconcilers : ReconcileStart(a) \/ ReconcileStep(a)
       PROVE  MarksAreFuture'
  <2>1. UNCHANGED <<exec, mark, up, now>>
    BY <1>11 DEF EditWrite, TriggerFail, WatcherStep, OpenStream, Deliver,
                 ApplyChange, Reconnect, StreamFail, ReconcileStart,
                 ReconcileStep, ReconcileRead, ReconcileRegister
  <2> QED
    BY <1>2, <2>1
<1>12. ASSUME UNCHANGED vars PROVE MarksAreFuture'
  BY <1>2, <1>12 DEF vars
<1> QED
  BY <1>3, <1>4, <1>5, <1>6, <1>7, <1>8, <1>9, <1>10, <1>11, <1>12 DEF Next, ExecStep

\* A step that moves a callback and changes its document is mark_complete's
\* update_one.
LEMMA OnlyMarkWritesBoth ==
    ASSUME MarkInv, [Next]_vars, NEW s \in Schedules,
           exec'[s] # exec[s], doc'[s] # doc[s]
    PROVE  doc'[s].next_run > now
<1>1. TypeOK /\ MarksAreFuture
  BY DEF MarkInv
<1>2. ASSUME UNCHANGED exec \/ UNCHANGED doc PROVE FALSE
  BY <1>2
<1>3. ASSUME NEW t \in Schedules, MarkWrite(t) PROVE doc'[s].next_run > now
  <2>1. t = s
    BY <1>1, <1>3 DEF MarkWrite, TypeOK
  <2>2. doc[s] # None /\ doc' = [doc EXCEPT ![s] = [doc[s] EXCEPT !.next_run = mark[s]]]
    BY <1>3, <2>1 DEF MarkWrite
  <2>3. doc'[s].next_run = mark[s]
    BY <1>1, <2>2, DocFields DEF TypeOK, Doc
  <2> QED
    BY <1>1, <1>3, <2>1, <2>3 DEF MarkWrite, MarksAreFuture
<1>4. ASSUME NEW t \in Schedules,
             \/ Request(t) \/ Fire(t) \/ LoadFail(t) \/ MarkFail(t)
             \/ Load(t) \/ RunEnds(t) \/ MarkRead(t) \/ MarkUnparsable(t)
      PROVE  FALSE
  BY <1>2, <1>4 DEF Request, CreateSchedule, DeleteSchedule, UpdateRead,
     ToggleRead, ExternalMarkRead, Fire, LoadFail, MarkFail, Load, RunEnds,
     MarkRead, MarkUnparsable, AfterMarkRaised
<1>5. ASSUME \/ EditWrite \/ TriggerFail \/ WatcherStep \/ StreamFail
             \/ Start \/ Crash \/ Tick \/ UNCHANGED vars
             \/ \E a \in Reconcilers : ReconcileStart(a) \/ ReconcileStep(a)
      PROVE  FALSE
  BY <1>2, <1>5 DEF EditWrite, TriggerFail, WatcherStep, OpenStream, Deliver,
     ApplyChange, Reconnect, StreamFail, ReconcileStart, ReconcileStep,
     ReconcileRead, ReconcileRegister, Start, Crash, Tick, vars
<1> QED
  BY <1>3, <1>4, <1>5 DEF Next, ExecStep

(***************************************************************************)
(* Every date that a finishing run writes back is in the future when it is *)
(* written: the change stream re-registers a job that does not fire at     *)
(* once.                                                                   *)
(***************************************************************************)
THEOREM MarkedInFuture == Spec => MarkedDateIsFuture
<1>1. Init => MarkInv
  <2>1. Init => TypeOK
    BY InitTypes
  <2>2. Init => MarksAreFuture
    BY DEF Init, MarksAreFuture
  <2> QED
    BY <2>1, <2>2 DEF MarkInv
<1>2. MarkInv /\ [Next]_vars => MarkInv'
  BY MarkStep, StepTypes DEF MarkInv
<1>3. MarkInv /\ [Next]_vars =>
        [\A s \in Schedules :
           (exec'[s] # exec[s] /\ doc'[s] # doc[s]) => doc'[s].next_run > now]_vars
  BY OnlyMarkWritesBoth
<1> QED
  BY <1>1, <1>2, <1>3, PTL DEF Spec, MarkedDateIsFuture

-----------------------------------------------------------------------------
(***************************************************************************)
(* The job set.  While a stream is open every write of a document adds an  *)
(* event, so the last event of a schedule that is still to be applied      *)
(* tells what its document is now, or will when the server looks it up.    *)
(* From the moment the watcher drops the jobs to the moment it registers   *)
(* those it listed there are none, and a schedule without an event to come *)
(* is as it was listed; from then on its job is that of its document.      *)
(***************************************************************************)
Silent(q, s) == \A i \in DOMAIN q : q[i].id # s

\* The i-th event of q is its last about s.
LastOf(q, i, s) ==
    /\ i \in DOMAIN q /\ q[i].id = s
    /\ \A j \in DOMAIN q : j > i => q[j].id # s

\* An event that the watcher has, and one the server has, about a document that is d.
Tells(e, d) == IF e.op = "delete" THEN d = None ELSE d # None /\ e.doc = d

Leads(e, d) ==
    /\ e.op = "delete" => d = None
    /\ e.op = "insert" => d # None /\ e.doc = d
    /\ e.op = "update" => d # None

NewsIsCurrent(s) ==
    /\ \A i \in DOMAIN stream : LastOf(stream, i, s) => Leads(stream[i], doc[s])
    /\ Silent(stream, s) =>
         \A i \in DOMAIN batch : LastOf(batch, i, s) => Tells(batch[i], doc[s])

Announced(s) == ~Silent(stream, s) \/ ~Silent(batch, s)

WatcherKeeps ==
    /\ ~up => watcher = "stopped" /\ \A a \in Reconcilers : recon[a] = "idle"
    /\ ~StreamOpen => stream = <<>> /\ batch = <<>>
    /\ recon["watcher"] # "idle" <=> watcher = "reconciling"
    /\ recon["trigger"] # "idle" => drift

JobsFollow(s) ==
    /\ ~drift /\ watcher = "reconciling" => jobs[s] = None
    /\ recon["watcher"] = "listed" => Announced(s) \/ snap["watcher"][s] = doc[s]
    /\ ~drift /\ watcher = "streaming" => Announced(s) \/ JobMirrors(s)

MirrorInv ==
    /\ WatcherKeeps
    /\ \A s \in Schedules : NewsIsCurrent(s) /\ JobsFollow(s)

\* What all says of s is what q did, and then e.
Adds(all, q, e, s) ==
    /\ Silent(all, s) <=> Silent(q, s) /\ e.id # s
    /\ \A i \in DOMAIN all : LastOf(all, i, s) =>
         \/ e.id = s /\ all[i] = e
         \/ e.id # s /\ i \in DOMAIN q /\ LastOf(q, i, s) /\ all[i] = q[i]

LEMMA AppendNews ==
    ASSUME NEW q \in Seq(Event), NEW e \in Event, NEW s
    PROVE  Adds(Append(q, e), q, e, s)
<1>1. PICK n \in Nat : n = Len(q) /\ DOMAIN q = 1 .. n
  OBVIOUS
<1>2. PICK all : all = Append(q, e)
  OBVIOUS
<1>3. /\ DOMAIN all = 1 .. (n + 1) /\ all[n + 1] = e
      /\ \A i \in 1 .. n : all[i] = q[i]
  BY <1>1, <1>2
<1>4. Silent(all, s) <=> Silent(q, s) /\ e.id # s
  BY <1>1, <1>3 DEF Silent
<1>5. ASSUME NEW i \in DOMAIN all, LastOf(all, i, s)
      PROVE  \/ e.id = s /\ all[i] = e
             \/ e.id # s /\ i \in DOMAIN q /\ LastOf(q, i, s) /\ all[i] = q[i]
  <2>1. CASE i = n + 1
    BY <1>3, <1>5, <2>1 DEF LastOf
  <2>2. CASE i # n + 1
    <3>1. i \in 1 .. n /\ n + 1 > i
      BY <1>3, <2>2
    <3>2. e.id # s /\ all[i] = q[i]
      BY <1>3, <1>5, <3>1 DEF LastOf
    <3> QED
      BY <1>1, <1>3, <1>5, <3>1, <3>2 DEF LastOf
  <2> QED
    BY <2>1, <2>2
<1>6. Adds(all, q, e, s)
  BY <1>4, <1>5 DEF Adds
<1> QED
  BY <1>2, <1>6, Zenon

\* One event less.
Drops(rest, q, s) ==
    /\ Silent(q, s) => Silent(rest, s)
    /\ Head(q).id # s /\ Silent(rest, s) => Silent(q, s)
    /\ Head(q).id = s => ~Silent(q, s)
    /\ Head(q).id = s /\ Silent(rest, s) => LastOf(q, 1, s)
    /\ \A i \in DOMAIN rest : LastOf(rest, i, s) =>
         i + 1 \in DOMAIN q /\ LastOf(q, i + 1, s) /\ rest[i] = q[i + 1]

LEMMA TailNews ==
    ASSUME NEW q \in Seq(Event), q # <<>>, NEW s
    PROVE  Drops(Tail(q), q, s) /\ 1 \in DOMAIN q /\ q[1] = Head(q)
<1>1. PICK n \in Nat : n + 1 = Len(q) /\ DOMAIN q = 1 .. (n + 1)
  OBVIOUS
<1>2. PICK rest : rest = Tail(q)
  OBVIOUS
<1>3. /\ DOMAIN rest = 1 .. n /\ Head(q) = q[1]
      /\ \A i \in 1 .. n : rest[i] = q[i + 1]
  BY <1>1, <1>2
<1>4. \A j \in 2 .. (n + 1) : j - 1 \in 1 .. n /\ rest[j - 1] = q[j]
  BY <1>3
<1>5. /\ Silent(q, s) => Silent(rest, s)
      /\ Head(q).id # s /\ Silent(rest, s) => Silent(q, s)
      /\ Head(q).id = s => ~Silent(q, s)
      /\ Head(q).id = s /\ Silent(rest, s) => LastOf(q, 1, s)
  <2>1. Silent(rest, s) => \A j \in 2 .. (n + 1) : q[j].id # s
    BY <1>3, <1>4 DEF Silent
  <2>2. \A j \in 1 .. (n + 1) : j = 1 \/ j \in 2 .. (n + 1)
    OBVIOUS
  <2>3. \A i \in 1 .. n : i + 1 \in DOMAIN q
    BY <1>1
  <2>4. Silent(q, s) => Silent(rest, s)
    BY <1>3, <2>3 DEF Silent
  <2>5. Head(q).id # s /\ Silent(rest, s) => Silent(q, s)
    BY <1>1, <1>3, <2>1, <2>2 DEF Silent
  <2>6. 1 \in DOMAIN q
    BY <1>1
  <2>7. Head(q).id = s => ~Silent(q, s)
    BY <1>3, <2>6 DEF Silent
  <2>8. \A j \in DOMAIN q : j > 1 => j \in 2 .. (n + 1)
    BY <1>1
  <2>9. Head(q).id = s /\ Silent(rest, s) => LastOf(q, 1, s)
    BY <1>3, <2>1, <2>6, <2>8 DEF LastOf
  <2> QED
    BY <2>4, <2>5, <2>7, <2>9
<1>6. ASSUME NEW i \in DOMAIN rest, LastOf(rest, i, s)
      PROVE  i + 1 \in DOMAIN q /\ LastOf(q, i + 1, s) /\ rest[i] = q[i + 1]
  <2>1. ASSUME NEW j \in DOMAIN q, j > i + 1 PROVE q[j].id # s
    <3>1. i \in 1 .. n /\ j \in 2 .. (n + 1) /\ j - 1 > i
      BY <1>1, <1>3, <1>6, <2>1 DEF LastOf
    <3>2. rest[j - 1] = q[j] /\ j - 1 \in DOMAIN rest
      BY <1>3, <1>4, <3>1
    <3> QED
      BY <1>6, <3>1, <3>2 DEF LastOf
  <2>2. i \in 1 .. n /\ i + 1 \in DOMAIN q /\ rest[i] = q[i + 1] /\ rest[i].id = s
    BY <1>1, <1>3, <1>6 DEF LastOf
  <2> QED
    BY <2>1, <2>2 DEF LastOf
<1>7. Drops(rest, q, s) /\ 1 \in DOMAIN q /\ q[1] = Head(q)
  BY <1>1, <1>3, <1>5, <1>6 DEF Drops
<1> QED
  BY <1>2, <1>7, Zenon

\* What is left alone, and jobs that are dropped as they fire.
LEMMA Untouched ==
    ASSUME TypeOK, MirrorInv, now' \in Nat, now' >= now,
           UNCHANGED <<doc, up, watcher, recon, snap, stream, batch, drift>>,
           \A s \in Schedules :
             jobs'[s] = jobs[s] \/ (jobs[s] # None /\ jobs[s] <= now /\ jobs'[s] = None)
    PROVE  MirrorInv'
<1>1. WatcherKeeps'
  BY DEF MirrorInv, WatcherKeeps, StreamOpen
<1>2. ASSUME NEW s \in Schedules PROVE NewsIsCurrent(s)' /\ JobsFollow(s)'
  <2>1. NewsIsCurrent(s)' /\ (Announced(s)' <=> Announced(s))
    BY DEF MirrorInv, NewsIsCurrent, Announced
  <2>2. /\ jobs'[s] = jobs[s] \/ (jobs[s] # None /\ jobs[s] <= now /\ jobs'[s] = None)
        /\ doc'[s] = doc[s] /\ JobsFollow(s)
    BY DEF MirrorInv
  <2>3. JobMirrors(s) => JobMirrors(s)'
    <3>1. doc[s] # None => doc[s].next_run \in Nat
      BY DocFields DEF TypeOK
    <3>2. now \in Nat /\ (jobs[s] # None => jobs[s] \in Nat)
      BY DEF TypeOK
    <3> QED
      BY <2>2, <3>1, <3>2 DEF JobMirrors, Enabled
  <2> QED
    BY <2>1, <2>2, <2>3 DEF JobsFollow
<1> QED
  BY <1>1, <1>2 DEF MirrorInv

\* A write of a document that is announced.
LEMMA Announcing ==
    ASSUME TypeOK, MirrorInv, NEW op \in {"insert", "update", "delete"},
           NEW t \in Schedules, NEW d \in Doc \cup {None}, Announce(op, t, d),
           Leads([op |-> op, id |-> t, doc |-> d], doc'[t]),
           \A s \in Schedules : s # t => doc'[s] = doc[s],
           UNCHANGED <<now, up, watcher, recon, snap, batch, jobs, drift>>
    PROVE  MirrorInv'
<1> DEFINE e == [op |-> op, id |-> t, doc |-> d]
<1>1. e \in Event /\ e.id = t /\ stream \in Seq(Event) /\ batch \in Seq(Event)
  BY DEF Event, TypeOK
<1>2. CASE StreamOpen
  <2>1. stream' = Append(stream, e)
    BY <1>2 DEF Announce
  <2> HIDE DEF e
  <2>2. WatcherKeeps'
    BY <1>2 DEF MirrorInv, WatcherKeeps, StreamOpen
  <2>3. ASSUME NEW s \in Schedules PROVE NewsIsCurrent(s)' /\ JobsFollow(s)'
    <3>1. Adds(stream', stream, e, s)
      BY <1>1, <2>1, AppendNews, Zenon
    <3>2. NewsIsCurrent(s) /\ JobsFollow(s)
      BY DEF MirrorInv
    <3>3. CASE s = t
      <4>1. ~Silent(stream', s) /\ \A i \in DOMAIN stream' : LastOf(stream', i, s) =>
                                     stream'[i] = e
        BY <1>1, <3>1, <3>3 DEF Adds
      <4>2. NewsIsCurrent(s)' /\ Announced(s)'
        BY <3>3, <4>1 DEF NewsIsCurrent, Announced, e
      <4> QED
        BY <3>2, <4>2 DEF JobsFollow
    <3>4. CASE s # t
      <4>1. doc'[s] = doc[s]
        BY <3>4
      <4>2. NewsIsCurrent(s)' /\ (Announced(s)' <=> Announced(s))
        BY <1>1, <3>1, <3>2, <3>4, <4>1 DEF NewsIsCurrent, Announced, Adds
      <4> QED
        BY <3>2, <4>1, <4>2 DEF JobsFollow, JobMirrors
    <3> QED
      BY <3>3, <3>4
  <2> QED
    BY <2>2, <2>3 DEF MirrorInv
<1>3. CASE ~StreamOpen
  <2>1. stream' = <<>> /\ batch' = <<>>
    BY <1>3 DEF MirrorInv, WatcherKeeps, Announce
  <2>2. WatcherKeeps'
    BY <1>3, <2>1 DEF MirrorInv, WatcherKeeps, StreamOpen
  <2>3. recon'["watcher"] = "idle" /\ watcher' \notin {"reconciling", "streaming"}
    BY <1>3 DEF MirrorInv, WatcherKeeps, StreamOpen
  <2> QED
    BY <2>1, <2>2, <2>3 DEF MirrorInv, NewsIsCurrent, JobsFollow
<1> QED
  BY <1>2, <1>3

LEMMA DeliverMirrors ==
    ASSUME TypeOK, MirrorInv, Deliver
    PROVE  MirrorInv'
<1> DEFINE e == Head(stream)
           f == IF e.op = "update" THEN [e EXCEPT !.doc = doc[e.id]] ELSE e
<1>1. /\ stream \in Seq(Event) /\ batch \in Seq(Event) /\ stream # <<>>
      /\ stream' = Tail(stream) /\ batch' = Append(batch, f)
      /\ UNCHANGED <<now, doc, up, watcher, recon, snap, jobs, drift>>
  BY DEF Deliver, TypeOK
<1>2. e \in Event
  BY <1>1
<1> HIDE DEF e
<1>3. f \in Event /\ f.id = e.id
  <2>1. doc[e.id] \in Doc \cup {None}
    BY <1>2 DEF TypeOK, Event
  <2> QED
    BY <1>2, <2>1 DEF Event
<1>4. WatcherKeeps'
  BY <1>1 DEF MirrorInv, WatcherKeeps, StreamOpen, Deliver
<1>5. ASSUME NEW s \in Schedules PROVE NewsIsCurrent(s)' /\ JobsFollow(s)'
  <2>1. /\ NewsIsCurrent(s) /\ JobsFollow(s)
        /\ e.op \in {"insert", "update", "delete"} /\ e.id \in Schedules
    BY <1>2 DEF MirrorInv, Event
  <2>2. Adds(batch', batch, f, s)
    BY <1>1, <1>3, AppendNews, Zenon
  <2>3. Drops(stream', stream, s) /\ 1 \in DOMAIN stream /\ stream[1] = e
    BY <1>1, TailNews, Zenon DEF e
  <2>4. Head(stream) = e
    BY DEF e
  <2>5. \A i \in DOMAIN stream' : LastOf(stream', i, s) => Leads(stream'[i], doc'[s])
    BY <1>1, <2>1, <2>3 DEF NewsIsCurrent, Drops
  <2>6. CASE e.id = s
    <3>1. ASSUME Silent(stream', s) PROVE Tells(f, doc[s])
      <4>1. Leads(e, doc[s])
        BY <2>1, <2>3, <2>4, <2>6, <3>1 DEF Drops, NewsIsCurrent
      <4> QED
        BY <1>2, <2>1, <2>6, <4>1 DEF Leads, Tells, Event
    <3>2. Announced(s)'
      BY <1>3, <2>2, <2>6 DEF Announced, Adds
    <3>3. NewsIsCurrent(s)'
      BY <1>1, <1>3, <2>2, <2>5, <2>6, <3>1 DEF NewsIsCurrent, Adds
    <3> QED
      BY <1>1, <2>1, <3>2, <3>3 DEF JobsFollow
  <2>7. CASE e.id # s
    <3>1. /\ Silent(stream', s) <=> Silent(stream, s)
          /\ Silent(batch', s) <=> Silent(batch, s)
      BY <1>3, <2>2, <2>3, <2>4, <2>7 DEF Adds, Drops
    <3>2. NewsIsCurrent(s)'
      <4>1. ASSUME Silent(stream', s), NEW i \in DOMAIN batch', LastOf(batch', i, s)
            PROVE  Tells(batch'[i], doc[s])
        <5>1. i \in DOMAIN batch /\ LastOf(batch, i, s) /\ batch'[i] = batch[i]
          BY <1>3, <2>2, <2>7, <4>1 DEF Adds
        <5> QED
          BY <2>1, <3>1, <4>1, <5>1 DEF NewsIsCurrent
      <4> QED
        BY <1>1, <2>5, <4>1 DEF NewsIsCurrent
    <3> QED
      BY <1>1, <2>1, <3>1, <3>2 DEF JobsFollow, Announced, JobMirrors
  <2> QED
    BY <2>6, <2>7
<1> QED
  BY <1>4, <1>5 DEF MirrorInv

LEMMA ApplyMirrors ==
    ASSUME TypeOK, MirrorInv, ApplyChange
    PROVE  MirrorInv'
<1> DEFINE e == Head(batch)
<1>1. /\ batch \in Seq(Event) /\ batch # <<>> /\ batch' = Tail(batch)
      /\ watcher = "streaming"
      /\ UNCHANGED <<now, doc, up, watcher, recon, snap, stream, drift>>
      /\ jobs \in [Schedules -> Nat \cup {None}]
  BY DEF ApplyChange, TypeOK
<1>2. e \in Event
  BY <1>1
<1>3. /\ e.op = "delete" => jobs' = [jobs EXCEPT ![e.id] = None]
      /\ e.op # "delete" /\ e.doc = None => jobs' = jobs
      /\ e.op # "delete" /\ e.doc # None => jobs' = Register(jobs, e.id, e.doc)
  BY DEF ApplyChange
<1> HIDE DEF e
<1>4. /\ WatcherKeeps'
      /\ recon["watcher"] = "idle"
  BY <1>1 DEF MirrorInv, WatcherKeeps, StreamOpen, TypeOK, Reconcilers
<1>5. ASSUME NEW s \in Schedules PROVE NewsIsCurrent(s)' /\ JobsFollow(s)'
  <2>1. NewsIsCurrent(s) /\ JobsFollow(s)
    BY DEF MirrorInv
  <2>2. Drops(batch', batch, s) /\ 1 \in DOMAIN batch /\ batch[1] = e
    BY <1>1, TailNews, Zenon DEF e
  <2>3. Head(batch) = e
    BY DEF e
  <2>4. NewsIsCurrent(s)'
    BY <1>1, <2>1, <2>2 DEF NewsIsCurrent, Drops
  <2>5. CASE e.id = s
    <3>1. ASSUME Silent(stream, s), Silent(batch', s) PROVE JobMirrors(s)'
      <4>1. Tells(e, doc[s])
        BY <2>1, <2>2, <2>3, <2>5, <3>1 DEF Drops, NewsIsCurrent
      <4>2. doc[s] # None => doc[s].next_run \in Nat
        BY DocFields DEF TypeOK
      <4>3. None \notin Nat
        BY SchedulerConstants
      <4>4. CASE e.op = "delete"
        BY <1>1, <1>3, <2>5, <4>1, <4>4 DEF Tells, JobMirrors, Enabled
      <4>5. CASE e.op # "delete"
        <5>1. /\ doc[s] # None /\ e.doc = doc[s]
              /\ jobs' = [jobs EXCEPT ![s] = IF doc[s].enabled THEN doc[s].next_run
                                                               ELSE None]
          BY <1>3, <2>5, <4>1, <4>5 DEF Tells, Register
        <5> QED
          BY <1>1, <4>2, <4>3, <5>1 DEF JobMirrors, Enabled
      <4> QED
        BY <4>4, <4>5
    <3> QED
      BY <1>1, <1>4, <2>4, <3>1 DEF JobsFollow, Announced
  <2>6. CASE e.id # s
    <3>1. jobs'[s] = jobs[s]
      BY <1>1, <1>3, <2>6 DEF Register
    <3>2. Announced(s)' <=> Announced(s)
      BY <1>1, <2>2, <2>3, <2>6 DEF Announced, Drops
    <3> QED
      BY <1>1, <1>4, <2>1, <2>4, <3>1, <3>2 DEF JobsFollow, JobMirrors
  <2> QED
    BY <2>5, <2>6
<1> QED
  BY <1>4, <1>5 DEF MirrorInv

LEMMA ReconcileMirrors ==
    ASSUME TypeOK, MirrorInv, NEW a \in Reconcilers, ReconcileStart(a) \/ ReconcileStep(a)
    PROVE  MirrorInv'
<1>1. /\ recon \in [Reconcilers -> {"idle", "listing", "listed"}]
      /\ snap \in [Reconcilers -> [Schedules -> Doc \cup {None}]]
      /\ a \in {"watcher", "trigger"} /\ Reconcilers = {"watcher", "trigger"}
      /\ WatcherKeeps /\ \A s \in Schedules : NewsIsCurrent(s) /\ JobsFollow(s)
  BY DEF TypeOK, Reconcilers, MirrorInv
<1>2. CASE ReconcileStart(a)
  <2>1. WatcherKeeps'
    BY <1>1, <1>2 DEF ReconcileStart, WatcherKeeps, StreamOpen
  <2>2. ASSUME NEW s \in Schedules PROVE NewsIsCurrent(s)' /\ JobsFollow(s)'
    <3>1. NewsIsCurrent(s)' /\ jobs'[s] = None
      BY <1>1, <1>2 DEF ReconcileStart, NewsIsCurrent, NoJobs
    <3>2. JobsFollow(s)'
      BY <1>1, <1>2, <3>1 DEF ReconcileStart, JobsFollow, Announced, WatcherKeeps
    <3> QED
      BY <3>1, <3>2
  <2> QED
    BY <2>1, <2>2 DEF MirrorInv
<1>3. CASE ReconcileRead(a)
  <2>1. WatcherKeeps'
    BY <1>1, <1>3 DEF ReconcileRead, WatcherKeeps, StreamOpen
  <2>2. ASSUME NEW s \in Schedules PROVE NewsIsCurrent(s)' /\ JobsFollow(s)'
    <3>1. NewsIsCurrent(s)' /\ (Announced(s)' <=> Announced(s))
      BY <1>1, <1>3 DEF ReconcileRead, NewsIsCurrent, Announced
    <3>2. JobsFollow(s)'
      BY <1>1, <1>3, <3>1 DEF ReconcileRead, JobsFollow, JobMirrors
    <3> QED
      BY <3>1, <3>2
  <2> QED
    BY <2>1, <2>2 DEF MirrorInv
<1>4. CASE ReconcileRegister(a)
  <2>1. WatcherKeeps'
    BY <1>1, <1>4 DEF ReconcileRegister, WatcherKeeps, StreamOpen
  <2>2. ASSUME NEW s \in Schedules PROVE NewsIsCurrent(s)' /\ JobsFollow(s)'
    <3>1. NewsIsCurrent(s)' /\ (Announced(s)' <=> Announced(s))
      BY <1>1, <1>4 DEF ReconcileRegister, NewsIsCurrent, Announced
    <3>2. CASE a = "trigger"
      BY <1>1, <1>4, <3>1, <3>2 DEF ReconcileRegister, JobsFollow, WatcherKeeps
    <3>3. CASE a = "watcher"
      <4>1. ASSUME ~drift, ~Announced(s) PROVE JobMirrors(s)'
        <5>1. snap["watcher"][s] = doc[s] /\ jobs[s] = None
          BY <1>1, <1>4, <3>3, <4>1 DEF ReconcileRegister, JobsFollow, WatcherKeeps
        <5>2. jobs'[s] = IF Enabled(doc[s]) THEN doc[s].next_run ELSE None
          BY <1>4, <3>3, <5>1 DEF ReconcileRegister
        <5> QED
          BY <1>4, <5>2 DEF JobMirrors, ReconcileRegister
      <4> QED
        BY <1>1, <1>4, <3>1, <3>3, <4>1 DEF ReconcileRegister, JobsFollow
    <3> QED
      BY <1>1, <3>1, <3>2, <3>3
  <2> QED
    BY <2>1, <2>2 DEF MirrorInv
<1> QED
  BY <1>2, <1>3, <1>4 DEF ReconcileStep

LEMMA MirrorStep ==
    ASSUME TypeOK, TypeOK', MirrorInv, [Next]_vars
    PROVE  MirrorInv'
<1>1. now \in Nat /\ now' \in Nat
  BY DEF TypeOK
<1>2. ASSUME UNCHANGED <<now, doc, up, watcher, recon, snap, stream, batch, jobs, drift>>
      PROVE  MirrorInv'
  BY <1>1, <1>2, Untouched
<1>3. ASSUME NEW s \in Schedules, CreateSchedule(s) PROVE MirrorInv'
  <2>1. PICK run_time \in CreateTimes, interval \in Intervals :
          LET d == [enabled |-> TRUE, run_time |-> run_time, interval |-> interval,
                    next_run |-> CalculateNextRun(run_time, now)]
          IN  doc' = [doc EXCEPT ![s] = d] /\ Announce("insert", s, d)
    BY <1>3 DEF CreateSchedule
  <2>2. PICK d : d = [enabled |-> TRUE, run_time |-> run_time, interval |-> interval,
                      next_run |-> CalculateNextRun(run_time, now)]
    OBVIOUS
  <2>3. d \in Doc
    BY <1>1, <2>2, ConstantTypes, CalculateNextRunType DEF Doc
  <2>4. doc' = [doc EXCEPT ![s] = d] /\ Announce("insert", s, d)
    BY <2>1, <2>2
  <2>5. doc'[s] = d /\ d # None
    BY <2>3, <2>4, NoneIsNoDocument DEF TypeOK
  <2>6. Leads([op |-> "insert", id |-> s, doc |-> d], doc'[s])
    BY <2>5 DEF Leads
  <2>7. \A t \in Schedules : t # s => doc'[t] = doc[t]
    BY <2>4 DEF TypeOK
  <2>8. UNCHANGED <<now, up, watcher, recon, snap, batch, jobs, drift>>
    BY <1>3 DEF CreateSchedule
  <2> QED
    BY <2>3, <2>4, <2>6, <2>7, <2>8, Announcing
<1>4. ASSUME NEW s \in Schedules, DeleteSchedule(s) PROVE MirrorInv'
  <2>1. doc' = [doc EXCEPT ![s] = None] /\ Announce("delete", s, None)
    BY <1>4 DEF DeleteSchedule
  <2> QED
    BY <1>4, <2>1, Announcing DEF DeleteSchedule, Leads, TypeOK
<1>5. ASSUME NEW s \in Schedules,
             \/ UpdateRead(s) \/ ToggleRead(s) \/ ExternalMarkRead(s)
             \/ Load(s) \/ LoadFail(s) \/ RunEnds(s) \/ MarkRead(s)
             \/ MarkUnparsable(s) \/ MarkFail(s)
      PROVE  MirrorInv'
  BY <1>2, <1>5 DEF UpdateRead, ToggleRead, ExternalMarkRead, Load, LoadFail, RunEnds,
     MarkRead, MarkUnparsable, MarkFail, AfterMarkRaised
<1>6. ASSUME NEW s \in Schedules, Fire(s) PROVE MirrorInv'
  BY <1>1, <1>6, Untouched DEF Fire, Due, TypeOK
<1>7. ASSUME NEW s \in Schedules, MarkWrite(s) PROVE MirrorInv'
  <2>1. CASE doc[s] = None
    BY <1>2, <1>7, <2>1 DEF MarkWrite
  <2>2. CASE doc[s] # None
    <3>1. /\ doc' = [doc EXCEPT ![s] = [doc[s] EXCEPT !.next_run = mark[s]]]
          /\ Announce("update", s, None)
      BY <1>7, <2>2 DEF MarkWrite
    <3>2. doc[s] \in Doc /\ mark[s] \in Nat
      BY <2>2 DEF TypeOK
    <3>3. doc'[s] # None
      BY <3>1, <3>2, NewNextRunType, NoneIsNoDocument DEF TypeOK
    <3> QED
      BY <1>7, <3>1, <3>3, Announcing DEF MarkWrite, Leads, TypeOK
  <2> QED
    BY <2>1, <2>2
<1>8. ASSUME EditWrite PROVE MirrorInv'
  <2> DEFINE s == edit.id
  <2>1. s \in Schedules /\ edit \in Edit
    BY <1>8 DEF EditWrite, TypeOK, Edit
  <2>2. CASE doc[s] = None
    BY <1>2, <1>8, <2>2 DEF EditWrite
  <2>3. CASE doc[s] # None
    <3>1. /\ doc' = [doc EXCEPT ![s] = Merge(doc[s], edit)]
          /\ Announce("update", s, None)
      BY <1>8, <2>3 DEF EditWrite
    <3>2. doc'[s] # None
      BY <2>1, <2>3, <3>1, MergeType, NoneIsNoDocument DEF TypeOK
    <3> QED
      BY <1>8, <2>1, <3>1, <3>2, Announcing DEF EditWrite, Leads, TypeOK
  <2> QED
    BY <2>2, <2>3
<1>9. ASSUME TriggerFail PROVE MirrorInv'
  <2>1. /\ recon["trigger"] # "idle" /\ recon' = [recon EXCEPT !["trigger"] = "idle"]
        /\ recon'["watcher"] = recon["watcher"]
        /\ UNCHANGED <<now, doc, up, watcher, snap, stream, batch, jobs, drift>>
    BY <1>9 DEF TriggerFail, TypeOK, Reconcilers
  <2>2. WatcherKeeps'
    BY <2>1 DEF MirrorInv, WatcherKeeps, StreamOpen, TypeOK, Reconcilers
  <2> QED
    BY <2>1, <2>2 DEF MirrorInv, NewsIsCurrent, JobsFollow, Announced, JobMirrors
<1>10. ASSUME OpenStream \/ Reconnect \/ Start PROVE MirrorInv'
  <2>1. /\ UNCHANGED <<now, doc, recon, snap, stream, batch, jobs, drift>>
        /\ watcher \in {"opening", "waiting", "stopped"}
        /\ watcher' \in {"opened", "opening"}
        /\ up' = TRUE
    BY <1>10 DEF OpenStream, Reconnect, Start, MirrorInv, WatcherKeeps, TypeOK
  <2>2. stream = <<>> /\ batch = <<>> /\ recon["watcher"] = "idle"
    BY <2>1 DEF MirrorInv, WatcherKeeps, StreamOpen
  <2>3. WatcherKeeps'
    BY <2>1, <2>2 DEF MirrorInv, WatcherKeeps
  <2> QED
    BY <2>1, <2>2, <2>3 DEF MirrorInv, NewsIsCurrent, JobsFollow
<1>11. ASSUME StreamFail \/ Crash PROVE MirrorInv'
  <2>1. /\ stream' = <<>> /\ batch' = <<>> /\ watcher' \in {"waiting", "stopped"}
        /\ recon'["watcher"] = "idle"
    BY <1>11 DEF StreamFail, Crash, TypeOK, Reconcilers
  <2>2. WatcherKeeps'
    BY <1>11, <2>1 DEF StreamFail, Crash, MirrorInv, WatcherKeeps, TypeOK, Reconcilers
  <2> QED
    BY <2>1, <2>2 DEF MirrorInv, NewsIsCurrent, JobsFollow
<1>12. ASSUME Tick PROVE MirrorInv'
  BY <1>1, <1>12, Untouched DEF Tick
<1>13. ASSUME UNCHANGED vars PROVE MirrorInv'
  BY <1>2, <1>13 DEF vars
<1> QED
  BY <1>3, <1>4, <1>5, <1>6, <1>7, <1>8, <1>9, <1>10, <1>11, <1>12, <1>13, DeliverMirrors,
     ApplyMirrors, ReconcileMirrors DEF Next, Request, ExecStep, WatcherStep

(***************************************************************************)
(* Once the watcher has nothing left to apply, the job set is that of the  *)
(* documents, for any schedules, days, grace, requests and faults: unless  *)
(* a manual trigger has rebuilt it since the watcher did.                  *)
(***************************************************************************)
THEOREM MirrorsDocs == Spec => []JobsMirrorDocs
<1>1. Init => MirrorInv
  BY DEF Init, MirrorInv, WatcherKeeps, NewsIsCurrent, JobsFollow, StreamOpen, Reconcilers
<1>2. MirrorInv => JobsMirrorDocs
  <2>1. \A s : Silent(<<>>, s)
    BY DEF Silent
  <2> QED
    BY <2>1 DEF MirrorInv, JobsFollow, Announced, JobsMirrorDocs, CaughtUp
<1>3. TypeOK /\ MirrorInv /\ [Next]_vars => (TypeOK /\ MirrorInv)'
  BY MirrorStep, StepTypes
<1> QED
  BY <1>1, <1>2, <1>3, InitTypes, PTL DEF Spec
=============================================================================
