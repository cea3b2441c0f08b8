-------------------------- MODULE NewsletterRunProofs --------------------------
(***************************************************************************)
(* Theorems about NewsletterRun, for any runs, chats, requests and faults: *)
(* concurrent and forced runs, selections and crashes included.            *)
(***************************************************************************)
EXTENDS NewsletterRun, FiniteSetTheorems, TLAPS

Domains ==
  /\ DOMAIN pc = Runs /\ DOMAIN record = Runs /\ DOMAIN known = Runs
  /\ DOMAIN at = Runs /\ DOMAIN todo = Runs /\ DOMAIN hooked = Runs
  /\ request \in Requests

\* The nodes behind the fan-in, and the end that only they reach.
Gathered == {"aggregate", "consolidate", "merge", "rank", "select", "generate", "enrich",
             "enriched", "translate", "translated", "output", "complete", "done"}

\* What the node a run is at says of its document.
RecordFits(r) ==
  /\ record[r] \in {"none", "pending", "running", "completed"}
  /\ pc[r] \in {"idle", "session", "dispatch"} => record[r] = "none"
  /\ pc[r] = "start" => record[r] = "pending"
  /\ record[r] = "completed" => pc[r] = "done"
  /\ known[r] \in BOOLEAN
  /\ known[r] => record[r] # "none"

\* What it says of its chats and its deliveries.
ProgressFits(r) ==
  /\ pc[r] \in Gathered => \A c \in request[r].chats : at[r][c] \in Settled
  /\ pc[r] \in Gathered \ {"aggregate"} => Succeeded(r) # {}
  /\ pc[r] # "idle" /\ "webhook" \in request[r].actions =>
       hooked[r] \/ "webhook" \in todo[r]
  /\ pc[r] \in {"complete", "done"} => todo[r] = {}

RunFits(r) == RecordFits(r) /\ ProgressFits(r)

RunsInv == Domains /\ \A r \in Runs : RunFits(r)

RecordStep == [Document!Next]_record

\* A step of r leaves the other runs alone.
OnlyOf(r) ==
  \A q \in Runs \ {r} :
    /\ pc'[q] = pc[q] /\ record'[q] = record[q] /\ known'[q] = known[q]
    /\ at'[q] = at[q] /\ todo'[q] = todo[q] /\ hooked'[q] = hooked[q]

LEMMA OneRun ==
  ASSUME RunsInv, NEW r \in Runs, Domains', request' = request, OnlyOf(r), RunFits(r)'
  PROVE  RunsInv'
<1> SUFFICES ASSUME NEW q \in Runs, q # r PROVE RunFits(q)'
  BY DEF RunsInv
<1>1. RunFits(q)
  BY DEF RunsInv
<1> QED
  BY <1>1 DEF OnlyOf, RunFits, RecordFits, ProgressFits, Succeeded

\* A step of r that leaves the documents as they are and leads to the node "to".
LEMMA StepKeeps ==
  ASSUME RunsInv, NEW r \in Runs, NEW to, GoTo(r, to),
         UNCHANGED <<record, known, request>>, Domains', OnlyOf(r), ProgressFits(r)',
         pc[r] # "done",
         \/ to \notin {"idle", "session", "dispatch", "start"}
         \/ pc[r] \in {"idle", "session"} /\ to \in {"session", "dispatch"}
  PROVE  RunsInv' /\ RecordStep
<1>1. pc'[r] = to /\ RecordFits(r)
  BY DEF GoTo, RunsInv, RunFits, Domains
<1>2. RecordFits(r)'
  BY <1>1 DEF RecordFits
<1>3. RecordStep
  BY DEF RecordStep
<1> QED
  BY <1>2, <1>3, OneRun DEF RunFits

\* A node of the digest, and the output when nothing is left to do: the chats, the
\* document and the deliveries are as they were.
LEMMA NodeKeeps ==
  ASSUME RunsInv, NEW r \in Runs, NEW to, GoTo(r, to),
         UNCHANGED <<record, known, request, at, todo, hooked>>,
         pc[r] \in Gathered \ {"done"},
         to \in {"failed", "selecting"} \/ to \in Gathered \ {"aggregate", "done"},
         pc[r] = "aggregate" /\ to \in Gathered => Succeeded(r) # {},
         to = "complete" => todo[r] = {}
  PROVE  RunsInv' /\ RecordStep
<1>1. pc' = [pc EXCEPT ![r] = to] /\ DOMAIN pc = Runs
  BY DEF GoTo, RunsInv, Domains
<1>2. Domains' /\ OnlyOf(r)
  BY <1>1 DEF RunsInv, Domains, OnlyOf
<1>3. ProgressFits(r) /\ pc'[r] = to
  BY <1>1 DEF RunsInv, RunFits
<1>4. ProgressFits(r)'
  BY <1>3 DEF ProgressFits, Gathered, Succeeded
<1>5. to \notin {"idle", "session", "dispatch", "start"} /\ pc[r] # "done"
  BY DEF Gathered
<1> QED
  BY <1>2, <1>4, <1>5, StepKeeps

-----------------------------------------------------------------------------
(* The steps of the single-chat graphs. *)

LEMMA ChatTouches ==
  ASSUME NEW r \in Runs, NEW c \in Chats, ChatStep(r, c)
  PROVE  /\ UNCHANGED <<record, known, request>>
         /\ \E position : at' = [at EXCEPT ![r][c] = position]
<1> USE DEF trackingVars, MoveTo
<1>1. CASE Reuse(r, c)
  BY <1>1 DEF Reuse
<1>2. CASE Produce(r, c)
  <2>1. CASE LabelMessages(r, c)
    BY <2>1 DEF LabelMessages
  <2>2. CASE GenerateContent(r, c)
    BY <2>2 DEF GenerateContent, StoreOriginal, Write
  <2>3. CASE ExtractMessages(r, c) \/ PreprocessMessages(r, c) \/ TranslateMessages(r, c)
    BY <2>3 DEF ExtractMessages, PreprocessMessages, TranslateMessages, Write
  <2>4. CASE SeparateDiscussions(r, c) \/ RankDiscussions(r, c)
    BY <2>4 DEF SeparateDiscussions, RankDiscussions, Write
  <2>5. CASE EnrichWithLinks(r, c) \/ TranslateFinalSummary(r, c)
    BY <2>5 DEF EnrichWithLinks, TranslateFinalSummary, Write
  <2> QED
    BY <1>2, <2>1, <2>2, <2>3, <2>4, <2>5 DEF Produce
<1>3. CASE Raise(r, c)
  BY <1>3 DEF Raise
<1>4. CASE Store(r, c)
  BY <1>4 DEF Store, StoreRows
<1>5. CASE StoreRaises(r, c)
  BY <1>5 DEF StoreRaises
<1>6. CASE StoreDerived(r, c)
  BY <1>6 DEF StoreDerived
<1>7. CASE LeaveRowsOut(r, c)
  BY <1>7 DEF LeaveRowsOut
<1> QED
  BY <1>1, <1>2, <1>3, <1>4, <1>5, <1>6, <1>7 DEF ChatStep

LEMMA ChatKeeps ==
  ASSUME RunsInv, NEW r \in Runs, NEW c \in request[r].chats, Chat(r, c)
  PROVE  RunsInv' /\ RecordStep
<1>0. c \in Chats
  BY RequestsAssumption DEF RunsInv, Domains
<1>1. /\ UNCHANGED <<record, known, request, pc, todo, hooked>> /\ pc[r] = "chats"
      /\ \E position : at' = [at EXCEPT ![r][c] = position]
  BY <1>0, ChatTouches DEF Chat, runVars
<1>2. DOMAIN at' = Runs /\ \A q \in Runs \ {r} : at'[q] = at[q]
  BY <1>1 DEF RunsInv, Domains
<1>3. Domains' /\ OnlyOf(r)
  BY <1>1, <1>2 DEF RunsInv, Domains, OnlyOf
<1>4. RunFits(r)'
  BY <1>1 DEF RunsInv, RunFits, RecordFits, ProgressFits, Gathered
<1> QED
  BY <1>1, <1>3, <1>4, OneRun DEF RecordStep

-----------------------------------------------------------------------------
(* The orchestrator up to the fan-in. *)

LEMMA AcceptKeeps ==
  ASSUME RunsInv, NEW r \in Runs, Accept(r) PROVE RunsInv' /\ RecordStep
<1>1. /\ UNCHANGED <<record, known, request, at, hooked>> /\ pc[r] = "idle"
      /\ GoTo(r, "session") /\ todo' = [todo EXCEPT ![r] = request[r].actions]
  BY DEF Accept, trackingVars, pipelineVars
<1>2. Domains' /\ OnlyOf(r) /\ pc'[r] = "session" /\ todo'[r] = request[r].actions
  BY <1>1 DEF RunsInv, Domains, OnlyOf, GoTo
<1>3. ProgressFits(r)'
  BY <1>1, <1>2 DEF ProgressFits, Gathered
<1> QED
  BY <1>1, <1>2, <1>3, StepKeeps

LEMMA SessionKeeps ==
  ASSUME RunsInv, NEW r \in Runs, EnsureSession(r) PROVE RunsInv' /\ RecordStep
<1>1. /\ UNCHANGED <<record, known, request, at, todo, hooked>> /\ pc[r] = "session"
      /\ GoTo(r, "dispatch")
  BY DEF EnsureSession, Passes, trackingVars, pipelineVars
<1>2. Domains' /\ OnlyOf(r) /\ pc'[r] = "dispatch"
  BY <1>1 DEF RunsInv, Domains, OnlyOf, GoTo
<1>3. ProgressFits(r)'
  BY <1>1, <1>2 DEF RunsInv, RunFits, ProgressFits, Gathered
<1> QED
  BY <1>1, <1>2, <1>3, StepKeeps

LEMMA CreateKeeps ==
  ASSUME RunsInv, NEW r \in Runs, CreateRun(r) PROVE RunsInv' /\ RecordStep
<1>1. /\ UNCHANGED <<request, at, todo, hooked>> /\ pc[r] = "dispatch" /\ CreateRecord(r)
      /\ GoTo(r, IF known'[r] THEN "start" ELSE "send")
  BY DEF CreateRun, pipelineVars
<1>2. record[r] = "none" /\ known[r] = FALSE
  BY <1>1 DEF RunsInv, RunFits, RecordFits
<1>3. \/ record' = [record EXCEPT ![r] = "pending"] /\ known' = [known EXCEPT ![r] = TRUE]
      \/ record' = [record EXCEPT ![r] = "pending"] /\ known' = known
      \/ record' = record /\ known' = known
  BY <1>1 DEF CreateRecord
<1>4. Domains' /\ OnlyOf(r)
  BY <1>1, <1>3 DEF RunsInv, Domains, OnlyOf, GoTo
<1>5. \/ record'[r] = "pending" /\ known'[r] = TRUE /\ pc'[r] = "start"
      \/ record'[r] \in {"none", "pending"} /\ known'[r] = FALSE /\ pc'[r] = "send"
  BY <1>1, <1>2, <1>3 DEF RunsInv, Domains, GoTo
<1>6. RunFits(r)'
  BY <1>1, <1>5 DEF RunsInv, RunFits, RecordFits, ProgressFits, Gathered
<1>7. RecordStep
  BY <1>2, <1>3 DEF RecordStep, Document!Next, Document!Create
<1> QED
  BY <1>1, <1>4, <1>6, <1>7, OneRun

LEMMA StartKeeps ==
  ASSUME RunsInv, NEW r \in Runs, StartRun(r) PROVE RunsInv' /\ RecordStep
<1>1. /\ UNCHANGED <<request, at, todo, hooked>> /\ pc[r] = "start"
      /\ SetStatus(r, "running") /\ GoTo(r, "send")
  BY DEF StartRun, StartRecord, pipelineVars
<1>2. record[r] = "pending"
  BY <1>1 DEF RunsInv, RunFits, RecordFits
<1>3. known' = known /\ record' \in {record, [record EXCEPT ![r] = "running"]}
  BY <1>1 DEF SetStatus
<1>4. Domains' /\ OnlyOf(r) /\ pc'[r] = "send" /\ record'[r] \in {"pending", "running"}
  BY <1>1, <1>2, <1>3 DEF RunsInv, Domains, OnlyOf, GoTo
<1>5. RunFits(r)'
  BY <1>1, <1>3, <1>4 DEF RunsInv, RunFits, RecordFits, ProgressFits, Gathered
<1>6. RecordStep
  BY <1>2, <1>3 DEF RecordStep, Document!Next, Document!Start
<1> QED
  BY <1>1, <1>4, <1>5, <1>6, OneRun

LEMMA SendKeeps ==
  ASSUME RunsInv, NEW r \in Runs, SendChats(r) PROVE RunsInv' /\ RecordStep
<1>1. /\ UNCHANGED <<record, known, request, todo, hooked>> /\ pc[r] = "send"
      /\ GoTo(r, "chats") /\ \E f : at' = [at EXCEPT ![r] = f]
  BY DEF SendChats, trackingVars
<1>2. Domains' /\ OnlyOf(r) /\ pc'[r] = "chats"
  BY <1>1 DEF RunsInv, Domains, OnlyOf, GoTo
<1>3. ProgressFits(r)'
  BY <1>1, <1>2 DEF RunsInv, RunFits, ProgressFits, Gathered
<1> QED
  BY <1>1, <1>2, <1>3, StepKeeps

LEMMA GatherKeeps ==
  ASSUME RunsInv, NEW r \in Runs, Gather(r) PROVE RunsInv' /\ RecordStep
<1>1. /\ UNCHANGED <<record, known, request, at, todo, hooked>> /\ pc[r] = "chats"
      /\ GoTo(r, "aggregate") /\ \A c \in request[r].chats : at[r][c] \in Settled
  BY DEF Gather, Passes, trackingVars, pipelineVars
<1>2. Domains' /\ OnlyOf(r) /\ pc'[r] = "aggregate"
  BY <1>1 DEF RunsInv, Domains, OnlyOf, GoTo
<1>3. ProgressFits(r)'
  BY <1>1, <1>2 DEF RunsInv, RunFits, ProgressFits, Gathered
<1> QED
  BY <1>1, <1>2, <1>3, StepKeeps

LEMMA AggregateKeeps ==
  ASSUME RunsInv, NEW r \in Runs, Aggregate(r) PROVE RunsInv' /\ RecordStep
<1> DEFINE to == IF request[r].consolidate /\ Cardinality(Succeeded(r)) > 1
                 THEN "consolidate" ELSE "output"
<1>1. /\ UNCHANGED <<record, known, request, at, todo, hooked>> /\ pc[r] = "aggregate"
      /\ GoTo(r, to) /\ Succeeded(r) # {}
  BY DEF Aggregate, Passes, trackingVars, pipelineVars
<1>2. to \in {"consolidate", "output"}
  OBVIOUS
<1> HIDE DEF to
<1> QED
  BY <1>1, <1>2, NodeKeeps DEF Gathered

-----------------------------------------------------------------------------
(* The digest and its delivery. *)

\* A node between the fan-in and the delivery.
LEMMA DigestKeeps ==
  ASSUME RunsInv, NEW r \in Runs,
         \/ Consolidate(r) \/ LeaveUnmerged(r) \/ Merge(r) \/ Rank(r)
         \/ PrepareSelection(r) \/ Generate(r) \/ Enrich(r) \/ StoreEnriched(r)
         \/ Translate(r) \/ StoreTranslated(r)
  PROVE  RunsInv' /\ RecordStep
<1> USE DEF trackingVars, pipelineVars, Gathered
<1>1. CASE Consolidate(r)
  BY <1>1, NodeKeeps DEF Consolidate
<1>2. CASE LeaveUnmerged(r)
  BY <1>2, NodeKeeps DEF LeaveUnmerged, Passes
<1>3. CASE Merge(r)
  BY <1>3, NodeKeeps DEF Merge
<1>4. CASE Rank(r)
  <2>1. AfterRanking(r) \in {"select", "generate"}
    BY DEF AfterRanking
  <2>2. /\ UNCHANGED <<record, known, request, at, todo, hooked>> /\ pc[r] = "rank"
        /\ GoTo(r, AfterRanking(r))
    BY <1>4 DEF Rank, Keeps, Passes, Writes
  <2> QED
    BY <2>1, <2>2, NodeKeeps
<1>5. CASE PrepareSelection(r)
  BY <1>5, NodeKeeps DEF PrepareSelection
<1>6. CASE Generate(r)
  <2>1. /\ UNCHANGED <<record, known, request, at, todo, hooked>> /\ pc[r] = "generate"
        /\ GoTo(r, "enrich")
    BY <1>6 DEF Generate, Keeps, Passes, Writes
  <2> QED
    BY <2>1, NodeKeeps
<1>7. CASE Enrich(r)
  <2>1. /\ UNCHANGED <<record, known, request, at, todo, hooked>> /\ pc[r] = "enrich"
        /\ GoTo(r, "translate") \/ GoTo(r, "enriched")
    BY <1>7 DEF Enrich, Keeps, Passes, Writes
  <2>2. CASE GoTo(r, "translate")
    BY <2>1, <2>2, NodeKeeps
  <2>3. CASE GoTo(r, "enriched")
    BY <2>1, <2>3, NodeKeeps
  <2> QED
    BY <2>1, <2>2, <2>3
<1>8. CASE StoreEnriched(r)
  BY <1>8, NodeKeeps DEF StoreEnriched, StoreDigestVersion
<1>9. CASE Translate(r)
  <2>1. /\ UNCHANGED <<record, known, request, at, todo, hooked>> /\ pc[r] = "translate"
        /\ GoTo(r, "output") \/ GoTo(r, "translated")
    BY <1>9 DEF Translate
  <2>2. CASE GoTo(r, "output")
    BY <2>1, <2>2, NodeKeeps
  <2>3. CASE GoTo(r, "translated")
    BY <2>1, <2>3, NodeKeeps
  <2> QED
    BY <2>1, <2>2, <2>3
<1>10. CASE StoreTranslated(r)
  BY <1>10, NodeKeeps DEF StoreTranslated, StoreDigestVersion
<1> QED
  BY <1>1, <1>2, <1>3, <1>4, <1>5, <1>6, <1>7, <1>8, <1>9, <1>10

\* The webhook is taken off the list only when it has been delivered.
LEMMA OutputKeeps ==
  ASSUME RunsInv, NEW r \in Runs, CallWebhook(r) \/ SendMail(r)
  PROVE  RunsInv' /\ RecordStep
<1>1. PICK action \in {"webhook", "mail"} :
        /\ Settle(r, action)
        /\ hooked' = IF action = "webhook" THEN [hooked EXCEPT ![r] = TRUE] ELSE hooked
  BY DEF CallWebhook, SendMail
<1>2. /\ UNCHANGED <<record, known, request, at, pc>> /\ pc[r] = "output"
      /\ todo' = [todo EXCEPT ![r] = @ \ {action}]
  BY <1>1 DEF Settle, pipelineVars
<1>3. Domains' /\ OnlyOf(r)
  BY <1>1, <1>2 DEF RunsInv, Domains, OnlyOf
<1>4. /\ todo'[r] = todo[r] \ {action}
      /\ hooked'[r] = IF action = "webhook" THEN TRUE ELSE hooked[r]
  BY <1>1, <1>2 DEF RunsInv, Domains
<1>5. RunFits(r)'
  BY <1>2, <1>4 DEF RunsInv, RunFits, RecordFits, ProgressFits, Gathered, Succeeded
<1> QED
  BY <1>2, <1>3, <1>5, OneRun DEF RecordStep

LEMMA DeliverKeeps ==
  ASSUME RunsInv, NEW r \in Runs, Deliver(r) PROVE RunsInv' /\ RecordStep
BY NodeKeeps DEF Deliver, Passes, trackingVars, pipelineVars, Gathered

\* complete_run is the last statement of the graph.
LEMMA CompleteKeeps ==
  ASSUME RunsInv, NEW r \in Runs, CompleteRun(r) PROVE RunsInv' /\ RecordStep
<1>1. /\ UNCHANGED <<request, at, todo, hooked>> /\ pc[r] = "complete"
      /\ CompleteRecord(r) /\ GoTo(r, "done")
  BY DEF CompleteRun, pipelineVars
<1>2. RunFits(r)
  BY DEF RunsInv
<1>3. /\ known' = known
      /\ \/ record' = record
         \/ known[r] /\ record' = [record EXCEPT ![r] = "completed"]
  BY <1>1 DEF CompleteRecord, SetStatus, trackingVars
<1>4. Domains' /\ OnlyOf(r)
  BY <1>1, <1>3 DEF RunsInv, Domains, OnlyOf, GoTo
<1>5. pc'[r] = "done" /\ record'[r] \in {record[r], "completed"}
  BY <1>1, <1>3 DEF RunsInv, Domains, GoTo
<1>6. RunFits(r)'
  <2>1. RecordFits(r)'
    BY <1>1, <1>2, <1>3, <1>5 DEF RunFits, RecordFits
  <2>2. ProgressFits(r)'
    BY <1>1, <1>2, <1>5 DEF RunFits, ProgressFits, Gathered, Succeeded
  <2> QED
    BY <2>1, <2>2 DEF RunFits
<1>7. RecordStep
  <2>1. known[r] => record[r] \in {"pending", "running"}
    BY <1>1, <1>2 DEF RunFits, RecordFits
  <2> QED
    BY <1>3, <2>1 DEF RecordStep, Document!Next, Document!End, Document!Ended
<1> QED
  BY <1>1, <1>4, <1>6, <1>7, OneRun

LEMMA FailsKeeps ==
  ASSUME RunsInv, NEW r \in Runs, Fails(r) PROVE RunsInv' /\ RecordStep
<1>1. /\ UNCHANGED <<record, known, request, at, todo, hooked>> /\ GoTo(r, "failed")
      /\ Blocked(r) \/ Exposed(r)
  BY DEF Fails
<1>2. pc[r] \in {"session", "dispatch", "output"} \cup (Gathered \ {"done"})
  BY <1>1 DEF Blocked, Exposed, Gathered
<1>3. Domains' /\ OnlyOf(r) /\ pc'[r] = "failed"
  BY <1>1 DEF RunsInv, Domains, OnlyOf, GoTo
<1>4. ProgressFits(r)'
  BY <1>1, <1>2, <1>3 DEF RunsInv, RunFits, ProgressFits, Gathered
<1> QED
  BY <1>1, <1>2, <1>3, <1>4, StepKeeps DEF Gathered

\* A crash ends the runs that are alive; the documents stay, and so do chats that ended.
LEMMA CrashKeeps == ASSUME RunsInv, Crash PROVE RunsInv' /\ RecordStep
<1>1. /\ UNCHANGED <<record, known, request, todo, hooked>>
      /\ pc' = [r \in Runs |-> IF Live(r) THEN "lost" ELSE pc[r]]
      /\ at' = [r \in Runs |-> [c \in Chats |->
                  IF at[r][c] \in Busy THEN "lost" ELSE at[r][c]]]
  BY DEF Crash, PipelineCrash
<1>2. Domains'
  BY <1>1 DEF RunsInv, Domains
<1>3. ASSUME NEW r \in Runs PROVE RunFits(r)'
  <2>1. RunFits(r) /\ pc'[r] = IF Live(r) THEN "lost" ELSE pc[r]
    BY <1>1 DEF RunsInv
  <2>2. RecordFits(r)'
    BY <1>1, <2>1 DEF RunFits, RecordFits, Live, Ends
  <2>3. \A c \in request[r].chats : at[r][c] \in Settled => at'[r][c] = at[r][c]
    <3>1. \A p \in Settled : p \notin Busy
      BY DEF Settled, Busy, Nodes, SourceData, Derived
    <3>2. request[r].chats \subseteq Chats
      BY RequestsAssumption DEF RunsInv, Domains
    <3> QED
      BY <1>1, <3>1, <3>2
  <2>4. ProgressFits(r)'
    <3>1. CASE Live(r)
      BY <1>1, <2>1, <3>1 DEF ProgressFits, RunFits, Gathered, Live, Ends
    <3>2. CASE ~Live(r)
      <4>1. pc'[r] = pc[r]
        BY <2>1, <3>2
      <4>2. pc[r] \in Gathered => Succeeded(r)' = Succeeded(r)
        BY <1>1, <2>1, <2>3 DEF RunFits, ProgressFits, Succeeded, Settled
      <4> QED
        BY <1>1, <2>1, <2>3, <4>1, <4>2 DEF RunFits, ProgressFits
    <3> QED
      BY <3>1, <3>2
  <2> QED
    BY <2>2, <2>4 DEF RunFits
<1> QED
  BY <1>1, <1>2, <1>3 DEF RunsInv, RecordStep

LEMMA UserKeeps ==
  ASSUME RunsInv, UNCHANGED <<record, known, request, at, pc, todo, hooked>>
  PROVE  RunsInv' /\ RecordStep
BY DEF RunsInv, Domains, RunFits, RecordFits, ProgressFits, Succeeded, RecordStep

-----------------------------------------------------------------------------
LEMMA Initially == Init => RunsInv /\ Document!Init
<1> SUFFICES ASSUME Init PROVE RunsInv /\ Document!Init
  OBVIOUS
<1> USE DEF Init, TrackingInit, PipelineInit
<1>1. Domains
  BY DEF Domains
<1>2. \A r \in Runs : RunFits(r)
  BY DEF RunFits, RecordFits, ProgressFits, Gathered
<1> QED
  BY <1>1, <1>2 DEF RunsInv, Document!Init

LEMMA StepsKeep == RunsInv /\ [Next]_vars => RunsInv' /\ RecordStep
<1> SUFFICES ASSUME RunsInv, [Next]_vars PROVE RunsInv' /\ RecordStep
  OBVIOUS
<1>1. ASSUME NEW r \in Runs, Accept(r) \/ RunStep(r) PROVE RunsInv' /\ RecordStep
  <2>1. CASE \/ EnsureSession(r) \/ CreateRun(r) \/ StartRun(r) \/ SendChats(r)
             \/ Gather(r) \/ Aggregate(r)
    BY <2>1, SessionKeeps, CreateKeeps, StartKeeps, SendKeeps, GatherKeeps, AggregateKeeps
  <2>2. CASE \E c \in request[r].chats : Chat(r, c)
    BY <2>2, ChatKeeps
  <2>3. CASE \/ Consolidate(r) \/ LeaveUnmerged(r) \/ Merge(r) \/ Rank(r)
             \/ PrepareSelection(r) \/ Generate(r) \/ Enrich(r) \/ StoreEnriched(r)
             \/ Translate(r) \/ StoreTranslated(r)
    BY <2>3, DigestKeeps
  <2>4. CASE CallWebhook(r) \/ SendMail(r) \/ Deliver(r) \/ CompleteRun(r) \/ Fails(r)
    BY <2>4, OutputKeeps, DeliverKeeps, CompleteKeeps, FailsKeeps
  <2>5. CASE Accept(r)
    BY <2>5, AcceptKeeps
  <2> QED
    BY <1>1, <2>1, <2>2, <2>3, <2>4, <2>5 DEF RunStep
<1>2. CASE Crash
  BY <1>2, CrashKeeps
<1>3. CASE SaveSelections \/ GeneratePhase2 \/ Finished \/ UNCHANGED vars
  <2>1. UNCHANGED <<record, known, request, at, pc, todo, hooked>>
    BY <1>3 DEF SaveSelections, GeneratePhase2, UserWrites, Finished, vars, trackingVars,
                pipelineVars, runVars
  <2> QED
    BY <2>1, UserKeeps
<1> QED
  BY <1>1, <1>2, <1>3 DEF Next

\* The run documents implement RunRecord, whatever the order of the runs and of their
\* chats' steps, wherever the store fails and the process dies: a document never leaves
\* its end, never goes back, and is moved by its own run alone.
THEOREM RunsImplementRecord == Spec => ImplementsRunRecord
<1>1. Init => Document!Init
  BY Initially
<1>2. RunsInv /\ [Next]_vars => [Document!Next]_record
  BY StepsKeep DEF RecordStep
<1>3. Spec => []RunsInv
  BY Initially, StepsKeep, PTL DEF Spec
<1> QED
  BY <1>1, <1>2, <1>3, PTL DEF Spec, ImplementsRunRecord, Document!Spec

\* A document says completed only when every chat of the run has ended, one of them well,
\* its webhook has been delivered and nothing is left to do.
THEOREM CompletedIsDelivered == Spec => []CompletedMeansDelivered
<1>1. RunsInv => CompletedMeansDelivered
  BY DEF RunsInv, RunFits, RecordFits, ProgressFits, Gathered, CompletedMeansDelivered
<1>2. Spec => []RunsInv
  BY Initially, StepsKeep, PTL DEF Spec
<1> QED
  BY <1>1, <1>2, PTL
-----------------------------------------------------------------------------
(***************************************************************************)
(* What a run has stored of its chats.  A node that was executed has its   *)
(* rows stored, or is about to store them, or could not read back its      *)
(* file, or its chat has ended badly; and nothing was executed before the  *)
(* run document had its id.                                                *)
(***************************************************************************)
NotBegun == {"idle", "session", "dispatch", "start", "send"}

CorpusFits(r, c) ==
  known[r] =>
    \A n \in Owed(r, c) :
      \/ <<c, StoredIn[n]>> \in saved[r]
      \/ at[r][c] \in {StoredIn[n], "failed", "lost"}

CorpusInv ==
  /\ DOMAIN at = Runs /\ DOMAIN fresh = Runs /\ DOMAIN saved = Runs
  /\ DOMAIN unread = Runs /\ \A r \in Runs : DOMAIN unread[r] = Chats
  /\ DOMAIN known = Runs /\ DOMAIN pc = Runs
  /\ \A r \in Runs : DOMAIN at[r] = Chats /\ DOMAIN fresh[r] = Chats
  /\ \A r \in Runs : pc[r] \in NotBegun => \A c \in Chats : fresh[r][c] = {}
  /\ \A r \in Runs, c \in Chats : CorpusFits(r, c)
  /\ request \in Requests

LEMMA Collections ==
  /\ Storing = {"extract", "preprocess", "translate", "separate"}
  /\ \A n \in Storing : /\ n \in DOMAIN StoredIn /\ n # "final"
                        /\ StoredIn[n] \in SourceData
  /\ \A m, n \in Storing : StoredIn[m] = StoredIn[n] => m = n
  /\ ReadBack \subseteq Storing
  /\ SourceData \cap (Nodes \cup {"label", "failed", "lost"} \cup Derived) = {}
  /\ {"failed", "lost"} \cap (Nodes \cup {"label"} \cup Derived) = {}
BY DEF Storing, StoredIn, SourceData, Nodes, Derived, ReadBack

\* Where a chat is not about to store anything and has not failed, all is stored.
LEMMA AllStored ==
  ASSUME NEW r \in Runs, NEW c \in Chats, CorpusFits(r, c), known[r],
         at[r][c] \in Nodes \cup {"label"} \cup Derived
  PROVE  \A n \in Owed(r, c) : <<c, StoredIn[n]>> \in saved[r]
BY Collections DEF CorpusFits, Owed

\* Steps that leave the chats alone.
LEMMA NoChat ==
  ASSUME CorpusInv, UNCHANGED <<known, saved, at, fresh, unread, request>>,
         DOMAIN pc' = Runs,
         \A r \in Runs : pc'[r] \in NotBegun => pc[r] \in NotBegun
  PROVE  CorpusInv'
BY DEF CorpusInv, CorpusFits, Owed

\* The executed nodes, those of them that could not read back their file, and the
\* stored rows after a step of one chat.
FreshOf(r, c, nodes) ==
  /\ DOMAIN fresh' = Runs /\ \A q \in Runs : DOMAIN fresh'[q] = Chats
  /\ fresh'[r][c] = nodes
  /\ \A q \in Runs, d \in Chats : q # r \/ d # c => fresh'[q][d] = fresh[q][d]

UnreadOf(r, c, left) ==
  /\ DOMAIN unread' = Runs /\ \A q \in Runs : DOMAIN unread'[q] = Chats
  /\ unread'[r][c] = left
  /\ \A q \in Runs, d \in Chats : q # r \/ d # c => unread'[q][d] = unread[q][d]

SavedOf(r, rows) ==
  /\ DOMAIN saved' = Runs
  /\ \A q \in Runs : saved[q] \subseteq saved'[q]
  /\ rows \subseteq saved'[r]

LEMMA SameFresh ==
  ASSUME CorpusInv, fresh' = fresh, NEW r \in Runs, NEW c \in Chats
  PROVE  FreshOf(r, c, fresh[r][c])
BY DEF CorpusInv, FreshOf

LEMMA SameUnread ==
  ASSUME CorpusInv, unread' = unread, NEW r \in Runs, NEW c \in Chats
  PROVE  UnreadOf(r, c, unread[r][c])
BY DEF CorpusInv, UnreadOf

LEMMA SameSaved ==
  ASSUME CorpusInv, saved' = saved, NEW r \in Runs
  PROVE  SavedOf(r, saved[r])
BY DEF CorpusInv, SavedOf

\* A step of one chat.
LEMMA ChatAlone ==
  ASSUME CorpusInv, NEW r \in Runs, NEW c \in Chats, pc[r] = "chats",
         UNCHANGED <<pc, known, request>>,
         NEW position, at' = [at EXCEPT ![r][c] = position],
         NEW nodes, FreshOf(r, c, nodes), NEW rows, SavedOf(r, rows),
         NEW left, UnreadOf(r, c, left),
         known[r] => \A n \in (nodes \cap Storing) \ left :
           <<c, StoredIn[n]>> \in rows \/ position \in {StoredIn[n], "failed", "lost"}
  PROVE  CorpusInv'
<1>1. DOMAIN at' = Runs /\ \A q \in Runs : DOMAIN at'[q] = Chats
  BY DEF CorpusInv
<1>2. at'[r][c] = position
  BY DEF CorpusInv
<1>3. ASSUME NEW q \in Runs, NEW d \in Chats, q # r \/ d # c
      PROVE  /\ at'[q][d] = at[q][d] /\ fresh'[q][d] = fresh[q][d]
             /\ unread'[q][d] = unread[q][d]
  BY <1>3 DEF CorpusInv, FreshOf, UnreadOf
<1>4. ASSUME NEW q \in Runs, NEW d \in Chats PROVE CorpusFits(q, d)'
  <2>1. CASE q = r /\ d = c
    BY <1>2, <2>1 DEF CorpusFits, Owed, FreshOf, UnreadOf, SavedOf
  <2>2. CASE q # r \/ d # c
    <3>1. CorpusFits(q, d) /\ known'[q] = known[q] /\ saved[q] \subseteq saved'[q]
      BY DEF CorpusInv, SavedOf
    <3>2. /\ at'[q][d] = at[q][d] /\ fresh'[q][d] = fresh[q][d]
          /\ unread'[q][d] = unread[q][d]
      BY <1>3, <2>2
    <3> QED
      BY <3>1, <3>2 DEF CorpusFits, Owed
  <2> QED
    BY <2>1, <2>2
<1>5. ASSUME NEW q \in Runs, pc'[q] \in NotBegun, NEW d \in Chats PROVE fresh'[q][d] = {}
  <2>1. q # r
    BY <1>5 DEF NotBegun
  <2> QED
    BY <1>3, <1>5, <2>1 DEF CorpusInv
<1> QED
  BY <1>1, <1>4, <1>5 DEF CorpusInv, FreshOf, UnreadOf, SavedOf

\* A chat that moves on from where it has nothing to store.
LEMMA MoveFits ==
  ASSUME CorpusInv, NEW r \in Runs, NEW c \in Chats, pc[r] = "chats",
         UNCHANGED <<pc, known, request, saved, fresh, unread>>,
         at[r][c] \in Nodes \cup {"label"} \cup Derived,
         NEW position, MoveTo(r, c, position)
  PROVE  CorpusInv'
<1>1. /\ FreshOf(r, c, fresh[r][c]) /\ UnreadOf(r, c, unread[r][c])
      /\ SavedOf(r, saved[r])
  BY SameFresh, SameUnread, SameSaved
<1>2. known[r] => \A n \in (fresh[r][c] \cap Storing) \ unread[r][c] :
                    <<c, StoredIn[n]>> \in saved[r]
  BY AllStored DEF CorpusInv, Owed
<1>3. at' = [at EXCEPT ![r][c] = position] /\ UNCHANGED <<pc, known, request>>
  BY DEF MoveTo
<1> QED
  BY <1>1, <1>2, <1>3, ChatAlone

\* A node that is executed stores its rows next, if it has any.
LEMMA WriteFits ==
  ASSUME CorpusInv, NEW r \in Runs, NEW c \in Chats, pc[r] = "chats",
         NEW n \in Nodes, NEW of, Write(r, c, n, of), UNCHANGED <<pc, known, saved>>
  PROVE  CorpusInv'
<1> DEFINE position == IF Stores(r, n) THEN StoredIn[n] ELSE Onward(r, n)
           nodes == fresh[r][c] \cup {n}
<1>1. /\ at[r][c] = n /\ request' = request /\ unread' = unread
      /\ at' = [at EXCEPT ![r][c] = position]
      /\ fresh' = [fresh EXCEPT ![r][c] = nodes]
  BY DEF Write, MoveTo, CorpusInv
<1>2. FreshOf(r, c, nodes)
  BY <1>1 DEF CorpusInv, FreshOf
<1>3. SavedOf(r, saved[r]) /\ UnreadOf(r, c, unread[r][c])
  BY <1>1, SameSaved, SameUnread
<1>4. known[r] => \A m \in (fresh[r][c] \cap Storing) \ unread[r][c] :
                    <<c, StoredIn[m]>> \in saved[r]
  BY <1>1, AllStored DEF CorpusInv, Owed
<1>5. known[r] /\ n \in Storing => position = StoredIn[n]
  BY Collections DEF Stores
<1>6. known[r] => \A m \in (nodes \cap Storing) \ unread[r][c] :
        <<c, StoredIn[m]>> \in saved[r] \/ position \in {StoredIn[m], "failed", "lost"}
  BY <1>4, <1>5
<1>7. UNCHANGED <<pc, known, request>>
  BY <1>1
<1> HIDE DEF position, nodes
<1> QED
  BY <1>1, <1>2, <1>3, <1>6, <1>7, ChatAlone

LEMMA StoreFits ==
  ASSUME CorpusInv, NEW r \in Runs, NEW c \in Chats, pc[r] = "chats",
         Store(r, c) \/ LeaveRowsOut(r, c) \/ StoreRaises(r, c), UNCHANGED pc
  PROVE  CorpusInv'
<1>1. UNCHANGED <<pc, known, request, fresh>> /\ at[r][c] \in SourceData
  BY Collections DEF Store, LeaveRowsOut, StoreRaises, StoreRows
<1>2. FreshOf(r, c, fresh[r][c])
  BY <1>1, SameFresh
<1>3. CASE Store(r, c)
  <2> DEFINE rows == saved[r] \cup {<<c, at[r][c]>>}
             position == Onward(r, at[r][c])
  <2>1. at' = [at EXCEPT ![r][c] = position] /\ saved' = [saved EXCEPT ![r] = rows]
    BY <1>3 DEF Store, StoreRows, MoveTo, CorpusInv
  <2>2. SavedOf(r, rows) /\ UnreadOf(r, c, unread[r][c])
    BY <1>3, <2>1, SameUnread DEF Store, CorpusInv, SavedOf
  <2>3. known[r] => \A n \in (fresh[r][c] \cap Storing) \ unread[r][c] :
                      <<c, StoredIn[n]>> \in rows
    BY <1>1, Collections DEF CorpusInv, CorpusFits, Owed
  <2> HIDE DEF rows, position
  <2> QED
    BY <1>1, <1>2, <2>1, <2>2, <2>3, ChatAlone
<1>4. CASE LeaveRowsOut(r, c)
  <2> DEFINE position == Onward(r, at[r][c])
  <2>1. PICK n \in ReadBack : at[r][c] = StoredIn[n] /\ saved' = saved
                              /\ unread' = [unread EXCEPT ![r][c] = @ \cup {n}]
    BY <1>4 DEF LeaveRowsOut
  <2> DEFINE left == unread[r][c] \cup {n}
  <2>2. at' = [at EXCEPT ![r][c] = position]
    BY <1>4 DEF LeaveRowsOut, MoveTo
  <2>3. SavedOf(r, saved[r]) /\ UnreadOf(r, c, left)
    BY <2>1, SameSaved DEF CorpusInv, UnreadOf
  <2>4. known[r] => \A m \in (fresh[r][c] \cap Storing) \ left :
                      <<c, StoredIn[m]>> \in saved[r]
    BY <1>1, <2>1, Collections DEF CorpusInv, CorpusFits, Owed
  <2> HIDE DEF left, position
  <2> QED
    BY <1>1, <1>2, <2>2, <2>3, <2>4, ChatAlone
<1>5. CASE StoreRaises(r, c)
  <2>1. /\ at' = [at EXCEPT ![r][c] = "failed"] /\ SavedOf(r, saved[r])
        /\ UnreadOf(r, c, unread[r][c])
    BY <1>5, SameSaved, SameUnread DEF StoreRaises, MoveTo
  <2> QED
    BY <1>1, <1>2, <2>1, ChatAlone
<1> QED
  BY <1>3, <1>4, <1>5

LEMMA ChatFits ==
  ASSUME CorpusInv, NEW r \in Runs, NEW c \in request[r].chats, Chat(r, c)
  PROVE  CorpusInv'
<1>1. c \in Chats
  BY RequestsAssumption DEF CorpusInv
<1>2. pc[r] = "chats" /\ UNCHANGED pc /\ ChatStep(r, c)
  BY DEF Chat, runVars
<1> USE DEF trackingVars
<1>3. CASE Reuse(r, c)
  BY <1>1, <1>2, <1>3, MoveFits DEF Reuse
<1>4. CASE LabelMessages(r, c)
  BY <1>1, <1>2, <1>4, MoveFits DEF LabelMessages
<1>5. CASE Raise(r, c)
  BY <1>1, <1>2, <1>5, MoveFits DEF Raise
<1>6. CASE StoreDerived(r, c)
  BY <1>1, <1>2, <1>6, MoveFits DEF StoreDerived
<1>7. CASE Store(r, c) \/ LeaveRowsOut(r, c) \/ StoreRaises(r, c)
  BY <1>1, <1>2, <1>7, StoreFits
<1>8. CASE GenerateContent(r, c)
  <2>1. UNCHANGED <<known, saved>> /\ "generate" \in Nodes
    BY <1>8 DEF GenerateContent, StoreOriginal, Nodes
  <2> QED
    BY <1>1, <1>2, <1>8, <2>1, WriteFits DEF GenerateContent
<1>9. CASE ExtractMessages(r, c) \/ PreprocessMessages(r, c) \/ TranslateMessages(r, c)
  BY <1>1, <1>2, <1>9, WriteFits
     DEF ExtractMessages, PreprocessMessages, TranslateMessages, Nodes
<1>10. CASE SeparateDiscussions(r, c) \/ RankDiscussions(r, c)
  BY <1>1, <1>2, <1>10, WriteFits DEF SeparateDiscussions, RankDiscussions, Nodes
<1>11. CASE EnrichWithLinks(r, c) \/ TranslateFinalSummary(r, c)
  BY <1>1, <1>2, <1>11, WriteFits DEF EnrichWithLinks, TranslateFinalSummary, Nodes
<1> QED
  BY <1>2, <1>3, <1>4, <1>5, <1>6, <1>7, <1>8, <1>9, <1>10, <1>11 DEF ChatStep, Produce

\* The orchestrator before the fan-out: nothing has been executed.
LEMMA DispatchFits ==
  ASSUME CorpusInv, NEW r \in Runs, CreateRun(r) \/ StartRun(r) \/ SendChats(r)
  PROVE  CorpusInv'
<1>1. CASE StartRun(r)
  <2>1. UNCHANGED <<known, saved, at, fresh, unread, request>> /\ pc[r] = "start"
        /\ pc' = [pc EXCEPT ![r] = "send"]
    BY <1>1 DEF StartRun, StartRecord, SetStatus, GoTo, pipelineVars
  <2> QED
    BY <2>1, NoChat DEF CorpusInv, NotBegun
<1>2. CASE CreateRun(r)
  <2>1. UNCHANGED <<saved, at, fresh, unread, request>> /\ pc[r] = "dispatch"
        /\ \E to : pc' = [pc EXCEPT ![r] = to]
        /\ known' \in {known, [known EXCEPT ![r] = TRUE]}
    BY <1>2 DEF CreateRun, CreateRecord, GoTo, pipelineVars
  <2>2. \A c \in Chats : fresh[r][c] = {}
    BY <2>1 DEF CorpusInv, NotBegun
  <2>3. \A q \in Runs : q # r => pc'[q] = pc[q] /\ known'[q] = known[q]
    BY <2>1 DEF CorpusInv
  <2>4. \A q \in Runs, c \in Chats : CorpusFits(q, c)'
    BY <2>1, <2>2, <2>3 DEF CorpusInv, CorpusFits, Owed
  <2>5. \A q \in Runs : pc'[q] \in NotBegun => \A c \in Chats : fresh'[q][c] = {}
    BY <2>1, <2>2, <2>3 DEF CorpusInv
  <2> QED
    BY <2>1, <2>4, <2>5 DEF CorpusInv
<1>3. CASE SendChats(r)
  <2>1. UNCHANGED <<known, saved, fresh, unread, request>> /\ pc[r] = "send"
        /\ pc' = [pc EXCEPT ![r] = "chats"]
        /\ at' = [at EXCEPT ![r] = [c \in Chats |-> IF c \in request[r].chats
                                                    THEN "extract" ELSE at[r][c]]]
    BY <1>3 DEF SendChats, GoTo, trackingVars, CorpusInv
  <2>2. \A c \in Chats : fresh[r][c] = {}
    BY <2>1 DEF CorpusInv, NotBegun
  <2>3. \A q \in Runs : q # r => pc'[q] = pc[q] /\ at'[q] = at[q]
    BY <2>1 DEF CorpusInv
  <2>4. DOMAIN at' = Runs /\ DOMAIN pc' = Runs /\ \A q \in Runs : DOMAIN at'[q] = Chats
    BY <2>1 DEF CorpusInv
  <2>5. \A q \in Runs, c \in Chats : CorpusFits(q, c)'
    BY <2>1, <2>2, <2>3 DEF CorpusInv, CorpusFits, Owed
  <2>6. \A q \in Runs : pc'[q] \in NotBegun => \A c \in Chats : fresh'[q][c] = {}
    BY <2>1, <2>2, <2>3 DEF CorpusInv
  <2> QED
    BY <2>1, <2>4, <2>5, <2>6 DEF CorpusInv
<1> QED
  BY <1>1, <1>2, <1>3

\* Every other step of a run moves it on and leaves its chats alone.
LEMMA OtherFits ==
  ASSUME CorpusInv, NEW r \in Runs,
         \/ Accept(r) \/ EnsureSession(r) \/ Gather(r) \/ Aggregate(r)
         \/ Consolidate(r) \/ LeaveUnmerged(r) \/ Merge(r) \/ Rank(r)
         \/ PrepareSelection(r) \/ Generate(r) \/ Enrich(r) \/ StoreEnriched(r)
         \/ Translate(r) \/ StoreTranslated(r)
         \/ CallWebhook(r) \/ SendMail(r) \/ Deliver(r) \/ CompleteRun(r) \/ Fails(r)
  PROVE  CorpusInv'
<1> USE DEF trackingVars, pipelineVars
<1> DEFINE Kept == UNCHANGED <<known, saved, at, fresh, unread, request>>
           Leads == \/ UNCHANGED pc
                    \/ \E to : GoTo(r, to) /\ (to \notin NotBegun \/ pc[r] \in NotBegun)
<1>1. ASSUME \/ Accept(r) \/ EnsureSession(r) \/ Gather(r) \/ LeaveUnmerged(r)
             \/ Deliver(r)
      PROVE  Kept /\ Leads
  BY <1>1 DEF Accept, EnsureSession, Gather, LeaveUnmerged, Deliver, Passes, NotBegun
<1>2. ASSUME Aggregate(r) PROVE Kept /\ Leads
  BY <1>2 DEF Aggregate, Passes, NotBegun
<1>3. ASSUME Consolidate(r) \/ Merge(r) \/ PrepareSelection(r) PROVE Kept /\ Leads
  BY <1>3 DEF Consolidate, Merge, PrepareSelection, NotBegun
<1>4. ASSUME Rank(r) PROVE Kept /\ Leads
  BY <1>4 DEF Rank, AfterRanking, Keeps, Passes, Writes, NotBegun
<1>5. ASSUME Generate(r) PROVE Kept /\ Leads
  BY <1>5 DEF Generate, Keeps, Passes, Writes, NotBegun
<1>6. ASSUME Enrich(r) PROVE Kept /\ Leads
  BY <1>6 DEF Enrich, Keeps, Passes, Writes, NotBegun
<1>7. ASSUME StoreEnriched(r) \/ StoreTranslated(r) PROVE Kept /\ Leads
  BY <1>7 DEF StoreEnriched, StoreTranslated, StoreDigestVersion, NotBegun
<1>8. ASSUME Translate(r) PROVE Kept /\ Leads
  BY <1>8 DEF Translate, NotBegun
<1>9. ASSUME CallWebhook(r) \/ SendMail(r) PROVE Kept /\ Leads
  BY <1>9 DEF CallWebhook, SendMail, Settle
<1>10. ASSUME CompleteRun(r) PROVE Kept /\ Leads
  BY <1>10 DEF CompleteRun, CompleteRecord, SetStatus, NotBegun
<1>11. ASSUME Fails(r) PROVE Kept /\ Leads
  BY <1>11 DEF Fails, NotBegun
<1>12. Kept /\ Leads
  BY <1>1, <1>2, <1>3, <1>4, <1>5, <1>6, <1>7, <1>8, <1>9, <1>10, <1>11
<1>13. DOMAIN pc' = Runs /\ \A q \in Runs : pc'[q] \in NotBegun => pc[q] \in NotBegun
  BY <1>12 DEF CorpusInv, GoTo
<1> QED
  BY <1>12, <1>13, NoChat

\* A chat that is cut short by a crash is not one that succeeded.
LEMMA CrashFits ==
  ASSUME CorpusInv, Crash PROVE CorpusInv'
<1>1. /\ UNCHANGED <<known, saved, fresh, unread, request>>
      /\ pc' = [r \in Runs |-> IF Live(r) THEN "lost" ELSE pc[r]]
      /\ at' = [r \in Runs |-> [c \in Chats |->
                  IF at[r][c] \in Busy THEN "lost" ELSE at[r][c]]]
  BY DEF Crash, PipelineCrash
<1>2. \A r \in Runs, c \in Chats : at'[r][c] \in {at[r][c], "lost"}
  BY <1>1
<1>3. \A r \in Runs, c \in Chats : CorpusFits(r, c)'
  BY <1>1, <1>2 DEF CorpusInv, CorpusFits, Owed
<1>4. \A r \in Runs : pc'[r] \in NotBegun => pc[r] \in NotBegun
  BY <1>1 DEF NotBegun
<1> QED
  BY <1>1, <1>3, <1>4 DEF CorpusInv

(***************************************************************************)
(* A chat that a run reports as successful has, under the run's id, the    *)
(* rows of every node that the run executed for it and that could read     *)
(* back its file: for any chats, files found, store errors, files that     *)
(* cannot be read back and crashes (the fail-hard stores of the            *)
(* single-chat graph).                                                     *)
(***************************************************************************)
THEOREM CorpusComplete == Spec => []CorpusIsComplete
<1>1. Init => CorpusInv
  BY DEF Init, TrackingInit, PipelineInit, CorpusInv, CorpusFits, Owed
<1>2. CorpusInv /\ [Next]_vars => CorpusInv'
  <2> SUFFICES ASSUME CorpusInv, [Next]_vars PROVE CorpusInv'
    OBVIOUS
  <2>1. ASSUME NEW r \in Runs, Accept(r) \/ RunStep(r) PROVE CorpusInv'
    BY <2>1, ChatFits, DispatchFits, OtherFits DEF RunStep
  <2>2. CASE SaveSelections \/ GeneratePhase2
    BY <2>2, NoChat DEF SaveSelections, GeneratePhase2, UserWrites, trackingVars,
                        pipelineVars, CorpusInv
  <2>3. CASE UNCHANGED vars
    BY <2>3, NoChat DEF vars, trackingVars, pipelineVars, runVars, CorpusInv
  <2> QED
    BY <2>1, <2>2, <2>3, CrashFits DEF Next, Finished
<1>3. ASSUME CorpusInv PROVE CorpusIsComplete
  <2> SUFFICES ASSUME NEW r \in Runs, NEW c \in Chats, at[r][c] = "succeeded", known[r],
                      NEW n \in Owed(r, c)
               PROVE  <<c, StoredIn[n]>> \in saved[r]
    BY DEF CorpusIsComplete
  <2>1. CorpusFits(r, c)
    BY <1>3 DEF CorpusInv
  <2>2. StoredIn[n] # "succeeded"
    BY Collections DEF SourceData, Owed
  <2> QED
    BY <2>1, <2>2 DEF CorpusFits
<1> QED
  BY <1>1, <1>2, <1>3, PTL DEF Spec

-----------------------------------------------------------------------------
(***************************************************************************)
(* Types.  A digest is typed by the discussions it has, and Featured and   *)
(* the mail take them from files that must be there: so the invariant says *)
(* which files the node a run is at has found or written.  Files are never *)
(* removed, so that another run, or a crash, takes nothing of this away.   *)
(***************************************************************************)

\* The positions of a chat before its discussions may have been labelled.
Unlabelled == {"idle", "extract", "raw_messages", "preprocess", "polls", "translate",
               "messages", "separate", "raw_discussions", "label"}

ChatReady(r, c) ==
  /\ pc[r] \in NotBegun => at[r][c] = "idle"
  /\ at[r][c] \in Busy => pc[r] = "chats" /\ c \in request[r].chats
  /\ at[r][c] \in Unlabelled => reads[r][c] = "separate"
  /\ at[r][c] \in {"translated", "succeeded"} => FileOf(r, c, "final") # None

DigestReady(r) ==
  /\ pc[r] = "merge" => source[r] = "aggregated" /\ digest["aggregated"] # None
  /\ pc[r] \in {"rank", "select", "generate"} => digest[source[r]] # None
  /\ pc[r] \in {"select", "generate"} => digest["ranking"] # None
  /\ pc[r] = "enrich" => digest["newsletter"] # None
  /\ pc[r] \in {"enriched", "translate"} => digest["enriched"] # None
  /\ digested[r] => digest["final"] # None
  /\ digested[r] => pc[r] \in {"translated", "output", "complete"} \cup Ends

ReadyInv ==
  /\ TypeOK
  /\ \A r \in Runs : DigestReady(r)
  /\ \A r \in Runs, c \in Chats : ChatReady(r, c)

\* Files are there for good.
FilesStay ==
  \A d \in Places, c \in Chats, n \in Files : file[d][c][n] # None => file'[d][c][n] # None

DigestStays == \A f \in DigestFiles : digest[f] # None => digest'[f] # None

Content == Runs \cup {None, Torn}

LEMMA NoContent ==
  /\ \A r \in Runs : r # None /\ r # Torn
  /\ \A ds \in Gatherings : ds # None /\ ds # Torn
  /\ \A ids \in IdLists : ids # None /\ ids # Torn
  /\ None # Torn /\ Digest \notin Chats
BY ContentAssumption

LEMMA IsDiscussion ==
  /\ \A d \in SUBSET (Chats \X Runs) :
       d # {} /\ (\A p, q \in d : p[1] = q[1] => p = q) => d \in Discussions
  /\ \A d \in Discussions : /\ d # {} /\ d \subseteq Chats \X Runs
                            /\ \A p, q \in d : p[1] = q[1] => p = q
BY Zenon DEF Discussions

\* Fewer discussions of a digest are discussions of a digest.
LEMMA SomeOf ==
  ASSUME NEW ds \in Gatherings, NEW some, some \subseteq ds PROVE some \in Gatherings
<1>1. CASE some = {}
  BY <1>1 DEF Gatherings
<1>2. CASE some # {}
  <2>1. CASE \E d \in Discussions : ds = {d}
    <3>1. some = ds
      BY <1>2, <2>1
    <3> QED
      BY <3>1
  <2>2. ASSUME NEW d \in Discussions, ds = {{p} : p \in d} PROVE some \in Gatherings
    <3> DEFINE e == {p \in d : {p} \in some}
    <3>1. \A x \in some : \E p \in d : x = {p}
      BY <2>2
    <3>2. some = {{p} : p \in e}
      <4>1. \A x \in some : x \in {{p} : p \in e}
        BY <3>1
      <4>2. \A x \in {{p} : p \in e} : x \in some
        OBVIOUS
      <4> QED
        BY <4>1, <4>2
    <3>3. e # {}
      BY <1>2, <3>2
    <3>4. e \in Discussions
      BY <3>3, IsDiscussion
    <3> QED
      BY <3>2, <3>4 DEF Gatherings
  <2> QED
    BY <1>2, <2>1, <2>2 DEF Gatherings
<1> QED
  BY <1>1, <1>2

LEMMA SingleChat ==
  ASSUME NEW c \in Chats, NEW r \in Runs PROVE {{<<c, r>>}} \in Gatherings
<1> DEFINE d == {<<c, r>>}
<1>1. d \in SUBSET (Chats \X Runs)
  OBVIOUS
<1>2. d # {} /\ \A p, q \in d : p[1] = q[1] => p = q
  OBVIOUS
<1>3. d \in Discussions
  <2> HIDE DEF d
  <2> QED
    BY <1>1, <1>2, IsDiscussion
<1> QED
  BY <1>3, Zenon DEF Gatherings

\* One discussion of each of some chats.
LEMMA OneOfEach ==
  ASSUME NEW S \in SUBSET Chats, NEW of, \A c \in S : of[c] \in Runs
  PROVE  {{<<c, of[c]>>} : c \in S} \in Gatherings
<1> DEFINE d == {<<c, of[c]>> : c \in S}
<1>1. CASE S = {}
  BY <1>1 DEF Gatherings
<1>2. CASE S # {}
  <2>1. d \in SUBSET (Chats \X Runs)
    OBVIOUS
  <2>0. d # {}
    BY <1>2
  <2>2. \A p, q \in d : p[1] = q[1] => p = q
    OBVIOUS
  <2>3. d \in Discussions
    BY <2>0, <2>1, <2>2, IsDiscussion, Zenon
  <2>4. {{<<c, of[c]>>} : c \in S} = {{p} : p \in d}
    OBVIOUS
  <2> QED
    BY <2>3, <2>4 DEF Gatherings
<1> QED
  BY <1>1, <1>2

\* What the merge of more than one discussion makes.
LEMMA Merged ==
  ASSUME NEW ds \in Gatherings, Cardinality(ds) > 1
  PROVE  {UNION ds} \in Gatherings
<1>1. \A d : ds # {d}
  <2> SUFFICES ASSUME NEW d, ds = {d} PROVE FALSE
    OBVIOUS
  <2>1. Cardinality(ds) = 1
    BY FS_Singleton
  <2> QED
    BY <2>1
<1>2. ds # {}
  BY FS_EmptySet
<1>3. PICK d \in Discussions : ds = {{p} : p \in d}
  BY <1>1, <1>2 DEF Gatherings
<1>4. UNION ds = d
  BY <1>3
<1> QED
  BY <1>4 DEF Gatherings

LEMMA IdsType == ASSUME NEW ds \in Gatherings PROVE Ids(ds) \subseteq (SUBSET Chats) \ {{}}
<1>1. \A d \in Discussions : d # {} /\ d \subseteq Chats \X Runs
  BY IsDiscussion
<1>2. ASSUME NEW d \in ds PROVE d # {} /\ d \subseteq Chats \X Runs
  <2>1. CASE \E b \in Discussions : ds = {{p} : p \in b}
    BY <1>1, <2>1
  <2>2. CASE \E b \in Discussions : ds = {b}
    BY <1>1, <2>2
  <2> QED
    BY <2>1, <2>2 DEF Gatherings
<1> SUFFICES ASSUME NEW d \in ds PROVE Id(d) \in (SUBSET Chats) \ {{}}
  BY DEF Ids
<1>3. d # {} /\ d \subseteq Chats \X Runs
  BY <1>2
<1>4. \A p \in d : p[1] \in Chats
  BY <1>3
<1>5. Id(d) \subseteq Chats
  BY <1>4 DEF Id
<1>6. Id(d) # {}
  BY <1>3 DEF Id
<1> QED
  BY <1>5, <1>6

\* The positions that follow a node or a write, in the graph of a chat.
LEMMA Routes ==
  ASSUME NEW r
  PROVE  /\ Onward(r, "extract") = "preprocess" /\ Onward(r, "raw_messages") = "preprocess"
         /\ Onward(r, "preprocess") = "translate" /\ Onward(r, "polls") = "translate"
         /\ Onward(r, "translate") = "separate" /\ Onward(r, "messages") = "separate"
         /\ Onward(r, "separate") \in {"label", "rank"}
         /\ Onward(r, "raw_discussions") \in {"label", "rank"}
         /\ Onward(r, "rank") = "generate" /\ Onward(r, "generate") = "enrich"
         /\ Onward(r, "enrich") = "final" /\ Onward(r, "final") = "succeeded"
         /\ After["label"] = "rank" /\ After["enriched"] = "final"
         /\ After["translated"] = "succeeded"
BY DEF Onward, After

\* Where a node that has written its file goes.
Next1(r, n) == IF Stores(r, n) THEN StoredIn[n] ELSE Onward(r, n)

LEMMA WriteRoutes ==
  ASSUME NEW r
  PROVE  /\ Next1(r, "extract") \in {"raw_messages", "preprocess"}
         /\ Next1(r, "preprocess") \in {"polls", "translate"}
         /\ Next1(r, "translate") \in {"messages", "separate"}
         /\ Next1(r, "separate") \in {"raw_discussions", "label", "rank"}
         /\ Next1(r, "rank") = "generate"
         /\ Next1(r, "generate") = "enrich"
         /\ Next1(r, "enrich") \in {"enriched", "final"}
         /\ Next1(r, "final") \in {"translated", "succeeded"}
<1>1. /\ StoredIn["extract"] = "raw_messages" /\ StoredIn["preprocess"] = "polls"
      /\ StoredIn["translate"] = "messages" /\ StoredIn["separate"] = "raw_discussions"
      /\ StoredIn["enrich"] = "enriched" /\ StoredIn["final"] = "translated"
      /\ "rank" \notin DOMAIN StoredIn /\ "generate" \notin DOMAIN StoredIn
  BY DEF StoredIn
<1> QED
  BY <1>1, Routes DEF Next1, Stores

\* A position other than idle; the chat has a directory.
LEMMA Names ==
  /\ Nodes = {"extract", "preprocess", "translate", "separate", "rank", "generate",
              "enrich", "final"}
  /\ Busy = Nodes \cup {"label", "raw_messages", "polls", "messages", "raw_discussions",
                        "enriched", "translated"}
  /\ Positions = Busy \cup {"idle", "succeeded", "failed", "lost"}
  /\ Files = Nodes \cup {"labelled"}
  /\ Settled = {"succeeded", "failed"}
  /\ \A r : Place(r) \in Places
BY DEF Nodes, Busy, SourceData, Derived, Positions, Files, Settled, Place, Places

\* A step of one chat, from what it changes.
LEMMA ChatMoves ==
  ASSUME ReadyInv, NEW r \in Runs, NEW c \in Chats, c \in request[r].chats,
         pc[r] = "chats", UNCHANGED <<runVars, request>>,
         NEW position \in Positions \ {"idle"}, MoveTo(r, c, position),
         TrackingTypeOK', ArchiveTypeOK', FilesStay,
         file' \in [Places -> [Chats -> [Files -> Content]]],
         fresh' \in [Runs -> [Chats -> SUBSET Nodes]],
         unread' \in [Runs -> [Chats -> SUBSET ReadBack]],
         NEW where \in {"separate", "labelled"}, reads' = [reads EXCEPT ![r][c] = where],
         position \in Unlabelled => where = "separate",
         position \in {"translated", "succeeded"} => file'[Place(r)][c]["final"] # None
  PROVE  ReadyInv'
<1> USE Names
<1>1. /\ at \in [Runs -> [Chats -> Positions]] /\ request \in Requests
      /\ reads \in [Runs -> [Chats -> {"separate", "labelled"}]]
  BY DEF ReadyInv, TypeOK, PipelineTypeOK
<1>2. /\ at' \in [Runs -> [Chats -> Positions]]
      /\ reads' \in [Runs -> [Chats -> {"separate", "labelled"}]]
  BY <1>1 DEF MoveTo
<1>3. PipelineTypeOK'
  BY <1>1, <1>2 DEF PipelineTypeOK, Content
<1>4. RunTypeOK'
  BY DEF ReadyInv, TypeOK, RunTypeOK, runVars
<1>5. \A q \in Runs : DigestReady(q)'
  BY DEF ReadyInv, DigestReady, runVars
<1>6. ASSUME NEW q \in Runs, NEW d \in Chats PROVE ChatReady(q, d)'
  <2>1. ChatReady(q, d) /\ pc' = pc /\ Place(q)' = Place(q)
    BY DEF ReadyInv, runVars, Place, Consolidates
  <2>2. CASE q = r /\ d = c
    <3>1. at'[r][c] = position /\ reads'[r][c] = where
      BY <1>1 DEF MoveTo
    <3> QED
      BY <2>1, <2>2, <3>1 DEF ChatReady, NotBegun, FileOf
  <2>3. CASE q # r \/ d # c
    <3>1. at'[q][d] = at[q][d] /\ reads'[q][d] = reads[q][d]
      BY <1>1, <2>3 DEF MoveTo
    <3>2. FileOf(q, d, "final") # None => FileOf(q, d, "final")' # None
      BY <2>1 DEF FilesStay, FileOf
    <3> QED
      BY <2>1, <3>1, <3>2 DEF ChatReady
  <2> QED
    BY <2>2, <2>3
<1> QED
  BY <1>3, <1>4, <1>5, <1>6 DEF ReadyInv, TypeOK

\* What the inputs of a node hold, where it can read them.
LEMMA InputsAreRuns ==
  ASSUME ReadyInv, NEW r \in Runs, NEW c \in Chats
  PROVE  /\ DiscussionsOf(r, c) \in Content
         /\ \A n \in Files : FileOf(r, c, n) \in Content
         /\ \A n \in Nodes : Readable(r, c, n) =>
              /\ n = "preprocess" => FileOf(r, c, "extract") \in Runs
              /\ n = "translate" => FileOf(r, c, "preprocess") \in Runs
              /\ n = "separate" => FileOf(r, c, "translate") \in Runs
              /\ n \in {"rank", "generate", "enrich"} => DiscussionsOf(r, c) \in Runs
              /\ n = "enrich" => FileOf(r, c, "generate") \in Runs
              /\ n = "final" => FileOf(r, c, "enrich") \in Runs
<1>1. /\ file \in [Places -> [Chats -> [Files -> Content]]]
      /\ reads[r][c] \in {"separate", "labelled"}
  BY DEF ReadyInv, TypeOK, PipelineTypeOK, Content
<1>2. \A n \in Files : FileOf(r, c, n) \in Content
  BY <1>1, Names DEF FileOf
<1>3. DiscussionsOf(r, c) \in Content
  BY <1>1, <1>2, Names DEF DiscussionsOf
<1>4. \A n \in Nodes : Readable(r, c, n) =>
        \A i \in Inputs[n] : Input(r, c, i) \notin {None, Torn}
  BY DEF Readable
<1>5. /\ Inputs["preprocess"] = {"extract"} /\ Inputs["translate"] = {"preprocess"}
      /\ Inputs["separate"] = {"translate"} /\ Inputs["rank"] = {"separate"}
      /\ Inputs["generate"] = {"separate", "rank"}
      /\ Inputs["enrich"] = {"separate", "generate"} /\ Inputs["final"] = {"enrich"}
  BY DEF Inputs
<1>6. /\ Input(r, c, "separate") = DiscussionsOf(r, c)
      /\ Input(r, c, "extract") = FileOf(r, c, "extract")
      /\ Input(r, c, "preprocess") = FileOf(r, c, "preprocess")
      /\ Input(r, c, "translate") = FileOf(r, c, "translate")
      /\ Input(r, c, "generate") = FileOf(r, c, "generate")
      /\ Input(r, c, "enrich") = FileOf(r, c, "enrich")
  BY DEF Input
<1> QED
  BY <1>2, <1>3, <1>4, <1>5, <1>6, Names DEF Content

\* A node has written its file.
LEMMA Written ==
  ASSUME ReadyInv, NEW r \in Runs, NEW c \in Chats, c \in request[r].chats,
         pc[r] = "chats", UNCHANGED runVars, TrackingTypeOK', ArchiveTypeOK',
         NEW n \in Nodes, NEW of \in Runs, Write(r, c, n, of)
  PROVE  ReadyInv'
<1> DEFINE position == Next1(r, n)
           where == reads[r][c]
<1>1. /\ at[r][c] = n /\ MoveTo(r, c, position) /\ reads' = reads /\ request' = request
      /\ file' = [file EXCEPT ![Place(r)][c][n] = of]
      /\ fresh' = [fresh EXCEPT ![r][c] = @ \cup {n}] /\ unread' = unread
  BY DEF Write, Next1
<1>2. /\ file \in [Places -> [Chats -> [Files -> Content]]]
      /\ fresh \in [Runs -> [Chats -> SUBSET Nodes]]
      /\ reads \in [Runs -> [Chats -> {"separate", "labelled"}]]
  BY DEF ReadyInv, TypeOK, PipelineTypeOK, Content
<1>3. position \in Positions \ {"idle"}
  BY WriteRoutes, Names
<1>4. file' \in [Places -> [Chats -> [Files -> Content]]]
  BY <1>1, <1>2, Names DEF Content
<1>5. /\ fresh' \in [Runs -> [Chats -> SUBSET Nodes]]
      /\ unread' \in [Runs -> [Chats -> SUBSET ReadBack]]
  BY <1>1, <1>2 DEF ReadyInv, TypeOK, PipelineTypeOK
<1>6. file'[Place(r)][c][n] = of
  BY <1>1, <1>2, Names
<1>7. FilesStay
  <2>1. \A d \in Places, e \in Chats, m \in Files : file'[d][e][m] \in {file[d][e][m], of}
    BY <1>1, <1>2, Names
  <2> QED
    BY <2>1, NoContent DEF FilesStay
<1>8. where \in {"separate", "labelled"} /\ reads' = [reads EXCEPT ![r][c] = where]
  BY <1>1, <1>2
<1>9. position \in Unlabelled => where = "separate"
  <2>1. position \in Unlabelled => n \in Unlabelled
    BY WriteRoutes, Names DEF Unlabelled
  <2> QED
    BY <1>1, <2>1 DEF ReadyInv, ChatReady
<1>10. position \in {"translated", "succeeded"} => file'[Place(r)][c]["final"] # None
  <2>1. position \in {"translated", "succeeded"} => n = "final"
    BY WriteRoutes, Names
  <2> QED
    BY <1>6, <2>1, NoContent
<1>11. UNCHANGED <<runVars, request>>
  BY <1>1
<1> HIDE DEF position, where
<1> QED
  BY <1>1, <1>3, <1>4, <1>5, <1>7, <1>8, <1>9, <1>10, <1>11, ChatMoves

\* A document that is created, and a version that is added to it.
LEMMA PaperTypes ==
  ASSUME ArchiveTypeOK, NEW r \in Runs, NEW x \in Subjects, NEW text,
         x \in Chats => text \in Content,
         x = Digest => text \in Gatherings \cup {None, Torn},
         \/ CreateNewsletter(r, x, text)
         \/ \E version \in Versions : AddVersion(r, x, version, text)
         \/ UNCHANGED paper
  PROVE  ArchiveTypeOK'
<1> DEFINE Allowed(y) == IF y = Digest THEN Gatherings \cup {None, Torn} ELSE Content
<1>1. /\ DOMAIN paper = Runs
      /\ \A q \in Runs : DOMAIN paper[q] = Subjects
      /\ \A q \in Runs, y \in Subjects : paper[q][y] \in [Versions -> Allowed(y)]
  BY NoContent DEF ArchiveTypeOK, Subjects, Content
<1>2. text \in Allowed(x) /\ None \in Allowed(x)
  BY DEF Subjects, Content
<1>3. ASSUME NEW t \in [Versions -> Allowed(x)], paper' = [paper EXCEPT ![r][x] = t]
      PROVE  ArchiveTypeOK'
  <2>1. /\ DOMAIN paper' = Runs
        /\ \A q \in Runs : DOMAIN paper'[q] = Subjects
        /\ \A q \in Runs, y \in Subjects : paper'[q][y] \in [Versions -> Allowed(y)]
    <3> HIDE DEF Allowed
    <3> QED
      BY <1>1, <1>3
  <2> QED
    BY <2>1, NoContent DEF ArchiveTypeOK, Subjects, Content
<1>4. CASE CreateNewsletter(r, x, text)
  <2> DEFINE t == [v \in Versions |-> IF v = "original" THEN text ELSE None]
  <2>1. t \in [Versions -> Allowed(x)]
    <3> HIDE DEF Allowed
    <3> QED
      BY <1>2
  <2>2. paper' = [paper EXCEPT ![r][x] = t]
    BY <1>4 DEF CreateNewsletter
  <2> HIDE DEF t, Allowed
  <2> QED
    BY <1>3, <2>1, <2>2
<1>5. CASE UNCHANGED paper
  BY <1>5 DEF ArchiveTypeOK
<1>6. ASSUME NEW version \in Versions, AddVersion(r, x, version, text) PROVE ArchiveTypeOK'
  <2>1. CASE UNCHANGED paper
    BY <1>5, <2>1
  <2>2. CASE ~UNCHANGED paper
    <3> DEFINE t == [paper[r][x] EXCEPT ![version] = text]
    <3>1. paper' = [paper EXCEPT ![r][x] = t]
      BY <1>1, <1>6, <2>2 DEF AddVersion
    <3>2. t \in [Versions -> Allowed(x)]
      <4> HIDE DEF Allowed
      <4> QED
        BY <1>1, <1>2
    <3> HIDE DEF t, Allowed
    <3> QED
      BY <1>3, <3>1, <3>2
  <2> QED
    BY <2>1, <2>2
<1> QED
  BY <1>4, <1>5, <1>6

LEMMA FaultType ==
  ASSUME TrackingTypeOK, Fault \/ UNCHANGED faults PROVE faults' \in 0..MaxFaults
BY TrackingAssumption DEF TrackingTypeOK, Fault

\* A step of one chat that writes no file: it moves the chat, and may store rows or a
\* version of its newsletter.
LEMMA OnlyMoves ==
  ASSUME ReadyInv, NEW r \in Runs, NEW c \in Chats, c \in request[r].chats,
         pc[r] = "chats", UNCHANGED <<runVars, request, file, reads, fresh>>,
         unread' \in [Runs -> [Chats -> SUBSET ReadBack]],
         NEW position \in Positions \ {"idle"}, MoveTo(r, c, position),
         TrackingTypeOK', ArchiveTypeOK',
         position \in Unlabelled => at[r][c] \in Unlabelled,
         position \in {"translated", "succeeded"} => FileOf(r, c, "final") # None
  PROVE  ReadyInv'
<1>1. /\ reads \in [Runs -> [Chats -> {"separate", "labelled"}]]
      /\ file' \in [Places -> [Chats -> [Files -> Content]]]
      /\ fresh' \in [Runs -> [Chats -> SUBSET Nodes]]
  BY DEF ReadyInv, TypeOK, PipelineTypeOK, Content
<1>2. /\ reads[r][c] \in {"separate", "labelled"}
      /\ reads' = [reads EXCEPT ![r][c] = reads[r][c]]
  BY <1>1
<1>3. position \in Unlabelled => reads[r][c] = "separate"
  BY DEF ReadyInv, ChatReady
<1>4. position \in {"translated", "succeeded"} => file'[Place(r)][c]["final"] # None
  BY DEF FileOf
<1>5. FilesStay
  BY DEF FilesStay
<1> QED
  BY <1>1, <1>2, <1>3, <1>4, <1>5, ChatMoves

LEMMA SameReadBack ==
  ASSUME ReadyInv, unread' = unread
  PROVE  unread' \in [Runs -> [Chats -> SUBSET ReadBack]]
BY DEF ReadyInv, TypeOK, PipelineTypeOK

\* What the rows that are left out of MongoDB leave as it is.
LEMMA RowsLeftOut ==
  ASSUME ReadyInv, NEW r \in Runs, NEW c \in Chats, LeaveRowsOut(r, c)
  PROVE  /\ at[r][c] \in SourceData /\ MoveTo(r, c, Onward(r, at[r][c]))
         /\ Fault /\ unread' \in [Runs -> [Chats -> SUBSET ReadBack]]
         /\ UNCHANGED <<record, known, saved, paper, request, file, reads, fresh>>
<1>1. PICK n \in ReadBack :
        /\ at[r][c] = StoredIn[n] /\ MoveTo(r, c, Onward(r, at[r][c])) /\ Fault
        /\ unread' = [unread EXCEPT ![r][c] = @ \cup {n}]
        /\ UNCHANGED <<record, known, saved, paper, request, file, reads, fresh>>
  BY DEF LeaveRowsOut
<1>2. unread \in [Runs -> [Chats -> SUBSET ReadBack]]
  BY DEF ReadyInv, TypeOK, PipelineTypeOK
<1>3. at[r][c] \in SourceData
  BY <1>1, Collections
<1> QED
  BY <1>1, <1>2, <1>3

LEMMA ReuseReady ==
  ASSUME ReadyInv, NEW r \in Runs, NEW c \in Chats, c \in request[r].chats,
         pc[r] = "chats", UNCHANGED runVars, Reuse(r, c)
  PROVE  ReadyInv'
<1> DEFINE position == Onward(r, at[r][c])
<1>1. /\ at[r][c] \in Nodes /\ FileOf(r, c, at[r][c]) # None /\ MoveTo(r, c, position)
      /\ UNCHANGED <<trackingVars, paper, request, file, reads, fresh, unread>>
  BY DEF Reuse, Reusable
<1>2. position \in Positions \ {"idle"}
  BY <1>1, Routes, Names
<1>3. position \in Unlabelled => at[r][c] \in Unlabelled
  BY <1>1, Routes, Names DEF Unlabelled
<1>4. position \in {"translated", "succeeded"} => FileOf(r, c, "final") # None
  BY <1>1, Routes, Names
<1>5. TrackingTypeOK' /\ ArchiveTypeOK'
  BY <1>1 DEF trackingVars, ReadyInv, TypeOK, TrackingTypeOK, ArchiveTypeOK
<1> HIDE DEF position
<1> QED
  BY <1>1, <1>2, <1>3, <1>4, <1>5, OnlyMoves, SameReadBack

LEMMA LabelReady ==
  ASSUME ReadyInv, NEW r \in Runs, NEW c \in Chats, c \in request[r].chats,
         pc[r] = "chats", UNCHANGED runVars, LabelMessages(r, c)
  PROVE  ReadyInv'
<1>1. /\ MoveTo(r, c, "rank") /\ at[r][c] = "label"
      /\ UNCHANGED <<record, known, saved, paper, request, fresh, unread>>
      /\ WriteLabels(r, c) \/ LeaveUnlabelled(r, c)
  BY Routes DEF LabelMessages
<1>2. TrackingTypeOK' /\ ArchiveTypeOK'
  BY <1>1, FaultType
     DEF ReadyInv, TypeOK, TrackingTypeOK, ArchiveTypeOK, WriteLabels, LeaveUnlabelled
<1>3. "rank" \in Positions \ {"idle"} /\ "rank" \notin Unlabelled
  BY Names DEF Unlabelled
<1>4. CASE LeaveUnlabelled(r, c)
  BY <1>1, <1>2, <1>3, <1>4, OnlyMoves, SameReadBack DEF LeaveUnlabelled
<1>5. CASE WriteLabels(r, c)
  <2> DEFINE of == FileOf(r, c, "separate")
  <2>1. /\ file' = [file EXCEPT ![Place(r)][c]["labelled"] = of]
        /\ reads' = [reads EXCEPT ![r][c] = "labelled"]
        /\ of \in Content /\ of # None
    BY <1>5, InputsAreRuns, Names DEF WriteLabels
  <2>2. /\ file \in [Places -> [Chats -> [Files -> Content]]]
        /\ fresh' \in [Runs -> [Chats -> SUBSET Nodes]]
    BY <1>1 DEF ReadyInv, TypeOK, PipelineTypeOK, Content
  <2> HIDE DEF of
  <2>3. file' \in [Places -> [Chats -> [Files -> Content]]]
    BY <2>1, <2>2, Names
  <2>4. \A d \in Places, e \in Chats, m \in Files : file'[d][e][m] \in {file[d][e][m], of}
    BY <2>1, <2>2, Names
  <2>5. FilesStay
    BY <2>1, <2>4 DEF FilesStay
  <2>6. UNCHANGED <<runVars, request>>
    BY <1>1
  <2> QED
    BY <1>1, <1>2, <1>3, <2>1, <2>2, <2>3, <2>5, <2>6, ChatMoves, SameReadBack
<1> QED
  BY <1>1, <1>4, <1>5

LEMMA StoreReady ==
  ASSUME ReadyInv, NEW r \in Runs, NEW c \in Chats, c \in request[r].chats,
         pc[r] = "chats", UNCHANGED runVars,
         \/ Store(r, c) \/ LeaveRowsOut(r, c) \/ StoreRaises(r, c)
         \/ StoreDerived(r, c)
  PROVE  ReadyInv'
<1> USE Names
<1>1. CASE Store(r, c)
  <2> DEFINE position == Onward(r, at[r][c])
  <2>1. /\ at[r][c] \in SourceData /\ MoveTo(r, c, position)
        /\ StoreRows(r, c, at[r][c])
        /\ UNCHANGED <<paper, request, file, reads, fresh, unread>>
    BY <1>1 DEF Store
  <2>2. position \in Positions \ {"idle", "translated", "succeeded"}
    BY <2>1, Routes DEF SourceData
  <2>3. at[r][c] \in Unlabelled
    BY <2>1 DEF SourceData, Unlabelled
  <2>4. TrackingTypeOK' /\ ArchiveTypeOK'
    BY <2>1 DEF ReadyInv, TypeOK, TrackingTypeOK, ArchiveTypeOK, StoreRows
  <2> HIDE DEF position
  <2> QED
    BY <2>1, <2>2, <2>3, <2>4, OnlyMoves, SameReadBack
<1>2. CASE StoreRaises(r, c)
  <2>1. /\ MoveTo(r, c, "failed") /\ Fault
        /\ UNCHANGED <<record, known, saved, paper, request, file, reads, fresh, unread>>
    BY <1>2 DEF StoreRaises
  <2>2. TrackingTypeOK' /\ ArchiveTypeOK'
    BY <2>1, FaultType DEF ReadyInv, TypeOK, TrackingTypeOK, ArchiveTypeOK
  <2> QED
    BY <2>1, <2>2, OnlyMoves, SameReadBack DEF Unlabelled
<1>3. CASE StoreDerived(r, c)
  <2> DEFINE position == After[at[r][c]]
             text == FileOf(r, c, IF at[r][c] = "enriched" THEN "enrich" ELSE "final")
  <2>1. /\ at[r][c] \in {"enriched", "translated"} /\ MoveTo(r, c, position)
        /\ StoreVersion(r, c, at[r][c], text)
        /\ UNCHANGED <<record, known, saved, request, file, reads, fresh, unread>>
    BY <1>3 DEF StoreDerived, Derived
  <2>2. /\ position \in {"final", "succeeded"} /\ position \notin Unlabelled
        /\ position = "succeeded" => at[r][c] = "translated"
    BY <2>1, Routes DEF Unlabelled
  <2>3. FileOf(r, c, "final") # None \/ position = "final"
    BY <2>1, <2>2 DEF ReadyInv, ChatReady
  <2>4. text \in Content
    BY <2>1, InputsAreRuns
  <2> HIDE DEF position, text
  <2>5. ArchiveTypeOK'
    <3>1. \E version \in Versions : AddVersion(r, c, version, text) \/ UNCHANGED paper
      BY <2>1 DEF StoreVersion, Versions
    <3>2. c \in Subjects /\ c # Digest
      BY NoContent DEF Subjects
    <3> QED
      BY <2>4, <3>1, <3>2, PaperTypes DEF ReadyInv, TypeOK
  <2>6. TrackingTypeOK'
    BY <2>1, FaultType DEF ReadyInv, TypeOK, TrackingTypeOK, StoreVersion
  <2> QED
    BY <2>1, <2>2, <2>3, <2>5, <2>6, OnlyMoves, SameReadBack
<1>4. CASE LeaveRowsOut(r, c)
  <2> DEFINE position == Onward(r, at[r][c])
  <2>1. /\ at[r][c] \in SourceData /\ MoveTo(r, c, position)
        /\ Fault /\ unread' \in [Runs -> [Chats -> SUBSET ReadBack]]
        /\ UNCHANGED <<record, known, saved, paper, request, file, reads, fresh>>
    BY <1>4, RowsLeftOut
  <2>2. position \in Positions \ {"idle", "translated", "succeeded"}
    BY <2>1, Routes DEF SourceData
  <2>3. at[r][c] \in Unlabelled
    BY <2>1 DEF SourceData, Unlabelled
  <2>4. TrackingTypeOK' /\ ArchiveTypeOK'
    BY <2>1, FaultType DEF ReadyInv, TypeOK, TrackingTypeOK, ArchiveTypeOK
  <2> HIDE DEF position
  <2> QED
    BY <2>1, <2>2, <2>3, <2>4, OnlyMoves
<1> QED
  BY <1>1, <1>2, <1>3, <1>4

LEMMA RaiseReady ==
  ASSUME ReadyInv, NEW r \in Runs, NEW c \in Chats, c \in request[r].chats,
         pc[r] = "chats", UNCHANGED runVars, Raise(r, c)
  PROVE  ReadyInv'
<1>1. /\ MoveTo(r, c, "failed")
      /\ UNCHANGED <<record, known, saved, request, file, reads, fresh, unread>>
      /\ Fault \/ UNCHANGED faults
      /\ UNCHANGED paper \/ CreateNewsletter(r, c, DiscussionsOf(r, c))
  BY DEF Raise, LeavesOriginal
<1>2. TrackingTypeOK'
  BY <1>1, FaultType DEF ReadyInv, TypeOK, TrackingTypeOK
<1>3. c \in Subjects /\ c # Digest /\ DiscussionsOf(r, c) \in Content
  BY NoContent, InputsAreRuns DEF Subjects
<1>4. ArchiveTypeOK'
  BY <1>1, <1>3, PaperTypes DEF ReadyInv, TypeOK
<1> QED
  BY <1>1, <1>2, <1>4, OnlyMoves, SameReadBack, Names DEF Unlabelled

LEMMA ProduceReady ==
  ASSUME ReadyInv, NEW r \in Runs, NEW c \in Chats, c \in request[r].chats,
         pc[r] = "chats", UNCHANGED runVars, Produce(r, c)
  PROVE  ReadyInv'
<1> USE Names
<1> DEFINE Same == UNCHANGED <<trackingVars, paper>>
<1>1. Same => TrackingTypeOK' /\ ArchiveTypeOK'
  BY DEF trackingVars, ReadyInv, TypeOK, TrackingTypeOK, ArchiveTypeOK
<1>2. \A of : \A n \in Nodes : Write(r, c, n, of) => Readable(r, c, n)
  BY DEF Write
<1>3. ASSUME NEW n \in Nodes, NEW of \in Runs, Write(r, c, n, of), Same PROVE ReadyInv'
  BY <1>1, <1>3, Written
<1> HIDE DEF Same
<1>4. CASE ExtractMessages(r, c)
  BY <1>3, <1>4 DEF ExtractMessages, Same
<1>5. CASE PreprocessMessages(r, c)
  <2>1. FileOf(r, c, "extract") \in Runs
    BY <1>2, <1>5, InputsAreRuns DEF PreprocessMessages
  <2> QED
    BY <1>3, <1>5, <2>1 DEF PreprocessMessages, Same
<1>6. CASE TranslateMessages(r, c)
  <2>1. FileOf(r, c, "preprocess") \in Runs
    BY <1>2, <1>6, InputsAreRuns DEF TranslateMessages
  <2> QED
    BY <1>3, <1>6, <2>1 DEF TranslateMessages, Same
<1>7. CASE SeparateDiscussions(r, c)
  <2>1. FileOf(r, c, "translate") \in Runs
    BY <1>2, <1>7, InputsAreRuns DEF SeparateDiscussions
  <2> QED
    BY <1>3, <1>7, <2>1 DEF SeparateDiscussions, Same
<1>8. CASE RankDiscussions(r, c)
  <2>1. DiscussionsOf(r, c) \in Runs
    BY <1>2, <1>8, InputsAreRuns DEF RankDiscussions
  <2> QED
    BY <1>3, <1>8, <2>1 DEF RankDiscussions, Same
<1>9. CASE GenerateContent(r, c)
  <2>1. DiscussionsOf(r, c) \in Runs
    BY <1>2, <1>9, InputsAreRuns DEF GenerateContent
  <2>2. /\ UNCHANGED <<record, known, saved>>
        /\ Fault \/ UNCHANGED faults
        /\ UNCHANGED paper \/ CreateNewsletter(r, c, DiscussionsOf(r, c))
    BY <1>9 DEF GenerateContent, StoreOriginal
  <2>3. TrackingTypeOK'
    BY <2>2, FaultType DEF ReadyInv, TypeOK, TrackingTypeOK
  <2>4. c \in Subjects /\ c # Digest /\ DiscussionsOf(r, c) \in Content
    BY NoContent, InputsAreRuns DEF Subjects
  <2>5. ArchiveTypeOK'
    BY <2>2, <2>4, PaperTypes DEF ReadyInv, TypeOK
  <2> QED
    BY <1>9, <2>1, <2>3, <2>5, Written DEF GenerateContent
<1>10. CASE EnrichWithLinks(r, c)
  <2>1. FileOf(r, c, "generate") \in Runs
    BY <1>2, <1>10, InputsAreRuns DEF EnrichWithLinks
  <2> QED
    BY <1>3, <1>10, <2>1 DEF EnrichWithLinks, Same
<1>11. CASE TranslateFinalSummary(r, c)
  <2>1. FileOf(r, c, "enrich") \in Runs
    BY <1>2, <1>11, InputsAreRuns DEF TranslateFinalSummary
  <2> QED
    BY <1>3, <1>11, <2>1 DEF TranslateFinalSummary, Same
<1> QED
  BY <1>4, <1>5, <1>6, <1>7, <1>8, <1>9, <1>10, <1>11, LabelReady DEF Produce

LEMMA ChatIsReady ==
  ASSUME ReadyInv, NEW r \in Runs, NEW c \in request[r].chats, Chat(r, c)
  PROVE  ReadyInv'
<1>1. c \in Chats
  BY RequestsAssumption DEF ReadyInv, TypeOK, PipelineTypeOK
<1>2. pc[r] = "chats" /\ UNCHANGED runVars /\ ChatStep(r, c)
  BY DEF Chat
<1> QED
  BY <1>1, <1>2, ReuseReady, ProduceReady, RaiseReady, StoreReady DEF ChatStep

-----------------------------------------------------------------------------
\* A step of the orchestrator of r to the node "to", from what it changes.
LEMMA NodeMoves ==
  ASSUME ReadyInv, NEW r \in Runs, NEW to \in Steps \cup Ends, GoTo(r, to),
         UNCHANGED <<request, file, reads, fresh, unread>>,
         at' \in [Runs -> [Chats -> Positions]], \A q \in Runs \ {r} : at'[q] = at[q],
         TrackingTypeOK', ArchiveTypeOK', RunTypeOK', DigestStays,
         \A q \in Runs \ {r} : source'[q] = source[q] /\ digested'[q] = digested[q],
         DigestReady(r)', \A c \in Chats : ChatReady(r, c)'
  PROVE  ReadyInv'
<1>1. PipelineTypeOK'
  BY DEF ReadyInv, TypeOK, PipelineTypeOK
<1>2. ASSUME NEW q \in Runs \ {r} PROVE DigestReady(q)' /\ \A c \in Chats : ChatReady(q, c)'
  <2>1. pc'[q] = pc[q] /\ Place(q)' = Place(q)
    BY DEF GoTo, ReadyInv, TypeOK, RunTypeOK, Place, Consolidates
  <2>2. source[q] \in {"aggregated", "merged"}
    BY DEF ReadyInv, TypeOK, RunTypeOK
  <2>3. DigestReady(q)'
    BY <2>1, <2>2 DEF ReadyInv, DigestReady, DigestStays, DigestFiles
  <2> QED
    BY <2>1, <2>3 DEF ReadyInv, ChatReady, FileOf
<1> QED
  BY <1>1, <1>2 DEF ReadyInv, TypeOK

\* The chats of r after a step of its orchestrator that leaves them alone.
LEMMA ChatsStay ==
  ASSUME ReadyInv, NEW r \in Runs, NEW to \in Steps \cup Ends, GoTo(r, to),
         UNCHANGED <<request, file, reads, at>>,
         to \in NotBegun => pc[r] \in NotBegun,
         pc[r] = "chats" => \A c \in request[r].chats : at[r][c] \in Settled
  PROVE  \A c \in Chats : ChatReady(r, c)'
<1> SUFFICES ASSUME NEW c \in Chats PROVE ChatReady(r, c)'
  OBVIOUS
<1>1. ChatReady(r, c) /\ pc'[r] = to /\ Place(r)' = Place(r)
  BY DEF GoTo, ReadyInv, TypeOK, RunTypeOK, Place, Consolidates
<1>2. at[r][c] \notin Busy \/ pc[r] # "chats"
  BY <1>1, Names DEF ChatReady
<1>3. at[r][c] \notin Busy
  BY <1>1, <1>2 DEF ChatReady
<1> QED
  BY <1>1, <1>3 DEF ChatReady, FileOf

\* A node of the digest, which may write one of its files.
LEMMA DigestMoves ==
  ASSUME ReadyInv, NEW r \in Runs, NEW to \in (Steps \cup Ends) \ NotBegun, GoTo(r, to),
         pc[r] # "chats", UNCHANGED <<request, file, reads, at, fresh, unread>>,
         TrackingTypeOK', ArchiveTypeOK',
         NEW f \in DigestFiles, NEW x \in DigestContent(f), x # None,
         digest' = [digest EXCEPT ![f] = x] \/ digest' = digest,
         NEW s \in {"aggregated", "merged"}, source' = [source EXCEPT ![r] = s],
         NEW b \in BOOLEAN, digested' = [digested EXCEPT ![r] = b],
         UNCHANGED <<todo, hooked, mailed, clean>>, DigestReady(r)'
  PROVE  ReadyInv'
<1>1. RunTypeOK /\ PipelineTypeOK
  BY DEF ReadyInv, TypeOK
<1>2. /\ DOMAIN digest' = DigestFiles
      /\ \A g \in DigestFiles : digest'[g] = digest[g] \/ (g = f /\ digest'[g] = x)
  BY <1>1 DEF RunTypeOK
<1>3. \A g \in DigestFiles : digest'[g] \in DigestContent(g)
  BY <1>1, <1>2 DEF RunTypeOK
<1>4. /\ source' \in [Runs -> {"aggregated", "merged"}]
      /\ digested' \in [Runs -> BOOLEAN]
      /\ \A q \in Runs \ {r} : source'[q] = source[q] /\ digested'[q] = digested[q]
  BY <1>1 DEF RunTypeOK
<1>5. pc' \in [Runs -> Steps \cup Ends]
  BY <1>1 DEF RunTypeOK, GoTo
<1>6. RunTypeOK'
  BY <1>1, <1>2, <1>3, <1>4, <1>5 DEF RunTypeOK, DigestContent
<1>7. DigestStays
  BY <1>2 DEF DigestStays
<1>8. \A c \in Chats : ChatReady(r, c)'
  BY ChatsStay
<1>9. at' \in [Runs -> [Chats -> Positions]] /\ \A q \in Runs \ {r} : at'[q] = at[q]
  BY <1>1 DEF PipelineTypeOK
<1> QED
  BY <1>4, <1>6, <1>7, <1>8, <1>9, NodeMoves

\* The types of what a node of the digest reads.
LEMMA DigestTypes ==
  ASSUME ReadyInv, NEW r \in Runs
  PROVE  /\ \A f \in DigestFiles : digest[f] \in DigestContent(f)
         /\ DOMAIN digest = DigestFiles
         /\ DigestContent("ranking") = {None, Torn} \cup IdLists
         /\ DigestContent("selection") = {None, Torn} \cup IdLists
         /\ DigestContent("chosen") = {None, Torn} \cup IdLists
         /\ \A f \in DigestFiles \ {"ranking", "selection", "chosen"} :
              DigestContent(f) = {None, Torn} \cup Gatherings
         /\ source[r] \in {"aggregated", "merged"} /\ source[r] \in DigestFiles
         /\ source = [source EXCEPT ![r] = source[r]]
         /\ digested[r] \in BOOLEAN /\ digested = [digested EXCEPT ![r] = digested[r]]
         /\ pc[r] \in Steps \cup Ends /\ DigestReady(r)
BY DEF ReadyInv, TypeOK, RunTypeOK, DigestContent, DigestFiles

LEMMA ConsolidateReady ==
  ASSUME ReadyInv, NEW r \in Runs, Consolidate(r) PROVE ReadyInv'
<1> DEFINE x == {{<<c, DiscussionsOf(r, c)>>} : c \in Loadable(r)}
<1>1. /\ pc[r] = "consolidate" /\ digest' = [digest EXCEPT !["aggregated"] = x]
      /\ source' = [source EXCEPT ![r] = "aggregated"] /\ GoTo(r, "merge")
      /\ UNCHANGED <<trackingVars, pipelineVars, digested, todo, hooked, mailed, clean>>
  BY DEF Consolidate
<1>2. x \in Gatherings
  <2> DEFINE of == [c \in Chats |-> DiscussionsOf(r, c)]
  <2>1. request[r].chats \subseteq Chats
    BY RequestsAssumption DEF ReadyInv, TypeOK, PipelineTypeOK
  <2>2. Loadable(r) \in SUBSET Chats
    BY <2>1 DEF Loadable, Succeeded
  <2>3. \A c \in Loadable(r) : DiscussionsOf(r, c) \in Runs
    BY <2>2, InputsAreRuns DEF Loadable, Content
  <2>4. \A c \in Loadable(r) : of[c] = DiscussionsOf(r, c) /\ of[c] \in Runs
    BY <2>2, <2>3
  <2>5. x = {{<<c, of[c]>>} : c \in Loadable(r)}
    BY <2>4
  <2> HIDE DEF of, x
  <2> QED
    BY <2>2, <2>4, <2>5, OneOfEach
<1> HIDE DEF x
<1>3. TrackingTypeOK' /\ ArchiveTypeOK'
  BY <1>1 DEF trackingVars, pipelineVars, ReadyInv, TypeOK, TrackingTypeOK, ArchiveTypeOK
<1>4. x # None /\ x \in DigestContent("aggregated") /\ "aggregated" \in DigestFiles
  BY <1>2, NoContent DEF DigestContent, DigestFiles
<1>5. pc'[r] = "merge" /\ digest'["aggregated"] = x
  BY <1>1, <1>4, DigestTypes DEF GoTo, ReadyInv, TypeOK, RunTypeOK
<1>6. digested[r] = FALSE
  BY <1>1, DigestTypes DEF DigestReady, Ends
<1>7. DigestReady(r)'
  BY <1>1, <1>4, <1>5, <1>6, DigestTypes DEF DigestReady, ReadyInv, TypeOK, RunTypeOK
<1> QED
  BY <1>1, <1>3, <1>4, <1>7, DigestTypes, DigestMoves
     DEF pipelineVars, Steps, NotBegun

\* Where r is after a step, and the types of what the step does not touch.
LEMMA At ==
  ASSUME ReadyInv, NEW r \in Runs, NEW to, GoTo(r, to)
  PROVE  pc'[r] = to
BY DEF GoTo, ReadyInv, TypeOK, RunTypeOK

LEMMA SameTypes ==
  ASSUME ReadyInv, UNCHANGED <<trackingVars, paper>>
  PROVE  TrackingTypeOK' /\ ArchiveTypeOK'
BY DEF trackingVars, ReadyInv, TypeOK, TrackingTypeOK, ArchiveTypeOK

\* A node of the digest that finds what it needs and writes nothing.
LEMMA DigestPasses ==
  ASSUME ReadyInv, NEW r \in Runs, NEW to \in (Steps \cup Ends) \ NotBegun, GoTo(r, to),
         pc[r] # "chats",
         UNCHANGED <<request, file, reads, at, fresh, unread, digest, source, digested,
                     todo,
                     hooked, mailed, clean>>,
         TrackingTypeOK', ArchiveTypeOK', DigestReady(r)'
  PROVE  ReadyInv'
<1>1. {} \in DigestContent("merged") /\ "merged" \in DigestFiles /\ {} # None
  <2>1. {} \in Gatherings
    BY DEF Gatherings
  <2>2. "merged" \in DigestFiles
    BY Zenon DEF DigestFiles
  <2>3. DigestContent("merged") = {None, Torn} \cup Gatherings
    BY <2>2, DigestTypes
  <2> QED
    BY <2>1, <2>2, <2>3, NoContent, Zenon
<1> QED
  BY <1>1, DigestTypes, DigestMoves

LEMMA MergeReady ==
  ASSUME ReadyInv, NEW r \in Runs, LeaveUnmerged(r) \/ Merge(r) PROVE ReadyInv'
<1>1. pc[r] = "merge" /\ GoTo(r, "rank") /\ pc'[r] = "rank"
  BY At DEF LeaveUnmerged, Passes, Merge
<1>2. digested[r] = FALSE /\ source[r] = "aggregated" /\ digest["aggregated"] # None
  BY <1>1, DigestTypes DEF DigestReady, Ends
<1>3. TrackingTypeOK' /\ ArchiveTypeOK'
  BY SameTypes DEF LeaveUnmerged, Passes, Merge, pipelineVars
<1>4. CASE LeaveUnmerged(r)
  <2>1. UNCHANGED <<request, file, reads, at, fresh, unread, digest, source, digested, todo,
                    hooked, mailed, clean>>
    BY <1>4 DEF LeaveUnmerged, Passes, pipelineVars
  <2>2. DigestReady(r)'
    BY <1>1, <1>2, <2>1 DEF DigestReady
  <2> QED
    BY <1>1, <1>3, <2>1, <2>2, DigestPasses DEF Steps, NotBegun
<1>5. CASE Merge(r)
  <2>1. PICK x \in {digest["aggregated"], {UNION digest["aggregated"]}} :
          digest' = [digest EXCEPT !["merged"] = x]
    BY <1>5 DEF Merge
  <2>2. /\ digest["aggregated"] # Torn /\ Cardinality(digest["aggregated"]) > 1
        /\ source' = [source EXCEPT ![r] = "merged"]
        /\ UNCHANGED <<request, file, reads, at, fresh, unread, digested, todo, hooked,
                       mailed,
                       clean>>
    BY <1>5 DEF Merge, pipelineVars
  <2>3. digest["aggregated"] \in Gatherings
    BY <1>2, <2>2, DigestTypes DEF DigestFiles
  <2>4. x \in Gatherings
    BY <2>2, <2>3, Merged
  <2>5. x # None /\ x \in DigestContent("merged") /\ "merged" \in DigestFiles
    BY <2>4, NoContent DEF DigestContent, DigestFiles
  <2>6. digest'["merged"] = x /\ source'[r] = "merged"
    BY <2>1, <2>2, <2>5, DigestTypes DEF ReadyInv, TypeOK, RunTypeOK
  <2>7. DigestReady(r)'
    BY <1>1, <1>2, <2>2, <2>5, <2>6 DEF DigestReady
  <2> QED
    BY <1>1, <1>3, <2>1, <2>2, <2>5, <2>7, DigestTypes, DigestMoves DEF Steps, NotBegun
<1> QED
  BY <1>4, <1>5

LEMMA RankReady ==
  ASSUME ReadyInv, NEW r \in Runs, Rank(r) PROVE ReadyInv'
<1>1. /\ pc[r] = "rank" /\ GoTo(r, AfterRanking(r)) /\ pc'[r] = AfterRanking(r)
      /\ AfterRanking(r) \in {"select", "generate"}
  BY At DEF Rank, Keeps, Passes, Writes, AfterRanking
<1>2. digested[r] = FALSE /\ digest[source[r]] # None
  BY <1>1, DigestTypes DEF DigestReady, Ends
<1>3. TrackingTypeOK' /\ ArchiveTypeOK'
  BY SameTypes DEF Rank, Keeps, Passes, Writes, pipelineVars
<1>4. AfterRanking(r) \in (Steps \cup Ends) \ NotBegun
  BY <1>1 DEF Steps, NotBegun
<1>5. CASE Keeps(r, "ranking", "rank", AfterRanking(r))
  <2>1. UNCHANGED <<request, file, reads, at, fresh, unread, digest, source, digested, todo,
                    hooked, mailed, clean>>
    BY <1>5 DEF Keeps, Passes, pipelineVars
  <2>2. digest["ranking"] # None
    BY <1>5 DEF Keeps, KeepsFile
  <2>3. DigestReady(r)'
    BY <1>1, <1>2, <2>1, <2>2 DEF DigestReady
  <2> QED
    BY <1>1, <1>3, <1>4, <2>1, <2>3, DigestPasses
<1>6. CASE ~Keeps(r, "ranking", "rank", AfterRanking(r))
  <2>1. PICK ids \in SUBSET Ids(digest[source[r]]) :
          Writes(r, "ranking", "rank", AfterRanking(r), ids)
    BY <1>6 DEF Rank
  <2>2. /\ digest[source[r]] # Torn /\ digest' = [digest EXCEPT !["ranking"] = ids]
        /\ UNCHANGED <<request, file, reads, at, fresh, unread, source, digested, todo,
                       hooked,
                       mailed, clean>>
    BY <1>6, <2>1 DEF Rank, Writes
  <2>3. digest[source[r]] \in Gatherings
    BY <1>2, <2>2, DigestTypes
  <2>4. ids \in IdLists
    BY <2>3, IdsType DEF IdLists
  <2>5. ids # None /\ ids \in DigestContent("ranking") /\ "ranking" \in DigestFiles
    BY <2>4, NoContent DEF DigestContent, DigestFiles
  <2>6. digest'[source[r]] = digest[source[r]] /\ digest'["ranking"] = ids
    BY <2>2, <2>5, DigestTypes
  <2>7. DigestReady(r)'
    BY <1>1, <1>2, <2>2, <2>5, <2>6 DEF DigestReady
  <2> QED
    BY <1>1, <1>3, <1>4, <2>2, <2>5, <2>7, DigestTypes, DigestMoves
<1> QED
  BY <1>5, <1>6

LEMMA PrepareReady ==
  ASSUME ReadyInv, NEW r \in Runs, PrepareSelection(r) PROVE ReadyInv'
<1>1. /\ pc[r] = "select" /\ GoTo(r, "selecting") /\ pc'[r] = "selecting"
      /\ digest' = [digest EXCEPT !["selection"] = digest["ranking"]]
      /\ UNCHANGED <<request, file, reads, at, fresh, unread, source, digested, todo,
                     hooked,
                     mailed, clean>>
  BY At DEF PrepareSelection, pipelineVars
<1>2. digested[r] = FALSE
  BY <1>1, DigestTypes DEF DigestReady, Ends
<1>3. TrackingTypeOK' /\ ArchiveTypeOK'
  BY SameTypes DEF PrepareSelection, pipelineVars
<1>4. DigestReady(r)'
  BY <1>1, <1>2 DEF DigestReady
<1>5. /\ digest["ranking"] # None /\ "selection" \in DigestFiles
      /\ digest["ranking"] \in DigestContent("selection")
  BY <1>1, DigestTypes DEF DigestReady, DigestFiles
<1> QED
  BY <1>1, <1>3, <1>4, <1>5, DigestTypes, DigestMoves DEF Ends, NotBegun

\* What the newsletter of a digest is about.
LEMMA FeaturedType ==
  ASSUME ReadyInv, NEW r \in Runs, pc[r] = "generate"
  PROVE  Featured(r) \in Gatherings
<1>1. digest[source[r]] # None /\ digest[source[r]] \in {None, Torn} \cup Gatherings
  BY DigestTypes DEF DigestReady
<1>2. CASE Torn \in {digest["ranking"], digest[source[r]]}
  BY <1>2 DEF Featured, Gatherings
<1>3. CASE Torn \notin {digest["ranking"], digest[source[r]]}
  <2>1. digest[source[r]] \in Gatherings
    BY <1>1, <1>3
  <2>2. Featured(r) \subseteq digest[source[r]]
    BY <1>3 DEF Featured
  <2> QED
    BY <2>1, <2>2, SomeOf
<1> QED
  BY <1>2, <1>3

LEMMA GenerateReady ==
  ASSUME ReadyInv, NEW r \in Runs, Generate(r) PROVE ReadyInv'
<1>1. pc[r] = "generate" /\ GoTo(r, "enrich") /\ pc'[r] = "enrich"
  BY At DEF Generate, Keeps, Passes, Writes
<1>2. digested[r] = FALSE
  BY <1>1, DigestTypes DEF DigestReady, Ends
<1>3. "enrich" \in (Steps \cup Ends) \ NotBegun
  BY DEF Steps, NotBegun
<1>4. CASE Keeps(r, "newsletter", "generate", "enrich")
  <2>1. UNCHANGED <<trackingVars, paper, request, file, reads, at, fresh, unread, digest,
                    source,
                    digested, todo, hooked, mailed, clean>>
    BY <1>4 DEF Keeps, Passes, pipelineVars
  <2>2. digest["newsletter"] # None
    BY <1>4 DEF Keeps, KeepsFile
  <2>3. DigestReady(r)'
    BY <1>1, <1>2, <2>1, <2>2 DEF DigestReady
  <2> QED
    BY <1>1, <1>3, <2>1, <2>3, SameTypes, DigestPasses
<1>5. CASE ~Keeps(r, "newsletter", "generate", "enrich")
  <2>1. /\ digest' = [digest EXCEPT !["newsletter"] = Featured(r)]
        /\ UNCHANGED <<trackingVars, request, file, reads, at, fresh, unread, source,
                       digested,
                       todo, hooked, mailed, clean>>
        /\ UNCHANGED paper \/ CreateNewsletter(r, Digest, Featured(r))
    BY <1>5 DEF Generate, Writes, StoreDigest
  <2>2. Featured(r) \in Gatherings
    BY <1>1, FeaturedType
  <2>3. /\ Featured(r) # None /\ Featured(r) \in DigestContent("newsletter")
        /\ "newsletter" \in DigestFiles
    BY <2>2, NoContent DEF DigestContent, DigestFiles
  <2>4. ArchiveTypeOK'
    <3>1. Digest \in Subjects /\ Digest \notin Chats
      BY NoContent DEF Subjects
    <3> QED
      BY <2>1, <2>2, <3>1, PaperTypes DEF ReadyInv, TypeOK
  <2>5. TrackingTypeOK'
    BY <2>1 DEF trackingVars, ReadyInv, TypeOK, TrackingTypeOK
  <2>6. digest'["newsletter"] = Featured(r)
    BY <2>1, <2>3, DigestTypes
  <2>7. DigestReady(r)'
    BY <1>1, <1>2, <2>1, <2>3, <2>6 DEF DigestReady
  <2> QED
    BY <1>1, <1>3, <2>1, <2>3, <2>4, <2>5, <2>7, DigestTypes, DigestMoves
<1> QED
  BY <1>4, <1>5

LEMMA EnrichReady ==
  ASSUME ReadyInv, NEW r \in Runs, Enrich(r) PROVE ReadyInv'
<1>1. PICK to \in {"enriched", "translate"} :
        /\ pc[r] = "enrich" /\ GoTo(r, to) /\ pc'[r] = to
        /\ UNCHANGED <<trackingVars, paper, request, file, reads, at, fresh, unread, source,
                       digested, todo, hooked, mailed, clean>>
        /\ \/ KeepsFile(r, "enriched") /\ UNCHANGED digest
           \/ /\ digest["newsletter"] # Torn
              /\ digest' = [digest EXCEPT !["enriched"] = digest["newsletter"]]
  <2>1. CASE Keeps(r, "enriched", "enrich", "translate")
    BY <2>1, At DEF Keeps, Passes, pipelineVars
  <2>2. CASE ~Keeps(r, "enriched", "enrich", "translate")
    BY <2>2, At DEF Enrich, Writes
  <2> QED
    BY <2>1, <2>2
<1>2. digested[r] = FALSE /\ digest["newsletter"] # None
  BY <1>1, DigestTypes DEF DigestReady, Ends
<1>3. to \in (Steps \cup Ends) \ NotBegun
  BY DEF Steps, NotBegun
<1>4. /\ digest["newsletter"] \in DigestContent("enriched") /\ "enriched" \in DigestFiles
  BY DigestTypes DEF DigestFiles
<1>5. digest'["enriched"] # None
  BY <1>1, <1>2, <1>4, DigestTypes DEF KeepsFile
<1>6. DigestReady(r)'
  BY <1>1, <1>2, <1>5 DEF DigestReady
<1> QED
  BY <1>1, <1>2, <1>3, <1>4, <1>6, SameTypes, DigestTypes, DigestMoves

LEMMA TranslateReady ==
  ASSUME ReadyInv, NEW r \in Runs, Translate(r) PROVE ReadyInv'
<1>1. PICK to \in {"translated", "output"} :
        /\ pc[r] = "translate" /\ GoTo(r, to) /\ pc'[r] = to
        /\ UNCHANGED <<trackingVars, paper, request, file, reads, at, fresh, unread,
                       source, todo,
                       hooked, mailed, clean>>
        /\ digested' = [digested EXCEPT ![r] = TRUE]
        /\ \/ KeepsFile(r, "final") /\ UNCHANGED digest
           \/ digest' = [digest EXCEPT !["final"] = digest["enriched"]]
  BY At DEF Translate, pipelineVars
<1>2. digest["enriched"] # None
  BY <1>1, DigestTypes DEF DigestReady
<1>3. to \in (Steps \cup Ends) \ NotBegun
  BY DEF Steps, NotBegun
<1>4. digest["enriched"] \in DigestContent("final") /\ "final" \in DigestFiles
  BY DigestTypes DEF DigestFiles
<1>5. digest'["final"] # None
  BY <1>1, <1>2, <1>4, DigestTypes DEF KeepsFile
<1>6. DigestReady(r)'
  BY <1>1, <1>5 DEF DigestReady
<1> QED
  BY <1>1, <1>2, <1>3, <1>4, <1>6, SameTypes, DigestTypes, DigestMoves

LEMMA StoreDigestReady ==
  ASSUME ReadyInv, NEW r \in Runs, StoreEnriched(r) \/ StoreTranslated(r)
  PROVE  ReadyInv'
<1>1. PICK version \in {"enriched", "translated"}, f \in {"enriched", "final"},
           to \in {"translate", "output"} :
        /\ to = "translate" => version = "enriched"
        /\ StoreDigestVersion(r, version, f, to)
  BY DEF StoreEnriched, StoreTranslated
<1>2. /\ pc[r] = version /\ GoTo(r, to) /\ pc'[r] = to
      /\ StoreVersion(r, Digest, version, digest[f])
      /\ UNCHANGED <<record, known, saved, request, file, reads, at, fresh, unread,
                     digest, source,
                     digested, todo, hooked, mailed, clean>>
  BY <1>1, At DEF StoreDigestVersion
<1>3. TrackingTypeOK'
  BY <1>2, FaultType DEF ReadyInv, TypeOK, TrackingTypeOK, StoreVersion
<1>4. ArchiveTypeOK'
  <2>1. Digest \in Subjects /\ Digest \notin Chats /\ version \in Versions
    BY NoContent DEF Subjects, Versions
  <2>2. digest[f] \in Gatherings \cup {None, Torn}
    BY DigestTypes DEF DigestFiles
  <2>3. AddVersion(r, Digest, version, digest[f]) \/ UNCHANGED paper
    BY <1>2 DEF StoreVersion
  <2> QED
    BY <2>1, <2>2, <2>3, PaperTypes DEF ReadyInv, TypeOK
<1>5. to \in (Steps \cup Ends) \ NotBegun
  BY DEF Steps, NotBegun
<1>6. DigestReady(r)'
  BY <1>1, <1>2, DigestTypes DEF DigestReady, Ends
<1> QED
  BY <1>2, <1>3, <1>4, <1>5, <1>6, DigestPasses

\* A step of the orchestrator outside the digest, which leaves the files alone.
LEMMA RunMoves ==
  ASSUME ReadyInv, NEW r \in Runs, NEW to \in Steps \cup Ends, GoTo(r, to),
         UNCHANGED <<request, file, reads, at, fresh, unread, digest, source, digested>>,
         TrackingTypeOK', ArchiveTypeOK',
         DOMAIN todo' = Runs, \A q \in Runs : todo'[q] \subseteq request[q].actions,
         hooked' \in [Runs -> BOOLEAN], mailed' \in [Runs -> Gatherings \cup {None, Torn}],
         clean' \in [Runs -> BOOLEAN],
         to \in NotBegun => pc[r] \in NotBegun,
         to \in NotBegun \cup {"chats", "aggregate", "consolidate", "output", "complete"}
                \cup Ends,
         to = "chats" => pc[r] = "chats",
         pc[r] = "chats" => \A c \in request[r].chats : at[r][c] \in Settled,
         digested[r] => to \in {"output", "complete"} \cup Ends
  PROVE  ReadyInv'
<1>1. RunTypeOK /\ PipelineTypeOK
  BY DEF ReadyInv, TypeOK
<1>2. pc' \in [Runs -> Steps \cup Ends]
  BY <1>1 DEF RunTypeOK, GoTo
<1>3. RunTypeOK'
  BY <1>1, <1>2 DEF RunTypeOK, DigestContent
<1>4. DigestStays
  BY DEF DigestStays
<1>5. \A c \in Chats : ChatReady(r, c)'
  BY ChatsStay
<1>6. at' \in [Runs -> [Chats -> Positions]] /\ \A q \in Runs \ {r} : at'[q] = at[q]
  BY <1>1 DEF PipelineTypeOK
<1>7. DigestReady(r)'
  BY At, DigestTypes DEF DigestReady, NotBegun, Ends
<1> QED
  BY <1>3, <1>4, <1>5, <1>6, <1>7, NodeMoves

LEMMA AcceptReady == ASSUME ReadyInv, NEW r \in Runs, Accept(r) PROVE ReadyInv'
<1>1. /\ pc[r] = "idle" /\ GoTo(r, "session")
      /\ todo' = [todo EXCEPT ![r] = request[r].actions]
      /\ UNCHANGED <<trackingVars, paper, request, file, reads, at, fresh, unread, digest,
                     source,
                     digested, hooked, mailed>>
  BY DEF Accept, pipelineVars
<1>2. \E b \in BOOLEAN : clean' = [clean EXCEPT ![r] = b]
  BY DEF Accept
<1>3. RunTypeOK
  BY DEF ReadyInv, TypeOK
<1>4. /\ DOMAIN todo' = Runs /\ \A q \in Runs : todo'[q] \subseteq request[q].actions
      /\ hooked' \in [Runs -> BOOLEAN] /\ clean' \in [Runs -> BOOLEAN]
      /\ mailed' \in [Runs -> Gatherings \cup {None, Torn}]
  BY <1>1, <1>2, <1>3 DEF RunTypeOK
<1>5. digested[r] = FALSE
  BY <1>1, DigestTypes DEF DigestReady, Ends
<1> QED
  BY <1>1, <1>4, <1>5, SameTypes, RunMoves DEF Steps, NotBegun

\* The steps of the orchestrator that touch nothing of the workflow but the documents.
LEMMA PlainReady ==
  ASSUME ReadyInv, NEW r \in Runs,
         \/ EnsureSession(r) \/ CreateRun(r) \/ StartRun(r) \/ Gather(r) \/ Aggregate(r)
         \/ Deliver(r) \/ CompleteRun(r)
  PROVE  ReadyInv'
<1> DEFINE Leads(to) ==
             /\ GoTo(r, to)
             /\ \/ pc[r] \in NotBegun /\ to \in NotBegun
                \/ /\ pc[r] = "chats" /\ to = "aggregate"
                   /\ \A c \in request[r].chats : at[r][c] \in Settled
                \/ pc[r] = "aggregate" /\ to \in {"consolidate", "output"}
                \/ pc[r] \in {"output", "complete"} /\ to \in {"complete", "done"}
           Same == UNCHANGED <<paper, request, file, reads, at, fresh, unread, digest,
                               source,
                               digested, todo, hooked, mailed, clean>>
<1>2. Same /\ TrackingTypeOK' /\ \E to : Leads(to)
  <2>1. CASE EnsureSession(r) \/ Gather(r) \/ Aggregate(r) \/ Deliver(r)
    <3>1. Same /\ UNCHANGED <<trackingVars, paper>>
      BY <2>1 DEF EnsureSession, Gather, Aggregate, Deliver, Passes, pipelineVars
    <3>2. \E to : Leads(to)
      BY <2>1 DEF EnsureSession, Gather, Aggregate, Deliver, Passes, NotBegun
    <3> QED
      BY <3>1, <3>2, SameTypes
  <2>2. CASE CreateRun(r)
    <3>1. Same /\ CreateRecord(r)
      BY <2>2 DEF CreateRun, pipelineVars
    <3>2. Leads("start") \/ Leads("send")
      BY <2>2 DEF CreateRun, NotBegun
    <3>3. TrackingTypeOK'
      BY <3>1, FaultType DEF ReadyInv, TypeOK, TrackingTypeOK, CreateRecord, RecordStatus
    <3> QED
      BY <3>1, <3>2, <3>3
  <2>3. CASE StartRun(r) \/ CompleteRun(r)
    <3>1. Same /\ (Leads("send") \/ Leads("done"))
      BY <2>3 DEF StartRun, CompleteRun, pipelineVars, NotBegun
    <3>2. UNCHANGED trackingVars \/ \E status \in RecordStatus : SetStatus(r, status)
      BY <2>3 DEF StartRun, CompleteRun, StartRecord, CompleteRecord, RecordStatus
    <3>3. TrackingTypeOK'
      BY <3>2, FaultType DEF ReadyInv, TypeOK, TrackingTypeOK, SetStatus, trackingVars
    <3> QED
      BY <3>1, <3>3
  <2> QED
    BY <2>1, <2>2, <2>3
<1>3. PICK to : Leads(to)
  BY <1>2
<1>4. Same /\ ArchiveTypeOK' /\ RunTypeOK
  BY <1>2 DEF ReadyInv, TypeOK, ArchiveTypeOK
<1>5. to \in Steps \cup Ends
  BY <1>3 DEF NotBegun, Steps, Ends
<1>6. digested[r] => to \in {"output", "complete"} \cup Ends
  BY <1>3, DigestTypes DEF DigestReady, Ends, NotBegun
<1>7. to \in NotBegun \cup {"chats", "aggregate", "consolidate", "output", "complete"}
             \cup Ends
  BY <1>3 DEF Ends
<1>8. /\ to \in NotBegun => pc[r] \in NotBegun
      /\ to # "chats" /\ GoTo(r, to)
      /\ pc[r] = "chats" => \A c \in request[r].chats : at[r][c] \in Settled
  BY <1>3 DEF NotBegun
<1>9. /\ DOMAIN todo' = Runs /\ \A q \in Runs : todo'[q] \subseteq request[q].actions
      /\ hooked' \in [Runs -> BOOLEAN] /\ clean' \in [Runs -> BOOLEAN]
      /\ mailed' \in [Runs -> Gatherings \cup {None, Torn}]
  BY <1>4 DEF RunTypeOK
<1> HIDE DEF Leads
<1> QED
  BY <1>2, <1>4, <1>5, <1>6, <1>7, <1>8, <1>9, RunMoves

LEMMA SendReady == ASSUME ReadyInv, NEW r \in Runs, SendChats(r) PROVE ReadyInv'
<1>1. /\ pc[r] = "send" /\ GoTo(r, "chats") /\ pc'[r] = "chats"
      /\ at' = [at EXCEPT ![r] = [c \in Chats |-> IF c \in request[r].chats
                                                  THEN "extract" ELSE at[r][c]]]
      /\ UNCHANGED <<trackingVars, paper, request, file, reads, fresh, unread, digest,
                     source,
                     digested, todo, hooked, mailed, clean>>
  BY At DEF SendChats, ReadyInv, TypeOK, PipelineTypeOK
<1>2. RunTypeOK /\ PipelineTypeOK
  BY DEF ReadyInv, TypeOK
<1>3. \A c \in Chats : at[r][c] = "idle" /\ reads[r][c] = "separate"
  BY <1>1 DEF ReadyInv, ChatReady, NotBegun, Unlabelled
<1>4. \A c \in Chats : at'[r][c] = IF c \in request[r].chats THEN "extract" ELSE "idle"
  BY <1>1, <1>2, <1>3 DEF PipelineTypeOK
<1>5. at' \in [Runs -> [Chats -> Positions]] /\ \A q \in Runs \ {r} : at'[q] = at[q]
  BY <1>1, <1>2, Names DEF PipelineTypeOK
<1>6. \A c \in Chats : ChatReady(r, c)'
  BY <1>1, <1>3, <1>4, Names DEF ChatReady, NotBegun
<1>7. digested[r] = FALSE
  BY <1>1, DigestTypes DEF DigestReady, Ends
<1>8. DigestReady(r)'
  BY <1>1, <1>7 DEF DigestReady
<1>9. pc' \in [Runs -> Steps \cup Ends]
  BY <1>1, <1>2 DEF RunTypeOK, GoTo, Steps
<1>10. RunTypeOK'
  BY <1>1, <1>2, <1>9 DEF RunTypeOK, DigestContent
<1>11. DigestStays /\ "chats" \in Steps
  BY <1>1 DEF DigestStays, Steps
<1> QED
  BY <1>1, <1>5, <1>6, <1>8, <1>10, <1>11, SameTypes, NodeMoves

\* What a mail can link to.
LEMMA CandidatesType ==
  ASSUME ReadyInv, NEW r \in Runs, NEW x \in Candidates(r)
  PROVE  x \in Gatherings \cup {None, Torn}
<1>1. CASE digested[r]
  BY <1>1, DigestTypes DEF Candidates, DigestFiles
<1>2. CASE ~digested[r]
  <2>1. PICK c \in Succeeded(r) : x = ChatContent(r, c)
    BY <1>2 DEF Candidates
  <2>2. c \in Chats
    BY RequestsAssumption DEF Succeeded, ReadyInv, TypeOK, PipelineTypeOK
  <2>3. FileOf(r, c, "final") # None
    BY <2>1, <2>2 DEF Succeeded, ReadyInv, ChatReady
  <2>4. FileOf(r, c, "final") \in Runs \cup {Torn}
    BY <2>2, <2>3, InputsAreRuns, Names DEF Content
  <2> QED
    BY <2>1, <2>2, <2>4, SingleChat DEF ChatContent
<1> QED
  BY <1>1, <1>2

LEMMA OutputReady ==
  ASSUME ReadyInv, NEW r \in Runs, CallWebhook(r) \/ SendMail(r) PROVE ReadyInv'
<1>1. /\ \E action : todo' = [todo EXCEPT ![r] = @ \ {action}]
      /\ UNCHANGED <<record, known, saved, pipelineVars, pc, digest, source, digested,
                     clean>>
      /\ Fault \/ UNCHANGED faults
      /\ hooked' = hooked \/ hooked' = [hooked EXCEPT ![r] = TRUE]
      /\ mailed' = mailed \/ \E x \in Candidates(r) : mailed' = [mailed EXCEPT ![r] = x]
  BY DEF CallWebhook, SendMail, Settle
<1>2. RunTypeOK
  BY DEF ReadyInv, TypeOK
<1>3. DOMAIN todo' = Runs /\ \A q \in Runs : todo'[q] \subseteq request'[q].actions
  BY <1>1, <1>2 DEF RunTypeOK, pipelineVars
<1>4. hooked' \in [Runs -> BOOLEAN]
  BY <1>1, <1>2 DEF RunTypeOK
<1>5. mailed' \in [Runs -> Gatherings \cup {None, Torn}]
  <2>1. CASE mailed' = mailed
    BY <1>2, <2>1 DEF RunTypeOK
  <2>2. ASSUME NEW x \in Candidates(r), mailed' = [mailed EXCEPT ![r] = x]
        PROVE  mailed' \in [Runs -> Gatherings \cup {None, Torn}]
    BY <1>2, <2>2, CandidatesType DEF RunTypeOK
  <2> QED
    BY <1>1, <2>1, <2>2
<1>6. RunTypeOK'
  BY <1>1, <1>2, <1>3, <1>4, <1>5 DEF RunTypeOK, DigestContent
<1>7. TrackingTypeOK'
  BY <1>1, FaultType DEF ReadyInv, TypeOK, TrackingTypeOK
<1>8. PipelineTypeOK' /\ ArchiveTypeOK'
  BY <1>1 DEF pipelineVars, ReadyInv, TypeOK, PipelineTypeOK, ArchiveTypeOK
<1>9. \A q \in Runs : DigestReady(q)'
  BY <1>1 DEF ReadyInv, DigestReady
<1>10. \A q \in Runs, c \in Chats : ChatReady(q, c)'
  BY <1>1 DEF ReadyInv, ChatReady, pipelineVars, FileOf, Place, Consolidates
<1> QED
  BY <1>6, <1>7, <1>8, <1>9, <1>10 DEF ReadyInv, TypeOK

LEMMA FailsReady ==
  ASSUME ReadyInv, NEW r \in Runs, Fails(r) PROVE ReadyInv'
<1>1. /\ GoTo(r, "failed")
      /\ Fault \/ UNCHANGED faults
      /\ UNCHANGED <<record, known, saved, request, file, reads, at, fresh, unread,
                     digest, source,
                     digested, todo, hooked, mailed, clean>>
  BY DEF Fails
<1>2. TrackingTypeOK'
  BY <1>1, FaultType DEF ReadyInv, TypeOK, TrackingTypeOK
<1>3. \/ UNCHANGED paper
      \/ pc[r] = "generate" /\ CreateNewsletter(r, Digest, Featured(r))
  BY DEF Fails, LeavesDigest, StoreDigest
<1>4. ArchiveTypeOK'
  <2>1. Digest \in Subjects /\ Digest \notin Chats
    BY NoContent DEF Subjects
  <2>2. pc[r] = "generate" => Featured(r) \in Gatherings
    BY FeaturedType
  <2>3. CASE UNCHANGED paper
    BY <2>3 DEF ReadyInv, TypeOK, ArchiveTypeOK
  <2>4. CASE pc[r] = "generate" /\ CreateNewsletter(r, Digest, Featured(r))
    BY <2>1, <2>2, <2>4, PaperTypes DEF ReadyInv, TypeOK
  <2> QED
    BY <1>3, <2>3, <2>4
<1>5. /\ pc[r] # "chats"
      /\ "failed" \in Ends /\ "failed" \notin NotBegun \cup {"chats"}
  BY DEF Fails, Blocked, Exposed, Ends, NotBegun
<1>6. /\ DOMAIN todo' = Runs /\ \A q \in Runs : todo'[q] \subseteq request[q].actions
      /\ hooked' \in [Runs -> BOOLEAN] /\ clean' \in [Runs -> BOOLEAN]
      /\ mailed' \in [Runs -> Gatherings \cup {None, Torn}]
  BY <1>1 DEF ReadyInv, TypeOK, RunTypeOK
<1> QED
  BY <1>1, <1>2, <1>4, <1>5, <1>6, RunMoves

\* A crash leaves torn files, and no chat and no run at work.
LEMMA CrashReady == ASSUME ReadyInv, Crash PROVE ReadyInv'
<1>1. /\ UNCHANGED <<record, known, saved, paper, request, reads, fresh, unread, source,
                     digested,
                     todo, hooked, mailed, clean>>
      /\ Fault
      /\ pc' = [r \in Runs |-> IF Live(r) THEN "lost" ELSE pc[r]]
      /\ at' = [r \in Runs |-> [c \in Chats |->
                  IF at[r][c] \in Busy THEN "lost" ELSE at[r][c]]]
      /\ \E cut : digest' = [f \in DigestFiles |-> IF f \in cut THEN Torn ELSE digest[f]]
  BY DEF Crash, PipelineCrash
<1>2. PICK cut \in SUBSET Writing :
        file' = [d \in Places |-> [c \in Chats |-> [n \in Files |->
                   IF \E w \in cut : Place(w[1]) = d /\ w[2] = c /\ at[w[1]][c] = n
                   THEN Torn ELSE file[d][c][n]]]]
  BY DEF Crash, PipelineCrash
<1>3. TrackingTypeOK' /\ ArchiveTypeOK'
  BY <1>1, FaultType DEF ReadyInv, TypeOK, TrackingTypeOK, ArchiveTypeOK
<1>4. \A d \in Places, c \in Chats, n \in Files : file'[d][c][n] \in {Torn, file[d][c][n]}
  BY <1>2
<1>5. FilesStay
  BY <1>4, NoContent DEF FilesStay
<1>6. /\ \A f \in DigestFiles : digest'[f] \in {Torn, digest[f]}
      /\ DOMAIN digest' = DigestFiles
  BY <1>1
<1>7. DigestStays
  BY <1>6, NoContent DEF DigestStays
<1>8. file' \in [Places -> [Chats -> [Files -> Runs \cup {None, Torn}]]]
  BY <1>2 DEF ReadyInv, TypeOK, PipelineTypeOK
<1>9. PipelineTypeOK'
  BY <1>1, <1>8, Names DEF ReadyInv, TypeOK, PipelineTypeOK
<1>10. \A f \in DigestFiles : digest'[f] \in DigestContent(f)
  BY <1>6 DEF ReadyInv, TypeOK, RunTypeOK, DigestContent
<1>11. pc' \in [Runs -> Steps \cup Ends]
  BY <1>1 DEF ReadyInv, TypeOK, RunTypeOK, Ends
<1>12. RunTypeOK'
  BY <1>1, <1>6, <1>10, <1>11 DEF ReadyInv, TypeOK, RunTypeOK, DigestContent
<1>13. \A r \in Runs : \/ pc'[r] = pc[r] /\ pc[r] \in Ends \cup {"idle"}
                      \/ pc'[r] = "lost"
  BY <1>1 DEF Live
<1>14. ASSUME NEW r \in Runs PROVE DigestReady(r)'
  BY <1>1, <1>7, <1>13, DigestTypes DEF DigestReady, DigestStays, DigestFiles, Ends
<1>15. ASSUME NEW r \in Runs, NEW c \in Chats PROVE ChatReady(r, c)'
  <2>1. ChatReady(r, c) /\ Place(r)' = Place(r)
    BY <1>1 DEF ReadyInv, Place, Consolidates
  <2>2. \/ at'[r][c] = at[r][c] /\ at[r][c] \notin Busy
        \/ at'[r][c] = "lost"
    BY <1>1
  <2>3. FileOf(r, c, "final") # None => FileOf(r, c, "final")' # None
    BY <1>5, <2>1, Names DEF FilesStay, FileOf
  <2>4. pc'[r] \in NotBegun => at[r][c] = "idle"
    BY <1>13, <2>1 DEF ChatReady, NotBegun, Ends
  <2> QED
    BY <1>1, <2>1, <2>2, <2>3, <2>4, Names DEF ChatReady, Unlabelled
<1> QED
  BY <1>3, <1>9, <1>12, <1>14, <1>15 DEF ReadyInv, TypeOK

\* The user's choice, and the newsletter made of it.
LEMMA UserReady == ASSUME ReadyInv, SaveSelections \/ GeneratePhase2 PROVE ReadyInv'
<1>1. PICK f \in {"chosen", "selected"} : \E x \in DigestContent(f) :
        x # None /\ UserWrites(f, x)
  <2>1. CASE SaveSelections
    <3>1. PICK ids \in SUBSET digest["selection"] : UserWrites("chosen", ids)
      BY <2>1 DEF SaveSelections
    <3>2. digest["selection"] \in IdLists
      BY <2>1 DEF SaveSelections, ReadyInv, TypeOK, RunTypeOK, DigestContent, DigestFiles
    <3>3. ids \in IdLists
      BY <3>2 DEF IdLists
    <3> QED
      BY <3>1, <3>3, NoContent DEF DigestContent
  <2>2. CASE GeneratePhase2
    <3>1. PICK picked \in SUBSET digest["aggregated"] : UserWrites("selected", picked)
      BY <2>2 DEF GeneratePhase2
    <3>2. digest["aggregated"] \in Gatherings
      BY <2>2 DEF GeneratePhase2, ReadyInv, TypeOK, RunTypeOK, DigestContent, DigestFiles
    <3>3. picked \in Gatherings
      BY <3>2, SomeOf
    <3> QED
      BY <3>1, <3>3, NoContent DEF DigestContent
  <2> QED
    BY <2>1, <2>2
<1>10. PICK x \in DigestContent(f) : x # None /\ UserWrites(f, x)
  BY <1>1
<1>2. /\ digest' = [digest EXCEPT ![f] = x]
      /\ UNCHANGED <<trackingVars, pipelineVars, pc, source, digested, todo, hooked,
                     mailed, clean>>
  BY <1>10 DEF UserWrites
<1>3. RunTypeOK
  BY DEF ReadyInv, TypeOK
<1>4. /\ DOMAIN digest' = DigestFiles
      /\ \A g \in DigestFiles : digest'[g] = digest[g] \/ (g = f /\ digest'[g] = x)
  BY <1>2, <1>3 DEF RunTypeOK
<1>5. \A g \in DigestFiles : digest'[g] \in DigestContent(g)
  BY <1>10, <1>3, <1>4 DEF RunTypeOK
<1>6. RunTypeOK'
  BY <1>2, <1>3, <1>4, <1>5 DEF RunTypeOK, DigestContent, pipelineVars
<1>7. PipelineTypeOK' /\ TrackingTypeOK' /\ ArchiveTypeOK'
  BY <1>2 DEF pipelineVars, trackingVars, ReadyInv, TypeOK, PipelineTypeOK,
              TrackingTypeOK, ArchiveTypeOK
<1>8. ASSUME NEW r \in Runs PROVE DigestReady(r)'
  <2>1. \A g \in DigestFiles : digest[g] # None => digest'[g] # None
    BY <1>10, <1>4
  <2> QED
    BY <1>2, <2>1, DigestTypes DEF DigestReady, DigestFiles
<1>9. \A q \in Runs, c \in Chats : ChatReady(q, c)'
  BY <1>2 DEF ReadyInv, ChatReady, pipelineVars, FileOf, Place, Consolidates
<1> QED
  BY <1>6, <1>7, <1>8, <1>9 DEF ReadyInv, TypeOK

LEMMA ReadyStep == ASSUME ReadyInv, [Next]_vars PROVE ReadyInv'
<1>1. ASSUME NEW r \in Runs, RunStep(r) PROVE ReadyInv'
  <2>1. CASE \/ EnsureSession(r) \/ CreateRun(r) \/ StartRun(r) \/ Gather(r)
             \/ Aggregate(r) \/ Deliver(r) \/ CompleteRun(r)
    BY <2>1, PlainReady
  <2>2. CASE Consolidate(r) \/ LeaveUnmerged(r) \/ Merge(r) \/ Rank(r)
             \/ PrepareSelection(r) \/ Generate(r) \/ Enrich(r)
    BY <2>2, ConsolidateReady, MergeReady, RankReady, PrepareReady, GenerateReady,
       EnrichReady
  <2>3. CASE \/ StoreEnriched(r) \/ Translate(r) \/ StoreTranslated(r) \/ CallWebhook(r)
             \/ SendMail(r) \/ Fails(r) \/ SendChats(r)
    BY <2>3, StoreDigestReady, TranslateReady, OutputReady, FailsReady, SendReady
  <2>4. CASE \E c \in request[r].chats : Chat(r, c)
    BY <2>4, ChatIsReady
  <2> QED
    BY <1>1, <2>1, <2>2, <2>3, <2>4 DEF RunStep
<1>2. CASE UNCHANGED vars
  BY <1>2 DEF vars, trackingVars, pipelineVars, runVars, ReadyInv, TypeOK, TrackingTypeOK,
              PipelineTypeOK, RunTypeOK, ArchiveTypeOK, DigestReady, ChatReady, FileOf,
              Place, Consolidates, DigestContent
<1> QED
  BY <1>1, <1>2, AcceptReady, CrashReady, UserReady DEF Next, Finished

LEMMA ReadyAtFirst == Init => ReadyInv
<1> SUFFICES ASSUME Init PROVE ReadyInv
  OBVIOUS
<1>1. TrackingTypeOK /\ ArchiveTypeOK
  BY TrackingAssumption, NoContent
     DEF Init, TrackingInit, PipelineInit, ArchiveInit, TrackingTypeOK, ArchiveTypeOK,
         RecordStatus, Subjects
<1>2. PipelineTypeOK
  BY Names DEF Init, PipelineInit, PipelineTypeOK
<1>3. RunTypeOK
  BY DEF Init, RunTypeOK, DigestContent, Steps
<1>4. \A r \in Runs : DigestReady(r)
  BY DEF Init, DigestReady
<1>5. \A r \in Runs, c \in Chats : ChatReady(r, c)
  BY Names DEF Init, PipelineInit, ChatReady
<1> QED
  BY <1>1, <1>2, <1>3, <1>4, <1>5 DEF ReadyInv, TypeOK

LEMMA ReadyAlways == Spec => []ReadyInv
BY ReadyAtFirst, ReadyStep, PTL DEF Spec

(***************************************************************************)
(* Every variable keeps its type: a chat's files and newsletters name the  *)
(* run whose messages they are made of, a digest, its mail and its         *)
(* newsletter the discussions of some chats, from one extraction each, or  *)
(* what these were merged into; None only where nothing has been written,  *)
(* and no node or mail takes its content from a file that is not there.    *)
(***************************************************************************)
THEOREM RunTypes == Spec => []TypeOK
BY ReadyAlways, PTL DEF ReadyInv

-----------------------------------------------------------------------------
(***************************************************************************)
(* Editions.  A run that is not concurrent is alone while it is alive, so  *)
(* nobody else writes between two of its nodes.  A node it executes found  *)
(* no file, and then there is none behind it either: the files of a chat,  *)
(* and those of a digest, are made in their order.  So what follows is     *)
(* made, and stored, of the text of its original.  Where the original was  *)
(* not stored, nothing else is.                                            *)
(***************************************************************************)
Alone ==
  \A q, r \in Runs : q # r /\ Live(q) /\ Live(r) =>
    request[q].concurrent /\ request[r].concurrent

\* A file is there if one that is made of it is.
DigestChained ==
  /\ digest["enriched"] # None => digest["newsletter"] # None
  /\ digest["final"] # None => digest["enriched"] # None

ChatsChained ==
  \A d \in Places, c \in Chats :
    /\ file[d][c]["enrich"] # None => file[d][c]["generate"] # None
    /\ file[d][c]["final"] # None => file[d][c]["enrich"] # None

ChatEdition(r, c) ==
  LET text == paper[r][c].original IN
  /\ paper[r][c].translated \in {None, text}
  /\ text # None =>
       /\ at[r][c] \in {"enrich", "enriched", "final", "translated",
                        "succeeded", "failed", "lost"}
       /\ at[r][c] = "enrich" => /\ FileOf(r, c, "generate") = text
                                 /\ FileOf(r, c, "enrich") = None
       /\ at[r][c] \in {"enriched", "final"} => /\ FileOf(r, c, "enrich") = text
                                               /\ FileOf(r, c, "final") = None
       /\ at[r][c] = "translated" => FileOf(r, c, "final") = text

DigestEdition(r) ==
  LET text == paper[r][Digest].original IN
  /\ paper[r][Digest].translated \in {None, text}
  /\ text # None =>
       /\ pc[r] \in {"enrich", "enriched", "translate", "translated",
                     "output", "complete"} \cup Ends
       /\ pc[r] = "enrich" => /\ digest["newsletter"] = text
                              /\ request[r].force \/ digest["enriched"] = None
       /\ pc[r] \in {"enriched", "translate"} =>
            /\ digest["enriched"] = text
            /\ request[r].force \/ digest["final"] = None
       /\ pc[r] = "translated" => digest["final"] = text

Editions(r) ==
  ~request[r].concurrent =>
    DigestEdition(r) /\ (~request[r].force => \A c \in Chats : ChatEdition(r, c))

EditionInv ==
  Alone /\ DigestChained /\ ChatsChained /\ \A r \in Runs : Editions(r)

\* Live runs, before and after a step that ends some and starts none but r.
LEMMA StaysAlone ==
  ASSUME Alone, NEW r \in Runs, request' = request,
         \A q \in Runs \ {r} : Live(q)' => Live(q),
         \/ Live(r)' => Live(r)
         \/ \A q \in Runs : Live(q) => request[q].concurrent /\ request[r].concurrent
  PROVE  Alone'
BY DEF Alone

\* The editions of a run that takes no step: its files are nobody else's, or it has
\* ended and does not look at them any more.
LEMMA EditionStays ==
  ASSUME ReadyInv, NEW q \in Runs, Editions(q), request' = request,
         pc'[q] = pc[q], at'[q] = at[q], paper'[q] = paper[q],
         (Live(q) => request[q].concurrent) \/ UNCHANGED <<file, digest>>
  PROVE  Editions(q)'
<1> SUFFICES ASSUME ~request[q].concurrent PROVE Editions(q)'
  BY DEF Editions
<1>1. Place(q)' = Place(q)
  BY DEF Place, Consolidates
<1>2. CASE UNCHANGED <<file, digest>>
  BY <1>1, <1>2 DEF Editions, DigestEdition, ChatEdition, FileOf
<1>3. CASE Live(q) => request[q].concurrent
  <2>1. pc[q] \in Ends \cup {"idle"}
    BY <1>3 DEF Live
  <2>2. \A c \in Chats : at[q][c] \notin Busy
    BY <2>1 DEF ReadyInv, ChatReady, Ends
  <2>3. DigestEdition(q)'
    BY <2>1 DEF Editions, DigestEdition, Ends
  <2>4. ASSUME ~request[q].force, NEW c \in Chats PROVE ChatEdition(q, c)'
    <3>1. ChatEdition(q, c)
      BY <2>4 DEF Editions
    <3>2. at[q][c] \notin {"enrich", "enriched", "final", "translated"}
      BY <2>2, Names
    <3> QED
      BY <3>1, <3>2 DEF ChatEdition
  <2> QED
    BY <2>3, <2>4 DEF Editions
<1> QED
  BY <1>2, <1>3

\* What a step of one chat leaves alone.
ChatFrame(r, c) ==
  /\ request' = request
  /\ \A q \in Runs \ {r} :
       at'[q] = at[q] /\ reads'[q] = reads[q] /\ paper'[q] = paper[q]
  /\ \A x \in Subjects \ {c} : paper'[r][x] = paper[r][x]
  /\ \A d \in Chats \ {c} :
       /\ at'[r][d] = at[r][d] /\ reads'[r][d] = reads[r][d]
       /\ \A p \in Places, n \in Files : file'[p][d][n] = file[p][d][n]
  /\ \A p \in Places \ {Place(r)}, n \in Files : file'[p][c][n] = file[p][c][n]

\* The newsletters after a step that stores one of r about x.
PaperFrame(r, x) ==
  /\ \A q \in Runs \ {r} : paper'[q] = paper[q]
  /\ \A y \in Subjects \ {x} : paper'[r][y] = paper[r][y]

LEMMA Created ==
  ASSUME ReadyInv, NEW r \in Runs, NEW x \in Subjects, NEW text,
         CreateNewsletter(r, x, text)
  PROVE  /\ PaperFrame(r, x)
         /\ paper'[r][x].original = text /\ paper'[r][x].translated = None
<1>1. DOMAIN paper = Runs /\ DOMAIN paper[r] = Subjects
  BY DEF ReadyInv, TypeOK, ArchiveTypeOK
<1>2. PICK t : t = [v \in Versions |-> IF v = "original" THEN text ELSE None]
  OBVIOUS
<1>3. t.original = text /\ t.translated = None
  BY <1>2 DEF Versions
<1>4. paper' = [paper EXCEPT ![r][x] = t]
  BY <1>2 DEF CreateNewsletter
<1> QED
  BY <1>1, <1>3, <1>4 DEF PaperFrame

LEMMA Added ==
  ASSUME ReadyInv, NEW r \in Runs, NEW x \in Subjects, NEW text,
         NEW version \in {"enriched", "translated"}, AddVersion(r, x, version, text)
  PROVE  /\ PaperFrame(r, x) /\ paper'[r][x].original = paper[r][x].original
         /\ \/ paper'[r][x].translated = paper[r][x].translated
            \/ /\ version = "translated" /\ paper[r][x].original # None
               /\ paper'[r][x].translated = text
<1>1. DOMAIN paper = Runs /\ DOMAIN paper[r] = Subjects /\ DOMAIN paper[r][x] = Versions
  BY DEF ReadyInv, TypeOK, ArchiveTypeOK, Subjects
<1>2. CASE UNCHANGED paper
  BY <1>2 DEF PaperFrame
<1>3. CASE ~UNCHANGED paper
  <2>1. PICK t : t = [paper[r][x] EXCEPT ![version] = text]
    OBVIOUS
  <2>2. /\ t.original = paper[r][x].original
        /\ t.translated = IF version = "translated" THEN text ELSE paper[r][x].translated
    BY <1>1, <2>1 DEF Versions
  <2>3. paper' = [paper EXCEPT ![r][x] = t] /\ paper[r][x].original # None
    BY <1>1, <1>3, <2>1 DEF AddVersion, Exists
  <2> QED
    BY <1>1, <2>2, <2>3 DEF PaperFrame
<1> QED
  BY <1>2, <1>3

LEMMA Framed ==
  ASSUME ReadyInv, NEW r \in Runs, NEW c \in Chats, ChatStep(r, c)
  PROVE  ChatFrame(r, c)
<1>1. /\ \E position : at' = [at EXCEPT ![r][c] = position]
      /\ reads' = reads \/ \E where : reads' = [reads EXCEPT ![r][c] = where]
      /\ \/ file' = file
         \/ \E n \in Files : \E of : file' = [file EXCEPT ![Place(r)][c][n] = of]
      /\ request' = request
      /\ \/ UNCHANGED paper
         \/ CreateNewsletter(r, c, DiscussionsOf(r, c))
         \/ \E version \in {"enriched", "translated"} : \E text :
              AddVersion(r, c, version, text)
  <2> USE DEF trackingVars, MoveTo, Files
  <2>1. CASE Reuse(r, c)
    BY <2>1 DEF Reuse
  <2>2. CASE LabelMessages(r, c)
    BY <2>2 DEF LabelMessages, WriteLabels, LeaveUnlabelled
  <2>3. CASE GenerateContent(r, c)
    BY <2>3, Names DEF GenerateContent, StoreOriginal, Write
  <2>4. CASE ExtractMessages(r, c) \/ PreprocessMessages(r, c) \/ TranslateMessages(r, c)
    BY <2>4, Names DEF ExtractMessages, PreprocessMessages, TranslateMessages, Write
  <2>5. CASE SeparateDiscussions(r, c) \/ RankDiscussions(r, c)
    BY <2>5, Names DEF SeparateDiscussions, RankDiscussions, Write
  <2>6. CASE EnrichWithLinks(r, c) \/ TranslateFinalSummary(r, c)
    BY <2>6, Names DEF EnrichWithLinks, TranslateFinalSummary, Write
  <2>7. CASE Raise(r, c)
    BY <2>7 DEF Raise, LeavesOriginal
  <2>8. CASE Store(r, c) \/ LeaveRowsOut(r, c) \/ StoreRaises(r, c)
    BY <2>8 DEF Store, StoreRows, LeaveRowsOut, StoreRaises
  <2>9. CASE StoreDerived(r, c)
    BY <2>9 DEF StoreDerived, StoreVersion, Derived
  <2> QED
    BY <2>1, <2>2, <2>3, <2>4, <2>5, <2>6, <2>7, <2>8, <2>9 DEF ChatStep, Produce
<1>2. PaperFrame(r, c)
  <2>1. c \in Subjects
    BY DEF Subjects
  <2>2. CASE UNCHANGED paper
    BY <2>2 DEF PaperFrame
  <2> QED
    BY <1>1, <2>1, <2>2, Created, Added
<1>3. /\ at \in [Runs -> [Chats -> Positions]]
      /\ reads \in [Runs -> [Chats -> {"separate", "labelled"}]]
      /\ file \in [Places -> [Chats -> [Files -> Content]]]
  BY DEF ReadyInv, TypeOK, PipelineTypeOK, Content
<1>4. /\ \A q \in Runs \ {r} : at'[q] = at[q] /\ reads'[q] = reads[q]
      /\ \A d \in Chats \ {c} : at'[r][d] = at[r][d] /\ reads'[r][d] = reads[r][d]
  BY <1>1, <1>3
<1>5. /\ \A d \in Chats \ {c}, p \in Places, n \in Files : file'[p][d][n] = file[p][d][n]
      /\ \A p \in Places \ {Place(r)}, n \in Files : file'[p][c][n] = file[p][c][n]
  <2>1. CASE file' = file
    BY <2>1
  <2>2. ASSUME NEW m \in Files, NEW of, file' = [file EXCEPT ![Place(r)][c][m] = of],
               NEW p \in Places, NEW d \in Chats, NEW n \in Files,
               d # c \/ p # Place(r)
        PROVE  file'[p][d][n] = file[p][d][n]
    BY <1>3, <2>2
  <2> QED
    BY <1>1, <2>1, <2>2
<1> QED
  BY <1>1, <1>2, <1>4, <1>5 DEF ChatFrame, PaperFrame

\* A step of one chat keeps the editions if it keeps those of that chat.
LEMMA ChatEdits ==
  ASSUME ReadyInv, EditionInv, NEW r \in Runs, NEW c \in Chats, pc[r] = "chats",
         UNCHANGED runVars, ChatStep(r, c), ChatsChained',
         ~request[r].concurrent /\ ~request[r].force => ChatEdition(r, c)'
  PROVE  EditionInv'
<1>1. ChatFrame(r, c) /\ pc' = pc /\ digest' = digest /\ request' = request
  BY Framed DEF runVars, ChatFrame
<1>2. Alone'
  BY <1>1 DEF EditionInv, Alone, Live
<1>3. DigestChained'
  BY <1>1 DEF EditionInv, DigestChained
<1>4. ASSUME NEW q \in Runs, q # r PROVE Editions(q)'
  <2>1. Live(r)
    BY DEF Live, Ends
  <2>2. Live(q) => request[q].concurrent
    BY <1>4, <2>1 DEF EditionInv, Alone
  <2> QED
    BY <1>1, <1>4, <2>2, EditionStays DEF EditionInv, ChatFrame
<1>5. Editions(r)'
  <2> SUFFICES ASSUME ~request[r].concurrent PROVE Editions(r)'
    BY <1>1 DEF Editions
  <2>1. DigestEdition(r)'
    <3>1. Digest \in Subjects \ {c}
      BY NoContent DEF Subjects
    <3> QED
      BY <1>1, <3>1 DEF EditionInv, Editions, DigestEdition, ChatFrame
  <2>2. ASSUME ~request[r].force, NEW d \in Chats, d # c PROVE ChatEdition(r, d)'
    <3>1. ChatEdition(r, d)
      BY <2>2 DEF EditionInv, Editions
    <3>2. /\ at'[r][d] = at[r][d] /\ paper'[r][d] = paper[r][d] /\ Place(r)' = Place(r)
          /\ \A n \in Files : file'[Place(r)][d][n] = file[Place(r)][d][n]
      BY <1>1, <2>2, Names DEF ChatFrame, Subjects, Place, Consolidates
    <3> QED
      BY <3>1, <3>2, Names DEF ChatEdition, FileOf
  <2> QED
    BY <1>1, <2>1, <2>2 DEF Editions
<1> QED
  BY <1>2, <1>3, <1>4, <1>5 DEF EditionInv

\* The positions at which nothing of a chat has been stored under the run yet.
Unwritten == Busy \ {"enrich", "enriched", "final", "translated"}

LEMMA NoText ==
  ASSUME NEW r \in Runs, NEW c \in Chats, ChatEdition(r, c), at[r][c] \in Unwritten
  PROVE  paper[r][c].original = None
BY Names DEF ChatEdition, Unwritten

\* A chat whose original is not stored has no other version.
LEMMA NothingStored ==
  ASSUME NEW r \in Runs, NEW c \in Chats, ChatEdition(r, c), UNCHANGED paper,
         paper[r][c].original = None
  PROVE  ChatEdition(r, c)'
BY DEF ChatEdition

\* A node that writes a file, and the newsletter that is stored of it.
LEMMA WriteEdits ==
  ASSUME ReadyInv, EditionInv, NEW r \in Runs, NEW c \in Chats, pc[r] = "chats",
         UNCHANGED runVars, ChatStep(r, c),
         NEW n \in Nodes, NEW of \in Runs, Write(r, c, n, of),
         UNCHANGED paper \/ (n = "generate" /\ CreateNewsletter(r, c, of)),
         n = "enrich" => of = FileOf(r, c, "generate"),
         n = "final" => of = FileOf(r, c, "enrich")
  PROVE  EditionInv'
<1>1. /\ at[r][c] = n /\ at' = [at EXCEPT ![r][c] = Next1(r, n)]
      /\ ~Reusable(r, c, n) /\ Readable(r, c, n) /\ Place(r)' = Place(r)
      /\ file' = [file EXCEPT ![Place(r)][c][n] = of]
  BY DEF Write, MoveTo, Next1, Place, Consolidates
<1>2. /\ at'[r][c] = Next1(r, n)
      /\ \A d \in Places, e \in Chats, m \in Files :
           file'[d][e][m] = IF d = Place(r) /\ e = c /\ m = n THEN of ELSE file[d][e][m]
  BY <1>1, Names DEF ReadyInv, TypeOK, PipelineTypeOK
<1>3. of # None
  BY NoContent
<1>4. /\ n = "enrich" => FileOf(r, c, "generate") # None
      /\ n = "final" => FileOf(r, c, "enrich") # None
  BY <1>1, InputsAreRuns, NoContent
<1>5. ChatsChained'
  BY <1>2, <1>3, <1>4, Names DEF EditionInv, ChatsChained, FileOf
<1>6. ASSUME ~request[r].concurrent, ~request[r].force PROVE ChatEdition(r, c)'
  <2>1. ChatEdition(r, c)
    BY <1>6 DEF EditionInv, Editions
  <2>2. FileOf(r, c, n) = None
    BY <1>1, <1>6 DEF Reusable, Refreshes
  <2>3. \A m \in Files : FileOf(r, c, m)' = IF m = n THEN of ELSE FileOf(r, c, m)
    BY <1>1, <1>2, Names DEF FileOf
  <2>4. /\ FileOf(r, c, "generate") = None => FileOf(r, c, "enrich") = None
        /\ FileOf(r, c, "enrich") = None => FileOf(r, c, "final") = None
    BY Names DEF EditionInv, ChatsChained, FileOf
  <2>5. CASE n = "generate"
    <3>1. paper[r][c].original = None
      BY <1>1, <2>1, <2>5, Names, NoText DEF Unwritten
    <3>2. CASE UNCHANGED paper
      BY <2>1, <3>1, <3>2, NothingStored
    <3>3. CASE CreateNewsletter(r, c, of)
      <4>1. paper'[r][c].original = of /\ paper'[r][c].translated = None
        BY <3>3, Created DEF Subjects
      <4>2. at'[r][c] = "enrich"
        BY <1>2, <2>5, WriteRoutes
      <4>3. FileOf(r, c, "generate")' = of /\ FileOf(r, c, "enrich")' = None
        BY <2>2, <2>3, <2>4, <2>5, Names
      <4> QED
        BY <4>1, <4>2, <4>3 DEF ChatEdition
    <3> QED
      BY <2>5, <3>2, <3>3
  <2>6. CASE n = "enrich"
    <3>1. at'[r][c] \in {"enriched", "final"} /\ UNCHANGED paper
      BY <1>2, <2>6, WriteRoutes
    <3>2. /\ FileOf(r, c, "enrich")' = FileOf(r, c, "generate")
          /\ FileOf(r, c, "final")' = None
      BY <2>2, <2>3, <2>4, <2>6, Names
    <3> QED
      BY <1>1, <2>1, <2>6, <3>1, <3>2 DEF ChatEdition
  <2>7. CASE n = "final"
    <3>1. at'[r][c] \in {"translated", "succeeded"} /\ UNCHANGED paper
      BY <1>2, <2>7, WriteRoutes
    <3>2. FileOf(r, c, "final")' = FileOf(r, c, "enrich")
      BY <2>3, <2>7, Names
    <3> QED
      BY <1>1, <2>1, <2>7, <3>1, <3>2 DEF ChatEdition
  <2>8. CASE n \notin {"generate", "enrich", "final"}
    <3>1. paper[r][c].original = None
      BY <1>1, <2>1, <2>8, Names, NoText DEF Unwritten
    <3> QED
      BY <2>1, <2>8, <3>1, NothingStored
  <2> QED
    BY <2>5, <2>6, <2>7, <2>8
<1> QED
  BY <1>5, <1>6, ChatEdits

\* A step of a chat that writes no file but the labels.
LEMMA MoveEdits ==
  ASSUME ReadyInv, EditionInv, NEW r \in Runs, NEW c \in Chats, pc[r] = "chats",
         UNCHANGED runVars, Reuse(r, c) \/ LabelMessages(r, c) \/ Raise(r, c)
                            \/ Store(r, c) \/ LeaveRowsOut(r, c) \/ StoreRaises(r, c)
                            \/ StoreDerived(r, c)
  PROVE  EditionInv'
<1>0. ChatStep(r, c)
  BY DEF ChatStep, Produce
<1>1. /\ request' = request /\ Place(r)' = Place(r)
      /\ \A d \in Places, e \in Chats, n \in Nodes : file'[d][e][n] = file[d][e][n]
  <2>1. /\ request' = request
        /\ \/ file' = file
           \/ \E of : file' = [file EXCEPT ![Place(r)][c]["labelled"] = of]
    BY DEF Reuse, LabelMessages, WriteLabels, LeaveUnlabelled, Raise, Store, StoreRaises,
           LeaveRowsOut, StoreDerived
  <2>2. "labelled" \notin Nodes
    BY DEF Nodes
  <2>3. Place(r)' = Place(r)
    BY <2>1 DEF Place, Consolidates
  <2>4. ASSUME NEW of, file' = [file EXCEPT ![Place(r)][c]["labelled"] = of]
        PROVE  \A d \in Places, e \in Chats, n \in Nodes : file'[d][e][n] = file[d][e][n]
    BY <2>2, <2>4, Names DEF ReadyInv, TypeOK, PipelineTypeOK
  <2> QED
    BY <2>1, <2>3, <2>4
<1>2. ChatsChained'
  BY <1>1, Names DEF EditionInv, ChatsChained
<1>3. ASSUME ~request[r].concurrent, ~request[r].force PROVE ChatEdition(r, c)'
  <2>1. ChatEdition(r, c)
    BY <1>3 DEF EditionInv, Editions
  <2>2. \A n \in Nodes : FileOf(r, c, n)' = FileOf(r, c, n)
    BY <1>1, Names DEF FileOf
  <2>3. \A p : MoveTo(r, c, p) => at'[r][c] = p
    BY DEF MoveTo, ReadyInv, TypeOK, PipelineTypeOK
  <2>4. CASE Reuse(r, c)
    <3>1. /\ at[r][c] \in Nodes /\ FileOf(r, c, at[r][c]) # None /\ UNCHANGED paper
      BY <2>4 DEF Reuse, Reusable
    <3>2. at[r][c] = "final" => paper[r][c].original = None
      BY <2>1, <3>1 DEF ChatEdition
    <3>3. at[r][c] = "enrich" => paper[r][c].original = None
      BY <2>1, <3>1 DEF ChatEdition
    <3>4. paper[r][c].original = None
      BY <2>1, <3>1, <3>2, <3>3, Names, NoText DEF Unwritten
    <3> QED
      BY <2>1, <3>1, <3>4, NothingStored
  <2>5. CASE LabelMessages(r, c) \/ Store(r, c) \/ LeaveRowsOut(r, c)
               \/ StoreRaises(r, c)
    <3>1. at[r][c] \in Unwritten /\ UNCHANGED paper
      BY <2>5, Names, RowsLeftOut
         DEF LabelMessages, Store, StoreRaises, Unwritten, SourceData
    <3> QED
      BY <2>1, <3>1, NoText, NothingStored
  <2>6. CASE Raise(r, c)
    <3>1. /\ at'[r][c] = "failed"
          /\ UNCHANGED paper \/ CreateNewsletter(r, c, DiscussionsOf(r, c))
      BY <2>3, <2>6 DEF Raise, LeavesOriginal
    <3>2. CASE UNCHANGED paper
      BY <2>1, <3>1, <3>2 DEF ChatEdition
    <3>3. CASE CreateNewsletter(r, c, DiscussionsOf(r, c))
      <4>1. paper'[r][c].translated = None
        BY <3>3, Created DEF Subjects
      <4> QED
        BY <3>1, <4>1 DEF ChatEdition
    <3> QED
      BY <3>1, <3>2, <3>3
  <2>7. CASE StoreDerived(r, c)
    <3> DEFINE version == at[r][c]
               text == FileOf(r, c, IF version = "enriched" THEN "enrich" ELSE "final")
    <3>1. /\ version \in {"enriched", "translated"} /\ at'[r][c] = After[version]
          /\ UNCHANGED paper \/ AddVersion(r, c, version, text)
      BY <2>3, <2>7 DEF StoreDerived, StoreVersion, Derived
    <3>2. /\ version = "enriched" => at'[r][c] = "final"
          /\ version = "translated" => at'[r][c] = "succeeded"
      BY <3>1, Routes
    <3>3. /\ paper'[r][c].original = paper[r][c].original
          /\ \/ paper'[r][c].translated = paper[r][c].translated
             \/ /\ version = "translated" /\ paper[r][c].original # None
                /\ paper'[r][c].translated = text
      <4>1. c \in Subjects
        BY DEF Subjects
      <4> HIDE DEF version, text
      <4> QED
        BY <3>1, <4>1, Added
    <3>4. CASE version = "enriched"
      BY <2>1, <2>2, <3>2, <3>3, <3>4, Names DEF ChatEdition
    <3>5. CASE version = "translated"
      <4>1. paper[r][c].original # None => text = paper[r][c].original
        BY <2>1, <3>5 DEF ChatEdition
      <4> QED
        BY <2>1, <3>2, <3>3, <3>5, <4>1 DEF ChatEdition
    <3> QED
      BY <3>1, <3>4, <3>5
  <2> QED
    BY <2>4, <2>5, <2>6, <2>7
<1> QED
  BY <1>0, <1>2, <1>3, ChatEdits

LEMMA ChatIsEdited ==
  ASSUME ReadyInv, EditionInv, NEW r \in Runs, NEW c \in request[r].chats, Chat(r, c)
  PROVE  EditionInv'
<1>1. c \in Chats
  BY RequestsAssumption DEF ReadyInv, TypeOK, PipelineTypeOK
<1>2. pc[r] = "chats" /\ UNCHANGED runVars /\ ChatStep(r, c)
  BY DEF Chat
<1>3. \A n \in Nodes : \A of : Write(r, c, n, of) => Readable(r, c, n)
  BY DEF Write
<1> USE <1>1, <1>2, <1>3, InputsAreRuns, WriteEdits, Names DEF trackingVars
<1>4. CASE ExtractMessages(r, c)
  BY <1>4 DEF ExtractMessages
<1>5. CASE PreprocessMessages(r, c) \/ TranslateMessages(r, c) \/ SeparateDiscussions(r, c)
  BY <1>5 DEF PreprocessMessages, TranslateMessages, SeparateDiscussions
<1>6. CASE RankDiscussions(r, c)
  BY <1>6 DEF RankDiscussions
<1>7. CASE GenerateContent(r, c)
  BY <1>7 DEF GenerateContent, StoreOriginal
<1>8. CASE EnrichWithLinks(r, c)
  BY <1>8 DEF EnrichWithLinks
<1>9. CASE TranslateFinalSummary(r, c)
  BY <1>9 DEF TranslateFinalSummary
<1> QED
  BY <1>4, <1>5, <1>6, <1>7, <1>8, <1>9, MoveEdits DEF ChatStep, Produce

\* A step of the orchestrator keeps the editions if it keeps that of the digest.
LEMMA NodeEdits ==
  ASSUME ReadyInv, EditionInv, NEW r \in Runs, NEW to, GoTo(r, to),
         UNCHANGED <<request, file>>,
         at' = at \/ (pc[r] = "send" /\ \A q \in Runs \ {r} : at'[q] = at[q]),
         PaperFrame(r, Digest),
         \/ Live(r)
         \/ /\ digest' = digest
            /\ \A q \in Runs : Live(q) => request[q].concurrent /\ request[r].concurrent,
         DigestChained', ~request[r].concurrent => DigestEdition(r)'
  PROVE  EditionInv'
<1>1. pc' = [pc EXCEPT ![r] = to] /\ pc'[r] = to
  BY At DEF GoTo
<1>2. \A q \in Runs \ {r} : pc'[q] = pc[q] /\ (Live(q) => request[q].concurrent \/ ~Live(r))
  BY <1>1 DEF ReadyInv, TypeOK, RunTypeOK, EditionInv, Alone
<1>3. Alone'
  <2>1. \A q \in Runs \ {r} : Live(q)' => Live(q)
    BY <1>2 DEF Live
  <2> QED
    BY <2>1, StaysAlone DEF EditionInv
<1>4. ChatsChained'
  BY DEF EditionInv, ChatsChained
<1>5. ASSUME NEW q \in Runs, q # r PROVE Editions(q)'
  <2>1. at'[q] = at[q] /\ paper'[q] = paper[q] /\ pc'[q] = pc[q] /\ Editions(q)
    BY <1>2, <1>5 DEF PaperFrame, EditionInv
  <2>2. (Live(q) => request[q].concurrent) \/ UNCHANGED <<file, digest>>
    BY <1>2, <1>5
  <2> QED
    BY <2>1, <2>2, EditionStays
<1>6. ASSUME ~request[r].concurrent, ~request[r].force, NEW c \in Chats
      PROVE  ChatEdition(r, c)'
  <2>1. ChatEdition(r, c) /\ Place(r)' = Place(r)
    BY <1>6 DEF EditionInv, Editions, Place, Consolidates
  <2>2. paper'[r][c] = paper[r][c]
    BY NoContent DEF PaperFrame, Subjects
  <2>3. CASE at' = at
    BY <2>1, <2>2, <2>3 DEF ChatEdition, FileOf
  <2>4. CASE pc[r] = "send"
    <3>1. at[r][c] = "idle"
      BY <2>4 DEF ReadyInv, ChatReady, NotBegun
    <3>2. paper[r][c].original = None
      BY <2>1, <3>1 DEF ChatEdition
    <3> QED
      BY <2>1, <2>2, <3>2 DEF ChatEdition
  <2> QED
    BY <2>3, <2>4
<1> QED
  BY <1>3, <1>4, <1>5, <1>6 DEF EditionInv, Editions

\* Before the newsletter of the digest is made, and after its last version is stored.
LEMMA NoDigestText ==
  ASSUME NEW r \in Runs, DigestEdition(r),
         pc[r] \notin {"enrich", "enriched", "translate", "translated", "output",
                       "complete"} \cup Ends
  PROVE  paper[r][Digest].original = None /\ paper[r][Digest].translated = None
BY DEF DigestEdition

\* The steps that have nothing to do with the newsletter of the digest.
LEMMA PlainEdits ==
  ASSUME ReadyInv, EditionInv, NEW r \in Runs,
         \/ Accept(r) \/ EnsureSession(r) \/ CreateRun(r) \/ StartRun(r) \/ SendChats(r)
         \/ Gather(r) \/ Aggregate(r) \/ Consolidate(r) \/ LeaveUnmerged(r) \/ Merge(r)
         \/ Rank(r) \/ PrepareSelection(r) \/ Deliver(r) \/ CompleteRun(r)
  PROVE  EditionInv'
<1> DEFINE Early == {"session", "dispatch", "start", "send", "chats", "aggregate",
                     "consolidate", "merge", "rank", "select"}
           Late == {"output", "complete"}
           Drafts == {"aggregated", "merged", "ranking", "selection"}
           Goes(to) ==
             /\ GoTo(r, to) /\ UNCHANGED <<paper, request, file>>
             /\ at' = at \/ (pc[r] = "send" /\ \A q \in Runs \ {r} : at'[q] = at[q])
             /\ \/ pc[r] \in Early
                \/ pc[r] \in Late /\ to \in Late \cup {"done"}
                \/ /\ pc[r] = "idle"
                   /\ \A q \in Runs :
                        Live(q) => request[q].concurrent /\ request[r].concurrent
             /\ \/ digest' = digest
                \/ /\ pc[r] \in Early
                   /\ \E f \in Drafts : \E x : digest' = [digest EXCEPT ![f] = x]
<1>1. \E to : Goes(to)
  <2> USE DEF pipelineVars
  <2>1. CASE Accept(r)
    BY <2>1 DEF Accept
  <2>2. CASE EnsureSession(r) \/ Gather(r) \/ LeaveUnmerged(r) \/ Deliver(r)
    BY <2>2 DEF EnsureSession, Gather, LeaveUnmerged, Deliver, Passes
  <2>3. CASE Aggregate(r)
    BY <2>3 DEF Aggregate, Passes
  <2>4. CASE CreateRun(r) \/ StartRun(r) \/ CompleteRun(r)
    BY <2>4 DEF CreateRun, StartRun, CompleteRun
  <2>5. CASE SendChats(r)
    BY <2>5 DEF SendChats, ReadyInv, TypeOK, PipelineTypeOK
  <2>6. CASE Consolidate(r) \/ Merge(r) \/ PrepareSelection(r)
    BY <2>6 DEF Consolidate, Merge, PrepareSelection
  <2>7. CASE Rank(r)
    BY <2>7 DEF Rank, Keeps, Passes, Writes
  <2> QED
    BY <2>1, <2>2, <2>3, <2>4, <2>5, <2>6, <2>7
<1>2. PICK to : Goes(to)
  BY <1>1
<1>3. \A f \in {"newsletter", "enriched", "final"} : digest'[f] = digest[f]
  BY <1>2, DigestTypes DEF DigestFiles
<1>4. DigestChained'
  BY <1>3 DEF EditionInv, DigestChained
<1>5. Live(r) \/ pc[r] = "idle"
  BY <1>2 DEF Live, Ends
<1>6. ASSUME ~request[r].concurrent PROVE DigestEdition(r)'
  <2>1. DigestEdition(r) /\ pc'[r] = to /\ paper' = paper
    BY <1>2, <1>6, At DEF EditionInv, Editions
  <2>2. CASE pc[r] \in Late
    BY <1>2, <2>1, <2>2 DEF DigestEdition, Ends
  <2>3. CASE pc[r] \notin Late
    <3>1. pc[r] \in Early \cup {"idle"}
      BY <1>2, <2>3
    <3>2. paper[r][Digest].original = None
      BY <2>1, <3>1, NoDigestText DEF Ends
    <3> QED
      BY <2>1, <3>2 DEF DigestEdition
  <2> QED
    BY <2>2, <2>3
<1>7. PaperFrame(r, Digest)
  BY <1>2 DEF PaperFrame
<1>8. \/ Live(r)
      \/ /\ digest' = digest
         /\ \A q \in Runs : Live(q) => request[q].concurrent /\ request[r].concurrent
  BY <1>2, <1>5
<1>9. at' = at \/ (pc[r] = "send" /\ \A q \in Runs \ {r} : at'[q] = at[q])
  BY <1>2
<1> HIDE DEF Early, Late
<1> QED
  BY <1>2, <1>4, <1>6, <1>7, <1>8, <1>9, NodeEdits

\* The nodes of the digest that make its newsletter, and the stores of its versions.
LEMMA GenerateEdits ==
  ASSUME ReadyInv, EditionInv, NEW r \in Runs, Generate(r) PROVE EditionInv'
<1>1. /\ pc[r] = "generate" /\ GoTo(r, "enrich") /\ pc'[r] = "enrich"
      /\ UNCHANGED <<request, file, at>>
  BY At DEF Generate, Keeps, Passes, Writes, pipelineVars
<1>2. Live(r) /\ Digest \in Subjects
  BY <1>1 DEF Live, Ends, Subjects
<1>3. ~request[r].concurrent =>
        /\ paper[r][Digest].original = None /\ paper[r][Digest].translated = None
  BY <1>1, NoDigestText DEF EditionInv, Editions, Ends
<1>4. CASE Keeps(r, "newsletter", "generate", "enrich")
  <2>1. UNCHANGED <<paper, digest>>
    BY <1>4 DEF Keeps, Passes, pipelineVars
  <2>2. DigestChained' /\ PaperFrame(r, Digest)
    BY <2>1 DEF EditionInv, DigestChained, PaperFrame
  <2>3. ~request[r].concurrent => DigestEdition(r)'
    BY <1>3, <2>1 DEF DigestEdition
  <2> QED
    BY <1>1, <1>2, <2>2, <2>3, NodeEdits
<1>5. CASE ~Keeps(r, "newsletter", "generate", "enrich")
  <2>1. /\ digest' = [digest EXCEPT !["newsletter"] = Featured(r)]
        /\ ~KeepsFile(r, "newsletter")
        /\ UNCHANGED paper \/ CreateNewsletter(r, Digest, Featured(r))
    BY <1>5 DEF Generate, Writes, StoreDigest
  <2>2. Featured(r) # None
    BY <1>1, FeaturedType, NoContent
  <2>3. /\ digest'["newsletter"] = Featured(r) /\ digest'["enriched"] = digest["enriched"]
        /\ digest'["final"] = digest["final"]
    BY <2>1, DigestTypes DEF DigestFiles
  <2>4. DigestChained'
    BY <2>2, <2>3 DEF EditionInv, DigestChained
  <2>5. /\ PaperFrame(r, Digest)
        /\ ~request[r].concurrent =>
             /\ paper'[r][Digest].original \in {None, Featured(r)}
             /\ paper'[r][Digest].translated = None
    <3>1. CASE UNCHANGED paper
      BY <1>3, <3>1 DEF PaperFrame
    <3>2. CASE CreateNewsletter(r, Digest, Featured(r))
      BY <1>2, <3>2, Created
    <3> QED
      BY <2>1, <3>1, <3>2
  <2>6. request[r].force \/ digest["enriched"] = None
    BY <2>1 DEF KeepsFile, EditionInv, DigestChained
  <2>7. ~request[r].concurrent => DigestEdition(r)'
    BY <1>1, <2>3, <2>5, <2>6 DEF DigestEdition
  <2> QED
    BY <1>1, <1>2, <2>4, <2>5, <2>7, NodeEdits
<1> QED
  BY <1>4, <1>5

LEMMA EnrichEdits ==
  ASSUME ReadyInv, EditionInv, NEW r \in Runs, Enrich(r) PROVE EditionInv'
<1>1. PICK to \in {"enriched", "translate"} :
        /\ pc[r] = "enrich" /\ GoTo(r, to) /\ pc'[r] = to
        /\ UNCHANGED <<paper, request, file, at>>
        /\ \/ KeepsFile(r, "enriched") /\ UNCHANGED digest
           \/ /\ ~KeepsFile(r, "enriched")
              /\ digest' = [digest EXCEPT !["enriched"] = digest["newsletter"]]
  <2>1. CASE Keeps(r, "enriched", "enrich", "translate")
    BY <2>1, At DEF Keeps, Passes, pipelineVars
  <2>2. CASE ~Keeps(r, "enriched", "enrich", "translate")
    BY <2>2, At DEF Enrich, Writes
  <2> QED
    BY <2>1, <2>2
<1>2. Live(r) /\ PaperFrame(r, Digest) /\ digest["newsletter"] # None
  BY <1>1, DigestTypes DEF Live, Ends, PaperFrame, DigestReady
<1>3. DigestChained'
  BY <1>1, <1>2, DigestTypes DEF EditionInv, DigestChained, DigestFiles
<1>4. ASSUME ~request[r].concurrent PROVE DigestEdition(r)'
  <2>1. DigestEdition(r)
    BY <1>4 DEF EditionInv, Editions
  <2>2. CASE KeepsFile(r, "enriched") /\ UNCHANGED digest
    BY <1>1, <2>1, <2>2 DEF DigestEdition, KeepsFile
  <2>3. CASE /\ ~KeepsFile(r, "enriched")
             /\ digest' = [digest EXCEPT !["enriched"] = digest["newsletter"]]
    <3>1. /\ digest'["enriched"] = digest["newsletter"]
          /\ digest'["final"] = digest["final"]
      BY <2>3, DigestTypes DEF DigestFiles
    <3>2. request[r].force \/ digest["final"] = None
      BY <2>3 DEF KeepsFile, EditionInv, DigestChained
    <3> QED
      BY <1>1, <2>1, <3>1, <3>2 DEF DigestEdition
  <2> QED
    BY <1>1, <2>2, <2>3
<1> QED
  BY <1>1, <1>2, <1>3, <1>4, NodeEdits

LEMMA TranslateEdits ==
  ASSUME ReadyInv, EditionInv, NEW r \in Runs, Translate(r) PROVE EditionInv'
<1>1. PICK to \in {"translated", "output"} :
        /\ pc[r] = "translate" /\ GoTo(r, to) /\ pc'[r] = to
        /\ UNCHANGED <<paper, request, file, at>>
        /\ \/ KeepsFile(r, "final") /\ UNCHANGED digest /\ to = "output"
           \/ /\ ~KeepsFile(r, "final")
              /\ digest' = [digest EXCEPT !["final"] = digest["enriched"]]
  BY At DEF Translate, pipelineVars
<1>2. Live(r) /\ PaperFrame(r, Digest) /\ digest["enriched"] # None
  BY <1>1, DigestTypes DEF Live, Ends, PaperFrame, DigestReady
<1>3. DigestChained'
  BY <1>1, <1>2, DigestTypes DEF EditionInv, DigestChained, DigestFiles
<1>4. ASSUME ~request[r].concurrent PROVE DigestEdition(r)'
  <2>1. DigestEdition(r)
    BY <1>4 DEF EditionInv, Editions
  <2>2. CASE KeepsFile(r, "final") /\ UNCHANGED digest /\ to = "output"
    BY <1>1, <2>1, <2>2 DEF DigestEdition
  <2>3. CASE digest' = [digest EXCEPT !["final"] = digest["enriched"]]
    <3>1. digest'["final"] = digest["enriched"]
      BY <2>3, DigestTypes DEF DigestFiles
    <3> QED
      BY <1>1, <2>1, <3>1 DEF DigestEdition
  <2> QED
    BY <1>1, <2>2, <2>3
<1> QED
  BY <1>1, <1>2, <1>3, <1>4, NodeEdits

LEMMA StoreDigestEdits ==
  ASSUME ReadyInv, EditionInv, NEW r \in Runs, StoreEnriched(r) \/ StoreTranslated(r)
  PROVE  EditionInv'
<1>1. PICK version \in {"enriched", "translated"}, f \in {"enriched", "final"},
           to \in {"translate", "output"} :
        /\ version = "enriched" => to = "translate"
        /\ version = "translated" => f = "final" /\ to = "output"
        /\ StoreDigestVersion(r, version, f, to)
  BY DEF StoreEnriched, StoreTranslated
<1>2. /\ pc[r] = version /\ GoTo(r, to) /\ pc'[r] = to
      /\ UNCHANGED paper \/ AddVersion(r, Digest, version, digest[f])
      /\ UNCHANGED <<request, file, at, digest>>
  BY <1>1, At DEF StoreDigestVersion, StoreVersion
<1>3. Live(r) /\ Digest \in Subjects
  BY <1>2 DEF Live, Ends, Subjects
<1>4. /\ PaperFrame(r, Digest)
      /\ paper'[r][Digest].original = paper[r][Digest].original
      /\ \/ paper'[r][Digest].translated = paper[r][Digest].translated
         \/ /\ version = "translated" /\ paper[r][Digest].original # None
            /\ paper'[r][Digest].translated = digest[f]
  <2>1. CASE UNCHANGED paper
    BY <2>1 DEF PaperFrame
  <2> QED
    BY <1>2, <1>3, <2>1, Added
<1>5. DigestChained'
  BY <1>2 DEF EditionInv, DigestChained
<1>6. ASSUME ~request[r].concurrent PROVE DigestEdition(r)'
  <2>1. DigestEdition(r)
    BY <1>6 DEF EditionInv, Editions
  <2> QED
    BY <1>1, <1>2, <1>4, <2>1 DEF DigestEdition
<1> QED
  BY <1>2, <1>3, <1>4, <1>5, <1>6, NodeEdits

LEMMA FailsEdits ==
  ASSUME ReadyInv, EditionInv, NEW r \in Runs, Fails(r) PROVE EditionInv'
<1>1. /\ GoTo(r, "failed") /\ pc'[r] = "failed"
      /\ UNCHANGED <<request, file, at, digest>>
      /\ \/ UNCHANGED paper
         \/ CreateNewsletter(r, Digest, Featured(r))
  BY At DEF Fails, LeavesDigest, StoreDigest
<1>2. Live(r)
  BY DEF Fails, Blocked, Exposed, Live, Ends
<1>3. /\ PaperFrame(r, Digest)
      /\ UNCHANGED paper \/ paper'[r][Digest].translated = None
  BY <1>1, Created DEF PaperFrame, Subjects
<1>4. DigestChained'
  BY <1>1 DEF EditionInv, DigestChained
<1>5. ~request[r].concurrent => DigestEdition(r)'
  BY <1>1, <1>3 DEF EditionInv, Editions, DigestEdition, Ends
<1> QED
  BY <1>1, <1>2, <1>3, <1>4, <1>5, NodeEdits

\* The deliveries, and the user's part in a selection.
LEMMA OutsideEdits ==
  ASSUME ReadyInv, EditionInv,
         \/ \E r \in Runs : CallWebhook(r) \/ SendMail(r)
         \/ SaveSelections \/ GeneratePhase2
  PROVE  EditionInv'
<1>1. /\ UNCHANGED <<pipelineVars, pc>>
      /\ \/ UNCHANGED digest
         \/ \E f \in {"chosen", "selected"} : \E x : digest' = [digest EXCEPT ![f] = x]
  BY DEF CallWebhook, SendMail, Settle, SaveSelections, GeneratePhase2, UserWrites
<1>2. \A f \in {"newsletter", "enriched", "final"} : digest'[f] = digest[f]
  BY <1>1 DEF ReadyInv, TypeOK, RunTypeOK, DigestFiles
<1>3. UNCHANGED <<paper, request, file, at, pc>>
  BY <1>1 DEF pipelineVars
<1>4. Alone' /\ DigestChained' /\ ChatsChained'
  BY <1>2, <1>3 DEF EditionInv, Alone, Live, DigestChained, ChatsChained
<1>5. ASSUME NEW r \in Runs PROVE Editions(r)'
  BY <1>2, <1>3 DEF EditionInv, Editions, DigestEdition, ChatEdition, FileOf, Place,
                    Consolidates
<1> QED
  BY <1>4, <1>5 DEF EditionInv

LEMMA CrashEdits == ASSUME ReadyInv, EditionInv, Crash PROVE EditionInv'
<1>1. /\ UNCHANGED <<paper, request>>
      /\ pc' = [r \in Runs |-> IF Live(r) THEN "lost" ELSE pc[r]]
      /\ at' = [r \in Runs |-> [c \in Chats |->
                  IF at[r][c] \in Busy THEN "lost" ELSE at[r][c]]]
  BY DEF Crash, PipelineCrash
<1>2. PICK cut \in SUBSET Writing :
        file' = [d \in Places |-> [c \in Chats |-> [n \in Files |->
                   IF \E w \in cut : Place(w[1]) = d /\ w[2] = c /\ at[w[1]][c] = n
                   THEN Torn ELSE file[d][c][n]]]]
  BY DEF Crash, PipelineCrash
<1>3. PICK broken \in SUBSET UNION {{f \in FileBeingWritten(r) : Rewrites(r, f)} :
                                    r \in Runs} :
        digest' = [f \in DigestFiles |-> IF f \in broken THEN Torn ELSE digest[f]]
  BY DEF Crash
<1>4. Alone'
  BY <1>1 DEF Alone, Live, Ends
<1>5. ChatsChained'
  <2> SUFFICES ASSUME NEW d \in Places, NEW c \in Chats,
                      NEW m \in {"generate", "enrich"}, NEW n \in {"enrich", "final"},
                      m = "generate" <=> n = "enrich", file'[d][c][n] # None
               PROVE  file'[d][c][m] # None
    BY DEF ChatsChained
  <2>1. file'[d][c][m] \in {Torn, file[d][c][m]}
    BY <1>2, Names
  <2>2. CASE file'[d][c][n] = file[d][c][n]
    BY <2>1, <2>2, NoContent DEF EditionInv, ChatsChained
  <2>3. CASE file'[d][c][n] # file[d][c][n]
    <3>1. PICK w \in Writing : Place(w[1]) = d /\ w[2] = c /\ at[w[1]][c] = n
      BY <1>2, <2>3, Names
    <3>2. w[1] \in Runs /\ Readable(w[1], c, n)
      BY <3>1 DEF Writing
    <3>3. file[d][c][m] # None
      <4>1. FileOf(w[1], c, m) \in Runs
        BY <3>2, InputsAreRuns, Names
      <4> QED
        BY <3>1, <4>1, NoContent DEF FileOf
    <3> QED
      BY <2>1, <3>3, NoContent
  <2> QED
    BY <2>2, <2>3
<1>6. DigestChained'
  <2>1. \A f \in DigestFiles : digest'[f] \in {Torn, digest[f]}
    BY <1>3
  <2>2. ASSUME NEW r \in Runs, pc[r] = "enrich" PROVE digest["newsletter"] # None
    BY <2>2, DigestTypes DEF DigestReady
  <2>3. ASSUME NEW r \in Runs, pc[r] = "translate" PROVE digest["enriched"] # None
    BY <2>3, DigestTypes DEF DigestReady
  <2>4. \A r \in Runs : /\ "enriched" \in FileBeingWritten(r) => pc[r] = "enrich"
                        /\ "final" \in FileBeingWritten(r) => pc[r] = "translate"
    BY DEF FileBeingWritten
  <2>5. /\ "enriched" \in broken => digest["newsletter"] # None
        /\ "final" \in broken => digest["enriched"] # None
    BY <1>3, <2>2, <2>3, <2>4
  <2>6. /\ digest'["enriched"] # digest["enriched"] => "enriched" \in broken
        /\ digest'["final"] # digest["final"] => "final" \in broken
    BY <1>3 DEF DigestFiles
  <2> QED
    BY <2>1, <2>5, <2>6, NoContent DEF EditionInv, DigestChained, DigestFiles
<1>7. ASSUME NEW r \in Runs PROVE Editions(r)'
  <2>1. pc'[r] \in Ends \/ (pc'[r] = pc[r] /\ pc[r] = "idle")
    BY <1>1 DEF Live, Ends
  <2>2. \A c \in Chats : /\ at'[r][c] \in {at[r][c], "lost"}
                         /\ at'[r][c] \notin Busy
    BY <1>1, Names
  <2>3. ASSUME ~request[r].concurrent PROVE DigestEdition(r)'
    BY <1>1, <2>1, <2>3 DEF EditionInv, Editions, DigestEdition, Ends
  <2>4. ASSUME ~request[r].concurrent, ~request[r].force, NEW c \in Chats
        PROVE  ChatEdition(r, c)'
    <3>1. ChatEdition(r, c)
      BY <2>4 DEF EditionInv, Editions
    <3>2. at'[r][c] \notin {"enrich", "enriched", "final", "translated"}
      BY <2>2, Names
    <3> QED
      BY <1>1, <2>2, <3>1, <3>2 DEF ChatEdition
  <2> QED
    BY <1>1, <2>3, <2>4 DEF Editions
<1> QED
  BY <1>4, <1>5, <1>6, <1>7 DEF EditionInv

LEMMA EditionStep == ASSUME ReadyInv, EditionInv, [Next]_vars PROVE EditionInv'
<1>1. ASSUME NEW r \in Runs, Accept(r) \/ RunStep(r) PROVE EditionInv'
  BY <1>1, PlainEdits, ChatIsEdited, GenerateEdits, EnrichEdits, TranslateEdits,
     StoreDigestEdits, FailsEdits, OutsideEdits DEF RunStep
<1>2. CASE UNCHANGED vars
  BY <1>2 DEF vars, trackingVars, pipelineVars, runVars, EditionInv, Alone, Live,
              DigestChained, ChatsChained, Editions, DigestEdition, ChatEdition, FileOf,
              Place, Consolidates
<1> QED
  BY <1>1, <1>2, CrashEdits, OutsideEdits DEF Next, Finished

LEMMA EditionAlways == Spec => []EditionInv
<1>1. Init => EditionInv
  BY Names DEF Init, TrackingInit, PipelineInit, ArchiveInit, EditionInv, Alone, Live,
               DigestChained, ChatsChained, Editions, DigestEdition, ChatEdition,
               DigestFiles, Subjects, Versions
<1> QED
  BY <1>1, ReadyAlways, EditionStep, PTL DEF Spec

(***************************************************************************)
(* The readers of a newsletter agree on one text, for any number of runs,  *)
(* chats, store errors and crashes, forced digests included: see the       *)
(* property.                                                               *)
(***************************************************************************)
THEOREM OneText == Spec => []EditionsAreOfOneText
<1>1. EditionInv => EditionsAreOfOneText
  <2> SUFFICES ASSUME EditionInv, NEW r \in Runs, NEW x \in Subjects,
                      ~request[r].concurrent, x = Digest \/ ~request[r].force
               PROVE  Cardinality(Readings(r, x)) <= 1
    BY DEF EditionsAreOfOneText
  <2> DEFINE text == paper[r][x].original
  <2>1. paper[r][x].translated \in {None, text}
    BY DEF EditionInv, Editions, DigestEdition, ChatEdition, Subjects
  <2>2. \A y \in Readings(r, x) : y = text
    BY <2>1 DEF Readings, IngestedText, AgentText, HistoryText, BestText, Completed,
                ContentOf, Listed, Exists
  <2>3. Readings(r, x) \in SUBSET {text}
    BY <2>2
  <2> HIDE DEF text
  <2>4. Readings(r, x) = {} \/ Readings(r, x) = {text}
    BY <2>3
  <2>5. CASE Readings(r, x) = {}
    <3>1. Cardinality(Readings(r, x)) = 0
      BY <2>5, FS_EmptySet, Zenon
    <3> QED
      BY <3>1
  <2>6. CASE Readings(r, x) = {text}
    <3>1. Cardinality(Readings(r, x)) = 1
      BY <2>6, FS_Singleton, Zenon
    <3> QED
      BY <3>1
  <2> QED
    BY <2>4, <2>5, <2>6
<1> QED
  BY <1>1, EditionAlways, PTL

-----------------------------------------------------------------------------
(***************************************************************************)
(* The mail.  A run that is not concurrent has the directory to itself     *)
(* while it is alive.  If it found it empty, every file in it is its own;  *)
(* if it is forced, it keeps no file of a chat before the discussions, and *)
(* none of the digest, and each file it writes is made of the one before.  *)
(***************************************************************************)

\* Discussions of messages that r has extracted, from chats of S only.
Drawn(S, r, ds) == ds \in Gatherings /\ \A d \in ds : d \subseteq S \X {r}

Early == NotBegun \cup {"chats", "aggregate", "consolidate"}

Made == {"aggregated", "merged", "newsletter", "enriched", "final"}

\* The positions of a chat whose discussions have been separated.
Separated == {"raw_discussions", "label", "rank", "generate", "enrich", "enriched",
              "final", "translated", "succeeded"}

\* What a run finds that began in an empty directory.
CleanFiles(r) ==
  \A d \in Places, c \in Chats, n \in Files : file[d][c][n] \in {None, r}

CleanDigest(r) ==
  \A f \in Made :
    digest[f] = None \/ (pc[r] \notin Early /\ Drawn(Succeeded(r), r, digest[f]))

\* What the next node of a chat reads, in a run that is forced.
ForcedFiles(r, c) ==
  /\ at[r][c] \in {"raw_messages", "preprocess"} => FileOf(r, c, "extract") = r
  /\ at[r][c] \in {"polls", "translate"} => FileOf(r, c, "preprocess") = r
  /\ at[r][c] \in {"messages", "separate"} => FileOf(r, c, "translate") = r
  /\ at[r][c] \in Separated => DiscussionsOf(r, c) = r

\* What the next node of the digest, and the mail, read.
OwnInput(r) ==
  /\ pc[r] = "merge" => Drawn(Succeeded(r), r, digest["aggregated"])
  /\ pc[r] \in {"rank", "select", "generate"} => Drawn(Succeeded(r), r, digest[source[r]])
  /\ pc[r] = "enrich" => Drawn(Succeeded(r), r, digest["newsletter"])
  /\ pc[r] \in {"enriched", "translate"} => Drawn(Succeeded(r), r, digest["enriched"])
  /\ digested[r] => Drawn(Succeeded(r), r, digest["final"])

Owned(r) ==
  /\ clean[r] => ~request[r].concurrent
  /\ mailed[r] # None => pc[r] \in {"output", "complete"} \cup Ends
  /\ mailed[r] # None /\ ~request[r].concurrent
       /\ (clean[r] \/ (request[r].force /\ digested[r]))
     => Drawn(Succeeded(r), r, mailed[r])
  /\ Live(r) /\ clean[r] => CleanFiles(r) /\ CleanDigest(r)
  /\ Live(r) /\ ~request[r].concurrent /\ request[r].force
     => \A c \in Chats : ForcedFiles(r, c)
  /\ Live(r) /\ ~request[r].concurrent /\ (clean[r] \/ request[r].force) => OwnInput(r)

MailInv == \A r \in Runs : Owned(r)

LEMMA DrawnMore ==
  ASSUME NEW S, NEW T, S \subseteq T, NEW r, NEW ds, Drawn(S, r, ds)
  PROVE  Drawn(T, r, ds)
BY DEF Drawn

LEMMA DrawnSome ==
  ASSUME NEW S, NEW r, NEW ds, Drawn(S, r, ds), NEW some, some \subseteq ds
  PROVE  Drawn(S, r, some)
BY SomeOf DEF Drawn

LEMMA DrawnMerged ==
  ASSUME NEW S, NEW r, NEW ds, Drawn(S, r, ds), Cardinality(ds) > 1
  PROVE  Drawn(S, r, {UNION ds})
<1>1. {UNION ds} \in Gatherings
  BY Merged DEF Drawn
<1>2. UNION ds \subseteq S \X {r}
  BY DEF Drawn
<1> QED
  BY <1>1, <1>2 DEF Drawn

LEMMA DrawnEach ==
  ASSUME NEW S \in SUBSET Chats, NEW L \in SUBSET S, NEW r \in Runs
  PROVE  Drawn(S, r, {{<<c, r>>} : c \in L})
<1> DEFINE of == [c \in Chats |-> r]
<1>1. \A c \in L : of[c] = r /\ of[c] \in Runs
  OBVIOUS
<1>2. {{<<c, of[c]>>} : c \in L} \in Gatherings
  <2> HIDE DEF of
  <2> QED
    BY <1>1, OneOfEach
<1>3. {{<<c, of[c]>>} : c \in L} = {{<<c, r>>} : c \in L}
  BY <1>1
<1> QED
  BY <1>2, <1>3 DEF Drawn

LEMMA DrawnOne ==
  ASSUME NEW S \in SUBSET Chats, NEW c \in S, NEW r \in Runs
  PROVE  Drawn(S, r, {{<<c, r>>}})
<1>1. {{<<d, r>>} : d \in {c}} = {{<<c, r>>}}
  OBVIOUS
<1>2. {c} \in SUBSET S
  OBVIOUS
<1>3. Drawn(S, r, {{<<d, r>>} : d \in {c}})
  BY <1>2, DrawnEach
<1> QED
  BY <1>1, <1>3

LEMMA SucceededChats ==
  ASSUME ReadyInv, NEW r \in Runs
  PROVE  Succeeded(r) \in SUBSET Chats /\ request[r].chats \subseteq Chats
BY RequestsAssumption DEF Succeeded, ReadyInv, TypeOK, PipelineTypeOK

-----------------------------------------------------------------------------
\* What no step of r touches of the other runs.
Apart(r) ==
  /\ request' = request
  /\ \A q \in Runs \ {r} :
       /\ pc'[q] = pc[q] /\ at'[q] = at[q] /\ reads'[q] = reads[q]
       /\ clean'[q] = clean[q] /\ mailed'[q] = mailed[q]
       /\ digested'[q] = digested[q] /\ source'[q] = source[q]

\* A run keeps what it owns when it takes no step: the files are nobody else's, or
\* they are no more of any concern to it.
LEMMA OwnedStays ==
  ASSUME NEW q \in Runs, Owned(q), request' = request,
         pc'[q] = pc[q], at'[q] = at[q], reads'[q] = reads[q], clean'[q] = clean[q],
         mailed'[q] = mailed[q], digested'[q] = digested[q], source'[q] = source[q],
         source[q] \in {"aggregated", "merged"},
         \/ Live(q) => request[q].concurrent
         \/ file' = file /\ \A f \in Made : digest'[f] = digest[f]
  PROVE  Owned(q)'
<1>1. Succeeded(q)' = Succeeded(q) /\ (Live(q)' <=> Live(q)) /\ Place(q)' = Place(q)
  BY DEF Succeeded, Live, Place, Consolidates
<1>2. CASE Live(q) => request[q].concurrent
  BY <1>1, <1>2 DEF Owned
<1>3. CASE file' = file /\ \A f \in Made : digest'[f] = digest[f]
  <2>1. CleanFiles(q) => CleanFiles(q)'
    BY <1>3 DEF CleanFiles
  <2>2. CleanDigest(q) => CleanDigest(q)'
    BY <1>1, <1>3 DEF CleanDigest
  <2>3. \A c \in Chats : ForcedFiles(q, c) => ForcedFiles(q, c)'
    BY <1>1, <1>3 DEF ForcedFiles, FileOf, DiscussionsOf
  <2>4. OwnInput(q) => OwnInput(q)'
    BY <1>1, <1>3 DEF OwnInput, Made
  <2> QED
    BY <1>1, <2>1, <2>2, <2>3, <2>4 DEF Owned
<1> QED
  BY <1>2, <1>3

LEMMA StepsApart ==
  ASSUME ReadyInv, NEW r \in Runs, Accept(r) \/ RunStep(r) PROVE Apart(r)
<1>1. RunTypeOK /\ PipelineTypeOK
  BY DEF ReadyInv, TypeOK
<1> USE DEF Apart, GoTo, RunTypeOK, PipelineTypeOK, pipelineVars
<1>2. CASE Accept(r)
  BY <1>1, <1>2 DEF Accept
<1>3. CASE \/ EnsureSession(r) \/ Gather(r) \/ Aggregate(r) \/ LeaveUnmerged(r)
           \/ Deliver(r)
  BY <1>1, <1>3 DEF EnsureSession, Gather, Aggregate, LeaveUnmerged, Deliver, Passes
<1>4. CASE CreateRun(r) \/ StartRun(r) \/ CompleteRun(r)
  BY <1>1, <1>4 DEF CreateRun, StartRun, CompleteRun
<1>5. CASE SendChats(r)
  BY <1>1, <1>5 DEF SendChats
<1>6. ASSUME NEW c \in request[r].chats, Chat(r, c) PROVE Apart(r)
  <2>1. UNCHANGED runVars /\ ChatStep(r, c) /\ c \in Chats
    BY <1>6, SucceededChats DEF Chat
  <2>2. ChatFrame(r, c)
    BY <2>1, Framed
  <2> QED
    BY <2>1, <2>2 DEF runVars, ChatFrame
<1>7. CASE Consolidate(r) \/ Merge(r) \/ PrepareSelection(r)
  BY <1>1, <1>7 DEF Consolidate, Merge, PrepareSelection
<1>8. CASE Rank(r) \/ Generate(r) \/ Enrich(r)
  BY <1>1, <1>8 DEF Rank, Generate, Enrich, Keeps, Passes, Writes
<1>9. CASE StoreEnriched(r) \/ StoreTranslated(r)
  BY <1>1, <1>9 DEF StoreEnriched, StoreTranslated, StoreDigestVersion
<1>10. CASE Translate(r)
  BY <1>1, <1>10 DEF Translate
<1>11. CASE CallWebhook(r) \/ SendMail(r)
  BY <1>1, <1>11 DEF CallWebhook, SendMail, Settle
<1>12. CASE Fails(r)
  BY <1>1, <1>12 DEF Fails
<1> QED
  BY <1>2, <1>3, <1>4, <1>5, <1>6, <1>7, <1>8, <1>9, <1>10, <1>11, <1>12 DEF RunStep

\* A run that takes a step is alive, and the others concern it only if it asked for
\* them.
LEMMA Alive ==
  ASSUME NEW r \in Runs, RunStep(r) PROVE Live(r)
<1> USE DEF Live, Ends
<1>1. CASE \/ EnsureSession(r) \/ Gather(r) \/ Aggregate(r) \/ LeaveUnmerged(r)
           \/ Deliver(r)
  BY <1>1 DEF EnsureSession, Gather, Aggregate, LeaveUnmerged, Deliver, Passes
<1>2. CASE \/ CreateRun(r) \/ StartRun(r) \/ CompleteRun(r) \/ SendChats(r)
           \/ \E c \in request[r].chats : Chat(r, c)
  BY <1>2 DEF CreateRun, StartRun, CompleteRun, SendChats, Chat
<1>3. CASE \/ Consolidate(r) \/ Merge(r) \/ PrepareSelection(r) \/ Rank(r) \/ Generate(r)
           \/ Enrich(r) \/ Translate(r)
  BY <1>3 DEF Consolidate, Merge, PrepareSelection, Rank, Generate, Enrich, Translate,
              Keeps, Passes, Writes
<1>4. CASE StoreEnriched(r) \/ StoreTranslated(r) \/ CallWebhook(r) \/ SendMail(r)
  BY <1>4 DEF StoreEnriched, StoreTranslated, StoreDigestVersion, CallWebhook, SendMail,
              Settle
<1>5. CASE Fails(r)
  BY <1>5 DEF Fails, Blocked, Exposed
<1> QED
  BY <1>1, <1>2, <1>3, <1>4, <1>5 DEF RunStep

\* So a step keeps the mail of all if it keeps that of the run that takes it.
LEMMA OnesMail ==
  ASSUME ReadyInv, EditionInv, MailInv, NEW r \in Runs, Accept(r) \/ RunStep(r), Owned(r)'
  PROVE  MailInv'
<1> SUFFICES ASSUME NEW q \in Runs, q # r PROVE Owned(q)'
  BY DEF MailInv
<1>1. Apart(r) /\ Owned(q) /\ source[q] \in {"aggregated", "merged"}
  BY StepsApart, DigestTypes DEF MailInv
<1>2. \/ Live(q) => request[q].concurrent
      \/ file' = file /\ \A f \in Made : digest'[f] = digest[f]
  <2>1. CASE Accept(r)
    BY <2>1 DEF Accept, pipelineVars
  <2>2. CASE RunStep(r)
    BY <2>2, Alive DEF EditionInv, Alone
  <2> QED
    BY <2>1, <2>2
<1> QED
  BY <1>1, <1>2, OwnedStays DEF Apart

LEMMA AcceptMail ==
  ASSUME ReadyInv, MailInv, NEW r \in Runs, Accept(r) PROVE Owned(r)'
<1>1. /\ pc[r] = "idle" /\ pc'[r] = "session" /\ request' = request
      /\ UNCHANGED <<at, file, digest, mailed, digested>>
  BY At DEF Accept, pipelineVars
<1>2. mailed[r] = None /\ ~digested[r]
  BY <1>1, DigestTypes DEF MailInv, Owned, DigestReady, Ends
<1>3. \A c \in Chats : at[r][c] = "idle"
  BY <1>1 DEF ReadyInv, ChatReady, NotBegun
<1>4. clean'[r] => /\ ~request[r].concurrent
                   /\ \A d \in Places, c \in Chats, n \in Files : file[d][c][n] = None
                   /\ \A f \in DigestFiles : digest[f] = None
  BY DEF Accept, ReadyInv, TypeOK, RunTypeOK
<1>5. clean'[r] => CleanFiles(r)' /\ CleanDigest(r)'
  BY <1>1, <1>4 DEF CleanFiles, CleanDigest, Made, DigestFiles
<1>6. \A c \in Chats : ForcedFiles(r, c)'
  BY <1>1, <1>3 DEF ForcedFiles, Separated
<1>7. OwnInput(r)'
  BY <1>1, <1>2 DEF OwnInput
<1> QED
  BY <1>1, <1>2, <1>4, <1>5, <1>6, <1>7 DEF Owned

-----------------------------------------------------------------------------
\* A step of one chat keeps what r owns if it keeps the files.
LEMMA ChatOwns ==
  ASSUME ReadyInv, MailInv, NEW r \in Runs, NEW c \in Chats, pc[r] = "chats",
         UNCHANGED runVars, ChatStep(r, c),
         CleanFiles(r) => CleanFiles(r)',
         request[r].force /\ ForcedFiles(r, c) => ForcedFiles(r, c)'
  PROVE  Owned(r)'
<1>1. ChatFrame(r, c) /\ UNCHANGED <<pc, digest, digested, mailed, clean, request>>
  BY Framed DEF runVars, ChatFrame
<1>2. Owned(r) /\ Live(r) /\ Place(r)' = Place(r)
  BY <1>1 DEF MailInv, Live, Ends, Place, Consolidates
<1>3. mailed[r] = None /\ digested[r] = FALSE
  BY <1>2, DigestTypes DEF Owned, DigestReady, Ends
<1>4. CleanDigest(r) => CleanDigest(r)'
  BY <1>1 DEF CleanDigest, Early
<1>5. OwnInput(r)'
  BY <1>1, <1>3 DEF OwnInput
<1>6. ASSUME NEW d \in Chats, request[r].force, ForcedFiles(r, d) PROVE ForcedFiles(r, d)'
  <2>1. CASE d = c
    BY <1>6, <2>1
  <2>2. CASE d # c
    <3>1. /\ at'[r][d] = at[r][d] /\ reads'[r][d] = reads[r][d]
          /\ \A n \in Files : FileOf(r, d, n)' = FileOf(r, d, n)
      BY <1>1, <1>2, <2>2, Names DEF ChatFrame, FileOf
    <3>2. reads[r][d] \in Files
      BY Names DEF ReadyInv, TypeOK, PipelineTypeOK
    <3>3. DiscussionsOf(r, d)' = DiscussionsOf(r, d)
      BY <3>1, <3>2 DEF DiscussionsOf, FileOf
    <3> QED
      BY <1>6, <3>1, <3>3, Names DEF ForcedFiles
  <2> QED
    BY <2>1, <2>2
<1> QED
  BY <1>1, <1>2, <1>3, <1>4, <1>5, <1>6 DEF Owned, Live

\* A node that writes its file.
LEMMA WriteOwns ==
  ASSUME ReadyInv, MailInv, NEW r \in Runs, NEW c \in Chats, pc[r] = "chats",
         UNCHANGED runVars, ChatStep(r, c),
         NEW n \in Nodes, NEW of \in Runs, Write(r, c, n, of),
         of = r \/ \E m \in Files : of = FileOf(r, c, m),
         n = "extract" => of = r,
         n = "preprocess" => of = FileOf(r, c, "extract"),
         n = "translate" => of = FileOf(r, c, "preprocess"),
         n = "separate" => of = FileOf(r, c, "translate")
  PROVE  Owned(r)'
<1>1. /\ at[r][c] = n /\ at' = [at EXCEPT ![r][c] = Next1(r, n)] /\ reads' = reads
      /\ ~Reusable(r, c, n) /\ Place(r)' = Place(r)
      /\ file' = [file EXCEPT ![Place(r)][c][n] = of]
  BY DEF Write, MoveTo, Next1, Place, Consolidates
<1>2. /\ at'[r][c] = Next1(r, n)
      /\ \A d \in Places, e \in Chats, m \in Files :
           file'[d][e][m] = IF d = Place(r) /\ e = c /\ m = n THEN of ELSE file[d][e][m]
  BY <1>1, Names DEF ReadyInv, TypeOK, PipelineTypeOK
<1>3. CleanFiles(r) => CleanFiles(r)'
  <2>1. ASSUME CleanFiles(r) PROVE of = r
    <3>1. \A m \in Files : FileOf(r, c, m) \in {None, r}
      BY <2>1, Names DEF CleanFiles, FileOf
    <3> QED
      BY <3>1, NoContent
  <2> QED
    BY <1>2, <2>1 DEF CleanFiles
<1>4. ASSUME request[r].force, ForcedFiles(r, c) PROVE ForcedFiles(r, c)'
  <2>1. \A m \in Files : FileOf(r, c, m)' = IF m = n THEN of ELSE FileOf(r, c, m)
    BY <1>1, <1>2, Names DEF FileOf
  <2>2. reads[r][c] \in {"separate", "labelled"}
    BY DEF ReadyInv, TypeOK, PipelineTypeOK
  <2>3. DiscussionsOf(r, c)' = IF reads[r][c] = n THEN of ELSE DiscussionsOf(r, c)
    BY <1>1, <2>1, <2>2, Names DEF DiscussionsOf, FileOf
  <2>4. CASE n \in {"extract", "preprocess", "translate"}
    BY <1>1, <1>2, <1>4, <2>1, <2>4, WriteRoutes, Names DEF ForcedFiles, Separated
  <2>5. CASE n = "separate"
    <3>1. reads[r][c] = "separate"
      BY <1>1, <2>5 DEF ReadyInv, ChatReady, Unlabelled
    <3> QED
      BY <1>1, <1>2, <1>4, <2>3, <2>5, <3>1, WriteRoutes DEF ForcedFiles, Separated
  <2>6. CASE n \in {"rank", "generate", "enrich", "final"}
    <3>1. DiscussionsOf(r, c)' = r
      BY <1>1, <1>4, <2>2, <2>3, <2>6 DEF ForcedFiles, Separated
    <3> QED
      BY <1>2, <2>6, <3>1, WriteRoutes DEF ForcedFiles
  <2> QED
    BY <2>4, <2>5, <2>6, Names
<1> QED
  BY <1>3, <1>4, ChatOwns

\* A forced run finds no file that it can keep, but those of the ranking and of the
\* enrichment.
LEMMA MoveOwns ==
  ASSUME ReadyInv, MailInv, NEW r \in Runs, NEW c \in Chats, pc[r] = "chats",
         UNCHANGED runVars, Reuse(r, c) \/ Raise(r, c)
                            \/ Store(r, c) \/ LeaveRowsOut(r, c) \/ StoreRaises(r, c)
                            \/ StoreDerived(r, c)
  PROVE  Owned(r)'
<1>1. UNCHANGED <<file, reads, request>> /\ ChatStep(r, c)
  BY DEF Reuse, Raise, Store, LeaveRowsOut, StoreRaises, StoreDerived, ChatStep
<1>2. CleanFiles(r) => CleanFiles(r)'
  BY <1>1 DEF CleanFiles
<1>3. ASSUME request[r].force, ForcedFiles(r, c) PROVE ForcedFiles(r, c)'
  <2>1. /\ \A n : FileOf(r, c, n)' = FileOf(r, c, n)
        /\ DiscussionsOf(r, c)' = DiscussionsOf(r, c)
    BY <1>1 DEF DiscussionsOf, FileOf, Place, Consolidates
  <2>2. \A p : MoveTo(r, c, p) => at'[r][c] = p
    BY DEF MoveTo, ReadyInv, TypeOK, PipelineTypeOK
  <2>3. CASE Reuse(r, c)
    <3>1. /\ at[r][c] \in {"rank", "enrich"} /\ at'[r][c] = Onward(r, at[r][c])
      BY <1>3, <2>2, <2>3, Names DEF Reuse, Reusable, Refreshes
    <3>2. at'[r][c] \in {"generate", "final"}
      BY <3>1, Routes
    <3> QED
      BY <1>3, <2>1, <3>1, <3>2 DEF ForcedFiles, Separated
  <2>4. CASE Raise(r, c) \/ StoreRaises(r, c)
    <3>1. at'[r][c] = "failed"
      BY <2>2, <2>4 DEF Raise, StoreRaises
    <3> QED
      BY <3>1 DEF ForcedFiles, Separated
  <2>5. CASE Store(r, c) \/ LeaveRowsOut(r, c)
    <3>1. at[r][c] \in SourceData /\ at'[r][c] = Onward(r, at[r][c])
      BY <2>2, <2>5, RowsLeftOut DEF Store
    <3> QED
      BY <1>3, <2>1, <3>1, Routes DEF ForcedFiles, Separated, SourceData
  <2>6. CASE StoreDerived(r, c)
    <3>1. at[r][c] \in Derived /\ at'[r][c] = After[at[r][c]]
      BY <2>2, <2>6 DEF StoreDerived
    <3> QED
      BY <1>3, <2>1, <3>1, Routes DEF ForcedFiles, Separated, Derived
  <2> QED
    BY <2>3, <2>4, <2>5, <2>6
<1> QED
  BY <1>1, <1>2, <1>3, ChatOwns

LEMMA LabelOwns ==
  ASSUME ReadyInv, MailInv, NEW r \in Runs, NEW c \in Chats, pc[r] = "chats",
         UNCHANGED runVars, LabelMessages(r, c)
  PROVE  Owned(r)'
<1>1. /\ at[r][c] = "label" /\ MoveTo(r, c, "rank") /\ request' = request
      /\ Place(r)' = Place(r) /\ ChatStep(r, c)
  BY Routes DEF LabelMessages, Place, Consolidates, ChatStep, Produce
<1>2. at'[r][c] = "rank" /\ reads[r][c] = "separate"
  BY <1>1 DEF MoveTo, ReadyInv, TypeOK, PipelineTypeOK, ChatReady, Unlabelled
<1>3. CASE UNCHANGED <<file, reads>>
  <2>1. CleanFiles(r) => CleanFiles(r)'
    BY <1>3 DEF CleanFiles
  <2>2. ForcedFiles(r, c) => ForcedFiles(r, c)'
    BY <1>1, <1>2, <1>3 DEF ForcedFiles, Separated, DiscussionsOf, FileOf
  <2> QED
    BY <1>1, <2>1, <2>2, ChatOwns
<1>4. CASE ~UNCHANGED <<file, reads>>
  <2> DEFINE of == FileOf(r, c, "separate")
  <2>1. /\ file' = [file EXCEPT ![Place(r)][c]["labelled"] = of]
        /\ reads' = [reads EXCEPT ![r][c] = "labelled"]
    BY <1>4 DEF LabelMessages, WriteLabels, LeaveUnlabelled
  <2>2. /\ reads'[r][c] = "labelled"
        /\ \A d \in Places, e \in Chats, m \in Files :
             file'[d][e][m] = IF d = Place(r) /\ e = c /\ m = "labelled"
                              THEN of ELSE file[d][e][m]
    <3> HIDE DEF of
    <3> QED
      BY <2>1, Names DEF ReadyInv, TypeOK, PipelineTypeOK
  <2>3. CleanFiles(r) => CleanFiles(r)'
    <3>1. CleanFiles(r) => of \in {None, r}
      BY Names DEF CleanFiles, FileOf
    <3> HIDE DEF of
    <3> QED
      BY <2>2, <3>1 DEF CleanFiles
  <2>4. ForcedFiles(r, c) => ForcedFiles(r, c)'
    <3>1. ForcedFiles(r, c) => of = r
      BY <1>1, <1>2 DEF ForcedFiles, Separated, DiscussionsOf
    <3>2. DiscussionsOf(r, c)' = of
      BY <1>1, <2>2, Names DEF DiscussionsOf, FileOf
    <3> QED
      BY <1>2, <3>1, <3>2 DEF ForcedFiles
  <2> QED
    BY <1>1, <2>3, <2>4, ChatOwns
<1> QED
  BY <1>3, <1>4

LEMMA ChatMail ==
  ASSUME ReadyInv, MailInv, NEW r \in Runs, NEW c \in request[r].chats, Chat(r, c)
  PROVE  Owned(r)'
<1>1. c \in Chats
  BY SucceededChats
<1>2. pc[r] = "chats" /\ UNCHANGED runVars /\ ChatStep(r, c)
  BY DEF Chat
<1>3. \A n \in Nodes : \A of : Write(r, c, n, of) => Readable(r, c, n)
  BY DEF Write
<1>4. \E m \in Files : DiscussionsOf(r, c) = FileOf(r, c, m)
  <2>1. reads[r][c] \in Files
    <3>1. reads \in [Runs -> [Chats -> {"separate", "labelled"}]]
      BY DEF ReadyInv, TypeOK, PipelineTypeOK
    <3> QED
      BY <1>1, <3>1 DEF Files, Nodes
  <2> QED
    BY <2>1 DEF DiscussionsOf
<1> USE <1>1, <1>2, <1>3, <1>4, InputsAreRuns, WriteOwns, Names
<1>5. CASE ExtractMessages(r, c) \/ PreprocessMessages(r, c)
  BY <1>5 DEF ExtractMessages, PreprocessMessages
<1>6. CASE TranslateMessages(r, c) \/ SeparateDiscussions(r, c)
  BY <1>6 DEF TranslateMessages, SeparateDiscussions
<1>7. CASE RankDiscussions(r, c) \/ GenerateContent(r, c)
  BY <1>7 DEF RankDiscussions, GenerateContent
<1>8. CASE EnrichWithLinks(r, c) \/ TranslateFinalSummary(r, c)
  BY <1>8 DEF EnrichWithLinks, TranslateFinalSummary
<1> QED
  BY <1>5, <1>6, <1>7, <1>8, MoveOwns, LabelOwns DEF ChatStep, Produce

-----------------------------------------------------------------------------
\* What a run relies on while it is alive.
Trusts(r) ==
  /\ ~request[r].concurrent /\ (clean[r] \/ request[r].force)
  /\ clean[r] => CleanFiles(r) /\ CleanDigest(r)
  /\ request[r].force => \A c \in Chats : ForcedFiles(r, c)
  /\ OwnInput(r)

\* A step of the orchestrator keeps what r owns if it keeps the files of the digest
\* that r found clean, and leaves those that its next node reads.
LEMMA NodeOwns ==
  ASSUME ReadyInv, MailInv, NEW r \in Runs, NEW to, GoTo(r, to), Live(r),
         UNCHANGED <<request, file, at, reads, mailed, clean>>,
         mailed[r] # None =>
           digested'[r] = digested[r] /\ to \in {"output", "complete"} \cup Ends,
         to \notin Ends /\ Trusts(r) => OwnInput(r)' /\ (clean[r] => CleanDigest(r)')
  PROVE  Owned(r)'
<1>1. pc'[r] = to /\ Succeeded(r)' = Succeeded(r) /\ Owned(r)
  BY At DEF Succeeded, MailInv
<1>2. CleanFiles(r) => CleanFiles(r)'
  BY DEF CleanFiles
<1>3. \A c \in Chats : ForcedFiles(r, c) => ForcedFiles(r, c)'
  BY DEF ForcedFiles, DiscussionsOf, FileOf, Place, Consolidates
<1>4. Live(r)' => to \notin Ends
  BY <1>1 DEF Live
<1>5. clean[r] \/ (~request[r].concurrent /\ request[r].force) => Trusts(r)
  BY <1>1 DEF Owned, Trusts
<1>6. /\ Live(r)' /\ clean[r] => CleanFiles(r)' /\ CleanDigest(r)'
      /\ Live(r)' /\ ~request[r].concurrent /\ request[r].force
           => \A c \in Chats : ForcedFiles(r, c)'
      /\ Live(r)' /\ ~request[r].concurrent /\ (clean[r] \/ request[r].force)
           => OwnInput(r)'
  BY <1>2, <1>3, <1>4, <1>5 DEF Trusts
<1>7. /\ clean[r] => ~request[r].concurrent
      /\ mailed[r] # None /\ ~request[r].concurrent
             /\ (clean[r] \/ (request[r].force /\ digested[r]))
           => Drawn(Succeeded(r), r, mailed[r])
  BY <1>1 DEF Owned
<1> QED
  BY <1>1, <1>6, <1>7 DEF Owned

\* The files of the digest after r has written one of them.
LEMMA DigestWritten ==
  ASSUME ReadyInv, NEW r \in Runs, NEW f \in DigestFiles, NEW x,
         digest' = [digest EXCEPT ![f] = x]
  PROVE  digest'[f] = x /\ \A g \in DigestFiles \ {f} : digest'[g] = digest[g]
BY DigestTypes

\* A node of the digest, which may write one of its files.
LEMMA DigestOwns ==
  ASSUME ReadyInv, MailInv, NEW r \in Runs, NEW to, to \notin Early,
         GoTo(r, to), Live(r), pc[r] \notin {"output", "complete"},
         UNCHANGED <<request, file, at, reads, mailed, clean>>,
         NEW f \in DigestFiles, NEW x,
         digest' = digest \/ digest' = [digest EXCEPT ![f] = x],
         f \in Made /\ Trusts(r) /\ digest' # digest => Drawn(Succeeded(r), r, x),
         to \notin Ends /\ Trusts(r) => OwnInput(r)'
  PROVE  Owned(r)'
<1>1. pc'[r] = to /\ Succeeded(r)' = Succeeded(r)
  BY At DEF Succeeded
<1>2. mailed[r] = None
  BY DEF MailInv, Owned, Live
<1>3. ASSUME Trusts(r), clean[r] PROVE CleanDigest(r)'
  <2>1. CleanDigest(r)
    BY <1>3 DEF Trusts
  <2>2. ASSUME NEW g \in Made
        PROVE  digest'[g] = digest[g] \/ (g = f /\ digest'[g] = x /\ digest' # digest)
    BY <2>2, DigestWritten DEF Made, DigestFiles
  <2> QED
    BY <1>1, <1>3, <2>1, <2>2 DEF CleanDigest
<1> QED
  BY <1>2, <1>3, NodeOwns

\* The steps that have nothing to do with the digest.
LEMMA PlainMail ==
  ASSUME ReadyInv, MailInv, NEW r \in Runs,
         \/ EnsureSession(r) \/ CreateRun(r) \/ StartRun(r) \/ Gather(r) \/ Aggregate(r)
         \/ StoreEnriched(r) \/ StoreTranslated(r) \/ Deliver(r) \/ CompleteRun(r)
         \/ Fails(r)
  PROVE  Owned(r)'
<1> DEFINE Goes(to) ==
             /\ GoTo(r, to)
             /\ UNCHANGED <<request, file, at, reads, digest, source, digested, mailed,
                            clean>>
             /\ to \in Early => pc[r] \in Early
             /\ \/ to \in {"output", "complete"} \cup Early \cup Ends
                \/ to = "translate" /\ pc[r] = "enriched"
             /\ pc[r] \in {"output", "complete"} => to \in {"complete"} \cup Ends
<1>1. \E to : Goes(to)
  <2> USE DEF pipelineVars, Early, NotBegun, Ends
  <2>1. CASE EnsureSession(r) \/ Gather(r) \/ Deliver(r)
    BY <2>1 DEF EnsureSession, Gather, Deliver, Passes
  <2>2. CASE Aggregate(r)
    BY <2>2 DEF Aggregate, Passes
  <2>3. CASE CreateRun(r)
    BY <2>3 DEF CreateRun
  <2>4. CASE StartRun(r) \/ CompleteRun(r)
    BY <2>4 DEF StartRun, CompleteRun
  <2>5. CASE StoreEnriched(r) \/ StoreTranslated(r)
    BY <2>5 DEF StoreEnriched, StoreTranslated, StoreDigestVersion
  <2>6. CASE Fails(r)
    <3>1. pc[r] \notin {"idle"} \cup Ends
      BY <2>6, Alive DEF RunStep, Live
    <3> QED
      BY <2>6 DEF Fails
  <2> QED
    BY <2>1, <2>2, <2>3, <2>4, <2>5, <2>6
<1>2. PICK to : Goes(to)
  BY <1>1
<1>3. Live(r) /\ pc'[r] = to /\ Succeeded(r)' = Succeeded(r)
  BY <1>2, At, Alive DEF RunStep, Succeeded
<1>4. CleanDigest(r) => CleanDigest(r)'
  BY <1>2, <1>3 DEF CleanDigest
<1>5. OwnInput(r) => OwnInput(r)'
  BY <1>2, <1>3 DEF OwnInput, Early, NotBegun, Ends
<1>6. mailed[r] # None =>
        digested'[r] = digested[r] /\ to \in {"output", "complete"} \cup Ends
  BY <1>2, <1>3 DEF MailInv, Owned, Live
<1>7. GoTo(r, to) /\ UNCHANGED <<request, file, at, reads, mailed, clean>>
  BY <1>2
<1> HIDE DEF Goes
<1> QED
  BY <1>3, <1>4, <1>5, <1>6, <1>7, NodeOwns DEF Trusts

LEMMA SendMails == ASSUME ReadyInv, MailInv, NEW r \in Runs, SendChats(r) PROVE Owned(r)'
<1>1. /\ pc[r] = "send" /\ pc'[r] = "chats"
      /\ at' = [at EXCEPT ![r] = [c \in Chats |-> IF c \in request[r].chats
                                                  THEN "extract" ELSE at[r][c]]]
      /\ UNCHANGED <<request, file, reads, digest, digested, mailed, clean>>
  BY At DEF SendChats, ReadyInv, TypeOK, PipelineTypeOK
<1>2. \A c \in Chats : at'[r][c] \in {"extract", "idle"}
  BY <1>1 DEF ReadyInv, TypeOK, PipelineTypeOK, ChatReady, NotBegun
<1>3. Owned(r) /\ Live(r) /\ mailed[r] = None /\ ~digested[r]
  BY <1>1, DigestTypes DEF MailInv, Owned, DigestReady, Live, Ends
<1>4. CleanFiles(r) => CleanFiles(r)'
  BY <1>1 DEF CleanFiles
<1>5. CleanDigest(r) => CleanDigest(r)'
  BY <1>1 DEF CleanDigest, Early, NotBegun
<1>6. \A c \in Chats : ForcedFiles(r, c)'
  BY <1>2 DEF ForcedFiles, Separated
<1>7. OwnInput(r)'
  BY <1>1, <1>3 DEF OwnInput
<1> QED
  BY <1>1, <1>3, <1>4, <1>5, <1>6, <1>7 DEF Owned

LEMMA ConsolidateMail ==
  ASSUME ReadyInv, MailInv, NEW r \in Runs, Consolidate(r) PROVE Owned(r)'
<1> DEFINE x == {{<<c, DiscussionsOf(r, c)>>} : c \in Loadable(r)}
<1>1. /\ pc[r] = "consolidate" /\ GoTo(r, "merge") /\ pc'[r] = "merge"
      /\ digest' = [digest EXCEPT !["aggregated"] = x]
      /\ UNCHANGED <<request, file, at, reads, digested, mailed, clean>>
  BY At DEF Consolidate, pipelineVars
<1>2. Live(r) /\ ~digested[r] /\ Succeeded(r)' = Succeeded(r)
  BY <1>1, DigestTypes DEF DigestReady, Live, Ends, Succeeded
<1>3. ASSUME Trusts(r) PROVE Drawn(Succeeded(r), r, x)
  <2>1. Succeeded(r) \in SUBSET Chats /\ Loadable(r) \in SUBSET Succeeded(r)
    BY SucceededChats DEF Loadable
  <2>2. ASSUME NEW c \in Loadable(r) PROVE DiscussionsOf(r, c) = r
    <3>1. /\ c \in Chats /\ DiscussionsOf(r, c) # None
          /\ at[r][c] = "succeeded" /\ reads[r][c] \in Files
      BY <2>1, Names DEF Loadable, Succeeded, ReadyInv, TypeOK, PipelineTypeOK
    <3>2. CASE clean[r]
      BY <1>3, <3>1, <3>2, Names DEF Trusts, CleanFiles, DiscussionsOf, FileOf
    <3>3. CASE request[r].force
      BY <1>3, <3>1, <3>3 DEF Trusts, ForcedFiles, Separated
    <3> QED
      BY <1>3, <3>2, <3>3 DEF Trusts
  <2>3. x = {{<<c, r>>} : c \in Loadable(r)}
    BY <2>2
  <2> HIDE DEF x
  <2> QED
    BY <2>1, <2>3, DrawnEach
<1> HIDE DEF x
<1>4. digest'["aggregated"] = x /\ "aggregated" \in DigestFiles
  BY <1>1, DigestWritten DEF DigestFiles
<1>5. Trusts(r) => OwnInput(r)'
  BY <1>1, <1>2, <1>3, <1>4 DEF OwnInput
<1>6. pc[r] \notin {"output", "complete"} /\ "merge" \notin Early
  BY <1>1 DEF Early, NotBegun
<1> QED
  BY <1>1, <1>2, <1>3, <1>4, <1>5, <1>6, DigestOwns

LEMMA MergeMail ==
  ASSUME ReadyInv, MailInv, NEW r \in Runs, LeaveUnmerged(r) \/ Merge(r) PROVE Owned(r)'
<1>1. /\ pc[r] = "merge" /\ GoTo(r, "rank") /\ pc'[r] = "rank"
      /\ UNCHANGED <<request, file, at, reads, digested, mailed, clean>>
  BY At DEF LeaveUnmerged, Passes, Merge, pipelineVars
<1>2. /\ Live(r) /\ ~digested[r] /\ Succeeded(r)' = Succeeded(r)
      /\ source[r] = "aggregated" /\ "merged" \in DigestFiles
      /\ "rank" \notin Early /\ pc[r] \notin {"output", "complete"}
  BY <1>1, DigestTypes
     DEF DigestReady, Live, Ends, Succeeded, DigestFiles, Early, NotBegun
<1>3. Trusts(r) => Drawn(Succeeded(r), r, digest["aggregated"])
  BY <1>1 DEF Trusts, OwnInput
<1>4. CASE LeaveUnmerged(r)
  <2>1. UNCHANGED <<digest, source>>
    BY <1>4 DEF LeaveUnmerged, Passes
  <2>2. Trusts(r) => OwnInput(r)'
    BY <1>1, <1>2, <1>3, <2>1 DEF OwnInput
  <2> QED
    BY <1>1, <1>2, <2>1, <2>2, DigestOwns
<1>5. CASE Merge(r)
  <2>1. PICK x \in {digest["aggregated"], {UNION digest["aggregated"]}} :
          digest' = [digest EXCEPT !["merged"] = x]
    BY <1>5 DEF Merge
  <2>2. Cardinality(digest["aggregated"]) > 1 /\ source'[r] = "merged"
    BY <1>5 DEF Merge, ReadyInv, TypeOK, RunTypeOK
  <2>3. Trusts(r) => Drawn(Succeeded(r), r, x)
    BY <1>3, <2>2, DrawnMerged
  <2>4. digest'["merged"] = x
    BY <1>2, <2>1, DigestWritten
  <2>5. Trusts(r) => OwnInput(r)'
    BY <1>1, <1>2, <2>2, <2>3, <2>4 DEF OwnInput
  <2> QED
    BY <1>1, <1>2, <2>1, <2>3, <2>5, DigestOwns
<1> QED
  BY <1>4, <1>5

\* The ranking, and the selection file, are lists of ids: the discussions stay.
LEMMA RankMail ==
  ASSUME ReadyInv, MailInv, NEW r \in Runs, Rank(r) \/ PrepareSelection(r)
  PROVE  Owned(r)'
<1>1. PICK to \in {"select", "generate", "selecting"}, f \in {"ranking", "selection"} :
        /\ GoTo(r, to) /\ pc'[r] = to /\ pc[r] \in {"rank", "select"}
        /\ UNCHANGED <<request, file, at, reads, source, digested, mailed, clean>>
        /\ digest' = digest \/ \E x : digest' = [digest EXCEPT ![f] = x]
  <2>1. CASE Keeps(r, "ranking", "rank", AfterRanking(r))
    BY <2>1, At DEF Keeps, Passes, AfterRanking, pipelineVars
  <2>2. CASE PrepareSelection(r)
    BY <2>2, At DEF PrepareSelection, pipelineVars
  <2>3. CASE ~Keeps(r, "ranking", "rank", AfterRanking(r)) /\ Rank(r)
    BY <2>3, At DEF Rank, Writes, AfterRanking
  <2> QED
    BY <2>1, <2>2, <2>3
<1>2. /\ Live(r) /\ ~digested[r] /\ Succeeded(r)' = Succeeded(r)
      /\ f \in DigestFiles /\ f \notin Made /\ to \notin Early
      /\ pc[r] \notin {"output", "complete"}
      /\ source[r] \in DigestFiles \ {f}
  BY <1>1, DigestTypes
     DEF DigestReady, Live, Ends, Succeeded, DigestFiles, Early, NotBegun, Made
<1>3. digest'[source[r]] = digest[source[r]]
  BY <1>1, <1>2, DigestWritten
<1>4. Trusts(r) => Drawn(Succeeded(r), r, digest[source[r]])
  BY <1>1 DEF Trusts, OwnInput
<1>5. Trusts(r) => OwnInput(r)'
  BY <1>1, <1>2, <1>3, <1>4 DEF OwnInput
<1> QED
  BY <1>1, <1>2, <1>5, DigestOwns

\* The nodes that make the newsletter of the digest, each of the file before it.  A
\* file that is kept is there, hence of r itself in a run that is not forced.
LEMMA KeptIsOwn ==
  ASSUME NEW r \in Runs, NEW f \in Made, Trusts(r), KeepsFile(r, f)
  PROVE  Drawn(Succeeded(r), r, digest[f])
BY DEF Trusts, KeepsFile, CleanDigest

LEMMA GenerateMail ==
  ASSUME ReadyInv, MailInv, NEW r \in Runs, Generate(r) PROVE Owned(r)'
<1>1. /\ pc[r] = "generate" /\ GoTo(r, "enrich") /\ pc'[r] = "enrich"
      /\ UNCHANGED <<request, file, at, reads, digested, mailed, clean>>
  BY At DEF Generate, Keeps, Passes, Writes, pipelineVars
<1>2. /\ Live(r) /\ ~digested[r] /\ Succeeded(r)' = Succeeded(r)
      /\ "newsletter" \in DigestFiles /\ "newsletter" \in Made /\ "enrich" \notin Early
      /\ pc[r] \notin {"output", "complete"}
  BY <1>1, DigestTypes
     DEF DigestReady, Live, Ends, Succeeded, DigestFiles, Early, NotBegun, Made
<1>3. CASE Keeps(r, "newsletter", "generate", "enrich")
  <2>1. digest' = digest /\ KeepsFile(r, "newsletter")
    BY <1>3 DEF Keeps, Passes
  <2>2. Trusts(r) => OwnInput(r)'
    BY <1>1, <1>2, <2>1, KeptIsOwn DEF OwnInput
  <2> QED
    BY <1>1, <1>2, <2>1, <2>2, DigestOwns
<1>4. CASE ~Keeps(r, "newsletter", "generate", "enrich")
  <2>1. /\ digest' = [digest EXCEPT !["newsletter"] = Featured(r)]
        /\ Featured(r) # {}
    BY <1>4 DEF Generate, Writes
  <2>2. Featured(r) \subseteq digest[source[r]]
    BY <2>1 DEF Featured
  <2>3. Trusts(r) => Drawn(Succeeded(r), r, Featured(r))
    BY <1>1, <2>2, DrawnSome DEF Trusts, OwnInput
  <2>4. digest'["newsletter"] = Featured(r)
    BY <1>2, <2>1, DigestWritten
  <2>5. Trusts(r) => OwnInput(r)'
    BY <1>1, <1>2, <2>3, <2>4 DEF OwnInput
  <2> QED
    BY <1>1, <1>2, <2>1, <2>3, <2>5, DigestOwns
<1> QED
  BY <1>3, <1>4

LEMMA EnrichMail ==
  ASSUME ReadyInv, MailInv, NEW r \in Runs, Enrich(r) PROVE Owned(r)'
<1>1. PICK to \in {"enriched", "translate"} :
        /\ pc[r] = "enrich" /\ GoTo(r, to) /\ pc'[r] = to
        /\ UNCHANGED <<request, file, at, reads, digested, mailed, clean>>
        /\ \/ KeepsFile(r, "enriched") /\ UNCHANGED digest
           \/ digest' = [digest EXCEPT !["enriched"] = digest["newsletter"]]
  <2>1. CASE Keeps(r, "enriched", "enrich", "translate")
    BY <2>1, At DEF Keeps, Passes, pipelineVars
  <2>2. CASE ~Keeps(r, "enriched", "enrich", "translate")
    BY <2>2, At DEF Enrich, Writes
  <2> QED
    BY <2>1, <2>2
<1>2. /\ Live(r) /\ ~digested[r] /\ Succeeded(r)' = Succeeded(r)
      /\ "enriched" \in DigestFiles /\ "enriched" \in Made /\ to \notin Early
      /\ pc[r] \notin {"output", "complete"}
  BY <1>1, DigestTypes
     DEF DigestReady, Live, Ends, Succeeded, DigestFiles, Early, NotBegun, Made
<1>3. Trusts(r) => Drawn(Succeeded(r), r, digest["newsletter"])
  BY <1>1 DEF Trusts, OwnInput
<1>4. Trusts(r) => Drawn(Succeeded(r), r, digest'["enriched"])
  BY <1>1, <1>2, <1>3, KeptIsOwn, DigestWritten
<1>5. Trusts(r) => OwnInput(r)'
  BY <1>1, <1>2, <1>4 DEF OwnInput
<1> QED
  BY <1>1, <1>2, <1>3, <1>5, DigestOwns

LEMMA TranslateMail ==
  ASSUME ReadyInv, MailInv, NEW r \in Runs, Translate(r) PROVE Owned(r)'
<1>1. PICK to \in {"translated", "output"} :
        /\ pc[r] = "translate" /\ GoTo(r, to) /\ pc'[r] = to
        /\ UNCHANGED <<request, file, at, reads, mailed, clean>>
        /\ \/ KeepsFile(r, "final") /\ UNCHANGED digest
           \/ digest' = [digest EXCEPT !["final"] = digest["enriched"]]
  BY At DEF Translate, pipelineVars
<1>2. /\ Live(r) /\ Succeeded(r)' = Succeeded(r)
      /\ "final" \in DigestFiles /\ "final" \in Made /\ to \notin Early
      /\ pc[r] \notin {"output", "complete"}
  BY <1>1 DEF Live, Ends, Succeeded, DigestFiles, Early, NotBegun, Made
<1>3. Trusts(r) => Drawn(Succeeded(r), r, digest["enriched"])
  BY <1>1 DEF Trusts, OwnInput
<1>4. Trusts(r) => Drawn(Succeeded(r), r, digest'["final"])
  BY <1>1, <1>2, <1>3, KeptIsOwn, DigestWritten
<1>5. Trusts(r) => OwnInput(r)'
  BY <1>1, <1>2, <1>4 DEF OwnInput
<1> QED
  BY <1>1, <1>2, <1>3, <1>5, DigestOwns

\* The mail of a digest is its final file; that of one chat is the file of a chat that
\* succeeded.
LEMMA MailedIsDrawn ==
  ASSUME ReadyInv, NEW r \in Runs, Trusts(r), clean[r] \/ digested[r],
         NEW x \in Candidates(r)
  PROVE  Drawn(Succeeded(r), r, x)
<1>1. CASE digested[r]
  BY <1>1 DEF Candidates, Trusts, OwnInput
<1>2. CASE ~digested[r]
  <2>1. PICK c \in Succeeded(r) : x = ChatContent(r, c)
    BY <1>2 DEF Candidates
  <2>2. c \in Chats /\ at[r][c] = "succeeded"
    BY SucceededChats DEF Succeeded
  <2>3. FileOf(r, c, "final") # None
    BY <2>2 DEF ReadyInv, ChatReady
  <2>4. FileOf(r, c, "final") = r
    BY <1>2, <2>2, <2>3, Names DEF Trusts, CleanFiles, FileOf
  <2>5. x = {{<<c, r>>}}
    BY <2>1, <2>4, NoContent DEF ChatContent
  <2> QED
    BY <2>5, SucceededChats, DrawnOne
<1> QED
  BY <1>1, <1>2

LEMMA OutputMail ==
  ASSUME ReadyInv, MailInv, NEW r \in Runs, CallWebhook(r) \/ SendMail(r) PROVE Owned(r)'
<1>1. /\ pc[r] = "output" /\ UNCHANGED <<pipelineVars, pc, digest, source, digested, clean>>
      /\ mailed' = mailed \/ \E x \in Candidates(r) : mailed' = [mailed EXCEPT ![r] = x]
  BY DEF CallWebhook, SendMail, Settle
<1>2. UNCHANGED <<request, file, at, reads>>
  BY <1>1 DEF pipelineVars
<1>3. Owned(r) /\ Live(r) /\ Succeeded(r)' = Succeeded(r)
  BY <1>1, <1>2 DEF MailInv, Live, Ends, Succeeded
<1>4. CASE mailed' = mailed
  <2>1. source[r] \in {"aggregated", "merged"}
    BY DigestTypes
  <2> QED
    BY <1>1, <1>2, <1>3, <1>4, <2>1, OwnedStays
<1>5. ASSUME NEW x \in Candidates(r), mailed' = [mailed EXCEPT ![r] = x] PROVE Owned(r)'
  <2>1. mailed'[r] = x
    BY <1>5 DEF ReadyInv, TypeOK, RunTypeOK
  <2>2. ~request[r].concurrent /\ (clean[r] \/ (request[r].force /\ digested[r]))
        => Drawn(Succeeded(r), r, x)
    <3>1. ~request[r].concurrent /\ (clean[r] \/ request[r].force) => Trusts(r)
      BY <1>3 DEF Owned, Trusts
    <3> QED
      BY <1>5, <3>1, MailedIsDrawn
  <2>3. CleanFiles(r) => CleanFiles(r)'
    BY <1>2 DEF CleanFiles
  <2>4. CleanDigest(r) => CleanDigest(r)'
    BY <1>1, <1>3 DEF CleanDigest
  <2>5. \A c \in Chats : ForcedFiles(r, c) => ForcedFiles(r, c)'
    BY <1>2 DEF ForcedFiles, DiscussionsOf, FileOf, Place, Consolidates
  <2>6. OwnInput(r) => OwnInput(r)'
    BY <1>1, <1>3 DEF OwnInput
  <2> QED
    BY <1>1, <1>2, <1>3, <2>1, <2>2, <2>3, <2>4, <2>5, <2>6 DEF Owned, Live
<1> QED
  BY <1>1, <1>4, <1>5

\* Nobody is alive after a crash, and what has been mailed has been mailed.
LEMMA CrashMail == ASSUME ReadyInv, MailInv, Crash PROVE MailInv'
<1>1. /\ UNCHANGED <<request, digested, mailed, clean>>
      /\ pc' = [r \in Runs |-> IF Live(r) THEN "lost" ELSE pc[r]]
      /\ at' = [r \in Runs |-> [c \in Chats |->
                  IF at[r][c] \in Busy THEN "lost" ELSE at[r][c]]]
  BY DEF Crash, PipelineCrash
<1> SUFFICES ASSUME NEW r \in Runs PROVE Owned(r)'
  BY DEF MailInv
<1>2. Owned(r) /\ (pc'[r] \in Ends \/ pc'[r] = pc[r]) /\ ~Live(r)'
  BY <1>1 DEF MailInv, Live, Ends
<1>3. Succeeded(r) = Succeeded(r)'
  <2>1. \A c \in Chats : at'[r][c] = "succeeded" <=> at[r][c] = "succeeded"
    BY <1>1, Names
  <2> QED
    BY <1>1, <2>1, SucceededChats DEF Succeeded
<1> QED
  BY <1>1, <1>2, <1>3 DEF Owned

LEMMA UserMail ==
  ASSUME ReadyInv, MailInv, SaveSelections \/ GeneratePhase2 \/ UNCHANGED vars
  PROVE  MailInv'
<1>1. /\ UNCHANGED <<request, file, at, reads, pc, source, digested, mailed, clean>>
      /\ \/ digest' = digest
         \/ \E f \in {"chosen", "selected"} : \E x : digest' = [digest EXCEPT ![f] = x]
  BY DEF SaveSelections, GeneratePhase2, UserWrites, vars, pipelineVars, runVars
<1>2. \A f \in Made : digest'[f] = digest[f]
  BY <1>1 DEF ReadyInv, TypeOK, RunTypeOK, DigestFiles, Made
<1> SUFFICES ASSUME NEW r \in Runs PROVE Owned(r)'
  BY DEF MailInv
<1> QED
  BY <1>1, <1>2, OwnedStays, DigestTypes DEF MailInv

LEMMA MailStep ==
  ASSUME ReadyInv, EditionInv, MailInv, [Next]_vars PROVE MailInv'
<1>1. ASSUME NEW r \in Runs, Accept(r) \/ RunStep(r) PROVE MailInv'
  <2>1. Owned(r)'
    BY <1>1, AcceptMail, ChatMail, PlainMail, SendMails, ConsolidateMail, MergeMail,
       RankMail, GenerateMail, EnrichMail, TranslateMail, OutputMail DEF RunStep
  <2> QED
    BY <1>1, <2>1, OnesMail
<1> QED
  BY <1>1, CrashMail, UserMail DEF Next, Finished

(***************************************************************************)
(* A mail links to what its own run extracted, whole, and a mailed digest  *)
(* to discussions of chats that the run reports as successful, for any     *)
(* number of runs, chats, errors and crashes: see the property.            *)
(***************************************************************************)
THEOREM OwnMail == Spec => []MailIsOfItsRun
<1>1. Init => MailInv
  BY DEF Init, MailInv, Owned, Live
<1>2. ReadyInv /\ MailInv => MailIsOfItsRun
  <2> SUFFICES ASSUME MailInv, NEW r \in Runs, mailed[r] # None,
                      clean[r] \/ (request[r].force /\ digested[r]
                                   /\ ~request[r].concurrent)
               PROVE  /\ mailed[r] # Torn
                      /\ \A d \in mailed[r] : \A p \in d : p[2] = r
                      /\ \A d \in mailed[r] : Id(d) \subseteq Succeeded(r)
    BY DEF MailIsOfItsRun
  <2>1. Drawn(Succeeded(r), r, mailed[r])
    BY DEF MailInv, Owned
  <2>2. \A d \in mailed[r] : \A p \in d : p[1] \in Succeeded(r) /\ p[2] = r
    BY <2>1 DEF Drawn
  <2> QED
    BY <2>1, <2>2, NoContent DEF Drawn, Id
<1> QED
  BY <1>1, <1>2, ReadyAlways, EditionAlways, MailStep, PTL DEF Spec
=============================================================================
