----------------------------- MODULE ProgressStream -----------------------------
(***************************************************************************)
(* The stream of progress events from a newsletter run to the browser:     *)
(* the queue of a run and the registry of queues                           *)
(* (src/src/api/sse/progress_queue.py), the nodes that emit into it        *)
(* (node_decorators.py), the endpoint that forwards it                     *)
(* (generate_periodic_newsletter_stream in src/src/api/newsletter_gen.py)  *)
(* and the hook that reads it, reconnects and shows a status               *)
(* (src/ui/frontend/src/hooks/useNewsletterStream.ts).  A connection posts *)
(* the request again, so it has a run of its own.                          *)
(***************************************************************************)
EXTENDS Naturals, Sequences

CONSTANTS MaxRuns,        \* connections, each with its run, in a behaviour
          QueueSize,      \* PROGRESS_QUEUE_MAX_SIZE
          StageEvents,    \* stage events of a run
          MaxReconnects,  \* MAX_RECONNECT_ATTEMPTS
          MaxLosses,      \* failures of the network
          LongStages      \* whether a stage may be silent for STALE_QUEUE_TIMEOUT_HOURS

ASSUME StreamAssumption ==
  /\ {MaxRuns, QueueSize} \subseteq Nat \ {0}
  /\ {StageEvents, MaxReconnects, MaxLosses} \subseteq Nat
  /\ LongStages \in BOOLEAN

VARIABLES ui,      \* the hook's state
          conn,    \* conn[r]: the hook's side of connection r
          stream,  \* stream[r]: the endpoint's side, with the queue it holds
          run,     \* run[r]: the workflow, and the registry's entry for its queue
          losses

streamVars == <<ui, conn, stream, run, losses>>

StreamRuns == 1..MaxRuns
Waiting == {"connecting", "running", "reconnecting"}
Outcomes == {"completed", "hitl_selection", "error"}
Events == {"started", "stage"} \cup Outcomes

\* The generator is cancelled; a queue that nobody reads any more is left out, and
\* so is what a closed connection carried.
Gone(s) == [s EXCEPT !.at = "gone", !.queue = << >>]
Over(at) == [at |-> at, queue |-> << >>, taken |-> << >>, sent |-> << >>,
             closed |-> FALSE, full |-> FALSE]

StreamTypeOK ==
  /\ ui \in [status : {"idle"} \cup Waiting \cup Outcomes,
             attempts : 0..(MaxReconnects + 1), watching : BOOLEAN]
  /\ \A r \in StreamRuns :
       /\ conn[r].at \in {"unused", "delay", "posting", "reading", "closed"}
       /\ conn[r].read \in 0..Len(stream[r].sent) /\ conn[r].aborted \in BOOLEAN
       /\ stream[r].at \in {"none", "take", "check", "drain", "ended", "gone"}
       /\ {stream[r].queue, stream[r].taken, stream[r].sent} \subseteq Seq(Events)
       /\ Len(stream[r].queue) <= QueueSize
       /\ stream[r].closed \in BOOLEAN /\ stream[r].full \in BOOLEAN
       /\ run[r].task \in {"none", "running"} \cup Outcomes
       /\ run[r].emitted \in 0..StageEvents
       /\ run[r].entry \in {"none", "own", "other"}
  /\ losses \in 0..MaxLosses

StreamInit ==
  /\ ui = [status |-> "idle", attempts |-> 0, watching |-> FALSE]
  /\ conn = [r \in StreamRuns |-> [at |-> "unused", read |-> 0, aborted |-> FALSE]]
  /\ stream = [r \in StreamRuns |-> Over("none")]
  /\ run = [r \in StreamRuns |-> [task |-> "none", emitted |-> 0, entry |-> "none"]]
  /\ losses = 0

-----------------------------------------------------------------------------
NextRun(r) == conn[r].at = "unused" /\ \A q \in 1..(r - 1) : conn[q].at # "unused"

\* The network fails.  Within the bound on runs: one is left for the connection that
\* the hook will open for it.
Loses(reconnects) ==
  /\ losses < MaxLosses /\ losses' = losses + 1
  /\ reconnects => \E q \in StreamRuns : NextRun(q)

\* ProgressQueue.emit: a closed queue, and a full one, drop the event.  "taken" is
\* what the queue has accepted so far.
Emit(s, event) ==
  IF s.closed THEN s
  ELSE IF Len(s.queue) = QueueSize THEN [s EXCEPT !.full = TRUE]
  ELSE [s EXCEPT !.queue = Append(@, event), !.taken = Append(@, event)]

\* cleanup_stale_queues, run when the registry makes a queue: nothing subscribes to
\* a queue, so one without events for hours is stale, whether or not it is read.
Stale(r) ==
  /\ run[r].entry = "own"
  /\ LongStages \/ stream[r].at = "gone"

Sweep(swept, runs, r) == IF r \in swept THEN "none" ELSE runs[r].entry

\* The endpoint makes the queue, emits workflow_started and starts the workflow.
Opened(r, reached) ==
  \E swept \in SUBSET {q \in StreamRuns : Stale(q)} :
    /\ stream' = [q \in StreamRuns |->
         IF q = r THEN IF reached THEN [Emit(stream[r], "started") EXCEPT !.at = "take"]
                      ELSE Over("gone")
         ELSE [stream[q] EXCEPT !.closed = @ \/ (q \in swept /\ stream[q].at # "gone")]]
    /\ run' = [q \in StreamRuns |->
         IF q = r THEN [run[r] EXCEPT !.task = "running", !.entry = "own"]
         ELSE [run[q] EXCEPT !.entry = Sweep(swept, run, q)]]

\* Someone else's request makes a queue.
OtherRequest(r) ==
  /\ Stale(r)
  /\ run' = [run EXCEPT ![r].entry = "none"]
  /\ stream' = [stream EXCEPT ![r].closed = stream[r].at # "gone"]
  /\ UNCHANGED <<ui, conn, losses>>

-----------------------------------------------------------------------------
(* The workflow. *)

\* A decorated node emits into the queue the registry has for its thread id, and
\* makes one if there is none.
EmitStage(r) ==
  /\ run[r].task = "running" /\ run[r].emitted < StageEvents
  /\ run' = [run EXCEPT ![r].emitted = @ + 1,
                        ![r].entry = IF @ = "none" THEN "other" ELSE @]
  /\ stream' = IF run[r].entry = "own" /\ stream[r].at # "gone"
               THEN [stream EXCEPT ![r] = Emit(@, "stage")] ELSE stream
  /\ UNCHANGED <<ui, conn, losses>>

\* The graph ends, for a selection of discussions or for good, or raises; which of them
\* is not told apart when nobody listens any more.
EndWorkflow(r) ==
  /\ run[r].task = "running"
  /\ \E outcome \in IF stream[r].at = "gone" THEN {"completed"} ELSE Outcomes :
       run' = [run EXCEPT ![r].task = outcome]
  /\ UNCHANGED <<ui, conn, stream, losses>>

-----------------------------------------------------------------------------
(* The endpoint. *)

Send(s) == [s EXCEPT !.queue = Tail(@), !.sent = Append(@, Head(s.queue))]

\* An event, or the time for a keepalive, wakes the loop.
Take(r) ==
  /\ stream[r].at = "take"
  /\ stream' = [stream EXCEPT ![r] =
       [(IF @.queue = << >> THEN @ ELSE Send(@)) EXCEPT !.at = "check"]]
  /\ UNCHANGED <<ui, conn, run, losses>>

\* Slip: the queue is closed before the last event is put into it.
FarewellSlip(s, outcome) == Emit([s EXCEPT !.closed = TRUE], outcome)

Farewell(s, outcome) == [Emit(s, outcome) EXCEPT !.closed = TRUE]

\* A failure goes to the client past the queue.
Failure(s) == [Farewell(s, "error") EXCEPT !.sent = Append(@, "error"), !.at = "ended"]

\* The task is looked at only here.
Check(r) ==
  /\ stream[r].at = "check"
  /\ LET outcome == run[r].task IN
     IF outcome = "running"
     THEN stream' = [stream EXCEPT ![r].at = "take"] /\ UNCHANGED run
     ELSE IF outcome = "error"
     THEN /\ stream' = [stream EXCEPT ![r] = Failure(@)]
          /\ run' = [run EXCEPT ![r].entry = "none"]
     ELSE /\ stream' = [stream EXCEPT ![r] = [Farewell(@, outcome) EXCEPT !.at = "drain"]]
          /\ UNCHANGED run
  /\ UNCHANGED <<ui, conn, losses>>

\* Slip: the last event overtakes those that wait.
DrainedSlip(s) ==
  [s EXCEPT !.sent = Append(@, s.queue[Len(s.queue)]), !.queue = SubSeq(@, 1, Len(@) - 1)]

Drained(s) == Send(s)

Drain(r) ==
  /\ stream[r].at = "drain"
  /\ IF stream[r].queue # << >>
     THEN stream' = [stream EXCEPT ![r] = Drained(@)] /\ UNCHANGED run
     ELSE /\ stream' = [stream EXCEPT ![r].at = "ended"]
          /\ run' = [run EXCEPT ![r].entry = "none"]
  /\ UNCHANGED <<ui, conn, losses>>

\* The client is gone: the stream is cancelled, the workflow is not, and the queue
\* stays in the registry if the workflow has not ended.
StreamCancelled(r) ==
  /\ stream[r].at \in {"take", "check", "drain"} /\ conn[r].at = "closed"
  /\ stream' = [stream EXCEPT ![r] = Over("gone")]
  /\ run' = [run EXCEPT ![r].entry = IF run[r].task = "running" THEN @ ELSE "none"]
  /\ UNCHANGED <<ui, conn, losses>>

-----------------------------------------------------------------------------
(* The hook. *)

Aborted == [r \in StreamRuns |-> [conn[r] EXCEPT !.aborted = @ \/ conn[r].at # "unused"]]

\* start
StartStream(r) ==
  /\ ui.status = "idle" /\ NextRun(r)
  /\ \A q \in StreamRuns : conn[q].at \in {"unused", "closed"}
  /\ ui' = [status |-> "connecting", attempts |-> 0, watching |-> TRUE]
  /\ conn' = [conn EXCEPT ![r].at = "posting"]
  /\ UNCHANGED <<stream, run, losses>>

\* The catch of attemptConnection on connection r: another one after a delay, or none.
Failed(r) ==
  IF ui.attempts < MaxReconnects
  THEN \E q \in StreamRuns :
         /\ NextRun(q)
         /\ ui' = [ui EXCEPT !.attempts = @ + 1, !.status = "reconnecting"]
         /\ conn' = [conn EXCEPT ![r].at = "closed", ![r].read = 0, ![q].at = "delay"]
  ELSE /\ ui' = [ui EXCEPT !.attempts = MaxReconnects + 1, !.status = "error",
                           !.watching = FALSE]
       /\ conn' = [conn EXCEPT ![r].at = "closed", ![r].read = 0]

Retry(r) ==
  /\ conn[r].at = "delay"
  /\ conn' = [conn EXCEPT ![r].at = IF conn[r].aborted THEN "closed" ELSE "posting"]
  /\ UNCHANGED <<ui, stream, run, losses>>

\* The response arrives.
Accept(r) ==
  /\ conn[r].at = "posting" /\ ~conn[r].aborted
  /\ Opened(r, TRUE)
  /\ ui' = [ui EXCEPT !.attempts = 0]
  /\ conn' = [conn EXCEPT ![r].at = "reading"]
  /\ UNCHANGED losses

\* The request is lost, or the response is.
PostFails(r) ==
  /\ conn[r].at = "posting" /\ ~conn[r].aborted
  /\ Loses(ui.attempts < MaxReconnects) /\ Failed(r)
  /\ UNCHANGED <<stream, run>> \/ Opened(r, FALSE)

\* The connection breaks; the reader may or may not be told.
LoseConnection(r) ==
  /\ conn[r].at = "reading" /\ stream[r].at \in {"take", "check", "drain"}
  /\ \/ /\ ~conn[r].aborted /\ Loses(ui.attempts < MaxReconnects) /\ Failed(r)
        /\ stream' = [stream EXCEPT ![r] = Over("gone")]
     \/ /\ Loses(ui.watching) /\ UNCHANGED <<ui, conn>>
        /\ stream' = [stream EXCEPT ![r] = Gone(@)]
  /\ run' = [run EXCEPT ![r].entry = IF run[r].task = "running" THEN @ ELSE "none"]

\* processEvent; the handlers of an outcome abort the connections.
ReadEvent(r) ==
  /\ conn[r].at = "reading" /\ ~conn[r].aborted
  /\ conn[r].read < Len(stream[r].sent)
  /\ LET event == stream[r].sent[conn[r].read + 1]
         all == IF event \in Outcomes THEN Aborted ELSE conn
     IN /\ conn' = [all EXCEPT ![r].read = @ + 1]
        /\ ui' = [ui EXCEPT
             !.status = IF event = "started" THEN "running"
                        ELSE IF event = "stage" THEN @ ELSE event,
             !.watching = @ /\ event \notin Outcomes]
  /\ UNCHANGED <<stream, run, losses>>

\* The response ends; the status stays what it is.
ReadEnd(r) ==
  /\ conn[r].at = "reading" /\ stream[r].at = "ended"
  /\ conn[r].aborted \/ conn[r].read = Len(stream[r].sent)
  /\ conn' = [conn EXCEPT ![r].at = "closed", ![r].read = 0]
  /\ stream' = [stream EXCEPT ![r] = Over("ended")]
  /\ UNCHANGED <<ui, run, losses>>

\* An aborted request raises AbortError, also when an outcome's handler aborted it.
ReadAborted(r) ==
  /\ conn[r].at \in {"posting", "reading"} /\ conn[r].aborted
  /\ conn' = [conn EXCEPT ![r].at = "closed", ![r].read = 0]
  /\ ui' = [ui EXCEPT !.status = "idle", !.watching = FALSE]
  /\ UNCHANGED <<stream, run, losses>>

\* handleTimeoutReconnect: nothing has come for CONNECTION_TIMEOUT_MS.
Silent ==
  \A r \in StreamRuns :
    \/ conn[r].at \in {"unused", "delay", "closed"}
    \/ conn[r].at = "reading" /\ stream[r].at = "gone" /\ conn[r].read = Len(stream[r].sent)

Timeout ==
  /\ ui.watching
  /\ IF Silent THEN UNCHANGED losses ELSE Loses(ui.attempts < MaxReconnects)
  /\ IF ui.attempts < MaxReconnects
     THEN \E q \in StreamRuns :
            /\ NextRun(q)
            /\ ui' = [ui EXCEPT !.attempts = @ + 1, !.status = "reconnecting"]
            /\ conn' = [conn EXCEPT ![q].at = "posting"]
     ELSE /\ ui' = [ui EXCEPT !.attempts = MaxReconnects + 1, !.status = "error",
                             !.watching = FALSE]
          /\ UNCHANGED conn
  /\ UNCHANGED <<stream, run>>

\* cancel
Cancel ==
  /\ ui.status \in Waiting
  /\ ui' = [status |-> "idle", attempts |-> 0, watching |-> FALSE]
  /\ conn' = Aborted
  /\ UNCHANGED <<stream, run, losses>>

-----------------------------------------------------------------------------
WorkflowStep(r) == EmitStage(r) \/ EndWorkflow(r)
EndpointStep(r) == Take(r) \/ Check(r) \/ Drain(r) \/ StreamCancelled(r)
ReaderStep(r) ==
  Retry(r) \/ Accept(r) \/ ReadEvent(r) \/ ReadEnd(r) \/ ReadAborted(r)

StreamNext ==
  \/ \E r \in StreamRuns :
       \/ WorkflowStep(r) \/ EndpointStep(r) \/ ReaderStep(r)
       \/ StartStream(r) \/ PostFails(r) \/ LoseConnection(r)
       \/ OtherRequest(r)
  \/ Timeout \/ Cancel

-----------------------------------------------------------------------------
(***************************************************************************)
(* A reader that is told a run has completed, or waits for a selection,    *)
(* has read every event the run's queue accepted, in order, and that event *)
(* is the last (the endpoint emits it into the queue and drains it, while  *)
(* the nodes may have emitted up to that moment).                          *)
(***************************************************************************)
OutcomesComeLast ==
  \A r \in StreamRuns :
    LET seen == SubSeq(stream[r].sent, 1, conn[r].read) IN
    (\E i \in DOMAIN seen : seen[i] \in {"completed", "hitl_selection"}) =>
      seen = stream[r].taken /\ seen[Len(seen)] = run[r].task

\* The hook has given up while a request of its own is on its way: giving up aborts
\* nothing, so the answer starts the display again, with no timer to watch it.
GaveUpTooEarly ==
  ui.status = "error" /\ \E r \in StreamRuns : conn[r].at = "posting" /\ ~conn[r].aborted

(***************************************************************************)
(* The user does not wait for ever: whatever is lost on the way, the hook  *)
(* arrives at an outcome or gives up.  Two cases are left out, in which    *)
(* the code leaves the user waiting: an outcome dropped by a full queue,   *)
(* and a request that is answered after the hook gave up, whose connection *)
(* can then be lost unnoticed.                                             *)
(***************************************************************************)
UserLearnsOutcome ==
  [](~GaveUpTooEarly /\ \A r \in StreamRuns : ~stream[r].full) =>
    (ui.status \in Waiting ~> ui.status \notin Waiting)
=============================================================================
