------------------------------- MODULE AgentTurn -------------------------------
(***************************************************************************)
(* A session with the agent (src/src/agent/graph.py, the routes of         *)
(* src/src/api/agent_chat.py): the loop of model and tools with its        *)
(* budget, the interrupt with which a destructive tool asks the user       *)
(* (src/src/agent/tools/schedule_tools.py), the resume, and the summary    *)
(* that replaces old messages (src/src/agent/memory/summarizer.py).  The   *)
(* graph library keeps the state of the thread between nodes; after an     *)
(* interrupt it runs the interrupted node again from its start and hands   *)
(* the n-th interrupt of the node the n-th decision.                       *)
(***************************************************************************)
EXTENDS Naturals, FiniteSets, SequencesExt

CONSTANTS Schedules,     \* the user's schedules
          MaxToolCalls,  \* max_tool_calls_per_turn
          MaxCalls,      \* tool calls in one message of the model
          MaxDeletes,    \* deletions among them
          MaxTurns,      \* messages of the user
          Threshold,     \* summarize_threshold
          KeepRecent,    \* summarize_keep_recent
          AnswersFirst,  \* whether the user answers a question before writing on
          AwaitsTools    \* whether the client stays connected while tools run

ASSUME AgentAssumption ==
  /\ {MaxToolCalls, MaxCalls, MaxDeletes, MaxTurns, Threshold, KeepRecent} \subseteq Nat
  /\ {AnswersFirst, AwaitsTools} \subseteq BOOLEAN

VARIABLES schedules,  \* those that exist
          history,    \* the messages of the thread
          turn,       \* the node that runs, and what it has done
          used,       \* tool_call_count
          asked,      \* asked[i]: what the user decided about call i (history)
          deleted     \* the calls of the message that deleted something (history)

agentVars == <<schedules, history, turn, used, asked, deleted>>

ToolCalls == [tool : {"create", "delete"}, schedule : Schedules] \cup {[tool |-> "list"]}

Batches ==
  {b \in UNION {[1..n -> ToolCalls] : n \in 1..MaxCalls} :
     Cardinality({i \in DOMAIN b : b[i].tool = "delete"}) <= MaxDeletes}

Human == [kind |-> "human"]
Plain == [kind |-> "text"]
Calls(n) == [kind |-> "calls", size |-> n]
Answer(i) == [kind |-> "answer", call |-> i]
Summary == [kind |-> "summary"]

Pause == [at |-> "idle", calls |-> << >>, next |-> 1, answers |-> << >>,
          interrupts |-> 0, decisions |-> << >>]

AgentTypeOK ==
  /\ schedules \subseteq Schedules
  /\ \A m \in ToSet(history) : m.kind \in {"human", "text", "calls", "answer", "summary"}
  /\ turn.at \in {"idle", "agent", "tools", "paused", "memory"}
  /\ turn.calls \in Batches \cup {<< >>} /\ turn.next \in 1..(MaxCalls + 1)
  /\ turn.interrupts \in 0..MaxDeletes
  /\ turn.decisions \in Seq({"approve", "reject"})
  /\ used \in 0..MaxToolCalls
  /\ DOMAIN asked \subseteq DOMAIN turn.calls /\ deleted \subseteq DOMAIN turn.calls

AgentInit ==
  /\ schedules = Schedules
  /\ history = << >>
  /\ turn = Pause
  /\ used = 0
  /\ asked = << >>
  /\ deleted = {}

-----------------------------------------------------------------------------
\* What the provider accepts: every call has its answers right after it, and every
\* answer its call before it.
WellFormed ==
  \A i \in DOMAIN history :
    /\ history[i].kind = "calls" =>
         \A k \in 1..history[i].size :
           i + k \in DOMAIN history /\ history[i + k] = Answer(k)
    /\ history[i].kind = "answer" =>
         i > 1 /\ history[i - 1].kind \in {"calls", "answer"}

\* chat and chat_stream: the graph begins at load_memory, wherever it was.
StartTurn ==
  /\ turn.at = "idle" \/ (turn.at = "paused" /\ ~AnswersFirst)
  /\ Cardinality({i \in DOMAIN history : history[i].kind = "human"}) < MaxTurns
  /\ history' = Append(history, Human)
  /\ turn' = [Pause EXCEPT !.at = "agent"]
  /\ asked' = << >> /\ deleted' = {}
  /\ UNCHANGED <<schedules, used>>

\* agent_node and route_after_agent; if the provider refuses, the turn ends.
ModelAnswers ==
  /\ turn.at = "agent"
  /\ IF WellFormed
     THEN history' = Append(history, Plain) /\ turn' = [Pause EXCEPT !.at = "memory"]
     ELSE UNCHANGED history /\ turn' = Pause
  /\ asked' = << >> /\ deleted' = {}
  /\ UNCHANGED <<schedules, used>>

ModelCalls ==
  /\ turn.at = "agent" /\ WellFormed
  /\ \E batch \in Batches :
       /\ history' = Append(history, Calls(Len(batch)))
       /\ turn' = [Pause EXCEPT !.at = "tools", !.calls = batch]
  /\ asked' = << >> /\ deleted' = {}
  /\ UNCHANGED <<schedules, used>>

Remaining == IF used < MaxToolCalls THEN MaxToolCalls - used ELSE 0

InTools == turn.at = "tools" /\ turn.next <= Len(turn.calls)
Call == turn.calls[turn.next]

\* The answer to the next call is added, whatever it says.
Answered == [turn EXCEPT !.next = @ + 1, !.answers = Append(@, Answer(turn.next))]

\* Slip: a call beyond the budget is passed over.
RefusedSlip == [turn EXCEPT !.next = @ + 1]

Refused == Answered

RefuseCall ==
  /\ InTools /\ turn.next > Remaining
  /\ turn' = Refused
  /\ UNCHANGED <<schedules, history, used, asked, deleted>>

\* A tool that asks nothing; whatever it raises becomes its answer.
RunTool ==
  /\ InTools /\ turn.next <= Remaining /\ Call.tool # "delete"
  /\ schedules' = IF Call.tool = "create" THEN schedules \cup {Call.schedule}
                  ELSE schedules
  /\ turn' = Answered
  /\ UNCHANGED <<history, used, asked, deleted>>

\* delete_schedule: a schedule that is not there is answered without a question; the
\* question is answered by the decision with the interrupt's number, if there is one,
\* and ends the node otherwise.
Asks == InTools /\ turn.next <= Remaining /\ Call.tool = "delete"

DeleteUnknown ==
  /\ Asks /\ Call.schedule \notin schedules
  /\ turn' = Answered
  /\ UNCHANGED <<schedules, history, used, asked, deleted>>

Interrupt ==
  /\ Asks /\ Call.schedule \in schedules
  /\ turn.interrupts = Len(turn.decisions)
  /\ turn' = [turn EXCEPT !.at = "paused"]
  /\ UNCHANGED <<schedules, history, used, asked, deleted>>

\* Slip: any decision will do.
ApprovedSlip(decision) == decision \in {"approve", "reject"}

Approved(decision) == decision = "approve"

DeleteSchedule ==
  /\ Asks /\ Call.schedule \in schedules
  /\ turn.interrupts < Len(turn.decisions)
  /\ turn' = [Answered EXCEPT !.interrupts = @ + 1]
  /\ IF Approved(turn.decisions[turn.interrupts + 1])
     THEN schedules' = schedules \ {Call.schedule} /\ deleted' = deleted \cup {turn.next}
     ELSE UNCHANGED <<schedules, deleted>>
  /\ UNCHANGED <<history, used, asked>>

\* chat_resume: the interrupted node starts again.
Resume ==
  /\ turn.at = "paused"
  /\ \E decision \in {"approve", "reject"} :
       /\ asked' = [i \in DOMAIN asked \cup {turn.next} |->
                      IF i = turn.next THEN decision ELSE asked[i]]
       /\ turn' = [turn EXCEPT !.at = "tools", !.next = 1, !.answers = << >>,
                               !.interrupts = 0, !.decisions = Append(@, decision)]
  /\ UNCHANGED <<schedules, history, used, deleted>>

Charged == used + (IF Len(turn.calls) < Remaining THEN Len(turn.calls) ELSE Remaining)

\* The node ends; route_after_budget.
ToolsEnd ==
  /\ turn.at = "tools" /\ turn.next > Len(turn.calls)
  /\ history' = history \o turn.answers
  /\ used' = Charged
  /\ turn' = [Pause EXCEPT !.at = IF used' >= MaxToolCalls THEN "memory" ELSE "agent"]
  /\ asked' = << >> /\ deleted' = {}
  /\ UNCHANGED schedules

\* summarize_node, if the model has answered and the thread is long, then
\* extract_memory_node, which never fails the turn.  The summary comes last.
EndTurn ==
  /\ turn.at = "memory"
  /\ history' =
       IF Last(history) = Plain /\ Len(history) > Threshold /\ KeepRecent < Len(history)
       THEN Append(SubSeq(history, Len(history) - KeepRecent + 1, Len(history)), Summary)
       ELSE history
  /\ turn' = Pause
  /\ UNCHANGED <<schedules, used, asked, deleted>>

\* _event_stream: the stream of the response is what drives the graph.  When the client
\* has gone nothing does, and the thread stays as its last node left it.
Disconnect ==
  /\ turn.at \in {"agent", "memory"} \/ (turn.at = "tools" /\ ~AwaitsTools)
  /\ turn' = Pause
  /\ asked' = << >> /\ deleted' = {}
  /\ UNCHANGED <<schedules, history, used>>

\* Someone deletes a schedule by other means, or creates one.
OtherChange ==
  /\ turn.at \in {"agent", "paused"}
  /\ \E s \in Schedules :
       schedules' = IF s \in schedules THEN schedules \ {s} ELSE schedules \cup {s}
  /\ UNCHANGED <<history, turn, used, asked, deleted>>

TurnStep ==
  \/ ModelAnswers \/ ModelCalls \/ RefuseCall \/ RunTool \/ DeleteUnknown
  \/ Interrupt \/ DeleteSchedule \/ ToolsEnd \/ EndTurn

AgentNext == TurnStep \/ StartTurn \/ Resume \/ Disconnect \/ OtherChange

-----------------------------------------------------------------------------
(***************************************************************************)
(* A tool call deletes a schedule only if the user, asked about that call, *)
(* approved (delete_schedule is "gated by a HITL interrupt() so the user   *)
(* must approve in the UI before the delete actually fires"), also when    *)
(* the schedules change while the question is open.                        *)
(***************************************************************************)
DeletesAreApproved ==
  \A i \in deleted : i \in DOMAIN asked /\ asked[i] = "approve"

(***************************************************************************)
(* When the model is called every tool call in the thread has exactly one  *)
(* answer, in order, over budget or not, resumed or not, summarised or not *)
(* ("Every tool_call_id still gets exactly one ToolMessage, which the      *)
(* provider API requires"), if the user answers before writing on and      *)
(* stays connected while tools run.                                        *)
(***************************************************************************)
EveryCallIsAnswered ==
  AnswersFirst /\ AwaitsTools /\ turn.at = "agent" =>
    \A i \in DOMAIN history : history[i].kind = "calls" =>
      /\ \A k \in 1..history[i].size :
           i + k \in DOMAIN history /\ history[i + k] = Answer(k)
      /\ i + history[i].size + 1 \in DOMAIN history =>
           history[i + history[i].size + 1].kind # "answer"
=============================================================================
