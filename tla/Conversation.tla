------------------------------ MODULE Conversation ------------------------------
(***************************************************************************)
(* A question to the knowledge base, on its three surfaces: the streaming  *)
(* and the plain chat of src/src/api/rag_conversation.py, which keep a     *)
(* session in MongoDB, and rag_query of src/src/rag/mcp/tools.py, which    *)
(* keeps none.  Requests interleave at every await; a client may go away,  *)
(* and an owner may delete a session while it is being answered.  Slots    *)
(* and quotas are those of RagAdmission: here a request is let in or shed. *)
(***************************************************************************)
EXTENDS Naturals, FiniteSets, Sequences

CONSTANTS Questions,    \* requests that may be made
          Owners,       \* API-key owners
          ChatSessions, \* session ids that may be drawn
          Finds,        \* what a retrieval may bring: sets of citations
          Replies,      \* what a model may say: the days it tags
          MinScore,     \* min_answer_evidence_score
          MaxDeleted,   \* sessions deleted
          NoSession, NoTitle, Given

ASSUME ConversationAssumption ==
  /\ {MinScore, MaxDeleted} \subseteq Nat
  /\ Finds \subseteq SUBSET [score : Nat, from : Nat, to : Nat]
  /\ Replies \subseteq SUBSET Nat
  /\ NoSession \notin ChatSessions \cup Owners /\ {NoTitle, Given} \cap Questions = {}

VARIABLES conversation, \* rag_conversations: owner (NoSession: no such document) and title
          messages,     \* rag_messages, by session, in the order of created_at
          inquiry,        \* inquiry[q]: how far a request is
          evaluation,   \* rag_evaluations: the record of the answer to q
          deletions       \* sessions deleted

conversationVars == <<conversation, messages, inquiry, evaluation, deletions>>

NoDocument == [owner |-> NoSession, title |-> NoTitle]

NotAsked == [at |-> "idle", on |-> "mcp", by |-> NoSession, session |-> NoSession,
             untitled |-> FALSE, found |-> {}, tags |-> {},
             reply |-> "none", result |-> "none"]

Entry(from, q, kind, cites) == [from |-> from, of |-> q, kind |-> kind, cites |-> cites]

\* What the judges say: one that times out, fails or does not parse fails the answer.
Judged == {"passed", "failed"}

ConversationTypeOK ==
  /\ \A s \in ChatSessions :
       /\ conversation[s].owner \in Owners \cup {NoSession}
       /\ conversation[s].title \in Questions \cup {NoTitle, Given}
       /\ \A n \in DOMAIN messages[s] :
            messages[s][n] \in [from : {"user", "assistant"}, of : Questions,
                                kind : {"question", "refusal", "real"},
                                cites : Finds \cup {{}}]
  /\ \A q \in Questions :
       /\ inquiry[q].at \in {"idle", "find", "append", "title", "count", "name", "history",
                              "admit", "retrieve", "generate", "store", "tell",
                              "evaluate", "ended"}
       /\ inquiry[q].reply \in {"none", "refusal", "real"}
       /\ inquiry[q].result \in {"none", "done", "refused", "error"}
       /\ evaluation[q] \in {"none", "pending"} \cup Judged

ConversationInit ==
  /\ conversation = [s \in ChatSessions |-> NoDocument]
  /\ messages = [s \in ChatSessions |-> <<>>]
  /\ inquiry = [q \in Questions |-> NotAsked]
  /\ evaluation = [q \in Questions |-> "none"]
  /\ deletions = 0

Drawn(s) == conversation[s].owner # NoSession \/ messages[s] # <<>>
              \/ \E q \in Questions : inquiry[q].session = s

Moves(q, at) == inquiry' = [inquiry EXCEPT ![q].at = at]

\* Without an answer: what it has got so far is gone.
Ends(q, result) ==
  inquiry' = [inquiry EXCEPT ![q] =
    [NotAsked EXCEPT !.at = "ended", !.on = inquiry[q].on, !.session = inquiry[q].session,
                     !.result = result]]

-----------------------------------------------------------------------------
(* Sessions. *)

\* POST a session, perhaps with a title.
CreateSession(s, o) ==
  /\ ~ Drawn(s)
  /\ \E title \in {NoTitle, Given} :
       conversation' = [conversation EXCEPT ![s] = [owner |-> o, title |-> title]]
  /\ UNCHANGED <<messages, inquiry, evaluation, deletions>>

\* DELETE it, only the owner's: the document and its messages in one transaction.
DeleteSession(s, o) ==
  /\ conversation[s].owner = o /\ deletions < MaxDeleted
  /\ conversation' = [conversation EXCEPT ![s] = NoDocument]
  /\ messages' = [messages EXCEPT ![s] = <<>>]
  /\ deletions' = deletions + 1
  /\ UNCHANGED <<inquiry, evaluation>>

-----------------------------------------------------------------------------
(* A request. *)

\* The plain and the streaming chat, in a session that the caller names.
Ask(q, on, o, s) ==
  /\ inquiry[q].at = "idle" /\ on # "mcp" /\ Drawn(s)
  /\ inquiry' = [inquiry EXCEPT ![q] =
       [NotAsked EXCEPT !.at = "find", !.on = on, !.by = o, !.session = s]]
  /\ UNCHANGED <<conversation, messages, evaluation, deletions>>

\* The same without a session: one is made.
AskAfresh(q, on, o, s) ==
  /\ inquiry[q].at = "idle" /\ on # "mcp" /\ ~ Drawn(s)
  /\ inquiry' = [inquiry EXCEPT ![q] =
       [NotAsked EXCEPT !.at = "find", !.on = on, !.by = o, !.session = s]]
  /\ conversation' = [conversation EXCEPT ![s] = [owner |-> o, title |-> NoTitle]]
  /\ UNCHANGED <<messages, evaluation, deletions>>

\* rag_query: no session and no history.
AskTool(q) ==
  /\ inquiry[q].at = "idle"
  /\ inquiry' = [inquiry EXCEPT ![q] = [NotAsked EXCEPT !.at = "admit"]]
  /\ UNCHANGED <<conversation, messages, evaluation, deletions>>

\* A session that is not there or another owner's is a 404.
FindSession(q) ==
  LET s == inquiry[q].session IN
  /\ inquiry[q].at = "find"
  /\ IF conversation[s].owner = inquiry[q].by
     THEN inquiry' = [inquiry EXCEPT ![q].at = "append", ![q].by = NoSession]
     ELSE Ends(q, "refused")
  /\ UNCHANGED <<conversation, messages, evaluation, deletions>>

Appended(q, entry) ==
  messages' = [messages EXCEPT ![inquiry[q].session] = Append(@, entry)]

\* Whether the session is still there is not asked again.
AddUserMessage(q) ==
  /\ inquiry[q].at = "append"
  /\ Appended(q, Entry("user", q, "question", {}))
  /\ Moves(q, "title")
  /\ UNCHANGED <<conversation, evaluation, deletions>>

ReadTitle(q) ==
  LET c == conversation[inquiry[q].session] IN
  /\ inquiry[q].at = "title"
  /\ inquiry' = [inquiry EXCEPT ![q].at = "count",
                            ![q].untitled = c.owner # NoSession /\ c.title = NoTitle]
  /\ UNCHANGED <<conversation, messages, evaluation, deletions>>

\* Slip: one too many.
FirstSlip(q) == Len(messages[inquiry[q].session]) <= 2

First(q) == Len(messages[inquiry[q].session]) <= 1

CountMessages(q) ==
  /\ inquiry[q].at = "count"
  /\ inquiry' = [inquiry EXCEPT ![q].untitled = FALSE,
       ![q].at = IF inquiry[q].untitled /\ First(q) THEN "name" ELSE "history"]
  /\ UNCHANGED <<conversation, messages, evaluation, deletions>>

\* The model's title, or the inquiry's beginning; none if the write fails.
NameSession(q) ==
  LET s == inquiry[q].session IN
  /\ inquiry[q].at = "name"
  /\ \/ /\ conversation[s].owner # NoSession
        /\ conversation' = [conversation EXCEPT ![s].title = q]
     \/ UNCHANGED conversation
  /\ Moves(q, "history")
  /\ UNCHANGED <<messages, evaluation, deletions>>

\* The most recent messages, this question among them: they go into the prompt.
ReadHistory(q) ==
  /\ inquiry[q].at = "history"
  /\ Moves(q, "admit")
  /\ UNCHANGED <<conversation, messages, evaluation, deletions>>

\* A date that does not parse is refused; so is a request without a slot.
Admit(q) ==
  /\ inquiry[q].at = "admit"
  /\ Moves(q, "retrieve") \/ Ends(q, "refused")
  /\ UNCHANGED <<conversation, messages, evaluation, deletions>>

\* The evidence gate: the best citation reaches the floor, if there is one.
EvidenceSuffices(cites) == MinScore = 0 \/ \E c \in cites : c.score >= MinScore

\* Nothing found, or nothing strong enough.
Passes(found) == found # {} /\ EvidenceSuffices(found)

\* A refusal is made without the model.
RetrieveFor(q) ==
  /\ inquiry[q].at = "retrieve"
  /\ \E found \in Finds :
       inquiry' = [inquiry EXCEPT ![q].found = found,
         ![q].reply = IF Passes(found) THEN "none" ELSE "refusal",
         ![q].at = CASE Passes(found) -> "generate"
                     [] inquiry[q].on = "mcp" -> "tell"
                     [] OTHER -> "store"]
  /\ UNCHANGED <<conversation, messages, evaluation, deletions>>

\* Every day the answer tags is in the range of a citation, whichever end comes first.
Grounded(tags, cites) ==
  \A t \in tags : \E c \in cites : t \in c.from..c.to \/ t \in c.to..c.from

\* What has been streamed cannot be taken back: only the others discard an answer.
Discards(q, tags) == inquiry[q].on # "stream" /\ ~ Grounded(tags, inquiry[q].found)

Generate(q) ==
  /\ inquiry[q].at = "generate"
  /\ \E tags \in Replies :
       inquiry' = [inquiry EXCEPT ![q].tags = tags,
         ![q].reply = IF Discards(q, tags) THEN "refusal" ELSE "real",
         ![q].at = IF inquiry[q].on = "mcp" THEN "evaluate" ELSE "store"]
  /\ UNCHANGED <<conversation, messages, evaluation, deletions>>

\* The citations that go with the answer: none with a refusal, but for rag_query.
Citations(q) == IF inquiry[q].reply = "real" THEN inquiry[q].found ELSE {}

AddAssistantMessage(q) ==
  /\ inquiry[q].at = "store"
  /\ Appended(q, Entry("assistant", q, inquiry[q].reply, Citations(q)))
  /\ Moves(q, IF inquiry[q].on = "chat" /\ Passes(inquiry[q].found)
              THEN "evaluate" ELSE "tell")
  /\ UNCHANGED <<conversation, evaluation, deletions>>

\* DONE, or the response.
Tell(q) ==
  /\ inquiry[q].at = "tell"
  /\ inquiry' = [inquiry EXCEPT ![q].result = "done",
       ![q].at = IF inquiry[q].on = "stream" THEN "evaluate" ELSE "ended"]
  /\ UNCHANGED <<conversation, messages, evaluation, deletions>>

\* schedule_rag_online_eval, if it is on and the draw says so: never of a refusal, but
\* for the plain chat, which has the answer that it discarded judged.  Without a pending
\* record, which the background task makes first, there is no scoring.
Evaluate(q) ==
  /\ inquiry[q].at = "evaluate"
  /\ evaluation' \in {evaluation} \cup
       IF inquiry[q].on = "chat" \/ inquiry[q].reply = "real"
       THEN {[evaluation EXCEPT ![q] = "pending"]} ELSE {}
  /\ Moves(q, IF inquiry[q].on = "stream" THEN "ended" ELSE "tell")
  /\ UNCHANGED <<conversation, messages, deletions>>

\* Slip: an answer that could not be stored is told all the same.
FailSlip(q) ==
  /\ inquiry[q].at \in {"find", "append", "title", "count", "history", "retrieve",
                      "generate", "store"}
  /\ IF inquiry[q].at = "store" THEN Moves(q, "tell") ELSE Ends(q, "error")
  /\ UNCHANGED <<conversation, messages, evaluation, deletions>>

\* An exception: a 500, or an ERROR event.
Fail(q) ==
  /\ inquiry[q].at \in {"find", "append", "title", "count", "history", "retrieve",
                      "generate", "store"}
  /\ Ends(q, "error")
  /\ UNCHANGED <<conversation, messages, evaluation, deletions>>

\* The client of a stream goes away: the generator ends where it is.
Disconnect(q) ==
  /\ inquiry[q].on = "stream"
  /\ inquiry[q].at \in {"retrieve", "generate", "store", "tell", "evaluate"}
  /\ IF inquiry[q].at = "evaluate" THEN Moves(q, "ended") ELSE Ends(q, "none")
  /\ UNCHANGED <<conversation, messages, evaluation, deletions>>

-----------------------------------------------------------------------------
\* In the background; a failed write leaves the record as it is.
ScoreResponse(q) ==
  /\ evaluation[q] = "pending"
  /\ \E verdict \in Judged : evaluation' = [evaluation EXCEPT ![q] = verdict]
  /\ UNCHANGED <<conversation, messages, inquiry, deletions>>

ConversationNext ==
  \/ \E s \in ChatSessions, o \in Owners : CreateSession(s, o) \/ DeleteSession(s, o)
  \/ \E q \in Questions :
       \/ \E on \in {"stream", "chat"}, o \in Owners, s \in ChatSessions :
            Ask(q, on, o, s) \/ AskAfresh(q, on, o, s)
       \/ AskTool(q) \/ FindSession(q) \/ AddUserMessage(q) \/ ReadTitle(q)
       \/ CountMessages(q) \/ NameSession(q) \/ ReadHistory(q) \/ Admit(q) \/ RetrieveFor(q)
       \/ Generate(q) \/ AddAssistantMessage(q) \/ Tell(q) \/ Evaluate(q) \/ Fail(q)
       \/ Disconnect(q) \/ ScoreResponse(q)

-----------------------------------------------------------------------------
(***************************************************************************)
(* The title that a session gets by itself is that of the first inquiry   *)
(* stored in it, however the requests to it interleave ("Auto-generate     *)
(* title from first query"); it may get none.                              *)
(***************************************************************************)
TitleIsOfFirstQuestion ==
  \A s \in ChatSessions :
    conversation[s].title \in Questions =>
      messages[s] # <<>> /\ messages[s][1].of = conversation[s].title

(***************************************************************************)
(* A client that is told that its answer is complete finds it on record    *)
(* after its inquiry, unless the session has been deleted meanwhile.  A   *)
(* refusal on record cites nothing; any other answer cites something       *)
(* strong enough, and tags only days that it cites, unless it was          *)
(* streamed.                                                               *)
(***************************************************************************)
AnswersAreOnRecord ==
  /\ \A q \in Questions :
       (inquiry[q].result = "done" /\ inquiry[q].on # "mcp"
          /\ conversation[inquiry[q].session].owner # NoSession) =>
         LET record == messages[inquiry[q].session] IN
         \E m, n \in DOMAIN record :
           /\ m < n
           /\ record[m] = Entry("user", q, "question", {})
           /\ record[n] = Entry("assistant", q, inquiry[q].reply, Citations(q))
  /\ \A s \in ChatSessions : \A n \in DOMAIN messages[s] :
       LET m == messages[s][n] IN
       /\ m.kind = "refusal" => m.cites = {}
       /\ m.kind = "real" =>
            /\ m.cites # {} /\ EvidenceSuffices(m.cites)
            /\ inquiry[m.of].on = "chat" => Grounded(inquiry[m.of].tags, m.cites)
=============================================================================
