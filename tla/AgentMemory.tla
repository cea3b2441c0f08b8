------------------------------ MODULE AgentMemory ------------------------------
(***************************************************************************)
(* What the agent remembers of its users (src/src/agent/memory/): a turn   *)
(* begins by recalling, its tools remember and forget                      *)
(* (src/src/agent/tools/memory_tools.py), and it ends with an extractor    *)
(* that writes down what the exchange shows.  A user may delete memories   *)
(* as well (src/src/api/agent_chat.py), and MongoDB removes expired ones.  *)
(* Sessions run at the same time, also those of one user.                  *)
(*                                                                         *)
(* A memory's id is its place in the order in which ids were drawn.  What  *)
(* the texts say is left out: any may be found relevant, none may.  The    *)
(* tool calls of one message of the model run in one node of the graph     *)
(* (src/src/agent/graph.py), whose n-th question is answered by the n-th   *)
(* decision of the user, each time that it runs again from its start.      *)
(***************************************************************************)
EXTENDS Naturals, FiniteSets, SequencesExt

CONSTANTS MemorySessions, \* the sessions of the agent
          UserOf,         \* UserOf[s]: the user whose session s is
          RecallK,        \* memory_top_k
          MaxExtracted,   \* items in one answer of the extractor
          MaxMemories,    \* ids drawn
          MaxQuestions    \* calls of a message that ask the user something

ASSUME AgentMemoryAssumption ==
  /\ DOMAIN UserOf = MemorySessions
  /\ {RecallK, MaxExtracted, MaxMemories, MaxQuestions} \subseteq Nat

VARIABLES memories,  \* memories[id]: whose it is, of which namespace, and if it is there
          recall,    \* recall[s]: the turn of session s
          consents,  \* the memories their users agreed to delete (history)
          vouched    \* those their users were told are deleted (history)

memoryVars == <<memories, recall, consents, vouched>>

\* Episodic memories expire, semantic and procedural ones do not.
Namespaces == {"semantic", "episodic"}

MemoryUsers == {UserOf[s] : s \in MemorySessions}
MemoryIds == 1..MaxMemories

\* The question of another tool: a schedule to delete, a newsletter to generate.
Elsewhere == 0

\* The ids recalled.  Of the calls of the message: the namespaces of what they have
\* stored; what those that ask are about, one without anything to ask about any more
\* left out; the decisions so far; how many ask.  What is yet to be written down.
NoTurn == [at |-> "idle", ids |-> {}, before |-> << >>, questions |-> << >>,
           answers |-> << >>, asks |-> 0, items |-> << >>]

AgentMemoryTypeOK ==
  /\ memories \in Seq([user : MemoryUsers, namespace : Namespaces, there : BOOLEAN])
  /\ Len(memories) <= MaxMemories
  /\ \A s \in MemorySessions :
       /\ recall[s].at \in {"idle", "tools", "asked", "write"}
       /\ recall[s].ids \subseteq MemoryIds
       /\ recall[s].before \in Seq(Namespaces) /\ recall[s].items \in Seq(Namespaces)
       /\ recall[s].questions \in Seq(MemoryIds \cup {Elsewhere})
       /\ recall[s].answers \in Seq({"approve", "reject"})
       /\ recall[s].asks \in 0..MaxQuestions
  /\ consents \subseteq MemoryIds /\ vouched \subseteq MemoryIds

AgentMemoryInit ==
  /\ memories = << >>
  /\ recall = [s \in MemorySessions |-> NoTurn]
  /\ consents = {} /\ vouched = {}

-----------------------------------------------------------------------------
Stored(user, namespace) ==
  [user |-> user, namespace |-> namespace, there |-> TRUE]

\* aput: under an id of its own, so that it replaces none.
Aput(user, namespaces) ==
  /\ Len(memories) + Len(namespaces) <= MaxMemories
  /\ memories' = memories \o [i \in DOMAIN namespaces |-> Stored(user, namespaces[i])]

\* Slip: the memory is looked up by its id alone.
OfUserSlip(user, id) == id \in DOMAIN memories

\* What adelete matches in one of the three namespaces it is called for.
OfUser(user, id) == id \in DOMAIN memories /\ memories[id].user = user

Adelete(user, ids) ==
  [m \in DOMAIN memories |->
     IF m \in ids /\ OfUser(user, m) THEN [memories[m] EXCEPT !.there = FALSE]
                                     ELSE memories[m]]

Own(user, ids) == {m \in DOMAIN memories \cap ids : memories[m].user = user}

Held(user) == {id \in DOMAIN memories : memories[id].user = user /\ memories[id].there}

-----------------------------------------------------------------------------
\* load_memory: the best of what the namespaces hold, a failed search finds nothing.
LoadMemory(s) ==
  /\ recall[s].at = "idle"
  /\ \E ids \in SUBSET Held(UserOf[s]) :
       /\ Cardinality(ids) <= RecallK
       /\ recall' = [recall EXCEPT ![s] = [NoTurn EXCEPT !.at = "tools", !.ids = ids]]
  /\ UNCHANGED <<memories, consents, vouched>>

\* remember, which fails if the text cannot be embedded.
Remember(s) ==
  /\ recall[s].at = "tools"
  /\ \E n \in Namespaces :
       /\ Aput(UserOf[s], <<n>>)
       /\ recall' = [recall EXCEPT ![s].before = Append(@, n)]
  /\ UNCHANGED <<consents, vouched>>

\* The node of the tools ends, and the model goes on.
NextMessage(s) ==
  /\ recall[s].at = "tools" /\ (recall[s].before # << >> \/ recall[s].asks > 0)
  /\ recall' = [recall EXCEPT ![s] = [NoTurn EXCEPT !.at = "tools", !.ids = recall[s].ids]]
  /\ UNCHANGED <<memories, consents, vouched>>

\* What is forgotten: the questions whose place has an approval.
Agreed(questions, answers) ==
  {questions[i] : i \in {j \in DOMAIN questions : j <= Len(answers)
                                                  /\ answers[j] = "approve"}}

Forgets(s, ids) == vouched' = vouched \cup Own(UserOf[s], ids)

\* forget, of whatever id the model names, or another tool that asks: the user is asked,
\* unless a decision is left over for the question's place.
AskUser(s) ==
  /\ recall[s].at = "tools" /\ recall[s].asks < MaxQuestions
  /\ \E q \in DOMAIN memories \cup {Elsewhere} :
       LET questions == Append(recall[s].questions, q)
           answers == recall[s].answers IN
       IF Len(answers) < Len(questions)
       THEN /\ recall' = [recall EXCEPT ![s].at = "asked", ![s].questions = questions,
                                        ![s].asks = @ + 1]
            /\ UNCHANGED <<memories, vouched>>
       ELSE /\ recall' = [recall EXCEPT ![s].questions = questions, ![s].asks = @ + 1]
            /\ memories' = Adelete(UserOf[s], Agreed(questions, answers))
            /\ Forgets(s, Agreed(questions, answers))
  /\ UNCHANGED consents

\* The questions of the node when it runs again: another tool's may have nothing to ask
\* about any more (delete_schedule, of a schedule that is gone), at most one at a time.
RunAgain(questions) ==
  {questions} \cup {RemoveAt(questions, i) : i \in {j \in DOMAIN questions :
                                                    questions[j] = Elsewhere}}

\* Within the bound on questions: when no call that asks is left, the questions and
\* what was stored before them are of no use any more.
Unburdened(t) ==
  IF t.asks < MaxQuestions THEN t
  ELSE [NoTurn EXCEPT !.at = t.at, !.ids = t.ids, !.asks = t.asks]

\* The node starts again with one more decision: what its calls remembered, they
\* remember twice, and what is approved now is deleted.  The user is told so whether
\* there was such a memory or not.
Decide(s, decision) ==
  LET user == UserOf[s]
      answers == Append(recall[s].answers, decision) IN
  /\ recall[s].at = "asked"
  /\ Len(memories) + Len(recall[s].before) <= MaxMemories
  /\ consents' = consents \cup
       Own(user, IF decision = "approve" THEN {Last(recall[s].questions)} ELSE {})
  /\ \E questions \in RunAgain(recall[s].questions) :
       /\ memories' = Adelete(user, Agreed(questions, answers)) \o
                        [i \in DOMAIN recall[s].before |->
                           Stored(user, recall[s].before[i])]
       /\ Forgets(s, Agreed(questions, answers))
       /\ recall' = [recall EXCEPT ![s] = Unburdened([@ EXCEPT !.at = "tools",
                                      !.questions = questions, !.answers = answers])]

\* The model has answered, or the budget is used up.  The extractor reads the exchange:
\* what of its answer is important enough, has a text and a namespace.
EndTools(s) ==
  /\ recall[s].at = "tools"
  /\ \E n \in 0..MaxExtracted : \E items \in [1..n -> Namespaces] :
       recall' = [recall EXCEPT ![s] = [NoTurn EXCEPT !.at = "write", !.items = items]]
  /\ UNCHANGED <<memories, consents, vouched>>

\* The user writes on while the question is open: nothing is deleted.
WriteOn(s) ==
  /\ recall[s].at = "asked"
  /\ recall' = [recall EXCEPT ![s] = NoTurn]
  /\ UNCHANGED <<memories, consents, vouched>>

\* One after the other.
PersistMemory(s) ==
  /\ recall[s].at = "write" /\ recall[s].items # << >>
  /\ Aput(UserOf[s], <<Head(recall[s].items)>>)
  /\ recall' = [recall EXCEPT ![s].items = Tail(@)]
  /\ UNCHANGED <<consents, vouched>>

\* All are written, or one could not be and the rest are not tried.
EndMemoryTurn(s) ==
  /\ recall[s].at = "write"
  /\ recall' = [recall EXCEPT ![s] = NoTurn]
  /\ UNCHANGED <<memories, consents, vouched>>

\* The user's own request, for any id.  It may fail, after the memory is gone at worst.
DeleteMemory(user) ==
  \E id \in DOMAIN memories :
    /\ consents' = consents \cup Own(user, {id})
    /\ memories' = Adelete(user, {id})
    /\ vouched' \in {vouched, vouched \cup Own(user, {id})}
    /\ UNCHANGED recall

\* MongoDB removes what has expired, some time after it has.
ExpireMemory ==
  \E id \in DOMAIN memories :
    /\ memories[id].namespace = "episodic" /\ memories[id].there
    /\ memories' = [memories EXCEPT ![id].there = FALSE]
    /\ UNCHANGED <<recall, consents, vouched>>

AgentMemoryNext ==
  \/ \E s \in MemorySessions :
       \/ LoadMemory(s) \/ Remember(s) \/ NextMessage(s) \/ AskUser(s)
       \/ \E decision \in {"approve", "reject"} : Decide(s, decision)
       \/ WriteOn(s) \/ EndTools(s) \/ PersistMemory(s) \/ EndMemoryTurn(s)
  \/ \E user \in MemoryUsers : DeleteMemory(user)
  \/ ExpireMemory

-----------------------------------------------------------------------------
(***************************************************************************)
(* A memory that does not expire is gone only if its own user agreed to    *)
(* that ("a memory belonging to another user cannot be removed via this    *)
(* tool even if its id is guessed", forget), a memory that its user was    *)
(* told is deleted never comes back, whatever tool nodes run again and     *)
(* whatever extractors are still writing, and no turn recalls a memory of  *)
(* another user.  It holds while a message asks one question at most: with *)
(* two, a question that is gone when the node runs again leaves its        *)
(* approval to the next one's memory.                                      *)
(***************************************************************************)
MemoriesAreTheirUsers ==
  /\ \A id \in DOMAIN memories :
       /\ memories[id].there \/ memories[id].namespace = "episodic"
            \/ id \in consents
       /\ id \in vouched => ~memories[id].there
  /\ \A s \in MemorySessions : \A id \in recall[s].ids : memories[id].user = UserOf[s]
=============================================================================
