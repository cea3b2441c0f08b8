------------------------------ MODULE MCKnowledge ------------------------------
(***************************************************************************)
(* The knowledge base: who is let in (RagAdmission), how a question is     *)
(* answered (Conversation) and what is there to be found (KnowledgeBase).  *)
(* They share no variable: the first state of a behaviour says which of    *)
(* them runs, and the others stay as they begin.                           *)
(***************************************************************************)
EXTENDS RagAdmission, Conversation, KnowledgeBase, TLC

VARIABLE component  \* the one that runs

knowledgeVars == <<vars, conversationVars, baseVars, component>>

\* Requests of one surface and callers of one lane are interchangeable.
Symmetry == Permutations(Searches) \cup Permutations(Anonymous)

\* Nothing, something too weak, and the same with something strong enough.
MCFinds ==
  LET weak == [score |-> 0, from |-> 1, to |-> 1]
      strong == [score |-> 1, from |-> 3, to |-> 2]
  IN {{}, {weak}, {weak, strong}}

\* A day that is cited, and one that is not beside one that is.
MCReplies == {{2}, {1, 4}}

\* The lengths of the segments: with a segment as long as a piece, and a longer one.
MCTexts == {<<1, 1, 3, 1, 2>>, <<2, 1, 1>>, <<4, 1, 3>>}

KnowledgeInit ==
  /\ component \in {"admission", "conversation", "base"}
  /\ Init /\ ConversationInit /\ KnowledgeBaseInit
  /\ component # "base" => text = CHOOSE t \in SourceTexts : TRUE

\* The component that runs takes a step, any other keeps its state.
Part(name, step, own) == IF component = name THEN step ELSE UNCHANGED own

KnowledgeNext ==
  /\ Part("admission", Next, vars)
  /\ Part("conversation", ConversationNext, conversationVars)
  /\ Part("base", KnowledgeBaseNext, baseVars)
  /\ UNCHANGED component

KnowledgeSpec == KnowledgeInit /\ [][KnowledgeNext]_knowledgeVars

\* Every component is well typed.
KnowledgeTypeOK == TypeOK /\ ConversationTypeOK /\ KnowledgeBaseTypeOK
=============================================================================
