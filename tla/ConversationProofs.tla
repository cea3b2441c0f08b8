--------------------------- MODULE ConversationProofs ---------------------------
(***************************************************************************)
(* Theorems about Conversation, for any questions, owners, sessions,       *)
(* retrievals and replies; and about KnowledgeBase, for any texts, sizes   *)
(* of a piece and of its overlap, and ingesters.  They share no variables. *)
(***************************************************************************)
EXTENDS Conversation, KnowledgeBase, Integers, FiniteSetTheorems,
        SequenceTheorems, WellFoundedInduction, TLAPS

ConversationSpec == ConversationInit /\ [][ConversationNext]_conversationVars

Cites == [score : Nat, from : Nat, to : Nat]

Titles == Questions \cup {NoTitle, Given}

Entries == [from : {"user", "assistant"}, of : Questions,
            kind : {"question", "refusal", "real"}, cites : SUBSET Cites]

Inquiry == [at : {"idle", "find", "append", "title", "count", "name", "history", "admit",
                  "retrieve", "generate", "store", "tell", "evaluate", "ended"},
            on : {"mcp", "stream", "chat"}, by : Owners \cup {NoSession},
            session : ChatSessions \cup {NoSession}, untitled : BOOLEAN,
            found : SUBSET Cites, tags : SUBSET Nat,
            reply : {"none", "refusal", "real"},
            result : {"none", "done", "refused", "error"}]

Shapes ==
  /\ conversation \in
       [ChatSessions -> [owner : Owners \cup {NoSession}, title : Titles]]
  /\ messages \in [ChatSessions -> Seq(Entries)]
  /\ inquiry \in [Questions -> Inquiry]

\* The stretches of a request's way.
InSession == {"find", "append", "title", "count", "name", "history", "store"}
OnRecord == {"title", "count", "name", "history", "admit", "retrieve", "generate",
             "store", "tell", "evaluate"}
AfterAnswer == {"tell", "evaluate", "ended"}

Question(q) == Entry("user", q, "question", {})
Answer(q) == Entry("assistant", q, inquiry[q].reply, Citations(q))

Lives(q) == conversation[inquiry[q].session].owner # NoSession

\* What holds of a request on one of the surfaces with a session, which may have been
\* deleted: then it is never there again, for its id has been drawn.
InquiryFits(q) ==
  LET i == inquiry[q]
      record == messages[i.session] IN
  /\ i.at \in InSession => i.on # "mcp"
  /\ i.on # "mcp" => i.session \in ChatSessions
  /\ i.result = "done" => i.at \in {"evaluate", "ended"}
  /\ i.result = "done" /\ i.at = "evaluate" => i.on = "stream"
  /\ i.on # "mcp" /\ (i.at \in OnRecord \/ i.result = "done") /\ Lives(q) =>
       \E m \in DOMAIN record : record[m] = Question(q)
  /\ i.at = "name" /\ Lives(q) => record # <<>> /\ record[1].of = q
  /\ i.on # "mcp" /\ (i.at \in {"tell", "evaluate"} \/ i.result = "done") /\ Lives(q) =>
       \E m, n \in DOMAIN record :
         m < n /\ record[m] = Question(q) /\ record[n] = Answer(q)
  /\ i.at = "generate" => Passes(i.found)
  /\ i.at = "store" =>
       /\ i.reply # "none"
       /\ i.reply = "real" =>
            Passes(i.found) /\ (i.on = "chat" => Grounded(i.tags, i.found))

\* What holds of an entry: nothing changes what an answer is compared with.
EntryFits(e) ==
  /\ e.kind = "refusal" => e.cites = {}
  /\ e.kind = "real" =>
       /\ e.cites # {} /\ EvidenceSuffices(e.cites)
       /\ inquiry[e.of].at \in AfterAnswer
       /\ inquiry[e.of].on = "chat" => Grounded(inquiry[e.of].tags, e.cites)

RecordFits(s) == \A n \in DOMAIN messages[s] : EntryFits(messages[s][n])

ConversationInv ==
  /\ Shapes
  /\ \A q \in Questions : InquiryFits(q)
  /\ \A s \in ChatSessions : RecordFits(s)
  /\ TitleIsOfFirstQuestion

-----------------------------------------------------------------------------
LEMMA Initially == ConversationInit => ConversationInv
<1> SUFFICES ASSUME ConversationInit PROVE ConversationInv
  OBVIOUS
<1> USE ConversationAssumption DEF ConversationInit
<1>1. NotAsked \in Inquiry
  BY DEF NotAsked, Inquiry
<1>2. Shapes
  BY <1>1 DEF Shapes, NoDocument, Titles
<1>3. \A q \in Questions : InquiryFits(q)
  BY DEF InquiryFits, NotAsked, InSession, OnRecord
<1>4. \A s \in ChatSessions : RecordFits(s)
  BY DEF RecordFits
<1>5. TitleIsOfFirstQuestion
  BY DEF TitleIsOfFirstQuestion, NoDocument
<1> QED
  BY <1>2, <1>3, <1>4, <1>5 DEF ConversationInv

\* What is recorded of q's answer stays true if the request moves to x.
Stays(q, x) ==
  inquiry[q].at \in AfterAnswer =>
    x.at \in AfterAnswer /\ x.on = inquiry[q].on /\ x.tags \in {inquiry[q].tags, {}}

LEMMA EntriesStay ==
  ASSUME Shapes, NEW q \in Questions, NEW x, inquiry' = [inquiry EXCEPT ![q] = x],
         Stays(q, x), NEW e \in Entries, EntryFits(e)
  PROVE  EntryFits(e)'
<1>1. e.of \in Questions
  BY DEF Entries
<1>2. CASE e.of # q
  BY <1>1, <1>2 DEF Shapes, EntryFits
<1>3. CASE e.of = q
  <2>1. inquiry'[q] = x
    BY DEF Shapes
  <2>2. Grounded({}, e.cites)
    BY DEF Grounded
  <2> QED
    BY <1>3, <2>1, <2>2 DEF EntryFits, Stays
<1> QED
  BY <1>2, <1>3

\* A step of one request that leaves the sessions as they are.
LEMMA InquiryKeeps ==
  ASSUME ConversationInv, NEW q \in Questions, NEW x \in Inquiry,
         inquiry' = [inquiry EXCEPT ![q] = x], UNCHANGED <<conversation, messages>>,
         InquiryFits(q)', Stays(q, x)
  PROVE  ConversationInv'
<1> USE DEF ConversationInv
<1>1. Shapes'
  BY DEF Shapes
<1>2. ASSUME NEW p \in Questions PROVE InquiryFits(p)'
  <2>1. CASE p = q
    BY <2>1
  <2>2. CASE p # q
    <3>1. inquiry'[p] = inquiry[p]
      BY <2>2 DEF Shapes
    <3>2. InquiryFits(p)
      OBVIOUS
    <3> QED
      BY <3>1, <3>2 DEF InquiryFits, Lives, Answer, Citations
  <2> QED
    BY <2>1, <2>2
<1>3. ASSUME NEW s \in ChatSessions PROVE RecordFits(s)'
  <2>1. \A n \in DOMAIN messages[s] :
           messages[s][n] \in Entries /\ EntryFits(messages[s][n])
    BY ElementOfSeq DEF RecordFits, Shapes
  <2> QED
    BY <2>1, EntriesStay DEF RecordFits
<1>4. TitleIsOfFirstQuestion'
  BY DEF TitleIsOfFirstQuestion
<1> QED
  BY <1>1, <1>2, <1>3, <1>4

\* What a request holds when it has ended, found, answered and told.
Ended(i, result) ==
  [NotAsked EXCEPT !.at = "ended", !.on = i.on, !.session = i.session, !.result = result]

Retrieved(i, found, reply, at) == [i EXCEPT !.found = found, !.reply = reply, !.at = at]

Generated(i, tags, reply, at) == [i EXCEPT !.tags = tags, !.reply = reply, !.at = at]

ToldOf(i, at) == [i EXCEPT !.result = "done", !.at = at]

LEMMA EndedIs ==
  ASSUME NEW i \in Inquiry, NEW result \in {"none", "refused", "error"}, NEW x,
         x = Ended(i, result)
  PROVE  /\ x \in Inquiry /\ x.at = "ended" /\ x.on = i.on
         /\ x.session = i.session /\ x.tags = {} /\ x.result = result
BY Zenon DEF Ended, Inquiry, NotAsked

LEMMA RetrievedIs ==
  ASSUME NEW i \in Inquiry, NEW at \in {"generate", "tell", "store"},
         NEW found \in SUBSET Cites, NEW reply \in {"none", "refusal"}, NEW x,
         x = Retrieved(i, found, reply, at)
  PROVE  /\ x \in Inquiry /\ x.at = at /\ x.on = i.on /\ x.session = i.session
         /\ x.result = i.result /\ x.found = found /\ x.reply = reply
BY Zenon DEF Retrieved, Inquiry

LEMMA GeneratedIs ==
  ASSUME NEW i \in Inquiry, NEW at \in {"evaluate", "store"},
         NEW tags \in SUBSET Nat, NEW reply \in {"real", "refusal"}, NEW x,
         x = Generated(i, tags, reply, at)
  PROVE  /\ x \in Inquiry /\ x.at = at /\ x.on = i.on /\ x.session = i.session
         /\ x.result = i.result /\ x.found = i.found /\ x.reply = reply /\ x.tags = tags
BY Zenon DEF Generated, Inquiry

LEMMA ToldIs ==
  ASSUME NEW i \in Inquiry, NEW at \in {"evaluate", "ended"}, NEW x,
         x = ToldOf(i, at)
  PROVE  /\ x \in Inquiry /\ x.at = at /\ x.on = i.on /\ x.session = i.session
         /\ x.result = "done" /\ x.found = i.found /\ x.reply = i.reply /\ x.tags = i.tags
BY Zenon DEF ToldOf, Inquiry

\* A request that ends without an answer.
LEMMA EndsKeeps ==
  ASSUME ConversationInv, NEW q \in Questions, NEW result \in {"none", "refused", "error"},
         Ends(q, result), UNCHANGED <<conversation, messages>>
  PROVE  ConversationInv'
<1> DEFINE x == Ended(inquiry[q], result)
<1>0. inquiry[q] \in Inquiry /\ InquiryFits(q)
  BY DEF ConversationInv, Shapes
<1>1. /\ x \in Inquiry /\ x.at = "ended" /\ x.on = inquiry[q].on
      /\ x.session = inquiry[q].session /\ x.tags = {} /\ x.result = result
  BY <1>0, EndedIs
<1>2. inquiry' = [inquiry EXCEPT ![q] = x]
  BY Zenon DEF Ends, Ended
<1> HIDE DEF x
<1>3. inquiry'[q] = x
  BY <1>2 DEF ConversationInv, Shapes
<1>4. InquiryFits(q)'
  BY <1>0, <1>1, <1>3 DEF InquiryFits, InSession, OnRecord
<1>5. Stays(q, x)
  BY <1>1 DEF Stays, AfterAnswer
<1> QED
  BY <1>1, <1>2, <1>4, <1>5, InquiryKeeps

\* A request that moves on with what it has, to a place with the same promises.
LEMMA MovesKeeps ==
  ASSUME ConversationInv, NEW q \in Questions,
         NEW to \in {"append", "title", "count", "history", "admit", "retrieve", "ended",
                     "tell", "evaluate"},
         Moves(q, to), UNCHANGED <<conversation, messages>>,
         to \in InSession => inquiry[q].on # "mcp",
         inquiry[q].at \in AfterAnswer => to \in AfterAnswer,
         to \in OnRecord => inquiry[q].at \in OnRecord \/ inquiry[q].on = "mcp",
         to \in {"tell", "evaluate"} =>
           inquiry[q].at \in {"tell", "evaluate"} \/ inquiry[q].on = "mcp",
         inquiry[q].result = "done" => to = "ended"
  PROVE  ConversationInv'
<1> DEFINE x == [inquiry[q] EXCEPT !.at = to]
<1>0. inquiry[q] \in Inquiry /\ InquiryFits(q)
  BY DEF ConversationInv, Shapes
<1>1. /\ x \in Inquiry /\ x.at = to /\ x.on = inquiry[q].on /\ x.tags = inquiry[q].tags
      /\ x.session = inquiry[q].session /\ x.result = inquiry[q].result
      /\ x.reply = inquiry[q].reply /\ x.found = inquiry[q].found
  BY <1>0 DEF Inquiry
<1>2. inquiry' = [inquiry EXCEPT ![q] = x]
  BY DEF Moves, ConversationInv, Shapes
<1> HIDE DEF x
<1>3. inquiry'[q] = x
  BY <1>2 DEF ConversationInv, Shapes
<1>4. InquiryFits(q)'
  BY <1>0, <1>1, <1>3
  DEF InquiryFits, InSession, OnRecord, Lives, Answer, Citations
<1>5. Stays(q, x)
  BY <1>1 DEF Stays, AfterAnswer
<1> QED
  BY <1>1, <1>2, <1>4, <1>5, InquiryKeeps

-----------------------------------------------------------------------------
(* The steps that read. *)

LEMMA AskKeeps ==
  ASSUME ConversationInv, NEW q \in Questions, NEW on \in {"stream", "chat"},
         NEW o \in Owners, NEW s \in ChatSessions, Ask(q, on, o, s)
  PROVE  ConversationInv'
<1> DEFINE x == [NotAsked EXCEPT !.at = "find", !.on = on, !.by = o, !.session = s]
<1>1. /\ inquiry' = [inquiry EXCEPT ![q] = x] /\ UNCHANGED <<conversation, messages>>
      /\ inquiry[q].at = "idle"
  BY DEF Ask
<1>2. /\ x \in Inquiry /\ x.at = "find" /\ x.on = on /\ x.session = s
      /\ x.result = "none"
  BY DEF Inquiry, NotAsked
<1> HIDE DEF x
<1>3. inquiry'[q] = x
  BY <1>1 DEF ConversationInv, Shapes
<1>4. InquiryFits(q)' /\ Stays(q, x)
  BY <1>1, <1>2, <1>3 DEF InquiryFits, InSession, OnRecord, Stays, AfterAnswer
<1> QED
  BY <1>1, <1>2, <1>4, InquiryKeeps

LEMMA AskToolKeeps ==
  ASSUME ConversationInv, NEW q \in Questions, AskTool(q) PROVE ConversationInv'
<1> DEFINE x == [NotAsked EXCEPT !.at = "admit"]
<1>1. /\ inquiry' = [inquiry EXCEPT ![q] = x] /\ UNCHANGED <<conversation, messages>>
      /\ inquiry[q].at = "idle"
  BY DEF AskTool
<1>2. x \in Inquiry /\ x.at = "admit" /\ x.on = "mcp" /\ x.result = "none"
  BY DEF Inquiry, NotAsked
<1> HIDE DEF x
<1>3. inquiry'[q] = x
  BY <1>1 DEF ConversationInv, Shapes
<1>4. InquiryFits(q)' /\ Stays(q, x)
  BY <1>1, <1>2, <1>3 DEF InquiryFits, InSession, OnRecord, Stays, AfterAnswer
<1> QED
  BY <1>1, <1>2, <1>4, InquiryKeeps

LEMMA FindKeeps ==
  ASSUME ConversationInv, NEW q \in Questions, FindSession(q) PROVE ConversationInv'
<1> DEFINE x == [inquiry[q] EXCEPT !.at = "append", !.by = NoSession]
<1>0. inquiry[q] \in Inquiry /\ InquiryFits(q)
  BY DEF ConversationInv, Shapes
<1>1. UNCHANGED <<conversation, messages>> /\ inquiry[q].at = "find"
  BY DEF FindSession
<1>2. CASE Ends(q, "refused")
  BY <1>1, <1>2, EndsKeeps
<1>3. CASE inquiry' = [inquiry EXCEPT ![q].at = "append", ![q].by = NoSession]
  <2>1. inquiry' = [inquiry EXCEPT ![q] = x]
    BY <1>0, <1>3 DEF ConversationInv, Shapes, Inquiry
  <2>2. /\ x \in Inquiry /\ x.at = "append" /\ x.on = inquiry[q].on
        /\ x.session = inquiry[q].session /\ x.result = inquiry[q].result
    BY <1>0 DEF Inquiry
  <2> HIDE DEF x
  <2>3. inquiry'[q] = x
    BY <2>1 DEF ConversationInv, Shapes
  <2>4. InquiryFits(q)' /\ Stays(q, x)
    BY <1>0, <1>1, <2>2, <2>3 DEF InquiryFits, InSession, OnRecord, Stays, AfterAnswer
  <2> QED
    BY <1>1, <2>1, <2>2, <2>4, InquiryKeeps
<1> QED
  BY <1>2, <1>3 DEF FindSession

LEMMA TitleKeeps ==
  ASSUME ConversationInv, NEW q \in Questions, ReadTitle(q) PROVE ConversationInv'
<1> DEFINE c == conversation[inquiry[q].session]
           u == c.owner # NoSession /\ c.title = NoTitle
           x == [inquiry[q] EXCEPT !.at = "count", !.untitled = u]
<1>0. inquiry[q] \in Inquiry /\ InquiryFits(q)
  BY DEF ConversationInv, Shapes
<1>1. UNCHANGED <<conversation, messages>> /\ inquiry[q].at = "title" /\ u \in BOOLEAN
  BY DEF ReadTitle
<1>2. inquiry' = [inquiry EXCEPT ![q].at = "count", ![q].untitled = u]
  BY DEF ReadTitle
<1> HIDE DEF u
<1>3. inquiry' = [inquiry EXCEPT ![q] = x]
  BY <1>0, <1>2 DEF ConversationInv, Shapes, Inquiry
<1>4. /\ x \in Inquiry /\ x.at = "count" /\ x.on = inquiry[q].on
      /\ x.session = inquiry[q].session /\ x.result = inquiry[q].result
  BY <1>0, <1>1 DEF Inquiry
<1> HIDE DEF x
<1>5. inquiry'[q] = x
  BY <1>3 DEF ConversationInv, Shapes
<1>6. InquiryFits(q)' /\ Stays(q, x)
  BY <1>0, <1>1, <1>4, <1>5
  DEF InquiryFits, InSession, OnRecord, Stays, AfterAnswer, Lives
<1> QED
  BY <1>1, <1>3, <1>4, <1>6, InquiryKeeps

\* The count finds no message but the one of this question.
LEMMA CountKeeps ==
  ASSUME ConversationInv, NEW q \in Questions, CountMessages(q) PROVE ConversationInv'
<1> DEFINE to == IF inquiry[q].untitled /\ First(q) THEN "name" ELSE "history"
           x == [inquiry[q] EXCEPT !.untitled = FALSE, !.at = to]
           record == messages[inquiry[q].session]
<1>0. inquiry[q] \in Inquiry /\ InquiryFits(q)
  BY DEF ConversationInv, Shapes
<1>1. UNCHANGED <<conversation, messages>> /\ inquiry[q].at = "count"
  BY DEF CountMessages
<1>2. to \in {"name", "history"} /\ (to = "name" => Len(record) <= 1)
  BY DEF First
<1>3. inquiry' = [inquiry EXCEPT ![q].untitled = FALSE, ![q].at = to]
  BY DEF CountMessages
<1> HIDE DEF to
<1>4. inquiry' = [inquiry EXCEPT ![q] = x]
  BY <1>0, <1>3 DEF ConversationInv, Shapes, Inquiry
<1>5. /\ x \in Inquiry /\ x.at = to /\ x.on = inquiry[q].on
      /\ x.session = inquiry[q].session /\ x.result = inquiry[q].result
  BY <1>0, <1>2 DEF Inquiry
<1> HIDE DEF x
<1>6. inquiry'[q] = x
  BY <1>4 DEF ConversationInv, Shapes
<1>7. ASSUME to = "name", Lives(q) PROVE record # <<>> /\ record[1].of = q
  <2>1. PICK m \in DOMAIN record : record[m] = Question(q)
    BY <1>0, <1>1, <1>7 DEF InquiryFits, InSession, OnRecord
  <2>2. record \in Seq(Entries)
    BY <1>0, <1>1 DEF ConversationInv, Shapes, InquiryFits, InSession
  <2>3. Len(record) \in Nat /\ DOMAIN record = 1..Len(record)
    BY <2>2
  <2>4. m = 1
    BY <1>2, <1>7, <2>1, <2>3
  <2>5. record # <<>>
    BY <2>1
  <2> QED
    BY <2>1, <2>4, <2>5 DEF Question, Entry
<1>8. InquiryFits(q)' /\ Stays(q, x)
  BY <1>0, <1>1, <1>2, <1>5, <1>6, <1>7
  DEF InquiryFits, InSession, OnRecord, Stays, AfterAnswer, Lives
<1> QED
  BY <1>1, <1>4, <1>5, <1>8, InquiryKeeps

LEMMA HistoryKeeps ==
  ASSUME ConversationInv, NEW q \in Questions, ReadHistory(q) \/ Admit(q)
  PROVE  ConversationInv'
<1>1. /\ UNCHANGED <<conversation, messages>> /\ inquiry[q].at \in {"history", "admit"}
      /\ Moves(q, "admit") \/ Moves(q, "retrieve") \/ Ends(q, "refused")
  BY DEF ReadHistory, Admit
<1>2. inquiry[q].result # "done"
  BY <1>1 DEF ConversationInv, InquiryFits
<1>3. CASE Moves(q, "admit")
  BY <1>1, <1>2, <1>3, MovesKeeps DEF InSession, OnRecord, AfterAnswer
<1>4. CASE Moves(q, "retrieve")
  BY <1>1, <1>2, <1>4, MovesKeeps DEF InSession, OnRecord, AfterAnswer
<1>5. CASE Ends(q, "refused")
  BY <1>1, <1>5, EndsKeeps
<1> QED
  BY <1>1, <1>3, <1>4, <1>5

LEMMA RetrieveKeeps ==
  ASSUME ConversationInv, NEW q \in Questions, RetrieveFor(q) PROVE ConversationInv'
<1>0. inquiry[q] \in Inquiry /\ InquiryFits(q)
  BY DEF ConversationInv, Shapes
<1>1. UNCHANGED <<conversation, messages>> /\ inquiry[q].at = "retrieve"
  BY DEF RetrieveFor
<1>2. PICK found \in Finds :
        inquiry' = [inquiry EXCEPT ![q].found = found,
          ![q].reply = IF Passes(found) THEN "none" ELSE "refusal",
          ![q].at = CASE Passes(found) -> "generate"
                      [] inquiry[q].on = "mcp" -> "tell"
                      [] OTHER -> "store"]
  BY DEF RetrieveFor
<1> DEFINE to == CASE Passes(found) -> "generate"
                   [] inquiry[q].on = "mcp" -> "tell"
                   [] OTHER -> "store"
           reply == IF Passes(found) THEN "none" ELSE "refusal"
<1>3. /\ to \in {"generate", "tell", "store"}
      /\ to = "generate" => Passes(found)
      /\ to = "tell" => inquiry[q].on = "mcp"
      /\ to = "store" => inquiry[q].on # "mcp" /\ reply = "refusal"
      /\ reply \in {"none", "refusal"} /\ found \in SUBSET Cites
  BY ConversationAssumption DEF Cites
<1>4. inquiry' = [inquiry EXCEPT ![q].found = found, ![q].reply = reply, ![q].at = to]
  BY <1>2
<1> HIDE DEF to, reply
<1> DEFINE x == Retrieved(inquiry[q], found, reply, to)
<1>5. inquiry' = [inquiry EXCEPT ![q] = x]
  BY <1>0, <1>4 DEF ConversationInv, Shapes, Inquiry, Retrieved
<1>6. /\ x \in Inquiry /\ x.at = to /\ x.on = inquiry[q].on
      /\ x.session = inquiry[q].session /\ x.result = inquiry[q].result
      /\ x.found = found /\ x.reply = reply
  BY <1>0, <1>3, RetrievedIs
<1> HIDE DEF x
<1>7. inquiry'[q] = x
  BY <1>5 DEF ConversationInv, Shapes
<1>8. InquiryFits(q)' /\ Stays(q, x)
  BY <1>0, <1>1, <1>3, <1>6, <1>7
  DEF InquiryFits, InSession, OnRecord, Stays, AfterAnswer, Lives
<1> QED
  BY <1>1, <1>5, <1>8, <1>6, InquiryKeeps

\* The plain chat discards an answer that tags a day without a citation.
LEMMA GenerateKeeps ==
  ASSUME ConversationInv, NEW q \in Questions, Generate(q) PROVE ConversationInv'
<1>0. inquiry[q] \in Inquiry /\ InquiryFits(q)
  BY DEF ConversationInv, Shapes
<1>1. UNCHANGED <<conversation, messages>> /\ inquiry[q].at = "generate"
  BY DEF Generate
<1>2. PICK tags \in Replies :
        inquiry' = [inquiry EXCEPT ![q].tags = tags,
          ![q].reply = IF Discards(q, tags) THEN "refusal" ELSE "real",
          ![q].at = IF inquiry[q].on = "mcp" THEN "evaluate" ELSE "store"]
  BY DEF Generate
<1> DEFINE to == IF inquiry[q].on = "mcp" THEN "evaluate" ELSE "store"
           reply == IF Discards(q, tags) THEN "refusal" ELSE "real"
<1>3. /\ to \in {"evaluate", "store"}
      /\ to = "evaluate" => inquiry[q].on = "mcp"
      /\ to = "store" => inquiry[q].on # "mcp"
      /\ reply \in {"real", "refusal"} /\ tags \in SUBSET Nat
      /\ reply = "real" /\ inquiry[q].on = "chat" => Grounded(tags, inquiry[q].found)
  BY ConversationAssumption DEF Discards
<1>4. inquiry' = [inquiry EXCEPT ![q].tags = tags, ![q].reply = reply, ![q].at = to]
  BY <1>2
<1> HIDE DEF to, reply
<1> DEFINE x == Generated(inquiry[q], tags, reply, to)
<1>5. inquiry' = [inquiry EXCEPT ![q] = x]
  BY <1>0, <1>4 DEF ConversationInv, Shapes, Inquiry, Generated
<1>6. /\ x \in Inquiry /\ x.at = to /\ x.on = inquiry[q].on
      /\ x.session = inquiry[q].session /\ x.result = inquiry[q].result
      /\ x.found = inquiry[q].found /\ x.reply = reply /\ x.tags = tags
  BY <1>0, <1>3, GeneratedIs
<1> HIDE DEF x
<1>7. inquiry'[q] = x
  BY <1>5 DEF ConversationInv, Shapes
<1>8. InquiryFits(q)' /\ Stays(q, x)
  BY <1>0, <1>1, <1>3, <1>6, <1>7
  DEF InquiryFits, InSession, OnRecord, Stays, AfterAnswer, Lives
<1> QED
  BY <1>1, <1>5, <1>6, <1>8, InquiryKeeps

LEMMA TellKeeps ==
  ASSUME ConversationInv, NEW q \in Questions, Tell(q) PROVE ConversationInv'
<1> DEFINE to == IF inquiry[q].on = "stream" THEN "evaluate" ELSE "ended"
           x == ToldOf(inquiry[q], to)
<1>0. inquiry[q] \in Inquiry /\ InquiryFits(q)
  BY DEF ConversationInv, Shapes
<1>1. UNCHANGED <<conversation, messages>> /\ inquiry[q].at = "tell"
  BY DEF Tell
<1>2. to \in {"evaluate", "ended"}
  OBVIOUS
<1>3. inquiry' = [inquiry EXCEPT ![q].result = "done", ![q].at = to]
  BY DEF Tell
<1> HIDE DEF to
<1>4. inquiry' = [inquiry EXCEPT ![q] = x]
  BY <1>0, <1>3 DEF ConversationInv, Shapes, Inquiry, ToldOf
<1>5. /\ x \in Inquiry /\ x.at = to /\ x.on = inquiry[q].on
      /\ x.session = inquiry[q].session /\ x.result = "done"
      /\ x.found = inquiry[q].found /\ x.reply = inquiry[q].reply
      /\ x.tags = inquiry[q].tags
  BY <1>0, <1>2, ToldIs
<1> HIDE DEF x
<1>6. inquiry'[q] = x
  BY <1>4 DEF ConversationInv, Shapes
<1>7. InquiryFits(q)'
  <2>1. Answer(q)' = Answer(q) /\ Lives(q)' = Lives(q)
    BY <1>1, <1>5, <1>6 DEF Answer, Citations, Lives
  <2>2. inquiry[q].on # "mcp" /\ Lives(q) =>
          \E m, n \in DOMAIN messages[inquiry[q].session] :
            /\ m < n /\ messages[inquiry[q].session][m] = Question(q)
            /\ messages[inquiry[q].session][n] = Answer(q)
    BY <1>0, <1>1 DEF InquiryFits
  <2>3. Question(q)' = Question(q)
    BY DEF Question, Entry
  <2>4. to = "evaluate" => x.on = "stream"
    BY <1>3, <1>5 DEF to
  <2> HIDE DEF Question, Answer
  <2> QED
    BY <1>0, <1>1, <1>2, <1>5, <1>6, <2>1, <2>2, <2>3, <2>4
    DEF InquiryFits, InSession, OnRecord
<1>8. Stays(q, x)
  BY <1>1, <1>2, <1>5 DEF Stays, AfterAnswer
<1> QED
  BY <1>1, <1>4, <1>5, <1>7, <1>8, InquiryKeeps

LEMMA EvaluateKeeps ==
  ASSUME ConversationInv, NEW q \in Questions, Evaluate(q) PROVE ConversationInv'
<1>1. /\ UNCHANGED <<conversation, messages>> /\ inquiry[q].at = "evaluate"
      /\ \/ inquiry[q].on = "stream" /\ Moves(q, "ended")
         \/ inquiry[q].on # "stream" /\ Moves(q, "tell")
  BY DEF Evaluate
<1>2. CASE Moves(q, "ended")
  BY <1>1, <1>2, MovesKeeps DEF InSession, OnRecord, AfterAnswer
<1>3. CASE inquiry[q].on # "stream" /\ Moves(q, "tell")
  <2>1. inquiry[q].result # "done"
    BY <1>1, <1>3 DEF ConversationInv, InquiryFits
  <2> QED
    BY <1>1, <1>3, <2>1, MovesKeeps DEF InSession, OnRecord, AfterAnswer
<1> QED
  BY <1>1, <1>2, <1>3

LEMMA GiveUpKeeps ==
  ASSUME ConversationInv, NEW q \in Questions, Fail(q) \/ Disconnect(q)
  PROVE  ConversationInv'
<1>1. UNCHANGED <<conversation, messages>>
  BY DEF Fail, Disconnect
<1>2. CASE Ends(q, "error") \/ Ends(q, "none")
  BY <1>1, <1>2, EndsKeeps
<1>3. CASE inquiry[q].at = "evaluate" /\ Moves(q, "ended")
  BY <1>1, <1>3, MovesKeeps DEF InSession, OnRecord, AfterAnswer
<1> QED
  BY <1>2, <1>3 DEF Fail, Disconnect

-----------------------------------------------------------------------------
(* The steps that write. *)

\* An entry that fits is appended to the session of q, which moves on.
LEMMA AppendKeeps ==
  ASSUME ConversationInv, NEW q \in Questions, NEW e \in Entries, NEW to,
         inquiry[q].session \in ChatSessions, to \in {"title", "tell", "evaluate"},
         Appended(q, e), Moves(q, to), UNCHANGED conversation,
         EntryFits(e)', InquiryFits(q)', inquiry[q].at \notin AfterAnswer
  PROVE  ConversationInv'
<1> DEFINE s == inquiry[q].session
           x == [inquiry[q] EXCEPT !.at = to]
<1>0. Shapes /\ s \in ChatSessions /\ messages[s] \in Seq(Entries)
  BY DEF ConversationInv, Shapes
<1>1. x \in Inquiry /\ inquiry' = [inquiry EXCEPT ![q] = x]
  <2>1. inquiry[q] \in Inquiry
    BY <1>0 DEF Shapes
  <2>2. x \in Inquiry
    BY <2>1 DEF Inquiry
  <2>3. inquiry' = [inquiry EXCEPT ![q] = x]
    BY <1>0 DEF Shapes, Moves
  <2> QED
    BY <2>2, <2>3
<1>2. messages' = [messages EXCEPT ![s] = Append(messages[s], e)]
  BY <1>0 DEF Appended, Shapes
<1>3. /\ Append(messages[s], e) \in Seq(Entries)
      /\ Len(Append(messages[s], e)) = Len(messages[s]) + 1
      /\ Append(messages[s], e)[Len(messages[s]) + 1] = e
      /\ \A n \in 1..Len(messages[s]) : Append(messages[s], e)[n] = messages[s][n]
  BY <1>0
<1> HIDE DEF x
<1>4. Shapes'
  BY <1>0, <1>1, <1>2, <1>3 DEF Shapes
<1>5. \A z \in ChatSessions : \A n \in DOMAIN messages[z] :
        n \in DOMAIN messages'[z] /\ messages'[z][n] = messages[z][n]
  BY <1>0, <1>2, <1>3 DEF Shapes
<1>6. \A z \in ChatSessions : messages[z] # <<>> =>
        messages'[z] # <<>> /\ messages'[z][1] = messages[z][1]
  <2> SUFFICES ASSUME NEW z \in ChatSessions, messages[z] # <<>>
               PROVE  messages'[z] # <<>> /\ messages'[z][1] = messages[z][1]
    OBVIOUS
  <2>1. messages[z] \in Seq(Entries)
    BY <1>0 DEF Shapes
  <2>2. 1 \in DOMAIN messages[z]
    BY <2>1, EmptySeq
  <2>3. 1 \in DOMAIN messages'[z] /\ messages'[z][1] = messages[z][1]
    BY <1>5, <2>2
  <2>4. messages'[z] # <<>>
    BY <2>3
  <2> QED
    BY <2>3, <2>4
<1>7. ASSUME NEW p \in Questions PROVE InquiryFits(p)'
  <2>1. CASE p = q
    BY <2>1
  <2>2. CASE p # q
    <3>1. inquiry'[p] = inquiry[p] /\ InquiryFits(p) /\ inquiry[p] \in Inquiry
      BY <1>0, <1>1, <2>2 DEF ConversationInv, Shapes
    <3>2. Answer(p)' = Answer(p) /\ Question(p)' = Question(p) /\ Lives(p)' = Lives(p)
      BY <3>1 DEF Answer, Question, Entry, Citations, Lives
    <3>3. inquiry[p].on # "mcp" => inquiry[p].session \in ChatSessions
      BY <3>1 DEF InquiryFits
    <3>4. inquiry[p].at = "name" => inquiry[p].on # "mcp"
      BY <3>1 DEF InquiryFits, InSession
    <3> HIDE DEF Answer, Question
    <3> QED
      BY <1>5, <1>6, <3>1, <3>2, <3>3, <3>4 DEF InquiryFits
  <2> QED
    BY <2>1, <2>2
<1>8. ASSUME NEW z \in ChatSessions PROVE RecordFits(z)'
  <2>1. Stays(q, x)
    BY DEF Stays
  <2>2. \A n \in DOMAIN messages[z] :
           messages[z][n] \in Entries /\ EntryFits(messages[z][n])
    BY ElementOfSeq DEF ConversationInv, RecordFits, Shapes
  <2>3. \A y \in Entries : EntryFits(y) => EntryFits(y)'
    BY <1>0, <1>1, <2>1, EntriesStay
  <2>4. CASE z # s
    <3>1. messages'[z] = messages[z]
      BY <1>2, <2>4
    <3> QED
      BY <2>2, <2>3, <3>1 DEF RecordFits, EntryFits
  <2>5. CASE z = s
    <3>1. \A n \in DOMAIN messages'[z] :
            n \in DOMAIN messages[z] \/ messages'[z][n] = e
      BY <1>0, <1>2, <1>3, <2>5 DEF Shapes
    <3> QED
      BY <1>5, <2>2, <2>3, <3>1 DEF RecordFits, EntryFits
  <2> QED
    BY <2>4, <2>5
<1>9. TitleIsOfFirstQuestion'
  BY <1>6 DEF ConversationInv, TitleIsOfFirstQuestion
<1> QED
  BY <1>4, <1>7, <1>8, <1>9 DEF ConversationInv

\* What is in the session of q after an entry has been appended.
LEMMA AppendedIs ==
  ASSUME Shapes, NEW q \in Questions, NEW e \in Entries,
         inquiry[q].session \in ChatSessions, Appended(q, e)
  PROVE  LET s == inquiry[q].session IN
         /\ Len(messages[s]) + 1 \in DOMAIN messages'[s]
         /\ messages'[s][Len(messages[s]) + 1] = e
         /\ \A n \in DOMAIN messages[s] :
              /\ n \in DOMAIN messages'[s] /\ messages'[s][n] = messages[s][n]
              /\ n < Len(messages[s]) + 1
<1> DEFINE s == inquiry[q].session
<1>1. messages[s] \in Seq(Entries) /\ messages'[s] = Append(messages[s], e)
  BY DEF Shapes, Appended
<1> QED
  BY <1>1

LEMMA UserKeeps ==
  ASSUME ConversationInv, NEW q \in Questions, AddUserMessage(q) PROVE ConversationInv'
<1> DEFINE s == inquiry[q].session
<1>0. Shapes /\ inquiry[q] \in Inquiry /\ InquiryFits(q)
  BY DEF ConversationInv, Shapes
<1>1. /\ inquiry[q].at = "append" /\ Appended(q, Question(q)) /\ Moves(q, "title")
      /\ UNCHANGED conversation
  BY DEF AddUserMessage, Question
<1>2. /\ inquiry[q].on # "mcp" /\ s \in ChatSessions
      /\ inquiry[q].result # "done"
  BY <1>0, <1>1 DEF InquiryFits, InSession
<1>3. Question(q) \in Entries
  BY DEF Question, Entry, Entries
<1>4. EntryFits(Question(q))'
  BY DEF EntryFits, Question, Entry
<1>5. /\ inquiry'[q].at = "title" /\ inquiry'[q].session = s
      /\ inquiry'[q].on = inquiry[q].on /\ inquiry'[q].result = inquiry[q].result
  BY <1>0, <1>1 DEF Moves, Shapes, Inquiry
<1>6. \E m \in DOMAIN messages'[s] : messages'[s][m] = Question(q)
  BY <1>0, <1>1, <1>2, <1>3, AppendedIs
<1>7. InquiryFits(q)'
  <2>1. Question(q)' = Question(q)
    BY DEF Question, Entry
  <2> HIDE DEF Question
  <2> QED
    BY <1>2, <1>5, <1>6, <2>1 DEF InquiryFits, InSession, OnRecord
<1> QED
  BY <1>0, <1>1, <1>2, <1>3, <1>4, <1>7, AppendKeeps DEF AfterAnswer

LEMMA AssistantKeeps ==
  ASSUME ConversationInv, NEW q \in Questions, AddAssistantMessage(q)
  PROVE  ConversationInv'
<1> DEFINE s == inquiry[q].session
           to == IF inquiry[q].on = "chat" /\ Passes(inquiry[q].found)
                 THEN "evaluate" ELSE "tell"
<1>0. Shapes /\ inquiry[q] \in Inquiry /\ InquiryFits(q)
  BY DEF ConversationInv, Shapes
<1>1. /\ inquiry[q].at = "store" /\ Appended(q, Answer(q)) /\ Moves(q, to)
      /\ UNCHANGED conversation
  BY DEF AddAssistantMessage, Answer
<1>2. /\ inquiry[q].on # "mcp" /\ s \in ChatSessions
      /\ inquiry[q].result # "done" /\ inquiry[q].reply \in {"refusal", "real"}
      /\ inquiry[q].reply = "real" =>
           /\ Passes(inquiry[q].found)
           /\ inquiry[q].on = "chat" => Grounded(inquiry[q].tags, inquiry[q].found)
  BY <1>0, <1>1 DEF InquiryFits, InSession, Inquiry
<1>3. Answer(q) \in Entries
  BY <1>0, <1>2 DEF Answer, Entry, Entries, Citations, Inquiry
<1>4. to \in {"tell", "evaluate"}
  OBVIOUS
<1> HIDE DEF to
<1>5. /\ inquiry'[q].at = to /\ inquiry'[q].session = s
      /\ inquiry'[q].on = inquiry[q].on /\ inquiry'[q].result = inquiry[q].result
      /\ inquiry'[q].tags = inquiry[q].tags /\ inquiry'[q].reply = inquiry[q].reply
      /\ inquiry'[q].found = inquiry[q].found
  BY <1>0, <1>1 DEF Moves, Shapes, Inquiry
<1>6. \A e \in Entries : e = Answer(q) => EntryFits(e)'
  <2> SUFFICES ASSUME NEW e \in Entries, e = Answer(q) PROVE EntryFits(e)'
    OBVIOUS
  <2>1. e.kind = inquiry[q].reply /\ e.cites = Citations(q) /\ e.of = q
    BY DEF Answer, Entry
  <2>2. inquiry[q].reply = "refusal" => Citations(q) = {}
    BY DEF Citations
  <2>3. inquiry[q].reply = "real" =>
          /\ Citations(q) = inquiry[q].found /\ inquiry[q].found # {}
          /\ EvidenceSuffices(inquiry[q].found)
    BY <1>2 DEF Citations, Passes
  <2> QED
    BY <1>2, <1>4, <1>5, <2>1, <2>2, <2>3 DEF EntryFits, AfterAnswer
<1>7. \E m, n \in DOMAIN messages'[s] :
        Lives(q) => m < n /\ messages'[s][m] = Question(q) /\ messages'[s][n] = Answer(q)
  <2>0. Len(messages[s]) + 1 \in DOMAIN messages'[s]
    BY <1>0, <1>1, <1>2, <1>3, AppendedIs
  <2>1. CASE Lives(q)
    <3>1. PICK m \in DOMAIN messages[s] : messages[s][m] = Question(q)
      BY <1>0, <1>1, <1>2, <2>1 DEF InquiryFits, OnRecord
    <3> QED
      BY <1>0, <1>1, <1>2, <1>3, <2>0, <3>1, AppendedIs
  <2> QED
    BY <2>0, <2>1
<1>8. InquiryFits(q)'
  <2>1. Question(q)' = Question(q) /\ Answer(q)' = Answer(q) /\ Lives(q)' = Lives(q)
    BY <1>1, <1>5 DEF Question, Entry, Answer, Citations, Lives
  <2> HIDE DEF Question, Answer
  <2> QED
    BY <1>2, <1>4, <1>5, <1>7, <2>1 DEF InquiryFits, InSession, OnRecord
<1> QED
  <2>1. inquiry[q].at \notin AfterAnswer /\ to \in {"title", "tell", "evaluate"}
    BY <1>1, <1>4 DEF AfterAnswer
  <2>2. PICK e \in Entries : e = Answer(q)
    BY <1>3
  <2>3. EntryFits(e)' /\ Appended(q, e)
    BY <1>1, <1>6, <2>2
  <2> QED
    BY <1>1, <1>2, <1>8, <2>1, <2>3, AppendKeeps

\* The session gets the title of the one question that is in it.
LEMMA NameKeeps ==
  ASSUME ConversationInv, NEW q \in Questions, NameSession(q) PROVE ConversationInv'
<1> DEFINE s == inquiry[q].session
           x == [inquiry[q] EXCEPT !.at = "history"]
<1>0. Shapes /\ inquiry[q] \in Inquiry /\ InquiryFits(q)
  BY DEF ConversationInv, Shapes
<1>1. /\ inquiry[q].at = "name" /\ Moves(q, "history") /\ messages' = messages
      /\ \/ /\ conversation[s].owner # NoSession
            /\ conversation' = [conversation EXCEPT ![s].title = q]
         \/ UNCHANGED conversation
  BY DEF NameSession
<1>2. inquiry[q].on # "mcp" /\ s \in ChatSessions /\ inquiry[q].result # "done"
  BY <1>0, <1>1 DEF InquiryFits, InSession
<1>3. CASE UNCHANGED conversation
  BY <1>0, <1>1, <1>2, <1>3, MovesKeeps DEF InSession, OnRecord, AfterAnswer
<1>4. CASE /\ conversation[s].owner # NoSession
           /\ conversation' = [conversation EXCEPT ![s].title = q]
  <2>1. x \in Inquiry /\ x.at = "history" /\ x.on = inquiry[q].on /\ x.session = s
        /\ x.result = inquiry[q].result
    BY <1>0 DEF Inquiry
  <2>2. inquiry' = [inquiry EXCEPT ![q] = x]
    BY <1>0, <1>1 DEF Shapes, Moves
  <2> HIDE DEF x
  <2>3. inquiry'[q] = x
    BY <1>0, <2>2 DEF Shapes
  <2>4. \A z \in ChatSessions : conversation'[z].owner = conversation[z].owner
                                /\ (z # s => conversation'[z] = conversation[z])
    BY <1>0, <1>4 DEF Shapes
  <2>5. conversation'[s].title = q
    BY <1>0, <1>2, <1>4 DEF Shapes
  <2>6. Shapes'
    BY <1>0, <1>1, <1>4, <2>1, <2>2 DEF Shapes, Titles
  <2>7. ASSUME NEW p \in Questions PROVE InquiryFits(p)'
    <3>1. CASE p = q
      BY <1>0, <1>1, <1>2, <2>1, <2>3, <2>4, <3>1
      DEF InquiryFits, InSession, OnRecord, Lives
    <3>2. CASE p # q
      <4>1. inquiry'[p] = inquiry[p] /\ InquiryFits(p)
        BY <1>0, <2>2, <3>2 DEF ConversationInv, Shapes
      <4>2. inquiry[p].on # "mcp" => Lives(p)' = Lives(p)
        BY <2>4, <4>1 DEF InquiryFits, Lives
      <4>3. inquiry[p].at = "name" => inquiry[p].on # "mcp"
        BY <4>1 DEF InquiryFits, InSession
      <4>4. Answer(p)' = Answer(p) /\ Question(p)' = Question(p)
        BY <4>1 DEF Answer, Question, Entry, Citations
      <4> HIDE DEF Answer, Question
      <4> QED
        BY <1>1, <4>1, <4>2, <4>3, <4>4 DEF InquiryFits
    <3> QED
      BY <3>1, <3>2
  <2>8. ASSUME NEW z \in ChatSessions PROVE RecordFits(z)'
    <3>1. \A n \in DOMAIN messages[z] :
             messages[z][n] \in Entries /\ EntryFits(messages[z][n])
      BY <1>0, ElementOfSeq DEF ConversationInv, RecordFits, Shapes
    <3>2. Stays(q, x)
      BY <1>1 DEF Stays, AfterAnswer
    <3>3. \A y \in Entries : EntryFits(y) => EntryFits(y)'
      BY <1>0, <2>2, <3>2, EntriesStay
    <3> QED
      BY <1>1, <3>1, <3>3 DEF RecordFits, EntryFits
  <2>9. TitleIsOfFirstQuestion'
    <3>1. messages[s] # <<>> /\ messages[s][1].of = q
      BY <1>0, <1>1, <1>4 DEF InquiryFits, Lives
    <3> QED
      BY <1>1, <2>4, <2>5, <3>1 DEF ConversationInv, TitleIsOfFirstQuestion
  <2> QED
    BY <2>6, <2>7, <2>8, <2>9 DEF ConversationInv
<1> QED
  BY <1>1, <1>3, <1>4

-----------------------------------------------------------------------------
(* Sessions come and go; an id is drawn once. *)

LEMMA CreateKeeps ==
  ASSUME ConversationInv, NEW s \in ChatSessions, NEW o \in Owners,
         NEW title \in {NoTitle, Given}, ~ Drawn(s),
         conversation' = [conversation EXCEPT ![s] = [owner |-> o, title |-> title]],
         UNCHANGED <<messages, inquiry>>
  PROVE  ConversationInv'
<1>0. Shapes
  BY DEF ConversationInv
<1>1. messages[s] = <<>> /\ \A q \in Questions : inquiry[q].session # s
  BY DEF Drawn
<1>2. Shapes'
  BY <1>0 DEF Shapes, Titles
<1>3. ASSUME NEW q \in Questions PROVE InquiryFits(q)'
  <2>1. Lives(q)' = Lives(q) /\ InquiryFits(q)
    BY <1>0, <1>1 DEF ConversationInv, Lives, Shapes
  <2> QED
    BY <2>1 DEF InquiryFits, Answer, Citations
<1>4. \A z \in ChatSessions : RecordFits(z)'
  BY DEF ConversationInv, RecordFits, EntryFits
<1>5. TitleIsOfFirstQuestion'
  BY <1>0, ConversationAssumption DEF ConversationInv, TitleIsOfFirstQuestion, Shapes
<1> QED
  BY <1>2, <1>3, <1>4, <1>5 DEF ConversationInv

LEMMA DeleteKeeps ==
  ASSUME ConversationInv, NEW s \in ChatSessions, NEW o \in Owners, DeleteSession(s, o)
  PROVE  ConversationInv'
<1>0. Shapes
  BY DEF ConversationInv
<1>1. /\ conversation' = [conversation EXCEPT ![s] = NoDocument]
      /\ messages' = [messages EXCEPT ![s] = <<>>] /\ inquiry' = inquiry
  BY DEF DeleteSession
<1>2. Shapes'
  <2>1. <<>> \in Seq(Entries)
    OBVIOUS
  <2> QED
    BY <1>0, <1>1, <2>1 DEF Shapes, Titles, NoDocument
<1>3. ASSUME NEW q \in Questions PROVE InquiryFits(q)'
  <2>1. InquiryFits(q)
    BY DEF ConversationInv
  <2>2. CASE inquiry[q].session = s
    <3>1. ~ Lives(q)'
      BY <1>0, <1>1, <2>2 DEF Lives, Shapes, NoDocument
    <3> QED
      BY <1>1, <2>1, <3>1 DEF InquiryFits
  <2>3. CASE inquiry[q].session # s
    <3>1. inquiry[q].on # "mcp" => inquiry[q].session \in ChatSessions
      BY <2>1 DEF InquiryFits
    <3>2. inquiry[q].on # "mcp" =>
            /\ Lives(q)' = Lives(q)
            /\ messages'[inquiry[q].session] = messages[inquiry[q].session]
      BY <1>0, <1>1, <2>3, <3>1 DEF Lives, Shapes
    <3>3. inquiry[q].at = "name" => inquiry[q].on # "mcp"
      BY <2>1 DEF InquiryFits, InSession
    <3>4. Answer(q)' = Answer(q) /\ Question(q)' = Question(q)
      BY <1>1 DEF Answer, Question, Entry, Citations
    <3> HIDE DEF Answer, Question
    <3> QED
      BY <1>1, <2>1, <3>2, <3>3, <3>4 DEF InquiryFits
  <2> QED
    BY <2>2, <2>3
<1>4. ASSUME NEW z \in ChatSessions PROVE RecordFits(z)'
  <2>1. messages'[z] = IF z = s THEN <<>> ELSE messages[z]
    BY <1>0, <1>1 DEF Shapes
  <2> QED
    BY <1>1, <2>1 DEF ConversationInv, RecordFits, EntryFits
<1>5. TitleIsOfFirstQuestion'
  BY <1>0, <1>1, ConversationAssumption
  DEF ConversationInv, TitleIsOfFirstQuestion, Shapes, NoDocument
<1> QED
  BY <1>2, <1>3, <1>4, <1>5 DEF ConversationInv

\* A session for a question that names none: made, and asked in.
LEMMA AskAfreshKeeps ==
  ASSUME ConversationInv, NEW q \in Questions, NEW on \in {"stream", "chat"},
         NEW o \in Owners, NEW s \in ChatSessions, AskAfresh(q, on, o, s)
  PROVE  ConversationInv'
<1> DEFINE x == [NotAsked EXCEPT !.at = "find", !.on = on, !.by = o, !.session = s]
<1>0. Shapes
  BY DEF ConversationInv
<1>1. /\ inquiry' = [inquiry EXCEPT ![q] = x] /\ messages' = messages
      /\ inquiry[q].at = "idle" /\ ~ Drawn(s)
      /\ conversation' = [conversation EXCEPT ![s] = [owner |-> o, title |-> NoTitle]]
  BY DEF AskAfresh
<1>2. /\ x \in Inquiry /\ x.at = "find" /\ x.on = on /\ x.session = s
      /\ x.result = "none"
  BY DEF Inquiry, NotAsked
<1> HIDE DEF x
<1>3. inquiry'[q] = x
  BY <1>0, <1>1 DEF Shapes
<1>4. messages[s] = <<>> /\ \A p \in Questions : inquiry[p].session # s
  BY <1>1 DEF Drawn
<1>5. Shapes'
  BY <1>0, <1>1, <1>2 DEF Shapes, Titles
<1>6. ASSUME NEW p \in Questions PROVE InquiryFits(p)'
  <2>1. CASE p = q
    BY <1>2, <1>3, <2>1 DEF InquiryFits, InSession, OnRecord
  <2>2. CASE p # q
    <3>1. inquiry'[p] = inquiry[p] /\ InquiryFits(p)
      BY <1>0, <1>1, <2>2 DEF ConversationInv, Shapes
    <3>2. Lives(p)' = Lives(p)
      BY <1>0, <1>1, <1>4, <3>1 DEF Lives, Shapes
    <3> QED
      BY <1>1, <3>1, <3>2 DEF InquiryFits, Answer, Citations
  <2> QED
    BY <2>1, <2>2
<1>7. ASSUME NEW z \in ChatSessions PROVE RecordFits(z)'
  <2>1. \A n \in DOMAIN messages[z] :
           messages[z][n] \in Entries /\ EntryFits(messages[z][n])
    BY <1>0, ElementOfSeq DEF ConversationInv, RecordFits, Shapes
  <2>2. Stays(q, x)
    BY <1>1 DEF Stays, AfterAnswer
  <2>3. \A y \in Entries : EntryFits(y) => EntryFits(y)'
    BY <1>0, <1>1, <2>2, EntriesStay
  <2> QED
    BY <1>1, <2>1, <2>3 DEF RecordFits, EntryFits
<1>8. TitleIsOfFirstQuestion'
  BY <1>0, <1>1, ConversationAssumption
  DEF ConversationInv, TitleIsOfFirstQuestion, Shapes
<1> QED
  BY <1>5, <1>6, <1>7, <1>8 DEF ConversationInv

-----------------------------------------------------------------------------
LEMMA NothingKeeps ==
  ASSUME ConversationInv, UNCHANGED <<conversation, messages, inquiry>>
  PROVE  ConversationInv'
BY DEF ConversationInv, Shapes, InquiryFits, Lives, Answer, Citations, RecordFits,
       EntryFits, TitleIsOfFirstQuestion

LEMMA InvKept == ConversationInv /\ [ConversationNext]_conversationVars => ConversationInv'
<1> SUFFICES ASSUME ConversationInv, [ConversationNext]_conversationVars
             PROVE  ConversationInv'
  OBVIOUS
<1>1. ASSUME NEW s \in ChatSessions, NEW o \in Owners, CreateSession(s, o)
      PROVE  ConversationInv'
  BY <1>1, CreateKeeps DEF CreateSession
<1>2. ASSUME NEW s \in ChatSessions, NEW o \in Owners, DeleteSession(s, o)
      PROVE  ConversationInv'
  BY <1>2, DeleteKeeps
<1>3. ASSUME NEW q \in Questions, NEW on \in {"stream", "chat"}, NEW o \in Owners,
             NEW s \in ChatSessions, Ask(q, on, o, s) \/ AskAfresh(q, on, o, s)
      PROVE  ConversationInv'
  BY <1>3, AskKeeps, AskAfreshKeeps
<1>4. ASSUME NEW q \in Questions,
             \/ AskTool(q) \/ FindSession(q) \/ ReadTitle(q) \/ CountMessages(q)
             \/ ReadHistory(q) \/ Admit(q) \/ RetrieveFor(q) \/ Generate(q) \/ Tell(q)
             \/ Evaluate(q) \/ Fail(q) \/ Disconnect(q)
      PROVE  ConversationInv'
  BY <1>4, AskToolKeeps, FindKeeps, TitleKeeps, CountKeeps, HistoryKeeps, RetrieveKeeps,
     GenerateKeeps, TellKeeps, EvaluateKeeps, GiveUpKeeps
<1>5. ASSUME NEW q \in Questions,
             AddUserMessage(q) \/ AddAssistantMessage(q) \/ NameSession(q)
      PROVE  ConversationInv'
  BY <1>5, UserKeeps, AssistantKeeps, NameKeeps
<1>6. ASSUME NEW q \in Questions, ScoreResponse(q) PROVE ConversationInv'
  BY <1>6, NothingKeeps DEF ScoreResponse
<1>7. CASE UNCHANGED conversationVars
  BY <1>7, NothingKeeps DEF conversationVars
<1> QED
  BY <1>1, <1>2, <1>3, <1>4, <1>5, <1>6, <1>7 DEF ConversationNext

LEMMA ConversationInvariance == ConversationSpec => []ConversationInv
<1> QED
  BY Initially, InvKept, PTL DEF ConversationSpec

\* However the requests to a session interleave, wherever one fails or its client leaves
\* and whenever the session is deleted: a title that it got by itself is its first
\* question's.
THEOREM TitleOfFirstQuestion == ConversationSpec => []TitleIsOfFirstQuestion
<1>1. ConversationInv => TitleIsOfFirstQuestion
  BY DEF ConversationInv
<1> QED
  BY <1>1, ConversationInvariance, PTL

\* An answer that a client is told is complete is on record, after its question; what is
\* on record cites what it must, for any retrieval and any reply.
THEOREM AnswersOnRecord == ConversationSpec => []AnswersAreOnRecord
<1>1. ConversationInv => AnswersAreOnRecord
  <2> SUFFICES ASSUME ConversationInv PROVE AnswersAreOnRecord
    OBVIOUS
  <2>1. ASSUME NEW q \in Questions, inquiry[q].result = "done", inquiry[q].on # "mcp",
               conversation[inquiry[q].session].owner # NoSession
        PROVE  \E m, n \in DOMAIN messages[inquiry[q].session] :
                 /\ m < n /\ messages[inquiry[q].session][m] = Question(q)
                 /\ messages[inquiry[q].session][n] = Answer(q)
    BY <2>1 DEF ConversationInv, InquiryFits, Lives
  <2>2. ASSUME NEW s \in ChatSessions, NEW n \in DOMAIN messages[s]
        PROVE  EntryFits(messages[s][n])
    BY DEF ConversationInv, RecordFits
  <2> QED
    BY <2>1, <2>2 DEF AnswersAreOnRecord, Question, Answer, EntryFits
<1> QED
  BY <1>1, ConversationInvariance, PTL

-----------------------------------------------------------------------------
(* Recursion on numbers: the least and the greatest of a set; what holds of 0, and of   *)
(* the next of what it holds of; and that a function defined by recursion exists.       *)

LEMMA LeastOf ==
  ASSUME NEW T \in SUBSET Nat, T # {}
  PROVE  \E x \in T : \A y \in T : x <= y
<1> DEFINE R == OpToRel(<, Nat)
<1>1. IsWellFoundedOn(R, Nat)
  BY NatLessThanWellFounded
<1> HIDE DEF R
<1>2. PICK x \in T : \A y \in T : <<y, x>> \notin R
  BY <1>1, WFMin, Zenon
<1>3. ASSUME NEW y \in T PROVE x <= y
  <2>1. ~(y < x)
    BY <1>2 DEF R, OpToRel
  <2> QED
    BY <2>1
<1> QED
  BY <1>3

LEMMA GreatestOf ==
  ASSUME NEW T \in SUBSET Nat, T # {}, IsFiniteSet(T)
  PROVE  \E x \in T : \A y \in T : y <= x
<1> DEFINE Above(x) == {z \in T : z > x}
           ranks == {Cardinality(Above(x)) : x \in T}
<1>1. ASSUME NEW x \in T
      PROVE  IsFiniteSet(Above(x)) /\ Cardinality(Above(x)) \in Nat
  BY FS_Subset, FS_CardinalityType
<1>2. ranks \in SUBSET Nat /\ ranks # {}
  BY <1>1
<1>3. PICK n \in ranks : \A m \in ranks : n <= m
  <2> HIDE DEF ranks
  <2> QED
    BY <1>2, LeastOf
<1>4. PICK x \in T : n = Cardinality(Above(x))
  OBVIOUS
<1>5. ASSUME NEW y \in T, ~(y <= x) PROVE FALSE
  <2>1. Above(y) \subseteq Above(x) /\ y \in Above(x) /\ y \notin Above(y)
    <3>1. x \in Nat /\ y \in Nat /\ y > x
      BY <1>5
    <3>2. ASSUME NEW z \in T, z > y PROVE z > x
      <4>1. z \in Nat
        OBVIOUS
      <4> QED
        BY <3>1, <3>2, <4>1
    <3>3. Above(y) \subseteq Above(x)
      BY <3>2
    <3>4. y \in Above(x) /\ ~(y > y)
      BY <3>1
    <3> QED
      BY <3>3, <3>4
  <2>2. Cardinality(Above(y)) < Cardinality(Above(x))
    <3>1. Above(y) # Above(x)
      BY <2>1
    <3> HIDE DEF Above
    <3> QED
      BY <1>1, <2>1, <3>1, FS_Subset
  <2>3. n <= Cardinality(Above(y))
    BY <1>3
  <2> HIDE DEF Above
  <2> QED
    BY <1>1, <1>4, <2>2, <2>3
<1> QED
  BY <1>5

LEMMA AllUpTo ==
  ASSUME NEW n \in Nat, NEW T, 0 \in T, \A i \in 1..n : i - 1 \in T => i \in T
  PROVE  \A i \in 0..n : i \in T
<1> DEFINE B == {i \in 0..n : i \notin T}
<1> SUFFICES ASSUME B # {} PROVE FALSE
  OBVIOUS
<1>1. PICK x \in B : \A y \in B : x <= y
  <2>1. B \in SUBSET Nat
    OBVIOUS
  <2> HIDE DEF B
  <2> QED
    BY <2>1, LeastOf
<1>2. x \in 1..n /\ x - 1 \in B
  BY <1>1
<1> QED
  BY <1>1, <1>2

\* f is defined by recursion up to n: from v on, by the step F.
Recursive(f, n, V, v, F) ==
  /\ f \in [0..n -> V] /\ f[0] = v
  /\ \A i \in 1..n : f[i] = F[<<i, f[i - 1]>>]

IsStep(F, n, V) == F \in [(1..n) \X V -> V]

LEMMA Recursion ==
  ASSUME NEW n \in Nat, NEW V, NEW v \in V, NEW F, IsStep(F, n, V)
  PROVE  \E f : Recursive(f, n, V, v, F)
<1> DEFINE T == {k \in 0..n : \E f : Recursive(f, k, V, v, F)}
<1>1. 0 \in T
  <2>1. PICK f : f = [i \in 0..0 |-> v]
    OBVIOUS
  <2>2. Recursive(f, 0, V, v, F)
    BY <2>1 DEF Recursive
  <2> QED
    BY <2>2
<1>2. ASSUME NEW k \in 1..n, k - 1 \in T PROVE k \in T
  <2>1. PICK f : Recursive(f, k - 1, V, v, F)
    BY <1>2
  <2>2. f[k - 1] \in V /\ <<k, f[k - 1]>> \in (1..n) \X V
    BY <2>1 DEF Recursive
  <2>3. PICK next \in V : next = F[<<k, f[k - 1]>>]
    BY <2>2 DEF IsStep
  <2>4. PICK g : g = [i \in 0..k |-> IF i = k THEN next ELSE f[i]]
    OBVIOUS
  <2>5. g \in [0..k -> V]
    BY <2>1, <2>3, <2>4 DEF Recursive
  <2>6. \A i \in 0..(k - 1) : g[i] = f[i]
    BY <2>4
  <2>7. ASSUME NEW i \in 1..k PROVE g[i] = F[<<i, g[i - 1]>>]
    <3>1. g[i - 1] = f[i - 1]
      BY <2>6
    <3>2. CASE i = k
      <4>1. g[k] = next
        BY <2>4
      <4> QED
        BY <2>3, <3>1, <3>2, <4>1
    <3>3. CASE i # k
      <4>1. i \in 1..(k - 1) /\ g[i] = f[i]
        BY <2>6, <3>3
      <4> QED
        BY <2>1, <3>1, <4>1 DEF Recursive
    <3> QED
      BY <3>2, <3>3
  <2>8. g[0] = v
    BY <2>1, <2>6 DEF Recursive
  <2>9. Recursive(g, k, V, v, F)
    BY <2>5, <2>7, <2>8 DEF Recursive
  <2> QED
    BY <2>9
<1> HIDE DEF T
<1>3. \A k \in 0..n : k \in T
  BY <1>1, <1>2, AllUpTo
<1> QED
  BY <1>3 DEF T

-----------------------------------------------------------------------------
(* How a text is cut. *)

LEMMA LengthIs ==
  ASSUME NEW t \in Seq(Nat)
  PROVE  \E L \in [0..Len(t) -> Nat] : /\ L = LengthOf(t) /\ L[0] = 0
                                      /\ \A i \in 1..Len(t) : L[i] = L[i - 1] + t[i]
<1> DEFINE Is(f) == f = [i \in 0..Len(t) |-> IF i = 0 THEN 0 ELSE f[i - 1] + t[i]]
<1>0. Len(t) \in Nat
  OBVIOUS
<1>1. PICK F : F = [p \in (1..Len(t)) \X Nat |-> p[2] + t[p[1]]]
  OBVIOUS
<1>2. IsStep(F, Len(t), Nat)
  BY <1>1 DEF IsStep
<1>3. PICK f : Recursive(f, Len(t), Nat, 0, F)
  BY <1>0, <1>2, Recursion
<1>4. f \in [0..Len(t) -> Nat] /\ f[0] = 0
  BY <1>0, <1>3 DEF Recursive
<1>5. ASSUME NEW i \in 1..Len(t) PROVE f[i] = f[i - 1] + t[i]
  <2>0. i - 1 \in 0..Len(t)
    BY <1>0
  <2>1. f[i - 1] \in Nat
    BY <2>0, <1>4
  <2>2. F[<<i, f[i - 1]>>] = f[i - 1] + t[i]
    <3>1. <<i, f[i - 1]>> \in (1..Len(t)) \X Nat
      BY <2>1
    <3> QED
      BY <1>1, <3>1
  <2> QED
    BY <1>3, <2>2 DEF Recursive
<1>6. Is(f)
  BY <1>4, <1>5
<1>7. LengthOf(t) = CHOOSE g : Is(g)
  BY DEF LengthOf
<1>8. PICK L : L = LengthOf(t) /\ Is(L)
  BY <1>6, <1>7
<1>9. L[0] = 0 /\ \A i \in 1..Len(t) : L[i] = L[i - 1] + t[i]
  BY <1>8
<1> DEFINE T == {i \in 0..Len(t) : L[i] \in Nat}
<1>10. 0 \in T
  BY <1>9
<1>11. ASSUME NEW i \in 1..Len(t), i - 1 \in T PROVE i \in T
  <2>1. t[i] \in Nat /\ L[i - 1] \in Nat
    BY <1>11, ElementOfSeq
  <2>2. L[i] \in Nat
    BY <1>9, <2>1
  <2> QED
    BY <1>0, <2>2
<1> HIDE DEF T
<1>12. \A i \in 0..Len(t) : i \in T
  BY <1>0, <1>10, <1>11, AllUpTo
<1>13. L \in [0..Len(t) -> Nat]
  BY <1>8, <1>12 DEF T
<1> QED
  BY <1>8, <1>9, <1>13

IsStretch(t, first, last) == first \in 1..(last + 1) /\ last \in 0..Len(t)

LEMMA SizeIs ==
  ASSUME NEW t \in Seq(Nat), NEW first, NEW last, IsStretch(t, first, last)
  PROVE  /\ SizeOf(t, first, last) \in Int
         /\ first = last + 1 => SizeOf(t, first, last) = 0
         /\ last > 0 => SizeOf(t, first, last) = SizeOf(t, first, last - 1) + t[last]
<1>1. /\ first - 1 \in 0..Len(t) /\ last \in 0..Len(t) /\ Len(t) \in Nat
      /\ last > 0 => last - 1 \in 0..Len(t) /\ last \in 1..Len(t)
  BY DEF IsStretch
<1>2. PICK L \in [0..Len(t) -> Nat] : /\ L = LengthOf(t)
                                      /\ \A i \in 1..Len(t) : L[i] = L[i - 1] + t[i]
  BY LengthIs
<1>3. L[first - 1] \in Nat /\ L[last] \in Nat /\ (last > 0 => L[last - 1] \in Nat)
  BY <1>1, <1>2
<1>4. last > 0 => L[last] = L[last - 1] + t[last] /\ t[last] \in Nat
  BY <1>1, <1>2
<1>5. SizeOf(t, first, last) = L[last] - L[first - 1]
      /\ SizeOf(t, first, last - 1) = L[last - 1] - L[first - 1]
  BY <1>2 DEF SizeOf
<1>6. CASE last > 0
  <2>1. first = last + 1 => first - 1 = last
    BY <1>1
  <2>2. first = last + 1 => L[first - 1] = L[last]
    BY <2>1
  <2>3. SizeOf(t, first, last) \in Int
    BY <1>3, <1>5
  <2>4. ASSUME first = last + 1 PROVE SizeOf(t, first, last) = 0
    BY <1>3, <1>5, <2>2, <2>4
  <2>5. SizeOf(t, first, last) = SizeOf(t, first, last - 1) + t[last]
    <3>1. L[last] = L[last - 1] + t[last] /\ t[last] \in Nat /\ L[last - 1] \in Nat
      BY <1>3, <1>4, <1>6
    <3> QED
      BY <1>3, <1>5, <3>1
  <2> QED
    BY <2>3, <2>4, <2>5
<1>7. CASE ~(last > 0)
  <2>1. first = 1 /\ last = 0
    BY <1>1, <1>7 DEF IsStretch
  <2> QED
    BY <1>3, <1>5, <2>1
<1> QED
  BY <1>6, <1>7

\* The overlap with what precedes a segment fits.
LEMMA OverlapIs ==
  ASSUME NEW t \in Seq(Nat), NEW i \in 1..Len(t)
  PROVE  Overlap(t, i) \in 1..i /\ SizeOf(t, Overlap(t, i), i - 1) <= PieceOverlap
<1> DEFINE T == {f \in 1..i : SizeOf(t, f, i - 1) <= PieceOverlap}
           Is(f) == /\ SizeOf(t, f, i - 1) <= PieceOverlap
                    /\ \A g \in 1..(f - 1) : SizeOf(t, g, i - 1) > PieceOverlap
<1>1. \A f \in 1..i : SizeOf(t, f, i - 1) \in Int
  BY SizeIs DEF IsStretch
<1>2. i \in T
  <2>1. SizeOf(t, i, i - 1) = 0
    BY SizeIs DEF IsStretch
  <2> QED
    BY <2>1, KnowledgeBaseAssumption
<1>3. PICK f \in T : \A g \in T : f <= g
  <2>1. T \in SUBSET Nat
    OBVIOUS
  <2> HIDE DEF T
  <2> QED
    BY <1>2, <2>1, LeastOf
<1>4. Is(f)
  <2>1. ASSUME NEW g \in 1..(f - 1) PROVE SizeOf(t, g, i - 1) > PieceOverlap
    <3>1. g \in 1..i /\ ~(f <= g)
      BY <1>3
    <3>2. g \notin T
      BY <1>3, <3>1
    <3> QED
      BY <1>1, <3>1, <3>2, KnowledgeBaseAssumption
  <2> QED
    BY <1>3, <2>1
<1> HIDE DEF T
<1>5. f \in 1..i
  BY <1>3 DEF T
<1>6. Overlap(t, i) = CHOOSE g \in 1..i : Is(g)
  BY DEF Overlap
<1> HIDE DEF Is
<1>7. Overlap(t, i) \in 1..i /\ Is(Overlap(t, i))
  BY <1>4, <1>5, <1>6
<1> QED
  BY <1>7 DEF Is

LEMMA StartIs ==
  ASSUME NEW t \in Seq(Nat)
  PROVE  /\ StartOf(t)[0] = 1
         /\ \A i \in 1..Len(t) : StartOf(t)[i] = IF TooLong(t, StartOf(t)[i - 1], i)
                                                THEN Overlap(t, i) ELSE StartOf(t)[i - 1]
<1> DEFINE Is(f) == f = [i \in 0..Len(t) |->
             IF i = 0 THEN 1
             ELSE IF TooLong(t, f[i - 1], i) THEN Overlap(t, i) ELSE f[i - 1]]
<1>0. Len(t) \in Nat
  OBVIOUS
<1>1. PICK F : F = [p \in (1..Len(t)) \X Nat |->
                      IF TooLong(t, p[2], p[1]) THEN Overlap(t, p[1]) ELSE p[2]]
  OBVIOUS
<1>2. IsStep(F, Len(t), Nat)
  <2>1. \A i \in 1..Len(t) : Overlap(t, i) \in Nat
    BY OverlapIs
  <2> QED
    BY <1>1, <2>1 DEF IsStep
<1>3. PICK f : Recursive(f, Len(t), Nat, 1, F)
  BY <1>0, <1>2, Recursion
<1>4. ASSUME NEW i \in 1..Len(t)
      PROVE  f[i] = IF TooLong(t, f[i - 1], i) THEN Overlap(t, i) ELSE f[i - 1]
  <2>0. i - 1 \in 0..Len(t)
    BY <1>0
  <2>1. f[i - 1] \in Nat
    BY <2>0, <1>3 DEF Recursive
  <2>2. F[<<i, f[i - 1]>>] = IF TooLong(t, f[i - 1], i) THEN Overlap(t, i) ELSE f[i - 1]
    <3>1. <<i, f[i - 1]>> \in (1..Len(t)) \X Nat
      BY <2>1
    <3> QED
      BY <1>1, <3>1
  <2> QED
    BY <1>3, <2>2 DEF Recursive
<1>5. Is(f)
  BY <1>3, <1>4 DEF Recursive
<1>6. StartOf(t) = CHOOSE g : Is(g)
  BY DEF StartOf
<1>7. PICK S : S = StartOf(t) /\ Is(S)
  BY <1>5, <1>6
<1>8. /\ S[0] = 1
      /\ \A i \in 1..Len(t) :
           S[i] = IF TooLong(t, S[i - 1], i) THEN Overlap(t, i) ELSE S[i - 1]
  <2>1. 0 \in 0..Len(t) /\ \A i \in 1..Len(t) : i \in 0..Len(t) /\ i # 0
    BY <1>0
  <2> QED
    BY <1>7, <2>1, Zenon
<1> QED
  BY <1>7, <1>8

\* The chunk under construction ends with the segment it was last given, and fits.
LEMMA StartFits ==
  ASSUME NEW t \in Seq(Nat)
  PROVE  \A i \in 1..Len(t) :
           StartOf(t)[i] \in 1..i /\ Fits(SizeOf(t, StartOf(t)[i], i), t)
<1>1. PICK S : S = StartOf(t)
  OBVIOUS
<1>2. /\ S[0] = 1
      /\ \A i \in 1..Len(t) :
           S[i] = IF TooLong(t, S[i - 1], i) THEN Overlap(t, i) ELSE S[i - 1]
  BY <1>1, StartIs
<1> DEFINE T == {i \in 0..Len(t) : i # 0 => S[i] \in 1..i /\ Fits(SizeOf(t, S[i], i), t)}
<1>3. ASSUME NEW i \in 1..Len(t), i - 1 \in T PROVE i \in T
  <2>1. S[i - 1] \in 1..i /\ (i # 1 => S[i - 1] \in 1..(i - 1))
    BY <1>2, <1>3
  <2>2. ASSUME NEW f \in 1..i
        PROVE  /\ SizeOf(t, f, i) = SizeOf(t, f, i - 1) + t[i] /\ t[i] \in Nat
               /\ {SizeOf(t, f, i), SizeOf(t, f, i - 1)} \subseteq Int
               /\ f = i => SizeOf(t, f, i - 1) = 0
    <3>1. IsStretch(t, f, i) /\ IsStretch(t, f, i - 1) /\ i > 0 /\ t[i] \in Nat
      BY DEF IsStretch
    <3> QED
      BY <3>1, SizeIs
  <2>3. PieceSize \in Nat /\ PieceOverlap \in Nat /\ i \in DOMAIN t
    BY KnowledgeBaseAssumption
  <2>4. CASE TooLong(t, S[i - 1], i)
    <3>1. PICK f : f = Overlap(t, i)
      OBVIOUS
    <3>2. S[i] = f /\ f \in 1..i /\ SizeOf(t, f, i - 1) <= PieceOverlap
      BY <1>2, <2>4, <3>1, OverlapIs
    <3>3. SizeOf(t, f, i) <= PieceOverlap + t[i]
      BY <2>2, <2>3, <3>2
    <3> QED
      BY <2>3, <3>2, <3>3 DEF Fits
  <2>5. CASE ~TooLong(t, S[i - 1], i)
    <3>1. S[i] = S[i - 1]
      BY <1>2, <2>5
    <3>2. CASE S[i] = i
      <4>1. SizeOf(t, i, i) = t[i] /\ t[i] \in Nat
        <5>1. /\ SizeOf(t, i, i) = SizeOf(t, i, i - 1) + t[i] /\ t[i] \in Nat
              /\ SizeOf(t, i, i - 1) = 0
          BY <2>2
        <5> QED
          BY <5>1
      <4>2. SizeOf(t, i, i) <= PieceOverlap + t[i]
        BY <2>3, <4>1
      <4> QED
        BY <2>1, <2>3, <3>1, <3>2, <4>2 DEF Fits
    <3>3. CASE S[i] # i
      <4>1. S[i] < i /\ S[i] \in 1..i
        BY <2>1, <3>1, <3>3
      <4>2. SizeOf(t, S[i], i) <= PieceSize
        <5>1. ~(SizeOf(t, S[i], i) > PieceSize)
          BY <2>5, <3>1, <4>1 DEF TooLong
        <5>2. SizeOf(t, S[i], i) \in Int
          BY <2>2, <4>1
        <5> QED
          BY <2>3, <5>1, <5>2
      <4> QED
        BY <4>1, <4>2 DEF Fits
    <3> QED
      BY <3>2, <3>3
  <2> QED
    BY <2>4, <2>5
<1>4. 0 \in T /\ Len(t) \in Nat
  OBVIOUS
<1> HIDE DEF T
<1>5. \A i \in 0..Len(t) : i \in T
  BY <1>3, <1>4, AllUpTo
<1> QED
  BY <1>1, <1>5 DEF T

-----------------------------------------------------------------------------
(* The pieces. *)

LEMMA PiecesAreRanges ==
  ASSUME NEW t \in Seq(Nat), t # << >>
  PROVE  \A r \in Pieces(t) :
           \E i \in 1..Len(t) : r = <<StartOf(t)[i], i>> /\ r \in Nat \X Nat
<1>1. Len(t) \in 1..Len(t)
  OBVIOUS
<1>2. ASSUME NEW j \in 1..Len(t), TooLong(t, StartOf(t)[j - 1], j)
      PROVE  j - 1 \in 1..Len(t)
  BY <1>2, StartIs DEF TooLong
<1>3. ASSUME NEW r \in Pieces(t)
      PROVE  \E i \in 1..Len(t) : r = <<StartOf(t)[i], i>>
  <2>1. CASE r = <<StartOf(t)[Len(t)], Len(t)>>
    BY <1>1, <2>1
  <2>2. CASE \E j \in 1..Len(t) : /\ TooLong(t, StartOf(t)[j - 1], j)
                                 /\ r = <<StartOf(t)[j - 1], j - 1>>
    BY <1>2, <2>2
  <2> QED
    BY <2>1, <2>2 DEF Pieces
<1> QED
  BY <1>3, StartFits

\* A segment is in the piece that ends before the next cut, or with the text.
LEMMA SegmentIsCovered ==
  ASSUME NEW t \in Seq(Nat), NEW k \in 1..Len(t)
  PROVE  \E r \in Pieces(t) : k \in r[1]..r[2]
<1>1. PICK S : S = StartOf(t)
  OBVIOUS
<1>2. S[k] \in 1..k /\ Len(t) \in Nat
  BY <1>1, StartFits
<1>3. PICK Cuts : Cuts = {j \in (k + 1)..Len(t) : TooLong(t, S[j - 1], j)}
  OBVIOUS
<1>4. PICK e \in k..Len(t) : /\ \A j \in Cuts : e < j
                             /\ <<S[e], e>> \in Pieces(t)
  <2>1. CASE Cuts = {}
    BY <1>1, <1>2, <2>1 DEF Pieces
  <2>2. CASE Cuts # {}
    <3>1. Cuts \in SUBSET Nat
      BY <1>3
    <3>2. PICK j \in Cuts : \A i \in Cuts : j <= i
      BY <2>2, <3>1, LeastOf
    <3>3. j - 1 \in k..Len(t) /\ \A i \in Cuts : j - 1 < i
      BY <1>3, <3>2
    <3>4. j \in 1..Len(t) /\ TooLong(t, StartOf(t)[j - 1], j)
      BY <1>1, <1>3
    <3>5. <<S[j - 1], j - 1>> \in Pieces(t)
      BY <1>1, <3>4 DEF Pieces
    <3> QED
      BY <3>3, <3>5
  <2> QED
    BY <2>1, <2>2
<1> DEFINE T == {i \in 0..(e - k) : S[k + i] = S[k]}
<1>5. ASSUME NEW i \in 1..(e - k), i - 1 \in T PROVE i \in T
  <2>1. k + i \in (k + 1)..Len(t) /\ k + i <= e /\ k + (i - 1) = (k + i) - 1
    BY <1>4
  <2>2. k + i \notin Cuts
    BY <1>4, <2>1
  <2>3. ~TooLong(t, S[(k + i) - 1], k + i)
    BY <1>3, <2>1, <2>2
  <2>4. S[k + i] = S[(k + i) - 1]
    BY <1>1, <2>1, <2>3, StartIs
  <2> QED
    BY <1>5, <2>1, <2>4
<1>6. 0 \in T /\ e - k \in Nat
  BY <1>4
<1> HIDE DEF T
<1>7. \A i \in 0..(e - k) : i \in T
  BY <1>5, <1>6, AllUpTo
<1>8. S[e] = S[k]
  <2>1. e - k \in T /\ k + (e - k) = e
    BY <1>4, <1>6, <1>7
  <2> QED
    BY <2>1 DEF T
<1>9. k \in S[e]..e
  BY <1>2, <1>4, <1>8
<1> QED
  BY <1>4, <1>9

LEMMA PiecesFit ==
  ASSUME NEW t \in SourceTexts
  PROVE  /\ Covers(Pieces(t), t) /\ Pieces(t) \subseteq Nat \X Nat
         /\ \A r \in Pieces(t) : Fits(SizeOf(t, r[1], r[2]), t)
<1>1. t \in Seq(Nat) /\ t # << >> /\ DOMAIN t = 1..Len(t) /\ Len(t) \in Nat
  BY KnowledgeBaseAssumption
<1>2. ASSUME NEW r \in Pieces(t)
      PROVE  /\ r \in Nat \X Nat /\ r[1]..r[2] \subseteq DOMAIN t
             /\ Fits(SizeOf(t, r[1], r[2]), t)
  <2>1. PICK i \in 1..Len(t) : r = <<StartOf(t)[i], i>> /\ r \in Nat \X Nat
    BY <1>1, PiecesAreRanges
  <2>2. StartOf(t)[i] \in 1..i /\ Fits(SizeOf(t, StartOf(t)[i], i), t)
    BY <1>1, StartFits
  <2> QED
    BY <1>1, <2>1, <2>2
<1>3. UNION {r[1]..r[2] : r \in Pieces(t)} = DOMAIN t
  <2>1. \A k \in DOMAIN t : \E r \in Pieces(t) : k \in r[1]..r[2]
    BY <1>1, SegmentIsCovered
  <2> QED
    BY <1>2, <2>1
<1> QED
  BY <1>2, <1>3 DEF Covers

-----------------------------------------------------------------------------
(* Whose chunks are there, however many ingesters there are.               *)

BaseSpec == KnowledgeBaseInit /\ [][KnowledgeBaseNext]_baseVars

StoredChunk == [by : Nat, range : Nat \X Nat]

Ingestion == [at : {"idle", "extract", "store"}, by : Nat, text : SourceTexts \cup {<<>>},
              pieces : SUBSET (Nat \X Nat)]

Ingesting == {i \in Ingesters : ingestion[i].at # "idle"}

\* The chunks of one ingestion, from what it keeps; and what is kept of it.
ChunksOf(n, kept) == {[by |-> n, range |-> p] : p \in kept}
KeptOf(n, some) == {c.range : c \in {d \in some : d.by = n}}

\* An ingestion under way has a number of its own, that no chunk and no report has yet.
IngestionFits(i) ==
  LET job == ingestion[i] IN
  job.at # "idle" =>
    /\ job.by \in 1..ingestions
    /\ \A j \in Ingesting : ingestion[j].by = job.by => i = j
    /\ \A c \in chunks : c.by # job.by
    /\ report # NotYet => report.by # job.by
    /\ job.at = "store" => job.text \in SourceTexts /\ job.pieces = Pieces(job.text)

ReportFits ==
  report # NotYet =>
    /\ report \in [by : 1..ingestions, text : SourceTexts]
    /\ KeptOf(report.by, chunks) = Pieces(report.text)

BaseInv ==
  /\ text \in SourceTexts /\ ingestions \in Nat
  /\ ingestion \in [Ingesters -> Ingestion]
  /\ chunks \in SUBSET StoredChunk
  /\ \A c \in chunks : c.by <= ingestions
  /\ \A i \in Ingesters : IngestionFits(i)
  /\ ReportFits

LEMMA BaseInitially == KnowledgeBaseInit => BaseInv
<1> SUFFICES ASSUME KnowledgeBaseInit PROVE BaseInv
  OBVIOUS
<1>1. NoIngestion \in Ingestion /\ NoIngestion.at = "idle"
  BY DEF NoIngestion, Ingestion
<1>2. /\ ingestion \in [Ingesters -> Ingestion]
      /\ \A i \in Ingesters : ingestion[i].at = "idle"
  BY <1>1 DEF KnowledgeBaseInit
<1> QED
  BY <1>2 DEF KnowledgeBaseInit, BaseInv, IngestionFits, ReportFits

LEMMA ChunksAre ==
  ASSUME NEW some \in SUBSET StoredChunk, NEW n \in Nat, NEW kept \in SUBSET (Nat \X Nat),
         NEW more, more = some \cup ChunksOf(n, kept)
  PROVE  /\ more \in SUBSET StoredChunk
         /\ \A c \in more : c \in some \/ c.by = n
         /\ \A m : m # n => KeptOf(m, more) = KeptOf(m, some)
         /\ (\A c \in some : c.by # n) => KeptOf(n, more) = kept
<1>1. \A c \in ChunksOf(n, kept) : c \in StoredChunk /\ c.by = n /\ c.range \in kept
  BY DEF ChunksOf, StoredChunk
<1>2. \A p \in kept : \E c \in ChunksOf(n, kept) : c.by = n /\ c.range = p
  <2> SUFFICES ASSUME NEW p \in kept
               PROVE  \E c \in ChunksOf(n, kept) : c.by = n /\ c.range = p
    OBVIOUS
  <2>1. PICK c : c = [by |-> n, range |-> p]
    OBVIOUS
  <2>2. c \in ChunksOf(n, kept)
    BY <2>1 DEF ChunksOf
  <2>3. c.by = n /\ c.range = p
    BY <2>1
  <2> QED
    BY <2>2, <2>3
<1>3. ASSUME NEW m, m # n PROVE KeptOf(m, more) = KeptOf(m, some)
  BY <1>1, <1>3 DEF KeptOf
<1>4. ASSUME \A c \in some : c.by # n PROVE KeptOf(n, more) = kept
  BY <1>1, <1>2, <1>4 DEF KeptOf
<1> QED
  BY <1>1, <1>3, <1>4

\* An ingester that stops leaves the others as they fit.
LEMMA IngesterStops ==
  ASSUME BaseInv, NEW i \in Ingesters, ingestion' = [ingestion EXCEPT ![i] = NoIngestion],
         UNCHANGED ingestions
  PROVE  /\ ingestion' \in [Ingesters -> Ingestion]
         /\ ingestion'[i].at = "idle"
         /\ \A j \in Ingesters : j # i => ingestion'[j] = ingestion[j]
         /\ Ingesting' \subseteq Ingesting
<1>1. NoIngestion \in Ingestion /\ NoIngestion.at = "idle"
  BY DEF NoIngestion, Ingestion
<1>2. ingestion \in [Ingesters -> Ingestion]
  BY DEF BaseInv
<1> HIDE DEF NoIngestion
<1>3. /\ ingestion' \in [Ingesters -> Ingestion] /\ ingestion'[i] = NoIngestion
      /\ \A j \in Ingesters : j # i => ingestion'[j] = ingestion[j]
  BY <1>1, <1>2
<1> QED
  BY <1>1, <1>3 DEF Ingesting

LEMMA BeginKeeps ==
  ASSUME BaseInv, NEW i \in Ingesters, NEW force \in BOOLEAN, BeginIngestion(i, force)
  PROVE  BaseInv'
<1>1. PICK job : job = [NoIngestion EXCEPT !.at = "extract", !.by = ingestions']
  OBVIOUS
<1>2. ingestions' = ingestions + 1 /\ ingestions' \in Nat /\ ingestions \in Nat
  BY DEF BaseInv, BeginIngestion
<1>3. job \in Ingestion /\ job.at = "extract" /\ job.by = ingestions'
  BY <1>1, <1>2 DEF NoIngestion, Ingestion
<1>4. ingestion' = [ingestion EXCEPT ![i] = job]
  BY <1>1 DEF BeginIngestion
<1>5. ingestion \in [Ingesters -> Ingestion]
  BY DEF BaseInv
<1>6. /\ ingestion' \in [Ingesters -> Ingestion] /\ ingestion'[i] = job
      /\ \A j \in Ingesters : j # i => ingestion'[j] = ingestion[j]
  BY <1>3, <1>4, <1>5
<1>7. /\ chunks' \subseteq chunks
      /\ report' # NotYet => report' = report /\ report # NotYet /\ chunks' = chunks
  BY DEF BeginIngestion
<1>8. ASSUME NEW j \in Ingesters PROVE IngestionFits(j)'
  <2>1. CASE j = i
    <3>1. \A k \in Ingesters :
            k # i /\ ingestion'[k].at # "idle" => ingestion[k].by # job.by
      BY <1>2, <1>3, <1>6 DEF BaseInv, IngestionFits
    <3>2. \A c \in chunks' : c.by # job.by
      BY <1>2, <1>3, <1>7 DEF BaseInv, StoredChunk
    <3>3. report' # NotYet => report'.by # job.by
      BY <1>2, <1>3, <1>7 DEF BaseInv, ReportFits
    <3> QED
      BY <1>2, <1>3, <1>6, <2>1, <3>1, <3>2, <3>3 DEF IngestionFits, Ingesting
  <2>2. CASE j # i /\ ingestion[j].at # "idle"
    <3>1. IngestionFits(j) /\ ingestion[j].by \in 1..ingestions
      BY <2>2 DEF BaseInv, IngestionFits
    <3>2. \A k \in Ingesting' : ingestion'[k].by = ingestion[j].by => k = j
      <4> SUFFICES ASSUME NEW k \in Ingesting', ingestion'[k].by = ingestion[j].by
                   PROVE  k = j
        OBVIOUS
      <4>1. k # i
        BY <1>2, <1>3, <1>6, <3>1
      <4> QED
        BY <1>6, <2>2, <3>1, <4>1 DEF IngestionFits, Ingesting
    <3> QED
      BY <1>2, <1>6, <1>7, <2>2, <3>1, <3>2 DEF IngestionFits
  <2>3. CASE j # i /\ ingestion[j].at = "idle"
    BY <1>6, <2>3 DEF IngestionFits
  <2> QED
    BY <2>1, <2>2, <2>3
<1>9. ReportFits'
  <2> SUFFICES ASSUME report' # NotYet PROVE ReportFits'
    BY DEF ReportFits
  <2>1. /\ report' \in [by : 1..ingestions, text : SourceTexts]
        /\ KeptOf(report'.by, chunks') = Pieces(report'.text)
    BY <1>7 DEF BaseInv, ReportFits
  <2>2. report' \in [by : 1..ingestions', text : SourceTexts]
    BY <1>2, <2>1
  <2> QED
    BY <2>1, <2>2 DEF ReportFits
<1>10. \A c \in chunks' : c.by <= ingestions'
  BY <1>2, <1>7 DEF BaseInv, StoredChunk
<1> QED
  BY <1>2, <1>6, <1>7, <1>8, <1>9, <1>10 DEF BaseInv, BeginIngestion

LEMMA ExtractKeeps ==
  ASSUME BaseInv, NEW i \in Ingesters, Extract(i)
  PROVE  BaseInv'
<1>1. PICK job : job = [ingestion[i] EXCEPT !.at = "store", !.text = text,
                                            !.pieces = Pieces(text)]
  OBVIOUS
<1>2. /\ ingestion[i] \in Ingestion /\ text \in SourceTexts
      /\ ingestion \in [Ingesters -> Ingestion]
  BY DEF BaseInv
<1>3. Pieces(text) \in SUBSET (Nat \X Nat)
  BY <1>2, PiecesFit
<1>4. /\ job \in Ingestion /\ job.at = "store" /\ job.by = ingestion[i].by
      /\ job.text = text /\ job.pieces = Pieces(text)
  BY <1>1, <1>2, <1>3 DEF Ingestion
<1>5. ingestion' = [ingestion EXCEPT ![i] = job]
  BY <1>1, <1>2 DEF Extract
<1>6. /\ ingestion' \in [Ingesters -> Ingestion] /\ ingestion'[i] = job
      /\ \A j \in Ingesters : j # i => ingestion'[j] = ingestion[j]
  BY <1>2, <1>4, <1>5
<1>7. ingestion[i].at = "extract" /\ UNCHANGED <<text, chunks, ingestions, report>>
  BY DEF Extract
<1>8. \A j \in Ingesters : /\ ingestion'[j].by = ingestion[j].by
                           /\ ingestion'[j].at # "idle" <=> ingestion[j].at # "idle"
  BY <1>4, <1>6, <1>7
<1>9. ASSUME NEW j \in Ingesters PROVE IngestionFits(j)'
  <2>1. IngestionFits(j)
    BY DEF BaseInv
  <2> QED
    BY <1>2, <1>4, <1>6, <1>7, <1>8, <2>1 DEF IngestionFits, Ingesting
<1>10. ReportFits'
  BY <1>7 DEF BaseInv, ReportFits
<1> QED
  BY <1>6, <1>7, <1>9, <1>10 DEF BaseInv

LEMMA StopKeeps ==
  ASSUME BaseInv, NEW i \in Ingesters, FailIngestion(i)
  PROVE  BaseInv'
<1>1. /\ ingestion' = [ingestion EXCEPT ![i] = NoIngestion]
      /\ UNCHANGED <<text, chunks, ingestions, report>>
  BY DEF FailIngestion
<1>2. /\ ingestion' \in [Ingesters -> Ingestion]
      /\ ingestion'[i].at = "idle"
      /\ \A j \in Ingesters : j # i => ingestion'[j] = ingestion[j]
      /\ Ingesting' \subseteq Ingesting
  BY <1>1, IngesterStops
<1>3. ASSUME NEW j \in Ingesters PROVE IngestionFits(j)'
  <2>1. IngestionFits(j)
    BY DEF BaseInv
  <2> QED
    BY <1>1, <1>2, <2>1 DEF IngestionFits, Ingesting
<1>4. ReportFits'
  BY <1>1 DEF BaseInv, ReportFits
<1> QED
  BY <1>1, <1>2, <1>3, <1>4 DEF BaseInv

\* What an ingestion stores has its number and disturbs nobody, whether all of it is
\* stored or some.
LEMMA StoreKeeps ==
  ASSUME BaseInv, NEW i \in Ingesters, ingestion[i].at = "store",
         NEW kept \in SUBSET ingestion[i].pieces,
         chunks' = chunks \cup ChunksOf(ingestion[i].by, kept),
         ingestion' = [ingestion EXCEPT ![i] = NoIngestion],
         UNCHANGED <<text, ingestions>>,
         \/ report' = report
         \/ /\ kept = ingestion[i].pieces
            /\ report' = [by |-> ingestion[i].by, text |-> ingestion[i].text]
  PROVE  BaseInv'
<1>1. /\ ingestion' \in [Ingesters -> Ingestion]
      /\ ingestion'[i].at = "idle"
      /\ \A j \in Ingesters : j # i => ingestion'[j] = ingestion[j]
      /\ Ingesting' \subseteq Ingesting
  BY IngesterStops
<1>2. PICK n : n = ingestion[i].by
  OBVIOUS
<1>3. /\ n \in 1..ingestions /\ n \in Nat /\ ingestions \in Nat
      /\ \A j \in Ingesting : ingestion[j].by = n => i = j
      /\ \A c \in chunks : c.by # n
      /\ report # NotYet => report.by # n
      /\ ingestion[i].text \in SourceTexts
      /\ ingestion[i].pieces = Pieces(ingestion[i].text)
  BY <1>2 DEF BaseInv, IngestionFits
<1>4. kept \in SUBSET (Nat \X Nat) /\ chunks \in SUBSET StoredChunk
  BY DEF BaseInv, Ingestion
<1>5. PICK more : more = chunks \cup ChunksOf(n, kept) /\ chunks' = more
  BY <1>2
<1>6. /\ chunks' \in SUBSET StoredChunk
      /\ \A c \in chunks' : c \in chunks \/ c.by = n
      /\ \A m : m # n => KeptOf(m, chunks') = KeptOf(m, chunks)
      /\ KeptOf(n, chunks') = kept
  BY <1>3, <1>4, <1>5, ChunksAre
<1>7. ASSUME NEW j \in Ingesters PROVE IngestionFits(j)'
  <2>1. CASE j = i
    BY <1>1, <2>1 DEF IngestionFits
  <2>2. CASE j # i /\ ingestion[j].at # "idle"
    <3>1. IngestionFits(j) /\ j \in Ingesting
      BY <2>2 DEF BaseInv, Ingesting
    <3>2. ingestion[j].by # n /\ ingestion'[j] = ingestion[j]
      BY <1>1, <1>3, <2>2, <3>1
    <3>3. \A c \in chunks' : c.by # ingestion[j].by
      BY <1>6, <2>2, <3>1, <3>2 DEF IngestionFits
    <3>4. report' # NotYet => report'.by # ingestion[j].by
      BY <1>2, <2>2, <3>1, <3>2 DEF IngestionFits
    <3>5. \A k \in Ingesting' : ingestion'[k].by = ingestion[j].by => j = k
      BY <1>1, <2>2, <3>1 DEF IngestionFits, Ingesting
    <3> QED
      BY <2>2, <3>1, <3>2, <3>3, <3>4, <3>5 DEF IngestionFits
  <2>3. CASE j # i /\ ingestion[j].at = "idle"
    BY <1>1, <2>3 DEF IngestionFits
  <2> QED
    BY <2>1, <2>2, <2>3
<1>8. ReportFits'
  <2>1. CASE report' = report
    BY <1>3, <1>6, <2>1 DEF BaseInv, ReportFits
  <2>2. CASE kept = ingestion[i].pieces /\ report' = [by |-> n, text |-> ingestion[i].text]
    <3>1. report'.by = n /\ report'.text = ingestion[i].text
      BY <2>2
    <3> QED
      BY <1>3, <1>6, <2>2, <3>1 DEF ReportFits
  <2> QED
    BY <1>2, <2>1, <2>2
<1>9. \A c \in chunks' : c.by <= ingestions
  BY <1>3, <1>6 DEF BaseInv
<1> QED
  BY <1>1, <1>6, <1>7, <1>8, <1>9 DEF BaseInv

LEMMA BaseInvKept == BaseInv /\ [KnowledgeBaseNext]_baseVars => BaseInv'
<1> SUFFICES ASSUME BaseInv, [KnowledgeBaseNext]_baseVars PROVE BaseInv'
  OBVIOUS
<1>1. ASSUME text' \in SourceTexts, UNCHANGED <<chunks, ingestion, ingestions, report>>
      PROVE  BaseInv'
  BY <1>1 DEF BaseInv, IngestionFits, Ingesting, ReportFits
<1>2. CASE Publish
  BY <1>1, <1>2 DEF Publish
<1>3. CASE Retrieve \/ ExpandWithParents \/ AnswerQuestion \/ UNCHANGED baseVars
  BY <1>1, <1>3 DEF Retrieve, ExpandWithParents, AnswerQuestion, baseVars, BaseInv
<1>4. ASSUME NEW i \in Ingesters, SkipSource(i) PROVE BaseInv'
  BY <1>1, <1>4 DEF SkipSource, baseVars, BaseInv
<1>5. ASSUME NEW i \in Ingesters, NEW force \in BOOLEAN, BeginIngestion(i, force)
      PROVE  BaseInv'
  BY <1>5, BeginKeeps
<1>6. ASSUME NEW i \in Ingesters, Extract(i) \/ FailIngestion(i) PROVE BaseInv'
  BY <1>6, ExtractKeeps, StopKeeps
<1>7. ASSUME NEW i \in Ingesters, StoreChunks(i) PROVE BaseInv'
  <2>1. PICK kept \in SUBSET ingestion[i].pieces :
          /\ chunks' = chunks \cup ChunksOf(ingestion[i].by, kept)
          /\ \/ report' = report
             \/ /\ kept = ingestion[i].pieces
                /\ report' = [by |-> ingestion[i].by, text |-> ingestion[i].text]
    BY <1>7, Zenon DEF StoreChunks, ChunksOf
  <2> QED
    BY <1>7, <2>1, StoreKeeps DEF StoreChunks
<1>8. ASSUME NEW i \in Ingesters, TearChunks(i) PROVE BaseInv'
  <2>1. PICK kept \in SUBSET ingestion[i].pieces :
          chunks' = chunks \cup ChunksOf(ingestion[i].by, kept)
    BY <1>8, Zenon DEF TearChunks, ChunksOf
  <2> QED
    BY <1>8, <2>1, StoreKeeps DEF TearChunks
<1> QED
  BY <1>2, <1>3, <1>4, <1>5, <1>6, <1>7, <1>8 DEF KnowledgeBaseNext

LEMMA BaseInvariance == BaseSpec => []BaseInv
<1> QED
  BY BaseInitially, BaseInvKept, PTL DEF BaseSpec

LEMMA ReportIsOfPieces == BaseInv => ReportIsTrue
<1> SUFFICES ASSUME BaseInv, report # NotYet
             PROVE  /\ Covers(Reported, report.text)
                    /\ \A r \in Reported :
                         Fits(SizeOf(report.text, r[1], r[2]), report.text)
  BY DEF ReportIsTrue
<1>1. report.text \in SourceTexts /\ Reported = Pieces(report.text)
  BY DEF BaseInv, ReportFits, Reported, KeptOf
<1> QED
  BY <1>1, PiecesFit

\* However many ingest a source at the same time, and wherever one of them fails: once an
\* ingestion says it stored all, every segment of its text is in a chunk, none too long,
\* until the chunks are deleted to ingest it again.
THEOREM ReportsAreTrue == BaseSpec => []ReportIsTrue
<1> QED
  BY ReportIsOfPieces, BaseInvariance, PTL
-----------------------------------------------------------------------------
(* One ingester.                                                           *)

Inquired == [at : {"expand", "answer"}, cites : SUBSET StoredChunk,
             with : SUBSET StoredChunk]

\* It begins when no chunk is left, and what it stores is all there is.
AloneInv ==
  /\ \A i \in Ingesting : chunks = {}
  /\ OfOneIngestion(chunks)
  /\ question # NotYet => question \in Inquired /\ OfOneIngestion(question.cites)

LEMMA AloneStays ==
  ASSUME AloneInv, UNCHANGED <<chunks, question>>, Ingesting' \subseteq Ingesting
  PROVE  AloneInv'
BY DEF AloneInv, OfOneIngestion

LEMMA AloneStores ==
  ASSUME BaseInv, AloneInv, \A i, j \in Ingesters : i = j,
         NEW i \in Ingesters, ingestion[i].at = "store",
         NEW kept \in SUBSET ingestion[i].pieces,
         chunks' = chunks \cup ChunksOf(ingestion[i].by, kept),
         ingestion' = [ingestion EXCEPT ![i] = NoIngestion], UNCHANGED question
  PROVE  AloneInv'
<1>1. chunks = {}
  BY DEF AloneInv, Ingesting
<1>2. \A c \in chunks' : c.by = ingestion[i].by
  BY <1>1 DEF ChunksOf
<1>3. ingestion'[i].at = "idle"
  BY DEF BaseInv, NoIngestion
<1>4. Ingesting' = {}
  BY <1>3 DEF Ingesting
<1> QED
  BY <1>2, <1>4 DEF AloneInv, OfOneIngestion

LEMMA AloneKept ==
  ASSUME \A i, j \in Ingesters : i = j
  PROVE  BaseInv /\ AloneInv /\ [KnowledgeBaseNext]_baseVars => AloneInv'
<1> SUFFICES ASSUME BaseInv, AloneInv, [KnowledgeBaseNext]_baseVars PROVE AloneInv'
  OBVIOUS
<1>1. ASSUME UNCHANGED <<chunks, ingestion, question>> PROVE AloneInv'
  BY <1>1, AloneStays DEF Ingesting
<1>2. CASE Publish \/ UNCHANGED baseVars \/ \E i \in Ingesters : SkipSource(i)
  BY <1>1, <1>2 DEF Publish, SkipSource, baseVars
<1>3. ASSUME NEW i \in Ingesters, NEW force \in BOOLEAN, BeginIngestion(i, force)
      PROVE  AloneInv'
  <2>1. chunks' = {} /\ UNCHANGED question
    BY <1>3 DEF BeginIngestion
  <2> QED
    BY <2>1 DEF AloneInv, OfOneIngestion
<1>4. ASSUME NEW i \in Ingesters, Extract(i) PROVE AloneInv'
  <2>1. \A j \in Ingesters : ingestion'[j].at # "idle" => ingestion[j].at # "idle"
    BY <1>4 DEF Extract, BaseInv, Ingestion
  <2> QED
    BY <1>4, <2>1, AloneStays DEF Extract, Ingesting
<1>5. ASSUME NEW i \in Ingesters, FailIngestion(i) PROVE AloneInv'
  <2>1. Ingesting' \subseteq Ingesting
    BY <1>5, IngesterStops DEF FailIngestion
  <2> QED
    BY <1>5, <2>1, AloneStays DEF FailIngestion
<1>6. ASSUME NEW i \in Ingesters, StoreChunks(i) PROVE AloneInv'
  <2>1. PICK kept \in SUBSET ingestion[i].pieces :
          chunks' = chunks \cup ChunksOf(ingestion[i].by, kept)
    BY <1>6, Zenon DEF StoreChunks, ChunksOf
  <2> QED
    BY <1>6, <2>1, AloneStores DEF StoreChunks
<1>7. ASSUME NEW i \in Ingesters, TearChunks(i) PROVE AloneInv'
  <2>1. PICK kept \in SUBSET ingestion[i].pieces :
          chunks' = chunks \cup ChunksOf(ingestion[i].by, kept)
    BY <1>7, Zenon DEF TearChunks, ChunksOf
  <2> QED
    BY <1>7, <2>1, AloneStores DEF TearChunks
<1>8. CASE Retrieve
  <2>1. PICK good \in HybridSearch : \E cites \in FirstOf(RerankK, good) :
               question' = [at |-> "expand", cites |-> cites, with |-> {}]
    BY <1>8 DEF Retrieve
  <2>2. PICK cites \in FirstOf(RerankK, good) :
               question' = [at |-> "expand", cites |-> cites, with |-> {}]
    BY <2>1
  <2>3. good \subseteq chunks /\ cites \subseteq good
    BY <2>1, <2>2 DEF HybridSearch, FirstOf
  <2>4. question' \in Inquired /\ question'.cites = cites
    BY <2>2, <2>3 DEF Inquired, BaseInv
  <2>5. UNCHANGED <<chunks, ingestion>>
    BY <1>8 DEF Retrieve
  <2> QED
    BY <2>3, <2>4, <2>5 DEF AloneInv, OfOneIngestion, Ingesting
<1>9. CASE ExpandWithParents
  <2>1. question \in Inquired
    BY <1>9 DEF ExpandWithParents, AloneInv
  <2>2. PICK with \in SUBSET StoredChunk :
          question' = [question EXCEPT !.at = "answer", !.with = with]
    BY <1>9, <2>1 DEF ExpandWithParents, Inquired
  <2>3. question' \in Inquired /\ question'.cites = question.cites
    BY <2>1, <2>2 DEF Inquired
  <2> QED
    BY <1>9, <2>3 DEF ExpandWithParents, AloneInv, OfOneIngestion, Ingesting
<1>10. CASE AnswerQuestion
  BY <1>10 DEF AnswerQuestion, AloneInv, OfOneIngestion, Ingesting
<1> QED
  BY <1>2, <1>3, <1>4, <1>5, <1>6, <1>7, <1>8, <1>9, <1>10 DEF KnowledgeBaseNext

\* With one ingester at a time the chunks of a source, and those an answer cites, come
\* from one ingestion of it and so from one text, however its text changes between them
\* and wherever an ingestion fails.
THEOREM TextIsSearchable ==
  ASSUME \A i, j \in Ingesters : i = j
  PROVE  BaseSpec => []IngestedTextIsSearchable
<1>1. KnowledgeBaseInit => AloneInv
  BY DEF KnowledgeBaseInit, AloneInv, Ingesting, OfOneIngestion, NoIngestion
<1>2. BaseInv /\ AloneInv /\ [KnowledgeBaseNext]_baseVars => AloneInv'
  BY AloneKept
<1>3. BaseInv /\ AloneInv => IngestedTextIsSearchable
  BY ReportIsOfPieces DEF AloneInv, IngestedTextIsSearchable
<1> QED
  BY <1>1, <1>2, <1>3, BaseInvariance, PTL DEF BaseSpec

-----------------------------------------------------------------------------
(* The types of the knowledge base. *)

Asked == [at : {"expand", "answer"}, cites : SUBSET Chunk, with : SUBSET Chunk]

BaseBounded ==
  /\ texts \in 0..MaxTexts /\ ingestions \in 0..MaxIngestions
  /\ chunks \subseteq Chunk
  /\ question # NotYet => question \in Asked /\ question.with \subseteq question.cites

LEMMA ChunksBounded ==
  ASSUME NEW n \in 1..MaxIngestions, NEW kept \in SUBSET (Nat \X Nat)
  PROVE  ChunksOf(n, kept) \subseteq Chunk
BY DEF ChunksOf, Chunk

LEMMA BaseBoundKept ==
  ASSUME BaseInv, BaseBounded, [KnowledgeBaseNext]_baseVars
  PROVE  BaseBounded'
<1>1. MaxTexts \in Nat /\ MaxIngestions \in Nat
  <2>1. {PieceSize, PieceOverlap, SearchK, RerankK, MaxIngestions, MaxTexts} \subseteq Nat
    BY Zenon, KnowledgeBaseAssumption
  <2> QED
    BY <2>1
<1>2. CASE Publish
  <2>1. texts' \in 0..MaxTexts
    BY <1>1, <1>2 DEF Publish, BaseBounded
  <2> QED
    BY <1>2, <2>1 DEF Publish, BaseBounded
<1>3. ASSUME UNCHANGED <<texts, chunks, ingestions, question>> PROVE BaseBounded'
  BY <1>3 DEF BaseBounded
<1>4. ASSUME NEW i \in Ingesters, SkipSource(i) \/ Extract(i) \/ FailIngestion(i)
      PROVE  BaseBounded'
  BY <1>3, <1>4 DEF SkipSource, Extract, FailIngestion, baseVars
<1>5. ASSUME NEW i \in Ingesters, NEW force \in BOOLEAN, BeginIngestion(i, force)
      PROVE  BaseBounded'
  <2>1. ingestions' \in 0..MaxIngestions
    BY <1>1, <1>5 DEF BeginIngestion, BaseBounded
  <2>2. chunks' \subseteq chunks /\ UNCHANGED <<texts, question>>
    BY <1>5 DEF BeginIngestion
  <2> QED
    BY <2>1, <2>2 DEF BaseBounded
<1>6. ASSUME NEW i \in Ingesters, StoreChunks(i) \/ TearChunks(i) PROVE BaseBounded'
  <2>1. PICK kept \in SUBSET ingestion[i].pieces :
          chunks' = chunks \cup ChunksOf(ingestion[i].by, kept)
    BY <1>6, Zenon DEF StoreChunks, TearChunks, ChunksOf
  <2>2. /\ ingestion[i].at # "idle" /\ ingestion[i].pieces \in SUBSET (Nat \X Nat)
        /\ UNCHANGED <<texts, ingestions, question>>
    BY <1>6 DEF StoreChunks, TearChunks, BaseInv, Ingestion
  <2>3. ingestion[i].by \in 1..MaxIngestions
    <3>1. ingestion[i].by \in 1..ingestions
      BY <2>2 DEF BaseInv, IngestionFits
    <3> QED
      BY <1>1, <3>1 DEF BaseBounded
  <2>4. chunks' \subseteq Chunk
    BY <2>1, <2>2, <2>3, ChunksBounded DEF BaseBounded
  <2> QED
    BY <2>2, <2>4 DEF BaseBounded
<1>7. CASE Retrieve
  <2>1. PICK good \in HybridSearch : \E cites \in FirstOf(RerankK, good) :
               question' = [at |-> "expand", cites |-> cites, with |-> {}]
    BY <1>7 DEF Retrieve
  <2>2. PICK cites \in FirstOf(RerankK, good) :
               question' = [at |-> "expand", cites |-> cites, with |-> {}]
    BY <2>1
  <2>3. cites \subseteq chunks
    BY <2>1, <2>2 DEF HybridSearch, FirstOf
  <2>4. question' \in Asked /\ question'.with \subseteq question'.cites
    BY <2>2, <2>3 DEF Asked, BaseBounded
  <2> QED
    BY <1>7, <2>4 DEF Retrieve, BaseBounded
<1>8. CASE ExpandWithParents
  <2>1. question \in Asked
    BY <1>8 DEF ExpandWithParents, BaseBounded
  <2>2. PICK with : /\ with = question.cites \cap chunks
                    /\ question' = [question EXCEPT !.at = "answer", !.with = with]
    BY <1>8 DEF ExpandWithParents
  <2>3. question' \in Asked /\ question'.with \subseteq question'.cites
    BY <2>1, <2>2 DEF Asked
  <2> QED
    BY <1>8, <2>3 DEF ExpandWithParents, BaseBounded
<1>9. CASE AnswerQuestion
  BY <1>9 DEF AnswerQuestion, BaseBounded
<1>10. CASE UNCHANGED baseVars
  BY <1>3, <1>10 DEF baseVars
<1> QED
  BY <1>2, <1>4, <1>5, <1>6, <1>7, <1>8, <1>9, <1>10 DEF KnowledgeBaseNext

(***************************************************************************)
(* Text, chunks, ingestions, the last report and the last question have    *)
(* their types, the report is of an ingestion that was begun, and the text *)
(* a citation shows is of its chunks, for any texts, sizes of a piece and  *)
(* of its overlap, and ingesters (chunk_segments, the ingestion pipeline). *)
(***************************************************************************)
THEOREM BaseTypes == BaseSpec => []KnowledgeBaseTypeOK
<1>1. KnowledgeBaseInit => BaseBounded
  <2>1. {PieceSize, PieceOverlap, SearchK, RerankK, MaxIngestions, MaxTexts} \subseteq Nat
    BY Zenon, KnowledgeBaseAssumption
  <2> QED
    BY <2>1 DEF KnowledgeBaseInit, BaseBounded
<1>2. BaseInv /\ BaseBounded /\ [KnowledgeBaseNext]_baseVars => BaseBounded'
  BY BaseBoundKept
<1>3. BaseInv /\ BaseBounded => KnowledgeBaseTypeOK
  <2> SUFFICES ASSUME BaseInv, BaseBounded PROVE KnowledgeBaseTypeOK
    OBVIOUS
  <2>1. report # NotYet => report.by \in 1..ingestions /\ report.text \in SourceTexts
    BY DEF BaseInv, ReportFits
  <2>2. \A i \in Ingesters : ingestion[i].at \in {"idle", "extract", "store"}
    BY DEF BaseInv, Ingestion
  <2>3. question # NotYet =>
          question.with \subseteq question.cites /\ question.cites \subseteq Chunk
    BY DEF BaseBounded, Asked
  <2> QED
    BY <2>1, <2>2, <2>3 DEF BaseInv, BaseBounded, KnowledgeBaseTypeOK
<1> QED
  BY <1>1, <1>2, <1>3, BaseInvariance, PTL DEF BaseSpec

-----------------------------------------------------------------------------
(* The types of a conversation. *)

FoundCites == Finds \cup {{}}

FindsTyped ==
  /\ evaluation \in [Questions -> {"none", "pending"} \cup Judged]
  /\ \A q \in Questions : inquiry[q].found \in FoundCites
  /\ \A s \in ChatSessions : \A n \in DOMAIN messages[s] :
       messages[s][n].cites \in FoundCites

\* A step of one request that stores no message.
LEMMA FoundKept ==
  ASSUME Shapes, FindsTyped, NEW q \in Questions, NEW x,
         inquiry' = [inquiry EXCEPT ![q] = x], x.found \in FoundCites,
         UNCHANGED <<messages, evaluation>>
  PROVE  FindsTyped'
<1>1. \A p \in Questions : inquiry'[p] = IF p = q THEN x ELSE inquiry[p]
  BY DEF Shapes
<1> QED
  BY <1>1 DEF FindsTyped

LEMMA EndsFound ==
  ASSUME Shapes, FindsTyped, NEW q \in Questions, NEW result, Ends(q, result),
         UNCHANGED <<messages, evaluation>>
  PROVE  FindsTyped'
<1>1. PICK x : x = [NotAsked EXCEPT !.at = "ended", !.on = inquiry[q].on,
                                    !.session = inquiry[q].session, !.result = result]
  OBVIOUS
<1>2. inquiry' = [inquiry EXCEPT ![q] = x]
  BY <1>1, Zenon DEF Ends
<1>3. x.found = {}
  BY <1>1, Zenon DEF NotAsked
<1> QED
  BY <1>2, <1>3, FoundKept DEF FoundCites

\* A step that leaves what was found as it is.
LEMMA OnFound ==
  ASSUME Shapes, FindsTyped, NEW q \in Questions,
         \A p \in Questions : inquiry'[p].found = inquiry[p].found,
         UNCHANGED <<messages, evaluation>>
  PROVE  FindsTyped'
BY DEF FindsTyped

LEMMA MovesFound ==
  ASSUME Shapes, NEW q \in Questions, NEW at, Moves(q, at)
  PROVE  \A p \in Questions : inquiry'[p].found = inquiry[p].found
<1>1. \A p \in Questions : inquiry[p] \in Inquiry
  BY DEF Shapes
<1> QED
  BY <1>1 DEF Moves, Shapes, Inquiry

LEMMA AppendFound ==
  ASSUME Shapes, FindsTyped, NEW q \in Questions, NEW e \in Entries, e.cites \in FoundCites,
         inquiry[q].session \in ChatSessions, Appended(q, e),
         \A p \in Questions : inquiry'[p].found = inquiry[p].found, UNCHANGED evaluation
  PROVE  FindsTyped'
<1> DEFINE s == inquiry[q].session
<1>1. messages[s] \in Seq(Entries) /\ messages'[s] = Append(messages[s], e)
      /\ \A z \in ChatSessions : z # s => messages'[z] = messages[z]
  BY DEF Shapes, Appended
<1>2. ASSUME NEW z \in ChatSessions, NEW n \in DOMAIN messages'[z]
      PROVE  messages'[z][n].cites \in FoundCites
  <2>1. CASE z # s
    BY <1>1, <1>2, <2>1 DEF FindsTyped
  <2>2. CASE z = s
    <3>1. PICK old \in Seq(Entries) : messages[z] = old /\ messages'[z] = Append(old, e)
      BY <1>1, <2>2
    <3>2. messages'[z][n] = e \/ (n \in DOMAIN old /\ messages'[z][n] = old[n])
      BY <1>2, <3>1
    <3> QED
      BY <3>1, <3>2 DEF FindsTyped
  <2> QED
    BY <2>1, <2>2
<1> QED
  BY <1>2 DEF FindsTyped

LEMMA FindsKept ==
  ASSUME ConversationInv, FindsTyped, [ConversationNext]_conversationVars
  PROVE  FindsTyped'
<1>0. Shapes /\ \A q \in Questions : inquiry[q] \in Inquiry /\ InquiryFits(q)
  BY DEF ConversationInv, Shapes
<1>1. ASSUME NEW s \in ChatSessions, NEW o \in Owners, CreateSession(s, o)
      PROVE  FindsTyped'
  BY <1>1 DEF CreateSession, FindsTyped
<1>2. ASSUME NEW s \in ChatSessions, NEW o \in Owners, DeleteSession(s, o)
      PROVE  FindsTyped'
  <2>1. \A z \in ChatSessions : messages'[z] = IF z = s THEN <<>> ELSE messages[z]
    BY <1>0, <1>2 DEF DeleteSession, Shapes
  <2>2. UNCHANGED <<inquiry, evaluation>>
    BY <1>2 DEF DeleteSession
  <2> QED
    BY <2>1, <2>2 DEF FindsTyped
<1>3. ASSUME NEW q \in Questions, NEW on \in {"stream", "chat"}, NEW o \in Owners,
             NEW s \in ChatSessions, Ask(q, on, o, s) \/ AskAfresh(q, on, o, s)
      PROVE  FindsTyped'
  <2>1. PICK x : x = [NotAsked EXCEPT !.at = "find", !.on = on, !.by = o, !.session = s]
    OBVIOUS
  <2>2. inquiry' = [inquiry EXCEPT ![q] = x] /\ UNCHANGED <<messages, evaluation>>
    BY <1>3, <2>1, Zenon DEF Ask, AskAfresh
  <2>3. x.found = {}
    BY <2>1, Zenon DEF NotAsked
  <2> QED
    BY <1>0, <2>2, <2>3, FoundKept DEF FoundCites
<1>4. ASSUME NEW q \in Questions, AskTool(q) PROVE FindsTyped'
  <2>1. PICK x : x = [NotAsked EXCEPT !.at = "admit"]
    OBVIOUS
  <2>2. inquiry' = [inquiry EXCEPT ![q] = x] /\ UNCHANGED <<messages, evaluation>>
    BY <1>4, <2>1, Zenon DEF AskTool
  <2>3. x.found = {}
    BY <2>1, Zenon DEF NotAsked
  <2> QED
    BY <1>0, <2>2, <2>3, FoundKept DEF FoundCites
<1>5. ASSUME NEW q \in Questions, FindSession(q) PROVE FindsTyped'
  <2>1. UNCHANGED <<messages, evaluation>>
    BY <1>5 DEF FindSession
  <2>2. CASE Ends(q, "refused")
    BY <1>0, <2>1, <2>2, EndsFound
  <2>3. CASE inquiry' = [inquiry EXCEPT ![q].at = "append", ![q].by = NoSession]
    <3>1. \A p \in Questions : inquiry'[p].found = inquiry[p].found
      BY <1>0, <2>3 DEF Shapes, Inquiry
    <3> QED
      BY <1>0, <2>1, <3>1, OnFound
  <2> QED
    BY <1>5, <2>2, <2>3 DEF FindSession
<1>6. ASSUME NEW q \in Questions, AddUserMessage(q) PROVE FindsTyped'
  <2>1. /\ inquiry[q].at = "append" /\ Appended(q, Question(q)) /\ Moves(q, "title")
        /\ UNCHANGED evaluation
    BY <1>6 DEF AddUserMessage, Question
  <2>2. inquiry[q].session \in ChatSessions
    BY <1>0, <2>1 DEF InquiryFits, InSession
  <2>3. Question(q) \in Entries /\ Question(q).cites \in FoundCites
    BY DEF Question, Entry, Entries, FoundCites
  <2> HIDE DEF Question
  <2> QED
    BY <1>0, <2>1, <2>2, <2>3, MovesFound, AppendFound
<1>7. ASSUME NEW q \in Questions, ReadTitle(q) \/ CountMessages(q) PROVE FindsTyped'
  <2>1. UNCHANGED <<messages, evaluation>>
    BY <1>7 DEF ReadTitle, CountMessages
  <2>2. PICK at, u : inquiry' = [inquiry EXCEPT ![q].at = at, ![q].untitled = u]
                  \/ inquiry' = [inquiry EXCEPT ![q].untitled = u, ![q].at = at]
    BY <1>7, Zenon DEF ReadTitle, CountMessages
  <2>3. \A p \in Questions : inquiry'[p].found = inquiry[p].found
    BY <1>0, <2>2 DEF Shapes, Inquiry
  <2> QED
    BY <1>0, <2>1, <2>3, OnFound
<1>8. ASSUME NEW q \in Questions, NameSession(q) \/ ReadHistory(q) PROVE FindsTyped'
  <2>1. UNCHANGED <<messages, evaluation>> /\ \E at \in {"history", "admit"} : Moves(q, at)
    BY <1>8 DEF NameSession, ReadHistory
  <2> QED
    BY <1>0, <2>1, MovesFound, OnFound
<1>9. ASSUME NEW q \in Questions, Admit(q) \/ Fail(q) \/ Disconnect(q) PROVE FindsTyped'
  <2>1. UNCHANGED <<messages, evaluation>>
    BY <1>9 DEF Admit, Fail, Disconnect
  <2>2. \/ Moves(q, "retrieve") \/ Moves(q, "ended")
        \/ Ends(q, "refused") \/ Ends(q, "error") \/ Ends(q, "none")
    BY <1>9, Zenon DEF Admit, Fail, Disconnect
  <2> QED
    BY <1>0, <2>1, <2>2, MovesFound, OnFound, EndsFound
<1>10. ASSUME NEW q \in Questions, RetrieveFor(q) PROVE FindsTyped'
  <2>1. PICK found \in Finds :
          inquiry' = [inquiry EXCEPT ![q].found = found,
            ![q].reply = IF Passes(found) THEN "none" ELSE "refusal",
            ![q].at = CASE Passes(found) -> "generate"
                        [] inquiry[q].on = "mcp" -> "tell"
                        [] OTHER -> "store"]
    BY <1>10 DEF RetrieveFor
  <2> DEFINE reply == IF Passes(found) THEN "none" ELSE "refusal"
             at == CASE Passes(found) -> "generate"
                     [] inquiry[q].on = "mcp" -> "tell"
                     [] OTHER -> "store"
  <2>2. inquiry' = [inquiry EXCEPT ![q].found = found, ![q].reply = reply, ![q].at = at]
    BY <2>1
  <2> HIDE DEF reply, at
  <2>3. \A p \in Questions : inquiry'[p].found = IF p = q THEN found ELSE inquiry[p].found
    BY <1>0, <2>2 DEF Shapes, Inquiry
  <2>4. UNCHANGED <<messages, evaluation>>
    BY <1>10 DEF RetrieveFor
  <2> QED
    BY <2>3, <2>4 DEF FindsTyped, FoundCites
<1>11. ASSUME NEW q \in Questions, Generate(q) PROVE FindsTyped'
  <2>1. PICK tags \in Replies :
          inquiry' = [inquiry EXCEPT ![q].tags = tags,
            ![q].reply = IF Discards(q, tags) THEN "refusal" ELSE "real",
            ![q].at = IF inquiry[q].on = "mcp" THEN "evaluate" ELSE "store"]
    BY <1>11 DEF Generate
  <2> DEFINE reply == IF Discards(q, tags) THEN "refusal" ELSE "real"
             at == IF inquiry[q].on = "mcp" THEN "evaluate" ELSE "store"
  <2>2. inquiry' = [inquiry EXCEPT ![q].tags = tags, ![q].reply = reply, ![q].at = at]
    BY <2>1
  <2> HIDE DEF reply, at
  <2>3. \A p \in Questions : inquiry'[p].found = inquiry[p].found
    BY <1>0, <2>2 DEF Shapes, Inquiry
  <2>4. UNCHANGED <<messages, evaluation>>
    BY <1>11 DEF Generate
  <2> QED
    BY <1>0, <2>3, <2>4, OnFound
<1>12. ASSUME NEW q \in Questions, AddAssistantMessage(q) PROVE FindsTyped'
  <2>1. /\ inquiry[q].at = "store" /\ Appended(q, Answer(q)) /\ UNCHANGED evaluation
        /\ \E at \in {"evaluate", "tell"} : Moves(q, at)
    BY <1>12 DEF AddAssistantMessage, Answer
  <2>2. inquiry[q].session \in ChatSessions /\ inquiry[q].reply \in {"refusal", "real"}
    BY <1>0, <2>1 DEF InquiryFits, InSession, Inquiry
  <2>3. Answer(q) \in Entries
    BY <1>0, <2>2 DEF Answer, Entry, Entries, Citations, Inquiry
  <2>4. Answer(q).cites \in FoundCites
    BY DEF Answer, Entry, Citations, FindsTyped, FoundCites
  <2> HIDE DEF Answer
  <2> QED
    BY <1>0, <2>1, <2>2, <2>3, <2>4, MovesFound, AppendFound
<1>13. ASSUME NEW q \in Questions, Tell(q) PROVE FindsTyped'
  <2>1. PICK at : inquiry' = [inquiry EXCEPT ![q].result = "done", ![q].at = at]
    BY <1>13, Zenon DEF Tell
  <2>2. \A p \in Questions : inquiry'[p].found = inquiry[p].found
    BY <1>0, <2>1 DEF Shapes, Inquiry
  <2>3. UNCHANGED <<messages, evaluation>>
    BY <1>13 DEF Tell
  <2> QED
    BY <1>0, <2>2, <2>3, OnFound
<1>14. ASSUME NEW q \in Questions, Evaluate(q) PROVE FindsTyped'
  <2>1. (\E at \in {"ended", "tell"} : Moves(q, at)) /\ UNCHANGED messages
    BY <1>14 DEF Evaluate
  <2>2. \A p \in Questions : inquiry'[p].found = inquiry[p].found
    BY <1>0, <2>1, MovesFound
  <2>3. evaluation' \in {evaluation, [evaluation EXCEPT ![q] = "pending"]}
    BY <1>14 DEF Evaluate
  <2> QED
    BY <2>1, <2>2, <2>3 DEF FindsTyped
<1>15. ASSUME NEW q \in Questions, ScoreResponse(q) PROVE FindsTyped'
  BY <1>15 DEF ScoreResponse, FindsTyped
<1>16. CASE UNCHANGED conversationVars
  BY <1>16 DEF conversationVars, FindsTyped
<1> QED
  BY <1>1, <1>2, <1>3, <1>4, <1>5, <1>6, <1>7, <1>8, <1>9, <1>10, <1>11, <1>12, <1>13,
     <1>14, <1>15, <1>16 DEF ConversationNext

(***************************************************************************)
(* Sessions, messages, requests and evaluations have their types, and a    *)
(* message that is on record cites what one retrieval found, whatever the  *)
(* interleaving of the requests, for any questions, owners, sessions,      *)
(* retrievals and replies (rag_conversation.py, the conversation           *)
(* repository).                                                            *)
(***************************************************************************)
THEOREM ConversationTypes == ConversationSpec => []ConversationTypeOK
<1>1. ConversationInit => FindsTyped
  BY DEF ConversationInit, FindsTyped, FoundCites, NotAsked
<1>2. ConversationInv /\ FindsTyped /\ [ConversationNext]_conversationVars => FindsTyped'
  BY FindsKept
<1>3. ConversationInv /\ FindsTyped => ConversationTypeOK
  <2> SUFFICES ASSUME ConversationInv, FindsTyped PROVE ConversationTypeOK
    OBVIOUS
  <2>0. Shapes
    BY DEF ConversationInv
  <2>1. ASSUME NEW s \in ChatSessions
        PROVE  /\ conversation[s].owner \in Owners \cup {NoSession}
               /\ conversation[s].title \in Questions \cup {NoTitle, Given}
    BY <2>0 DEF Shapes, Titles
  <2>2. ASSUME NEW s \in ChatSessions, NEW n \in DOMAIN messages[s]
        PROVE  messages[s][n] \in [from : {"user", "assistant"}, of : Questions,
                                   kind : {"question", "refusal", "real"},
                                   cites : Finds \cup {{}}]
    <3>1. messages[s][n] \in Entries
      BY <2>0, ElementOfSeq DEF Shapes
    <3>2. messages[s][n].cites \in Finds \cup {{}}
      BY DEF FindsTyped, FoundCites
    <3> QED
      BY <3>1, <3>2 DEF Entries
  <2>3. ASSUME NEW q \in Questions
        PROVE  inquiry[q] \in Inquiry /\ evaluation[q] \in {"none", "pending"} \cup Judged
    BY <2>0 DEF Shapes, FindsTyped
  <2> QED
    BY <2>1, <2>2, <2>3 DEF ConversationTypeOK, Inquiry
<1> QED
  BY <1>1, <1>2, <1>3, ConversationInvariance, PTL DEF ConversationSpec
=============================================================================
