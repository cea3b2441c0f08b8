----------------------------- MODULE ServicesProofs -----------------------------
(***************************************************************************)
(* That the components beside the newsletter run keep their types, each    *)
(* for any instance of it, and so all of them together as MCServices puts  *)
(* them next to each other; and that reranking the discussions only        *)
(* reorders them.                                                          *)
(***************************************************************************)
EXTENDS PipelineProofs, UserProofs, MCServices, Integers, FiniteSetTheorems, TLAPS

-----------------------------------------------------------------------------
(* Well typed, whichever windows are extracted. *)

Entry(documents) == \A i \in DOMAIN documents : i \in Nat /\ documents[i] \subseteq Messages

\* The chunks that are still to be written are of the list.
Working == {t \in Extractor : t.at = "insert" => t.pending \subseteq Indexes(t.list)}

ExtractionTyped ==
  /\ today \in Nat
  /\ parent \in [Windows -> {NoEntry} \cup {ParentOf(l) : l \in SUBSET Messages}]
  /\ DOMAIN chunk = Windows /\ chunk = [w \in Windows |-> chunk[w]]
  /\ DOMAIN download = Windows /\ download = [w \in Windows |-> download[w]]
  /\ \A w \in Windows :
       Entry(chunk[w]) /\ download[w] \in {NoEntry, CutShort} \cup SUBSET Messages
  /\ extractor \in [Extractors -> Working]
  /\ begun \in 0..MaxExtractions /\ outages \in 0..MaxOutages

LEMMA IndexesAreNumbers == AllIndexes \subseteq Nat
<1> SUFFICES ASSUME NEW m \in Messages, NEW l \in SUBSET Messages
             PROVE  ChunkOf(m, l) \in Nat
  BY DEF AllIndexes
<1>1. IsFiniteSet(Messages)
  <2>1. PICK n \in Nat : Messages = 1..n
    BY ExtractionAssumption DEF Messages
  <2> QED
    BY <2>1, FS_Interval
<1>2. IsFiniteSet({k \in l : k < m})
  <2>1. {k \in l : k < m} \subseteq Messages
    OBVIOUS
  <2> QED
    BY <1>1, <2>1, FS_Subset
<1>3. Cardinality({k \in l : k < m}) \in Nat
  BY <1>2, FS_CardinalityType
<1>4. PICK n : n = Cardinality({k \in l : k < m})
  OBVIOUS
<1>5. n \in Nat /\ ChunkSize \in Nat /\ ChunkSize > 0 /\ ChunkOf(m, l) = n \div ChunkSize
  BY <1>3, <1>4, ExtractionAssumption DEF ChunkOf
<1>6. n \div ChunkSize \in Nat
  <2> HIDE DEF ChunkOf
  <2> QED
    BY <1>5
<1> QED
  BY <1>5, <1>6

LEMMA ContentTyped ==
  ASSUME NEW documents, Entry(documents)
  PROVE  Content(documents) \subseteq Messages
BY DEF Entry, Content

LEMMA ExtractorSet ==
  ASSUME ExtractionTyped, NEW p \in Extractors, NEW t,
         extractor[p] \in Working => t \in Working
  PROVE  [extractor EXCEPT ![p] = t] \in [Extractors -> Working]
BY DEF ExtractionTyped

LEMMA ExtractionTypesKept ==
  ASSUME ExtractionTyped, [ExtractionNext]_extractionVars
  PROVE  ExtractionTyped'
<1>1. Idle \in Extractor /\ Idle.at = "idle" /\ AllIndexes \subseteq Nat
  BY IdleTyped, IndexesAreNumbers, ExtractionAssumption
<1>2. ASSUME NEW p \in Extractors
      PROVE  /\ extractor[p] \in Extractor /\ extractor[p] \in Working
              /\ Window(p) \in Windows
             /\ InWindow(Window(p)) \subseteq Messages
             /\ DOMAIN extractor = Extractors
             /\ parent[Window(p)] \in {NoEntry} \cup {ParentOf(l) : l \in SUBSET Messages}
             /\ extractor[p].list \subseteq Messages
  BY DEF ExtractionTyped, Working, Extractor, Window, InWindow
<1>3. ASSUME NEW p \in Extractors, BeginExtraction(p) PROVE ExtractionTyped'
  <2>1. PICK w \in Windows, force \in BOOLEAN : extractor' = [extractor EXCEPT ![p] =
            [Idle EXCEPT !.at = IF force THEN "download" ELSE "look", !.window = w]]
    BY <1>3 DEF BeginExtraction
  <2> DEFINE t == [Idle EXCEPT !.at = IF force THEN "download" ELSE "look", !.window = w]
  <2>2. t \in Working
    BY <1>1 DEF Working, Extractor, ExtractorSteps
  <2> QED
    <3>1. extractor' \in [Extractors -> Working]
      BY <2>1, <2>2, ExtractorSet
    <3>2. begun' \in 0..MaxExtractions
      BY <1>3, ExtractionAssumption DEF BeginExtraction, ExtractionTyped
    <3> QED
      BY <1>3, <3>1, <3>2 DEF BeginExtraction, ExtractionTyped
<1>4. ASSUME NEW p \in Extractors, LookUp(p) PROVE ExtractionTyped'
  <2> DEFINE t == [extractor[p] EXCEPT !.seen = parent[Window(p)],
                     !.at = IF parent[Window(p)] = NoEntry THEN "overlap" ELSE "assemble"]
  <2>1. extractor' = [extractor EXCEPT ![p] = t]
    BY <1>2, <1>4 DEF LookUp, Set, Extractor
  <2>2. t \in Working
    BY <1>2 DEF Working, Extractor, ExtractorSteps
  <2> QED
    BY <1>4, <2>1, <2>2, ExtractorSet DEF LookUp, ExtractionTyped
<1>5. ASSUME NEW p \in Extractors, Assemble(p) PROVE ExtractionTyped'
  <2>1. Content(chunk[Window(p)]) \subseteq Messages
    BY <1>2, ContentTyped DEF ExtractionTyped
  <2> DEFINE hit == Whole(extractor[p].seen, chunk[Window(p)])
             list == IF hit THEN Content(chunk[Window(p)]) ELSE {}
             t == [extractor[p] EXCEPT !.seen = NoEntry, !.list = list,
                                       !.at = IF hit THEN "done" ELSE "overlap"]
  <2>2. extractor' = [extractor EXCEPT ![p] = t]
    BY <1>2, <1>5 DEF Assemble, Extractor
  <2>3. t \in Working
    <3>1. list \subseteq Messages
      BY <2>1
    <3> HIDE DEF hit, list
    <3> QED
      BY <1>2, <3>1 DEF Working, Extractor, ExtractorSteps
  <2> QED
    <3>1. extractor' \in [Extractors -> Working]
      BY <2>2, <2>3, ExtractorSet
    <3> QED
      BY <1>5, <3>1 DEF Assemble, ExtractionTyped
<1>6. ASSUME NEW p \in Extractors, UseOverlap(p) PROVE ExtractionTyped'
  <2> DEFINE found == UNION {Content(chunk[v]) : v \in OverlappingEntries(Window(p))}
  <2>1. OverlappingEntries(Window(p)) \subseteq Windows
    BY DEF OverlappingEntries
  <2>2. found \subseteq Messages
    <3>1. \A v \in Windows : Content(chunk[v]) \subseteq Messages
      BY ContentTyped DEF ExtractionTyped
    <3> QED
      BY <2>1, <3>1
  <2>3. \/ \E v \in Windows :
             Set(p, "list", Content(chunk[v]) \cap InWindow(Window(p)), "delete")
        \/ Set(p, "overlap", found, "download")
    BY <1>6, <2>1 DEF UseOverlap
  <2>4. extractor' \in [Extractors -> Working]
    <3>1. CASE Set(p, "overlap", found, "download")
      <4> DEFINE t == [extractor[p] EXCEPT !.overlap = found, !.at = "download"]
      <4>1. extractor' = [extractor EXCEPT ![p] = t]
        BY <1>2, <3>1 DEF Set, Extractor
      <4>2. t \in Working
        <5> HIDE DEF found
        <5> QED
          BY <1>2, <2>2 DEF Working, Extractor, ExtractorSteps
      <4> QED
        BY <4>1, <4>2, ExtractorSet
    <3>2. ASSUME NEW v \in Windows,
                 Set(p, "list", Content(chunk[v]) \cap InWindow(Window(p)), "delete")
          PROVE  extractor' \in [Extractors -> Working]
      <4> DEFINE list == Content(chunk[v]) \cap InWindow(Window(p))
                 t == [extractor[p] EXCEPT !.list = list, !.at = "delete"]
      <4>1. extractor' = [extractor EXCEPT ![p] = t]
        BY <1>2, <3>2 DEF Set, Extractor
      <4>2. t \in Working
        <5>1. list \subseteq Messages
          BY <1>2
        <5> HIDE DEF list
        <5> QED
          BY <1>2, <5>1 DEF Working, Extractor, ExtractorSteps
      <4> QED
        BY <4>1, <4>2, ExtractorSet
    <3> QED
      BY <2>3, <3>1, <3>2
  <2> QED
    BY <1>6, <2>4 DEF UseOverlap, ExtractionTyped
<1>7. ASSUME NEW p \in Extractors, Download(p) PROVE ExtractionTyped'
  <2>1. extractor' \in [Extractors -> Working]
    <3> DEFINE t == [extractor[p] EXCEPT !.at = "decrypt"]
    <3>1. extractor' = [extractor EXCEPT ![p] = t]
      BY <1>2, <1>7 DEF Download, Goes, Extractor
    <3>2. t \in Working
      BY <1>1, <1>2 DEF Working, Extractor, ExtractorSteps
    <3> QED
      BY <3>1, <3>2, ExtractorSet
  <2>2. Arrived \subseteq Messages
    BY DEF Arrived
  <2> QED
    BY <1>2, <1>7, <2>1, <2>2 DEF Download, ExtractionTyped
<1>8. ASSUME NEW p \in Extractors, Decrypt(p) PROVE ExtractionTyped'
  <2>1. WithOverlap(p) \subseteq Messages
    BY <1>2 DEF WithOverlap
  <2>2. extractor' \in [Extractors -> Working]
    <3> DEFINE t == [extractor[p] EXCEPT !.list = WithOverlap(p), !.overlap = {},
                                       !.at = "delete"]
    <3>1. extractor' = [extractor EXCEPT ![p] = t]
      BY <1>2, <1>8 DEF Decrypt, Extractor
    <3>2. t \in Working
      BY <1>1, <1>2, <2>1 DEF Working, Extractor, ExtractorSteps
    <3> QED
      BY <3>1, <3>2, ExtractorSet
  <2> QED
    BY <1>8, <2>2 DEF Decrypt, ExtractionTyped
<1>9. ASSUME NEW p \in Extractors, ExtractionFails(p) PROVE ExtractionTyped'
  <2>1. extractor' \in [Extractors -> Working]
    <3> DEFINE t == [Idle EXCEPT !.at = "failed"]
    <3>1. extractor' = [extractor EXCEPT ![p] = t]
      BY <1>2, <1>9 DEF ExtractionFails, Extractor
    <3>2. t \in Working
      BY <1>1, <1>2 DEF Working, Extractor, ExtractorSteps
    <3> QED
      BY <3>1, <3>2, ExtractorSet
  <2>2. outages' \in 0..MaxOutages
    BY <1>9, ExtractionAssumption DEF ExtractionFails, Outage, ExtractionTyped
  <2> QED
    BY <1>9, <2>1, <2>2 DEF ExtractionFails, ExtractionTyped
<1>10. ASSUME NEW p \in Extractors, DeleteChunks(p) PROVE ExtractionTyped'
  <2>1. Indexes(extractor[p].list) \subseteq AllIndexes
    BY <1>2, IndexesPossible DEF Extractor
  <2>2. extractor' \in [Extractors -> Working]
    <3> DEFINE t == [extractor[p] EXCEPT !.pending = Indexes(extractor[p].list),
                                       !.at = "insert"]
    <3>1. extractor' = [extractor EXCEPT ![p] = t]
      BY <1>2, <1>10 DEF DeleteChunks, Set, Extractor
    <3>2. t \in Working
      BY <1>1, <1>2, <2>1 DEF Working, Extractor, ExtractorSteps
    <3> QED
      BY <3>1, <3>2, ExtractorSet
  <2>3. Entry(<< >>)
    BY DEF Entry
  <2> QED
    BY <1>2, <1>10, <2>2, <2>3 DEF DeleteChunks, ExtractionTyped
<1>11. ASSUME NEW p \in Extractors, InsertChunk(p) PROVE ExtractionTyped'
  <2> DEFINE old == chunk[Window(p)]
  <2>1. PICK i \in extractor[p].pending :
          /\ chunk' = [chunk EXCEPT ![Window(p)] =
               [j \in DOMAIN old \cup {i} |->
                  IF j \in DOMAIN old THEN old[j] ELSE Chunked(extractor[p].list)[i]]]
          /\ extractor' = [extractor EXCEPT
               ![p].pending = @ \ {i},
               ![p].broken = @ \/ i \in DOMAIN chunk[Window(p)]]
    BY <1>11, <1>2 DEF InsertChunk
  <2>2. extractor' \in [Extractors -> Working]
    <3> DEFINE t == [extractor[p] EXCEPT !.pending = @ \ {i},
                                         !.broken = @ \/ i \in DOMAIN old]
    <3>1. extractor' = [extractor EXCEPT ![p] = t]
      BY <1>2, <2>1 DEF Extractor
    <3>2. (extractor[p].broken \/ i \in DOMAIN old) \in BOOLEAN
      OBVIOUS
    <3>3. t \in Working
      BY <1>2, <3>2 DEF Working, Extractor
    <3> QED
      BY <3>1, <3>3, ExtractorSet
  <2> DEFINE new == [j \in DOMAIN old \cup {i} |->
                       IF j \in DOMAIN old THEN old[j] ELSE Chunked(extractor[p].list)[i]]
  <2>3. Entry(new)
    <3>1. i \in Nat /\ i \in Indexes(extractor[p].list)
      BY <1>1, <1>2, <1>11 DEF Working, Extractor, InsertChunk, At
    <3>2. Chunked(extractor[p].list)[i] \subseteq Messages
      BY <1>2, <3>1 DEF Chunked
    <3> QED
      BY <1>2, <3>1, <3>2 DEF Entry, ExtractionTyped
  <2>4. \A w \in Windows : Entry(chunk'[w])
    BY <1>2, <2>1, <2>3 DEF ExtractionTyped
  <2> QED
    BY <1>2, <1>11, <2>1, <2>2, <2>4 DEF InsertChunk, ExtractionTyped
<1>12. ASSUME NEW p \in Extractors, InsertEnds(p) PROVE ExtractionTyped'
  <2>1. extractor' \in [Extractors -> Working]
    <3> DEFINE t == [extractor[p] EXCEPT !.broken = FALSE,
                          !.at = IF extractor[p].broken THEN "done" ELSE "flip"]
    <3>1. extractor' = [extractor EXCEPT ![p] = t]
      BY <1>2, <1>12 DEF InsertEnds, Set, Extractor
    <3>2. t \in Working
      BY <1>1, <1>2 DEF Working, Extractor, ExtractorSteps
    <3> QED
      BY <3>1, <3>2, ExtractorSet
  <2> QED
    BY <1>12, <2>1 DEF InsertEnds, ExtractionTyped
<1>13. ASSUME NEW p \in Extractors, FlipParent(p) PROVE ExtractionTyped'
  <2>1. extractor' \in [Extractors -> Working]
    <3> DEFINE t == [extractor[p] EXCEPT !.at = "done"]
    <3>1. extractor' = [extractor EXCEPT ![p] = t]
      BY <1>2, <1>13 DEF FlipParent, Goes, Extractor
    <3>2. t \in Working
      BY <1>1, <1>2 DEF Working, Extractor, ExtractorSteps
    <3> QED
      BY <3>1, <3>2, ExtractorSet
  <2>2. ParentOf(extractor[p].list) \in {ParentOf(l) : l \in SUBSET Messages}
    BY <1>2 DEF Extractor
  <2> QED
    BY <1>2, <1>13, <2>1, <2>2 DEF FlipParent, ExtractionTyped
<1>14. ASSUME NEW p \in Extractors, WriteFails(p) PROVE ExtractionTyped'
  <2>1. extractor' \in [Extractors -> Working]
    <3> DEFINE t == [extractor[p] EXCEPT !.pending = {}, !.broken = FALSE,
                                       !.at = "done"]
    <3>1. extractor' = [extractor EXCEPT ![p] = t]
      BY <1>2, <1>14 DEF WriteFails, Extractor
    <3>2. t \in Working
      BY <1>1, <1>2 DEF Working, Extractor, ExtractorSteps
    <3> QED
      BY <3>1, <3>2, ExtractorSet
  <2>2. outages' \in 0..MaxOutages
    BY <1>14, ExtractionAssumption DEF WriteFails, Outage, ExtractionTyped
  <2> QED
    BY <1>14, <2>1, <2>2 DEF WriteFails, ExtractionTyped
<1>15. ASSUME NEW p \in Extractors, ExtractorDies(p) PROVE ExtractionTyped'
  <2>1. extractor' \in [Extractors -> Working]
    <3> DEFINE t == Idle
    <3>1. extractor' = [extractor EXCEPT ![p] = t]
      BY <1>15 DEF ExtractorDies
    <3>2. t \in Working
      BY <1>1, <1>2 DEF Working, Extractor, ExtractorSteps
    <3> QED
      BY <3>1, <3>2, ExtractorSet
  <2>2. outages' \in 0..MaxOutages
    BY <1>15, ExtractionAssumption DEF ExtractorDies, Outage, ExtractionTyped
  <2> QED
    BY <1>2, <1>15, <2>1, <2>2 DEF ExtractorDies, ExtractionTyped
<1>16. ASSUME NEW w \in Windows, DropChunks(w) \/ DropParent(w) PROVE ExtractionTyped'
  <2>1. Entry(<< >>)
    BY DEF Entry
  <2> QED
    BY <1>16, <2>1 DEF DropChunks, DropParent, ExtractionTyped
<1>17. ASSUME NextDay PROVE ExtractionTyped'
  BY <1>17 DEF NextDay, ExtractionTyped
<1>18. ASSUME UNCHANGED extractionVars PROVE ExtractionTyped'
  BY <1>18 DEF extractionVars, ExtractionTyped
<1> QED
  BY <1>3, <1>4, <1>5, <1>6, <1>7, <1>8, <1>9, <1>10, <1>11, <1>12, <1>13, <1>14, <1>15,
     <1>16, <1>17, <1>18
  DEF ExtractionNext

(***************************************************************************)
(* The entries, downloads and extractors keep their types: a parent is     *)
(* that of some list of messages, a chunk and what an extractor returns    *)
(* hold messages, for any windows, messages, extractors, sizes of a chunk  *)
(* and expiries (the extraction cache and its repository).                 *)
(***************************************************************************)
THEOREM ExtractionTypes == ExtractionSpec => []ExtractionTypeOK
<1>1. ExtractionInit => ExtractionTyped
  <2>1. Entry(<< >>)
    BY DEF Entry
  <2> QED
    BY <2>1, IdleTyped, ExtractionAssumption DEF ExtractionInit, ExtractionTyped, Working
<1>2. ExtractionTyped => ExtractionTypeOK
  BY DEF ExtractionTyped, ExtractionTypeOK, Working, Extractor, Entry
<1> QED
  BY <1>1, <1>2, ExtractionTypesKept, PTL DEF ExtractionSpec

-----------------------------------------------------------------------------
(* Calls of a language model. *)

LlmSpec == LlmInit /\ [][LlmNext]_llmVars

Replies == ModelReplies \cup Obstacles("structured")

LlmRequest == [at : {"idle", "try", "wait", "done"}, site : Sites \cup {"none"},
               method : Methods \cup {"none"}, tries : 0..(MaxRetries + 1),
               pause : 0..MaxDelay, reply : Replies \cup {"none"},
               outcome : LlmOutcomes \cup {"none"}]

\* A call that may be tried has a site, and has not been tried too often.
Callable == {r \in LlmRequest :
               r.at \in {"try", "wait"} => r.site \in Sites /\ r.tries <= MaxRetries}

LlmTyped ==
  /\ call \in [Callers -> Callable]
  /\ slept \in [Callers -> Nat]

\* Whatever a method makes of a reply, it is one of the outcomes.
LEMMA OutcomeTyped ==
  ASSUME NEW site \in Sites, NEW method, NEW reply \in Replies
  PROVE  Outcome(site, method, reply) \in LlmOutcomes
<1>1. site \in {"openai", "anthropic", "gemini", "chain"}
  BY LlmAssumption
<1>2. CASE site = "chain"
  BY <1>2 DEF Outcome, Chain, ReplyFails, LlmOutcomes
<1>3. CASE site = "openai"
  BY <1>3 DEF Outcome, OpenAI, OpenAIStructured, OpenAIJson, OpenAIText, LlmOutcomes
<1>4. CASE site = "anthropic"
  BY <1>4
  DEF Outcome, Anthropic, AnthropicStructured, AnthropicJson, AnthropicText, LlmOutcomes
<1>5. CASE site = "gemini"
  BY <1>5 DEF Outcome, Gemini, GeminiJson, GeminiText, LlmOutcomes
<1> QED
  BY <1>1, <1>2, <1>3, <1>4, <1>5

LEMMA PowerOfTwo ==
  ASSUME NEW k \in Nat
  PROVE  2^k \in Nat
<1>1. IsFiniteSet(1..k) /\ Cardinality(1..k) = k
  BY FS_Interval
<1>2. IsFiniteSet(SUBSET (1..k)) /\ Cardinality(SUBSET (1..k)) = 2^k
  BY <1>1, FS_SUBSET
<1> QED
  BY <1>2, FS_CardinalityType

\* A pause is never longer than the longest.
LEMMA DelayBounded ==
  ASSUME NEW n \in Nat \ {0}
  PROVE  Delay(n) \in 0..MaxDelay
<1>1. n - 1 \in Nat
  OBVIOUS
<1>2. 2^(n - 1) \in Nat
  BY <1>1, PowerOfTwo
<1>3. PICK k : k = 2^(n - 1)
  OBVIOUS
<1>4. BaseDelay * k \in Nat
  BY <1>2, <1>3, LlmAssumption
<1> QED
  BY <1>3, <1>4, LlmAssumption DEF Delay

LEMMA OneCallMoves ==
  ASSUME LlmTyped, NEW c \in Callers, NEW r \in Callable,
         call' = [call EXCEPT ![c] = r], slept' \in [Callers -> Nat]
  PROVE  LlmTyped'
BY DEF LlmTyped

LEMMA LlmTypesKept ==
  ASSUME LlmTyped, [LlmNext]_llmVars
  PROVE  LlmTyped'
<1>1. NoCall \in Callable
  BY LlmAssumption DEF NoCall, Callable, LlmRequest
<1>2. ASSUME NEW c \in Callers
      PROVE  /\ call = [b \in Callers |-> call[b]] /\ call[c] \in Callable
             /\ call[c] \in LlmRequest
             /\ slept[c] \in Nat /\ call[c].pause \in Nat
  BY LlmAssumption DEF LlmTyped, Callable, LlmRequest
<1>3. ASSUME NEW c \in Callers, StartRequest(c) PROVE LlmTyped'
  <2>1. PICK site \in Sites : \E method \in MethodsOf(site) :
          call' = [call EXCEPT ![c] =
            [NoCall EXCEPT !.at = "try", !.site = site, !.method = method]]
    BY <1>3 DEF StartRequest
  <2>2. PICK method \in MethodsOf(site) : call' = [call EXCEPT ![c] =
            [NoCall EXCEPT !.at = "try", !.site = site, !.method = method]]
    BY <2>1
  <2>3. method \in Methods
    BY LlmAssumption DEF MethodsOf, Methods
  <2> DEFINE r == [NoCall EXCEPT !.at = "try", !.site = site, !.method = method]
  <2>4. r \in Callable
    <3>1. NoCall \in LlmRequest /\ NoCall.tries = 0 /\ 0 <= MaxRetries
      BY LlmAssumption DEF NoCall, LlmRequest
    <3>2. r \in LlmRequest /\ r.site = site /\ r.tries = NoCall.tries
      BY <2>3, <3>1 DEF LlmRequest
    <3> QED
      BY <3>1, <3>2 DEF Callable
  <2>5. slept' \in [Callers -> Nat]
    BY <1>3 DEF StartRequest, LlmTyped
  <2> QED
    BY <2>2, <2>4, <2>5, OneCallMoves
<1>4. ASSUME NEW c \in Callers, Try(c) PROVE LlmTyped'
  <2> DEFINE Again(reply) ==
               [call[c] EXCEPT !.at = "wait", !.tries = call[c].tries + 1, !.reply = reply,
                               !.pause = Delay(call[c].tries + 1)]
             LastTry(reply) ==
               [call[c] EXCEPT !.at = "done", !.tries = call[c].tries + 1, !.reply = reply,
                               !.outcome = Outcome(call[c].site, call[c].method, reply)]
             Asked == ModelReplies
                        \cup (IF call[c].site = "chain" THEN {}
                              ELSE Obstacles(call[c].method))
  <2>1. PICK reply \in Asked :
          \/ call' = [call EXCEPT ![c] = Again(reply)] /\ call[c].tries + 1 <= MaxRetries
          \/ call' = [call EXCEPT ![c] = LastTry(reply)]
    BY <1>2, <1>4 DEF Try, LlmTyped
  <2>2. reply \in Replies
    BY DEF Replies, Obstacles
  <2>3. call[c].site \in Sites /\ call[c].tries \in Nat /\ call[c].tries <= MaxRetries
    BY <1>2, <1>4, LlmAssumption DEF Try, Callable, LlmRequest
  <2>4. Outcome(call[c].site, call[c].method, reply) \in LlmOutcomes
    BY <2>2, <2>3, OutcomeTyped
  <2>5. Delay(call[c].tries + 1) \in 0..MaxDelay
    BY <2>3, DelayBounded
  <2>6. call[c].tries + 1 <= MaxRetries => Again(reply) \in Callable
    <3>1. ASSUME call[c].tries + 1 <= MaxRetries
          PROVE  call[c].tries + 1 \in 0..(MaxRetries + 1)
      BY <2>3, <3>1, LlmAssumption
    <3>2. PICK pause : pause = Delay(call[c].tries + 1)
      OBVIOUS
    <3>3. PICK tries : tries = call[c].tries + 1
      OBVIOUS
    <3> QED
      BY <1>2, <2>2, <2>3, <2>5, <3>1, <3>2, <3>3 DEF Callable, LlmRequest
  <2>7. LastTry(reply) \in Callable
    <3>1. call[c].tries + 1 \in 0..(MaxRetries + 1)
      BY <2>3, LlmAssumption
    <3>2. PICK outcome : outcome = Outcome(call[c].site, call[c].method, reply)
      OBVIOUS
    <3>3. PICK tries : tries = call[c].tries + 1
      OBVIOUS
    <3> QED
      BY <1>2, <2>2, <2>3, <2>4, <3>1, <3>2, <3>3 DEF Callable, LlmRequest
  <2>8. slept' \in [Callers -> Nat]
    BY <1>4 DEF Try, LlmTyped
  <2> QED
    BY <2>1, <2>6, <2>7, <2>8, OneCallMoves
<1>5. ASSUME NEW c \in Callers, Wake(c) PROVE LlmTyped'
  <2>1. PICK k : k = call[c]
    OBVIOUS
  <2>2. /\ k \in LlmRequest /\ k.site \in Sites /\ k.tries <= MaxRetries
        /\ call = [b \in Callers |-> call[b]]
    BY <1>2, <1>5, <2>1 DEF Wake, Callable
  <2> DEFINE r == [k EXCEPT !.at = "try", !.pause = 0]
  <2>3. call' = [call EXCEPT ![c] = r]
    BY <1>5, <2>1, <2>2 DEF Wake, LlmRequest
  <2>4. 0 \in 0..MaxDelay
    BY LlmAssumption
  <2>5. r \in LlmRequest /\ r.site = k.site /\ r.tries = k.tries
    BY <2>2, <2>4 DEF LlmRequest
  <2>6. r \in Callable
    BY <2>2, <2>5 DEF Callable
  <2>7. slept' \in [Callers -> Nat]
    BY <1>2, <1>5 DEF Wake, LlmTyped
  <2> QED
    BY <2>3, <2>6, <2>7, OneCallMoves
<1>6. ASSUME NEW c \in Callers, Abandon(c) \/ TakeResult(c) PROVE LlmTyped'
  <2>1. slept' \in [Callers -> Nat]
    BY <1>6 DEF Abandon, TakeResult, LlmTyped
  <2> QED
    BY <1>1, <1>6, <2>1, OneCallMoves DEF Abandon, TakeResult
<1>7. ASSUME UNCHANGED llmVars PROVE LlmTyped'
  BY <1>7 DEF llmVars, LlmTyped
<1> QED
  BY <1>3, <1>4, <1>5, <1>6, <1>7 DEF LlmNext

(***************************************************************************)
(* Requests, attempts and delays have their types: no call is attempted    *)
(* more often than its retries allow, and no delay exceeds the longest,    *)
(* though it doubles with every attempt, for any callers and any number of *)
(* retries (the LLM provider and its retry decorator).                     *)
(***************************************************************************)
THEOREM LlmTypes == LlmSpec => []LlmTypeOK
<1>1. LlmInit => LlmTyped
  BY LlmAssumption DEF LlmInit, LlmTyped, NoCall, Callable, LlmRequest
<1>2. LlmTyped => LlmTypeOK
  BY DEF LlmTyped, LlmTypeOK, Callable, LlmRequest, Replies
<1> QED
  BY <1>1, <1>2, LlmTypesKept, PTL DEF LlmSpec

-----------------------------------------------------------------------------
(* The session, the pictures, the translations and the keys. *)

(***************************************************************************)
(* Session store, backup, temporary directory and workers have their       *)
(* types, for any newsletters, workers and sessions (the Beeper session    *)
(* manager).                                                               *)
(***************************************************************************)
THEOREM SessionTypes == SessionSpec => []SessionTypeOK
<1>1. SessionInit => SessionTypeOK
  BY Initially DEF SessionInv
<1> QED
  BY <1>1, TypesKept, PTL DEF SessionSpec

LEMMA MediaTyped ==
  ASSUME ImagesInv, media \subseteq PictureRuns \X Pictures, [ImagesNext]_imageVars
  PROVE  media' \subseteq PictureRuns \X Pictures
<1>1. ASSUME NEW r \in PictureRuns, CopyPicture(r)
      PROVE  media' \subseteq PictureRuns \X Pictures
  <2>1. imageRun[r].todo \subseteq Pictures
    BY DEF ImagesInv, ImageRun
  <2>2. Latest(1, imageRun[r].todo) \subseteq Pictures
    BY <2>1 DEF Latest
  <2> QED
    BY <1>1, <2>2 DEF CopyPicture
<1> QED
  BY <1>1
  DEF ImagesNext, imageVars, ScanMessages, SkipRecorded, DownloadPictures, Describe,
      EndCopying, StoreImage, EndRecording, FailCopy, WriteManifest, FailImages, Associate,
      UpdateDiscussions

(***************************************************************************)
(* Pictures, files and records of the media have their types, for any      *)
(* pictures, discussions and runs (the image extractor and the media       *)
(* repository).                                                            *)
(***************************************************************************)
THEOREM ImagesTypes == ImagesSpec => []ImagesTypeOK
<1> DEFINE Typed == media \subseteq PictureRuns \X Pictures
<1>1. ImagesInit => Typed
  BY DEF ImagesInit
<1>2. ImagesInv /\ Typed /\ [ImagesNext]_imageVars => Typed'
  BY MediaTyped
<1>3. ImagesInv /\ Typed => ImagesTypeOK
  BY DEF ImagesInv, Record, ImageRun, ImagesTypeOK
<1> HIDE DEF Typed
<1> QED
  BY <1>1, <1>2, <1>3, ImagesInvariance, PTL DEF ImagesSpec

(***************************************************************************)
(* Messages, translations and the batches under way have their types, for  *)
(* any chats and any runs that translate the same one (batch translation   *)
(* and its cache).                                                         *)
(***************************************************************************)
THEOREM TranslationTypes == TranslationSpec => []TranslationTypeOK
<1>1. TranslationInv => TranslationTypeOK
  BY DEF TranslationInv, Job, TranslationTypeOK
<1> QED
  BY <1>1, TranslationInvariance, PTL

LEMMA DecryptionTypesKept ==
  ASSUME DecryptionTypeOK, [DecryptionNext]_decryptionVars
  PROVE  DecryptionTypeOK'
<1>1. ASSUME NEW ring \in Keyring, NEW other \in Keyring
      PROVE  OpenedKeys(ring) \in Keyring /\ MergedKeys(ring, other) \in Keyring
  <2>1. Never \in 0..Never
    BY DecryptionAssumption
  <2> QED
    BY <2>1 DEF OpenedKeys, MergedKeys, Keyring
<1>2. /\ Never \in Nat /\ Exported \in Keyring /\ NoKeys \in Keyring
      /\ NoDecryptor \in Decryptor /\ MaxDecryptions \in Nat /\ MaxDeaths \in Nat
  BY IdleDecryptor, DecryptionAssumption
<1>3. /\ keyBackup \in Keyring /\ device \in Keyring
      /\ keyFile # Torn => keyFile \in Keyring
      /\ decryptor \in [Decryptors -> Decryptor] /\ everRead \subseteq Encrypted
      /\ decryptions \in 0..MaxDecryptions /\ deaths \in 0..MaxDeaths
  BY DEF DecryptionTypeOK, Decryptor, DecryptorSteps
\* An extraction that is replaced.
<1>4. ASSUME NEW d \in Decryptors, NEW x \in Decryptor,
             decryptor' = [decryptor EXCEPT ![d] = x], UNCHANGED <<keyBackup, device>>,
             keyFile' # Torn => keyFile' \in Keyring, everRead' \subseteq Encrypted,
             decryptions' \in 0..MaxDecryptions, deaths' \in 0..MaxDeaths
      PROVE  DecryptionTypeOK'
  BY <1>3, <1>4 DEF DecryptionTypeOK, Decryptor, DecryptorSteps
<1>5. ASSUME NEW d \in Decryptors, NEW at \in DecryptorSteps, NEW keys \in Keyring,
             Turns(d, at, keys),
              UNCHANGED <<keyBackup, device, everRead, decryptions, deaths>>,
             keyFile' # Torn => keyFile' \in Keyring
      PROVE  DecryptionTypeOK'
  <2>1. PICK x : x = Became(decryptor[d], at, keys)
    OBVIOUS
  <2>2. decryptor[d] \in Decryptor
    BY <1>3
  <2>3. x \in Decryptor
    BY <2>1, <2>2, BecameIs, Zenon
  <2>4. decryptor' = [decryptor EXCEPT ![d] = x]
    BY <1>3, <1>5, <2>1, <2>2 DEF Turns, Became, Decryptor
  <2> QED
    BY <1>3, <1>4, <1>5, <2>3, <2>4
<1>6. ASSUME NEW d \in Decryptors, BeginDecryption(d) PROVE DecryptionTypeOK'
  <2>1. PICK olm \in {device, NoKeys}, export \in ExportedKeys :
          decryptor' = [decryptor EXCEPT
            ![d] = [NoDecryptor EXCEPT !.at = "fetch", !.olm = olm, !.export = export]]
    BY <1>6 DEF BeginDecryption
  <2>2. PICK x : x = [NoDecryptor EXCEPT !.at = "fetch", !.olm = olm, !.export = export]
    OBVIOUS
  <2>3. olm \in Keyring /\ export \in Keyring
    BY <1>2, <1>3 DEF ExportedKeys
  <2>4. x \in Decryptor
    BY <1>2, <2>2, <2>3 DEF Decryptor, DecryptorSteps
  <2>5. decryptions' \in 0..MaxDecryptions
    BY <1>2, <1>3, <1>6 DEF BeginDecryption
  <2> QED
    BY <1>3, <1>4, <1>6, <2>1, <2>2, <2>4, <2>5 DEF BeginDecryption
<1>7. ASSUME NEW d \in Decryptors, WithoutBackup(d),
             UNCHANGED <<keyBackup, device, keyFile, everRead, decryptions, deaths>>
      PROVE  DecryptionTypeOK'
  BY <1>2, <1>3, <1>5, <1>7 DEF WithoutBackup, Turns, DecryptorSteps
<1>8. ASSUME NEW d \in Decryptors, FetchKeys(d) PROVE DecryptionTypeOK'
  <2>1. PICK fetched \in {NoKeys, OpenedKeys(keyBackup)} : Turns(d, "merge", fetched)
    BY <1>8 DEF FetchKeys, Turns
  <2>2. fetched \in Keyring
    BY <1>1, <1>2, <1>3
  <2> QED
    BY <1>3, <1>5, <1>8, <2>1, <2>2 DEF FetchKeys, DecryptorSteps
<1>9. ASSUME NEW d \in Decryptors, LoadKeyFile(d) PROVE DecryptionTypeOK'
  <2>1. CASE keyFile = Torn
    BY <1>7, <1>9, <2>1 DEF LoadKeyFile
  <2>2. CASE keyFile # Torn
    <3>1. decryptor[d].keys \in Keyring
      BY <1>3 DEF Decryptor
    <3>2. Turns(d, "open", MergedKeys(keyFile, decryptor[d].keys))
      BY <1>9, <2>2 DEF LoadKeyFile, Turns
    <3>3. MergedKeys(keyFile, decryptor[d].keys) \in Keyring
      BY <1>1, <1>3, <2>2, <3>1
    <3> QED
      BY <1>3, <1>5, <1>9, <3>2, <3>3 DEF LoadKeyFile, DecryptorSteps
  <2> QED
    BY <2>1, <2>2
<1>10. ASSUME NEW d \in Decryptors, OpenKeyFile(d) PROVE DecryptionTypeOK'
  <2>1. decryptor[d].keys \in Keyring
    BY <1>3 DEF Decryptor
  <2>2. Turns(d, "write", decryptor[d].keys)
    BY <1>3, <1>10 DEF OpenKeyFile, Turns, Decryptor
  <2> QED
    BY <1>5, <1>10, <2>1, <2>2 DEF OpenKeyFile, DecryptorSteps
<1>11. ASSUME NEW d \in Decryptors, WriteKeyFile(d) PROVE DecryptionTypeOK'
  <2>1. PICK x : x = [decryptor[d] EXCEPT !.at = "decrypt", !.synced = TRUE]
    OBVIOUS
  <2>2. decryptor' = [decryptor EXCEPT ![d] = x]
    BY <1>3, <1>11, <2>1 DEF Decryptor, WriteKeyFile
  <2>3. x \in Decryptor /\ decryptor[d].keys \in Keyring
    BY <1>3, <2>1, WrittenIs DEF Decryptor
  <2> QED
    BY <1>3, <1>4, <1>11, <2>2, <2>3 DEF WriteKeyFile
<1>12. ASSUME NEW d \in Decryptors, DecryptChat(d) PROVE DecryptionTypeOK'
  <2>1. PICK p : p = PlainOf(d)
    OBVIOUS
  <2>2. p \subseteq Encrypted /\ ServerBackup(d) \subseteq Encrypted
    BY <2>1, PlainIs DEF ServerBackup
  <2>3. PICK x : x = IF p = {} THEN NoDecryptor
                     ELSE [decryptor[d] EXCEPT !.at = "done", !.plain = p]
    OBVIOUS
  <2>4. decryptor' = [decryptor EXCEPT ![d] = x]
    BY <1>3, <1>12, <2>1, <2>3 DEF DecryptChat, PlainOf
  <2>5. x \in Decryptor
    BY <1>2, <1>3, <2>2, <2>3 DEF Decryptor, DecryptorSteps
  <2> QED
    BY <1>3, <1>4, <1>12, <2>2, <2>4, <2>5 DEF DecryptChat
<1>13. ASSUME NEW d \in Decryptors, DieDecrypting(d) PROVE DecryptionTypeOK'
  <2>1. deaths' \in 0..MaxDeaths
    BY <1>2, <1>3, <1>13 DEF DieDecrypting
  <2> QED
    BY <1>2, <1>3, <1>4, <1>13, <2>1 DEF DieDecrypting
<1>14. ASSUME NEW s \in MegolmSessions, Upload(s) \/ ShareKey(s) PROVE DecryptionTypeOK'
  <2>1. keyBackup' \in Keyring
    <3>1. keyBackup[s] \in 0..Never
      BY <1>3 DEF Keyring
    <3>2. \A i \in 0..(keyBackup[s] - 1) : i \in 0..Never
      BY <1>2, <3>1
    <3> QED
      BY <1>3, <1>14, <3>2 DEF Upload, ShareKey, Keyring
  <2>2. device' \in Keyring
    <3>1. Never - 1 \in 0..Never
      BY DecryptionAssumption
    <3> QED
      BY <1>3, <1>14, <3>1 DEF Upload, ShareKey, Keyring
  <2> QED
    BY <1>14, <2>1, <2>2 DEF DecryptionTypeOK, Upload, ShareKey
<1>15. CASE NewDevice \/ UNCHANGED decryptionVars
  BY <1>2, <1>15 DEF NewDevice, decryptionVars, DecryptionTypeOK
<1> QED
  BY <1>6, <1>7, <1>8, <1>9, <1>10, <1>11, <1>12, <1>13, <1>14, <1>15
  DEF DecryptionNext, FailFetch, FailWrite

(***************************************************************************)
(* Key stores, backup, devices and the messages that were read have their  *)
(* types, for any sessions, exports and messages (the decryption           *)
(* strategies of the Beeper extractor).                                    *)
(***************************************************************************)
THEOREM DecryptionTypes == DecryptionSpec => []DecryptionTypeOK
<1>1. DecryptionInit => DecryptionTypeOK
  BY IdleDecryptor, DecryptionAssumption
  DEF DecryptionInit, DecryptionTypeOK, Decryptor, DecryptorSteps
<1> QED
  BY <1>1, DecryptionTypesKept, PTL DEF DecryptionSpec

-----------------------------------------------------------------------------
(* Streams, with their bounds. *)

HookState == [status : {"idle"} \cup Waiting \cup Outcomes,
              attempts : 0..(MaxReconnects + 1), watching : BOOLEAN]

StreamBounded ==
  /\ ui \in HookState /\ losses \in 0..MaxLosses
  /\ \A r \in StreamRuns :
       Len(stream[r].queue) <= QueueSize /\ run[r].emitted <= StageEvents

\* What an event does to the queue.
LEMMA QueueKept ==
  ASSUME NEW s \in Flow, Len(s.queue) <= QueueSize
  PROVE  /\ \A event \in Events : /\ Len(Emit(s, event).queue) <= QueueSize
                                  /\ Emit(s, event) \in Flow
         /\ s.queue # << >> => Len(Send(s).queue) <= QueueSize /\ Send(s) \in Flow
         /\ \A b : [s EXCEPT !.closed = b].queue = s.queue
         /\ \A p : [s EXCEPT !.at = p].queue = s.queue
<1>1. Len(s.queue) \in Nat /\ QueueSize \in Nat /\ s.queue \in Seq(Events)
  BY FlowTyped, StreamAssumption
<1>2. ASSUME NEW event \in Events
      PROVE  Len(Emit(s, event).queue) <= QueueSize /\ Emit(s, event) \in Flow
  <2> DEFINE q == Append(s.queue, event)
             t == Append(s.taken, event)
             new == [s EXCEPT !.queue = q, !.taken = t]
  <2>1. q \in Seq(Events) /\ t \in Seq(Events) /\ Len(q) = Len(s.queue) + 1
    BY FlowTyped, AppendProperties
  <2>2. CASE Emit(s, event) \in {s, [s EXCEPT !.full = TRUE]}
    BY <2>2 DEF Flow
  <2>3. CASE Emit(s, event) = new /\ Len(s.queue) # QueueSize
    <3> HIDE DEF q, t
    <3>1. new \in Flow /\ new.queue = q
      BY <2>1 DEF Flow
    <3>2. Len(q) <= QueueSize
      BY <1>1, <2>1, <2>3
    <3> HIDE DEF new
    <3> QED
      BY <2>3, <3>1, <3>2
  <2> QED
    BY <2>2, <2>3 DEF Emit
<1>3. ASSUME s.queue # << >> PROVE Len(Send(s).queue) <= QueueSize /\ Send(s) \in Flow
  <2> DEFINE q == Tail(s.queue)
             t == Append(s.sent, Head(s.queue))
             new == [s EXCEPT !.queue = q, !.sent = t]
  <2>1. /\ q \in Seq(Events) /\ t \in Seq(Events) /\ Len(q) = Len(s.queue) - 1
        /\ Len(s.queue) # 0
    BY <1>1, <1>3, FlowTyped
  <2>2. Send(s) = new
    BY DEF Send
  <2> HIDE DEF q, t
  <2>3. new \in Flow /\ new.queue = q
    BY <2>1 DEF Flow
  <2>4. Len(q) <= QueueSize
    BY <1>1, <2>1
  <2> HIDE DEF new
  <2> QED
    BY <2>2, <2>3, <2>4
<1>4. /\ \A b : [s EXCEPT !.closed = b].queue = s.queue
      /\ \A p : [s EXCEPT !.at = p].queue = s.queue
  BY DEF Flow
<1> QED
  BY <1>2, <1>3, <1>4

\* The end of a run, told through the queue and past it.
LEMMA FarewellKept ==
  ASSUME NEW s \in Flow, Len(s.queue) <= QueueSize, NEW outcome \in Outcomes
  PROVE  /\ Farewell(s, outcome) \in Flow
         /\ Len(Farewell(s, outcome).queue) <= QueueSize
         /\ Len(Failure(s).queue) <= QueueSize
<1>1. ASSUME NEW o \in Outcomes
      PROVE  Farewell(s, o) \in Flow /\ Len(Farewell(s, o).queue) <= QueueSize
  <2>1. Emit(s, o) \in Flow /\ Len(Emit(s, o).queue) <= QueueSize
    BY QueueKept DEF Events
  <2>2. PICK e \in Flow : e = Emit(s, o) /\ Len(e.queue) <= QueueSize
    BY <2>1
  <2>3. [e EXCEPT !.closed = TRUE] \in Flow /\ [e EXCEPT !.closed = TRUE].queue = e.queue
    BY Marked, QueueKept, <2>2
  <2> QED
    BY <2>2, <2>3 DEF Farewell
<1>2. PICK f \in Flow : f = Farewell(s, "error") /\ Len(f.queue) <= QueueSize
  BY <1>1 DEF Outcomes
<1>3. Failure(s) = [f EXCEPT !.sent = Append(f.sent, "error"), !.at = "ended"]
  BY <1>2 DEF Failure
<1>4. Failure(s).queue = f.queue
  BY <1>3 DEF Flow
<1> QED
  BY <1>1, <1>2, <1>4

LEMMA OverQueue == \A p : Len(Over(p).queue) <= QueueSize
BY StreamAssumption DEF Over

\* A step that changes the flow of one run, and those that open one.
QueuesKept == \A q \in StreamRuns : Len(stream'[q].queue) <= QueueSize

LEMMA OneQueue ==
  ASSUME StreamInv, StreamBounded, NEW r \in StreamRuns, NEW x,
         Len(x.queue) <= QueueSize, stream' = [stream EXCEPT ![r] = x]
  PROVE  QueuesKept
BY DEF StreamInv, StreamBounded, QueuesKept

LEMMA OpenedQueue ==
  ASSUME StreamInv, StreamBounded, NEW r \in StreamRuns, NEW reached \in BOOLEAN,
         Opened(r, reached)
  PROVE  /\ QueuesKept
         /\ \A q \in StreamRuns : run'[q].emitted = run[q].emitted
<1>1. PICK swept :
        /\ stream' = [q \in StreamRuns |->
             IF q = r THEN IF reached THEN [Emit(stream[r], "started") EXCEPT !.at = "take"]
                          ELSE Over("gone")
             ELSE [stream[q] EXCEPT !.closed = @ \/ (q \in swept /\ stream[q].at # "gone")]]
        /\ run' = [q \in StreamRuns |->
             IF q = r THEN [run[r] EXCEPT !.task = "running", !.entry = "own"]
             ELSE [run[q] EXCEPT !.entry = Sweep(swept, run, q)]]
  BY DEF Opened
<1>2. ASSUME NEW q \in StreamRuns PROVE Len(stream'[q].queue) <= QueueSize
  <2>1. PICK s \in Flow : s = stream[q] /\ Len(s.queue) <= QueueSize
    BY DEF StreamInv, StreamBounded
  <2>2. CASE q # r
    <3>1. PICK b : stream'[q] = [s EXCEPT !.closed = b]
      BY <1>1, <2>1, <2>2
    <3> QED
      BY <2>1, <3>1, QueueKept
  <2>3. CASE q = r /\ reached
    <3>1. PICK e \in Flow : e = Emit(s, "started") /\ Len(e.queue) <= QueueSize
      BY <2>1, QueueKept DEF Events
    <3>2. stream'[q] = [e EXCEPT !.at = "take"]
      BY <1>1, <2>1, <2>3, <3>1
    <3> QED
      BY <3>1, <3>2, QueueKept
  <2>4. CASE q = r /\ ~reached
    BY <1>1, <2>4, OverQueue
  <2> QED
    BY <2>2, <2>3, <2>4
<1>3. ASSUME NEW q \in StreamRuns PROVE run'[q].emitted = run[q].emitted
  <2>1. run[q] \in Workflow
    BY DEF StreamInv
  <2> QED
    BY <1>1, <2>1 DEF Workflow
<1> QED
  BY <1>2, <1>3 DEF QueuesKept

LEMMA QueueSteps ==
  ASSUME StreamInv, StreamBounded, [StreamNext]_streamVars
  PROVE  QueuesKept
<1>1. ASSUME NEW r \in StreamRuns
      PROVE  stream[r] \in Flow /\ Len(stream[r].queue) <= QueueSize
  BY DEF StreamInv, StreamBounded
<1>2. CASE UNCHANGED stream
  BY <1>1, <1>2 DEF QueuesKept
<1>3. ASSUME NEW r \in StreamRuns, EmitStage(r) PROVE QueuesKept
  BY <1>1, <1>2, <1>3, QueueKept, OneQueue DEF EmitStage, Events
<1>4. ASSUME NEW r \in StreamRuns, Take(r) PROVE QueuesKept
  <2>1. PICK s : s = IF stream[r].queue = << >> THEN stream[r] ELSE Send(stream[r])
    OBVIOUS
  <2>2. stream' = [stream EXCEPT ![r] = [s EXCEPT !.at = "check"]]
    BY <1>4, <2>1 DEF Take
  <2>3. s \in Flow /\ Len(s.queue) <= QueueSize
    BY <1>1, <2>1, QueueKept
  <2>4. Len([s EXCEPT !.at = "check"].queue) <= QueueSize
    BY <2>3, QueueKept
  <2> QED
    BY <2>2, <2>4, OneQueue
<1>5. ASSUME NEW r \in StreamRuns, Check(r) PROVE QueuesKept
  <2>1. CASE run[r].task = "running"
    <3>1. stream' = [stream EXCEPT ![r] = [stream[r] EXCEPT !.at = "take"]]
      BY <1>5, <2>1 DEF Check, StreamInv
    <3> QED
      BY <1>1, <3>1, QueueKept, OneQueue
  <2>2. CASE run[r].task = "error"
    <3>1. stream' = [stream EXCEPT ![r] = Failure(stream[r])]
      BY <1>5, <2>2 DEF Check, StreamInv
    <3>2. Len(Failure(stream[r]).queue) <= QueueSize
      BY <1>1, FarewellKept DEF Outcomes
    <3> QED
      BY <3>1, <3>2, OneQueue
  <2>3. CASE run[r].task \notin {"running", "error"}
    <3>1. stream' = [stream EXCEPT ![r] =
                       [Farewell(stream[r], run[r].task) EXCEPT !.at = "drain"]]
      BY <1>5, <2>3 DEF Check, StreamInv
    <3>2. run[r].task \in Outcomes
      <4>1. run[r].task # "none"
        BY <1>5 DEF StreamInv, RunFits, Check
      <4> QED
        BY <2>3, <4>1 DEF StreamInv, Workflow
    <3>3. PICK f \in Flow :
              f = Farewell(stream[r], run[r].task) /\ Len(f.queue) <= QueueSize
      BY <1>1, <3>2, FarewellKept
    <3>4. Len([f EXCEPT !.at = "drain"].queue) <= QueueSize
      BY <3>3, QueueKept
    <3> QED
      BY <3>1, <3>3, <3>4, OneQueue
  <2> QED
    BY <2>1, <2>2, <2>3
<1>6. ASSUME NEW r \in StreamRuns, Drain(r) PROVE QueuesKept
  <2>1. CASE stream[r].queue # << >>
    <3>1. stream' = [stream EXCEPT ![r] = Send(stream[r])]
      BY <1>6, <2>1 DEF Drain, Drained, StreamInv
    <3> QED
      BY <1>1, <2>1, <3>1, QueueKept, OneQueue
  <2>2. CASE stream[r].queue = << >>
    <3>1. stream' = [stream EXCEPT ![r] = [stream[r] EXCEPT !.at = "ended"]]
      BY <1>6, <2>2 DEF Drain, StreamInv
    <3> QED
      BY <1>1, <3>1, QueueKept, OneQueue
  <2> QED
    BY <2>1, <2>2
<1>7. ASSUME NEW r \in StreamRuns, StreamCancelled(r) \/ ReadEnd(r) PROVE QueuesKept
  BY <1>7, OverQueue, OneQueue DEF StreamCancelled, ReadEnd
<1>8. ASSUME NEW r \in StreamRuns, LoseConnection(r) PROVE QueuesKept
  <2>1. CASE stream' = [stream EXCEPT ![r] = Over("gone")]
    BY <2>1, OverQueue, OneQueue
  <2>2. CASE stream' = [stream EXCEPT ![r] = Gone(@)]
    <3>1. stream' = [stream EXCEPT ![r] = Gone(stream[r])]
      BY <2>2 DEF StreamInv
    <3>2. Gone(stream[r]).queue = << >>
      BY <1>1 DEF Gone, Flow
    <3>3. Len(Gone(stream[r]).queue) <= QueueSize
      BY <3>2, StreamAssumption
    <3> QED
      BY <3>1, <3>3, OneQueue
  <2> QED
    BY <1>8, <2>1, <2>2 DEF LoseConnection
<1>9. ASSUME NEW r \in StreamRuns, OtherRequest(r) PROVE QueuesKept
  <2>1. PICK b : stream' = [stream EXCEPT ![r] = [stream[r] EXCEPT !.closed = b]]
    BY <1>9 DEF OtherRequest, StreamInv
  <2> QED
    BY <1>1, <2>1, QueueKept, OneQueue
<1>10. ASSUME NEW r \in StreamRuns, Accept(r) \/ PostFails(r) PROVE QueuesKept
  BY <1>2, <1>10, OpenedQueue DEF Accept, PostFails
<1> QED
  BY <1>2, <1>3, <1>4, <1>5, <1>6, <1>7, <1>8, <1>9, <1>10
  DEF StreamNext, WorkflowStep, EndpointStep, ReaderStep, EndWorkflow, Retry, ReadEvent,
      ReadAborted, StartStream, Timeout, Cancel, streamVars

LEMMA EmittedKept ==
  ASSUME StreamInv, StreamBounded, [StreamNext]_streamVars
  PROVE  \A q \in StreamRuns : run'[q].emitted <= StageEvents
<1>1. ASSUME NEW r \in StreamRuns
      PROVE  run[r] \in Workflow /\ run[r].emitted \in 0..StageEvents /\ StageEvents \in Nat
  BY StreamAssumption DEF StreamInv, StreamBounded, Workflow
<1>2. CASE UNCHANGED run
  BY <1>1, <1>2
<1>3. ASSUME NEW r \in StreamRuns, NEW x, x.emitted <= StageEvents,
             run' = [run EXCEPT ![r] = x]
      PROVE  \A q \in StreamRuns : run'[q].emitted <= StageEvents
  BY <1>1, <1>3 DEF StreamInv
<1>4. ASSUME NEW r \in StreamRuns, EmitStage(r)
      PROVE  \A q \in StreamRuns : run'[q].emitted <= StageEvents
  <2>1. PICK e : e = IF run[r].entry = "none" THEN "other" ELSE run[r].entry
    OBVIOUS
  <2>2. PICK x : x = [run[r] EXCEPT !.emitted = @ + 1, !.entry = e]
    OBVIOUS
  <2>3. run' = [run EXCEPT ![r] = x] /\ run[r].emitted < StageEvents
    BY <1>4, <2>1, <2>2 DEF EmitStage, StreamInv
  <2>4. x.emitted = run[r].emitted + 1
    BY <1>1, <2>2 DEF Workflow
  <2> QED
    BY <1>1, <1>3, <2>3, <2>4
<1>5. ASSUME NEW r \in StreamRuns,
             \/ EndWorkflow(r) \/ Check(r) \/ Drain(r) \/ StreamCancelled(r)
             \/ LoseConnection(r) \/ OtherRequest(r)
      PROVE  \A q \in StreamRuns : run'[q].emitted <= StageEvents
  <2>1. CASE \E e : run' = [run EXCEPT ![r].entry = e]
    <3>1. PICK e : run' = [run EXCEPT ![r] = [run[r] EXCEPT !.entry = e]]
      BY <2>1 DEF StreamInv
    <3>2. [run[r] EXCEPT !.entry = e].emitted = run[r].emitted
      BY <1>1 DEF Workflow
    <3> QED
      BY <1>1, <1>3, <3>1, <3>2
  <2>2. CASE \E e : run' = [run EXCEPT ![r].task = e]
    <3>1. PICK e : run' = [run EXCEPT ![r] = [run[r] EXCEPT !.task = e]]
      BY <2>2 DEF StreamInv
    <3>2. [run[r] EXCEPT !.task = e].emitted = run[r].emitted
      BY <1>1 DEF Workflow
    <3> QED
      BY <1>1, <1>3, <3>1, <3>2
  <2> QED
    BY <1>2, <1>5, <2>1, <2>2
    DEF EndWorkflow, Check, Drain, StreamCancelled, LoseConnection, OtherRequest
<1>6. ASSUME NEW r \in StreamRuns, Accept(r) \/ PostFails(r)
      PROVE  \A q \in StreamRuns : run'[q].emitted <= StageEvents
  <2>1. run' = run \/ \E reached \in BOOLEAN : Opened(r, reached)
    BY <1>6, Zenon DEF Accept, PostFails
  <2>2. \A q \in StreamRuns : run'[q].emitted = run[q].emitted
    BY <2>1, OpenedQueue, Zenon
  <2> QED
    BY <1>1, <2>2
<1> QED
  BY <1>2, <1>4, <1>5, <1>6
  DEF StreamNext, WorkflowStep, EndpointStep, ReaderStep, Take, Retry, ReadEvent, ReadEnd,
      ReadAborted, StartStream, Timeout, Cancel, streamVars

LEMMA HookKept ==
  ASSUME StreamInv, StreamBounded, [StreamNext]_streamVars
  PROVE  ui' \in HookState /\ losses' \in 0..MaxLosses
<1>1. /\ ui \in HookState /\ losses \in 0..MaxLosses /\ MaxLosses \in Nat
      /\ MaxReconnects \in Nat /\ ui.attempts \in 0..(MaxReconnects + 1)
  BY StreamAssumption DEF StreamBounded, HookState
<1>2. losses' \in 0..MaxLosses
  <2>1. losses' = losses \/ (losses < MaxLosses /\ losses' = losses + 1)
    BY DEF Loses, StreamNext, WorkflowStep, EndpointStep, ReaderStep, EmitStage, EndWorkflow, Take,
           Check, Drain, StreamCancelled, Retry, Accept, ReadEvent, ReadEnd, ReadAborted,
           StartStream, PostFails, LoseConnection, OtherRequest, Timeout, Cancel, streamVars
  <2> QED
    BY <1>1, <2>1
<1>3. ASSUME NEW r, Failed(r) \/ Timeout PROVE ui' \in HookState
  <2>1. CASE ui.attempts < MaxReconnects
    <3>1. PICK n : n = ui.attempts + 1
      OBVIOUS
    <3>2. ui' = [ui EXCEPT !.attempts = n, !.status = "reconnecting"]
      BY <1>3, <2>1, <3>1 DEF Failed, Timeout
    <3>3. n \in 0..(MaxReconnects + 1)
      BY <1>1, <2>1, <3>1
    <3> QED
      BY <1>1, <3>2, <3>3 DEF HookState, Waiting
  <2>2. CASE ~(ui.attempts < MaxReconnects)
    <3>1. PICK n : n = MaxReconnects + 1
      OBVIOUS
    <3>2. ui' = [ui EXCEPT !.attempts = n, !.status = "error", !.watching = FALSE]
      BY <1>3, <2>2, <3>1 DEF Failed, Timeout
    <3>3. n \in 0..(MaxReconnects + 1)
      BY <1>1, <3>1
    <3> QED
      BY <1>1, <3>2, <3>3 DEF HookState, Outcomes
  <2> QED
    BY <2>1, <2>2
<1>4. ASSUME NEW r \in StreamRuns, ReadEvent(r) PROVE ui' \in HookState
  <2>1. PICK event : event = stream[r].sent[conn[r].read + 1]
    OBVIOUS
  <2>2. event \in Events
    <3>1. /\ stream[r].sent \in Seq(Events) /\ Len(stream[r].sent) \in Nat
          /\ conn[r].read \in Nat /\ conn[r].read < Len(stream[r].sent)
      BY <1>4, FlowTyped DEF StreamInv, Connection, ReadEvent
    <3>2. conn[r].read + 1 \in 1..Len(stream[r].sent)
      BY <3>1
    <3> QED
      BY <2>1, <3>1, <3>2
  <2>3. PICK w \in BOOLEAN : w = (ui.watching /\ event \notin Outcomes)
    OBVIOUS
  <2>4. PICK p : p = IF event = "started" THEN "running"
                     ELSE IF event = "stage" THEN ui.status ELSE event
    OBVIOUS
  <2>5. ui' = [ui EXCEPT !.status = p, !.watching = w]
    BY <1>1, <1>4, <2>1, <2>3, <2>4 DEF ReadEvent
  <2>6. p \in {"idle"} \cup Waiting \cup Outcomes
    BY <1>1, <2>2, <2>4 DEF Events, HookState, Waiting
  <2> QED
    BY <1>1, <2>5, <2>6 DEF HookState
<1>5. ASSUME NEW r \in StreamRuns, Accept(r) \/ ReadAborted(r) PROVE ui' \in HookState
  <2>1. 0 \in 0..(MaxReconnects + 1)
    BY <1>1
  <2> QED
    BY <1>1, <1>5, <2>1 DEF Accept, ReadAborted, HookState
<1>6. ASSUME NEW r, StartStream(r) \/ Cancel PROVE ui' \in HookState
  <2>1. 0 \in 0..(MaxReconnects + 1)
    BY <1>1
  <2>2. PICK p \in {"idle", "connecting"}, w \in BOOLEAN :
          ui' = [status |-> p, attempts |-> 0, watching |-> w]
    BY <1>6, Zenon DEF StartStream, Cancel
  <2> QED
    BY <2>1, <2>2 DEF HookState, Waiting
<1>7. ui' \in HookState
  BY <1>1, <1>3, <1>4, <1>5, <1>6
  DEF StreamNext, WorkflowStep, EndpointStep, ReaderStep, EmitStage, EndWorkflow, Take,
      Check, Drain, StreamCancelled, Retry, ReadEnd, PostFails, LoseConnection,
      OtherRequest, streamVars
<1> QED
  BY <1>2, <1>7

(***************************************************************************)
(* The workflows, their queues and the connections that read them keep     *)
(* their types, and no queue is longer than its limit: a full one drops    *)
(* what is put into it, an outcome too, for any runs, events, losses and   *)
(* sizes of a queue (progress_queue.py, the streaming endpoint, the hook   *)
(* in the browser).                                                        *)
(***************************************************************************)
THEOREM StreamTypes == StreamSpec => []StreamTypeOK
<1>1. StreamInit => StreamBounded
  <2> SUFFICES ASSUME StreamInit PROVE StreamBounded
    OBVIOUS
  <2>1. 0 \in 0..(MaxReconnects + 1) /\ 0 \in 0..MaxLosses /\ 0 <= StageEvents
    BY StreamAssumption
  <2> QED
    BY <2>1, OverQueue DEF StreamInit, StreamBounded, HookState
<1>2. StreamInv /\ StreamBounded /\ [StreamNext]_streamVars => StreamBounded'
  BY QueueSteps, EmittedKept, HookKept DEF QueuesKept, StreamBounded
<1>3. StreamInv /\ StreamBounded => StreamTypeOK
  <2> SUFFICES ASSUME StreamInv, StreamBounded PROVE StreamTypeOK
    OBVIOUS
  <2>1. ASSUME NEW r \in StreamRuns
        PROVE  /\ conn[r].read \in 0..Len(stream[r].sent)
               /\ run[r].emitted \in 0..StageEvents
    BY FlowTyped, StreamAssumption
    DEF StreamInv, StreamBounded, Connection, ReaderFits, Workflow
  <2> QED
    BY <2>1 DEF StreamInv, StreamBounded, HookState, Connection, Flow, Workflow,
      StreamTypeOK
<1> QED
  BY <1>1, <1>2, <1>3, StreamInvariance, PTL DEF StreamSpec

-----------------------------------------------------------------------------
EnrichmentBounded ==
  /\ enricher.next \in 1..(Len(Discussions) + 1)
  /\ \A f \in {jsonFile, mdFile} : f # NoNewsletter => DOMAIN f = DOMAIN Bullets
  /\ enrichments \in 0..MaxEnrichments

LEMMA EnrichmentBoundKept ==
  ASSUME EnrichmentInv, EnrichmentBounded, [EnrichmentNext]_enrichmentVars
  PROVE  EnrichmentBounded'
<1>1. /\ enricher \in Enricher /\ DOMAIN enricher.newsletter = DOMAIN Bullets
      /\ Len(Discussions) \in Nat /\ enricher.next \in 1..(Len(Discussions) + 1)
      /\ enrichments \in 0..MaxEnrichments /\ MaxEnrichments \in Nat
      /\ NoEnricher.next = 1 /\ 1 \in 1..(Len(Discussions) + 1)
  BY DiscussionIs, LinkEnrichmentAssumption
  DEF EnrichmentInv, EnrichmentBounded, Enricher, Edition, NoEnricher
<1>2. ASSUME NEW n \in 1..(Len(Discussions) + 1), enricher'.next = n,
             UNCHANGED <<jsonFile, mdFile, enrichments>>
      PROVE  EnrichmentBounded'
  BY <1>2 DEF EnrichmentBounded
<1>3. ASSUME NEW force \in BOOLEAN, BeginEnrichment(force) PROVE EnrichmentBounded'
  <2>1. PICK p : enricher' = [NoEnricher EXCEPT !.at = p]
    BY <1>3 DEF BeginEnrichment
  <2>2. enricher'.next = 1
    BY <2>1 DEF NoEnricher
  <2>3. enrichments' \in 0..MaxEnrichments /\ UNCHANGED <<jsonFile, mdFile>>
    BY <1>1, <1>3 DEF BeginEnrichment
  <2> QED
    BY <1>1, <2>2, <2>3 DEF EnrichmentBounded
<1>4. CASE ExtractLinks
  <2>1. PICK p, l : enricher' = [enricher EXCEPT !.at = p, !.links = l]
    BY <1>4 DEF ExtractLinks
  <2>2. enricher'.next = enricher.next
    BY <1>1, <2>1 DEF Enricher
  <2> QED
    BY <1>1, <1>2, <1>4, <2>2 DEF ExtractLinks
<1>5. CASE SearchDiscussion
  <2>1. PICK n, l : /\ n = enricher.next + 1
                    /\ enricher' = [enricher EXCEPT !.next = n, !.links = l]
    BY <1>5 DEF SearchDiscussion
  <2>2. enricher'.next = n
    BY <1>1, <2>1 DEF Enricher
  <2>3. n \in 1..(Len(Discussions) + 1)
    BY <1>1, <1>5, <2>1 DEF SearchDiscussion
  <2> QED
    BY <1>2, <1>5, <2>2, <2>3 DEF SearchDiscussion
<1>6. CASE EndSearch \/ AggregateLinks
  <2>1. PICK p : enricher' = [enricher EXCEPT !.at = p]
    BY <1>6 DEF EndSearch, AggregateLinks
  <2>2. enricher'.next = enricher.next
    BY <1>1, <2>1 DEF Enricher
  <2> QED
    BY <1>1, <1>2, <1>6, <2>2 DEF EndSearch, AggregateLinks
<1>7. CASE CopyNewsletter \/ InsertLinks
  <2>1. PICK n : enricher' = [enricher EXCEPT !.at = "json", !.newsletter = n]
    BY <1>7 DEF CopyNewsletter, InsertLinks
  <2>2. enricher'.next = enricher.next
    BY <1>1, <2>1 DEF Enricher
  <2> QED
    BY <1>1, <1>2, <1>7, <2>2 DEF CopyNewsletter, InsertLinks
<1>8. CASE SaveJson \/ SaveMarkdown
  <2>1. PICK p : enricher' = [enricher EXCEPT !.at = p]
    BY <1>8 DEF SaveJson, SaveMarkdown
  <2>2. enricher'.next = enricher.next
    BY <1>1, <2>1 DEF Enricher
  <2>3. /\ jsonFile' \in {jsonFile, enricher.newsletter}
        /\ mdFile' \in {mdFile, enricher.newsletter} /\ enrichments' = enrichments
    BY <1>8 DEF SaveJson, SaveMarkdown
  <2> QED
    BY <1>1, <2>2, <2>3 DEF EnrichmentBounded
<1>9. CASE FailEnrichment
  BY <1>1, <1>2, <1>9 DEF FailEnrichment
<1>10. CASE UNCHANGED enrichmentVars
  BY <1>10 DEF enrichmentVars, EnrichmentBounded
<1> QED
  BY <1>3, <1>4, <1>5, <1>6, <1>7, <1>8, <1>9, <1>10 DEF EnrichmentNext

(***************************************************************************)
(* The enricher and its editions keep their types: it never goes past the  *)
(* last discussion, and an edition, in memory or in a file, has all the    *)
(* bullets of the newsletter and no others, for any links, discussions,    *)
(* searches and answers (the link enricher).                               *)
(***************************************************************************)
THEOREM EnrichmentTypes == EnrichmentSpec => []EnrichmentTypeOK
<1>1. EnrichmentInit => EnrichmentBounded
  BY DiscussionIs, LinkEnrichmentAssumption
  DEF EnrichmentInit, EnrichmentBounded, NoEnricher
<1>2. EnrichmentInv /\ EnrichmentBounded /\ [EnrichmentNext]_enrichmentVars
        => EnrichmentBounded'
  BY EnrichmentBoundKept
<1>3. EnrichmentInv /\ EnrichmentBounded => EnrichmentTypeOK
  BY DEF EnrichmentInv, EnrichmentBounded, Enricher, Edition, EnrichmentTypeOK
<1> QED
  BY <1>1, <1>2, <1>3, EnrichmentInvariance, PTL DEF EnrichmentSpec

-----------------------------------------------------------------------------
-----------------------------------------------------------------------------
(* The order of diversity. *)

LEMMA GreatestInt ==
  ASSUME NEW T \in SUBSET Int, T # {}, IsFiniteSet(T)
  PROVE  \E x \in T : \A y \in T : y <= x
<1>1. CASE T \cap Nat # {}
  <2>1. PICK x \in T \cap Nat : \A y \in T \cap Nat : y <= x
    <3>1. T \cap Nat \in SUBSET Nat /\ IsFiniteSet(T \cap Nat)
      BY FS_Subset
    <3> QED
      BY <1>1, <3>1, GreatestOf
  <2>2. \A y \in T : y \in Nat \/ y < 0
    OBVIOUS
  <2> QED
    BY <2>1, <2>2
<1>2. CASE T \cap Nat = {}
  <2> DEFINE M == {-y : y \in T}
  <2>1. \A y \in T : y < 0
    BY <1>2
  <2>2. M \in SUBSET Nat /\ M # {}
    <3>1. \A y \in T : -y \in Nat
      BY <2>1
    <3> QED
      BY <3>1
  <2>3. PICK m \in M : \A n \in M : m <= n
    <3> HIDE DEF M
    <3> QED
      BY <2>2, LeastOf
  <2>4. PICK x \in T : m = -x
    OBVIOUS
  <2>5. \A y \in T : -x <= -y
    BY <2>3, <2>4
  <2> QED
    BY <2>5
<1> QED
  BY <1>1, <1>2

\* The highest score is one of them, and what the similarities are multiplied by is a
\* number.
LEMMA TopIs ==
  ASSUME SelectionAssumption, NEW list \in Seq(Entries), list # << >>
  PROVE  TopScore(list) \in Int /\ Unit(list) \in Int
<1> DEFINE scores == {r.score : r \in ToSet(list)}
<1>1. \A r \in ToSet(list) : r.score \in Scores
  <2>1. \A i \in DOMAIN list : list[i] \in Entries
    OBVIOUS
  <2>2. \A r \in Entries : r.score \in Scores
    BY DEF Entries
  <2> QED
    BY <2>1, <2>2, ToSetIs
<1>2. Scores \in SUBSET Int /\ IsFiniteSet(Scores)
  BY DEF SelectionAssumption
<1>3. scores \in SUBSET Int /\ IsFiniteSet(scores)
  <2>1. scores \in SUBSET Scores
    BY <1>1
  <2> HIDE DEF scores
  <2> QED
    BY <1>2, <2>1, FS_Subset
<1>4. scores # {}
  <2>1. list[1] \in ToSet(list)
    BY DEF ToSet
  <2> QED
    BY <2>1
<1>5. PICK n \in scores : \A m \in scores : m <= n
  <2> HIDE DEF scores
  <2> QED
    BY <1>3, <1>4, GreatestInt
<1>6. n \in Scores /\ (\E r \in ToSet(list) : r.score = n)
      /\ \A r \in ToSet(list) : r.score <= n
  BY <1>1, <1>5
<1> DEFINE highest == CHOOSE k \in Scores : /\ \E r \in ToSet(list) : r.score = k
                                            /\ \A r \in ToSet(list) : r.score <= k
<1>7. highest \in Scores
  BY <1>6
<1> HIDE DEF highest
<1>8. TopScore(list) = highest
  BY DEF TopScore, highest
<1> QED
  BY <1>2, <1>7, <1>8 DEF Unit

\* There is a best of what remains.
LEMMA BestRemains ==
  ASSUME SelectionAssumption, NEW list \in Seq(Entries), NEW taken, NEW like,
         NEW k \in DOMAIN list \ ToSet(taken)
  PROVE  Best(list, taken, Lambda, like) \in DOMAIN list \ ToSet(taken)
<1> DEFINE rest == DOMAIN list \ ToSet(taken)
           v == [i \in rest |-> Value(list, taken, i, Lambda, like)]
           values == {v[i] : i \in rest}
<1>1. /\ rest \in SUBSET Nat /\ rest # {} /\ IsFiniteSet(rest)
  <2>1. Len(list) \in Nat /\ DOMAIN list = 1..Len(list)
    OBVIOUS
  <2>2. rest \in SUBSET (1..Len(list)) /\ IsFiniteSet(1..Len(list))
    BY <2>1, FS_Interval
  <2>3. IsFiniteSet(rest)
    <3> HIDE DEF rest
    <3> QED
      BY <2>2, FS_Subset
  <2> QED
    BY <2>1, <2>3
<1>2. \A i \in rest : v[i] \in Int
  <2> SUFFICES ASSUME NEW i \in rest PROVE v[i] \in Int
    OBVIOUS
  <2>1. TopScore(list) \in Int /\ Unit(list) \in Int
    <3>1. list # << >>
      OBVIOUS
    <3> QED
      BY <3>1, TopIs
  <2>2. Quality(list, i) \in Int
    <3>1. list[i] \in Entries
      OBVIOUS
    <3>2. list[i].score \in Scores /\ Scores \subseteq Int
      BY <3>1 DEF Entries, SelectionAssumption
    <3>3. list[i].score \in Int
      BY <3>2, Zenon
    <3>4. 0 \in Int
      OBVIOUS
    <3> QED
      BY <3>3, <3>4, Zenon DEF Quality
  <2>3. Penalty(list, taken, i, like) \in Int
    BY DEF Penalty
  <2>4. Lambda \in Int /\ 10 - Lambda \in Int
    BY DEF SelectionAssumption
  <2>5. /\ Lambda * Quality(list, i) \in Int
        /\ (10 - Lambda) * Unit(list) \in Int
    BY <2>1, <2>2, <2>4
  <2>6. (10 - Lambda) * Unit(list) * Penalty(list, taken, i, like) \in Int
    BY <2>3, <2>5
  <2>7. v[i] = Lambda * Quality(list, i)
                 - (10 - Lambda) * Unit(list) * Penalty(list, taken, i, like)
    BY DEF Value
  <2> QED
    BY <2>5, <2>6, <2>7
<1>3. PICK most \in values : \A w \in values : w <= most
  <2>1. values \in SUBSET Int /\ values # {}
    BY <1>1, <1>2
  <2>2. IsFiniteSet(values)
    <3>1. v \in [rest -> values] /\ \A w \in values : \E i \in rest : v[i] = w
      OBVIOUS
    <3> HIDE DEF rest, v, values
    <3>2. v \in Surjection(rest, values)
      BY <3>1 DEF Surjection
    <3> QED
      BY <1>1, <3>2, FS_Surjection
  <2> HIDE DEF values
  <2> QED
    BY <2>1, <2>2, GreatestInt
<1> DEFINE equals == {i \in rest : v[i] = most}
<1>4. PICK b \in equals : \A i \in equals : b <= i
  <2>1. equals \in SUBSET Nat /\ equals # {}
    BY <1>1
  <2> HIDE DEF equals
  <2> QED
    BY <2>1, LeastOf
<1> DEFINE Is(i) == \A j \in rest :
                      \/ Value(list, taken, i, Lambda, like) > Value(list, taken, j, Lambda, like)
                      \/ /\ Value(list, taken, i, Lambda, like) = Value(list, taken, j, Lambda, like)
                         /\ i <= j
<1>5. b \in rest /\ Is(b)
  <2> SUFFICES ASSUME NEW j \in rest
               PROVE  \/ v[b] > v[j]
                      \/ v[b] = v[j] /\ b <= j
    BY <1>4
  <2>1. v[b] = most /\ b \in rest /\ v[j] <= most /\ v[j] \in Int /\ v[b] \in Int
    BY <1>2, <1>3, <1>4
  <2>2. v[j] = most => b <= j
    BY <1>4
  <2> HIDE DEF v
  <2> QED
    BY <2>1, <2>2
<1>6. Best(list, taken, Lambda, like) = CHOOSE i \in rest : Is(i)
  BY DEF Best
<1> HIDE DEF Is
<1> QED
  BY <1>5, <1>6

TakenUpTo(list, like, f, n) ==
  IF n = 0 THEN << >> ELSE Append(f[n - 1], Best(list, f[n - 1], Lambda, like))

LEMMA TakenExists ==
  ASSUME NEW list, NEW like
  PROVE  \A n \in Nat : \E f : f = [k \in 0..n |-> TakenUpTo(list, like, f, k)]
<1> DEFINE T == {n \in Nat : ~ \E f : f = [k \in 0..n |-> TakenUpTo(list, like, f, k)]}
<1> SUFFICES ASSUME T # {} PROVE FALSE
  OBVIOUS
<1>1. PICK n \in T : \A m \in T : n <= m
  <2>1. T \in SUBSET Nat
    OBVIOUS
  <2> HIDE DEF T
  <2> QED
    BY <2>1, LeastOf
<1>2. CASE n = 0
  <2>1. PICK f : f = [k \in 0..0 |-> << >>]
    OBVIOUS
  <2>2. f = [k \in 0..0 |-> TakenUpTo(list, like, f, k)]
    BY <2>1 DEF TakenUpTo
  <2> QED
    BY <1>1, <1>2, <2>2
<1>3. CASE n # 0
  <2>1. n - 1 \in Nat /\ n - 1 \notin T
    BY <1>1, <1>3
  <2>2. PICK f : f = [k \in 0..(n - 1) |-> TakenUpTo(list, like, f, k)]
    BY <2>1
  <2>3. PICK g : g = [k \in 0..n |-> IF k = n THEN TakenUpTo(list, like, f, n) ELSE f[k]]
    OBVIOUS
  <2>4. ASSUME NEW k \in 0..n PROVE g[k] = TakenUpTo(list, like, g, k)
    <3>1. CASE k = 0
      <4>1. 0 \in 0..(n - 1) /\ 0 \in 0..n
        BY <2>1
      <4>2. f[0] = << >>
        BY <2>2, <4>1 DEF TakenUpTo
      <4>3. g[0] = f[0]
        BY <1>3, <2>3, <4>1
      <4> QED
        BY <3>1, <4>2, <4>3 DEF TakenUpTo
    <3>2. CASE k # 0
      <4>1. k - 1 \in 0..(n - 1) /\ g[k - 1] = f[k - 1] /\ n \in Nat
        BY <1>1, <2>3, <3>2
      <4>2. g[k] = TakenUpTo(list, like, f, k)
        <5>1. CASE k = n
          BY <2>3, <5>1
        <5>2. CASE k # n
          <6>1. k \in 0..(n - 1) /\ g[k] = f[k]
            BY <2>3, <4>1, <5>2
          <6> QED
            BY <2>2, <6>1
        <5> QED
          BY <5>1, <5>2
      <4> QED
        BY <3>2, <4>1, <4>2 DEF TakenUpTo
    <3> QED
      BY <3>1, <3>2
  <2>5. g = [k \in 0..n |-> TakenUpTo(list, like, g, k)]
    <3>1. g = [k \in 0..n |-> g[k]]
      BY <2>3
    <3> QED
      BY <2>4, <3>1
  <2> QED
    BY <1>1, <2>5
<1> QED
  BY <1>2, <1>3

\* A sequence of n different places of a list.
Places(list, n) ==
  {s \in [1..n -> DOMAIN list] : \A i, j \in 1..n : s[i] = s[j] => i = j}

\* As long as places are left, the best of them is one more.
LEMMA OnePlaceMore ==
  ASSUME SelectionAssumption, NEW list \in Seq(Entries), NEW like, NEW n \in Nat,
         n < Len(list), NEW s \in Places(list, n)
  PROVE  Append(s, Best(list, s, Lambda, like)) \in Places(list, n + 1)
<1>1. /\ Len(list) \in Nat /\ DOMAIN list = 1..Len(list)
      /\ s \in [1..n -> DOMAIN list] /\ DOMAIN s = 1..n
      /\ s \in Seq(DOMAIN list) /\ Len(s) = n
      /\ \A i, j \in 1..n : s[i] = s[j] => i = j
  <2>1. s \in [1..n -> DOMAIN list] /\ \A i, j \in 1..n : s[i] = s[j] => i = j
    BY DEF Places
  <2>2. Len(list) \in Nat /\ DOMAIN list = 1..Len(list)
    OBVIOUS
  <2>3. s \in Seq(DOMAIN list) /\ Len(s) = n /\ DOMAIN s = 1..n
    BY <2>1, MakesSeq
  <2> QED
    BY <2>1, <2>2, <2>3
<1>2. ToSet(s) \subseteq DOMAIN list /\ \A i \in 1..n : s[i] \in ToSet(s)
  BY <1>1, ToSetIs
<1>3. ToSet(s) # DOMAIN list
  <2> SUFFICES ASSUME ToSet(s) = DOMAIN list PROVE FALSE
    OBVIOUS
  <2>1. \A k \in DOMAIN list : \E i \in 1..n : s[i] = k
    BY <1>1, ToSetIs
  <2>2. s \in Surjection(1..n, DOMAIN list)
    BY <1>1, <2>1 DEF Surjection
  <2>3. IsFiniteSet(1..n) /\ Cardinality(1..n) = n
    BY FS_Interval
  <2>4. Cardinality(DOMAIN list) <= n
    BY <2>2, <2>3, FS_Surjection
  <2>5. Cardinality(1..Len(list)) = Len(list)
    <3>1. PICK m \in Nat : m = Len(list)
      BY <1>1
    <3>2. Cardinality(1..m) = m
      BY FS_Interval
    <3> QED
      BY <3>1, <3>2
  <2> QED
    BY <1>1, <2>4, <2>5
<1>4. PICK k : k \in DOMAIN list \ ToSet(s)
  BY <1>2, <1>3
<1>5. PICK b : b = Best(list, s, Lambda, like)
  OBVIOUS
<1>6. b \in DOMAIN list \ ToSet(s)
  BY <1>4, <1>5, BestRemains
<1>7. PICK t : t = Append(s, b)
  OBVIOUS
<1>8. /\ t \in Seq(DOMAIN list) /\ Len(t) = n + 1
      /\ t[n + 1] = b /\ \A i \in 1..n : t[i] = s[i]
  BY <1>1, <1>6, <1>7, AppendProperties
<1>9. t \in [1..(n + 1) -> DOMAIN list]
  BY <1>8
<1>10. ASSUME NEW i \in 1..(n + 1), NEW j \in 1..(n + 1), t[i] = t[j]
       PROVE  i = j
  <2>1. \A m \in 1..n : t[m] # b
    BY <1>2, <1>6, <1>8
  <2>2. CASE i \in 1..n /\ j \in 1..n
    BY <1>1, <1>8, <1>10, <2>2
  <2>3. CASE i = n + 1 /\ j \in 1..n
    BY <1>8, <1>10, <2>1, <2>3
  <2>4. CASE j = n + 1 /\ i \in 1..n
    BY <1>8, <1>10, <2>1, <2>4
  <2> QED
    BY <2>2, <2>3, <2>4
<1> QED
  BY <1>5, <1>7, <1>9, <1>10 DEF Places

\* Reordering for diversity permutes the ranking.
LEMMA DiversePermutes ==
  ASSUME SelectionAssumption, NEW list \in Seq(Entries), NEW like
  PROVE  \E p \in Bijection(DOMAIN list, DOMAIN list) :
           Diverse(list, Lambda, like) = [i \in DOMAIN list |-> list[p[i]]]
<1> DEFINE N == Len(list)
           Is(f) == f = [n \in 0..N |->
                           IF n = 0 THEN << >>
                           ELSE Append(f[n - 1], Best(list, f[n - 1], Lambda, like))]
<1>1. N \in Nat /\ DOMAIN list = 1..N
  OBVIOUS
<1>2. PICK taken : taken = CHOOSE f : Is(f)
  OBVIOUS
<1>3. Is(taken)
  <2>1. \E f : Is(f)
    <3>1. PICK f : f = [n \in 0..N |-> TakenUpTo(list, like, f, n)]
      BY <1>1, TakenExists
    <3>2. Is(f)
      BY <3>1 DEF TakenUpTo
    <3> QED
      BY <3>2
  <2> HIDE DEF Is
  <2> QED
    BY <1>2, <2>1
<1>4. Diverse(list, Lambda, like) = [i \in DOMAIN list |-> list[taken[N][i]]]
  BY <1>2 DEF Diverse
<1>5. \A n \in 0..N : taken[n] \in Places(list, n)
  <2> DEFINE T == {n \in 0..N : taken[n] \notin Places(list, n)}
  <2> SUFFICES ASSUME T # {} PROVE FALSE
    OBVIOUS
  <2>1. PICK n \in T : \A m \in T : n <= m
    <3>1. T \in SUBSET Nat
      BY <1>1
    <3> HIDE DEF T
    <3> QED
      BY <3>1, LeastOf
  <2>2. CASE n = 0
    <3>1. taken[0] = << >>
      BY <1>1, <1>3
    <3>2. << >> \in Places(list, 0)
      BY DEF Places
    <3> QED
      BY <2>1, <2>2, <3>1, <3>2
  <2>3. CASE n # 0
    <3>1. n \in 0..N /\ n - 1 \in Nat /\ n - 1 < N /\ n - 1 \in 0..N /\ n - 1 \notin T
      BY <1>1, <2>1, <2>3
    <3>2. taken[n - 1] \in Places(list, n - 1)
      BY <3>1
    <3>3. taken[n] = Append(taken[n - 1], Best(list, taken[n - 1], Lambda, like))
      BY <1>3, <2>3, <3>1
    <3>4. taken[n] \in Places(list, (n - 1) + 1)
      <4>1. PICK m, before : m = n - 1 /\ before = taken[n - 1]
        OBVIOUS
      <4>2. m \in Nat /\ m < Len(list) /\ before \in Places(list, m)
        BY <3>1, <3>2, <4>1
      <4>3. Append(before, Best(list, before, Lambda, like)) \in Places(list, m + 1)
        BY <4>2, OnePlaceMore
      <4> QED
        BY <3>3, <4>1, <4>3
    <3>5. (n - 1) + 1 = n
      BY <3>1
    <3> QED
      BY <2>1, <3>4, <3>5
  <2> QED
    BY <2>2, <2>3
<1>6. taken[N] \in [1..N -> 1..N] /\ \A i, j \in 1..N : taken[N][i] = taken[N][j] => i = j
  <2>1. taken[N] \in Places(list, N)
    BY <1>1, <1>5
  <2> QED
    BY <1>1, <2>1 DEF Places
<1>7. taken[N] \in Injection(1..N, 1..N)
  <2>1. DOMAIN taken[N] = 1..N
    BY <1>6
  <2> QED
    BY <1>6, <2>1 DEF Injection, IsInjective
<1>8. taken[N] \in Surjection(1..N, 1..N)
  <2>1. IsFiniteSet(1..N)
    BY <1>1, FS_Interval
  <2> QED
    BY <1>7, <2>1, FS_Injection
<1> QED
  BY <1>1, <1>4, <1>7, <1>8 DEF Bijection

-----------------------------------------------------------------------------
(* The types. *)

SelectionTyped ==
  /\ SelectionTypeOK
  /\ items \in Seq(SUBSET Threads)
  /\ stage \in {"separate", "merge"} => ranked = << >> /\ featured = {}

LEMMA ByIdIs ==
  ASSUME SelectionAssumption, NEW d \in Threads
  PROVE  ById(d) \in Threads
<1> DEFINE same == {e \in Threads : FullId(e) = FullId(d)}
<1>1. same \in SUBSET Nat /\ same # {} /\ same \in SUBSET Threads
  BY DEF SelectionAssumption
<1>2. PICK e \in same : \A f \in same : f <= e
  <2> HIDE DEF same
  <2>1. IsFiniteSet(same)
    BY <1>1, FS_Subset DEF SelectionAssumption
  <2> QED
    BY <1>1, <2>1, GreatestOf
<1>3. /\ e \in Threads /\ FullId(e) = FullId(d)
      /\ \A f \in Threads : FullId(f) = FullId(d) => f <= e
  BY <1>2
<1> QED
  BY <1>3 DEF ById

\* Whatever is merged, the items are made of discussions.
LEMMA ThreadTyped ==
  ASSUME SelectionAssumption, NEW groups \in Seq(Seq(Nat)), NEW rest \in Seq(Nat)
  PROVE  MergedThread(groups, rest) \in Seq(SUBSET Threads)
<1> DEFINE first == [g \in DOMAIN groups |-> ItemOf(groups[g])]
           second == [i \in DOMAIN rest |-> Known(<<rest[i]>>)]
           list == first \o second
           places == {i \in DOMAIN list : list[i] # {}}
           sorted == InOrder(places, LatestFirst(list, places))
           merged == [i \in DOMAIN sorted |-> list[sorted[i]]]
<1>1. ASSUME NEW ids PROVE Known(ids) \in SUBSET Threads
  BY ByIdIs DEF Known
<1>2. Len(groups) \in Nat /\ Len(rest) \in Nat
      /\ DOMAIN groups = 1..Len(groups) /\ DOMAIN rest = 1..Len(rest)
  OBVIOUS
<1>3. first \in Seq(SUBSET Threads)
  <2>1. first \in [1..Len(groups) -> SUBSET Threads]
    BY <1>1, <1>2 DEF ItemOf
  <2> HIDE DEF first
  <2> QED
    BY <1>2, <2>1, MakesSeq
<1>4. second \in Seq(SUBSET Threads)
  <2>1. second \in [1..Len(rest) -> SUBSET Threads]
    BY <1>1, <1>2
  <2> HIDE DEF second
  <2> QED
    BY <1>2, <2>1, MakesSeq
<1>5. list \in Seq(SUBSET Threads)
  <2> HIDE DEF first, second
  <2> QED
    BY <1>3, <1>4, ConcatProperties
<1>6. MergedThread(groups, rest) = merged
  BY DEF MergedThread
<1> HIDE DEF list
<1>7. Cardinality(places) \in Nat /\ sorted \in [1..Cardinality(places) -> places]
  <2>1. places \in SUBSET DOMAIN list /\ \A i \in places : list[i] # {}
    OBVIOUS
  <2>2. list \in Seq(SUBSET Nat)
    <3>1. SUBSET Threads \subseteq SUBSET Nat
      BY DEF SelectionAssumption
    <3> QED
      BY <1>5, <3>1, SeqMonotonic
  <2> HIDE DEF places
  <2>3. IsFiniteSet(places) /\ StrictOrder(places, LatestFirst(list, places))
    BY <2>1, <2>2, ListIsOrdered
  <2> QED
    BY <2>3, SortKeeps
<1>8. \A i \in places : list[i] \in SUBSET Threads
  BY <1>5
<1> HIDE DEF places, sorted
<1>9. merged \in [1..Cardinality(places) -> SUBSET Threads]
  BY <1>7, <1>8
<1> HIDE DEF merged
<1> QED
  BY <1>6, <1>7, <1>9, MakesSeq

LEMMA SelectionTypesKept ==
  ASSUME SelectionAssumption, SelectionTyped, [SelectionNext]_selectionVars
  PROVE  SelectionTyped'
<1>1. Threads \in SUBSET Nat /\ IsFiniteSet(Threads)
  BY DEF SelectionAssumption
<1>2. DOMAIN items \in SUBSET Nat /\ IsFiniteSet(DOMAIN items)
  <2>1. PICK n \in Nat : DOMAIN items = 1..n
    BY DEF SelectionTyped
  <2>2. IsFiniteSet(1..n)
    BY FS_Interval
  <2>3. 1..n \in SUBSET Nat
    OBVIOUS
  <2> QED
    BY <2>1, <2>2, <2>3
<1>3. CASE SeparateThreads
  <2>1. PICK given \in [Threads -> LocalIds \cup {NoId}] :
          idOf' = [d \in Threads |-> IF given[d] = NoId THEN Ordinal(d) ELSE given[d]]
    BY <1>3 DEF SeparateThreads
  <2>2. ASSUME NEW d \in Threads PROVE Ordinal(d) \in Nat
    <3> DEFINE S == {e \in Threads : ChatOf[e] = ChatOf[d] /\ e <= d}
    <3>1. S \in SUBSET Threads
      OBVIOUS
    <3>2. IsFiniteSet(S)
      <4> HIDE DEF S
      <4> QED
        BY <1>1, <3>1, FS_Subset
    <3>3. Cardinality(S) \in Nat
      <4> HIDE DEF S
      <4> QED
        BY <3>2, FS_CardinalityType
    <3> QED
      BY <3>3 DEF Ordinal
  <2>3. ASSUME NEW d \in Threads, given[d] # NoId PROVE given[d] \in Nat
    <3>1. LocalIds \subseteq Nat
      BY DEF SelectionAssumption
    <3> QED
      BY <2>3, <3>1
  <2>4. idOf' \in [Threads -> Nat]
    BY <2>1, <2>2, <2>3
  <2>5. stage' = "merge" /\ UNCHANGED <<embedded, items, ranked, featured>>
    BY <1>3 DEF SeparateThreads
  <2> QED
    BY <1>3, <2>4, <2>5 DEF SeparateThreads, SelectionTyped, SelectionTypeOK, Entries
<1>4. CASE MergeSimilar
  <2>1. ASSUME NEW set \in SUBSET Threads
        PROVE  Ascending(set) \in Seq(Nat)
    <3>1. set \in SUBSET Nat /\ IsFiniteSet(set)
      BY <1>1, FS_Subset
    <3> QED
      BY <3>1, AscendingKeeps, SeqMonotonic
  <2>2. << >> \in Seq(Seq(Nat)) /\ Ascending(Threads) \in Seq(Nat)
    BY <2>1
  <2>3. ASSUME NEW answer \in Groupings
        PROVE  /\ answer.groups \in Seq(Seq(Nat)) /\ answer.rest \in Seq(Nat)
               /\ Hybrid(answer).groups \in Seq(Seq(Nat))
               /\ Hybrid(answer).rest \in Seq(Nat)
    <3>1. answer.groups \in Seq(Seq(Nat)) /\ answer.rest \in Seq(Nat)
      BY DEF SelectionAssumption
    <3>2. Ascending(Threads \ Grouped(answer.groups)) \in Seq(Nat)
      BY <2>1
    <3> QED
      BY <2>2, <3>1, <3>2 DEF Hybrid
  <2>4. PICK groups \in Seq(Seq(Nat)), rest \in Seq(Nat) :
          items' = MergedThread(groups, rest)
    <3>1. PICK e \in BOOLEAN, answer \in Groupings :
            items' = IF Cardinality(Threads) < 2
                     THEN MergedThread(<< >>, Ascending(Threads))
                     ELSE MergedThread((IF e THEN Hybrid(answer) ELSE answer).groups,
                                       (IF e THEN Hybrid(answer) ELSE answer).rest)
      BY <1>4 DEF MergeSimilar, ByModelAlone
    <3>2. CASE Cardinality(Threads) < 2
      BY <2>2, <3>1, <3>2
    <3>3. CASE ~(Cardinality(Threads) < 2) /\ e
      BY <2>3, <3>1, <3>3
    <3>4. CASE ~(Cardinality(Threads) < 2) /\ ~e
      BY <2>3, <3>1, <3>4
    <3> QED
      BY <3>2, <3>3, <3>4
  <2>5. items' \in Seq(SUBSET Threads)
    BY <2>4, ThreadTyped
  <2>6. ranked' = << >> /\ featured' = {} /\ stage' = "rank" /\ idOf' = idOf
        /\ embedded' \in BOOLEAN /\ Len(ranked') <= MaxRanked
    BY <1>4 DEF MergeSimilar, SelectionTyped, SelectionTypeOK
  <2>7. \A i \in DOMAIN items' : items'[i] \subseteq Threads
    BY <2>5
  <2> QED
    BY <2>5, <2>6, <2>7 DEF SelectionTyped, SelectionTypeOK
<1>5. ASSUME items' = items, ranked' \in Seq(Entries), Len(ranked') <= MaxRanked,
             featured' \subseteq DOMAIN items \cup {MadeUp},
             stage' \in {"rank", "rerank", "categorise", "done"},
             UNCHANGED <<idOf, embedded>>
      PROVE  SelectionTyped'
  <2>1. Entries' = Entries
    BY <1>5 DEF Entries
  <2>2. /\ idOf' \in [Threads -> Nat] /\ embedded' \in BOOLEAN
        /\ items' \in Seq(SUBSET Threads)
        /\ \A i \in DOMAIN items' : items'[i] \subseteq Threads
    BY <1>5 DEF SelectionTyped, SelectionTypeOK
  <2> QED
    BY <1>5, <2>1, <2>2 DEF SelectionTyped, SelectionTypeOK
<1>6. /\ ranked \in Seq(Entries) /\ Len(ranked) <= MaxRanked
      /\ featured \subseteq DOMAIN items \cup {MadeUp}
  BY DEF SelectionTyped, SelectionTypeOK
<1>7. CASE RankItems
  <2>1. PICK n \in 0..MaxRanked : \E answer \in [1..n -> Entries] : ranked' = answer
    BY <1>7 DEF RankItems
  <2>2. n \in Nat /\ n <= MaxRanked /\ ranked' \in [1..n -> Entries]
    BY <2>1 DEF SelectionAssumption
  <2>3. ranked' \in Seq(Entries) /\ Len(ranked') = n
    BY <2>2, MakesSeq
  <2> QED
    BY <1>5, <1>6, <1>7, <2>2, <2>3 DEF RankItems
<1>8. CASE RerankItems
  <2>1. ASSUME NEW p \in Bijection(DOMAIN ranked, DOMAIN ranked)
        PROVE  /\ [i \in DOMAIN ranked |-> ranked[p[i]]] \in Seq(Entries)
               /\ Len([i \in DOMAIN ranked |-> ranked[p[i]]]) = Len(ranked)
    <3>1. PICK n \in Nat : DOMAIN ranked = 1..n /\ Len(ranked) = n
      BY <1>6
    <3>2. p \in [1..n -> 1..n] /\ \A i \in 1..n : ranked[i] \in Entries
      BY <1>6, <3>1 DEF Bijection, Injection
    <3>3. [i \in 1..n |-> ranked[p[i]]] \in [1..n -> Entries]
      BY <3>2
    <3> QED
      BY <3>1, <3>3, MakesSeq
  <2>2. ASSUME NEW like
        PROVE  /\ Diverse(ranked, Lambda, like) \in Seq(Entries)
               /\ Len(Diverse(ranked, Lambda, like)) = Len(ranked)
    <3>1. PICK p \in Bijection(DOMAIN ranked, DOMAIN ranked) :
            Diverse(ranked, Lambda, like) = [i \in DOMAIN ranked |-> ranked[p[i]]]
      BY <1>6, DiversePermutes, SelectionAssumption
    <3> QED
      BY <2>1, <3>1
  <2>3. PICK like : ranked' \in {ranked, IF Len(ranked) < 2 THEN ranked
                                        ELSE Diverse(ranked, Lambda, like)}
    BY <1>8 DEF RerankItems
  <2>4. ranked' \in Seq(Entries) /\ Len(ranked') = Len(ranked)
    BY <1>6, <2>2, <2>3
  <2> QED
    BY <1>5, <1>6, <1>8, <2>4 DEF RerankItems
<1>9. CASE Categorise
  <2>1. \A r \in ToSet(ranked) : r.item \in DOMAIN items \cup {MadeUp}
    <3>1. \A i \in DOMAIN ranked : ranked[i] \in Entries
      BY <1>6
    <3>2. \A r \in Entries : r.item \in DOMAIN items \cup {MadeUp}
      BY DEF Entries
    <3> QED
      BY <3>1, <3>2, ToSetIs
  <2>2. featured' \subseteq DOMAIN items \cup {MadeUp}
    BY <1>9, <2>1 DEF Categorise
  <2> QED
    BY <1>5, <1>6, <1>9, <2>2 DEF Categorise
<1>10. CASE UNCHANGED selectionVars
  BY <1>10 DEF selectionVars, SelectionTyped, SelectionTypeOK, Entries
<1> QED
  BY <1>3, <1>4, <1>7, <1>8, <1>9, <1>10 DEF SelectionNext

LEMMA SelectionInvariance == SelectionSpec => []SelectionTyped
<1>1. SelectionInit => SelectionTyped
  <2> SUFFICES ASSUME SelectionInit PROVE SelectionTyped
    OBVIOUS
  <2>1. /\ items \in Seq(SUBSET Threads) /\ ranked \in Seq(Entries)
        /\ Len(ranked) <= MaxRanked
    BY SelectionAssumption DEF SelectionInit
  <2> QED
    BY <2>1 DEF SelectionInit, SelectionTyped, SelectionTypeOK
<1>2. SelectionTyped /\ [SelectionNext]_selectionVars => SelectionTyped'
  BY SelectionAssumption, SelectionTypesKept
<1> QED
  BY <1>1, <1>2, PTL DEF SelectionSpec

(***************************************************************************)
(* Whatever ids, ranks and scores the model answers, those of items that   *)
(* there are none of included, the items are made of the discussions, the  *)
(* ranking has the entries of one answer and no more, and what is featured *)
(* is an item or an id that the model made up (discussion merger, ranker   *)
(* and diversity reranker): for any threads, chats, groupings and          *)
(* similarities.                                                           *)
(***************************************************************************)
THEOREM SelectionTypes == SelectionSpec => []SelectionTypeOK
<1>1. SelectionTyped => SelectionTypeOK
  BY DEF SelectionTyped
<1> QED
  BY <1>1, SelectionInvariance, PTL

\* Reordering only permutes.
Reorders ==
  \E p \in Bijection(DOMAIN ranked, DOMAIN ranked) :
    ranked' = [i \in DOMAIN ranked |-> ranked[p[i]]]

(***************************************************************************)
(* Reranking for diversity only reorders: it puts every entry of the       *)
(* ranking at one place and drops, adds and doubles none, whatever items,  *)
(* also made up ones and several times, the entries name, for any scores   *)
(* and similarities and any weight of either (the reranker by maximal      *)
(* marginal relevance).                                                    *)
(***************************************************************************)
THEOREM RerankingPermutes == SelectionSpec => [][RerankItems => Reorders]_selectionVars
<1>1. SelectionTyped => [RerankItems => Reorders]_selectionVars
  <2> SUFFICES ASSUME SelectionTyped, RerankItems PROVE Reorders
    OBVIOUS
  <2>1. ranked \in Seq(Entries)
    BY DEF SelectionTyped, SelectionTypeOK
  <2>2. ASSUME NEW like, ranked' = Diverse(ranked, Lambda, like) PROVE Reorders
    BY <2>1, <2>2, DiversePermutes, SelectionAssumption DEF Reorders
  <2>3. CASE ranked' = ranked
    <3>1. PICK p : p = [i \in DOMAIN ranked |-> i]
      OBVIOUS
    <3>2. p \in Bijection(DOMAIN ranked, DOMAIN ranked)
      BY <3>1 DEF Bijection, Injection, Surjection, IsInjective
    <3>3. ranked = [i \in DOMAIN ranked |-> ranked[i]]
      BY <2>1
    <3>4. [i \in DOMAIN ranked |-> ranked[p[i]]] = [i \in DOMAIN ranked |-> ranked[i]]
      BY <3>1
    <3> QED
      BY <2>3, <3>2, <3>3, <3>4 DEF Reorders
  <2>4. PICK like : ranked' \in {ranked, IF Len(ranked) < 2 THEN ranked
                                        ELSE Diverse(ranked, Lambda, like)}
    BY DEF RerankItems
  <2> QED
    BY <2>2, <2>3, <2>4
<1> QED
  BY <1>1, SelectionInvariance, PTL DEF SelectionSpec

-----------------------------------------------------------------------------
-----------------------------------------------------------------------------
(* The types of a parsing. *)

LEMMA NotMore ==
  ASSUME NEW m \in Nat, NEW n \in Nat, NEW f \in [1..m -> 1..n],
         \A j, k \in 1..m : f[j] = f[k] => j = k
  PROVE  m <= n
<1>1. f \in Injection(1..m, 1..n)
  <2>1. DOMAIN f = 1..m
    OBVIOUS
  <2> QED
    BY <2>1 DEF Injection, IsInjective
<1>2. IsFiniteSet(1..n) /\ Cardinality(1..n) = n
  BY FS_Interval
<1>3. Cardinality(1..m) = m
  BY FS_Interval
<1> QED
  BY <1>1, <1>2, <1>3, FS_Injection

\* There are no more messages than events.
LEMMA ComeShort ==
  ASSUME NEW raw \in RawChats, NEW last, NEW listed, ComeFrom(listed, raw, 0, last)
  PROVE  Len(listed) <= Len(raw)
<1>1. PICK M : listed \in Seq(M)
  BY DEF ComeFrom
<1>2. Len(listed) \in Nat /\ DOMAIN listed = 1..Len(listed)
  BY <1>1
<1>3. Len(raw) \in Nat /\ DOMAIN raw = 1..Len(raw)
  BY RawIs
<1>4. \A i \in 1..Len(listed) : \E k \in 1..Len(raw) : IsOfEvent(listed[i], raw[k])
  BY <1>2, <1>3 DEF ComeFrom
<1>5. PICK f : f = [i \in 1..Len(listed) |->
                      CHOOSE k \in 1..Len(raw) : IsOfEvent(listed[i], raw[k])]
  OBVIOUS
<1>6. f \in [1..Len(listed) -> 1..Len(raw)]
      /\ \A i \in 1..Len(listed) : IsOfEvent(listed[i], raw[f[i]])
  BY <1>4, <1>5
<1>7. \A i, j \in 1..Len(listed) : f[i] = f[j] => i = j
  <2> SUFFICES ASSUME NEW i \in 1..Len(listed), NEW j \in 1..Len(listed), f[i] = f[j]
               PROVE  i = j
    OBVIOUS
  <2>1. listed[i].event = listed[j].event
    BY <1>6 DEF IsOfEvent
  <2> QED
    BY <1>2, <2>1 DEF ComeFrom
<1> QED
  BY <1>2, <1>3, <1>6, <1>7, NotMore

\* Cleaning keeps some of them.
LEMMA CleanShort ==
  ASSUME NEW M, NEW listed \in Seq(M)
  PROVE  Len(Clean(listed)) <= Len(listed)
<1>1. PICK kept : kept = Kept(listed)
  OBVIOUS
<1>2. PICK places : Picks(kept, listed, M, places, Len(listed))
  BY <1>1, PickedIs DEF Kept
<1>3. kept \in Seq(M) /\ Len(kept) \in Nat /\ DOMAIN kept = 1..Len(kept)
      /\ Len(listed) \in Nat
  BY <1>2 DEF Picks
<1>4. PICK f \in [1..Len(kept) -> 1..Len(listed)] :
        \A j, k \in 1..Len(kept) : f[j] = f[k] => j = k
  BY <1>2 DEF Picks
<1>5. Len(kept) <= Len(listed)
  BY <1>3, <1>4, NotMore
<1>6. Len(Clean(listed)) = Len(kept)
  <2>1. PICK short : Clean(listed) = [i \in DOMAIN kept |-> short[i]]
    <3>1. PICK short : short = Clean(listed)
      OBVIOUS
    <3>2. short = [i \in DOMAIN kept |-> short[i]]
      BY <1>1, <3>1, Zenon DEF Clean
    <3> QED
      BY <3>1, <3>2
  <2> QED
    BY <1>3, <2>1
<1> QED
  BY <1>5, <1>6

ParsedFits(x) ==
  /\ x.raw \in RawChats \cup {<< >>}
  /\ Len(x.parsed) <= Len(x.raw)

ParsingTyped ==
  /\ \A p \in Parsers : ParsedFits(parser[p])
  /\ lapses \in 0..MaxLapses

\* A parsing that ends or goes on, or fails to.
LEMMA ParsedKept ==
  ASSUME ParsingInv, ParsingTyped, NEW p \in Parsers, NEW x, ParsedFits(x),
         parser' = [parser EXCEPT ![p] = x], lapses' \in 0..MaxLapses
  PROVE  ParsingTyped'
<1>1. parser = [q \in Parsers |-> parser[q]]
  BY DEF ParsingInv
<1>2. \A q \in Parsers : parser'[q] = IF q = p THEN x ELSE parser[q]
  BY <1>1
<1> QED
  BY <1>2, Zenon DEF ParsingTyped, ParsedFits

LEMMA RestingParsed == ParsedFits(Resting)
<1>1. Resting.raw = << >> /\ Resting.parsed = << >>
  BY DEF Resting
<1> QED
  BY <1>1 DEF ParsedFits

LEMMA ParsingTypesKept ==
  ASSUME ParsingInv, ParsingTyped, [ParsingNext]_parsingVars
  PROVE  ParsingTyped'
<1>1. /\ \A p \in Parsers : ParsingFits(parser[p]) /\ ParsedFits(parser[p])
      /\ parser = [p \in Parsers |-> parser[p]]
      /\ lapses \in 0..MaxLapses /\ MaxLapses \in Nat
  BY ParsingAssumption DEF ParsingInv, ParsingTyped
<1>2. ParsingInv'
  BY ParsingSteps
<1>3. ASSUME NEW p \in Parsers, StartParsing(p) PROVE ParsingTyped'
  <2>1. PICK raw \in RawChats, map \in {names, << >>} :
          parser' = [parser EXCEPT ![p] =
                       [Resting EXCEPT !.at = "chunks", !.raw = raw, !.map = map]]
    BY <1>3 DEF StartParsing
  <2>2. PICK x : x = [Resting EXCEPT !.at = "chunks", !.raw = raw, !.map = map]
    OBVIOUS
  <2>3. x.raw = raw /\ x.parsed = << >>
    BY <2>2, Zenon DEF Resting
  <2>4. ParsedFits(x)
    BY <2>3, RawIs DEF ParsedFits
  <2>5. lapses' \in 0..MaxLapses
    BY <1>1, <1>3 DEF StartParsing, Lapse
  <2> QED
    BY <2>1, <2>2, <2>4, <2>5, ParsedKept
<1>4. ASSUME NEW p \in Parsers, ParseChunk(p) PROVE ParsingTyped'
  <2>1. \A q \in Parsers : q # p => parser'[q] = parser[q]
    BY <1>1, <1>4 DEF ParseChunk
  <2>2. parser'[p].at = "chunks"
    <3>1. IsParsing(parser[p]) /\ parser[p].at = "chunks"
      BY <1>1, <1>4 DEF ParseChunk, ParsingFits
    <3>2. PICK c, m, d, e :
            parser' = [parser EXCEPT ![p].chunk = c, ![p].map = m, ![p].parsed = d,
                                     ![p].polls = e]
      BY <1>4, Zenon DEF ParseChunk
    <3> QED
      BY <1>1, <3>1, <3>2 DEF IsParsing
  <2>3. ParsingFits(parser'[p])
    BY <1>2 DEF ParsingInv, ParsingFits, Resolved, IsParsing
  <2>4. parser'[p].raw \in RawChats
        /\ ComeFrom(parser'[p].parsed, parser'[p].raw, 0, parser'[p].chunk * ParseSize)
    BY <2>2, <2>3 DEF ParsingFits
  <2>5. ParsedFits(parser'[p])
    BY <2>4, ComeShort DEF ParsedFits
  <2>6. lapses' = lapses
    BY <1>4 DEF ParseChunk
  <2>7. \A q \in Parsers : ParsedFits(parser'[q])
    BY <1>1, <2>1, <2>5
  <2> QED
    BY <1>1, <2>6, <2>7, Zenon DEF ParsingTyped, ParsedFits
<1>5. ASSUME NEW p \in Parsers, FinishParsing(p) PROVE ParsingTyped'
  <2>1. PICK old : old = parser[p]
    OBVIOUS
  <2>2. ParsingFits(old) /\ ParsedFits(old) /\ old.at = "chunks"
    BY <1>1, <1>5, <2>1 DEF FinishParsing
  <2>3. /\ IsParsing(old) /\ old.raw \in RawChats
        /\ ComeFrom(old.parsed, old.raw, 0, old.chunk * ParseSize)
    BY <2>2 DEF ParsingFits
  <2>4. PICK parsed : parsed = Clean(old.parsed)
    OBVIOUS
  <2>5. PICK x : x = [old EXCEPT !.parsed = parsed, !.at = "persist"]
    OBVIOUS
  <2>6. parser' = [parser EXCEPT ![p] = x]
    BY <2>1, <2>4, <2>5, Zenon, <1>5 DEF FinishParsing
  <2>7. x = [at |-> "persist", raw |-> old.raw, chunk |-> old.chunk, map |-> old.map,
             parsed |-> parsed, polls |-> old.polls]
    BY <2>3, <2>5, Zenon DEF IsParsing
  <2>8. x.raw = old.raw /\ x.parsed = parsed
    BY <2>7, ParsingParts
  <2>9. Len(parsed) <= Len(old.parsed) /\ Len(old.parsed) \in Nat /\ Len(parsed) \in Int
    <3>1. PICK M : old.parsed \in Seq(M)
      BY <2>3 DEF ComeFrom
    <3> QED
      BY <2>4, <3>1, CleanShort
  <2>10. ParsedFits(x)
    BY <2>2, <2>8, <2>9, <2>3, RawIs DEF ParsedFits
  <2> QED
    BY <1>1, <1>5, <2>6, <2>10, ParsedKept DEF FinishParsing
<1>6. ASSUME NEW p \in Parsers, PersistNames(p) PROVE ParsingTyped'
  <2>1. PICK old : old = parser[p]
    OBVIOUS
  <2>2. IsParsing(old) /\ ParsedFits(old)
    BY <1>1, <2>1 DEF ParsingFits
  <2>3. PICK x : x = [old EXCEPT !.at = "done"]
    OBVIOUS
  <2>4. parser' = [parser EXCEPT ![p] = x]
    BY <1>6, <2>1, <2>3 DEF PersistNames
  <2>5. x = [at |-> "done", raw |-> old.raw, chunk |-> old.chunk, map |-> old.map,
             parsed |-> old.parsed, polls |-> old.polls]
    BY <2>2, <2>3, Zenon DEF IsParsing
  <2>6. x.raw = old.raw /\ x.parsed = old.parsed
    BY <2>5, ParsingParts
  <2>7. lapses' \in 0..MaxLapses
    BY <1>1, <1>6 DEF PersistNames, Lapse
  <2> QED
    BY <2>2, <2>4, <2>6, <2>7, ParsedKept DEF ParsedFits
<1>7. ASSUME NEW p \in Parsers, FailParsing(p) PROVE ParsingTyped'
  BY <1>1, <1>7, RestingParsed, ParsedKept DEF FailParsing
<1>8. CASE UNCHANGED parsingVars
  BY <1>8 DEF parsingVars, ParsingTyped, ParsedFits
<1> QED
  BY <1>3, <1>4, <1>5, <1>6, <1>7, <1>8 DEF ParsingNext

(***************************************************************************)
(* The maps, the files and the parsings have their types, and a file holds *)
(* no more messages than were downloaded, for any downloads, sizes of a    *)
(* chunk and senders (data_preprocessor and its maps of senders).          *)
(***************************************************************************)
THEOREM ParsingTypes == ParsingSpec => []ParsingTypeOK
<1>1. ParsingInit => ParsingTyped
  BY RestingParsed, ParsingAssumption DEF ParsingInit, ParsingTyped
<1>2. ParsingInv /\ ParsingTyped /\ [ParsingNext]_parsingVars => ParsingTyped'
  BY ParsingTypesKept
<1>3. ParsingInv /\ ParsingTyped => ParsingTypeOK
  <2>1. \A m \in NameMaps : DOMAIN m \subseteq Senders /\ \A s \in DOMAIN m : m[s] \in Nat
    BY DEF NameMaps
  <2> QED
    BY <2>1 DEF ParsingInv, ParsingTyped, ParsingFits, ParsedFits, ParsingTypeOK
<1> QED
  BY <1>1, <1>2, <1>3, ParsingInvariance, PTL DEF ParsingSpec

-----------------------------------------------------------------------------
(* The services as a whole: each component runs as its own specification says, or stays *)
(* as it is. *)

LEMMA ExtractionAsPart == Spec => ExtractionSpec
<1>1. Init => ExtractionInit
  BY DEF Init
<1>2. [Next]_vars => [ExtractionNext]_extractionVars
  BY DEF Next, Part, vars, parts
<1> QED
  BY <1>1, <1>2, PTL DEF Spec, ExtractionSpec

LEMMA SessionAsPart == Spec => SessionSpec
<1>1. Init => SessionInit
  BY DEF Init
<1>2. [Next]_vars => [SessionNext]_sessionVars
  BY DEF Next, Part, vars, parts
<1> QED
  BY <1>1, <1>2, PTL DEF Spec, SessionSpec

LEMMA TranslationAsPart == Spec => TranslationSpec
<1>1. Init => TranslationInit
  BY DEF Init
<1>2. [Next]_vars => [TranslationNext]_translationVars
  BY DEF Next, Part, vars, parts
<1> QED
  BY <1>1, <1>2, PTL DEF Spec, TranslationSpec

LEMMA ParsingAsPart == Spec => ParsingSpec
<1>1. Init => ParsingInit
  BY DEF Init
<1>2. [Next]_vars => [ParsingNext]_parsingVars
  BY DEF Next, Part, vars, parts
<1> QED
  BY <1>1, <1>2, PTL DEF Spec, ParsingSpec

LEMMA StreamAsPart == Spec => StreamSpec
<1>1. Init => StreamInit
  BY DEF Init
<1>2. [Next]_vars => [StreamNext]_streamVars
  BY DEF Next, Part, vars, parts
<1> QED
  BY <1>1, <1>2, PTL DEF Spec, StreamSpec

LEMMA AgentAsPart == Spec => AgentSpec
<1>1. Init => AgentInit
  BY DEF Init
<1>2. [Next]_vars => [AgentNext]_agentVars
  BY DEF Next, Part, vars, parts
<1> QED
  BY <1>1, <1>2, PTL DEF Spec, AgentSpec

LEMMA SelectionAsPart == Spec => SelectionSpec
<1>1. Init => SelectionInit
  BY DEF Init
<1>2. [Next]_vars => [SelectionNext]_selectionVars
  BY DEF Next, Part, vars, parts
<1> QED
  BY <1>1, <1>2, PTL DEF Spec, SelectionSpec

LEMMA AccountsAsPart == Spec => AccountsSpec
<1>1. Init => AccountsInit
  BY DEF Init
<1>2. [Next]_vars => [AccountsNext]_accountVars
  BY DEF Next, Part, vars, parts
<1> QED
  BY <1>1, <1>2, PTL DEF Spec, AccountsSpec

LEMMA ApiKeysAsPart == Spec => ApiKeysSpec
<1>1. Init => ApiKeysInit
  BY DEF Init
<1>2. [Next]_vars => [ApiKeysNext]_keyVars
  BY DEF Next, Part, vars, parts
<1> QED
  BY <1>1, <1>2, PTL DEF Spec, ApiKeysSpec

LEMMA DecryptionAsPart == Spec => DecryptionSpec
<1>1. Init => DecryptionInit
  BY DEF Init
<1>2. [Next]_vars => [DecryptionNext]_decryptionVars
  BY DEF Next, Part, vars, parts
<1> QED
  BY <1>1, <1>2, PTL DEF Spec, DecryptionSpec

LEMMA EnrichmentAsPart == Spec => EnrichmentSpec
<1>1. Init => EnrichmentInit
  BY DEF Init
<1>2. [Next]_vars => [EnrichmentNext]_enrichmentVars
  BY DEF Next, Part, vars, parts
<1> QED
  BY <1>1, <1>2, PTL DEF Spec, EnrichmentSpec

LEMMA ImagesAsPart == Spec => ImagesSpec
<1>1. Init => ImagesInit
  BY DEF Init
<1>2. [Next]_vars => [ImagesNext]_imageVars
  BY DEF Next, Part, vars, parts
<1> QED
  BY <1>1, <1>2, PTL DEF Spec, ImagesSpec

LEMMA MemoryAsPart == Spec => AgentMemorySpec
<1>1. Init => AgentMemoryInit
  BY DEF Init
<1>2. [Next]_vars => [AgentMemoryNext]_memoryVars
  BY DEF Next, Part, vars, parts
<1> QED
  BY <1>1, <1>2, PTL DEF Spec, AgentMemorySpec

LEMMA LlmAsPart == Spec => LlmSpec
<1>1. Init => LlmInit
  BY DEF Init
<1>2. [Next]_vars => [LlmNext]_llmVars
  BY DEF Next, Part, vars, parts
<1> QED
  BY <1>1, <1>2, PTL DEF Spec, LlmSpec

(***************************************************************************)
(* Every component beside the newsletter run keeps its type in the         *)
(* composition the run services checks: whichever of them runs, it takes   *)
(* only steps of its own specification, of which its theorem speaks.       *)
(***************************************************************************)
THEOREM ServicesTypes == Spec => []ServicesTypeOK
<1>1. Spec => []ExtractionTypeOK
  BY ExtractionAsPart, ExtractionTypes
<1>2. Spec => []SessionTypeOK
  BY SessionAsPart, SessionTypes
<1>3. Spec => []TranslationTypeOK
  BY TranslationAsPart, TranslationTypes
<1>4. Spec => []ParsingTypeOK
  BY ParsingAsPart, ParsingTypes
<1>5. Spec => []StreamTypeOK
  BY StreamAsPart, StreamTypes
<1>6. Spec => []AgentTypeOK
  BY AgentAsPart, TurnTypes
<1>7. Spec => []SelectionTypeOK
  BY SelectionAsPart, SelectionTypes
<1>8. Spec => []AccountsTypeOK
  BY AccountsAsPart, AccountsTypes
<1>9. Spec => []ApiKeysTypeOK
  BY ApiKeysAsPart, ApiKeysTypes
<1>10. Spec => []DecryptionTypeOK
  BY DecryptionAsPart, DecryptionTypes
<1>11. Spec => []EnrichmentTypeOK
  BY EnrichmentAsPart, EnrichmentTypes
<1>12. Spec => []ImagesTypeOK
  BY ImagesAsPart, ImagesTypes
<1>13. Spec => []AgentMemoryTypeOK
  BY MemoryAsPart, MemoryTypes
<1>14. Spec => []LlmTypeOK
  BY LlmAsPart, LlmTypes
<1>15. /\ ExtractionTypeOK /\ SessionTypeOK /\ TranslationTypeOK /\ ParsingTypeOK
       /\ StreamTypeOK /\ AgentTypeOK /\ SelectionTypeOK /\ AccountsTypeOK
       /\ ApiKeysTypeOK /\ DecryptionTypeOK /\ EnrichmentTypeOK
       /\ ImagesTypeOK /\ AgentMemoryTypeOK /\ LlmTypeOK
       => ServicesTypeOK
  BY DEF ServicesTypeOK
<1> QED
  BY <1>1, <1>2, <1>3, <1>4, <1>5, <1>6, <1>7, <1>8, <1>9, <1>10, <1>11, <1>12, <1>13,
     <1>14, <1>15, PTL
=================================================================================
