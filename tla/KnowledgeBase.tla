----------------------------- MODULE KnowledgeBase -----------------------------
(***************************************************************************)
(* The knowledge base as one source of it sees it: a text is cut into      *)
(* chunks (src/src/rag/chunking/), the chunks are embedded and stored      *)
(* (src/src/rag/ingestion/pipeline.py), and questions retrieve some of     *)
(* them (src/src/rag/retrieval/).  The text may change between             *)
(* ingestions: a newsletter gets another version, an audio file is         *)
(* uploaded again.                                                         *)
(***************************************************************************)
EXTENDS Naturals, FiniteSets, Sequences
LOCAL INSTANCE FiniteSetsExt

CONSTANTS Ingesters,     \* requests that may ingest the source at the same time
          SourceTexts,   \* what the source may hold: the lengths of its segments
          PieceSize,     \* podcast_chunk_size
          PieceOverlap,  \* podcast_chunk_overlap
          SearchK,       \* vector_search_top_k
          RerankK,       \* rerank_top_k
          MaxIngestions, \* ingestions begun
          MaxTexts,      \* changes of the text
          NotYet         \* no report, no question

ASSUME KnowledgeBaseAssumption ==
  /\ {PieceSize, PieceOverlap, SearchK, RerankK, MaxIngestions, MaxTexts} \subseteq Nat
  /\ \A t \in SourceTexts : t \in Seq(Nat \ {0}) /\ t # <<>>

VARIABLES text,       \* the text of the source
          texts,      \* how often it has changed
          chunks,     \* the chunks stored for it
          ingestion,  \* ingestion[i]: what ingester i is about to do
          ingestions, \* ingestions begun: chunks have random ids, these tell them apart
          report,     \* the last ingestion that stored all, till its chunks are deleted
          question    \* the question being answered: the chunks cited, with messages

baseVars == <<text, texts, chunks, ingestion, ingestions, report, question>>

\* A chunk is a range of the segments of the text.
Chunk == [by : 1..MaxIngestions, range : Nat \X Nat]
NoIngestion == [at |-> "idle", by |-> 0, text |-> <<>>, pieces |-> {}]

KnowledgeBaseTypeOK ==
  /\ text \in SourceTexts /\ texts \in 0..MaxTexts /\ ingestions \in 0..MaxIngestions
  /\ chunks \subseteq Chunk
  /\ \A i \in Ingesters : ingestion[i].at \in {"idle", "extract", "store"}
  /\ report # NotYet => report.by \in 1..ingestions /\ report.text \in SourceTexts
  /\ question # NotYet =>
       question.with \subseteq question.cites /\ question.cites \subseteq Chunk

KnowledgeBaseInit ==
  /\ text \in SourceTexts /\ texts = 0
  /\ chunks = {} /\ ingestions = 0
  /\ ingestion = [i \in Ingesters |-> NoIngestion]
  /\ report = NotYet /\ question = NotYet

-----------------------------------------------------------------------------
(* chunk_segments; _split_large_section does the same with paragraphs. *)

\* How long the first i segments are together.
LengthOf(t) ==
  LET length[i \in 0..Len(t)] == IF i = 0 THEN 0 ELSE length[i - 1] + t[i] IN length

SizeOf(t, first, last) == LengthOf(t)[last] - LengthOf(t)[first - 1]

\* The longest end of what precedes segment i that fits the overlap.
Overlap(t, i) ==
  CHOOSE f \in 1..i : /\ SizeOf(t, f, i - 1) <= PieceOverlap
                      /\ \A g \in 1..(f - 1) : SizeOf(t, g, i - 1) > PieceOverlap

\* The chunk under construction ends before segment i if it would be too long with it.
TooLong(t, first, i) == first < i /\ SizeOf(t, first, i) > PieceSize

\* Where the chunk under construction begins once segment i is in it.
StartOf(t) ==
  LET start[i \in 0..Len(t)] ==
        IF i = 0 THEN 1
        ELSE IF TooLong(t, start[i - 1], i) THEN Overlap(t, i) ELSE start[i - 1]
  IN  start

\* Slip: what is under construction at the end is forgotten.
PiecesSlip(t) ==
  {<<StartOf(t)[i - 1], i - 1>> :
     i \in {j \in 1..Len(t) : TooLong(t, StartOf(t)[j - 1], j)}}

Pieces(t) ==
  {<<StartOf(t)[i - 1], i - 1>> :
     i \in {j \in 1..Len(t) : TooLong(t, StartOf(t)[j - 1], j)}}
    \cup {<<StartOf(t)[Len(t)], Len(t)>>}

-----------------------------------------------------------------------------
(* ingest. *)

Publish ==
  /\ texts < MaxTexts
  /\ texts' = texts + 1
  /\ text' \in SourceTexts \ {text}
  /\ UNCHANGED <<chunks, ingestion, ingestions, report, question>>

\* A source that has a chunk has been ingested.
SkipSource(i) ==
  /\ ingestion[i].at = "idle" /\ chunks # {}
  /\ UNCHANGED baseVars

\* With force_refresh the chunks are deleted first.
BeginIngestion(i, force) ==
  /\ ingestion[i].at = "idle" /\ ingestions < MaxIngestions
  /\ force \/ chunks = {}
  /\ ingestions' = ingestions + 1
  /\ ingestion' = [ingestion EXCEPT
       ![i] = [NoIngestion EXCEPT !.at = "extract", !.by = ingestions']]
  /\ IF force THEN chunks' = {} /\ report' = NotYet
              ELSE UNCHANGED <<chunks, report>>
  /\ UNCHANGED <<text, texts, question>>

Extract(i) ==
  /\ ingestion[i].at = "extract"
  /\ ingestion' = [ingestion EXCEPT ![i].at = "store", ![i].text = text,
                                    ![i].pieces = Pieces(text)]
  /\ UNCHANGED <<text, texts, chunks, ingestions, report, question>>

\* Extraction or embedding raises, or the process ends.
FailIngestion(i) ==
  /\ ingestion[i].at # "idle"
  /\ ingestion' = [ingestion EXCEPT ![i] = NoIngestion]
  /\ UNCHANGED <<text, texts, chunks, ingestions, report, question>>

\* The pieces that were embedded are stored; what is told is how many were not.
StoreChunks(i) ==
  LET by == ingestion[i].by IN
  /\ ingestion[i].at = "store"
  /\ \E kept \in SUBSET ingestion[i].pieces :
       /\ chunks' = chunks \cup {[by |-> by, range |-> p] : p \in kept}
       /\ report' = IF kept = ingestion[i].pieces
                    THEN [by |-> by, text |-> ingestion[i].text] ELSE report
  /\ ingestion' = [ingestion EXCEPT ![i] = NoIngestion]
  /\ UNCHANGED <<text, texts, ingestions, question>>

\* insert_many ends half-way: what it has inserted stays, and the ingestion fails.
TearChunks(i) ==
  /\ ingestion[i].at = "store"
  /\ \E inserted \in SUBSET ingestion[i].pieces :
       chunks' = chunks \cup {[by |-> ingestion[i].by, range |-> p] : p \in inserted}
  /\ ingestion' = [ingestion EXCEPT ![i] = NoIngestion]
  /\ UNCHANGED <<text, texts, ingestions, report, question>>

-----------------------------------------------------------------------------
(* retrieve.  Which chunks match a question, and in what order, is not modelled. *)

\* The first k of some chunks, for some order of them.
FirstOf(k, some) == {top \in SUBSET some : Cardinality(top) = Min({k, Cardinality(some)})}

\* What the two legs find is fused and cut to top_k, and only then the chunks below the
\* floor are dropped.
HybridSearch ==
  {good \in SUBSET chunks : \E page \in FirstOf(SearchK, chunks) : good \subseteq page}

\* MMR, or the first chunks of the page.  A question that retrieves nothing is refused.
Retrieve ==
  /\ question = NotYet
  /\ \E good \in HybridSearch : \E cites \in FirstOf(RerankK, good) :
       /\ cites # {}
       /\ question' = [at |-> "expand", cites |-> cites, with |-> {}]
  /\ UNCHANGED <<text, texts, chunks, ingestion, ingestions, report>>

\* The chunks are looked up again by their ids, for the messages behind them.
ExpandWithParents ==
  /\ question # NotYet /\ question.at = "expand"
  /\ question' = [question EXCEPT !.at = "answer", !.with = question.cites \cap chunks]
  /\ UNCHANGED <<text, texts, chunks, ingestion, ingestions, report>>

\* The answer goes out, or the best evidence is not good enough for one.
AnswerQuestion ==
  /\ question # NotYet /\ question.at = "answer"
  /\ question' = NotYet
  /\ UNCHANGED <<text, texts, chunks, ingestion, ingestions, report>>

KnowledgeBaseNext ==
  \/ Publish
  \/ \E i \in Ingesters :
       \/ SkipSource(i) \/ \E force \in BOOLEAN : BeginIngestion(i, force)
       \/ Extract(i) \/ FailIngestion(i) \/ StoreChunks(i) \/ TearChunks(i)
  \/ Retrieve \/ ExpandWithParents \/ AnswerQuestion

-----------------------------------------------------------------------------
Covers(ranges, t) == UNION {r[1]..r[2] : r \in ranges} = DOMAIN t

OfOneIngestion(some) == \A c, d \in some : c.by = d.by

\* No longer than a piece or, if it follows an overlap, than that and one segment.
Fits(size, t) == size <= PieceSize \/ \E n \in DOMAIN t : size <= PieceOverlap + t[n]

\* What the last report was about.
Reported == {c.range : c \in {d \in chunks : d.by = report.by}}

ReportIsTrue ==
  report # NotYet =>
    /\ Covers(Reported, report.text)
    /\ \A r \in Reported : Fits(SizeOf(report.text, r[1], r[2]), report.text)

(***************************************************************************)
(* The chunks of a source come from one ingestion of it, and so from one   *)
(* text ("Idempotent: skips sources that are already ingested",            *)
(* pipeline.py), and those an answer cites do; and after an ingestion that *)
(* says it stored everything every segment of its text can be found, in a  *)
(* chunk no longer than the chunk size or, where a segment follows an      *)
(* overlap, the two together.                                              *)
(***************************************************************************)
IngestedTextIsSearchable ==
  /\ OfOneIngestion(chunks)
  /\ question # NotYet => OfOneIngestion(question.cites)
  /\ ReportIsTrue
=============================================================================
