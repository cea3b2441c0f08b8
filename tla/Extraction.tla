------------------------------ MODULE Extraction ------------------------------
(***************************************************************************)
(* The extraction of a chat's messages                                     *)
(* (src/src/core/ingestion/extractors/beeper.py) and its cache in MongoDB  *)
(* (src/src/db/repositories/extraction_cache.py).  An entry of the cache   *)
(* is a parent document and a number of chunk documents, written in steps  *)
(* that other extractors, the TTL monitor and a crash can come between.    *)
(*                                                                         *)
(* Messages are numbers in the order of their timestamps, so that a list   *)
(* sorted by time is a set.  A window is a pair of days.  Each window has  *)
(* one output directory, as the runs for the same chat and dates share it. *)
(***************************************************************************)
EXTENDS Naturals, FiniteSets, Sequences

CONSTANTS Extractors,       \* worker processes extracting the same chat
          Windows,          \* the requested <<start, end>> days
          SentOn,           \* the day of each message, in the order of time
          ChunkSize,        \* EXTRACTION_CACHE_CHUNK_SIZE
          WhileOpen,        \* whether windows are extracted before they have ended
          MaxExtractions,   \* extractions in a behaviour
          MaxOutages,       \* failed calls and crashes in a behaviour
          NoEntry           \* no document or file

ASSUME ExtractionAssumption ==
  /\ SentOn \in Seq(Nat) /\ \A list \in SUBSET DOMAIN SentOn : NoEntry # list
  /\ Windows # {} /\ \A w \in Windows : w \in Nat \X Nat
  /\ ChunkSize \in Nat \ {0}
  /\ WhileOpen \in BOOLEAN
  /\ MaxExtractions \in Nat /\ MaxOutages \in Nat

VARIABLES today,      \* the date
          parent,     \* parent[w]: the parent document of w's entry
          chunk,      \* chunk[w]: its chunk documents, index |-> messages
          download,   \* download[w]: the file of the downloaded events of w
          extractor,  \* extractor[p]: what p is doing
          begun,      \* extractions begun
          outages     \* failures so far

extractionVars == <<today, parent, chunk, download, extractor, begun, outages>>

Messages == DOMAIN SentOn
CutShort == {0}          \* a file that ends in the middle
Days == {0} \cup {SentOn[m] : m \in Messages} \cup UNION {{w[1], w[2]} : w \in Windows}

InWindow(w) == {m \in Messages : SentOn[m] \in w[1]..w[2]}
HasEnded(w) == today > w[2]

\* The room's history as the server has it.
Arrived == {m \in Messages : SentOn[m] <= today}

ChunkOf(m, list) == Cardinality({k \in list : k < m}) \div ChunkSize
Indexes(list) == {ChunkOf(m, list) : m \in list}
Chunked(list) == [i \in Indexes(list) |-> {m \in list : ChunkOf(m, list) = i}]

ParentOf(list) == [chunks |-> Cardinality(Indexes(list)), messages |-> Cardinality(list)]

Idle == [at |-> "idle", window |-> CHOOSE w \in Windows : TRUE,
         seen |-> NoEntry, overlap |-> {}, list |-> {}, pending |-> {}, broken |-> FALSE]

ExtractorSteps == {"idle", "look", "assemble", "overlap", "download", "decrypt",
                   "delete", "insert", "flip", "done", "failed"}

ExtractionTypeOK ==
  /\ today \in Nat
  /\ DOMAIN parent = Windows /\ DOMAIN chunk = Windows /\ DOMAIN download = Windows
  /\ \A w \in Windows :
       /\ parent[w] \in {NoEntry} \cup {ParentOf(l) : l \in SUBSET Messages}
       /\ \A i \in DOMAIN chunk[w] : i \in Nat /\ chunk[w][i] \subseteq Messages
       /\ download[w] \in {NoEntry, CutShort} \cup SUBSET Messages
  /\ \A p \in Extractors :
       /\ extractor[p].at \in ExtractorSteps
       /\ extractor[p].window \in Windows
       /\ extractor[p].list \subseteq Messages
  /\ begun \in 0..MaxExtractions /\ outages \in 0..MaxOutages

ExtractionInit ==
  /\ today = 1
  /\ parent = [w \in Windows |-> NoEntry]
  /\ chunk = [w \in Windows |-> << >>]
  /\ download = [w \in Windows |-> NoEntry]
  /\ extractor = [p \in Extractors |-> Idle]
  /\ begun = 0 /\ outages = 0

-----------------------------------------------------------------------------
Outage == outages < MaxOutages /\ outages' = outages + 1

At(p, step) == extractor[p].at = step
Window(p) == extractor[p].window

Set(p, field, value, next) ==
  extractor' = [extractor EXCEPT ![p][field] = value, ![p].at = next]

Goes(p, next) == extractor' = [extractor EXCEPT ![p].at = next]

\* _extract_whatsapp_group_chat_messages_async is called.  A forced extraction
\* looks at no entry of the cache.
BeginExtraction(p) ==
  /\ At(p, "idle") \/ At(p, "done") \/ At(p, "failed")
  /\ begun < MaxExtractions /\ begun' = begun + 1
  /\ \E w \in Windows, force \in BOOLEAN :
       /\ IF WhileOpen THEN w[1] <= today ELSE HasEnded(w)
       /\ extractor' = [extractor EXCEPT ![p] =
            [Idle EXCEPT !.at = IF force THEN "download" ELSE "look",
                         !.window = w]]
  /\ UNCHANGED <<today, parent, chunk, download, outages>>

\* get_cached_extraction reads the parent, then the chunks.
LookUp(p) ==
  /\ At(p, "look")
  /\ Set(p, "seen", parent[Window(p)],
         IF parent[Window(p)] = NoEntry THEN "overlap" ELSE "assemble")
  /\ UNCHANGED <<today, parent, chunk, download, begun, outages>>

\* Slip: the chunks are taken as they are.
WholeSlip(document, documents) == TRUE

\* _assemble_messages: as many chunks and messages as the parent says.
Whole(document, documents) ==
  /\ Cardinality(DOMAIN documents) = document.chunks
  /\ \/ document.chunks = 0
     \/ Cardinality(UNION {documents[i] : i \in DOMAIN documents}) = document.messages

Content(documents) == UNION {documents[i] : i \in DOMAIN documents}

\* An exact hit ends the extraction.
Assemble(p) ==
  /\ At(p, "assemble")
  /\ LET hit == Whole(extractor[p].seen, chunk[Window(p)]) IN
     extractor' = [extractor EXCEPT
       ![p].seen = NoEntry,
       ![p].list = IF hit THEN Content(chunk[Window(p)]) ELSE {},
       ![p].at = IF hit THEN "done" ELSE "overlap"]
  /\ UNCHANGED <<today, parent, chunk, download, begun, outages>>

\* get_overlapping_extractions: the whole entries whose windows meet w, read in one step;
\* that a writer comes between parent and chunks is in the look-up of the exact entry.
OverlappingEntries(w) ==
  {v \in Windows : /\ v[1] <= w[2] /\ w[1] <= v[2]
                   /\ parent[v] # NoEntry /\ Whole(parent[v], chunk[v])}

\* The first entry that covers the window is filtered and stored under the
\* window's own key; without one, the messages of all of them are kept.
UseOverlap(p) ==
  /\ At(p, "overlap")
  /\ LET w == Window(p)
         covering == {v \in OverlappingEntries(w) : v[1] <= w[1] /\ w[2] <= v[2]}
     IN \/ \E v \in covering :
             /\ \A u \in covering : v[1] <= u[1]
             /\ Set(p, "list", Content(chunk[v]) \cap InWindow(w), "delete")
        \/ /\ covering = {}
           /\ Set(p, "overlap", UNION {Content(chunk[v]) : v \in OverlappingEntries(w)},
                  "download")
  /\ UNCHANGED <<today, parent, chunk, download, begun, outages>>

\* The events are downloaded, page by page from the newest, unless a file of
\* them is there, forced or not.
Download(p) ==
  /\ At(p, "download")
  /\ download[Window(p)] # CutShort
  /\ download' = [download EXCEPT ![Window(p)] = IF @ = NoEntry THEN Arrived ELSE @]
  /\ Goes(p, "decrypt")
  /\ UNCHANGED <<today, parent, chunk, begun, outages>>

\* The downloaded messages of the window, and those of the overlapping entries
\* that were not downloaded.
WithOverlap(p) ==
  (download[Window(p)] \cup extractor[p].overlap) \cap InWindow(Window(p))

\* The result is written to its file and then to the cache.
Decrypt(p) ==
  /\ At(p, "decrypt")
  /\ extractor' = [extractor EXCEPT ![p].list = WithOverlap(p), ![p].overlap = {},
                                    ![p].at = "delete"]
  /\ UNCHANGED <<today, parent, chunk, download, begun, outages>>

\* A call fails: the cache or the server is down, or no message could be
\* decrypted; a download cut short cannot be read, this time or any other.
ExtractionFails(p) ==
  /\ \/ /\ At(p, "look") \/ At(p, "assemble") \/ At(p, "overlap")
           \/ At(p, "download") \/ At(p, "decrypt")
        /\ Outage
     \/ /\ At(p, "download") /\ download[Window(p)] = CutShort
        /\ UNCHANGED outages
  /\ extractor' = [extractor EXCEPT ![p] = [Idle EXCEPT !.at = "failed"]]
  /\ UNCHANGED <<today, parent, chunk, download, begun>>

-----------------------------------------------------------------------------
(* set_cached_extraction: its errors are swallowed by the extractor. *)

DeleteChunks(p) ==
  /\ At(p, "delete")
  /\ chunk' = [chunk EXCEPT ![Window(p)] = << >>]
  /\ Set(p, "pending", Indexes(extractor[p].list), "insert")
  /\ UNCHANGED <<today, parent, download, begun, outages>>

\* One document of insert_many, unordered: a second chunk with the same index is
\* refused and the others still go in.
InsertChunk(p) ==
  /\ At(p, "insert")
  /\ \E i \in extractor[p].pending :
       /\ chunk' = [chunk EXCEPT ![Window(p)] =
                      [j \in DOMAIN @ \cup {i} |->
                         IF j \in DOMAIN @ THEN @[j] ELSE Chunked(extractor[p].list)[i]]]
       /\ extractor' = [extractor EXCEPT
            ![p].pending = @ \ {i},
            ![p].broken = @ \/ i \in DOMAIN chunk[Window(p)]]
  /\ UNCHANGED <<today, parent, download, begun, outages>>

\* A refused chunk leaves the parent as it was.
InsertEnds(p) ==
  /\ At(p, "insert") /\ extractor[p].pending = {}
  /\ Set(p, "broken", FALSE, IF extractor[p].broken THEN "done" ELSE "flip")
  /\ UNCHANGED <<today, parent, chunk, download, begun, outages>>

FlipParent(p) ==
  /\ At(p, "flip")
  /\ parent' = [parent EXCEPT ![Window(p)] = ParentOf(extractor[p].list)]
  /\ Goes(p, "done")
  /\ UNCHANGED <<today, chunk, download, begun, outages>>

WriteFails(p) ==
  /\ At(p, "delete") \/ At(p, "insert") \/ At(p, "flip")
  /\ Outage
  /\ extractor' = [extractor EXCEPT ![p].pending = {}, ![p].broken = FALSE,
                                    ![p].at = "done"]
  /\ UNCHANGED <<today, parent, chunk, download, begun>>

-----------------------------------------------------------------------------
\* The TTL monitor, or clear_expired_cache and invalidate_cache, which take the
\* chunks before the parent: an entry is dropped in two steps.
DropChunks(w) ==
  /\ DOMAIN chunk[w] # {}
  /\ chunk' = [chunk EXCEPT ![w] = << >>]
  /\ UNCHANGED <<today, parent, download, extractor, begun, outages>>

DropParent(w) ==
  /\ parent[w] # NoEntry
  /\ parent' = [parent EXCEPT ![w] = NoEntry]
  /\ UNCHANGED <<today, chunk, download, extractor, begun, outages>>

NextDay ==
  /\ \E d \in Days : today <= d
  /\ today' = today + 1
  /\ UNCHANGED <<parent, chunk, download, extractor, begun, outages>>

\* p dies; the file it was writing may end in the middle.
ExtractorDies(p) ==
  /\ extractor[p].at \notin {"idle", "done", "failed"}
  /\ Outage
  /\ \/ /\ At(p, "download") /\ download[Window(p)] = NoEntry
        /\ download' = [download EXCEPT ![Window(p)] = CutShort]
     \/ UNCHANGED download
  /\ extractor' = [extractor EXCEPT ![p] = Idle]
  /\ UNCHANGED <<today, parent, chunk, begun>>

ExtractionNext ==
  \/ \E p \in Extractors :
       \/ BeginExtraction(p) \/ LookUp(p) \/ Assemble(p) \/ UseOverlap(p)
       \/ Download(p) \/ Decrypt(p) \/ ExtractionFails(p)
       \/ DeleteChunks(p) \/ InsertChunk(p) \/ InsertEnds(p) \/ FlipParent(p)
       \/ WriteFails(p) \/ ExtractorDies(p)
  \/ \E w \in Windows : DropChunks(w) \/ DropParent(w)
  \/ NextDay

-----------------------------------------------------------------------------
(***************************************************************************)
(* As long as only windows that have ended are extracted, an extraction    *)
(* that succeeds returns exactly the messages of its window, from the      *)
(* server, from its own entry or from those of other windows, whatever     *)
(* extractors write the same entry at the same time, die over it or find   *)
(* it half expired.  (The docstring of set_cached_extraction: a            *)
(* half-written entry is a miss.)                                          *)
(***************************************************************************)
EndedWindowsAreComplete ==
  ~WhileOpen =>
    \A p \in Extractors : At(p, "done") => extractor[p].list = InWindow(Window(p))
=============================================================================
