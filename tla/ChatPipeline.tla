---------------------------- MODULE ChatPipeline ----------------------------
(***************************************************************************)
(* The single-chat newsletter graph                                        *)
(* (src/src/graphs/single_chat_analyzer/graph.py): eight nodes that write  *)
(* one file each into a directory that every run for the same chat and     *)
(* dates shares.  A node is skipped when its file exists and its refresh   *)
(* flag is not set.  Between separate and rank, the SLM enrichment labels  *)
(* the messages into a file of its own, if it is enabled and can.  The     *)
(* nodes for images and their association write nothing that another node  *)
(* requires.                                                               *)
(*                                                                         *)
(* The content of a file is the run whose extraction its messages come     *)
(* from; Torn is a file cut short when the process died.                   *)
(***************************************************************************)
EXTENDS NewsletterArchive

CONSTANTS Requests,  \* the assignments of a request to each run
          Torn

ASSUME RequestsAssumption ==
  \A requests \in Requests : \A r \in Runs : requests[r].chats \subseteq Chats

VARIABLES request,  \* request[r]: what r asks for
          file,     \* file[d][c][n]: the file of node n in c's directory under d
          reads,    \* reads[r][c]: the file that holds the discussions, in r's state
          at,       \* at[r][c]: the node r is at for c
          fresh,    \* fresh[r][c]: the nodes r executed for c (history)
          unread    \* unread[r][c]: those of them that could not read back the
                    \* file they had written, to store its rows (history)

pipelineVars == <<paper, request, file, reads, at, fresh, unread>>

Nodes == {"extract", "preprocess", "translate", "separate",
          "rank", "generate", "enrich", "final"}

Files == Nodes \cup {"labelled"}

\* The node that follows a node, or a write to MongoDB, in the graph.
After == [extract    |-> "preprocess", raw_messages    |-> "preprocess",
          preprocess |-> "translate",  polls           |-> "translate",
          translate  |-> "separate",   messages        |-> "separate",
          separate   |-> "label",      raw_discussions |-> "label",
          label      |-> "rank",
          rank       |-> "generate",
          generate   |-> "enrich",
          enrich     |-> "final",      enriched        |-> "final",
          final      |-> "succeeded",  translated      |-> "succeeded"]

\* The files a node reads; after separate, the discussions are where reads says.
Inputs == [extract    |-> {},
           preprocess |-> {"extract"},
           translate  |-> {"preprocess"},
           separate   |-> {"translate"},
           rank       |-> {"separate"},
           generate   |-> {"separate", "rank"},
           enrich     |-> {"separate", "generate"},
           final      |-> {"enrich"}]

\* The collection, or the version of the newsletter, that a node stores its file
\* as before it returns.
StoredIn == [extract    |-> "raw_messages",
             preprocess |-> "polls",
             translate  |-> "messages",
             separate   |-> "raw_discussions",
             enrich     |-> "enriched",
             final      |-> "translated"]

Storing == {n \in DOMAIN StoredIn : StoredIn[n] \in SourceData}

\* The nodes whose rows are read back from the file in a try block of its own,
\* which logs the error; preprocess and translate let it through.
ReadBack == {"extract", "separate"}

Derived == {"enriched", "translated"}

Busy == Nodes \cup {"label"} \cup SourceData \cup Derived

Positions == {"idle"} \cup Busy \cup {"succeeded", "failed", "lost"}

Settled == {"succeeded", "failed"}

Places == {"base", "per_chat"}

PipelineTypeOK ==
  /\ request \in Requests
  /\ file \in [Places -> [Chats -> [Files -> Runs \cup {None, Torn}]]]
  /\ reads \in [Runs -> [Chats -> {"separate", "labelled"}]]
  /\ at \in [Runs -> [Chats -> Positions]]
  /\ fresh \in [Runs -> [Chats -> SUBSET Nodes]]
  /\ unread \in [Runs -> [Chats -> SUBSET ReadBack]]

PipelineInit ==
  /\ ArchiveInit
  /\ request \in Requests
  /\ file = [d \in Places |-> [c \in Chats |-> [n \in Files |-> None]]]
  /\ reads = [r \in Runs |-> [c \in Chats |-> "separate"]]
  /\ at = [r \in Runs |-> [c \in Chats |-> "idle"]]
  /\ fresh = [r \in Runs |-> [c \in Chats |-> {}]]
  /\ unread = [r \in Runs |-> [c \in Chats |-> {}]]

Consolidates(r) == request[r].consolidate /\ Cardinality(request[r].chats) > 1

\* Where dispatch_chats puts the directories of the chats of r.
Place(r) == IF Consolidates(r) THEN "per_chat" ELSE "base"

FileOf(r, c, n) == file[Place(r)][c][n]

\* A request carries no refresh flag for the ranking and the enrichment of one
\* chat: build_orchestrator_state leaves them out and dispatch_chats reads False.
Refreshes(r, n) == request[r].force /\ n \notin {"rank", "enrich"}

Reusable(r, c, n) == FileOf(r, c, n) # None /\ ~Refreshes(r, n)

MoveTo(r, c, position) == at' = [at EXCEPT ![r][c] = position]

\* The SLM node returns at once where the enrichment is not enabled.
Onward(r, position) ==
  IF After[position] = "label" /\ ~request[r].label THEN "rank" ELSE After[position]

\* What the run stores of n: nothing without a run id, and no translated version
\* of a newsletter that stays in English.
Stores(r, n) ==
  /\ known[r]
  /\ n \in DOMAIN StoredIn
  /\ n = "final" => request[r].translate

\* with_cache_check, and the same test inside translate_final_summary: the file
\* is only asked to exist.
Reuse(r, c) ==
  /\ at[r][c] \in Nodes
  /\ Reusable(r, c, at[r][c])
  /\ MoveTo(r, c, Onward(r, at[r][c]))
  /\ UNCHANGED <<trackingVars, paper, request, file, reads, fresh, unread>>

\* The discussions of c, as the nodes after separate find them.
DiscussionsOf(r, c) == FileOf(r, c, reads[r][c])

Input(r, c, i) == IF i = "separate" THEN DiscussionsOf(r, c) ELSE FileOf(r, c, i)

Readable(r, c, n) == \A i \in Inputs[n] : Input(r, c, i) \notin {None, Torn}

\* The body of a node: its inputs are read and its file is written, of what was
\* extracted by the run "of".
Write(r, c, n, of) ==
  /\ at[r][c] = n
  /\ ~Reusable(r, c, n)
  /\ Readable(r, c, n)
  /\ file' = [file EXCEPT ![Place(r)][c][n] = of]
  /\ fresh' = [fresh EXCEPT ![r][c] = @ \cup {n}]
  /\ MoveTo(r, c, IF Stores(r, n) THEN StoredIn[n] ELSE Onward(r, n))
  /\ UNCHANGED <<request, reads, unread>>

ExtractMessages(r, c) ==
  Write(r, c, "extract", r) /\ UNCHANGED <<trackingVars, paper>>

PreprocessMessages(r, c) ==
  Write(r, c, "preprocess", FileOf(r, c, "extract")) /\ UNCHANGED <<trackingVars, paper>>

TranslateMessages(r, c) ==
  Write(r, c, "translate", FileOf(r, c, "preprocess"))
  /\ UNCHANGED <<trackingVars, paper>>

SeparateDiscussions(r, c) ==
  Write(r, c, "separate", FileOf(r, c, "translate")) /\ UNCHANGED <<trackingVars, paper>>

\* The labelled discussions replace, in the state of the run, those they were made
\* from; the file is written beside them and renamed.
WriteLabels(r, c) ==
  /\ FileOf(r, c, "separate") \notin {None, Torn}
  /\ file' = [file EXCEPT ![Place(r)][c]["labelled"] = FileOf(r, c, "separate")]
  /\ reads' = [reads EXCEPT ![r][c] = "labelled"]
  /\ UNCHANGED faults

\* The discussions cannot be read, or the model cannot be loaded or fails.
LeaveUnlabelled(r, c) ==
  /\ \/ FileOf(r, c, "separate") \in {None, Torn} /\ UNCHANGED faults
     \/ Fault
  /\ UNCHANGED <<file, reads>>

\* slm_enrichment_node: its error leaves the state of the run as it is.
LabelMessages(r, c) ==
  /\ at[r][c] = "label"
  /\ WriteLabels(r, c) \/ LeaveUnlabelled(r, c)
  /\ MoveTo(r, c, After["label"])
  /\ UNCHANGED <<record, known, saved, paper, request, fresh, unread>>

RankDiscussions(r, c) ==
  Write(r, c, "rank", DiscussionsOf(r, c)) /\ UNCHANGED <<trackingVars, paper>>

\* The newsletter of a chat is stored before its file is written, unless the
\* repository cannot be opened (initialize_mongodb_repository is fail-soft).
StoreOriginal(r, c) ==
  /\ IF known[r]
     THEN \/ CreateNewsletter(r, c, DiscussionsOf(r, c)) /\ UNCHANGED faults
          \/ Fault /\ UNCHANGED paper
     ELSE UNCHANGED <<paper, faults>>
  /\ UNCHANGED <<record, known, saved>>

GenerateContent(r, c) ==
  Write(r, c, "generate", DiscussionsOf(r, c)) /\ StoreOriginal(r, c)

EnrichWithLinks(r, c) ==
  Write(r, c, "enrich", FileOf(r, c, "generate")) /\ UNCHANGED <<trackingVars, paper>>

TranslateFinalSummary(r, c) ==
  Write(r, c, "final", FileOf(r, c, "enrich")) /\ UNCHANGED <<trackingVars, paper>>

Produce(r, c) ==
  \/ ExtractMessages(r, c) \/ PreprocessMessages(r, c) \/ TranslateMessages(r, c)
  \/ SeparateDiscussions(r, c) \/ LabelMessages(r, c) \/ RankDiscussions(r, c)
  \/ GenerateContent(r, c) \/ EnrichWithLinks(r, c) \/ TranslateFinalSummary(r, c)

\* The node writes its rows after its file.
Store(r, c) ==
  /\ at[r][c] \in SourceData
  /\ StoreRows(r, c, at[r][c])
  /\ MoveTo(r, c, Onward(r, at[r][c]))
  /\ UNCHANGED <<paper, request, file, reads, fresh, unread>>

\* The enriched and the translated version are stored fail-soft, from the file
\* as it is by then.
StoreDerived(r, c) ==
  /\ at[r][c] \in Derived
  /\ StoreVersion(r, c, at[r][c],
                  FileOf(r, c, IF at[r][c] = "enriched" THEN "enrich" ELSE "final"))
  /\ MoveTo(r, c, After[at[r][c]])
  /\ UNCHANGED <<record, known, saved, request, file, reads, fresh, unread>>

\* The file cannot be read back: the node logs a warning, stores no rows and the
\* chat goes on.
LeaveRowsOut(r, c) ==
  \E n \in ReadBack :
    /\ at[r][c] = StoredIn[n]
    /\ Fault
    /\ unread' = [unread EXCEPT ![r][c] = @ \cup {n}]
    /\ MoveTo(r, c, Onward(r, at[r][c]))
    /\ UNCHANGED <<record, known, saved, paper, request, file, reads, fresh>>

\* Slip: the node logs the error of the store and goes on.
StoreRaisesSlip(r, c) ==
  /\ at[r][c] \in SourceData
  /\ Fault
  /\ MoveTo(r, c, Onward(r, at[r][c]))
  /\ UNCHANGED <<record, known, saved, paper, request, file, reads, fresh, unread>>

\* The store raises, the node lets it through, and the chat has failed.
StoreRaises(r, c) ==
  /\ at[r][c] \in SourceData
  /\ Fault
  /\ MoveTo(r, c, "failed")
  /\ UNCHANGED <<record, known, saved, paper, request, file, reads, fresh, unread>>

\* The ids of a ranking made for the discussions of an earlier extraction may
\* name none of the present ones.
StaleRanking(r, c) ==
  at[r][c] = "generate" /\ FileOf(r, c, "rank") # DiscussionsOf(r, c)

\* generate_content writes its document before its file.
LeavesOriginal(r, c) ==
  /\ at[r][c] = "generate" /\ known[r] /\ Readable(r, c, "generate")
  /\ CreateNewsletter(r, c, DiscussionsOf(r, c))

\* A node raises before it writes its file: an input cannot be read, no discussion
\* has an id of the ranking, or the LLM, the network, the decryption or the disk
\* fails.
Raise(r, c) ==
  /\ at[r][c] \in Nodes
  /\ ~Reusable(r, c, at[r][c])
  /\ MoveTo(r, c, "failed")
  /\ \/ ~Readable(r, c, at[r][c]) /\ UNCHANGED <<paper, faults>>
     \/ StaleRanking(r, c) /\ UNCHANGED <<paper, faults>>
     \/ Fault /\ (UNCHANGED paper \/ LeavesOriginal(r, c))
  /\ UNCHANGED <<record, known, saved, request, file, reads, fresh, unread>>

ChatStep(r, c) ==
  \/ Reuse(r, c) \/ Produce(r, c) \/ Raise(r, c)
  \/ Store(r, c) \/ LeaveRowsOut(r, c) \/ StoreRaises(r, c) \/ StoreDerived(r, c)

-----------------------------------------------------------------------------
\* The nodes being executed: a crash cuts short the files some of them write.
Writing ==
  {w \in Runs \X Chats : at[w[1]][w[2]] \in Nodes
                         /\ ~Reusable(w[1], w[2], at[w[1]][w[2]])
                         /\ Readable(w[1], w[2], at[w[1]][w[2]])}

PipelineCrash ==
  \E cut \in SUBSET Writing :
    /\ file' = [d \in Places |-> [c \in Chats |-> [n \in Files |->
                  IF \E w \in cut : Place(w[1]) = d /\ w[2] = c /\ at[w[1]][c] = n
                  THEN Torn ELSE file[d][c][n]]]]
    /\ at' = [r \in Runs |-> [c \in Chats |->
                IF at[r][c] \in Busy THEN "lost" ELSE at[r][c]]]
    /\ UNCHANGED <<paper, request, reads, fresh, unread>>

-----------------------------------------------------------------------------
\* The nodes whose rows r must store for c.
Owed(r, c) == (fresh[r][c] \cap Storing) \ unread[r][c]

(***************************************************************************)
(* Fail-hard persistence: the rows of every node that a run executed for a *)
(* chat it reports as successful are stored under the run's id, except     *)
(* those of an extraction or a separation that could not read back the     *)
(* file it had just written: that error is logged, the rows are left out   *)
(* and the chat goes on.  (graph.py of the single chat, the comments       *)
(* "Fail-hard": a failure of the store itself must fail the chat, at each  *)
(* of its four collections.)                                               *)
(***************************************************************************)
CorpusIsComplete ==
  \A r \in Runs, c \in Chats :
    known[r] /\ at[r][c] = "succeeded" =>
      \A n \in Owed(r, c) : <<c, StoredIn[n]>> \in saved[r]
=============================================================================
