---------------------------- MODULE NewsletterRun ----------------------------
(***************************************************************************)
(* A newsletter run: the orchestrator graph                                *)
(* (src/src/graphs/multi_chat_consolidator) around the single-chat graphs, *)
(* the consolidation of the chats' discussions into one digest, the        *)
(* delivery of the result, and the two phases of discussion selection      *)
(* (src/src/api/newsletter_gen.py).  Runs for the same dates and source    *)
(* share the run directory, hence the files of the chats and of the        *)
(* digest.  The process may die: what it was running is lost, files and    *)
(* documents stay.                                                         *)
(*                                                                         *)
(* A discussion is a set of <<chat, run>>: the chats it draws from and,    *)
(* for each, the run that extracted the messages.                          *)
(***************************************************************************)
EXTENDS ChatPipeline

VARIABLES pc,         \* pc[r]: the orchestrator node r is at
          digest,     \* digest[f]: the files of the consolidation
          source,     \* source[r]: the discussions file in r's workflow state
          digested,   \* digested[r]: r's state holds the final file of the digest
          todo,       \* todo[r]: the output actions r still has to take
          hooked,     \* hooked[r]: the webhook of r has been delivered
          mailed,     \* mailed[r]: what r's mail links to, None before
          clean       \* clean[r]: r began in an empty directory (history)

runVars == <<pc, digest, source, digested, todo, hooked, mailed, clean>>

vars == <<trackingVars, pipelineVars, runVars>>

Steps == {"idle", "session", "dispatch", "start", "send", "chats", "aggregate",
          "consolidate", "merge", "rank", "select", "generate", "enrich",
          "enriched", "translate", "translated", "output", "complete"}

\* How a run can end: to its end, with its phase 1 ready for a selection, by an
\* exception that leaves the graph, or with the process.
Ends == {"done", "selecting", "failed", "lost"}

Live(r) == pc[r] \notin Ends \cup {"idle"}

DigestFiles == {"aggregated", "merged", "ranking", "newsletter", "enriched", "final",
                "selection", "chosen", "selected"}

Discussions ==
  {d \in (SUBSET (Chats \X Runs)) \ {{}} : \A p, q \in d : p[1] = q[1] => p = q}

\* The discussions of a digest: one of each of its chats, or what they were merged
\* into; none of them may be left.
Gatherings == {{}} \cup {{{p} : p \in d} : d \in Discussions} \cup {{d} : d \in Discussions}

\* The id of a discussion: the chat's prefix, or one of its own when merged.
Id(d) == {p[1] : p \in d}

Ids(ds) == {Id(d) : d \in ds}

IdLists == SUBSET ((SUBSET Chats) \ {{}})

\* "No file" and "torn" are contents of their own, and the digest is no chat.
ASSUME ContentAssumption ==
  /\ Digest \notin Chats /\ None # Torn
  /\ \A x \in {None, Torn} :
       x \notin Runs /\ (\A ds \in Gatherings : ds # x) /\ (\A ids \in IdLists : ids # x)

\* What a file can hold: discussions, or the ids of discussions.
DigestContent(f) ==
  {None, Torn} \cup IF f \in {"ranking", "selection", "chosen"}
                   THEN IdLists ELSE Gatherings

RunTypeOK ==
  /\ pc \in [Runs -> Steps \cup Ends]
  /\ \A f \in DigestFiles : digest[f] \in DigestContent(f)
  /\ DOMAIN digest = DigestFiles
  /\ source \in [Runs -> {"aggregated", "merged"}]
  /\ digested \in [Runs -> BOOLEAN]
  /\ DOMAIN todo = Runs /\ \A r \in Runs : todo[r] \subseteq request[r].actions
  /\ hooked \in [Runs -> BOOLEAN]
  /\ mailed \in [Runs -> Gatherings \cup {None, Torn}]
  /\ clean \in [Runs -> BOOLEAN]

ArchiveTypeOK ==
  /\ DOMAIN paper = Runs
  /\ \A r \in Runs :
       /\ DOMAIN paper[r] = Subjects
       /\ \A c \in Chats : paper[r][c] \in [Versions -> Runs \cup {None, Torn}]
       /\ paper[r][Digest] \in [Versions -> Gatherings \cup {None, Torn}]

TypeOK == ArchiveTypeOK /\ TrackingTypeOK /\ PipelineTypeOK /\ RunTypeOK

Init ==
  /\ TrackingInit
  /\ PipelineInit
  /\ pc = [r \in Runs |-> "idle"]
  /\ digest = [f \in DigestFiles |-> None]
  /\ source = [r \in Runs |-> "aggregated"]
  /\ digested = [r \in Runs |-> FALSE]
  /\ todo = [r \in Runs |-> {}]
  /\ hooked = [r \in Runs |-> FALSE]
  /\ mailed = [r \in Runs |-> None]
  /\ clean = [r \in Runs |-> FALSE]

-----------------------------------------------------------------------------
(* The orchestrator up to the fan-out. *)

Succeeded(r) == {c \in request[r].chats : at[r][c] = "succeeded"}

GoTo(r, step) == pc' = [pc EXCEPT ![r] = step]

\* r moves from one node to another and touches nothing else.
Passes(r, from, to) ==
  /\ pc[r] = from
  /\ GoTo(r, to)
  /\ UNCHANGED <<trackingVars, pipelineVars, digest, source, digested, todo,
                 hooked, mailed, clean>>

\* The request is accepted.  While a run that is not concurrent is alive, no other
\* request is made.
Accept(r) ==
  /\ \A q \in Runs : Live(q) => request[q].concurrent /\ request[r].concurrent
  /\ pc[r] = "idle"
  /\ GoTo(r, "session")
  /\ todo' = [todo EXCEPT ![r] = request[r].actions]
  /\ clean' = [clean EXCEPT ![r] =
                 /\ ~request[r].concurrent
                 /\ \A d \in Places, c \in Chats, n \in Files : file[d][c][n] = None
                 /\ \A f \in DigestFiles : digest[f] = None]
  /\ UNCHANGED <<trackingVars, pipelineVars, digest, source, digested, hooked,
                 mailed>>

\* ensure_valid_session: one login for all chats.
EnsureSession(r) == Passes(r, "session", "dispatch")

\* dispatch_chats, in the order of its awaits: the run document, its start, and
\* the Send commands, one for each chat.
CreateRun(r) ==
  /\ pc[r] = "dispatch"
  /\ CreateRecord(r)
  /\ GoTo(r, IF known'[r] THEN "start" ELSE "send")
  /\ UNCHANGED <<pipelineVars, digest, source, digested, todo, hooked, mailed, clean>>

StartRun(r) ==
  /\ pc[r] = "start"
  /\ StartRecord(r)
  /\ GoTo(r, "send")
  /\ UNCHANGED <<pipelineVars, digest, source, digested, todo, hooked, mailed, clean>>

SendChats(r) ==
  /\ pc[r] = "send"
  /\ at' = [at EXCEPT ![r] = [c \in Chats |-> IF c \in request[r].chats
                                              THEN "extract" ELSE @[c]]]
  /\ GoTo(r, "chats")
  /\ UNCHANGED <<trackingVars, paper, request, file, reads, fresh, unread, digest, source,
                 digested, todo, hooked, mailed, clean>>

\* A step of one chat's graph; chat_worker_wrapper turns its end into a result
\* or an error of r.
Chat(r, c) ==
  /\ pc[r] = "chats"
  /\ ChatStep(r, c)
  /\ UNCHANGED runVars

\* Slip: the results are aggregated as soon as one chat has ended.
GatherSlip(r) ==
  /\ \E c \in request[r].chats : at[r][c] \in Settled
  /\ Passes(r, "chats", "aggregate")

Gather(r) ==
  /\ \A c \in request[r].chats : at[r][c] \in Settled
  /\ Passes(r, "chats", "aggregate")

\* aggregate_results and the router should_consolidate_chats.
Aggregate(r) ==
  /\ Succeeded(r) # {}
  /\ Passes(r, "aggregate",
            IF request[r].consolidate /\ Cardinality(Succeeded(r)) > 1
            THEN "consolidate" ELSE "output")

-----------------------------------------------------------------------------
(* The consolidation (consolidation_nodes.py). *)

\* Slip: the refresh flag is not looked at.
KeepsFileSlip(r, f) == digest[f] # None

\* A digest node that keeps the file it finds, and the refresh flags of a request
\* cover every one of them.
KeepsFile(r, f) == digest[f] # None /\ ~request[r].force

\* r's node writes the file f with the content ds, or keeps the one it finds.
Writes(r, f, from, to, ds) ==
  /\ pc[r] = from
  /\ ~KeepsFile(r, f)
  /\ digest' = [digest EXCEPT ![f] = ds]
  /\ GoTo(r, to)
  /\ UNCHANGED <<trackingVars, request, file, reads, at, fresh, unread, source, digested,
                 todo, hooked, mailed, clean>>

Keeps(r, f, from, to) == KeepsFile(r, f) /\ Passes(r, from, to)

\* The chats whose discussions can be loaded; the others are left out.
Loadable(r) == {c \in Succeeded(r) : DiscussionsOf(r, c) \notin {None, Torn}}

\* setup_consolidated_directories and consolidate_discussions: the file is
\* always written anew.
Consolidate(r) ==
  /\ pc[r] = "consolidate"
  /\ Loadable(r) # {}
  /\ digest' = [digest EXCEPT !["aggregated"] =
                  {{<<c, DiscussionsOf(r, c)>>} : c \in Loadable(r)}]
  /\ source' = [source EXCEPT ![r] = "aggregated"]
  /\ GoTo(r, "merge")
  /\ UNCHANGED <<trackingVars, pipelineVars, digested, todo, hooked, mailed, clean>>

\* merge_similar_discussions: off, pointless for one discussion, or a transient
\* error of the embedder or the LLM: the unmerged file is used.
LeaveUnmerged(r) == Passes(r, "merge", "rank")

\* Otherwise the merged file, in which similar discussions have become one.
Merge(r) ==
  /\ pc[r] = "merge"
  /\ request[r].merge
  /\ digest["aggregated"] # Torn
  /\ Cardinality(digest["aggregated"]) > 1
  /\ \E ds \in {digest["aggregated"], {UNION digest["aggregated"]}} :
       digest' = [digest EXCEPT !["merged"] = ds]
  /\ source' = [source EXCEPT ![r] = "merged"]
  /\ GoTo(r, "rank")
  /\ UNCHANGED <<trackingVars, pipelineVars, digested, todo, hooked, mailed, clean>>

AfterRanking(r) == IF request[r].select THEN "select" ELSE "generate"

\* rank_consolidated_discussions, and the router requires_hitl_selection.
Rank(r) ==
  \/ Keeps(r, "ranking", "rank", AfterRanking(r))
  \/ /\ pc[r] = "rank"
     /\ digest[source[r]] # Torn
     /\ \E ids \in SUBSET Ids(digest[source[r]]) :
          Writes(r, "ranking", "rank", AfterRanking(r), ids)
     /\ UNCHANGED paper

\* prepare_discussion_selection: the graph ends here, with its run document as
\* it is.
PrepareSelection(r) ==
  /\ pc[r] = "select"
  /\ digest["ranking"] # Torn
  /\ digest' = [digest EXCEPT !["selection"] = digest["ranking"]]
  /\ GoTo(r, "selecting")
  /\ UNCHANGED <<trackingVars, pipelineVars, source, digested, todo, hooked,
                 mailed, clean>>

\* The discussions the newsletter is about: none if a file cannot be read.
Featured(r) ==
  IF Torn \in {digest["ranking"], digest[source[r]]} THEN {}
  ELSE {d \in digest[source[r]] : Id(d) \in digest["ranking"]}

\* _save_outputs stores the newsletter before it writes the files; a repository
\* that cannot be opened is an error here.
StoreDigest(r) == IF known[r] THEN CreateNewsletter(r, Digest, Featured(r))
                              ELSE UNCHANGED paper

\* generate_consolidated_newsletter.  Its look-up in MongoDB is by the id of this
\* run, under which nothing can be stored yet.
Generate(r) ==
  \/ Keeps(r, "newsletter", "generate", "enrich")
  \/ /\ pc[r] = "generate"
     /\ Featured(r) # {}
     /\ Writes(r, "newsletter", "generate", "enrich", Featured(r))
     /\ StoreDigest(r)

\* Slip: the refresh flag of the enrichment is not passed on.
EnrichSlip(r) ==
  \/ digest["enriched"] # None /\ Passes(r, "enrich", "translate")
  \/ /\ digest["newsletter"] # Torn /\ digest["enriched"] = None
     /\ Writes(r, "enriched", "enrich", IF known[r] THEN "enriched" ELSE "translate",
               digest["newsletter"])
     /\ UNCHANGED paper

\* enrich_consolidated_newsletter.
Enrich(r) ==
  \/ Keeps(r, "enriched", "enrich", "translate")
  \/ /\ digest["newsletter"] # Torn
     /\ Writes(r, "enriched", "enrich", IF known[r] THEN "enriched" ELSE "translate",
               digest["newsletter"])
     /\ UNCHANGED paper

\* A derived version of the digest is stored from its file, fail-soft.
StoreDigestVersion(r, version, f, to) ==
  /\ pc[r] = version
  /\ StoreVersion(r, Digest, version, digest[f])
  /\ GoTo(r, to)
  /\ UNCHANGED <<record, known, saved, request, file, reads, at, fresh, unread, digest,
                 source,
                 digested, todo, hooked, mailed, clean>>

StoreEnriched(r) == StoreDigestVersion(r, "enriched", "enriched", "translate")

StoreTranslated(r) == StoreDigestVersion(r, "translated", "final", "output")

\* translate_consolidated_newsletter: the final triplet.
Translate(r) ==
  /\ pc[r] = "translate"
  /\ \/ /\ KeepsFile(r, "final")
        /\ GoTo(r, "output")
        /\ UNCHANGED digest
     \/ /\ ~KeepsFile(r, "final")
        /\ digest["enriched"] # Torn
        /\ digest' = [digest EXCEPT !["final"] = digest["enriched"]]
        /\ GoTo(r, IF known[r] /\ request[r].translate THEN "translated" ELSE "output")
  /\ digested' = [digested EXCEPT ![r] = TRUE]
  /\ UNCHANGED <<trackingVars, pipelineVars, source, todo, hooked, mailed, clean>>

-----------------------------------------------------------------------------
(* output_handler: the actions in the order of the request, any order here. *)

Settle(r, action) ==
  /\ pc[r] = "output"
  /\ action \in todo[r]
  /\ todo' = [todo EXCEPT ![r] = @ \ {action}]
  /\ UNCHANGED <<record, known, saved, pipelineVars, pc, digest, source, digested,
                 clean>>

\* The webhook fails hard: any HTTP error ends the run.
CallWebhook(r) ==
  /\ Settle(r, "webhook")
  /\ hooked' = [hooked EXCEPT ![r] = TRUE]
  /\ UNCHANGED <<mailed, faults>>

\* The discussions behind the final file of one chat.
ChatContent(r, c) ==
  IF FileOf(r, c, "final") = Torn THEN Torn ELSE {{<<c, FileOf(r, c, "final")>>}}

\* _find_best_html_path: the digest, or the first chat that succeeded.
Candidates(r) ==
  IF digested[r] THEN {digest["final"]}
  ELSE {ChatContent(r, c) : c \in Succeeded(r)}

\* The mail is fail-soft: an error of the provider leaves the run as it is.
SendMail(r) ==
  /\ Settle(r, "mail")
  /\ \/ /\ \E x \in Candidates(r) : mailed' = [mailed EXCEPT ![r] = x]
        /\ UNCHANGED faults
     \/ Fault /\ UNCHANGED mailed
  /\ UNCHANGED hooked

Deliver(r) ==
  /\ pc[r] = "output"
  /\ todo[r] = {}
  /\ Passes(r, "output", "complete")

\* complete_run, the last statement of the graph.
CompleteRun(r) ==
  /\ pc[r] = "complete"
  /\ CompleteRecord(r)
  /\ GoTo(r, "done")
  /\ UNCHANGED <<pipelineVars, digest, source, digested, todo, hooked, mailed, clean>>

\* What r needs is not there: its node raises whatever happens outside.
Blocked(r) ==
  CASE pc[r] = "aggregate"   -> Succeeded(r) = {}
    [] pc[r] = "consolidate" -> Loadable(r) = {}
    [] pc[r] = "merge"       -> digest["aggregated"] = Torn
    [] pc[r] = "rank"        -> digest[source[r]] = Torn /\ ~KeepsFile(r, "ranking")
    [] pc[r] = "select"      -> digest["ranking"] = Torn
    [] pc[r] = "generate"    -> Featured(r) = {} /\ ~KeepsFile(r, "newsletter")
    [] pc[r] = "enrich"      -> digest["newsletter"] = Torn /\ ~KeepsFile(r, "enriched")
    [] pc[r] = "translate"   -> digest["enriched"] = Torn /\ ~KeepsFile(r, "final")
    [] OTHER                 -> FALSE

\* The steps at which a call to the outside can raise through the graph.
Exposed(r) ==
  \/ pc[r] \in {"session", "dispatch", "consolidate", "merge", "rank", "select",
                "generate", "enrich", "translate"}
  \/ pc[r] = "output" /\ "webhook" \in todo[r]

\* The digest is stored and its files cannot be written.
LeavesDigest(r) ==
  pc[r] = "generate" /\ ~KeepsFile(r, "newsletter") /\ Featured(r) # {} /\ StoreDigest(r)

\* An exception leaves the graph; nothing calls fail_run.
Fails(r) ==
  /\ \/ Blocked(r) /\ UNCHANGED <<paper, faults>>
     \/ Exposed(r) /\ Fault /\ (UNCHANGED paper \/ LeavesDigest(r))
  /\ GoTo(r, "failed")
  /\ UNCHANGED <<record, known, saved, request, file, reads, at, fresh, unread, digest,
                 source,
                 digested, todo, hooked, mailed, clean>>

-----------------------------------------------------------------------------
\* The process dies.  The digest file being written may be cut short.
FileBeingWritten(r) ==
  IF pc[r] \in {"consolidate", "merge", "rank", "select", "generate", "enrich",
                "translate"}
  THEN {[consolidate |-> "aggregated", merge |-> "merged", rank |-> "ranking",
         select |-> "selection", generate |-> "newsletter",
         enrich |-> "enriched", translate |-> "final"][pc[r]]}
  ELSE {}

Rewrites(r, f) == f \in {"aggregated", "merged", "selection"} \/ ~KeepsFile(r, f)

Crash ==
  /\ Fault
  /\ \E r \in Runs : Live(r)
  /\ PipelineCrash
  /\ \E cut \in SUBSET UNION {{f \in FileBeingWritten(r) : Rewrites(r, f)} : r \in Runs} :
       digest' = [f \in DigestFiles |-> IF f \in cut THEN Torn ELSE digest[f]]
  /\ pc' = [r \in Runs |-> IF Live(r) THEN "lost" ELSE pc[r]]
  /\ UNCHANGED <<record, known, saved, source, digested, todo, hooked, mailed,
                 clean>>

-----------------------------------------------------------------------------
(* The second phase of a selection, at the user's request. *)

UserWrites(f, content) ==
  /\ digest' = [digest EXCEPT ![f] = content]
  /\ UNCHANGED <<trackingVars, pipelineVars, pc, source, digested, todo, hooked,
                 mailed, clean>>

\* save_discussion_selections: some of the ids the selection file offers.
SaveSelections ==
  /\ digest["selection"] \notin {None, Torn}
  /\ \E ids \in (SUBSET digest["selection"]) \ {{}} : UserWrites("chosen", ids)

\* generate_newsletter_phase2: the chosen discussions are looked up in the
\* unmerged file; without any of them the request is refused (400).  Then the
\* base newsletter is written, and the request still ends in an error (500): it
\* asks for an HTML file, which the generation stage does not write.
GeneratePhase2 ==
  /\ None \notin {digest["chosen"], digest["aggregated"], digest["ranking"]}
  /\ Torn \notin {digest["chosen"], digest["aggregated"], digest["ranking"]}
  /\ \E picked \in {{d \in digest["aggregated"] : Id(d) \in digest["chosen"]}} :
       picked # {} /\ UserWrites("selected", picked)

\* Everything has been asked for and has ended.
Finished ==
  /\ \A r \in Runs : pc[r] \in Ends
  /\ UNCHANGED vars

RunStep(r) ==
  \/ EnsureSession(r) \/ CreateRun(r) \/ StartRun(r) \/ SendChats(r)
  \/ \E c \in request[r].chats : Chat(r, c)
  \/ Gather(r) \/ Aggregate(r)
  \/ Consolidate(r) \/ LeaveUnmerged(r) \/ Merge(r) \/ Rank(r)
  \/ PrepareSelection(r) \/ Generate(r) \/ Enrich(r) \/ StoreEnriched(r)
  \/ Translate(r) \/ StoreTranslated(r)
  \/ CallWebhook(r) \/ SendMail(r) \/ Deliver(r) \/ CompleteRun(r)
  \/ Fails(r)

Next ==
  \/ \E r \in Runs : Accept(r) \/ RunStep(r)
  \/ Crash \/ SaveSelections \/ GeneratePhase2
  \/ Finished

Spec == Init /\ [][Next]_vars

-----------------------------------------------------------------------------
(***************************************************************************)
(* The run documents implement RunRecord: whatever the order of dispatch,  *)
(* workers, failures and crashes, a document never leaves its end, never   *)
(* goes back and is written by its own run only (runs.py, the comment on   *)
(* the status).                                                            *)
(***************************************************************************)
Document == INSTANCE RunRecord

ImplementsRunRecord == Document!Spec

(***************************************************************************)
(* A document says completed only for a run whose every chat ended, one of *)
(* them well, whose webhook was delivered and which has no output action   *)
(* left (aggregate_results, output_handler).                               *)
(***************************************************************************)
CompletedMeansDelivered ==
  \A r \in Runs : record[r] = "completed" =>
    /\ \A c \in request[r].chats : at[r][c] \in Settled
    /\ Succeeded(r) # {}
    /\ "webhook" \in request[r].actions => hooked[r]
    /\ todo[r] = {}

(***************************************************************************)
(* A mail links to what its own run extracted, whole, and a mailed digest  *)
(* is about chats that the run itself reports as successful, if the run    *)
(* began in an empty directory, or if it was forced and mails a digest: no *)
(* file of an earlier or a dead run gets through, and no chat that failed  *)
(* (with_cache_check, the skips of consolidation_nodes.py,                 *)
(* _find_best_html_path).                                                  *)
(***************************************************************************)
MailIsOfItsRun ==
  \A r \in Runs :
    /\ mailed[r] # None
    /\ clean[r] \/ (request[r].force /\ digested[r] /\ ~request[r].concurrent)
    => /\ mailed[r] # Torn
       /\ \A d \in mailed[r] : \A p \in d : p[2] = r
       /\ digested[r] => \A d \in mailed[r] : Id(d) \subseteq Succeeded(r)

(***************************************************************************)
(* The readers of a newsletter agree: what the knowledge base ingests,     *)
(* what the agent shows and what the next edition is told not to repeat    *)
(* are versions of one text, whatever files were kept, whichever updates   *)
(* were lost and wherever runs died.  It does not hold of runs at the same *)
(* time, nor of one chat that is forced: its enrichment is not refreshed,  *)
(* and the translation of the old text is stored beside the new original.  *)
(***************************************************************************)
EditionsAreOfOneText ==
  \A r \in Runs, x \in Subjects :
    ~request[r].concurrent /\ (x = Digest \/ ~request[r].force)
    => Cardinality(Readings(r, x)) <= 1
====
