-------------------------- MODULE NewsletterArchive --------------------------
(***************************************************************************)
(* The newsletters a run leaves in MongoDB                                 *)
(* (src/src/db/repositories/newsletters.py): one document for each chat    *)
(* and one for the digest, created with the original version and updated   *)
(* with an enriched and a translated one.  The derived versions are stored *)
(* fail-soft, and an update whose document is missing matches nothing.     *)
(*                                                                         *)
(* A version is what its text was made of: for a chat the run that         *)
(* extracted the messages, for the digest its discussions.                 *)
(***************************************************************************)
EXTENDS RunTracking

CONSTANTS None, Digest

VARIABLE paper  \* paper[r][x][v]: version v of r's newsletter about x

Subjects == Chats \cup {Digest}

Versions == {"original", "enriched", "translated"}

ArchiveInit == paper = [r \in Runs |-> [x \in Subjects |-> [v \in Versions |-> None]]]

\* create_newsletter: the original version, and no other yet.
CreateNewsletter(r, x, text) ==
  paper' = [paper EXCEPT ![r][x] = [v \in Versions |-> IF v = "original" THEN text
                                                       ELSE None]]

Exists(r, x) == paper[r][x].original # None

\* add_enriched_version and add_translated_version: an update_one that is no upsert.
AddVersion(r, x, version, text) ==
  IF Exists(r, x) THEN paper' = [paper EXCEPT ![r][x][version] = text]
                  ELSE UNCHANGED paper

\* RunTracker.store_newsletter reports an error as False, which nobody reads.
StoreVersion(r, x, version, text) ==
  \/ AddVersion(r, x, version, text) /\ UNCHANGED faults
  \/ Fault /\ UNCHANGED paper

-----------------------------------------------------------------------------
(* What the readers of a document get; None if nothing. *)

\* get_newsletter_content.
ContentOf(r, x, version) == paper[r][x][version]

\* A document is completed by its translated version and by nothing else.
Completed(r, x) == Exists(r, x) /\ paper[r][x].translated # None

\* _get_best_markdown: translated, enriched, original.
BestText(r, x) ==
  LET doc == paper[r][x] IN
  IF doc.translated # None THEN doc.translated
  ELSE IF doc.enriched # None THEN doc.enriched ELSE doc.original

\* The newsletters on offer to the knowledge base (list_sources_filtered), and what
\* it is given of one (extract).
Listed == {d \in Runs \X Subjects : Completed(d[1], d[2])}

IngestedText(r, x) == IF <<r, x>> \in Listed THEN BestText(r, x) ELSE None

\* The agent's get_newsletter, for any newsletter of the run.
AgentText(r, x) == ContentOf(r, x, "original")

\* load_previous_newsletters_from_mongodb: the original of a completed newsletter.
HistoryText(r, x) == IF Completed(r, x) THEN ContentOf(r, x, "original") ELSE None

Readings(r, x) == {IngestedText(r, x), AgentText(r, x), HistoryText(r, x)} \ {None}
=============================================================================
