---------------------------- MODULE LinkEnrichment ----------------------------
(***************************************************************************)
(* The subgraph that puts links into a newsletter                          *)
(* (src/src/graphs/subgraphs/link_enricher.py): it takes the links of the  *)
(* messages, searches the web for more, drops duplicates, and has a model  *)
(* put them into the bullets, whose answer is merged back by position.     *)
(* Which links are put where is the model's choice and is not modelled.    *)
(***************************************************************************)
EXTENDS Naturals, FiniteSets, Sequences

CONSTANTS Links,          \* <<scheme, host and path, query, spelling: fragment, case>>
          Discussions,    \* the discussions: their size, and the links in their messages
          Results,        \* what a search may bring: sequences of links
          SearchLimit,    \* MAX_DISCUSSIONS_TO_SEARCH
          Bullets,        \* how many bullets each section of the newsletter has
          Answers,        \* what the model may answer: sections of bullets
          MaxEnrichments, \* runs of the subgraph
          NoNewsletter    \* no such file

\* What deduplicate_links tells links apart by.  The query is not in it.
KeyOf(link) == link[1]

\* The page that a link leads to.
PageOf(link) == <<link[1], link[2]>>

ASSUME LinkEnrichmentAssumption ==
  /\ {SearchLimit, MaxEnrichments} \subseteq Nat
  /\ Bullets \in Seq(Nat) /\ Bullets # <<>>
  /\ Answers \subseteq Seq(Seq({"linked", "blank"}))
  /\ Discussions \in Seq([size : Nat, links : Seq(Links)]) /\ Results \subseteq Seq(Links)

VARIABLES enricher,    \* the run of the subgraph
          linksFile,   \* aggregated_links.json
          jsonFile,    \* the enriched newsletter
          mdFile,      \* the same as Markdown
          enrichments  \* runs begun

enrichmentVars == <<enricher, linksFile, jsonFile, mdFile, enrichments>>

\* A newsletter: what each bullet of each section says.  The points worth mentioning
\* have no bullets: the model's are taken as they are.
Original == [s \in DOMAIN Bullets |-> [b \in 1..Bullets[s] |-> "original"]]

NoEnricher == [at |-> "idle", next |-> 1, links |-> <<>>, newsletter |-> Original]

EnrichmentTypeOK ==
  /\ enricher.at \in
       {"idle", "extract", "search", "aggregate", "insert", "json", "md", "done"}
  /\ enricher.next \in 1..(Len(Discussions) + 1)
  /\ \A f \in {jsonFile, mdFile, enricher.newsletter} :
       f # NoNewsletter => DOMAIN f = DOMAIN Bullets
  /\ enrichments \in 0..MaxEnrichments

EnrichmentInit ==
  /\ enricher = NoEnricher /\ enrichments = 0
  /\ linksFile = NoNewsletter /\ jsonFile = NoNewsletter /\ mdFile = NoNewsletter

-----------------------------------------------------------------------------
\* enrich_with_links: an enriched newsletter that is there is not made again.
BeginEnrichment(force) ==
  /\ enricher.at \in {"idle", "done"} /\ enrichments < MaxEnrichments
  /\ enrichments' = enrichments + 1
  /\ enricher' = [NoEnricher EXCEPT !.at =
       IF force \/ jsonFile = NoNewsletter THEN "extract" ELSE "done"]
  /\ UNCHANGED <<linksFile, jsonFile, mdFile>>

\* The links of the messages of the first d discussions, in their order.
LinksUpTo[d \in 0..Len(Discussions)] ==
  IF d = 0 THEN <<>> ELSE LinksUpTo[d - 1] \o Discussions[d].links

\* Those of all.
ExtractLinks ==
  /\ enricher.at = "extract"
  /\ enricher' = [enricher EXCEPT !.at = "search", !.links = LinksUpTo[Len(Discussions)]]
  /\ UNCHANGED <<linksFile, jsonFile, mdFile, enrichments>>

\* Among the largest discussions; of equals the first.
Busy(d) ==
  Cardinality({e \in DOMAIN Discussions :
                 \/ Discussions[e].size > Discussions[d].size
                 \/ Discussions[e].size = Discussions[d].size /\ e < d}) < SearchLimit

\* For each of these the agent searches or does not; a search that fails brings nothing.
SearchDiscussion ==
  /\ enricher.at = "search" /\ enricher.next <= Len(Discussions)
  /\ \E found \in {<<>>} \cup (IF Busy(enricher.next) THEN Results ELSE {}) :
       enricher' = [enricher EXCEPT !.next = @ + 1, !.links = @ \o found]
  /\ UNCHANGED <<linksFile, jsonFile, mdFile, enrichments>>

\* All have been looked at, or the agent cannot be made: no keys.
EndSearch ==
  /\ enricher.at = "search"
  /\ enricher.next \in {1, Len(Discussions) + 1}
  /\ enricher' = [enricher EXCEPT !.at = "aggregate"]
  /\ UNCHANGED <<linksFile, jsonFile, mdFile, enrichments>>

\* Slip: a link is dropped for the one before it only.
DeduplicatedSlip(links) ==
  {links[n] : n \in {m \in DOMAIN links : m = 1 \/ KeyOf(links[m - 1]) # KeyOf(links[m])}}

\* The first link of each key, as it is spelled.  (One that cannot be parsed is skipped;
\* there are none here.)
Deduplicated(links) ==
  {links[n] : n \in {m \in DOMAIN links :
                       \A k \in 1..(m - 1) : KeyOf(links[k]) # KeyOf(links[m])}}

AggregateLinks ==
  /\ enricher.at = "aggregate"
  /\ linksFile' = Deduplicated(enricher.links)
  /\ enricher' = [enricher EXCEPT !.at = "insert"]
  /\ UNCHANGED <<jsonFile, mdFile, enrichments>>

\* The format has its links already, or there are none: the newsletter is copied.
CopyNewsletter ==
  /\ enricher.at = "insert"
  /\ enricher' = [enricher EXCEPT !.at = "json", !.newsletter = Original]
  /\ UNCHANGED <<linksFile, jsonFile, mdFile, enrichments>>

\* Slip: the answer takes the newsletter's place.
MergedSlip(answer) ==
  [s \in DOMAIN Bullets |-> IF s \in DOMAIN answer THEN answer[s] ELSE <<>>]

\* Section by section and bullet by bullet; what the answer lacks stays, what it has too
\* much is dropped, and what comes back without content is blanked.
Merged(answer) ==
  [s \in DOMAIN Bullets |->
     [b \in 1..Bullets[s] |->
        IF s \in DOMAIN answer /\ b \in DOMAIN answer[s] THEN answer[s][b] ELSE "original"]]

\* An answer without a primary discussion is refused.
InsertLinks ==
  /\ enricher.at = "insert" /\ linksFile # {}
  /\ \E answer \in Answers \ {<<>>} :
       enricher' = [enricher EXCEPT !.at = "json", !.newsletter = Merged(answer)]
  /\ UNCHANGED <<linksFile, jsonFile, mdFile, enrichments>>

\* save_newsletter_to_file.
SaveJson ==
  /\ enricher.at = "json"
  /\ jsonFile' = enricher.newsletter
  /\ enricher' = [enricher EXCEPT !.at = "md"]
  /\ UNCHANGED <<linksFile, mdFile, enrichments>>

SaveMarkdown ==
  /\ enricher.at = "md"
  /\ mdFile' = enricher.newsletter
  /\ enricher' = [enricher EXCEPT !.at = "done"]
  /\ UNCHANGED <<linksFile, jsonFile, enrichments>>

\* A file, the model or its answer fails the run.
FailEnrichment ==
  /\ enricher.at \notin {"idle", "done"}
  /\ enricher' = NoEnricher
  /\ UNCHANGED <<linksFile, jsonFile, mdFile, enrichments>>

EnrichmentNext ==
  \/ \E force \in BOOLEAN : BeginEnrichment(force)
  \/ ExtractLinks \/ SearchDiscussion \/ EndSearch \/ AggregateLinks
  \/ CopyNewsletter \/ InsertLinks \/ SaveJson \/ SaveMarkdown \/ FailEnrichment

-----------------------------------------------------------------------------
(***************************************************************************)
(* Whatever the searches bring and the model answers, the links of the     *)
(* discussions are offered to the model with no two alike: of those with   *)
(* one scheme, host and path exactly one, of whatever query.  And the      *)
(* newsletter that is saved has every bullet of the one it was made from,  *)
(* at its place: a short or a long answer neither loses nor adds one       *)
(* ("Preserve all original fields (timestamps, ids, etc.) but update       *)
(* content").                                                              *)
(***************************************************************************)
EnrichmentKeepsBullets ==
  /\ enricher.at = "insert" =>
       \A d \in DOMAIN Discussions : \A n \in DOMAIN Discussions[d].links :
         Cardinality({l \in linksFile : KeyOf(l) = KeyOf(Discussions[d].links[n])}) = 1
  /\ jsonFile # NoNewsletter => \A s \in DOMAIN Bullets : Len(jsonFile[s]) = Bullets[s]

(***************************************************************************)
(* Every page linked to in a discussion is offered to the model ("Test     *)
(* that different URLs are kept").  It does not hold: pages that differ in *)
(* their query have one key, and only the first of them is kept.           *)
(***************************************************************************)
EveryPageIsOffered ==
  enricher.at = "insert" =>
    \A d \in DOMAIN Discussions : \A n \in DOMAIN Discussions[d].links :
      \E l \in linksFile : PageOf(l) = PageOf(Discussions[d].links[n])
=============================================================================
