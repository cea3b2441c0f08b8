--------------------------- MODULE MCLinkEnrichment ---------------------------
(* Two discussions, whose links are of one path with different queries. *)
EXTENDS LinkEnrichment, TLC

MCLinks == {<<1, 0, "a">>, <<1, 1, "a">>}
MCDiscussions ==
  << [size |-> 1, links |-> << <<1, 0, "a">> >>],
     [size |-> 1, links |-> << <<1, 1, "a">> >>] >>
MCResults == {<< <<1, 1, "a">> >>}
MCBullets == <<1>>
MCAnswers == {<< <<"linked">> >>}

Spec == EnrichmentInit /\ [][EnrichmentNext]_enrichmentVars
=============================================================================
