-------------------------- MODULE DiscussionSelection --------------------------
(***************************************************************************)
(* How the discussions of a consolidated newsletter are chosen: a model    *)
(* sorts the messages of each chat into discussions                        *)
(* (src/src/core/ingestion/preprocessors/whatsapp.py), similar ones are    *)
(* merged                                                                  *)
(* (src/src/core/retrieval/mergers/discussion_merger.py), the rest ranked  *)
(* by a model, reordered for diversity and sorted into categories          *)
(* (src/src/core/retrieval/rankers/discussion_ranker.py, mmr_reranker.py). *)
(* What the models answer is any of a small set of answers, good and bad.  *)
(***************************************************************************)
EXTENDS Integers, FiniteSets, SequencesExt

CONSTANTS Threads,     \* the discussions, numbered by the time of their first message
          ChatOf,      \* the chat of each
          PrefixOf,    \* the chats' names as the ids of discussions have them
          LocalIds,    \* ids that a model may give a discussion
          NoId,        \* it gives none
          DistinctIds, \* whether it gives each discussion of a chat an id of its own
          Alike,       \* pairs whose embeddings are similar, a symmetric relation
          Groupings,   \* what a model may answer: [groups, rest], sequences of ids
          Ranks,       \* the ranks a model may give, and the default of one left out
          Scores,      \* the scores, likewise
          MaxRanked,   \* entries of its ranking
          TopK,        \* top_k_discussions
          Lambda       \* mmr_lambda, in tenths

ASSUME SelectionAssumption ==
  /\ Threads \subseteq Nat /\ IsFiniteSet(Threads) /\ Alike \subseteq Threads \X Threads
  /\ \A answer \in Groupings : answer.groups \in Seq(Seq(Nat)) /\ answer.rest \in Seq(Nat)
  /\ Lambda \in 0..10 /\ TopK \in Nat /\ MaxRanked \in Nat
  /\ Ranks \subseteq Int /\ Scores \subseteq Int /\ IsFiniteSet(Scores)
  /\ LocalIds \subseteq Nat /\ DistinctIds \in BOOLEAN

VARIABLES stage,     \* what comes next
          idOf,      \* the id of each discussion within its chat
          embedded,  \* whether the embeddings could be computed
          items,     \* the discussions after merging, as sets of their sources
          ranked,    \* the ranking
          featured   \* the featured items

selectionVars == <<stage, idOf, embedded, items, ranked, featured>>

\* An id in a ranking that no item has: the model made it up.
MadeUp == 0

Entries == [item : DOMAIN items \cup {MadeUp}, rank : Ranks, score : Scores, skip : BOOLEAN]

SelectionTypeOK ==
  /\ idOf \in [Threads -> Nat]
  /\ stage \in {"separate", "merge", "rank", "rerank", "categorise", "done"}
  /\ embedded \in BOOLEAN
  /\ \A i \in DOMAIN items : items[i] \subseteq Threads
  /\ ranked \in Seq(Entries) /\ Len(ranked) <= MaxRanked
  /\ featured \subseteq DOMAIN items \cup {MadeUp}

SelectionInit ==
  /\ stage = "separate" /\ embedded = TRUE
  /\ idOf = [d \in Threads |-> 0]
  /\ items = << >> /\ ranked = << >> /\ featured = {}

-----------------------------------------------------------------------------
(* Separating. *)

\* The place of a discussion among those of its chat.
Ordinal(d) == Cardinality({e \in Threads : ChatOf[e] = ChatOf[d] /\ e <= d})

Distinct(ids) ==
  \A d, e \in Threads : ChatOf[d] = ChatOf[e] /\ ids[d] = ids[e] => d = e

\* _separate_whatsapp_group_message_discussions, of every chat: a discussion that the
\* model gave no id is called after its place.
SeparateThreads ==
  /\ stage = "separate"
  /\ \E given \in [Threads -> LocalIds \cup {NoId}] :
       LET ids == [d \in Threads |-> IF given[d] = NoId THEN Ordinal(d) ELSE given[d]] IN
       /\ DistinctIds => Distinct(ids)
       /\ idOf' = ids
  /\ stage' = "merge"
  /\ UNCHANGED <<embedded, items, ranked, featured>>

\* consolidate_discussions puts the name of the chat before the id, with an underscore for
\* each of its characters that is not a letter or a digit.
FullId(d) == <<PrefixOf[ChatOf[d]], idOf[d]>>

-----------------------------------------------------------------------------
(* Merging. *)

\* Pairs of different chats whose similarity is above the threshold.
Candidates == {p \in Alike : ChatOf[p[1]] # ChatOf[p[2]]}

\* Slip: ids that the model made up are kept.
KnownSlip(ids) == ToSet(ids)

\* The discussions by their ids: of those with the same one the last.
ById(d) ==
  CHOOSE e \in Threads :
    /\ FullId(e) = FullId(d)
    /\ \A f \in Threads : FullId(f) = FullId(d) => f <= e

Known(ids) == {ById(d) : d \in ToSet(ids) \cap Threads}

\* Slip: the member of a group of one is not put back.
ItemOfSlip(ids) == IF Cardinality(Known(ids)) < 2 THEN {} ELSE Known(ids)

\* A group with less than two known members is not merged: the one it has stands alone,
\* and of none there is no item.
ItemOf(ids) == Known(ids)

\* A set as a sequence, in a strict order of its elements.
InOrder(set, order) ==
  [i \in 1..Cardinality(set) |->
     CHOOSE x \in set : Cardinality({y \in set : <<y, x>> \in order}) = i - 1]

Ascending(set) == InOrder(set, {p \in set \X set : p[1] < p[2]})

FirstMessage(item) == CHOOSE d \in item : \A e \in item : d <= e

\* The order of places in a list by the items there: the latest is first, and of equals
\* the one that is first in the list.
LatestFirst(list, places) ==
  {p \in places \X places :
     \/ FirstMessage(list[p[1]]) > FirstMessage(list[p[2]])
     \/ FirstMessage(list[p[1]]) = FirstMessage(list[p[2]]) /\ p[1] < p[2]}

\* merge_discussions: the groups, then the standalone ones, sorted.
MergedThread(groups, rest) ==
  LET list == [g \in DOMAIN groups |-> ItemOf(groups[g])]
                \o [i \in DOMAIN rest |-> Known(<<rest[i]>>)]
      places == {i \in DOMAIN list : list[i] # {}}
      sorted == InOrder(places, LatestFirst(list, places))
  IN [i \in DOMAIN sorted |-> list[sorted[i]]]

\* The discussions whose ids are in a group.
Grouped(groups) ==
  LET named == (UNION {ToSet(groups[g]) : g \in DOMAIN groups}) \cap Threads IN
  {d \in Threads : \E e \in named : FullId(e) = FullId(d)}

\* identify_merge_groups: the model is asked about everything, and both of its lists are
\* believed.
ByModelAlone(answer) == answer

\* identify_merge_groups_hybrid: it is asked about the candidate pairs, if there are any,
\* and what it does not group stands alone.
Hybrid(answer) ==
  IF Candidates = {} THEN [groups |-> << >>, rest |-> Ascending(Threads)]
  ELSE [groups |-> answer.groups, rest |-> Ascending(Threads \ Grouped(answer.groups))]

\* DiscussionMerger.merge; there may be no embeddings to be had.
MergeSimilar ==
  /\ stage = "merge"
  /\ \E e \in BOOLEAN, answer \in Groupings :
       LET found == IF e THEN Hybrid(answer) ELSE ByModelAlone(answer) IN
       /\ embedded' = e
       /\ items' = IF Cardinality(Threads) < 2 THEN MergedThread(<< >>, Ascending(Threads))
                   ELSE MergedThread(found.groups, found.rest)
  /\ stage' = "rank"
  /\ UNCHANGED <<idOf, ranked, featured>>

-----------------------------------------------------------------------------
(* Ranking. *)

\* rank_with_llm: nothing of the answer is checked but that it is a list.  It may name
\* an item twice or not at all, or one that there is none of, and give any ranks.  An
\* answer that cannot be read fails the run, which ends here.
RankItems ==
  /\ stage = "rank"
  /\ \E n \in 0..MaxRanked : \E answer \in [1..n -> Entries] : ranked' = answer
  /\ stage' = "rerank"
  /\ UNCHANGED <<idOf, embedded, items, featured>>

\* Whether two entries are similar.  An item that was made up is embedded by what the
\* model says of it, which may be like anything: like says what.
Similar(list, i, j, like) ==
  IF MadeUp \in {list[i].item, list[j].item} THEN {i, j} \in like
  ELSE \E d \in items[list[i].item], e \in items[list[j].item] : d = e \/ <<d, e>> \in Alike

TopScore(list) ==
  CHOOSE n \in Scores : /\ \E r \in ToSet(list) : r.score = n
                        /\ \A r \in ToSet(list) : r.score <= n

\* The scores are divided by the highest, or taken as 0 if none is positive; here the
\* similarities are multiplied by it.
Quality(list, i) == IF TopScore(list) > 0 THEN list[i].score ELSE 0

Unit(list) == IF TopScore(list) > 0 THEN TopScore(list) ELSE 1

Penalty(list, taken, i, like) ==
  IF \E j \in ToSet(taken) : Similar(list, i, j, like) THEN 1 ELSE 0

Value(list, taken, i, lambda, like) ==
  lambda * Quality(list, i) - (10 - lambda) * Unit(list) * Penalty(list, taken, i, like)

\* Of what remains the best, of equals the first.
Best(list, taken, lambda, like) ==
  CHOOSE i \in DOMAIN list \ ToSet(taken) : \A j \in DOMAIN list \ ToSet(taken) :
    \/ Value(list, taken, i, lambda, like) > Value(list, taken, j, lambda, like)
    \/ Value(list, taken, i, lambda, like) = Value(list, taken, j, lambda, like) /\ i <= j

\* rank_with_mmr
Diverse(list, lambda, like) ==
  LET taken[n \in 0..Len(list)] ==
        IF n = 0 THEN << >>
        ELSE Append(taken[n - 1], Best(list, taken[n - 1], lambda, like))
  IN [i \in DOMAIN list |-> list[taken[Len(list)][i]]]

\* apply_mmr_reranking, which keeps the ranking if anything in it raises.
RerankItems ==
  /\ stage = "rerank"
  /\ \E like \in SUBSET kSubset(2, DOMAIN ranked) :
       ranked' \in {ranked, IF Len(ranked) < 2 THEN ranked
                            ELSE Diverse(ranked, Lambda, like)}
  /\ stage' = "categorise"
  /\ UNCHANGED <<idOf, embedded, items, featured>>

\* apply_top_k_categorization goes by the ranks the model gave, whatever they are, and
\* the ids.
Categorise ==
  /\ stage = "categorise"
  /\ featured' = {r.item : r \in {q \in ToSet(ranked) : ~q.skip /\ q.rank <= TopK}}
  /\ stage' = "done"
  /\ UNCHANGED <<idOf, embedded, items, ranked>>

SelectionNext == SeparateThreads \/ MergeSimilar \/ RankItems \/ RerankItems \/ Categorise

-----------------------------------------------------------------------------
(***************************************************************************)
(* Merging loses no discussion, whatever a model groups with what, when    *)
(* the embeddings could be computed: groups of one, groups of strangers    *)
(* and overlapping groups included.  (Without embeddings the model's own   *)
(* list of the rest is believed; and two discussions of one chat that the  *)
(* model gives the same id are one to merge_discussions.)                  *)
(***************************************************************************)
MergingLosesNothing ==
  embedded /\ stage \notin {"separate", "merge"} =>
    UNION {items[i] : i \in DOMAIN items} = Threads
=============================================================================
