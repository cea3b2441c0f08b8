-------------------------------- MODULE Parsing --------------------------------
(***************************************************************************)
(* The preprocessing of a chat's raw events                                *)
(* (_parse_and_standardize_raw_whatsapp_messages_with_stats in             *)
(* src/src/core/ingestion/preprocessors/whatsapp.py), chunk by chunk:      *)
(* senders get numbered names from a map that is kept between runs         *)
(* (src/src/db/repositories/sender_map.py), votes are counted for the      *)
(* polls, messages that could not be decrypted are left out, and the       *)
(* others get short ids that the replies refer to.                         *)
(***************************************************************************)
EXTENDS Naturals, FiniteSets, SequencesExt

CONSTANTS Parsers,        \* runs for the same chat
          Senders,        \* its members
          RawChats,       \* the downloads, sequences of events in order of time
          ParseSize,      \* chunk_size: events parsed at a time
          ParsersOverlap, \* whether runs may parse at the same time
          MaxLapses,      \* failures of the sender map's store
          NoRef           \* no reference; no choice

\* The events of a chat are told apart by their ids.
ASSUME ParsingAssumption ==
  /\ ParseSize \in Nat \ {0} /\ ParsersOverlap \in BOOLEAN /\ MaxLapses \in Nat
  /\ \A raw \in RawChats :
       /\ raw \in Seq(ToSet(raw))
       /\ \A m, n \in DOMAIN raw : raw[m].id = raw[n].id => m = n
       /\ \A n \in DOMAIN raw : raw[n].sender \in Senders

VARIABLES names,   \* the stored sender map
          parser,  \* parser[p]: the parsing p is doing
          lapses

parsingVars == <<names, parser, lapses>>

Older == 0  \* "older message"

\* The least id of a message.
FirstId == 1000

Resting == [at |-> "idle", raw |-> << >>, chunk |-> 0, map |-> << >>,
            parsed |-> << >>, polls |-> {}]

ParsingTypeOK ==
  /\ DOMAIN names \subseteq Senders
  /\ \A s \in DOMAIN names : names[s] \in Nat
  /\ \A p \in Parsers :
       /\ parser[p].at \in {"idle", "chunks", "persist", "done"}
       /\ parser[p].raw \in RawChats \cup {<< >>}
       /\ DOMAIN parser[p].map \subseteq Senders
       /\ Len(parser[p].parsed) <= Len(parser[p].raw)
  /\ lapses \in 0..MaxLapses

ParsingInit ==
  /\ names = << >>
  /\ parser = [p \in Parsers |-> Resting]
  /\ lapses = 0

-----------------------------------------------------------------------------
Lapse == lapses < MaxLapses /\ lapses' = lapses + 1

\* _load_persisted_sender_map: without the store the map is empty.
StartParsing(p) ==
  /\ parser[p].at \in {"idle", "done"}
  /\ ParsersOverlap \/ \A q \in Parsers : parser[q].at \in {"idle", "done"}
  /\ \E raw \in RawChats, map \in {names, << >>} :
       /\ IF map = names THEN UNCHANGED lapses ELSE Lapse
       /\ parser' = [parser EXCEPT ![p] =
                       [Resting EXCEPT !.at = "chunks", !.raw = raw, !.map = map]]
  /\ UNCHANGED names

\* The highest number given.
Highest(map) == Max({map[s] : s \in DOMAIN map} \cup {0})

\* A new sender gets the number after the highest.
Named(map, event) ==
  IF event.kind = "vote" THEN map
  ELSE [s \in DOMAIN map \cup {event.sender} |->
          IF s \in DOMAIN map THEN map[s] ELSE 1 + Highest(map)]

\* The map after the first i events.
MapAfter(map, events) ==
  LET after[i \in 0..Len(events)] ==
        IF i = 0 THEN map ELSE Named(after[i - 1], events[i])
  IN  after

\* What a sequence has at some places up to the i-th, in its order.
PickedUpTo(s, places) ==
  LET picked[i \in 0..Len(s)] ==
        IF i = 0 THEN << >>
        ELSE IF i \in places THEN Append(picked[i - 1], s[i]) ELSE picked[i - 1]
  IN  picked

PickedFrom(s, places) == PickedUpTo(s, places)[Len(s)]

\* Of a sender's votes in a poll the last one counts.
LastVote(events, poll, sender) ==
  LET votes == PickedFrom(events, {i \in DOMAIN events :
                 events[i].kind = "vote" /\ events[i].ref = poll
                                         /\ events[i].sender = sender})
  IN IF votes = << >> THEN NoRef ELSE Last(votes).choice

Tally(events, poll) ==
  [s \in {e.sender : e \in {f \in ToSet(events) : f.kind = "vote"}} |->
     LastVote(events, poll, s)]

\* _aggregate_poll_responses: a vote without a choice withdraws the sender's.
Voters(events, poll, choice) ==
  {s \in DOMAIN Tally(events, poll) : Tally(events, poll)[s] = choice}

ChunkEvents(p) ==
  SubSeq(parser[p].raw, parser[p].chunk * ParseSize + 1,
         IF (parser[p].chunk + 1) * ParseSize < Len(parser[p].raw)
         THEN (parser[p].chunk + 1) * ParseSize ELSE Len(parser[p].raw))

Posts(events) == PickedFrom(events, {i \in DOMAIN events : events[i].kind # "vote"})

\* _parse_messages on one chunk, and on nothing but that chunk.
ParseChunk(p) ==
  /\ parser[p].at = "chunks"
  /\ parser[p].chunk * ParseSize < Len(parser[p].raw)
  /\ LET events == ChunkEvents(p)
         posts == Posts(events)
         map == MapAfter(parser[p].map, events)[Len(events)]
         polls == {e \in ToSet(events) : e.kind = "poll"}
     IN parser' = [parser EXCEPT
          ![p].chunk = @ + 1,
          ![p].map = map,
          ![p].parsed = @ \o [i \in DOMAIN posts |->
             [event |-> posts[i].id, name |-> map[posts[i].sender], ref |-> posts[i].ref,
              hidden |-> posts[i].hidden]],
          ![p].polls = @ \cup {[poll |-> e.id, votes |->
             [c \in {v.choice : v \in ToSet(events)} \ {NoRef} |->
                Cardinality(Voters(events, e.id, c))]] : e \in polls}]
  /\ UNCHANGED <<names, lapses>>

\* The short id of an event among the messages that are kept.
ShortId(messages, event) ==
  FirstId - 1 + CHOOSE i \in DOMAIN messages : messages[i].event = event

Kept(messages) == PickedFrom(messages, {i \in DOMAIN messages : ~messages[i].hidden})

\* Slip: the ids are given before the messages are left out.
CleanSlip(messages) ==
  [i \in DOMAIN Kept(messages) |->
     [Kept(messages)[i] EXCEPT
        !.ref = IF @ = NoRef THEN NoRef
                ELSE IF \E m \in ToSet(messages) : m.event = @ THEN ShortId(messages, @)
                ELSE Older]]

\* A reply to a message that is not kept becomes one to an older message.
Clean(messages) ==
  [i \in DOMAIN Kept(messages) |->
     [Kept(messages)[i] EXCEPT
        !.ref = IF @ = NoRef THEN NoRef
                ELSE IF \E m \in ToSet(Kept(messages)) : m.event = @
                THEN ShortId(Kept(messages), @) ELSE Older]]

FinishParsing(p) ==
  /\ parser[p].at = "chunks"
  /\ parser[p].chunk * ParseSize >= Len(parser[p].raw)
  /\ parser' = [parser EXCEPT ![p].parsed = Clean(@), ![p].at = "persist"]
  /\ UNCHANGED <<names, lapses>>

\* Slip: only the senders of this chat's download are stored.
PersistedSlip(p) ==
  [s \in {e.sender : e \in ToSet(parser[p].raw)} \cap DOMAIN parser[p].map |->
     parser[p].map[s]]

Persisted(p) == parser[p].map

\* _persist_sender_map replaces the stored map, or fails and says nothing; an
\* empty chat leaves before it, and an empty map is not stored.
PersistNames(p) ==
  /\ parser[p].at = "persist"
  /\ \/ names' = (IF parser[p].map = << >> THEN names ELSE Persisted(p)) /\ UNCHANGED lapses
     \/ Lapse /\ UNCHANGED names
  /\ parser' = [parser EXCEPT ![p].at = "done"]

\* An event cannot be parsed, or a file, that of the statistics last, written.
FailParsing(p) ==
  /\ parser[p].at \in {"chunks", "persist"}
  /\ parser' = [parser EXCEPT ![p] = Resting]
  /\ UNCHANGED <<names, lapses>>

ParsingNext ==
  \E p \in Parsers :
    \/ StartParsing(p) \/ ParseChunk(p) \/ FinishParsing(p) \/ PersistNames(p)
    \/ FailParsing(p)

-----------------------------------------------------------------------------
Parsed(p) == parser[p].at \in {"persist", "done"}
Output(p) == parser[p].parsed
Raw(p) == ToSet(parser[p].raw)

(***************************************************************************)
(* In the processed file a reply points at the message it answers, by the  *)
(* id that message has there, or at an older message if that one is not    *)
(* there, whatever was left out for want of a key and wherever the chunks  *)
(* were cut.                                                               *)
(***************************************************************************)
RepliesResolve ==
  \A p \in Parsers : Parsed(p) =>
    \A i \in DOMAIN Output(p) :
      LET event == CHOOSE e \in Raw(p) : e.id = Output(p)[i].event
          answered == {j \in DOMAIN Output(p) : Output(p)[j].event = event.ref}
      IN Output(p)[i].ref =
           IF event.ref = NoRef THEN NoRef
           ELSE IF answered = {} THEN Older
           ELSE FirstId - 1 + CHOOSE j \in answered : TRUE

(***************************************************************************)
(* Runs that do not overlap, and whose store does not fail, never give a   *)
(* sender another name, and no runs give two senders the same one          *)
(* (sender_map.py: user_1 always refers to the same real sender across     *)
(* pipeline runs).                                                         *)
(***************************************************************************)
NamesAreKept ==
  [][/\ ~ParsersOverlap /\ lapses' = 0 =>
          \A s \in DOMAIN names : s \in DOMAIN names' /\ names'[s] = names[s]
     /\ \A s, t \in DOMAIN names' : names'[s] = names'[t] => s = t]_parsingVars
=============================================================================
