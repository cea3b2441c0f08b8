------------------------------ MODULE MCServices ------------------------------
(***************************************************************************)
(* The components beside the newsletter run, one of them per behaviour:    *)
(* the first state says which, and the others stay as they begin.  They    *)
(* share no state, so nothing is lost by not interleaving them.            *)
(***************************************************************************)
EXTENDS Extraction, BeeperSession, Translation, Parsing, ProgressStream, AgentTurn,
        DiscussionSelection, Accounts, ApiKeys, Decryption, LinkEnrichment, Images,
        AgentMemory, LlmCall, TLC

CONSTANTS bob, g1

VARIABLE component  \* the one that runs

parts == <<extractionVars, sessionVars, translationVars, parsingVars, streamVars,
           agentVars, selectionVars, accountVars, keyVars, decryptionVars, enrichmentVars,
           imageVars, memoryVars, llmVars>>

vars == <<parts, component>>

-----------------------------------------------------------------------------
(* Instances. *)

\* Two messages, one on each day; the first day and both are asked for.
MCWindows == {<<1, 2>>, <<2, 2>>}
MCSentOn == <<1, 2>>

Event(id, sender, kind, ref, hidden, choice) ==
  [id |-> id, sender |-> sender, kind |-> kind, ref |-> ref, hidden |-> hidden,
   choice |-> choice]

\* A chain of replies whose first message could not be decrypted; a poll with a vote
\* that is taken back; a reply to a message of an earlier chat.
MCRawChats ==
  {<<Event(1, "x", "message", NoRef, TRUE, NoRef), Event(2, "y", "message", 1, FALSE, NoRef),
     Event(3, "x", "message", 2, FALSE, NoRef)>>,
   <<Event(4, "y", "poll", NoRef, FALSE, NoRef), Event(5, "x", "vote", 4, FALSE, "yes"),
     Event(6, "x", "vote", 4, FALSE, "no")>>,
   <<Event(7, "z", "message", 2, FALSE, NoRef), Event(8, "y", "message", 7, FALSE, NoRef)>>}

\* Three discussions, the first two alike and of different chats.
MCThreads == 1..3
MCChatOf == <<"dev", "ops", "ops">>
MCPrefixOf == [dev |-> "d", ops |-> "o"]
MCAlike == {<<1, 2>>, <<2, 1>>}

Grouping(groups, rest) == [groups |-> groups, rest |-> rest]

\* The two that are alike; a group of one; overlapping groups; an unknown id; none.
MCGroupings ==
  {Grouping(<< <<1, 2>> >>, <<3>>), Grouping(<< <<1>> >>, <<2>>),
   Grouping(<< <<1, 2>>, <<2, 3>> >>, << >>), Grouping(<< <<3, 9>>, <<1, 2>> >>, << >>),
   Grouping(<< >>, <<1, 2, 3>>)}

MCGoogle == {<<g1, bob>>}

\* One session: a client has its key from the first message on, or from the second.
MCEncrypted == {<<1, 0>>, <<1, 1>>}
MCExported == <<1>>

\* Two spellings of a page, the same with another query, and another page; a search that
\* finds a page again; answers that are empty, short, and too long.
MCLinks == {<<1, 0, "a">>, <<1, 0, "b">>, <<1, 1, "a">>, <<2, 0, "a">>, <<2, 0, "c">>,
            <<3, 0, "a">>}
MCDiscussions ==
  << [size |-> 3, links |->
                   << <<1, 0, "a">>, <<2, 0, "a">>, <<1, 1, "a">>, <<1, 0, "b">> >>],
     [size |-> 5, links |-> << >>] >>
MCResults == {<< <<2, 0, "c">> >>, << <<3, 0, "a">> >>}
MCBullets == <<2, 1>>
MCAnswers ==
  {<< >>, << <<"linked">> >>, << <<"linked", "blank", "linked">>, <<"linked">>, <<"linked">> >>}

\* Two pictures of one discussion; two sessions, of different users.
MCDiscussionOf == <<"d1", "d1">>
MCUserOf == <<"ann", "bob">>

-----------------------------------------------------------------------------
Init ==
  /\ component \in {"extraction", "session", "translation", "parsing", "stream",
                    "agent", "selection", "accounts", "keys", "decryption",
                    "enrichment", "images", "memory", "llm"}
  /\ ExtractionInit /\ SessionInit /\ TranslationInit /\ ParsingInit /\ StreamInit
  /\ AgentInit /\ SelectionInit /\ AccountsInit /\ ApiKeysInit /\ DecryptionInit
  /\ EnrichmentInit /\ ImagesInit /\ AgentMemoryInit /\ LlmInit
  /\ component # "accounts" => account[Administrator].google = AdminSubject

\* The component that runs takes a step, any other keeps its state.
Part(name, step, own) == IF component = name THEN step ELSE UNCHANGED own

Next ==
  /\ Part("extraction", ExtractionNext, extractionVars)
  /\ Part("session", SessionNext, sessionVars)
  /\ Part("translation", TranslationNext, translationVars)
  /\ Part("parsing", ParsingNext, parsingVars)
  /\ Part("stream", StreamNext, streamVars)
  /\ Part("agent", AgentNext, agentVars)
  /\ Part("selection", SelectionNext, selectionVars)
  /\ Part("accounts", AccountsNext, accountVars)
  /\ Part("keys", ApiKeysNext, keyVars)
  /\ Part("decryption", DecryptionNext, decryptionVars)
  /\ Part("enrichment", EnrichmentNext, enrichmentVars)
  /\ Part("images", ImagesNext, imageVars)
  /\ Part("memory", AgentMemoryNext, memoryVars)
  /\ Part("llm", LlmNext, llmVars)
  /\ UNCHANGED component

\* The endpoint, the workflow and the browser's timer go on.  Nothing is asked of people,
\* models or the network.
Fairness ==
  /\ WF_streamVars(component = "stream" /\ Timeout)
  /\ \A r \in StreamRuns :
       /\ WF_streamVars(component = "stream" /\ WorkflowStep(r))
       /\ WF_streamVars(component = "stream" /\ EndpointStep(r))
       /\ WF_streamVars(component = "stream" /\ ReaderStep(r))

Spec == Init /\ [][Next]_vars /\ Fairness

\* The component that runs is well typed; any other stays as it began.
ServicesTypeOK ==
  /\ component = "extraction" => ExtractionTypeOK
  /\ component = "session" => SessionTypeOK
  /\ component = "translation" => TranslationTypeOK
  /\ component = "parsing" => ParsingTypeOK
  /\ component = "stream" => StreamTypeOK
  /\ component = "agent" => AgentTypeOK
  /\ component = "selection" => SelectionTypeOK
  /\ component = "accounts" => AccountsTypeOK
  /\ component = "keys" => ApiKeysTypeOK
  /\ component = "decryption" => DecryptionTypeOK
  /\ component = "enrichment" => EnrichmentTypeOK
  /\ component = "images" => ImagesTypeOK
  /\ component = "memory" => AgentMemoryTypeOK
  /\ component = "llm" => LlmTypeOK
=============================================================================
