------------------------------ MODULE Translation ------------------------------
(***************************************************************************)
(* The translation of a chat's messages                                    *)
(* (_translate_whatsapp_group_chat_messages in                             *)
(* src/src/core/ingestion/preprocessors/whatsapp.py): messages found in    *)
(* the translation cache with the hash of their present content are        *)
(* served from it, the others go to the LLM provider's batch API           *)
(* (src/src/utils/llm/batch), which is polled until it ends or a time      *)
(* limit passes.  Messages are edited between runs.  A text is a message,  *)
(* the version of its content and whether it has been translated.          *)
(***************************************************************************)
EXTENDS Naturals, FiniteSets

CONSTANTS Translators,      \* runs that translate the same chat
          Providers,        \* the LLM providers: "openai", "anthropic", "gemini"
          ChatLength,       \* its number of messages
          RequestSize,      \* batch_size: messages in one request of a batch
          MaxPolls,         \* polls before the time limit
          MaxEdits,         \* edits in a behaviour
          MaxTranslations,  \* translations begun in a behaviour
          Untranslated      \* no entry in the cache

ASSUME TranslationAssumption ==
  /\ Providers \subseteq {"openai", "anthropic", "gemini"}
  /\ ChatLength \in Nat /\ RequestSize \in Nat \ {0} /\ MaxPolls \in Nat
  /\ MaxEdits \in Nat /\ MaxTranslations \in Nat

VARIABLES content,   \* content[m]: the version of message m
          cached,    \* cached[m]: m's entry, a text; its hash is the text's version
          job,       \* job[t]: the translation t is doing
          misses,    \* whether the provider has left a message out (history)
          started    \* translations begun

translationVars == <<content, cached, job, misses, started>>

Chat == 1..ChatLength
Versions == 1..(MaxEdits + 1)
Texts == [message : Chat, version : Versions, english : BOOLEAN]

NoJob == [at |-> "idle", read |-> [m \in Chat |-> 1], want |-> {}, polls |-> 0,
          output |-> << >>, provider |-> "none"]

TranslationTypeOK ==
  /\ content \in [Chat -> Versions]
  /\ cached \in [Chat -> Texts \cup {Untranslated}]
  /\ \A t \in Translators :
       /\ job[t].at \in {"idle", "lookup", "submit", "poll", "store", "done", "failed"}
       /\ job[t].read \in [Chat -> Versions]
       /\ job[t].want \subseteq Chat
       /\ job[t].polls \in 0..(MaxPolls + 1)
       /\ job[t].output \in [Chat -> Texts] \cup {<< >>}
       /\ job[t].provider \in Providers \cup {"none"}
  /\ misses \in BOOLEAN /\ started \in 0..MaxTranslations

TranslationInit ==
  /\ content = [m \in Chat |-> 1]
  /\ cached = [m \in Chat |-> Untranslated]
  /\ job = [t \in Translators |-> NoJob]
  /\ misses = FALSE /\ started = 0

-----------------------------------------------------------------------------
JobAt(t, step) == job[t].at = step

Text(t, m, english) == [message |-> m, version |-> job[t].read[m], english |-> english]

\* Somebody edits a message.
Edit(m) ==
  /\ content[m] <= MaxEdits
  /\ content' = [content EXCEPT ![m] = @ + 1]
  /\ UNCHANGED <<cached, job, misses, started>>

\* The preprocessed file is read.
StartTranslation(t) ==
  /\ job[t].at \in {"idle", "done", "failed"}
  /\ started < MaxTranslations /\ started' = started + 1
  /\ \E force \in BOOLEAN :
       job' = [job EXCEPT ![t] =
                 [NoJob EXCEPT !.at = IF force THEN "submit" ELSE "lookup",
                               !.want = IF force THEN Chat ELSE {},
                               !.read = content]]
  /\ UNCHANGED <<content, cached, misses>>

\* get_cached_translations: the entries there are for the messages asked for.
CachedTranslations(messages) ==
  [m \in {n \in messages : cached[n] # Untranslated} |-> cached[m]]

Hit(t, m) ==
  /\ m \in DOMAIN CachedTranslations(Chat)
  /\ CachedTranslations(Chat)[m].version = job[t].read[m]

\* _lookup_translation_cache: hits go to the output; if it raises, nothing is a hit.
Lookup(t) ==
  /\ JobAt(t, "lookup")
  /\ \E hits \in {{m \in Chat : Hit(t, m)}, {}} :
       job' = [job EXCEPT
         ![t].want = Chat \ hits,
         ![t].output = [m \in Chat |-> IF m \in hits THEN cached[m]
                                         ELSE Text(t, m, FALSE)],
         ![t].at = IF hits = Chat THEN "done" ELSE "submit"]
  /\ UNCHANGED <<content, cached, misses, started>>

\* The batch is the provider's from now on.
Submit(t, provider) ==
  /\ JobAt(t, "submit") /\ provider \in Providers
  /\ job' = [job EXCEPT ![t].at = "poll", ![t].provider = provider,
                        ![t].output = IF @ = << >> THEN [m \in Chat |-> Text(t, m, FALSE)]
                                      ELSE @]
  /\ UNCHANGED <<content, cached, misses, started>>

\* A file of requests is written, sent, and deleted; a job is created for it.
SubmitToOpenAI(t) == Submit(t, "openai")

\* The requests themselves are sent, the system's message and the schema of the answer
\* in the form that the provider has for them.
SubmitToAnthropic(t) == Submit(t, "anthropic")
SubmitToGemini(t) == Submit(t, "gemini")

\* What a poll finds: how the batch stands, or that the provider does not answer.
Statuses == {"running", "completed", "failed", "expired", "unreachable"}

\* What execute_batch makes of it.
OpenAIPoll(status) ==
  CASE status = "completed" -> "results"
    [] status \in {"failed", "expired"} -> "raise"
    [] OTHER -> "again"

\* A batch has ended whatever became of its requests: each has a result that says so.
AnthropicPoll(status) ==
  IF status \in {"running", "unreachable"} THEN "again" ELSE "results"

\* get_status wraps every error in one that ends the loop; the state of a batch that has
\* expired is not among those it knows.
GeminiPoll(status) ==
  CASE status = "completed" -> "results"
    [] status \in {"failed", "unreachable"} -> "raise"
    [] OTHER -> "again"

Polled(t, status) ==
  CASE job[t].provider = "openai" -> OpenAIPoll(status)
    [] job[t].provider = "anthropic" -> AnthropicPoll(status)
    [] job[t].provider = "gemini" -> GeminiPoll(status)

\* The next poll may come to this.
MayPoll(t, verdict) == verdict \in {Polled(t, status) : status \in Statuses}

OverTime(t) == job[t].polls > MaxPolls

\* execute_batch sleeps and polls again; polls, that is time, go by.
PollAgain(t) ==
  /\ JobAt(t, "poll") /\ ~OverTime(t)
  /\ MayPoll(t, "again")
  /\ job' = [job EXCEPT ![t].polls = @ + 1]
  /\ UNCHANGED <<content, cached, misses, started>>

\* The position of m among the messages sent, and the messages of request i.
Position(t, m) == Cardinality({k \in job[t].want : k < m})

BatchRequests(t) == 0..((Cardinality(job[t].want) - 1) \div RequestSize)

\* Slip: the last message of a request is left out when its answer is read.
InRequestSlip(t, i) ==
  {m \in job[t].want :
     i * RequestSize <= Position(t, m) /\ Position(t, m) < (i + 1) * RequestSize - 1}

InRequest(t, i) ==
  {m \in job[t].want :
     i * RequestSize <= Position(t, m) /\ Position(t, m) < (i + 1) * RequestSize}

\* What the provider holds for a request when its batch has ended: an answer in the form
\* asked for, other text, an answer without text, no answer, an error, or its expiry.
BatchEntries == {"answer", "prose", "blank", "nothing", "error", "expired"}

\* The result that get_results makes of it: JSON, other text, null or an error.
OpenAIResult(entry) ==
  CASE entry = "answer" -> "json"
    [] entry = "prose" -> "text"
    [] entry = "blank" -> "null"
    [] OTHER -> "error"

\* The input of the tool, or else the text.
AnthropicResult(entry) ==
  CASE entry = "answer" -> "json"
    [] entry = "prose" -> "text"
    [] OTHER -> "error"

GeminiResult(entry) ==
  CASE entry = "answer" -> "json"
    [] entry \in {"prose", "blank"} -> "text"
    [] OTHER -> "error"

ResultOf(t, entry) ==
  CASE job[t].provider = "openai" -> OpenAIResult(entry)
    [] job[t].provider = "anthropic" -> AnthropicResult(entry)
    [] job[t].provider = "gemini" -> GeminiResult(entry)

BatchResults(t) == {ResultOf(t, entry) : entry \in BatchEntries}

\* _parse_translation_results: the messages that the answers of the LLM name; those of a
\* request with an error, or whose text is not JSON, stay as they are.
Complete(t) ==
  /\ JobAt(t, "poll") /\ ~OverTime(t)
  /\ MayPoll(t, "results")
  /\ \E result \in [BatchRequests(t) -> BatchResults(t) \ {"null"}] :
     \E named \in SUBSET job[t].want :
       LET good == {i \in BatchRequests(t) : result[i] = "json"}
           translated == UNION {InRequest(t, i) \cap named : i \in good} IN
       /\ job' = [job EXCEPT
            ![t].output = [m \in Chat |-> IF m \in translated THEN Text(t, m, TRUE)
                                          ELSE @[m]],
            ![t].polls = 0, ![t].provider = "none",
            ![t].at = "store"]
       /\ misses' = (misses \/ good # BatchRequests(t) \/ named # job[t].want)
  /\ UNCHANGED <<content, cached, started>>

\* The provider refuses the batch, or a poll raises, or the results are not to be had, or
\* one of them is null: the exception ends the translation.
BatchFails(t) ==
  /\ JobAt(t, "submit")
       \/ (JobAt(t, "poll") /\ ~OverTime(t)
             /\ (MayPoll(t, "results") \/ MayPoll(t, "raise")))
  /\ job' = [job EXCEPT ![t] = [NoJob EXCEPT !.at = "failed"]]
  /\ UNCHANGED <<content, cached, misses, started>>

\* The time is up.  The batch goes on at the provider, and no one asks for it again.
TimeOut(t) ==
  /\ JobAt(t, "poll") /\ OverTime(t)
  /\ job' = [job EXCEPT ![t] = [NoJob EXCEPT !.at = "failed"]]
  /\ UNCHANGED <<content, cached, misses, started>>

\* store_translations: an entry for each text, with the hash of what it was made from.
Upserted(texts) ==
  [m \in Chat |-> IF m \in DOMAIN texts THEN texts[m] ELSE cached[m]]

\* _store_translations_in_cache stores the text of every message sent, one that
\* was left untranslated like the others; a store error is swallowed.
StoreTranslations(t) ==
  /\ JobAt(t, "store")
  /\ \E stored \in {job[t].want, {}} :
       cached' = Upserted([m \in stored |-> job[t].output[m]])
  /\ job' = [job EXCEPT ![t].at = "done", ![t].want = {}]
  /\ UNCHANGED <<content, misses, started>>

\* The TTL monitor drops an entry.
Forget ==
  /\ \E m \in Chat : cached' = [cached EXCEPT ![m] = Untranslated]
  /\ UNCHANGED <<content, job, misses, started>>

TranslationNext ==
  \/ \E m \in Chat : Edit(m)
  \/ \E t \in Translators :
       \/ StartTranslation(t) \/ Lookup(t) \/ PollAgain(t) \/ Complete(t)
       \/ SubmitToOpenAI(t) \/ SubmitToAnthropic(t) \/ SubmitToGemini(t)
       \/ BatchFails(t) \/ TimeOut(t) \/ StoreTranslations(t)
  \/ Forget

-----------------------------------------------------------------------------
(***************************************************************************)
(* What a finished translation says of a message is about the content that *)
(* the message had when it was read, edits and concurrent runs             *)
(* notwithstanding; and as long as the provider has answered for every     *)
(* message it was sent, all of it is translated (_lookup_translation_cache,*)
(* _parse_translation_results).                                            *)
(***************************************************************************)
TranslationsAreCurrent ==
  \A t \in Translators : JobAt(t, "done") =>
    \A m \in Chat :
      /\ job[t].output[m].message = m
      /\ job[t].output[m].version = job[t].read[m]
      /\ misses \/ job[t].output[m].english
=============================================================================
