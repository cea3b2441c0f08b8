-------------------------------- MODULE LlmCall --------------------------------
(***************************************************************************)
(* One call of a language model: a method of one of the providers          *)
(* (src/src/utils/llm/*_provider.py), or the chain that the ranking calls  *)
(* directly (src/src/core/retrieval/rankers/discussion_ranker.py), under   *)
(* the decorator that tries again with growing pauses                      *)
(* (src/src/utils/llm/retry.py).                                           *)
(***************************************************************************)
EXTENDS Naturals

CONSTANTS Callers,    \* calls under way at the same time
          Sites,      \* the providers, "openai", "anthropic", "gemini", and "chain"
          MaxRetries, \* max_retries
          BaseDelay,  \* base_delay
          MaxDelay    \* max_delay

ASSUME LlmAssumption ==
  /\ Sites \subseteq {"openai", "anthropic", "gemini", "chain"}
  /\ MaxRetries \in Nat /\ BaseDelay \in Nat /\ MaxDelay \in Nat

VARIABLES call,  \* call[c]: what is called, how often it has been, what came of it
          slept  \* slept[c]: the pauses so far

llmVars == <<call, slept>>

\* Structured output, its prompt built for a purpose; structured and JSON output for a
\* prompt that is given; plain text; text about a picture, which only OpenAI has.
Methods == {"structured", "generic", "json", "simple", "vision"}

\* What the model's side may do: answer in the form asked for, answer in text that is not
\* JSON, answer nothing, fail for a moment (a rate, a timeout, the network, a server
\* error), or refuse.
ModelReplies == {"good", "text", "empty", "transient", "refused"}

\* What may keep a method from asking: there is no API key, or the builder of the prompt
\* misses an input.
Obstacles(method) == {"no key"} \cup (IF method = "structured" THEN {"no input"} ELSE {})

LlmOutcomes ==
  {"value", "blank", "ConfigurationError", "LLMResponseError", "LLMError", "transient",
   "refused"}

NoCall == [at |-> "idle", site |-> "none", method |-> "none", tries |-> 0,
              pause |-> 0, reply |-> "none", outcome |-> "none"]

LlmTypeOK ==
  /\ \A c \in Callers :
       /\ call[c].at \in {"idle", "try", "wait", "done"}
       /\ call[c].site \in Sites \cup {"none"}
       /\ call[c].method \in Methods \cup {"none"}
       /\ call[c].tries \in 0..(MaxRetries + 1) /\ call[c].pause \in 0..MaxDelay
       /\ call[c].reply \in ModelReplies \cup Obstacles("structured") \cup {"none"}
       /\ call[c].outcome \in LlmOutcomes \cup {"none"}
  /\ slept \in [Callers -> Nat]

LlmInit ==
  /\ call = [c \in Callers |-> NoCall]
  /\ slept = [c \in Callers |-> 0]

-----------------------------------------------------------------------------
(* What a method makes of a reply: a value, or what it raises.  Every error of the      *)
(* client library becomes an LLMError inside the method.                                *)

ReplyFails(reply) == reply \in {"transient", "refused"}

\* json.loads(None) is a TypeError.
OpenAIStructured(reply) ==
  CASE reply = "good" -> "value"
    [] reply = "text" -> "LLMResponseError"
    [] reply = "no key" -> "ConfigurationError"
    [] OTHER -> "LLMError"

\* The clause that lets a ConfigurationError through is in the other method only.
OpenAIJson(reply) ==
  CASE reply = "good" -> "value"
    [] reply = "text" -> "LLMResponseError"
    [] OTHER -> "LLMError"

OpenAIText(reply) == IF reply \in {"good", "text"} THEN "value" ELSE "LLMError"

\* The tool's input, or the text if it is JSON.  The LLMResponseError raised for an empty
\* answer is caught by the method's own except clause.
AnthropicStructured(reply) ==
  CASE reply = "good" -> "value"
    [] reply = "text" -> "LLMResponseError"
    [] reply = "no key" -> "ConfigurationError"
    [] OTHER -> "LLMError"

AnthropicJson(reply) ==
  CASE reply = "good" -> "value"
    [] reply = "text" -> "LLMResponseError"
    [] OTHER -> "LLMError"

\* No text is returned as the empty string.
AnthropicText(reply) ==
  CASE reply \in {"good", "text"} -> "value"
    [] reply = "empty" -> "blank"
    [] OTHER -> "LLMError"

GeminiJson(reply) ==
  CASE reply = "good" -> "value"
    [] reply \in {"text", "empty"} -> "LLMResponseError"
    [] reply = "no key" -> "ConfigurationError"
    [] OTHER -> "LLMError"

\* No text is returned as None.
GeminiText(reply) ==
  CASE reply \in {"good", "text"} -> "value"
    [] reply = "empty" -> "blank"
    [] OTHER -> "LLMError"

\* The answer is parsed after the call, outside the decorator.
Chain(reply) == IF ReplyFails(reply) THEN reply ELSE "value"

OpenAI(method, reply) ==
  CASE method = "structured" -> OpenAIStructured(reply)
    [] method \in {"generic", "json"} -> OpenAIJson(reply)
    [] OTHER -> OpenAIText(reply)

Anthropic(method, reply) ==
  CASE method = "structured" -> AnthropicStructured(reply)
    [] method \in {"generic", "json"} -> AnthropicJson(reply)
    [] OTHER -> AnthropicText(reply)

Gemini(method, reply) == IF method = "simple" THEN GeminiText(reply) ELSE GeminiJson(reply)

Outcome(site, method, reply) ==
  CASE site = "chain" -> Chain(reply)
    [] site = "openai" -> OpenAI(method, reply)
    [] site = "anthropic" -> Anthropic(method, reply)
    [] site = "gemini" -> Gemini(method, reply)

MethodsOf(site) ==
  CASE site = "openai" -> Methods
    [] site = "chain" -> {"simple"}
    [] OTHER -> Methods \ {"vision"}

-----------------------------------------------------------------------------
(* with_retry. *)

Retryable(outcome) == outcome = "transient"

\* The pause after the n-th try, without the jitter.
Delay(n) ==
  LET doubled == BaseDelay * 2^(n - 1) IN IF doubled < MaxDelay THEN doubled ELSE MaxDelay

StartRequest(c) ==
  /\ call[c].at = "idle"
  /\ \E site \in Sites : \E method \in MethodsOf(site) :
       call' = [call EXCEPT ![c] =
         [NoCall EXCEPT !.at = "try", !.site = site, !.method = method]]
  /\ UNCHANGED slept

Try(c) ==
  /\ call[c].at = "try"
  /\ \E reply \in ModelReplies
                    \cup (IF call[c].site = "chain" THEN {} ELSE Obstacles(call[c].method)) :
       LET outcome == Outcome(call[c].site, call[c].method, reply)
           tries == call[c].tries + 1 IN
       call' = [call EXCEPT ![c] =
         IF Retryable(outcome) /\ tries <= MaxRetries
         THEN [@ EXCEPT !.at = "wait", !.tries = tries, !.reply = reply,
                        !.pause = Delay(tries)]
         ELSE [@ EXCEPT !.at = "done", !.tries = tries, !.reply = reply,
                        !.outcome = outcome]]
  /\ UNCHANGED slept

Wake(c) ==
  /\ call[c].at = "wait"
  /\ call' = [call EXCEPT ![c].at = "try", ![c].pause = 0]
  /\ slept' = [slept EXCEPT ![c] = @ + call[c].pause]

\* The task that waits is cancelled: its shutdown, a client that is gone.
Abandon(c) ==
  /\ call[c].at \in {"try", "wait"}
  /\ call' = [call EXCEPT ![c] = NoCall]
  /\ slept' = [slept EXCEPT ![c] = 0]

\* The result is taken, and another call may follow.
TakeResult(c) ==
  /\ call[c].at = "done"
  /\ call' = [call EXCEPT ![c] = NoCall]
  /\ slept' = [slept EXCEPT ![c] = 0]

LlmNext ==
  \E c \in Callers : StartRequest(c) \/ Try(c) \/ Wake(c) \/ Abandon(c) \/ TakeResult(c)

-----------------------------------------------------------------------------
(***************************************************************************)
(* A call fails for a transient reason only after it has been tried        *)
(* MaxRetries + 1 times ("retrying both sync and async functions with      *)
(* configurable retry logic for transient LLM provider API failures.       *)
(* Supports OpenAI, Anthropic, and Gemini exceptions dynamically",         *)
(* retry.py), with pauses that double from BaseDelay to MaxDelay.          *)
(***************************************************************************)
TransientFailuresAreRetried ==
  \A c \in Callers :
    call[c].at = "done" /\ call[c].reply = "transient" =>
      /\ call[c].tries = MaxRetries + 1
      /\ slept[c] >= MaxRetries * (IF BaseDelay < MaxDelay THEN BaseDelay ELSE MaxDelay)
=============================================================================
