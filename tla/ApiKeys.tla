-------------------------------- MODULE ApiKeys --------------------------------
(***************************************************************************)
(* The keys of one podcast consumer.  A verification token is mailed on    *)
(* request and exchanged, once, for a key that replaces the consumer's     *)
(* last one (src/src/api/podcast_consumers.py over                         *)
(* db/repositories/podcast_api_consumers.py and rag_api_keys.py).  The     *)
(* MCP transport looks a key up when a request arrives and again, when     *)
(* that was some time ago, before a tool runs                              *)
(* (src/src/rag/mcp/auth_context.py), and asks whether its scope has the   *)
(* tool (src/src/rag/auth/scopes.py).  The shared internal bearer and      *)
(* callers without any key have records of their own that no store holds.  *)
(***************************************************************************)
EXTENDS Naturals, FiniteSets

CONSTANTS Reauth,      \* mcp_key_reauth_ttl_seconds, in ticks
          TokenLife,   \* podcast_consumer_token_ttl_minutes, in ticks
          PerDay,      \* podcast_consumer_max_requests_per_email_per_day
          LongestRead, \* ticks from a read of the store to what is done with it
          MaxAsks,     \* requests for a token, or exchanges of one, under way together
          MaxTokens,   \* tokens ever made
          MaxNow,      \* the last tick, within a day of the first
          PublicMode,  \* mcp_public_mode
          Keyless,     \* a caller without a bearer (mcp_anonymous_enabled)
          Internal,    \* the shared bearer (mcp_api_key)
          NoKey        \* no token, no key, no time

ASSUME ApiKeysAssumption ==
  /\ {Reauth, TokenLife, PerDay, LongestRead, MaxAsks, MaxTokens, MaxNow} \subseteq Nat
  /\ \A other \in {Keyless, Internal, NoKey} : other \notin Nat
  /\ NoKey \notin {Keyless, Internal}

Keys == 1..MaxTokens
Times == 0..MaxNow

\* PUBLIC_MCP_TOOLS, and one of those that only an internal deployment has.
PublicTools == {"search_podcasts"}
Tools == PublicTools \cup {"rag_query"}

VARIABLES now,
          consumer,   \* the consumer's document; its token's number and its key's
          tokens,     \* tokens made (the request_timestamps of the document)
          asks,       \* requests for a token that have passed the count
          exchanges,  \* exchanges under way: what each does next
          enabled,    \* the keys that are enabled
          issued,     \* keys issued
          stopped,    \* stopped[k]: when k was revoked (history)
          request,    \* the MCP request in flight
          usedAt,     \* usedAt[k]: when a tool last ran for k (history)
          trusted     \* for whom an internal tool ran (history)

storeVars == <<now, consumer, tokens, asks, exchanges, enabled, issued, stopped>>

keyVars == <<storeVars, request, usedAt, trusted>>

Principals == Keys \cup {Keyless, Internal}

NoRequest == [at |-> "idle", key |-> NoKey, read |-> NoKey, resolved |-> NoKey]

ApiKeysTypeOK ==
  /\ now \in Times
  /\ consumer \in [token : Keys \cup {NoKey}, expires : Nat \cup {NoKey},
                   key : Keys \cup {NoKey}]
  /\ tokens \in 0..MaxTokens /\ asks \in 0..MaxAsks /\ issued \in 0..MaxTokens
  /\ exchanges \subseteq
       [at : {"revoke", "issue", "mark"}, token : Keys, prior : Keys \cup {NoKey},
        key : Keys \cup {NoKey}]
  /\ enabled \subseteq 1..issued
  /\ stopped \in [Keys -> Times \cup {NoKey}] /\ usedAt \in [Keys -> Times \cup {NoKey}]
  /\ request \in [at : {"idle", "found", "open", "again", "bare"},
                  key : Principals \cup {NoKey}, read : Times \cup {NoKey},
                  resolved : Times \cup {NoKey}]
  /\ trusted \subseteq Principals

ApiKeysInit ==
  /\ now = 0
  /\ consumer = [token |-> NoKey, expires |-> NoKey, key |-> NoKey]
  /\ tokens = 0 /\ asks = 0 /\ issued = 0
  /\ exchanges = {} /\ enabled = {}
  /\ stopped = [k \in Keys |-> NoKey] /\ usedAt = [k \in Keys |-> NoKey]
  /\ request = NoRequest /\ trusted = {}

-----------------------------------------------------------------------------
(* Tokens. *)

\* request_key counts the requests of the last day, all of which are in the document.
AskForToken ==
  /\ tokens < PerDay /\ asks < MaxAsks
  /\ asks' = asks + 1
  /\ UNCHANGED <<now, consumer, tokens, exchanges, enabled, issued, stopped, request,
                 usedAt, trusted>>

\* create_or_refresh_pending: the new token takes the place of the last.
MailToken ==
  /\ asks > 0 /\ tokens < MaxTokens
  /\ asks' = asks - 1
  /\ tokens' = tokens + 1
  /\ consumer' = [consumer EXCEPT !.token = tokens', !.expires = now + TokenLife]
  /\ UNCHANGED <<now, exchanges, enabled, issued, stopped, request,
                 usedAt, trusted>>

\* Slip: the key that the consumer has is left as it is.
FirstStepSlip(prior) == "issue"

FirstStep(prior) == IF prior = NoKey THEN "issue" ELSE "revoke"

\* consume_token: one update finds the token and removes it; it returns the document as
\* it was, with the key to replace.
ConsumeToken ==
  /\ consumer.token # NoKey /\ consumer.expires > now
  /\ Cardinality(exchanges) < MaxAsks
  /\ exchanges' = exchanges \cup
                    {[at |-> FirstStep(consumer.key), token |-> consumer.token,
                      prior |-> consumer.key, key |-> NoKey]}
  /\ consumer' = [consumer EXCEPT !.token = NoKey, !.expires = NoKey]
  /\ UNCHANGED <<now, tokens, asks, enabled, issued, stopped, request,
                 usedAt, trusted>>

GoOn(x, at, key) == exchanges' = (exchanges \ {x}) \cup {[x EXCEPT !.at = at, !.key = key]}

\* revoke of RAGApiKeysRepository.
Revoke(k) ==
  /\ enabled' = enabled \ {k}
  /\ stopped' = [stopped EXCEPT ![k] = IF @ = NoKey THEN now ELSE @]

RevokePrior(x) ==
  /\ x.at = "revoke"
  /\ Revoke(x.prior)
  /\ GoOn(x, "issue", NoKey)
  /\ UNCHANGED <<now, consumer, tokens, asks, issued, request, usedAt, trusted>>

IssueKey(x) ==
  /\ x.at = "issue"
  /\ issued' = issued + 1
  /\ enabled' = enabled \cup {issued'}
  /\ GoOn(x, "mark", issued')
  /\ UNCHANGED <<now, consumer, tokens, asks, stopped, request, usedAt, trusted>>

\* mark_verified removes the token of the document too, if one was made meanwhile.
MarkVerified(x) ==
  /\ x.at = "mark"
  /\ consumer' = [token |-> NoKey, expires |-> NoKey, key |-> x.key]
  /\ exchanges' = exchanges \ {x}
  /\ UNCHANGED <<now, tokens, asks, enabled, issued, stopped, request,
                 usedAt, trusted>>

\* A write fails, or the process ends: the token is spent.
AbandonExchange(x) ==
  /\ exchanges' = exchanges \ {x}
  /\ UNCHANGED <<now, consumer, tokens, asks, enabled, issued, stopped, request,
                 usedAt, trusted>>

-----------------------------------------------------------------------------
(* Requests of the transport. *)

\* The middleware: resolve_key_record finds a key that is enabled by its hash, knows the
\* shared bearer, and makes a record for a caller without any.  A bearer it does not find
\* is refused.
FindKey ==
  /\ request.at = "idle"
  /\ \E k \in enabled \cup {Keyless, Internal} :
       request' = [NoRequest EXCEPT !.at = "found", !.key = k, !.read = now]
  /\ UNCHANGED <<storeVars, usedAt, trusted>>

\* The record that was read gets the time at which it is bound to the request.
Stamp ==
  /\ request.at = "found"
  /\ request' = [request EXCEPT !.at = "open", !.read = NoKey, !.resolved = now]
  /\ UNCHANGED <<storeVars, usedAt, trusted>>

\* The tool's task may not have inherited the record.
LoseRecord ==
  /\ request.at = "open"
  /\ request' = [request EXCEPT !.at = "bare", !.resolved = NoKey]
  /\ UNCHANGED <<storeVars, usedAt, trusted>>

\* It then resolves the bearer of its request itself; without a record it is refused.
RecordOfRequest ==
  /\ request.at = "bare"
  /\ request' = IF request.key \in enabled \cup {Keyless, Internal}
                THEN [request EXCEPT !.at = "found", !.read = now] ELSE NoRequest
  /\ UNCHANGED <<storeVars, usedAt, trusted>>

\* build_server: in public mode the other tools are not there.
Registered(tool) == tool \in PublicTools \/ ~PublicMode

\* A key of a consumer is for podcast queries, as is the record of a caller without one.
Scope(caller) == IF caller = Internal THEN "full" ELSE "podcast_query"

Allowed(caller, tool) == Scope(caller) = "full" \/ tool \in PublicTools

\* Slip: a record that has been resolved once stays good.
FreshSlip == TRUE

\* What is not in the store is never read again.
Fresh == request.key \in {Keyless, Internal} \/ now < request.resolved + Reauth

\* The tool runs if it is there and the caller may have it; otherwise it is refused.
RunIfAllowed ==
  \/ \E tool \in Tools :
       /\ Registered(tool) /\ Allowed(request.key, tool)
       /\ trusted' = trusted \cup (IF tool \in PublicTools THEN {} ELSE {request.key})
       /\ usedAt' = [k \in Keys |-> IF k = request.key THEN now ELSE usedAt[k]]
  \/ UNCHANGED <<usedAt, trusted>>

\* authorize_current_tool with a record that is fresh; a request holds one call.
CallTool ==
  /\ request.at = "open" /\ Fresh
  /\ RunIfAllowed
  /\ request' = NoRequest
  /\ UNCHANGED storeVars

\* The record is not fresh: the key is read again, and the call refused if it is not
\* enabled.
ReadKeyAgain ==
  /\ request.at = "open" /\ ~Fresh
  /\ request' = IF request.key \in enabled
                THEN [request EXCEPT !.at = "again", !.read = now] ELSE NoRequest
  /\ UNCHANGED <<storeVars, usedAt, trusted>>

\* The call goes on with the record it has read.
CallToolAgain ==
  /\ request.at = "again"
  /\ RunIfAllowed
  /\ request' = NoRequest
  /\ UNCHANGED storeVars

\* The request asks for no tool, or its client leaves.
CloseRequest ==
  /\ request.at = "open"
  /\ request' = NoRequest
  /\ UNCHANGED <<storeVars, usedAt, trusted>>

\* Time passes, but what has been read is not older than the longest read.
TickKeys ==
  /\ now < MaxNow
  /\ request.read # NoKey => now < request.read + LongestRead
  /\ now' = now + 1
  /\ UNCHANGED <<consumer, tokens, asks, exchanges, enabled, issued, stopped, request,
                 usedAt, trusted>>

ApiKeysNext ==
  \/ AskForToken \/ MailToken \/ ConsumeToken
  \/ \E x \in exchanges :
       RevokePrior(x) \/ IssueKey(x) \/ MarkVerified(x) \/ AbandonExchange(x)
  \/ FindKey \/ Stamp \/ LoseRecord \/ RecordOfRequest
  \/ CallTool \/ ReadKeyAgain \/ CallToolAgain \/ CloseRequest \/ TickKeys

-----------------------------------------------------------------------------
\* No tool runs for a key later than the re-authorisation time and the longest read after
\* it was revoked.
RevokedKeysExpire ==
  \A k \in Keys :
    stopped[k] # NoKey /\ usedAt[k] # NoKey =>
      usedAt[k] <= stopped[k] + Reauth + LongestRead

\* An exchange makes its key only when the one that its consumer had is revoked.
PriorKeysAreRevoked ==
  \A x \in exchanges :
    x.at # "revoke" /\ x.prior \in Keys => stopped[x.prior] # NoKey

\* An internal tool runs for the holder of the shared bearer alone, if at all.
ScopesHold == trusted \subseteq (IF PublicMode THEN {} ELSE {Internal})

(***************************************************************************)
(* The key that was the consumer's as a token was consumed is revoked      *)
(* before another takes its place, and a revoked key stops working ("A     *)
(* revoked/rotated key must not keep working", config.py:546), however     *)
(* long the request that had resolved it waits before its call.  A key     *)
(* that another exchange made meanwhile, or that was never recorded, is    *)
(* nobody's to revoke, and nothing is said of it.  And whichever way a     *)
(* call has come by its record, by the middleware, by its own request or   *)
(* by a second look at the store, it stays within its scope ("A            *)
(* PODCAST_QUERY-scoped key can invoke ONLY search_podcasts /              *)
(* list_podcasts", scopes.py).                                             *)
(***************************************************************************)
AccessIsBounded == PriorKeysAreRevoked /\ RevokedKeysExpire /\ ScopesHold
=============================================================================
