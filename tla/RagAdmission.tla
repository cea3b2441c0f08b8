---------------------------- MODULE RagAdmission ----------------------------
(***************************************************************************)
(* Admission to the RAG pipeline.  The REST process and the MCP process    *)
(* each keep one in-memory counter of held slots.  A REST stream takes its *)
(* slot in the request handler and gives it back in the response           *)
(* generator; the other surfaces hold theirs for the length of a block.    *)
(* A public search first passes a sliding-window rate limit in memory,     *)
(* then one daily counter after the other in the database, each reserved   *)
(* by an atomic increment, and only then asks for its slot and embeds.     *)
(*                                                                         *)
(* The window runs on the process's monotonic clock and the counters on    *)
(* the UTC day: the two clocks advance independently.                      *)
(***************************************************************************)
EXTENDS Integers, Sequences, FiniteSets

CONSTANTS
    Streams,        \* requests to the REST streaming endpoint
    Chats,          \* requests to the REST endpoint that answers in one piece
    Searches,       \* calls of the public search_podcasts tool
    Keyed,          \* API keys
    Anonymous,      \* hashed client IPs of keyless callers
    RestCap, McpCap,            \* slots of the two processes
    KeyRate, AnonRate, Window,  \* hits per window, ticks per window
    KeyLimit, AnonLimit, AnonGlobalLimit, EmbedLimit,   \* daily limits
    None,
    MaxTime, MaxDay, MaxRestarts    \* model bounds

ASSUME RagConstants ==
    /\ IsFiniteSet(Streams) /\ IsFiniteSet(Chats) /\ IsFiniteSet(Searches)
    /\ Searches \cap (Streams \cup Chats) = {} /\ Streams \cap Chats = {}
    /\ Keyed \cap Anonymous = {}
    /\ {RestCap, McpCap, KeyRate, AnonRate, Window} \subseteq Nat \ {0}
    /\ {KeyLimit, AnonLimit, AnonGlobalLimit, EmbedLimit} \subseteq Nat \ {0}
    /\ None \notin Keyed \cup Anonymous \cup Nat
    /\ {MaxTime, MaxDay, MaxRestarts} \subseteq Nat

VARIABLES
    in_flight,  \* process -> slots held, by its own count
    pc,         \* where each request is
    who,        \* the principal of a search
    hits,       \* principal -> times of its admitted hits, oldest first
    count,      \* <<row, day>> -> the daily counter in the database
    now,        \* the monotonic clock
    today,      \* the UTC day
    granted,    \* ghost: request -> reservations it was granted
    hitAt,      \* ghost: request -> when this process's limiter let it pass
    embedded,   \* ghost: searches that made their embedding call
    restarts

vars == <<in_flight, pc, who, hits, count, now, today, granted, hitAt,
          embedded, restarts>>

Requests == Streams \cup Chats \cup Searches
Principals == Keyed \cup Anonymous
Processes == {"rest", "mcp"}
Proc(r) == IF r \in Searches THEN "mcp" ELSE "rest"
Cap(p) == IF p = "mcp" THEN McpCap ELSE RestCap

\* One counter per principal, one for all keyless callers, one for everybody.
Rows == Principals \cup {"anonymous", "embeddings"}
Days == 0 .. MaxDay

Limit(row) ==
    IF row = "embeddings" THEN EmbedLimit
    ELSE IF row = "anonymous" THEN AnonGlobalLimit
    ELSE IF row \in Anonymous THEN AnonLimit ELSE KeyLimit

Rate(k) == IF k \in Anonymous THEN AnonRate ELSE KeyRate

\* A search on its way through the limiter and the counters.
SearchPCs == {"limiting", "quota", "keyless", "breaker"}

\* A request at one of these has taken a slot and not given it back.
HoldingPCs == {"offered", "running", "abandoned"}

PCs == {"idle", "acquiring", "ended"} \cup SearchPCs \cup HoldingPCs

(***************************************************************************)
(* The types of the variables.                                             *)
(***************************************************************************)
TypeOK ==
    /\ in_flight \in [Processes -> Nat]
    /\ pc \in [Requests -> PCs]
    /\ who \in [Requests -> Principals \cup {None}]
    /\ \A r \in Requests : pc[r] \in SearchPCs => who[r] \in Principals
    /\ hits \in [Principals -> Seq(Nat)]
    /\ count \in [Rows \X Days -> Nat]
    /\ now \in Nat
    /\ today \in Days
    /\ granted \in [Requests -> SUBSET (Rows \X Days)]
    /\ hitAt \in [Requests -> Nat \cup {None}]
    /\ embedded \in SUBSET Searches
    /\ restarts \in Nat

Init ==
    /\ in_flight = [p \in Processes |-> 0]
    /\ pc = [r \in Requests |-> "idle"]
    /\ who = [r \in Requests |-> None]
    /\ hits = [k \in Principals |-> <<>>]
    /\ count = [c \in Rows \X Days |-> 0]
    /\ now = 0
    /\ today = 0
    /\ granted = [r \in Requests |-> {}]
    /\ hitAt = [r \in Requests |-> None]
    /\ embedded = {}
    /\ restarts = 0

Goto(r, place) == pc' = [pc EXCEPT ![r] = place]

-----------------------------------------------------------------------------
(***************************************************************************)
(* Arrival, and departure at an await before a slot is taken.              *)
(***************************************************************************)
Arrive(r) ==
    /\ pc[r] = "idle"
    /\ \/ /\ r \notin Searches
          /\ Goto(r, "acquiring")
          /\ UNCHANGED who
       \/ /\ r \in Searches
          /\ \E k \in Principals : who' = [who EXCEPT ![r] = k]
          /\ Goto(r, "limiting")
    /\ UNCHANGED <<in_flight, hits, count, now, today, granted, hitAt,
                   embedded, restarts>>

Leave(r) ==
    /\ pc[r] \in {"quota", "keyless", "breaker", "acquiring"}
    /\ Goto(r, "ended")
    /\ UNCHANGED <<in_flight, who, hits, count, now, today, granted, hitAt,
                   embedded, restarts>>

-----------------------------------------------------------------------------
(***************************************************************************)
(* SlidingWindowRateLimiter.allow: no await, hence one step.               *)
(***************************************************************************)

ExpiredBy(bucket, t) == {i \in DOMAIN bucket : bucket[i] <= t - Window}

\* Slip: hits expire a tick early.
FreshTooShort(bucket, t) ==
    SubSeq(bucket, Cardinality(ExpiredBy(bucket, t + 1)) + 1, Len(bucket))

\* The oldest hits are popped while they are out of the window; times never
\* decrease along a bucket.
Fresh(bucket, t) ==
    SubSeq(bucket, Cardinality(ExpiredBy(bucket, t)) + 1, Len(bucket))

Allow(r) ==
    /\ pc[r] = "limiting"
    /\ LET k == who[r] IN
       LET bucket == Fresh(hits[k], now) IN
         \/ /\ Len(bucket) >= Rate(k)
            /\ hits' = [hits EXCEPT ![k] = bucket]
            /\ Goto(r, "ended")
            /\ UNCHANGED hitAt
         \/ /\ Len(bucket) < Rate(k)
            /\ hits' = [hits EXCEPT ![k] = Append(bucket, now)]
            /\ hitAt' = [hitAt EXCEPT ![r] = now]
            /\ Goto(r, "quota")
    /\ UNCHANGED <<in_flight, who, count, now, today, granted, embedded,
                   restarts>>

-----------------------------------------------------------------------------
(***************************************************************************)
(* The daily counters: the caller's own row, for a keyless caller the row  *)
(* they all share, and the row of all embeddings.                          *)
(***************************************************************************)
Row(r) == IF pc[r] = "quota" THEN who[r]
          ELSE IF pc[r] = "keyless" THEN "anonymous" ELSE "embeddings"

\* Slip: the keyless lane never asks the embedding breaker.
AfterGrantWithoutBreaker(r) ==
    IF pc[r] = "quota" /\ who[r] \in Anonymous THEN "keyless"
    ELSE IF pc[r] = "quota" THEN "breaker" ELSE "acquiring"

AfterGrant(r) ==
    IF pc[r] = "quota" /\ who[r] \in Anonymous THEN "keyless"
    ELSE IF pc[r] = "breaker" THEN "acquiring" ELSE "breaker"

\* Slip: the count from before the increment is compared.
WithinBefore(c) == count[c] <= Limit(c[1])

\* The count the increment returns is compared.
Within(c) == count[c] + 1 <= Limit(c[1])

\* check_and_increment_key, check_and_increment_global_embed.
Reserve(r) ==
    /\ pc[r] \in {"quota", "keyless", "breaker"}
    /\ LET c == <<Row(r), today>> IN
         /\ count' = [count EXCEPT ![c] = @ + 1]
         /\ \/ /\ Within(c)
               /\ granted' = [granted EXCEPT ![r] = @ \cup {c}]
               /\ Goto(r, AfterGrant(r))
            \/ /\ ~Within(c)
               /\ Goto(r, "ended")
               /\ UNCHANGED granted
    /\ UNCHANGED <<in_flight, who, hits, now, today, hitAt, embedded,
                   restarts>>

\* The increment raises, applied or not: the search fails.
ReserveRaises(r) ==
    /\ pc[r] \in {"quota", "keyless", "breaker"}
    /\ \/ count' = [count EXCEPT ![<<Row(r), today>>] = @ + 1]
       \/ UNCHANGED count
    /\ Goto(r, "ended")
    /\ UNCHANGED <<in_flight, who, hits, now, today, granted, hitAt, embedded,
                   restarts>>

-----------------------------------------------------------------------------
(***************************************************************************)
(* The slots.                                                              *)
(***************************************************************************)

\* Slip: one request too many is admitted.
FullAboveCap(p) == in_flight[p] > Cap(p)

Full(p) == in_flight[p] >= Cap(p)

\* try_acquire: the check and the increment share the lock.
TryAcquire(r) ==
    /\ pc[r] = "acquiring"
    /\ \/ /\ Full(Proc(r))
          /\ Goto(r, "ended")
          /\ UNCHANGED in_flight
       \/ /\ ~Full(Proc(r))
          /\ in_flight' = [in_flight EXCEPT ![Proc(r)] = @ + 1]
          /\ Goto(r, IF r \in Streams THEN "offered" ELSE "running")
    /\ UNCHANGED <<who, hits, count, now, today, granted, hitAt, embedded,
                   restarts>>

\* The server starts to iterate the stream: its try block is entered.
BeginStream(r) ==
    /\ pc[r] = "offered"
    /\ Goto(r, "running")
    /\ UNCHANGED <<in_flight, who, hits, count, now, today, granted, hitAt,
                   embedded, restarts>>

\* The client is gone before the server takes the first step of the
\* generator: closing a generator that never started runs no finally block.
Vanish(r) ==
    /\ pc[r] = "offered"
    /\ Goto(r, "abandoned")
    /\ UNCHANGED <<in_flight, who, hits, count, now, today, granted, hitAt,
                   embedded, restarts>>

\* The embedding call; a cached vector saves it.
Embed(r) ==
    /\ r \in Searches \ embedded
    /\ pc[r] = "running"
    /\ embedded' = embedded \cup {r}
    /\ UNCHANGED <<in_flight, pc, who, hits, count, now, today, granted,
                   hitAt, restarts>>

\* Slip: an error path releases before the finally block does.
ReleaseTwice(r) ==
    /\ pc[r] = "running"
    /\ in_flight' = [in_flight EXCEPT ![Proc(r)] = @ - 2]
    /\ Goto(r, "ended")
    /\ UNCHANGED <<who, hits, count, now, today, granted, hitAt, embedded,
                   restarts>>

\* The finally block, on success, on an error and on a disconnect alike.
\* Without a slot to release, release raises and leaves the count alone.
Release(r) ==
    /\ pc[r] = "running"
    /\ in_flight' = IF in_flight[Proc(r)] <= 0 THEN in_flight
                    ELSE [in_flight EXCEPT ![Proc(r)] = @ - 1]
    /\ Goto(r, "ended")
    /\ UNCHANGED <<who, hits, count, now, today, granted, hitAt, embedded,
                   restarts>>

-----------------------------------------------------------------------------
(***************************************************************************)
(* A process restarts: its requests, its slots and its window are gone;    *)
(* the counters in the database stay.                                      *)
(***************************************************************************)
Restart(p) ==
    /\ restarts < MaxRestarts
    /\ restarts' = restarts + 1
    /\ in_flight' = [in_flight EXCEPT ![p] = 0]
    /\ pc' = [r \in Requests |-> IF Proc(r) = p /\ pc[r] # "idle"
                                 THEN "ended" ELSE pc[r]]
    /\ hits' = IF p = "mcp" THEN [k \in Principals |-> <<>>] ELSE hits
    /\ hitAt' = IF p = "mcp" THEN [r \in Requests |-> None] ELSE hitAt
    /\ UNCHANGED <<who, count, now, today, granted, embedded>>

Tick ==
    /\ now < MaxTime
    /\ now' = now + 1
    /\ UNCHANGED <<in_flight, pc, who, hits, count, today, granted, hitAt,
                   embedded, restarts>>

Midnight ==
    /\ today < MaxDay
    /\ today' = today + 1
    /\ UNCHANGED <<in_flight, pc, who, hits, count, now, granted, hitAt,
                   embedded, restarts>>

Next ==
    \/ \E r \in Requests :
         \/ Arrive(r) \/ Leave(r) \/ Allow(r) \/ Reserve(r)
         \/ ReserveRaises(r) \/ TryAcquire(r) \/ BeginStream(r) \/ Vanish(r)
         \/ Embed(r) \/ Release(r)
    \/ \E p \in Processes : Restart(p)
    \/ Tick \/ Midnight

Spec == Init /\ [][Next]_vars

-----------------------------------------------------------------------------
(***************************************************************************)
(* Properties.                                                             *)
(***************************************************************************)
Holders(p) == {r \in Requests : Proc(r) = p /\ pc[r] \in HoldingPCs}

(***************************************************************************)
(* The guard's contract: however acquires, releases, disconnects and       *)
(* restarts interleave, each process's count is the number of slots taken  *)
(* and not given back, and it never exceeds the cap.  In particular no     *)
(* release finds the count at zero and raises.                             *)
(***************************************************************************)
SlotsAreAccountedFor ==
    \A p \in Processes : /\ in_flight[p] = Cardinality(Holders(p))
                         /\ in_flight[p] <= Cap(p)

Granted(c) == {r \in Requests : c \in granted[r]}

(***************************************************************************)
(* check_and_increment_key's comment: concurrent callers cannot both slip  *)
(* past the cap.  Per counter and UTC day no more reservations are granted *)
(* than its limit, across overlapping searches, failed increments and      *)
(* restarts.                                                               *)
(***************************************************************************)
QuotaIsNeverOversold ==
    \A c \in Rows \X Days : Cardinality(Granted(c)) <= Limit(c[1])

EmbeddedOn(d) == {r \in embedded : <<"embeddings", d>> \in granted[r]}

(***************************************************************************)
(* Both lanes consume the shared breaker, so the embeddings the owner pays *)
(* for are bounded by it: each is backed by a reservation of one day, and  *)
(* a day backs no more of them than the breaker allows.                    *)
(***************************************************************************)
EmbeddingsAreBounded ==
    /\ embedded \subseteq UNION {EmbeddedOn(d) : d \in Days}
    /\ \A d \in Days : Cardinality(EmbeddedOn(d)) <= EmbedLimit

(***************************************************************************)
(* The rate limit holds over every window, not only over aligned ones: no  *)
(* interval of Window ticks sees more of a principal's hits pass than its  *)
(* rate, while the process lives.                                          *)
(***************************************************************************)
EveryWindowIsWithinRate ==
    \A k \in Principals, t \in 0 .. MaxTime :
      Cardinality({r \in Requests :
                     /\ who[r] = k
                     /\ hitAt[r] # None
                     /\ hitAt[r] \in (t - Window + 1) .. t}) <= Rate(k)

(***************************************************************************)
(* rag_chat_stream's comment: the slot is released on success, on an       *)
(* exception and on a client disconnect.  So a slot that is still taken    *)
(* belongs to a stream somebody is waiting for.                            *)
(***************************************************************************)
DisconnectReleasesSlot ==
    \A p \in Processes :
      in_flight[p] = Cardinality({r \in Holders(p) : pc[r] # "abandoned"})
=============================================================================
