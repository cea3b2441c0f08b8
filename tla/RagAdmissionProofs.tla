------------------------- MODULE RagAdmissionProofs -------------------------
(***************************************************************************)
(* Theorems about RagAdmission, for any number of requests and callers and *)
(* any caps and limits; and about MCKnowledge, that puts it next to        *)
(* Conversation and KnowledgeBase.                                         *)
(***************************************************************************)
EXTENDS ConversationProofs, MCKnowledge, FiniteSetTheorems, SequenceTheorems, TLAPS

(***************************************************************************)
(* What the limiter keeps of a bucket is again a bucket.                   *)
(***************************************************************************)
LEMMA FreshType ==
    ASSUME NEW bucket \in Seq(Nat), NEW t \in Nat
    PROVE  Fresh(bucket, t) \in Seq(Nat)
<1> DEFINE n == Cardinality(ExpiredBy(bucket, t))
<1>1. ExpiredBy(bucket, t) \subseteq 1 .. Len(bucket)
  BY DEF ExpiredBy
<1>2. n \in Nat
  <2>1. IsFiniteSet(1 .. Len(bucket))
    BY FS_Interval
  <2>2. IsFiniteSet(ExpiredBy(bucket, t))
    BY <1>1, <2>1, FS_Subset
  <2> QED
    BY <2>2, FS_CardinalityType
<1>3. n + 1 \in Int /\ Len(bucket) \in Int
  BY <1>2
<1>4. \A i \in n + 1 .. Len(bucket) : bucket[i] \in Nat
  BY <1>2
<1> QED
  BY <1>3, <1>4, SubSeqProperties DEF Fresh

(***************************************************************************)
(* A request that moves on keeps the program counters typed, and a search  *)
(* among the limiter and the counters knows its principal.                 *)
(***************************************************************************)
LEMMA GotoType ==
    ASSUME TypeOK, NEW r \in Requests, NEW place \in PCs, Goto(r, place),
           place \in SearchPCs => who'[r] \in Principals,
           \A q \in Requests : q # r => who'[q] = who[q]
    PROVE  /\ pc' \in [Requests -> PCs]
           /\ \A q \in Requests : pc'[q] \in SearchPCs => who'[q] \in Principals
<1>1. pc' \in [Requests -> PCs]
  BY DEF TypeOK, Goto
<1>2. \A q \in Requests : pc'[q] = IF q = r THEN place ELSE pc[q]
  BY DEF TypeOK, Goto
<1> QED
  BY <1>1, <1>2 DEF TypeOK

\* Every step keeps the types.
LEMMA TypeKept == TypeOK /\ [Next]_vars => TypeOK'
<1> SUFFICES ASSUME TypeOK, [Next]_vars PROVE TypeOK'
  OBVIOUS
<1>a. {"idle", "acquiring", "ended", "running", "offered", "abandoned"} \subseteq PCs
      /\ SearchPCs \subseteq PCs
      /\ SearchPCs = {"limiting", "quota", "keyless", "breaker"}
      /\ "acquiring" \notin SearchPCs /\ "ended" \notin SearchPCs
      /\ "running" \notin SearchPCs /\ "offered" \notin SearchPCs
      /\ "abandoned" \notin SearchPCs
  BY DEF PCs, SearchPCs, HoldingPCs
<1>1. ASSUME NEW r \in Requests, Arrive(r) PROVE TypeOK'
  <2>1. CASE r \notin Searches
    BY <1>1, <1>a, <2>1, GotoType DEF Arrive, TypeOK
  <2>2. CASE r \in Searches
    <3>1. PICK k \in Principals : who' = [who EXCEPT ![r] = k]
      BY <1>1, <2>2 DEF Arrive
    <3>2. Goto(r, "limiting")
      BY <1>1, <2>2 DEF Arrive
    <3>3. who' \in [Requests -> Principals \cup {None}] /\ who'[r] = k
          /\ \A q \in Requests : q # r => who'[q] = who[q]
      BY <3>1 DEF TypeOK
    <3> QED
      BY <1>1, <1>a, <3>2, <3>3, GotoType DEF Arrive, TypeOK
  <2> QED
    BY <2>1, <2>2
<1>2. ASSUME NEW r \in Requests, Leave(r) PROVE TypeOK'
  BY <1>2, <1>a, GotoType DEF Leave, TypeOK
<1>3. ASSUME NEW r \in Requests, Allow(r) PROVE TypeOK'
  <2> DEFINE bucket == Fresh(hits[who[r]], now)
  <2>1. who[r] \in Principals
    BY <1>3, <1>a DEF Allow, TypeOK
  <2>2. bucket \in Seq(Nat) /\ Append(bucket, now) \in Seq(Nat)
    BY <2>1, FreshType DEF TypeOK
  <2> HIDE DEF bucket
  <2>3. \/ /\ hits' = [hits EXCEPT ![who[r]] = bucket]
           /\ Goto(r, "ended")
           /\ UNCHANGED hitAt
        \/ /\ hits' = [hits EXCEPT ![who[r]] = Append(bucket, now)]
           /\ Goto(r, "quota")
           /\ hitAt' = [hitAt EXCEPT ![r] = now]
    BY <1>3 DEF Allow, bucket
  <2>4. hits' \in [Principals -> Seq(Nat)]
    BY <2>1, <2>2, <2>3 DEF TypeOK
  <2>5. hitAt' \in [Requests -> Nat \cup {None}]
    <3>1. now \in Nat \cup {None} /\ hitAt \in [Requests -> Nat \cup {None}]
      BY DEF TypeOK
    <3> QED
      BY <2>3, <3>1
  <2>6. /\ pc' \in [Requests -> PCs]
        /\ \A q \in Requests : pc'[q] \in SearchPCs => who'[q] \in Principals
    BY <1>3, <1>a, <2>1, <2>3, GotoType DEF Allow
  <2> QED
    BY <1>3, <2>4, <2>5, <2>6 DEF Allow, TypeOK
<1>4. ASSUME NEW r \in Requests, Reserve(r) PROVE TypeOK'
  <2>1. who[r] \in Principals /\ <<Row(r), today>> \in Rows \X Days
    BY <1>4, <1>a DEF Reserve, Row, Rows, TypeOK
  <2>2. AfterGrant(r) \in PCs
    BY <1>a DEF AfterGrant
  <2>3. \/ /\ granted' = [granted EXCEPT ![r] = @ \cup {<<Row(r), today>>}]
           /\ Goto(r, AfterGrant(r))
        \/ /\ UNCHANGED granted
           /\ Goto(r, "ended")
    BY <1>4 DEF Reserve
  <2>4. count' \in [Rows \X Days -> Nat]
    <3>1. count \in [Rows \X Days -> Nat]
      BY DEF TypeOK
    <3> QED
      BY <1>4, <2>1, <3>1 DEF Reserve
  <2>5. granted' \in [Requests -> SUBSET (Rows \X Days)]
    <3>1. granted \in [Requests -> SUBSET (Rows \X Days)]
      BY DEF TypeOK
    <3>2. granted[r] \cup {<<Row(r), today>>} \in SUBSET (Rows \X Days)
      BY <2>1, <3>1
    <3> QED
      BY <2>3, <3>1, <3>2
  <2>6. /\ pc' \in [Requests -> PCs]
        /\ \A q \in Requests : pc'[q] \in SearchPCs => who'[q] \in Principals
    BY <1>4, <1>a, <2>1, <2>2, <2>3, GotoType DEF Reserve
  <2> QED
    BY <1>4, <2>4, <2>5, <2>6 DEF Reserve, TypeOK
<1>5. ASSUME NEW r \in Requests, ReserveRaises(r) PROVE TypeOK'
  <2>1. <<Row(r), today>> \in Rows \X Days
    BY <1>5, <1>a DEF ReserveRaises, Row, Rows, TypeOK
  <2>2. count' \in [Rows \X Days -> Nat]
    <3>1. count \in [Rows \X Days -> Nat]
      BY DEF TypeOK
    <3> QED
      BY <1>5, <2>1, <3>1 DEF ReserveRaises
  <2>3. /\ pc' \in [Requests -> PCs]
        /\ \A q \in Requests : pc'[q] \in SearchPCs => who'[q] \in Principals
    BY <1>5, <1>a, GotoType DEF ReserveRaises
  <2> QED
    BY <1>5, <2>2, <2>3 DEF ReserveRaises, TypeOK
<1>6. ASSUME NEW r \in Requests, TryAcquire(r) PROVE TypeOK'
  <2>1. in_flight' \in [Processes -> Nat]
    BY <1>6 DEF TryAcquire, Proc, Processes, TypeOK
  <2>2. /\ pc' \in [Requests -> PCs]
        /\ \A q \in Requests : pc'[q] \in SearchPCs => who'[q] \in Principals
    BY <1>6, <1>a, GotoType DEF TryAcquire
  <2> QED
    BY <1>6, <2>1, <2>2 DEF TryAcquire, TypeOK
<1>7. ASSUME NEW r \in Requests, BeginStream(r) \/ Vanish(r) PROVE TypeOK'
  BY <1>7, <1>a, GotoType DEF BeginStream, Vanish, TypeOK
<1>8. ASSUME NEW r \in Requests, Embed(r) PROVE TypeOK'
  BY <1>8 DEF Embed, TypeOK
<1>9. ASSUME NEW r \in Requests, Release(r) PROVE TypeOK'
  <2>1. in_flight' \in [Processes -> Nat]
    BY <1>9 DEF Release, Proc, Processes, TypeOK
  <2> QED
    BY <1>9, <1>a, <2>1, GotoType DEF Release, TypeOK
<1>10. ASSUME NEW p \in Processes, Restart(p) PROVE TypeOK'
  BY <1>10, <1>a DEF Restart, TypeOK
<1>11. CASE Tick
  BY <1>11 DEF Tick, TypeOK
<1>12. CASE Midnight
  <2>1. today' \in Days
    BY <1>12, RagConstants DEF Midnight, Days, TypeOK
  <2> QED
    BY <1>12, <2>1 DEF Midnight, TypeOK
<1>13. CASE UNCHANGED vars
  BY <1>13 DEF vars, TypeOK
<1> QED
  BY <1>1, <1>2, <1>3, <1>4, <1>5, <1>6, <1>7, <1>8, <1>9, <1>10, <1>11,
     <1>12, <1>13 DEF Next

(***************************************************************************)
(* Every variable keeps its type.                                          *)
(***************************************************************************)
THEOREM TypeCorrect == Spec => []TypeOK
<1>1. Init => TypeOK
  BY RagConstants DEF Init, TypeOK, PCs, SearchPCs, Days
<1> QED
  BY <1>1, TypeKept, PTL DEF Spec

-----------------------------------------------------------------------------
\* There are finitely many requests.
LEMMA RequestsFinite == IsFiniteSet(Requests)
BY RagConstants, FS_Union DEF Requests

\* So the holders of slots can be counted.
LEMMA HoldersFinite ==
    ASSUME NEW p
    PROVE  IsFiniteSet(Holders(p)) /\ Cardinality(Holders(p)) \in Nat
<1>1. Holders(p) \in SUBSET Requests
  BY DEF Holders
<1> QED
  BY <1>1, RequestsFinite, FS_Subset, FS_CardinalityType

(***************************************************************************)
(* A step that takes no slot and gives none back keeps the account.        *)
(***************************************************************************)
LEMMA NoSlotMoves ==
    ASSUME SlotsAreAccountedFor, UNCHANGED in_flight,
           \A q \in Requests : pc'[q] \in HoldingPCs <=> pc[q] \in HoldingPCs
    PROVE  SlotsAreAccountedFor'
<1>1. \A p \in Processes : Holders(p)' = Holders(p)
  BY DEF Holders
<1> QED
  BY <1>1 DEF SlotsAreAccountedFor

\* A move that neither takes nor gives back a slot keeps the holders.
LEMMA GotoElsewhere ==
    ASSUME TypeOK, NEW r \in Requests, NEW place, Goto(r, place),
           pc[r] \in HoldingPCs <=> place \in HoldingPCs
    PROVE  \A q \in Requests : pc'[q] \in HoldingPCs <=> pc[q] \in HoldingPCs
BY DEF TypeOK, Goto

(***************************************************************************)
(* In every process the count is the number of slots taken and not given   *)
(* back, and stays within the cap.                                         *)
(***************************************************************************)
THEOREM SlotsAccounted == Spec => []SlotsAreAccountedFor
<1>1. Init => SlotsAreAccountedFor
  <2> SUFFICES ASSUME Init, NEW p \in Processes
               PROVE  in_flight[p] = Cardinality(Holders(p)) /\ in_flight[p] <= Cap(p)
    BY DEF SlotsAreAccountedFor
  <2>1. Holders(p) = {}
    BY DEF Init, Holders, HoldingPCs
  <2>2. Cap(p) \in Nat \ {0}
    BY RagConstants DEF Cap
  <2> QED
    BY <2>1, <2>2, FS_EmptySet DEF Init
<1>2. TypeOK /\ SlotsAreAccountedFor /\ [Next]_vars => SlotsAreAccountedFor'
  <2> SUFFICES ASSUME TypeOK, SlotsAreAccountedFor, [Next]_vars
               PROVE  SlotsAreAccountedFor'
    OBVIOUS
  <2>1. ASSUME NEW r \in Requests, Arrive(r) PROVE SlotsAreAccountedFor'
    BY <2>1, NoSlotMoves, GotoElsewhere DEF Arrive, HoldingPCs
  <2>2. ASSUME NEW r \in Requests, Leave(r) PROVE SlotsAreAccountedFor'
    BY <2>2, NoSlotMoves, GotoElsewhere DEF Leave, HoldingPCs
  <2>3. ASSUME NEW r \in Requests, Allow(r) PROVE SlotsAreAccountedFor'
    BY <2>3, NoSlotMoves, GotoElsewhere DEF Allow, HoldingPCs
  <2>4. ASSUME NEW r \in Requests, Reserve(r) PROVE SlotsAreAccountedFor'
    <3>1. AfterGrant(r) \notin HoldingPCs
      BY DEF AfterGrant, HoldingPCs
    <3> QED
      BY <2>4, <3>1, NoSlotMoves, GotoElsewhere DEF Reserve, HoldingPCs
  <2>5. ASSUME NEW r \in Requests, ReserveRaises(r) PROVE SlotsAreAccountedFor'
    BY <2>5, NoSlotMoves, GotoElsewhere DEF ReserveRaises, HoldingPCs
  <2>6. ASSUME NEW r \in Requests, TryAcquire(r) PROVE SlotsAreAccountedFor'
    <3>1. pc[r] = "acquiring" /\ Proc(r) \in Processes
      BY <2>6 DEF TryAcquire, Proc, Processes
    <3>2. CASE Full(Proc(r))
      BY <2>6, <3>1, <3>2, NoSlotMoves, GotoElsewhere DEF TryAcquire, HoldingPCs
    <3>3. CASE ~Full(Proc(r))
      <4>1. /\ in_flight' = [in_flight EXCEPT ![Proc(r)] = @ + 1]
            /\ in_flight[Proc(r)] < Cap(Proc(r))
            /\ Goto(r, IF r \in Streams THEN "offered" ELSE "running")
        <5>1. in_flight[Proc(r)] \in Nat /\ Cap(Proc(r)) \in Nat
          BY <3>1, RagConstants DEF TypeOK, Cap
        <5> QED
          BY <2>6, <3>3, <5>1 DEF TryAcquire, Full
      <4>2. /\ pc'[r] \in HoldingPCs
            /\ \A q \in Requests : q # r => pc'[q] = pc[q]
        BY <4>1 DEF TypeOK, Goto, HoldingPCs
      <4>3. Holders(Proc(r))' = Holders(Proc(r)) \cup {r} /\ r \notin Holders(Proc(r))
        BY <3>1, <4>2 DEF Holders, HoldingPCs
      <4>4. \A p \in Processes : p # Proc(r) => Holders(p)' = Holders(p)
        BY <4>2 DEF Holders
      <4>5. Cardinality(Holders(Proc(r)))' = Cardinality(Holders(Proc(r))) + 1
        BY <4>3, HoldersFinite, FS_AddElement
      <4>6. \A p \in Processes : in_flight[p] \in Nat /\ Cap(p) \in Nat
        BY RagConstants DEF TypeOK, Cap
      <4>7. \A p \in Processes :
              in_flight'[p] = IF p = Proc(r) THEN in_flight[p] + 1 ELSE in_flight[p]
        BY <4>1 DEF TypeOK
      <4> QED
        BY <3>1, <4>1, <4>4, <4>5, <4>6, <4>7 DEF SlotsAreAccountedFor
    <3> QED
      BY <3>2, <3>3
  <2>7. ASSUME NEW r \in Requests, BeginStream(r) \/ Vanish(r)
        PROVE  SlotsAreAccountedFor'
    BY <2>7, NoSlotMoves, GotoElsewhere DEF BeginStream, Vanish, HoldingPCs
  <2>8. ASSUME NEW r \in Requests, Embed(r) PROVE SlotsAreAccountedFor'
    BY <2>8, NoSlotMoves DEF Embed
  <2>9. ASSUME NEW r \in Requests, Release(r) PROVE SlotsAreAccountedFor'
    <3>1. pc[r] = "running" /\ Goto(r, "ended") /\ Proc(r) \in Processes
      BY <2>9 DEF Release, Proc, Processes
    <3>2. /\ pc'[r] = "ended"
          /\ \A q \in Requests : q # r => pc'[q] = pc[q]
      BY <3>1 DEF TypeOK, Goto
    <3>3. Holders(Proc(r))' = Holders(Proc(r)) \ {r} /\ r \in Holders(Proc(r))
      BY <3>1, <3>2 DEF Holders, HoldingPCs
    <3>4. \A p \in Processes : p # Proc(r) => Holders(p)' = Holders(p)
      BY <3>2 DEF Holders
    <3>5. /\ Cardinality(Holders(Proc(r)))' = Cardinality(Holders(Proc(r))) - 1
          /\ Cardinality(Holders(Proc(r))) > 0
      BY <3>3, HoldersFinite, FS_RemoveElement, FS_EmptySet
    <3>6. \A p \in Processes : in_flight[p] \in Nat /\ Cap(p) \in Nat
      BY RagConstants DEF TypeOK, Cap
    <3>7. in_flight' = [in_flight EXCEPT ![Proc(r)] = @ - 1]
      BY <2>9, <3>1, <3>5, <3>6 DEF Release, SlotsAreAccountedFor
    <3>8. \A p \in Processes :
            in_flight'[p] = IF p = Proc(r) THEN in_flight[p] - 1 ELSE in_flight[p]
      BY <3>7 DEF TypeOK
    <3> QED
      BY <3>1, <3>4, <3>5, <3>6, <3>8 DEF SlotsAreAccountedFor
  <2>10. ASSUME NEW p \in Processes, Restart(p) PROVE SlotsAreAccountedFor'
    <3>1. \A q \in Requests : pc'[q] = IF Proc(q) = p /\ pc[q] # "idle"
                                      THEN "ended" ELSE pc[q]
      BY <2>10 DEF Restart
    <3>2. Holders(p)' = {}
      BY <3>1 DEF Holders, HoldingPCs
    <3>3. \A o \in Processes : o # p => Holders(o)' = Holders(o)
      BY <3>1 DEF Holders
    <3>4. \A o \in Processes : in_flight'[o] = IF o = p THEN 0 ELSE in_flight[o]
      BY <2>10 DEF Restart, TypeOK
    <3>5. Cardinality(Holders(p))' = 0 /\ Cap(p) \in Nat
      BY <3>2, FS_EmptySet, RagConstants DEF Cap
    <3> QED
      BY <3>3, <3>4, <3>5 DEF SlotsAreAccountedFor
  <2>11. CASE Tick \/ Midnight
    BY <2>11, NoSlotMoves DEF Tick, Midnight
  <2>12. CASE UNCHANGED vars
    BY <2>12, NoSlotMoves DEF vars
  <2> QED
    BY <2>1, <2>2, <2>3, <2>4, <2>5, <2>6, <2>7, <2>8, <2>9, <2>10, <2>11,
       <2>12 DEF Next
<1> QED
  BY <1>1, <1>2, TypeCorrect, PTL DEF Spec

-----------------------------------------------------------------------------
\* The grants of a counter can be counted.
LEMMA GrantedFinite ==
    ASSUME NEW c
    PROVE  IsFiniteSet(Granted(c)) /\ Cardinality(Granted(c)) \in Nat
<1>1. Granted(c) \in SUBSET Requests
  BY DEF Granted
<1> QED
  BY <1>1, RequestsFinite, FS_Subset, FS_CardinalityType

(***************************************************************************)
(* QuotaIsNeverOversold is not inductive: what keeps a counter's grants    *)
(* below its limit is that the counter has counted each of them.           *)
(***************************************************************************)
GrantsAreCounted ==
    \A c \in Rows \X Days : /\ Cardinality(Granted(c)) <= count[c]
                           /\ Cardinality(Granted(c)) <= Limit(c[1])

\* A step that grants nothing may only raise counters.
LEMMA NoGrantMoves ==
    ASSUME TypeOK, GrantsAreCounted, UNCHANGED granted,
           \A c \in Rows \X Days : count[c] <= count'[c] /\ count'[c] \in Nat
    PROVE  GrantsAreCounted'
<1>1. \A c : Granted(c)' = Granted(c)
  BY DEF Granted
<1>2. \A c \in Rows \X Days : count[c] \in Nat
  BY DEF TypeOK
<1> QED
  BY <1>1, <1>2, GrantedFinite DEF GrantsAreCounted

\* Counters left alone do not fall.
LEMMA CountUnmoved ==
    ASSUME TypeOK, UNCHANGED count
    PROVE  \A c \in Rows \X Days : count[c] <= count'[c] /\ count'[c] \in Nat
BY DEF TypeOK

\* An increment raises one counter by one.
LEMMA CountBumped ==
    ASSUME TypeOK, NEW d \in Rows \X Days, count' = [count EXCEPT ![d] = @ + 1]
    PROVE  \A c \in Rows \X Days :
             /\ count'[c] = IF c = d THEN count[c] + 1 ELSE count[c]
             /\ count[c] <= count'[c] /\ count'[c] \in Nat
<1>1. count \in [Rows \X Days -> Nat]
  BY DEF TypeOK
<1> QED
  BY <1>1

\* Limits are numbers.
LEMMA LimitType == ASSUME NEW row PROVE Limit(row) \in Nat
BY RagConstants DEF Limit

\* A search that reserves does so on a counter of today.
LEMMA RowType ==
    ASSUME TypeOK, NEW r \in Requests, pc[r] \in {"quota", "keyless", "breaker"}
    PROVE  <<Row(r), today>> \in Rows \X Days
BY DEF TypeOK, SearchPCs, Row, Rows

(***************************************************************************)
(* No counter of any day grants more reservations than its limit.          *)
(***************************************************************************)
THEOREM QuotaHolds == Spec => []QuotaIsNeverOversold
<1>1. Init => GrantsAreCounted
  <2> SUFFICES ASSUME Init, NEW c \in Rows \X Days
               PROVE  /\ Cardinality(Granted(c)) <= count[c]
                      /\ Cardinality(Granted(c)) <= Limit(c[1])
    BY DEF GrantsAreCounted
  <2>1. Granted(c) = {}
    BY DEF Init, Granted
  <2> QED
    BY <2>1, FS_EmptySet, LimitType DEF Init
<1>2. TypeOK /\ GrantsAreCounted /\ [Next]_vars => GrantsAreCounted'
  <2> SUFFICES ASSUME TypeOK, GrantsAreCounted, [Next]_vars
               PROVE  GrantsAreCounted'
    OBVIOUS
  <2>1. ASSUME NEW r \in Requests, Reserve(r) PROVE GrantsAreCounted'
    <3>1. PICK d \in Rows \X Days : d = <<Row(r), today>>
      BY <2>1, RowType DEF Reserve
    <3>2. count' = [count EXCEPT ![d] = @ + 1]
      BY <2>1, <3>1 DEF Reserve
    <3>3. CASE ~Within(d)
      BY <2>1, <3>1, <3>2, <3>3, NoGrantMoves, CountBumped DEF Reserve
    <3>4. CASE Within(d)
      <4>1. granted' = [granted EXCEPT ![r] = @ \cup {d}]
        BY <2>1, <3>1, <3>4 DEF Reserve
      <4>2. \A q \in Requests :
              granted'[q] = IF q = r THEN granted[q] \cup {d} ELSE granted[q]
        BY <4>1 DEF TypeOK
      <4>3. Granted(d)' = Granted(d) \cup {r}
        BY <4>2 DEF Granted
      <4>4. \A c : c # d => Granted(c)' = Granted(c)
        BY <4>2 DEF Granted
      <4>5. Cardinality(Granted(d))' <= Cardinality(Granted(d)) + 1
        <5>1. IsFiniteSet(Granted(d)) /\ Cardinality(Granted(d)) \in Nat
          BY GrantedFinite
        <5>2. Cardinality(Granted(d))' = IF r \in Granted(d) THEN Cardinality(Granted(d))
                                         ELSE Cardinality(Granted(d)) + 1
          BY <4>3, <5>1, FS_AddElement
        <5> QED
          BY <5>1, <5>2
      <4>6. Cardinality(Granted(d))' \in Nat
        <5>1. IsFiniteSet(Granted(d))
          BY GrantedFinite, Zenon
        <5>2. IsFiniteSet(Granted(d) \cup {r})
          BY <5>1, FS_AddElement, Zenon
        <5>3. Cardinality(Granted(d) \cup {r}) \in Nat
          BY <5>2, FS_CardinalityType, Zenon
        <5> QED
          BY <4>3, <5>3, Zenon
      <4>7. count[d] \in Nat /\ count[d] + 1 <= Limit(d[1])
        BY <3>1, <3>4 DEF Within, TypeOK
      <4>8. /\ Cardinality(Granted(d)) <= count[d]
            /\ Cardinality(Granted(d)) \in Nat
        BY <3>1, GrantedFinite DEF GrantsAreCounted
      <4>9. /\ Cardinality(Granted(d))' <= count'[d]
            /\ Cardinality(Granted(d))' <= Limit(d[1])
        <5>1. count'[d] = count[d] + 1
          BY <3>1, <3>2, CountBumped
        <5> QED
          BY <4>5, <4>6, <4>7, <4>8, <5>1, LimitType
      <4>10. ASSUME NEW c \in Rows \X Days, c # d
             PROVE  /\ Cardinality(Granted(c))' <= count'[c]
                    /\ Cardinality(Granted(c))' <= Limit(c[1])
        <5>1. count'[c] = count[c]
          BY <3>1, <3>2, <4>10, CountBumped
        <5> QED
          BY <4>4, <4>10, <5>1 DEF GrantsAreCounted
      <4> QED
        BY <4>9, <4>10 DEF GrantsAreCounted
    <3> QED
      BY <3>3, <3>4
  <2>2. ASSUME NEW r \in Requests, ReserveRaises(r) PROVE GrantsAreCounted'
    <3>1. <<Row(r), today>> \in Rows \X Days
      BY <2>2, RowType DEF ReserveRaises
    <3> QED
      BY <2>2, <3>1, NoGrantMoves, CountBumped, CountUnmoved DEF ReserveRaises
  <2>3. ASSUME UNCHANGED <<count, granted>> PROVE GrantsAreCounted'
    BY <2>3, NoGrantMoves, CountUnmoved
  <2>4. ASSUME NEW r \in Requests,
               \/ Arrive(r) \/ Leave(r) \/ Allow(r) \/ TryAcquire(r)
               \/ BeginStream(r) \/ Vanish(r) \/ Embed(r) \/ Release(r)
        PROVE  UNCHANGED <<count, granted>>
    BY <2>4 DEF Arrive, Leave, Allow, TryAcquire, BeginStream, Vanish, Embed,
                Release
  <2>5. ASSUME NEW p \in Processes, Restart(p) PROVE UNCHANGED <<count, granted>>
    BY <2>5 DEF Restart
  <2>6. CASE Tick \/ Midnight \/ UNCHANGED vars
    BY <2>3, <2>6 DEF Tick, Midnight, vars
  <2> QED
    BY <2>1, <2>2, <2>3, <2>4, <2>5, <2>6 DEF Next
<1>3. TypeOK /\ GrantsAreCounted => QuotaIsNeverOversold
  BY DEF GrantsAreCounted, QuotaIsNeverOversold
<1> QED
  BY <1>1, <1>2, <1>3, TypeCorrect, PTL DEF Spec

-----------------------------------------------------------------------------
Reserved(r) == \E d \in Days : <<"embeddings", d>> \in granted[r]

(***************************************************************************)
(* A search past the counters, and one that has embedded, was granted an   *)
(* embedding of some day.                                                  *)
(***************************************************************************)
EmbeddingsAreReserved ==
    \A r \in Searches :
      pc[r] \in {"acquiring"} \cup HoldingPCs \/ r \in embedded => Reserved(r)

(***************************************************************************)
(* A step keeps it if grants only grow and whoever comes past the counters *)
(* or embeds was past the counters before.                                 *)
(***************************************************************************)
LEMMA StillReserved ==
    ASSUME EmbeddingsAreReserved,
           \A r \in Searches : Reserved(r) => Reserved(r)',
           \A r \in Searches :
             pc'[r] \in {"acquiring"} \cup HoldingPCs \/ r \in embedded' =>
               \/ pc[r] \in {"acquiring"} \cup HoldingPCs \/ r \in embedded
               \/ Reserved(r)'
    PROVE  EmbeddingsAreReserved'
BY DEF EmbeddingsAreReserved

\* A reservation once granted stays granted.
LEMMA GrantsStay ==
    ASSUME UNCHANGED granted
    PROVE  \A r \in Searches : Reserved(r) => Reserved(r)'
BY DEF Reserved

(***************************************************************************)
(* Each embedding is backed by a reservation of some day, and a day backs  *)
(* no more embeddings than the breaker allows.                             *)
(***************************************************************************)
THEOREM EmbeddingsBounded == Spec => []EmbeddingsAreBounded
<1>1. Init => EmbeddingsAreReserved
  BY DEF Init, EmbeddingsAreReserved, HoldingPCs, Requests
<1>2. TypeOK /\ EmbeddingsAreReserved /\ [Next]_vars => EmbeddingsAreReserved'
  <2> SUFFICES ASSUME TypeOK, EmbeddingsAreReserved, [Next]_vars
               PROVE  EmbeddingsAreReserved'
    OBVIOUS
  <2>0. Searches \subseteq Requests
    BY DEF Requests
  <2>1. ASSUME NEW r \in Requests, Reserve(r) PROVE EmbeddingsAreReserved'
    <3>1. PICK d \in Rows \X Days : d = <<Row(r), today>>
      BY <2>1, RowType DEF Reserve
    <3>2. \/ /\ granted' = [granted EXCEPT ![r] = @ \cup {d}]
             /\ Goto(r, AfterGrant(r))
          \/ /\ UNCHANGED granted
             /\ Goto(r, "ended")
      BY <2>1, <3>1 DEF Reserve
    <3>3. \A q \in Searches : granted[q] \subseteq granted'[q]
      BY <2>0, <3>2 DEF TypeOK
    <3>4. \A q \in Searches : Reserved(q) => Reserved(q)'
      BY <3>3 DEF Reserved
    <3>5. ASSUME NEW q \in Searches, pc'[q] \in {"acquiring"} \cup HoldingPCs,
                 pc[q] \notin {"acquiring"} \cup HoldingPCs
          PROVE  Reserved(q)'
      <4>1. q = r /\ pc'[r] # "ended"
        BY <2>0, <3>2, <3>5 DEF Goto, TypeOK, HoldingPCs
      <4>2. /\ granted' = [granted EXCEPT ![r] = @ \cup {d}]
            /\ pc'[r] = AfterGrant(r)
        BY <3>2, <4>1 DEF Goto, TypeOK
      <4>3. pc[r] = "breaker"
        BY <2>1, <3>5, <4>1, <4>2 DEF Reserve, AfterGrant, HoldingPCs
      <4>4. d = <<"embeddings", today>> /\ d \in granted'[r] /\ today \in Days
        BY <3>1, <4>2, <4>3 DEF Row, TypeOK
      <4> QED
        BY <4>1, <4>4 DEF Reserved
    <3>6. UNCHANGED embedded
      BY <2>1 DEF Reserve
    <3> QED
      BY <3>4, <3>5, <3>6, StillReserved
  <2>2. ASSUME UNCHANGED granted, embedded' = embedded,
               \A q \in Searches : pc'[q] \in {"acquiring"} \cup HoldingPCs =>
                                  pc[q] \in {"acquiring"} \cup HoldingPCs
        PROVE  EmbeddingsAreReserved'
    BY <2>2, StillReserved, GrantsStay
  <2>3. ASSUME NEW r \in Requests, Arrive(r) PROVE EmbeddingsAreReserved'
    BY <2>0, <2>2, <2>3 DEF Arrive, Goto, TypeOK, HoldingPCs
  <2>4. ASSUME NEW r \in Requests,
               Leave(r) \/ Allow(r) \/ ReserveRaises(r) \/ Release(r)
        PROVE  EmbeddingsAreReserved'
    <3>1. /\ UNCHANGED granted /\ embedded' = embedded
          /\ Goto(r, "ended") \/ Goto(r, "quota")
      BY <2>4 DEF Leave, Allow, ReserveRaises, Release
    <3> QED
      BY <2>0, <2>2, <3>1 DEF Goto, TypeOK, HoldingPCs
  <2>5. ASSUME NEW r \in Requests, TryAcquire(r) \/ BeginStream(r) \/ Vanish(r)
        PROVE  EmbeddingsAreReserved'
    <3>1. /\ UNCHANGED granted /\ embedded' = embedded
          /\ pc[r] \in {"acquiring"} \cup HoldingPCs
          /\ \E place : Goto(r, place)
      BY <2>5 DEF TryAcquire, BeginStream, Vanish, HoldingPCs
    <3> QED
      BY <2>0, <2>2, <3>1 DEF Goto, TypeOK
  <2>6. ASSUME NEW r \in Requests, Embed(r) PROVE EmbeddingsAreReserved'
    BY <2>6, StillReserved, GrantsStay DEF Embed, HoldingPCs
  <2>7. ASSUME NEW p \in Processes, Restart(p) PROVE EmbeddingsAreReserved'
    BY <2>0, <2>2, <2>7 DEF Restart, HoldingPCs
  <2>8. CASE Tick \/ Midnight \/ UNCHANGED vars
    BY <2>2, <2>8 DEF Tick, Midnight, vars
  <2> QED
    BY <2>1, <2>3, <2>4, <2>5, <2>6, <2>7, <2>8 DEF Next
<1>3. EmbeddingsAreReserved /\ QuotaIsNeverOversold /\ TypeOK
        => EmbeddingsAreBounded
  <2> SUFFICES ASSUME EmbeddingsAreReserved, QuotaIsNeverOversold, TypeOK
               PROVE  EmbeddingsAreBounded
    OBVIOUS
  <2>1. embedded \subseteq UNION {EmbeddedOn(d) : d \in Days}
    BY DEF EmbeddingsAreReserved, Reserved, EmbeddedOn, TypeOK
  <2>2. ASSUME NEW d \in Days PROVE Cardinality(EmbeddedOn(d)) <= EmbedLimit
    <3> DEFINE c == <<"embeddings", d>>
    <3>1. EmbeddedOn(d) \in SUBSET Granted(c)
      BY DEF EmbeddedOn, Granted, TypeOK, Requests
    <3>2. c \in Rows \X Days /\ Limit(c[1]) = EmbedLimit
      BY DEF Rows, Limit
    <3>3. /\ Cardinality(EmbeddedOn(d)) <= Cardinality(Granted(c))
          /\ Cardinality(EmbeddedOn(d)) \in Nat
      BY <3>1, GrantedFinite, FS_Subset, FS_CardinalityType
    <3>4. Cardinality(Granted(c)) <= EmbedLimit /\ Cardinality(Granted(c)) \in Nat
      BY <3>2, GrantedFinite DEF QuotaIsNeverOversold
    <3> QED
      BY <3>3, <3>4, RagConstants
  <2> QED
    BY <2>1, <2>2 DEF EmbeddingsAreBounded
<1> QED
  BY <1>1, <1>2, <1>3, TypeCorrect, QuotaHolds, PTL DEF Spec
-----------------------------------------------------------------------------
(***************************************************************************)
(* The limiter.  A bucket is in the order of time, so what has expired of  *)
(* it at a time is a prefix, and Fresh cuts off that prefix.               *)
(***************************************************************************)
Rising(bucket) == \A i, j \in DOMAIN bucket : i <= j => bucket[i] <= bucket[j]

LEMMA ExpiredCount ==
    ASSUME NEW bucket \in Seq(Nat), NEW t \in Nat
    PROVE  /\ IsFiniteSet(ExpiredBy(bucket, t))
           /\ Cardinality(ExpiredBy(bucket, t)) \in 0 .. Len(bucket)
<1>1. ExpiredBy(bucket, t) \subseteq 1 .. Len(bucket)
  BY DEF ExpiredBy
<1>2. Len(bucket) \in Nat
  OBVIOUS
<1>3. IsFiniteSet(1 .. Len(bucket)) /\ Cardinality(1 .. Len(bucket)) = Len(bucket)
  <2>1. \A n \in Nat : IsFiniteSet(1 .. n) /\ Cardinality(1 .. n) = n
    BY FS_Interval
  <2> QED
    BY <1>2, <2>1
<1>4. IsFiniteSet(ExpiredBy(bucket, t))
      /\ Cardinality(ExpiredBy(bucket, t)) <= Len(bucket)
  BY <1>1, <1>3, FS_Subset
<1> QED
  BY <1>2, <1>4, FS_CardinalityType

LEMMA ExpiredFirst ==
    ASSUME NEW bucket \in Seq(Nat), Rising(bucket), NEW t \in Nat
    PROVE  ExpiredBy(bucket, t) = 1 .. Cardinality(ExpiredBy(bucket, t))
<1> DEFINE E == ExpiredBy(bucket, t)
<1>1. Window \in Nat
  BY RagConstants
<1>2. E \subseteq 1 .. Len(bucket) /\ IsFiniteSet(E)
      /\ Cardinality(E) \in 0 .. Len(bucket)
  <2>1. E \subseteq 1 .. Len(bucket)
    BY DEF ExpiredBy
  <2> QED
    BY <2>1, ExpiredCount
<1>3. ASSUME NEW i \in 1 .. Len(bucket), NEW j \in E, i <= j PROVE i \in E
  BY <1>1, <1>3 DEF ExpiredBy, Rising
<1> HIDE DEF E
<1>4. ASSUME NEW i \in E PROVE i <= Cardinality(E)
  <2>1. 1 .. i \subseteq E
    BY <1>2, <1>3
  <2>2. Cardinality(1 .. i) = i
    BY <1>2, FS_Interval
  <2> QED
    BY <1>2, <2>1, <2>2, FS_Subset
<1>5. ASSUME NEW i \in 1 .. Cardinality(E), i \notin E PROVE FALSE
  <2>1. i \in 1 .. Len(bucket) /\ i \in Int
    BY <1>2
  <2>2. E \subseteq 1 .. i - 1
    BY <1>2, <1>3, <1>5, <2>1
  <2>3. IsFiniteSet(1 .. i - 1) /\ Cardinality(1 .. i - 1) = i - 1
    BY <2>1, FS_Interval
  <2>4. Cardinality(E) <= i - 1
    BY <2>2, <2>3, FS_Subset
  <2> QED
    BY <1>2, <2>1, <2>4
<1>6. \A i \in E : i \in 1 .. Cardinality(E)
  BY <1>2, <1>4
<1>7. \A i \in 1 .. Cardinality(E) : i \in E
  BY <1>5
<1>8. E = 1 .. Cardinality(E)
  BY <1>6, <1>7
<1> QED
  BY <1>8 DEF E

\* What is left is a bucket from which, at any later time, as much has expired as was not
\* cut off.
LEMMA FreshKeeps ==
    ASSUME NEW bucket \in Seq(Nat), Rising(bucket), NEW n \in Nat
    PROVE  /\ Fresh(bucket, n) \in Seq(Nat) /\ Rising(Fresh(bucket, n))
           /\ \A i \in DOMAIN Fresh(bucket, n) :
                \E j \in DOMAIN bucket : Fresh(bucket, n)[i] = bucket[j]
           /\ Len(Fresh(bucket, n)) <= Len(bucket)
           /\ \A t \in Nat : t >= n =>
                Len(Fresh(bucket, n)) - Cardinality(ExpiredBy(Fresh(bucket, n), t))
                  = Len(bucket) - Cardinality(ExpiredBy(bucket, t))
<1> DEFINE e == Cardinality(ExpiredBy(bucket, n))
           rest == Fresh(bucket, n)
<1>1. e \in 0 .. Len(bucket) /\ e \in Nat /\ Len(bucket) \in Nat /\ Window \in Nat
  <2>1. e \in 0 .. Len(bucket)
    BY ExpiredCount
  <2>2. Len(bucket) \in Nat
    BY LenProperties
  <2>3. Window \in Nat
    BY RagConstants
  <2> HIDE DEF e
  <2> QED
    BY <2>1, <2>2, <2>3
<1>2. rest = SubSeq(bucket, e + 1, Len(bucket)) /\ rest \in Seq(Nat)
  <2>1. rest \in Seq(Nat)
    BY FreshType
  <2>2. rest = SubSeq(bucket, e + 1, Len(bucket))
    BY Zenon DEF Fresh
  <2> QED
    BY <2>1, <2>2
<1> HIDE DEF rest, e
<1>3. /\ Len(rest) = Len(bucket) - e
      /\ \A i \in 1 .. Len(rest) : rest[i] = bucket[i + e] /\ i + e \in 1 .. Len(bucket)
  <2>1. \A i \in e + 1 .. Len(bucket) : bucket[i] \in Nat
    BY <1>1
  <2>2. e + 1 \in Int /\ Len(bucket) \in Int
    BY <1>1
  <2>3. /\ Len(rest) = IF e + 1 <= Len(bucket) THEN Len(bucket) - (e + 1) + 1 ELSE 0
        /\ \A i \in 1 .. Len(bucket) - (e + 1) + 1 : rest[i] = bucket[e + 1 + i - 1]
    BY <1>2, <2>1, <2>2, SubSeqProperties
  <2>4. Len(rest) = Len(bucket) - e
    BY <1>1, <2>3
  <2>5. ASSUME NEW i \in 1 .. Len(rest)
        PROVE  rest[i] = bucket[i + e] /\ i + e \in 1 .. Len(bucket)
    <3>1. e + 1 + i - 1 = i + e /\ i + e \in 1 .. Len(bucket)
      BY <1>1, <2>4
    <3>2. i \in 1 .. Len(bucket) - (e + 1) + 1
      BY <1>1, <2>4
    <3> QED
      BY <2>3, <3>1, <3>2
  <2> QED
    BY <2>4, <2>5
<1>4. DOMAIN rest = 1 .. Len(rest) /\ DOMAIN bucket = 1 .. Len(bucket)
  BY <1>2
<1>5. Rising(rest)
  <2> SUFFICES ASSUME NEW i \in DOMAIN rest, NEW j \in DOMAIN rest, i <= j
               PROVE  rest[i] <= rest[j]
    BY DEF Rising
  <2>1. i + e \in DOMAIN bucket /\ j + e \in DOMAIN bucket /\ i + e <= j + e
    BY <1>1, <1>3, <1>4
  <2> QED
    BY <1>3, <1>4, <2>1 DEF Rising
<1>6. ASSUME NEW t \in Nat, t >= n
      PROVE  Len(rest) - Cardinality(ExpiredBy(rest, t))
               = Len(bucket) - Cardinality(ExpiredBy(bucket, t))
  <2> DEFINE m == Cardinality(ExpiredBy(bucket, t))
  <2>1. m \in 0 .. Len(bucket) /\ ExpiredBy(bucket, t) = 1 .. m
        /\ ExpiredBy(bucket, n) = 1 .. e
    BY ExpiredCount, ExpiredFirst DEF e
  <2>2. ExpiredBy(bucket, n) \subseteq ExpiredBy(bucket, t)
    BY <1>1, <1>6 DEF ExpiredBy
  <2> HIDE DEF m
  <2>3. e <= m
    BY <1>1, <2>1, <2>2
  <2>4. \A i \in 1 .. Len(rest) : rest[i] <= t - Window <=> i + e <= m
    <3> TAKE i \in 1 .. Len(rest)
    <3>1. i + e \in DOMAIN bucket /\ rest[i] = bucket[i + e]
      BY <1>3, <1>4
    <3>2. bucket[i + e] <= t - Window <=> i + e \in 1 .. m
      BY <2>1, <3>1 DEF ExpiredBy
    <3> QED
      BY <1>1, <2>1, <3>1, <3>2
  <2>5. ExpiredBy(rest, t) = 1 .. (m - e)
    BY <1>1, <1>3, <1>4, <2>1, <2>3, <2>4 DEF ExpiredBy
  <2>6. Cardinality(1 .. (m - e)) = m - e
    BY <1>1, <2>1, <2>3, FS_Interval
  <2> QED
    BY <1>1, <1>3, <2>1, <2>5, <2>6 DEF m
<1>7. \A i \in DOMAIN rest : \E j \in DOMAIN bucket : rest[i] = bucket[j]
  BY <1>3, <1>4
<1>8. Len(rest) <= Len(bucket)
  BY <1>1, <1>3
<1> QED
  BY <1>2, <1>5, <1>6, <1>7, <1>8 DEF rest

\* A hit that is added counts until it has expired.
LEMMA AppendCounts ==
    ASSUME NEW bucket \in Seq(Nat), NEW x \in Nat, NEW t \in Nat
    PROVE  Len(Append(bucket, x)) - Cardinality(ExpiredBy(Append(bucket, x), t))
             = Len(bucket) - Cardinality(ExpiredBy(bucket, t))
                 + (IF x <= t - Window THEN 0 ELSE 1)
<1> DEFINE more == Append(bucket, x)
<1>1. /\ Len(more) = Len(bucket) + 1 /\ more[Len(bucket) + 1] = x
      /\ \A i \in 1 .. Len(bucket) : more[i] = bucket[i]
      /\ DOMAIN more = 1 .. Len(bucket) + 1 /\ DOMAIN bucket = 1 .. Len(bucket)
      /\ Len(bucket) \in Nat
  OBVIOUS
<1>2. IsFiniteSet(ExpiredBy(bucket, t)) /\ Cardinality(ExpiredBy(bucket, t)) \in Nat
  BY ExpiredCount
<1> HIDE DEF more
<1>3. CASE x <= t - Window
  <2>1. ExpiredBy(more, t) = ExpiredBy(bucket, t) \cup {Len(bucket) + 1}
        /\ Len(bucket) + 1 \notin ExpiredBy(bucket, t)
    BY <1>1, <1>3 DEF ExpiredBy
  <2>2. Cardinality(ExpiredBy(more, t)) = Cardinality(ExpiredBy(bucket, t)) + 1
    BY <1>2, <2>1, FS_AddElement
  <2> QED
    BY <1>1, <1>2, <1>3, <2>2 DEF more
<1>4. CASE ~(x <= t - Window)
  <2>1. ExpiredBy(more, t) = ExpiredBy(bucket, t)
    BY <1>1, <1>4 DEF ExpiredBy
  <2> QED
    BY <1>1, <1>2, <1>4, <2>1 DEF more
<1> QED
  BY <1>3, <1>4

(***************************************************************************)
(* The invariant of the limiter: from now on, of the searches it let pass  *)
(* no more count at any time than there are entries left in the bucket.    *)
(***************************************************************************)
Recent(k, t) ==
    {r \in Requests : who[r] = k /\ hitAt[r] # None /\ hitAt[r] > t - Window}

Passed(k, t) ==
    {r \in Requests : who[r] = k /\ hitAt[r] # None /\ hitAt[r] \in (t - Window + 1) .. t}

BucketFits(k) ==
    /\ Rising(hits[k])
    /\ \A i \in DOMAIN hits[k] : hits[k][i] <= now
    /\ Len(hits[k]) <= Rate(k)
    /\ \A t \in Nat : t >= now =>
         Cardinality(Recent(k, t)) <= Len(hits[k]) - Cardinality(ExpiredBy(hits[k], t))

LimiterInv ==
    /\ \A r \in Requests : pc[r] \in {"idle", "limiting"} => hitAt[r] = None
    /\ \A r \in Requests : hitAt[r] # None => hitAt[r] <= now
    /\ \A k \in Principals : BucketFits(k)
    /\ EveryWindowIsWithinRate

LEMMA RecentFinite ==
    ASSUME NEW k, NEW t
    PROVE  IsFiniteSet(Recent(k, t)) /\ Cardinality(Recent(k, t)) \in Nat
<1>1. Recent(k, t) \subseteq Requests
  BY DEF Recent
<1> QED
  BY <1>1, RequestsFinite, FS_Subset, FS_CardinalityType

\* After a step, a window that ends now or later holds no more than the bucket.
LEMMA BucketBounds ==
    ASSUME TypeOK', NEW k \in Principals, BucketFits(k)', NEW t \in Nat, t >= now'
    PROVE  Cardinality(Passed(k, t))' <= Rate(k)
<1>1. Passed(k, t)' \subseteq Recent(k, t)'
  <2> SUFFICES ASSUME NEW r \in Requests, who'[r] = k, hitAt'[r] # None,
                      hitAt'[r] \in (t - Window + 1) .. t
               PROVE  hitAt'[r] > t - Window
    BY DEF Passed, Recent
  <2>1. Window \in Nat
    BY RagConstants
  <2> QED
    BY <2>1
<1>2. \A P, R : P \subseteq R /\ R \subseteq Requests =>
        /\ Cardinality(P) <= Cardinality(R)
        /\ Cardinality(P) \in Nat /\ Cardinality(R) \in Nat
  BY RequestsFinite, FS_Subset, FS_CardinalityType
<1>3. Recent(k, t)' \subseteq Requests
  BY DEF Recent
<1>4. Cardinality(Passed(k, t))' <= Cardinality(Recent(k, t))'
      /\ Cardinality(Passed(k, t))' \in Nat /\ Cardinality(Recent(k, t))' \in Nat
  BY <1>1, <1>2, <1>3
<1>5. hits'[k] \in Seq(Nat)
  BY DEF TypeOK
<1>6. Len(hits'[k]) \in Nat
  BY <1>5
<1>7. Cardinality(ExpiredBy(hits'[k], t)) \in Nat
  <2>1. IsFiniteSet(ExpiredBy(hits'[k], t))
    BY <1>5, ExpiredCount, Zenon
  <2> QED
    BY <2>1, FS_CardinalityType, Zenon
<1>8. Rate(k) \in Nat
  BY RagConstants DEF Rate
<1>9. /\ Len(hits'[k]) <= Rate(k)
      /\ Cardinality(Recent(k, t))' <= Len(hits'[k]) - Cardinality(ExpiredBy(hits'[k], t))
  BY DEF BucketFits, Rate, ExpiredBy
<1> QED
  BY <1>4, <1>6, <1>7, <1>8, <1>9

\* Steps that neither add a hit nor change whose it was.
LEMMA NoHit ==
    ASSUME TypeOK, LimiterInv, UNCHANGED <<hits, hitAt>>, now' \in {now, now + 1},
           \A r \in Requests : hitAt[r] # None => who'[r] = who[r],
           \A r \in Requests : pc'[r] \in {"idle", "limiting"} =>
                                 pc[r] \in {"idle", "limiting"}
    PROVE  LimiterInv'
<1>1. now \in Nat /\ now' \in Nat /\ now <= now'
  BY DEF TypeOK
<1>2. ASSUME NEW r \in Requests, hitAt'[r] # None PROVE hitAt'[r] <= now'
  BY <1>1, <1>2 DEF TypeOK, LimiterInv
<1>3. ASSUME NEW k \in Principals PROVE BucketFits(k)'
  <2>1. \A t \in Nat : Recent(k, t)' = Recent(k, t)
    BY DEF Recent
  <2>2. \A t \in Nat : ExpiredBy(hits[k], t)' = ExpiredBy(hits[k], t)
    BY DEF ExpiredBy
  <2>3. BucketFits(k) /\ hits[k] \in Seq(Nat)
    BY DEF LimiterInv, TypeOK
  <2>4. \A i \in DOMAIN hits'[k] : hits'[k][i] <= now'
    BY <1>1, <2>3 DEF BucketFits
  <2>5. Rising(hits[k])'
    BY <2>3 DEF BucketFits, Rising
  <2>6. \A t \in Nat : t >= now' =>
          Cardinality(Recent(k, t))' <=
            Len(hits'[k]) - Cardinality(ExpiredBy(hits[k], t))'
    BY <1>1, <2>1, <2>2, <2>3 DEF BucketFits
  <2> QED
    BY <2>3, <2>4, <2>5, <2>6 DEF BucketFits, Rate
<1>4. EveryWindowIsWithinRate'
  <2>1. \A k \in Principals, t \in 0 .. MaxTime : Passed(k, t)' = Passed(k, t)
    BY DEF Passed
  <2> QED
    BY <2>1 DEF LimiterInv, EveryWindowIsWithinRate, Passed, Rate
<1> QED
  BY <1>2, <1>3, <1>4 DEF LimiterInv

\* allow, which forgets what has expired and adds a hit if there is room.
LEMMA AllowKeeps ==
    ASSUME TypeOK, LimiterInv, NEW r \in Requests, Allow(r)
    PROVE  LimiterInv'
<1> DEFINE k == who[r]
           kept == Fresh(hits[k], now)
<1>1. k \in Principals /\ pc[r] = "limiting" /\ hitAt[r] = None /\ now \in Nat
  BY DEF Allow, TypeOK, SearchPCs, LimiterInv
<1>2. hits[k] \in Seq(Nat) /\ BucketFits(k) /\ hits \in [Principals -> Seq(Nat)]
      /\ hitAt \in [Requests -> Nat \cup {None}] /\ pc \in [Requests -> PCs]
  BY <1>1 DEF TypeOK, LimiterInv
<1>3. /\ kept \in Seq(Nat) /\ Rising(kept) /\ Len(kept) <= Len(hits[k])
      /\ \A i \in DOMAIN kept : kept[i] <= now
      /\ \A t \in Nat : t >= now =>
           Len(kept) - Cardinality(ExpiredBy(kept, t))
             = Len(hits[k]) - Cardinality(ExpiredBy(hits[k], t))
  <2>1. Rising(hits[k])
    BY <1>2 DEF BucketFits
  <2>2. \A i \in DOMAIN kept : \E j \in DOMAIN hits[k] : kept[i] = hits[k][j]
    BY <1>1, <1>2, <2>1, FreshKeeps
  <2> QED
    BY <1>1, <1>2, <2>1, <2>2, FreshKeeps DEF BucketFits
<1>4. Rate(k) \in Nat /\ Window \in Nat \ {0} /\ None \notin Nat
      /\ Len(kept) \in Nat /\ Len(hits[k]) \in Nat
  <2>1. Rate(k) \in Nat /\ Window \in Nat \ {0} /\ None \notin Nat
    BY RagConstants DEF Rate
  <2> QED
    BY <1>2, <1>3, <2>1, LenProperties
<1>5. who' = who /\ now' = now
  BY DEF Allow
<1>6. \/ /\ hits' = [hits EXCEPT ![k] = kept]
         /\ Goto(r, "ended")
         /\ UNCHANGED hitAt
      \/ /\ Len(kept) < Rate(k)
         /\ hits' = [hits EXCEPT ![k] = Append(kept, now)]
         /\ hitAt' = [hitAt EXCEPT ![r] = now]
         /\ Goto(r, "quota")
  BY DEF Allow
<1> HIDE DEF kept
<1>7. \A q \in Requests :
        /\ pc'[q] \in {"idle", "limiting"} => hitAt'[q] = None
        /\ hitAt'[q] # None => hitAt'[q] <= now'
  <2> TAKE q \in Requests
  <2>1. pc'[q] = IF q = r THEN pc'[r] ELSE pc[q]
    BY <1>2, <1>6 DEF Goto
  <2>2. pc'[r] \in {"ended", "quota"}
    BY <1>2, <1>6 DEF Goto
  <2>3. q # r => hitAt'[q] = hitAt[q]
    BY <1>2, <1>6
  <2>4. hitAt'[r] \in {None, now}
    BY <1>1, <1>2, <1>6
  <2> QED
    BY <1>1, <1>5, <2>1, <2>2, <2>3, <2>4 DEF LimiterInv
<1>8. ASSUME NEW p \in Principals PROVE BucketFits(p)'
  <2>1. CASE p # k
    <3>1. hits'[p] = hits[p]
      BY <1>1, <1>2, <1>6, <2>1
    <3>2. \A t \in Nat : Recent(p, t)' = Recent(p, t)
      BY <1>1, <1>2, <1>5, <1>6, <2>1 DEF Recent
    <3>3. BucketFits(p)
      BY DEF LimiterInv
    <3> QED
      BY <1>5, <3>1, <3>2, <3>3 DEF BucketFits, Rising, ExpiredBy, Rate
  <2>2. CASE p = k /\ hits' = [hits EXCEPT ![k] = kept] /\ UNCHANGED hitAt
    <3>1. hits'[k] = kept
      BY <1>1, <1>2, <2>2
    <3>2. \A t \in Nat : Recent(k, t)' = Recent(k, t)
      BY <1>5, <2>2 DEF Recent
    <3>3. Len(kept) <= Rate(k)
      BY <1>2, <1>3, <1>4 DEF BucketFits
    <3>4. \A t \in Nat : t >= now =>
            Cardinality(Recent(k, t)) <= Len(kept) - Cardinality(ExpiredBy(kept, t))
      BY <1>2, <1>3 DEF BucketFits
    <3> QED
      BY <1>3, <1>5, <2>2, <3>1, <3>2, <3>3, <3>4 DEF BucketFits, Rising, ExpiredBy, Rate
  <2>3. CASE /\ p = k /\ Len(kept) < Rate(k)
             /\ hits' = [hits EXCEPT ![k] = Append(kept, now)]
             /\ hitAt' = [hitAt EXCEPT ![r] = now]
    <3> DEFINE more == Append(kept, now)
    <3>1. hits'[k] = more
      BY <1>1, <1>2, <2>3
    <3>2. /\ Len(more) = Len(kept) + 1 /\ DOMAIN more = 1 .. Len(kept) + 1
          /\ \A i \in 1 .. Len(kept) : more[i] = kept[i] /\ i \in DOMAIN kept
          /\ more[Len(kept) + 1] = now
      BY <1>1, <1>3
    <3>3. ASSUME NEW t \in Nat, t >= now
          PROVE  Cardinality(Recent(k, t))' <=
                   Len(more) - Cardinality(ExpiredBy(more, t))
      <4>1. Cardinality(Recent(k, t)) <= Len(kept) - Cardinality(ExpiredBy(kept, t))
            /\ Cardinality(Recent(k, t)) \in Nat
            /\ Cardinality(ExpiredBy(kept, t)) \in Nat
        BY <1>2, <1>3, <3>3, RecentFinite, ExpiredCount DEF BucketFits
      <4>2. Len(more) - Cardinality(ExpiredBy(more, t))
              = Len(kept) - Cardinality(ExpiredBy(kept, t))
                  + (IF now <= t - Window THEN 0 ELSE 1)
        BY <1>1, <1>3, AppendCounts
      <4>3. r \notin Recent(k, t)
        BY <1>1 DEF Recent
      <4>4. \A q \in Requests : hitAt'[q] = IF q = r THEN now ELSE hitAt[q]
        BY <1>2, <2>3
      <4>5. CASE now <= t - Window
        <5>1. Recent(k, t)' = Recent(k, t)
          BY <1>1, <1>4, <1>5, <4>3, <4>4, <4>5 DEF Recent
        <5> QED
          BY <1>4, <4>1, <4>2, <4>5, <5>1
      <4>6. CASE ~(now <= t - Window)
        <5>1. Recent(k, t)' = Recent(k, t) \cup {r}
          BY <1>1, <1>4, <1>5, <4>3, <4>4, <4>6 DEF Recent
        <5>2. Cardinality(Recent(k, t))' = Cardinality(Recent(k, t)) + 1
          BY <4>3, <5>1, RecentFinite, FS_AddElement
        <5> QED
          BY <1>4, <4>1, <4>2, <4>6, <5>2
      <4> QED
        BY <4>5, <4>6
    <3> HIDE DEF more
    <3>4. Rising(more) /\ \A i \in DOMAIN more : more[i] <= now
      <4>1. \A i \in DOMAIN more :
              more[i] <= now /\ (i = Len(kept) + 1 \/ i \in DOMAIN kept)
        BY <1>1, <1>3, <1>4, <3>2
      <4>2. ASSUME NEW i \in DOMAIN more, NEW j \in DOMAIN more, i <= j
            PROVE  more[i] <= more[j]
        <5>1. CASE j = Len(kept) + 1
          BY <3>2, <4>1, <5>1
        <5>2. CASE j # Len(kept) + 1
          <6>1. i \in 1 .. Len(kept) /\ j \in 1 .. Len(kept)
            BY <1>4, <3>2, <4>2, <5>2
          <6> QED
            BY <1>3, <3>2, <4>2, <6>1 DEF Rising
        <5> QED
          BY <5>1, <5>2
      <4> QED
        BY <4>1, <4>2 DEF Rising
    <3>5. Len(more) <= Rate(k)
      BY <1>4, <2>3, <3>2
    <3> QED
      BY <1>5, <2>3, <3>1, <3>3, <3>4, <3>5 DEF BucketFits, Rising, ExpiredBy, Rate
  <2> QED
    BY <1>6, <2>1, <2>2, <2>3
<1>9. EveryWindowIsWithinRate'
  <2> SUFFICES ASSUME NEW p \in Principals, NEW t \in 0 .. MaxTime
               PROVE  Cardinality(Passed(p, t))' <= Rate(p)
    BY DEF EveryWindowIsWithinRate, Passed, Rate
  <2>0. t \in Nat
    OBVIOUS
  <2>1. CASE t >= now
    <3>1. TypeOK'
      BY TypeKept DEF Next
    <3>2. BucketFits(p)' /\ t >= now'
      BY <1>5, <1>8, <2>1
    <3> QED
      BY <2>0, <3>1, <3>2, BucketBounds
  <2>2. CASE ~(t >= now)
    <3>1. \A q \in Requests : hitAt'[q] = hitAt[q] \/ (q = r /\ hitAt'[q] = now)
      <4>1. hitAt' = hitAt \/ hitAt' = [hitAt EXCEPT ![r] = now]
        BY <1>6
      <4>2. DOMAIN hitAt = Requests
        BY <1>2
      <4> QED
        BY <4>1, <4>2
    <3>2. now \notin (t - Window + 1) .. t
      BY <1>1, <1>4, <2>0, <2>2
    <3>3. ASSUME NEW q \in Requests
          PROVE  q \in Passed(p, t)' <=> q \in Passed(p, t)
      <4>1. CASE hitAt'[q] = hitAt[q]
        BY <1>5, <4>1 DEF Passed
      <4>2. CASE q = r /\ hitAt'[q] = now
        BY <1>1, <3>2, <4>2 DEF Passed
      <4> QED
        BY <3>1, <4>1, <4>2
    <3>4. Passed(p, t)' = Passed(p, t)
      BY <3>3 DEF Passed
    <3> QED
      BY <3>4 DEF LimiterInv, EveryWindowIsWithinRate, Passed
  <2> QED
    BY <2>1, <2>2
<1> QED
  BY <1>7, <1>8, <1>9 DEF LimiterInv

\* An empty bucket fits when nobody has passed.
LEMMA EmptyBucket ==
    /\ Rising(<<>>) /\ DOMAIN <<>> = {} /\ Len(<<>>) = 0
    /\ \A t \in Nat : Cardinality(ExpiredBy(<<>>, t)) = 0
    /\ \A k \in Principals : Rate(k) \in Nat
<1>1. DOMAIN <<>> = {} /\ Len(<<>>) = 0
  OBVIOUS
<1>2. \A t \in Nat : ExpiredBy(<<>>, t) = {}
  BY <1>1 DEF ExpiredBy
<1>3. \A k \in Principals : Rate(k) \in Nat
  BY RagConstants DEF Rate
<1> QED
  BY <1>1, <1>2, <1>3, FS_EmptySet DEF Rising

(***************************************************************************)
(* No interval as long as the window, aligned or not, sees more of a       *)
(* principal's searches pass the limiter than its rate, however hits are   *)
(* spread and until the process restarts (SlidingWindowRateLimiter.allow). *)
(***************************************************************************)
THEOREM RateHolds == Spec => []EveryWindowIsWithinRate
<1>1. Init => LimiterInv
  <2> SUFFICES ASSUME Init PROVE LimiterInv
    OBVIOUS
  <2>1. \A k, t : Recent(k, t) = {} /\ Passed(k, t) = {}
    BY DEF Init, Recent, Passed
  <2>2. ASSUME NEW k \in Principals PROVE BucketFits(k)
    <3>1. hits[k] = <<>>
      BY DEF Init
    <3>2. \A t \in Nat : Cardinality(Recent(k, t)) = 0
      BY <2>1, FS_EmptySet
    <3> QED
      BY <3>1, <3>2, EmptyBucket DEF BucketFits
  <2>3. ASSUME NEW k \in Principals, NEW t \in 0..MaxTime
        PROVE  Cardinality(Passed(k, t)) =< Rate(k)
    <3>1. Cardinality(Passed(k, t)) = 0
      BY <2>1, FS_EmptySet
    <3>2. Rate(k) \in Nat
      BY RagConstants DEF Rate
    <3> QED
      BY <3>1, <3>2
  <2>4. EveryWindowIsWithinRate
    BY <2>3 DEF EveryWindowIsWithinRate, Passed
  <2> QED
    BY <2>2, <2>4 DEF LimiterInv, Init
<1>2. TypeOK /\ LimiterInv /\ [Next]_vars => LimiterInv'
  <2> SUFFICES ASSUME TypeOK, LimiterInv, [Next]_vars PROVE LimiterInv'
    OBVIOUS
  <2>1. ASSUME NEW r \in Requests, Arrive(r) PROVE LimiterInv'
    <3>1. hitAt[r] = None
      BY <2>1 DEF Arrive, LimiterInv
    <3>2. \A q \in Requests : q # r => who'[q] = who[q] /\ pc'[q] = pc[q]
      BY <2>1 DEF Arrive, Goto, TypeOK
    <3> QED
      BY <2>1, <3>1, <3>2, NoHit DEF Arrive
  <2>2. ASSUME NEW r \in Requests, Allow(r) PROVE LimiterInv'
    BY <2>2, AllowKeeps
  <2>3. ASSUME NEW r \in Requests,
               \/ Leave(r) \/ Reserve(r) \/ ReserveRaises(r) \/ TryAcquire(r)
               \/ BeginStream(r) \/ Vanish(r) \/ Embed(r) \/ Release(r)
        PROVE  LimiterInv'
    <3>1. UNCHANGED <<hits, hitAt, who, now>>
      BY <2>3 DEF Leave, Reserve, ReserveRaises, TryAcquire, BeginStream, Vanish, Embed,
                  Release
    <3>2. \A q \in Requests : pc'[q] = pc[q] \/ pc'[q] \notin {"idle", "limiting"}
      BY <2>3 DEF Leave, Reserve, ReserveRaises, TryAcquire, BeginStream, Vanish, Embed,
                  Release, Goto, AfterGrant, TypeOK
    <3> QED
      BY <3>1, <3>2, NoHit
  <2>4. CASE Restart("mcp")
    <3>1. hits' = [k \in Principals |-> <<>>] /\ hitAt' = [r \in Requests |-> None]
      BY <2>4 DEF Restart
    <3>2. \A k, t : Recent(k, t)' = {} /\ Passed(k, t)' = {}
      BY <3>1 DEF Recent, Passed
    <3>3. ASSUME NEW k \in Principals PROVE BucketFits(k)'
      <4>1. hits'[k] = <<>>
        BY <3>1
      <4>2. \A t \in Nat : Cardinality(Recent(k, t))' = 0
        BY <3>2, FS_EmptySet
      <4>3. Rising(hits'[k]) /\ DOMAIN hits'[k] = {} /\ Len(hits'[k]) = 0
            /\ Rate(k) \in Nat
        BY <4>1, EmptyBucket
      <4>4. \A t \in Nat : Cardinality(ExpiredBy(hits'[k], t)) = 0
        BY <4>1, EmptyBucket
      <4> QED
        BY <4>2, <4>3, <4>4 DEF BucketFits, Rate, Rising, ExpiredBy
    <3>4. EveryWindowIsWithinRate'
      <4>1. ASSUME NEW k \in Principals, NEW t \in 0 .. MaxTime
            PROVE  Cardinality(Passed(k, t))' <= Rate(k)
        <5>1. Cardinality(Passed(k, t))' = 0
          BY <3>2, FS_EmptySet, Zenon
        <5>2. Rate(k) \in Nat
          BY EmptyBucket
        <5> QED
          BY <5>1, <5>2
      <4> QED
        BY <4>1, Zenon DEF EveryWindowIsWithinRate, Passed
    <3> QED
      BY <3>1, <3>3, <3>4 DEF LimiterInv
  <2>5. CASE Restart("rest")
    <3>1. UNCHANGED <<hits, hitAt, who, now>>
      BY <2>5 DEF Restart
    <3>2. \A q \in Requests : pc'[q] = pc[q] \/ pc'[q] = "ended"
      BY <2>5 DEF Restart
    <3> QED
      BY <3>1, <3>2, NoHit
  <2>6. CASE Tick \/ Midnight
    BY <2>6, NoHit DEF Tick, Midnight
  <2>7. CASE UNCHANGED vars
    BY <2>7, NoHit DEF vars
  <2> QED
    BY <2>1, <2>2, <2>3, <2>4, <2>5, <2>6, <2>7 DEF Next, Processes
<1>3. LimiterInv => EveryWindowIsWithinRate
  BY DEF LimiterInv
<1> QED
  BY <1>1, <1>2, <1>3, TypeCorrect, PTL DEF Spec

-----------------------------------------------------------------------------
(* The knowledge base as a whole: each component runs as its own specification says, or *)
(* stays as it is. *)

LEMMA AdmissionRuns == KnowledgeSpec => Spec
<1>1. KnowledgeInit => Init
  BY DEF KnowledgeInit
<1>2. [KnowledgeNext]_knowledgeVars => [Next]_vars
  BY DEF KnowledgeNext, Part, knowledgeVars
<1> QED
  BY <1>1, <1>2, PTL DEF KnowledgeSpec, Spec

LEMMA ConversationRuns == KnowledgeSpec => ConversationSpec
<1>1. KnowledgeInit => ConversationInit
  BY DEF KnowledgeInit
<1>2. [KnowledgeNext]_knowledgeVars => [ConversationNext]_conversationVars
  BY DEF KnowledgeNext, Part, knowledgeVars
<1> QED
  BY <1>1, <1>2, PTL DEF KnowledgeSpec, ConversationSpec

LEMMA BaseRuns == KnowledgeSpec => BaseSpec
<1>1. KnowledgeInit => KnowledgeBaseInit
  BY DEF KnowledgeInit
<1>2. [KnowledgeNext]_knowledgeVars => [KnowledgeBaseNext]_baseVars
  BY DEF KnowledgeNext, Part, knowledgeVars
<1> QED
  BY <1>1, <1>2, PTL DEF KnowledgeSpec, BaseSpec

(***************************************************************************)
(* Admission, conversations and the knowledge base keep their types in the *)
(* composition the run knowledge checks: whichever of them runs, it takes  *)
(* only steps of its own specification, of which its theorem speaks.       *)
(***************************************************************************)
THEOREM KnowledgeTypes == KnowledgeSpec => []KnowledgeTypeOK
<1>1. KnowledgeSpec => []TypeOK
  BY AdmissionRuns, TypeCorrect
<1>2. KnowledgeSpec => []ConversationTypeOK
  BY ConversationRuns, ConversationTypes
<1>3. KnowledgeSpec => []KnowledgeBaseTypeOK
  BY BaseRuns, BaseTypes
<1>4. TypeOK /\ ConversationTypeOK /\ KnowledgeBaseTypeOK => KnowledgeTypeOK
  BY DEF KnowledgeTypeOK
<1> QED
  BY <1>1, <1>2, <1>3, <1>4, PTL
=============================================================================
