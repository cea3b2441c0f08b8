----------------------------- MODULE PipelineProofs -----------------------------
(***************************************************************************)
(* Theorems about nine components the newsletter pipeline uses and the     *)
(* state each shares with other runs or with the browser: the Beeper       *)
(* session and its per-run key stores, the pictures on the disk, the       *)
(* progress stream, the extraction cache, the translation of a chat, the   *)
(* decryption of its messages, the links of a newsletter, the choice of    *)
(* its discussions, and the parsing of its chats. They share no variables; *)
(* each part below has its own specification and invariant.                *)
(***************************************************************************)
EXTENDS BeeperSession, Images, ProgressStream, Extraction, Translation, Decryption,
        LinkEnrichment, DiscussionSelection, Parsing, Integers, FiniteSetTheorems,
        SequenceTheorems, WellFoundedInduction, TLAPS

SessionSpec == SessionInit /\ [][SessionNext]_sessionVars

(***************************************************************************)
(* The invariant.  The lock keeps refreshes apart, so what a refresh finds *)
(* in the temporary directory is what it put there; workers belong to a    *)
(* run that is working; and if runs do not overlap, nothing changes the    *)
(* store between a run's refresh and its copies, nor the copies before its *)
(* workers have opened them.                                               *)
(***************************************************************************)
Refreshing == {"backup", "install"}

OneRefresh ==
  \A m, n \in Newsletters : phase[m] \in Refreshing /\ phase[n] \in Refreshing => m = n

TempIsFresh ==
  \A n \in Newsletters : phase[n] \in Refreshing => temp \in Sessions /\ temp = login[n]

WorkersOfWorking ==
  \A n \in Newsletters, i \in WorkerSlots : worker[n][i] # "ended" => phase[n] = "working"

OneRun ==
  ~RunsOverlap => \A m, n \in Newsletters : Alive(m) /\ Alive(n) => m = n

StoreIsOwn ==
  ~RunsOverlap => \A n \in Newsletters :
    phase[n] = "dispatch" => store \in Sessions /\ store = login[n]

CopiesAreOwn ==
  ~RunsOverlap => \A n \in Newsletters, i \in WorkerSlots :
    /\ worker[n][i] = "ready" => copy[i] = login[n]
    /\ worker[n][i] = "extracting" => opened[n][i] = login[n]

SessionInv ==
  /\ SessionTypeOK /\ OneRefresh /\ TempIsFresh /\ WorkersOfWorking
  /\ OneRun /\ StoreIsOwn /\ CopiesAreOwn

LEMMA Initially == SessionInit => SessionInv
<1> SUFFICES ASSUME SessionInit PROVE SessionInv
  OBVIOUS
<1> USE SessionAssumption DEF SessionInit
<1>1. SessionTypeOK
  BY DEF SessionTypeOK, Directory, Sessions
<1>2. OneRefresh /\ TempIsFresh /\ WorkersOfWorking
  BY DEF OneRefresh, TempIsFresh, WorkersOfWorking, Refreshing
<1>3. OneRun /\ StoreIsOwn /\ CopiesAreOwn
  BY DEF OneRun, StoreIsOwn, CopiesAreOwn, Alive
<1> QED
  BY <1>1, <1>2, <1>3 DEF SessionInv

\* Every step keeps the types.
LEMMA TypesKept == SessionTypeOK /\ [SessionNext]_sessionVars => SessionTypeOK'
<1> SUFFICES ASSUME SessionTypeOK, [SessionNext]_sessionVars PROVE SessionTypeOK'
  OBVIOUS
<1> USE SessionAssumption
    DEF SessionTypeOK, Directory, Sessions, BeforeDispatch, To, Setback
<1>1. ASSUME NEW n \in Newsletters, BeginRun(n) PROVE SessionTypeOK'
  BY <1>1 DEF BeginRun
<1>2. ASSUME NEW n \in Newsletters, LogInToBeeper(n) PROVE SessionTypeOK'
  BY <1>2 DEF LogInToBeeper
<1>3. ASSUME NEW n \in Newsletters, BackUp(n) PROVE SessionTypeOK'
  BY <1>3 DEF BackUp
<1>4. ASSUME NEW n \in Newsletters, Install(n) PROVE SessionTypeOK'
  BY <1>4 DEF Install
<1>5. ASSUME NEW n \in Newsletters, RefreshFails(n) PROVE SessionTypeOK'
  BY <1>5 DEF RefreshFails
<1>6. ASSUME NEW n \in Newsletters, CopyStores(n) PROVE SessionTypeOK'
  BY <1>6 DEF CopyStores
<1>7. ASSUME NEW n \in Newsletters, CopyFails(n) PROVE SessionTypeOK'
  BY <1>7 DEF CopyFails
<1>8. ASSUME NEW n \in Newsletters, NEW i \in WorkerSlots, Open(n, i)
      PROVE  SessionTypeOK'
  BY <1>8 DEF Open
<1>9. ASSUME NEW n \in Newsletters, NEW i \in WorkerSlots, Close(n, i)
      PROVE  SessionTypeOK'
  BY <1>9 DEF Close
<1>10. ASSUME ProcessDies PROVE SessionTypeOK'
  BY <1>10 DEF ProcessDies
<1>11. ASSUME UNCHANGED sessionVars PROVE SessionTypeOK'
  BY <1>11 DEF sessionVars
<1> QED
  BY <1>1, <1>2, <1>3, <1>4, <1>5, <1>6, <1>7, <1>8, <1>9, <1>10, <1>11 DEF SessionNext

\* Every step keeps the rest of the invariant.
LEMMA InvKept == SessionInv /\ [SessionNext]_sessionVars => SessionInv'
<1> SUFFICES ASSUME SessionInv, [SessionNext]_sessionVars PROVE SessionInv'
  OBVIOUS
<1>0. SessionTypeOK /\ SessionTypeOK'
  BY TypesKept DEF SessionInv
<1> DEFINE Rest == /\ OneRefresh /\ TempIsFresh /\ WorkersOfWorking
                   /\ OneRun /\ StoreIsOwn /\ CopiesAreOwn
<1> USE <1>0, SessionAssumption
    DEF OneRefresh, TempIsFresh, WorkersOfWorking, OneRun, StoreIsOwn, CopiesAreOwn,
        Refreshing, Alive, SessionInv, SessionTypeOK, Directory, Sessions,
        BeforeDispatch, To, Setback
<1>1. ASSUME NEW n \in Newsletters, BeginRun(n) PROVE Rest'
  BY <1>1 DEF BeginRun
<1>2. ASSUME NEW n \in Newsletters, LogInToBeeper(n) PROVE Rest'
  BY <1>2 DEF LogInToBeeper, Locked
<1>3. ASSUME NEW n \in Newsletters, BackUp(n) PROVE Rest'
  BY <1>3 DEF BackUp
<1>4. ASSUME NEW n \in Newsletters, Install(n) PROVE Rest'
  BY <1>4 DEF Install
<1>5. ASSUME NEW n \in Newsletters, RefreshFails(n) PROVE Rest'
  BY <1>5 DEF RefreshFails, Locked
<1>6. ASSUME NEW n \in Newsletters, CopyStores(n) PROVE Rest'
  <2> USE <1>6 DEF CopyStores
  <2>1. (OneRefresh /\ TempIsFresh /\ WorkersOfWorking /\ OneRun /\ StoreIsOwn)'
    OBVIOUS
  <2>2. CopiesAreOwn'
    <3> SUFFICES ASSUME ~RunsOverlap, NEW m \in Newsletters, NEW k \in WorkerSlots
                 PROVE  /\ worker'[m][k] = "ready" => copy'[k] = login'[m]
                        /\ worker'[m][k] = "extracting" => opened'[m][k] = login'[m]
      OBVIOUS
    <3>1. CASE m = n
      <4>1. store # Missing /\ store = login[n]
        OBVIOUS
      <4> QED
        BY <3>1, <4>1
    <3>2. CASE m # n
      <4>1. phase[m] = "ended" /\ worker'[m][k] = "ended"
        BY <3>2
      <4> QED
        BY <4>1
    <3> QED
      BY <3>1, <3>2
  <2> QED
    BY <2>1, <2>2
<1>7. ASSUME NEW n \in Newsletters, CopyFails(n) PROVE Rest'
  <2> USE <1>7 DEF CopyFails
  <2>1. (OneRefresh /\ TempIsFresh /\ WorkersOfWorking /\ OneRun /\ StoreIsOwn)'
    OBVIOUS
  <2>2. CopiesAreOwn'
    <3> SUFFICES ASSUME ~RunsOverlap, NEW m \in Newsletters, NEW k \in WorkerSlots
                 PROVE  worker[m][k] = "ended"
      OBVIOUS
    <3>1. CASE m = n
      BY <3>1
    <3>2. CASE m # n
      BY <3>2
    <3> QED
      BY <3>1, <3>2
  <2> QED
    BY <2>1, <2>2
<1>8. ASSUME NEW n \in Newsletters, NEW i \in WorkerSlots, Open(n, i)
      PROVE  Rest'
  BY <1>8 DEF Open
<1>9. ASSUME NEW n \in Newsletters, NEW i \in WorkerSlots, Close(n, i)
      PROVE  Rest'
  BY <1>9 DEF Close
<1>10. ASSUME ProcessDies PROVE Rest'
  BY <1>10 DEF ProcessDies
<1>11. ASSUME UNCHANGED sessionVars PROVE Rest'
  BY <1>11 DEF sessionVars
<1> QED
  BY <1>1, <1>2, <1>3, <1>4, <1>5, <1>6, <1>7, <1>8, <1>9, <1>10, <1>11 DEF SessionNext

LEMMA SessionInvariance == SessionSpec => []SessionInv
<1> QED
  BY Initially, InvKept, PTL DEF SessionSpec

(***************************************************************************)
(* Whatever fails and wherever the process dies, the workers of a run that *)
(* is alone open the session that the run logged in (dispatch_chats).      *)
(***************************************************************************)
THEOREM OwnSessions == SessionSpec => []WorkersOpenTheirSession
<1>1. SessionInv => WorkersOpenTheirSession
  BY DEF SessionInv, CopiesAreOwn, WorkersOpenTheirSession
<1> QED
  BY <1>1, SessionInvariance, PTL

(***************************************************************************)
(* Overlapping runs or not, no step leaves neither store nor backup once   *)
(* there was one (_refresh_session_impl under its lock).                   *)
(***************************************************************************)
THEOREM SessionSurvives == SessionSpec => InstalledSessionSurvives
<1> DEFINE Survives == store # Missing \/ backup # Missing =>
                     store' # Missing \/ backup' # Missing
<1>1. ASSUME SessionInv, [SessionNext]_sessionVars PROVE [Survives]_sessionVars
  <2> USE <1>1 DEF SessionInv
  <2>1. ASSUME NEW n \in Newsletters, BackUp(n) PROVE Survives
    BY <2>1 DEF BackUp
  <2>2. ASSUME NEW n \in Newsletters, Install(n) PROVE Survives
    BY <2>2, SessionAssumption DEF Install, TempIsFresh, Refreshing, Sessions
  <2>3. ASSUME NEW n \in Newsletters,
               \/ BeginRun(n) \/ LogInToBeeper(n) \/ RefreshFails(n)
               \/ CopyStores(n) \/ CopyFails(n)
               \/ \E i \in WorkerSlots : Open(n, i) \/ Close(n, i)
        PROVE  Survives
    BY <2>3 DEF BeginRun, LogInToBeeper, RefreshFails, CopyStores, CopyFails, Open, Close
  <2>4. ASSUME ProcessDies PROVE Survives
    BY <2>4 DEF ProcessDies
  <2> QED
    BY <2>1, <2>2, <2>3, <2>4 DEF SessionNext
<1> QED
  BY <1>1, SessionInvariance, PTL DEF SessionSpec, InstalledSessionSurvives

--------------------------------------------------------------------------------
-----------------------------------------------------------------------------
(* Sets of numbers. *)

LEMMA LeastOf ==
  ASSUME NEW T \in SUBSET Nat, T # {}
  PROVE  \E x \in T : \A y \in T : x <= y
<1> DEFINE R == OpToRel(<, Nat)
<1>1. IsWellFoundedOn(R, Nat)
  BY NatLessThanWellFounded
<1> HIDE DEF R
<1>2. PICK x \in T : \A y \in T : <<y, x>> \notin R
  BY <1>1, WFMin, Zenon
<1>3. ASSUME NEW y \in T PROVE x <= y
  <2>1. ~(y < x)
    BY <1>2 DEF R, OpToRel
  <2> QED
    BY <2>1
<1> QED
  BY <1>3

LEMMA GreatestOf ==
  ASSUME NEW T \in SUBSET Nat, T # {}, IsFiniteSet(T)
  PROVE  \E x \in T : \A y \in T : y <= x
<1> DEFINE Above(x) == {z \in T : z > x}
           ranks == {Cardinality(Above(x)) : x \in T}
<1>1. ASSUME NEW x \in T
      PROVE  IsFiniteSet(Above(x)) /\ Cardinality(Above(x)) \in Nat
  BY FS_Subset, FS_CardinalityType
<1>2. ranks \in SUBSET Nat /\ ranks # {}
  BY <1>1
<1>3. PICK n \in ranks : \A m \in ranks : n <= m
  <2> HIDE DEF ranks
  <2> QED
    BY <1>2, LeastOf
<1>4. PICK x \in T : n = Cardinality(Above(x))
  OBVIOUS
<1>5. ASSUME NEW y \in T, ~(y <= x) PROVE FALSE
  <2>1. Above(y) \subseteq Above(x) /\ y \in Above(x) /\ y \notin Above(y)
    <3>1. x \in Nat /\ y \in Nat /\ y > x
      BY <1>5
    <3>2. ASSUME NEW z \in T, z > y PROVE z > x
      <4>1. z \in Nat
        OBVIOUS
      <4> QED
        BY <3>1, <3>2, <4>1
    <3>3. Above(y) \subseteq Above(x)
      BY <3>2
    <3>4. y \in Above(x) /\ ~(y > y)
      BY <3>1
    <3> QED
      BY <3>3, <3>4
  <2>2. Cardinality(Above(y)) < Cardinality(Above(x))
    <3>1. Above(y) # Above(x)
      BY <2>1
    <3> HIDE DEF Above
    <3> QED
      BY <1>1, <2>1, <3>1, FS_Subset
  <2>3. n <= Cardinality(Above(y))
    BY <1>3
  <2> HIDE DEF Above
  <2> QED
    BY <1>1, <1>4, <2>2, <2>3
<1> QED
  BY <1>5

\* All but one of X are in S: X has one element more at most.
LEMMA OneMore ==
  ASSUME NEW S, IsFiniteSet(S), NEW X, NEW m, X \subseteq S \cup {m}
  PROVE  IsFiniteSet(X) /\ Cardinality(X) \in Nat /\ Cardinality(X) <= Cardinality(S) + 1
<1>1. /\ IsFiniteSet(S \cup {m}) /\ Cardinality(S) \in Nat
      /\ Cardinality(S \cup {m}) \in {Cardinality(S), Cardinality(S) + 1}
  BY FS_AddElement, FS_CardinalityType, Zenon
<1>2. /\ IsFiniteSet(X) /\ Cardinality(X) \in Nat
      /\ Cardinality(X) <= Cardinality(S \cup {m})
  BY <1>1, FS_Subset, FS_CardinalityType
<1> QED
  BY <1>1, <1>2

LEMMA LatestAreFew ==
  ASSUME NEW n \in Nat, n # 0, NEW S \in SUBSET Nat, IsFiniteSet(S)
  PROVE  IsFiniteSet(Latest(n, S)) /\ Cardinality(Latest(n, S)) <= n
<1> DEFINE X == Latest(n, S)
<1>1. X \subseteq S /\ X \in SUBSET Nat
  BY DEF Latest
<1>2. CASE X = {}
  BY <1>2, FS_EmptySet
<1>3. CASE X # {}
  <2>1. PICK m \in X : \A y \in X : m <= y
    <3> HIDE DEF X
    <3> QED
      BY <1>1, <1>3, LeastOf
  <2> DEFINE after == {q \in S : q > m}
  <2>2. IsFiniteSet(after) /\ Cardinality(after) \in Nat /\ Cardinality(after) < n
    <3>1. IsFiniteSet(after)
      BY FS_Subset
    <3> QED
      BY <2>1, <3>1, FS_CardinalityType DEF Latest
  <2>3. X \subseteq after \cup {m}
    BY <1>1, <2>1
  <2> HIDE DEF X, after
  <2> QED
    <3>1. /\ IsFiniteSet(X) /\ Cardinality(X) \in Nat
          /\ Cardinality(X) <= Cardinality(after) + 1
      BY <2>2, <2>3, OneMore
    <3> QED
      BY <2>2, <3>1 DEF X
<1> QED
  BY <1>2, <1>3

-----------------------------------------------------------------------------
(* Pictures. *)

ImagesSpec == ImagesInit /\ [][ImagesNext]_imageVars

ImageRun ==
  [at : {"idle", "skip", "download", "describe", "copy", "record", "manifest",
         "associate", "update", "done"},
   todo : SUBSET Pictures, got : SUBSET Pictures, told : SUBSET Pictures,
   manifest : SUBSET Pictures, shown : SUBSET Pictures]

Record == [id : PictureRuns \cup {NoPicture},
           discussion : {DiscussionOf[p] : p \in Pictures} \cup {NoDiscussion}]

FewShown(t) ==
  \A p \in t.shown :
    /\ Cardinality(t.shown) <= AllDiscussions
    /\ Cardinality(InDiscussion(t.shown, p)) <= PerDiscussion

(***************************************************************************)
(* What a run has copied: before it records anything, all that it got; and *)
(* a picture has a discussion only by a run that is done.                  *)
(***************************************************************************)
Copied(r, t, files) ==
  /\ t.at = "copy" => t.todo \subseteq t.got /\ {r} \X (t.got \ t.todo) \subseteq files
  /\ t.at = "record" => {r} \X t.todo \subseteq files

ImagesInv ==
  /\ picture \in [Pictures -> Record]
  /\ imageRun \in [PictureRuns -> ImageRun]
  /\ \A r \in PictureRuns : Copied(r, imageRun[r], media) /\ FewShown(imageRun[r])
  /\ \A p \in Pictures : picture[p].id # NoPicture =>
       /\ <<picture[p].id, p>> \in media
       /\ picture[p].discussion # NoDiscussion =>
            imageRun[picture[p].id].at = "done" /\ p \in imageRun[picture[p].id].shown

LEMMA FewInDiscussion ==
  ASSUME ImagesInv, NEW r \in PictureRuns, NEW p \in Capped(r)
  PROVE  /\ IsFiniteSet(InDiscussion(Capped(r), p))
         /\ Cardinality(InDiscussion(Capped(r), p)) <= PerDiscussion
<1> DEFINE S == InDiscussion(Matching(r), p)
<1>1. Matching(r) \subseteq Pictures /\ p \in Pictures
  BY DEF Matching, Capped, ImagesInv, ImageRun
<1>2. S \in SUBSET Nat /\ IsFiniteSet(S) /\ PerDiscussion \in Nat \ {0}
  BY <1>1, ImagesAssumption, FS_Subset DEF InDiscussion
<1>3. InDiscussion(Capped(r), p) \subseteq Latest(PerDiscussion, S)
  <2>1. ASSUME NEW q \in Matching(r), DiscussionOf[q] = DiscussionOf[p]
        PROVE  InDiscussion(Matching(r), q) = S
    BY <2>1 DEF InDiscussion
  <2> QED
    BY <2>1 DEF InDiscussion, Capped
<1>4. /\ IsFiniteSet(Latest(PerDiscussion, S))
      /\ Cardinality(Latest(PerDiscussion, S)) <= PerDiscussion
  <2> HIDE DEF S
  <2> QED
    BY <1>2, LatestAreFew
<1>5. /\ IsFiniteSet(InDiscussion(Capped(r), p))
      /\ Cardinality(InDiscussion(Capped(r), p)) <= Cardinality(Latest(PerDiscussion, S))
  BY <1>3, <1>4, FS_Subset
<1> QED
  BY <1>2, <1>4, <1>5, FS_CardinalityType

Leader(r, x) ==
  CHOOSE y \in InDiscussion(Capped(r), x) : \A z \in InDiscussion(Capped(r), x) : z <= y

LEMMA LeaderIs ==
  ASSUME ImagesInv, NEW r \in PictureRuns, NEW x \in Capped(r)
  PROVE  Leader(r, x) \in Nat
<1> DEFINE T == InDiscussion(Capped(r), x)
<1>1. T \in SUBSET Nat /\ T # {} /\ IsFiniteSet(T)
  <2>1. Capped(r) \subseteq Pictures
    BY DEF Matching, Capped, ImagesInv, ImageRun
  <2> QED
    BY <2>1, ImagesAssumption, FewInDiscussion DEF InDiscussion
<1> HIDE DEF T
<1>2. \E y \in T : \A z \in T : z <= y
  BY <1>1, GreatestOf
<1>3. (CHOOSE y \in T : \A z \in T : z <= y) \in T
  BY <1>2
<1> QED
  BY <1>1, <1>3 DEF Leader, T

\* Of the pictures that come early enough there are few.
LEMMA FewEarly ==
  ASSUME ImagesInv, NEW r \in PictureRuns, NEW X,
         X = {p \in Capped(r) :
                Cardinality({q \in Capped(r) : Earlier(r, q, p)}) < AllDiscussions}
  PROVE  Cardinality(X) <= AllDiscussions
<1> USE ImagesAssumption
<1>1. Capped(r) \in SUBSET Nat /\ IsFiniteSet(Capped(r))
  <2>1. Capped(r) \subseteq Pictures
    BY DEF Matching, Capped, ImagesInv, ImageRun
  <2> QED
    BY <2>1, FS_Subset
<1>2. CASE X = {}
  <2>1. Cardinality(X) = 0 /\ AllDiscussions \in Nat
    BY <1>2, FS_EmptySet
  <2> QED
    BY <2>1
<1>3. CASE X # {}
  <2> DEFINE heads == {Leader(r, x) : x \in X}
  <2>1. heads \in SUBSET Nat /\ heads # {}
    BY <1>3, LeaderIs
  <2>2. PICK n \in heads : \A k \in heads : n <= k
    <3> HIDE DEF heads
    <3> QED
      BY <2>1, LeastOf
  <2> DEFINE last == {x \in X : Leader(r, x) = n}
  <2>3. last \in SUBSET Nat /\ last # {}
    BY <1>1, <2>2
  <2>4. PICK m \in last : \A x \in last : m <= x
    <3> HIDE DEF last
    <3> QED
      BY <2>3, LeastOf
  <2> DEFINE earlier == {q \in Capped(r) : Earlier(r, q, m)}
  <2>5. IsFiniteSet(earlier) /\ Cardinality(earlier) \in Nat
        /\ Cardinality(earlier) < AllDiscussions
    <3>1. IsFiniteSet(earlier)
      BY <1>1, FS_Subset
    <3>2. m \in X
      BY <2>4
    <3> QED
      BY <3>1, <3>2, FS_CardinalityType
  <2>6. ASSUME NEW q \in X, q # m PROVE q \in earlier
    <3>1. /\ Leader(r, q) \in Nat /\ Leader(r, m) = n /\ n <= Leader(r, q) /\ n \in Nat
          /\ q \in Nat /\ m \in Nat /\ q \in Capped(r)
      <4>1. q \in Capped(r) /\ m \in X /\ Leader(r, m) = n
        BY <2>4
      <4>2. q \in Nat /\ m \in Nat
        BY <1>1, <4>1
      <4>3. Leader(r, q) \in Nat /\ n \in Nat /\ n <= Leader(r, q)
        BY <2>1, <2>2, <4>1, LeaderIs
      <4> QED
        BY <4>1, <4>2, <4>3
    <3>2. Leader(r, q) > n \/ (Leader(r, q) = n /\ q > m)
      <4>1. CASE Leader(r, q) = n
        BY <2>4, <2>6, <3>1, <4>1
      <4>2. CASE Leader(r, q) # n
        BY <3>1, <4>2
      <4> QED
        BY <4>1, <4>2
    <3> QED
      BY <3>1, <3>2 DEF Earlier, Leader
  <2>7. X \subseteq earlier \cup {m}
    BY <2>6
  <2> HIDE DEF earlier
  <2>8. Cardinality(X) \in Nat /\ Cardinality(X) <= Cardinality(earlier) + 1
    BY <2>5, <2>7, OneMore
  <2> QED
    BY <2>5, <2>8
<1> QED
  BY <1>2, <1>3

LEMMA FewAssociated ==
  ASSUME ImagesInv, NEW r \in PictureRuns, NEW t,
         t.shown = {p \in Capped(r) :
           Cardinality({q \in Capped(r) : Earlier(r, q, p)}) < AllDiscussions}
  PROVE  FewShown(t)
<1>1. Cardinality(t.shown) <= AllDiscussions
  BY FewEarly
<1>2. ASSUME NEW p \in t.shown PROVE Cardinality(InDiscussion(t.shown, p)) <= PerDiscussion
  <2>1. p \in Capped(r) /\ t.shown \subseteq Capped(r)
    OBVIOUS
  <2>2. /\ IsFiniteSet(InDiscussion(Capped(r), p))
        /\ Cardinality(InDiscussion(Capped(r), p)) <= PerDiscussion
    BY <2>1, FewInDiscussion
  <2>3. InDiscussion(t.shown, p) \subseteq InDiscussion(Capped(r), p)
    BY <2>1 DEF InDiscussion
  <2>4. /\ IsFiniteSet(InDiscussion(t.shown, p))
        /\ Cardinality(InDiscussion(t.shown, p)) <= Cardinality(InDiscussion(Capped(r), p))
    BY <2>2, <2>3, FS_Subset
  <2> QED
    BY <2>2, <2>4, FS_CardinalityType, ImagesAssumption
<1> QED
  BY <1>1, <1>2 DEF FewShown

\* A run of which only the step it is at changes, or what it has found.
LEMMA ImageRunAt ==
  ASSUME NEW t \in ImageRun, NEW p \in {"idle", "skip", "download", "describe", "copy",
           "record", "manifest", "associate", "update", "done"}, NEW S \in SUBSET Pictures
  PROVE  /\ [t EXCEPT !.at = p] \in ImageRun
         /\ [t EXCEPT !.todo = S] \in ImageRun
         /\ [t EXCEPT !.at = p, !.todo = S] \in ImageRun
         /\ [t EXCEPT !.at = p, !.got = S] \in ImageRun
         /\ [t EXCEPT !.at = p, !.manifest = S] \in ImageRun
         /\ [t EXCEPT !.at = p, !.shown = S] \in ImageRun
BY DEF ImageRun

LEMMA RunReplaced ==
  ASSUME ImagesInv, NEW r \in PictureRuns, NEW t \in ImageRun,
         imageRun' = [imageRun EXCEPT ![r] = t], picture' = picture,
         media \subseteq media', Copied(r, t, media'), FewShown(t),
         imageRun[r].at # "done" \/ t = imageRun[r]
  PROVE  ImagesInv'
<1>1. imageRun' \in [PictureRuns -> ImageRun]
  BY DEF ImagesInv
<1>2. ASSUME NEW q \in PictureRuns
      PROVE  Copied(q, imageRun'[q], media') /\ FewShown(imageRun'[q])
  <2>1. CASE q = r
    BY <2>1 DEF ImagesInv
  <2>2. CASE q # r
    BY <2>2 DEF ImagesInv, Copied
  <2> QED
    BY <2>1, <2>2
<1>3. ASSUME NEW p \in Pictures, picture[p].id # NoPicture
      PROVE  /\ <<picture[p].id, p>> \in media'
             /\ picture[p].discussion # NoDiscussion =>
                  /\ imageRun'[picture[p].id].at = "done"
                  /\ p \in imageRun'[picture[p].id].shown
  <2>1. picture[p].id \in PictureRuns
    BY <1>3 DEF ImagesInv, Record
  <2> QED
    BY <1>3, <2>1 DEF ImagesInv
<1> QED
  BY <1>1, <1>2, <1>3 DEF ImagesInv

LEMMA Searching ==
  ASSUME ImagesInv, NEW r \in PictureRuns,
         ScanMessages(r) \/ SkipRecorded(r) \/ DownloadPictures(r) \/ Describe(r)
           \/ EndRecording(r) \/ WriteManifest(r) \/ FailCopy(r)
  PROVE  ImagesInv'
<1>1. /\ imageRun[r] \in ImageRun /\ FewShown(imageRun[r])
      /\ picture' = picture /\ media' = media
  BY DEF ImagesInv, ScanMessages, SkipRecorded, DownloadPictures, Describe, EndRecording,
         WriteManifest, FailCopy
<1>2. ASSUME NEW t \in ImageRun, imageRun' = [imageRun EXCEPT ![r] = t],
             t.at \notin {"copy", "record"}, t.shown = imageRun[r].shown,
             imageRun[r].at # "done"
      PROVE  ImagesInv'
  BY <1>1, <1>2, RunReplaced DEF Copied, FewShown
<1>3. CASE ScanMessages(r)
  <2>1. PICK window \in SUBSET Pictures :
          imageRun' = [imageRun EXCEPT ![r].at = IF window = {} THEN "done" ELSE "skip",
                                       ![r].todo = Latest(MaxPictures, window)]
    BY <1>3 DEF ScanMessages
  <2> DEFINE p == IF window = {} THEN "done" ELSE "skip"
             S == Latest(MaxPictures, window)
  <2>2. p \in {"done", "skip"} /\ S \subseteq Pictures
    BY DEF Latest
  <2>3. PICK t : t = [imageRun[r] EXCEPT !.at = p, !.todo = S]
    OBVIOUS
  <2>4. imageRun' = [imageRun EXCEPT ![r] = t]
    BY <2>1, <2>3 DEF ImagesInv
  <2> HIDE DEF p, S
  <2>5. t \in ImageRun /\ t.at = p /\ t.shown = imageRun[r].shown
    BY <1>1, <2>2, <2>3 DEF ImageRun
  <2> QED
    BY <1>2, <1>3, <2>2, <2>4, <2>5 DEF ScanMessages
<1>4. CASE SkipRecorded(r)
  <2>1. PICK todo \in SUBSET imageRun[r].todo :
          imageRun' = [imageRun EXCEPT ![r].at = IF todo = {} THEN "done" ELSE "download",
                                       ![r].todo = todo]
    BY <1>4 DEF SkipRecorded
  <2> DEFINE p == IF todo = {} THEN "done" ELSE "download"
  <2>2. p \in {"done", "download"} /\ todo \subseteq Pictures
    BY <1>1 DEF ImageRun
  <2>3. PICK t : t = [imageRun[r] EXCEPT !.at = p, !.todo = todo]
    OBVIOUS
  <2>4. imageRun' = [imageRun EXCEPT ![r] = t]
    BY <2>1, <2>3 DEF ImagesInv
  <2> HIDE DEF p
  <2>5. t \in ImageRun /\ t.at = p /\ t.shown = imageRun[r].shown
    BY <1>1, <2>2, <2>3 DEF ImageRun
  <2> QED
    BY <1>2, <1>4, <2>2, <2>4, <2>5 DEF SkipRecorded
<1>5. CASE DownloadPictures(r)
  <2>1. PICK got \in SUBSET imageRun[r].todo :
          imageRun' = [imageRun EXCEPT ![r].at = "describe", ![r].got = got]
    BY <1>5 DEF DownloadPictures
  <2>2. PICK t : t = [imageRun[r] EXCEPT !.at = "describe", !.got = got]
    OBVIOUS
  <2>3. imageRun' = [imageRun EXCEPT ![r] = t]
    BY <2>1, <2>2 DEF ImagesInv
  <2>4. t \in ImageRun /\ t.at = "describe" /\ t.shown = imageRun[r].shown
    BY <1>1, <2>2 DEF ImageRun
  <2> QED
    BY <1>2, <1>5, <2>3, <2>4 DEF DownloadPictures
<1>6. CASE Describe(r)
  <2>1. PICK told \in SUBSET imageRun[r].got :
          imageRun' = [imageRun EXCEPT ![r].at = "copy", ![r].told = told,
                                       ![r].todo = imageRun[r].got]
    BY <1>6 DEF Describe
  <2>2. PICK t : t = [imageRun[r] EXCEPT !.at = "copy", !.told = told,
                                         !.todo = imageRun[r].got]
    OBVIOUS
  <2>3. imageRun' = [imageRun EXCEPT ![r] = t]
    BY <2>1, <2>2 DEF ImagesInv
  <2>4. /\ t \in ImageRun /\ t.at = "copy" /\ t.shown = imageRun[r].shown
        /\ t.todo = t.got
    BY <1>1, <2>2 DEF ImageRun
  <2>5. Copied(r, t, media') /\ FewShown(t)
    BY <1>1, <2>4 DEF Copied, FewShown
  <2> QED
    BY <1>1, <1>6, <2>3, <2>4, <2>5, RunReplaced DEF Describe
<1>7. CASE EndRecording(r) \/ FailCopy(r)
  <2>1. PICK t : t = [imageRun[r] EXCEPT !.at = "manifest"]
    OBVIOUS
  <2>2. imageRun' = [imageRun EXCEPT ![r] = t]
    BY <1>7, <2>1 DEF EndRecording, FailCopy, ImagesInv
  <2>3. t \in ImageRun /\ t.at = "manifest" /\ t.shown = imageRun[r].shown
    BY <1>1, <2>1 DEF ImageRun
  <2> QED
    BY <1>2, <1>7, <2>2, <2>3 DEF EndRecording, FailCopy
<1>8. CASE WriteManifest(r)
  <2>1. PICK t : t = [imageRun[r] EXCEPT !.at = "associate", !.manifest = imageRun[r].got]
    OBVIOUS
  <2>2. imageRun' = [imageRun EXCEPT ![r] = t]
    BY <1>8, <2>1 DEF WriteManifest, ImagesInv
  <2>3. t \in ImageRun /\ t.at = "associate" /\ t.shown = imageRun[r].shown
    BY <1>1, <2>1 DEF ImageRun
  <2> QED
    BY <1>2, <1>8, <2>2, <2>3 DEF WriteManifest
<1> QED
  BY <1>3, <1>4, <1>5, <1>6, <1>7, <1>8

LEMMA Copying ==
  ASSUME ImagesInv, NEW r \in PictureRuns,
         CopyPicture(r) \/ EndCopying(r) \/ FailImages(r) \/ Associate(r)
  PROVE  ImagesInv'
<1>1. /\ imageRun[r] \in ImageRun /\ FewShown(imageRun[r]) /\ picture' = picture
      /\ Copied(r, imageRun[r], media)
  BY DEF ImagesInv, CopyPicture, EndCopying, FailImages, Associate
<1>2. CASE CopyPicture(r)
  <2> DEFINE S == Latest(1, imageRun[r].todo)
  <2>1. PICK t : t = [imageRun[r] EXCEPT !.todo = @ \ S]
    OBVIOUS
  <2>2. imageRun' = [imageRun EXCEPT ![r] = t] /\ media' = media \cup ({r} \X S)
    BY <1>2, <2>1 DEF CopyPicture, ImagesInv
  <2> HIDE DEF S
  <2>3. /\ t \in ImageRun /\ t.at = imageRun[r].at /\ t.shown = imageRun[r].shown
        /\ t.todo = imageRun[r].todo \ S /\ t.got = imageRun[r].got
    BY <1>1, <2>1 DEF ImageRun
  <2>4. imageRun[r].at = "copy"
    BY <1>2 DEF CopyPicture
  <2>5. Copied(r, t, media')
    <3>1. t.todo \subseteq t.got
      BY <1>1, <2>3, <2>4 DEF Copied
    <3>2. ASSUME NEW p \in t.got \ t.todo PROVE <<r, p>> \in media'
      <4>1. p \in S \/ p \in imageRun[r].got \ imageRun[r].todo
        BY <2>3, <3>2
      <4> QED
        BY <1>1, <2>2, <2>4, <4>1 DEF Copied
    <3> QED
      BY <2>3, <2>4, <3>1, <3>2 DEF Copied
  <2> QED
    BY <1>1, <2>2, <2>3, <2>4, <2>5, RunReplaced DEF FewShown
<1>3. CASE EndCopying(r)
  <2>1. PICK p \in {"record", "manifest"} :
          imageRun' = [imageRun EXCEPT ![r].at = p, ![r].todo = imageRun[r].got]
    BY <1>3 DEF EndCopying
  <2>2. PICK t : t = [imageRun[r] EXCEPT !.at = p, !.todo = imageRun[r].got]
    OBVIOUS
  <2>3. imageRun' = [imageRun EXCEPT ![r] = t] /\ media' = media
    BY <1>3, <2>1, <2>2 DEF EndCopying, ImagesInv
  <2>4. /\ t \in ImageRun /\ t.at = p /\ t.shown = imageRun[r].shown
        /\ t.todo = imageRun[r].got
    BY <1>1, <2>2 DEF ImageRun
  <2>5. Copied(r, t, media')
    BY <1>1, <1>3, <2>3, <2>4 DEF Copied, EndCopying
  <2> QED
    BY <1>1, <1>3, <2>3, <2>4, <2>5, RunReplaced DEF EndCopying, FewShown
<1>4. CASE FailImages(r)
  <2>1. PICK t : t = [NoImageRun EXCEPT !.at = "done", !.shown = imageRun[r].shown]
    OBVIOUS
  <2>2. imageRun' = [imageRun EXCEPT ![r] = t] /\ media' = media /\ imageRun[r].at # "done"
    BY <1>4, <2>1 DEF FailImages
  <2>3. t \in ImageRun /\ t.at = "done" /\ t.shown = imageRun[r].shown
    BY <1>1, <2>1 DEF ImageRun, NoImageRun
  <2> QED
    BY <1>1, <2>2, <2>3, RunReplaced DEF Copied, FewShown
<1>5. CASE Associate(r)
  <2> DEFINE S == {p \in Capped(r) :
                     Cardinality({q \in Capped(r) : Earlier(r, q, p)}) < AllDiscussions}
  <2>1. PICK t : t = [imageRun[r] EXCEPT !.at = "update", !.shown = S]
    OBVIOUS
  <2>2. imageRun' = [imageRun EXCEPT ![r] = t] /\ media' = media
        /\ imageRun[r].at = "associate"
    BY <1>5, <2>1 DEF Associate, ImagesInv
  <2>3. S \subseteq Pictures
    BY <1>1 DEF Capped, Matching, ImageRun
  <2>4. t.shown = S /\ t \in ImageRun /\ t.at = "update"
    <3> HIDE DEF S
    <3> QED
      BY <1>1, <2>1, <2>3 DEF ImageRun
  <2>5. FewShown(t)
    BY <2>4, FewAssociated
  <2> HIDE DEF S
  <2> QED
    BY <1>1, <2>2, <2>4, <2>5, RunReplaced DEF Copied
<1> QED
  BY <1>2, <1>3, <1>4, <1>5

LEMMA Recording ==
  ASSUME ImagesInv, NEW r \in PictureRuns, StoreImage(r) \/ UpdateDiscussions(r)
  PROVE  ImagesInv'
<1>1. /\ imageRun[r] \in ImageRun /\ FewShown(imageRun[r]) /\ media' = media
      /\ Copied(r, imageRun[r], media) /\ r # NoPicture
  BY ImagesAssumption DEF ImagesInv, StoreImage, UpdateDiscussions
<1>2. CASE StoreImage(r)
  <2> DEFINE next == Latest(1, imageRun[r].todo)
             kept == [p \in Pictures |-> IF p \in next /\ picture[p] = NoRecord
                                         THEN [NoRecord EXCEPT !.id = r] ELSE picture[p]]
  <2>1. PICK t : t = [imageRun[r] EXCEPT !.todo = @ \ next]
    OBVIOUS
  <2>2. /\ imageRun' = [imageRun EXCEPT ![r] = t] /\ imageRun[r].at = "record"
        /\ picture' \in {kept, picture}
    BY <1>2, <2>1 DEF StoreImage, ImagesInv
  <2>3. next \subseteq imageRun[r].todo
    BY DEF Latest
  <2>4. /\ kept \in [Pictures -> Record]
        /\ \A p \in Pictures : kept[p] = picture[p] \/
             (p \in next /\ kept[p].id = r /\ kept[p].discussion = NoDiscussion)
    <3>1. /\ [NoRecord EXCEPT !.id = r] \in Record
          /\ [NoRecord EXCEPT !.id = r].id = r
          /\ [NoRecord EXCEPT !.id = r].discussion = NoDiscussion
      BY DEF NoRecord, Record
    <3> QED
      BY <3>1 DEF ImagesInv
  <2> HIDE DEF next
  <2>5. /\ t \in ImageRun /\ t.at = "record" /\ t.shown = imageRun[r].shown
        /\ t.todo \subseteq imageRun[r].todo
    BY <1>1, <2>1, <2>2 DEF ImageRun
  <2> HIDE DEF kept
  <2>6. /\ picture' \in [Pictures -> Record]
        /\ \A p \in Pictures : picture'[p] = picture[p] \/
             (/\ <<r, p>> \in media /\ picture'[p].id = r
              /\ picture'[p].discussion = NoDiscussion)
    BY <1>1, <2>2, <2>3, <2>4 DEF ImagesInv, Copied
  <2>7. imageRun' \in [PictureRuns -> ImageRun]
    BY <2>2, <2>5 DEF ImagesInv
  <2>8. ASSUME NEW q \in PictureRuns
        PROVE  /\ Copied(q, imageRun'[q], media) /\ FewShown(imageRun'[q])
               /\ imageRun'[q].at = imageRun[q].at /\ imageRun'[q].shown = imageRun[q].shown
    <3>1. CASE q = r
      BY <1>1, <2>2, <2>5, <3>1 DEF ImagesInv, Copied, FewShown
    <3>2. CASE q # r
      BY <2>2, <3>2 DEF ImagesInv
    <3> QED
      BY <3>1, <3>2
  <2>9. ASSUME NEW p \in Pictures, picture'[p].id # NoPicture
        PROVE  /\ <<picture'[p].id, p>> \in media
               /\ picture'[p].discussion # NoDiscussion =>
                    /\ imageRun'[picture'[p].id].at = "done"
                    /\ p \in imageRun'[picture'[p].id].shown
    <3>1. picture'[p].id \in PictureRuns
      BY <2>6, <2>9 DEF Record
    <3> QED
      BY <2>6, <2>8, <2>9, <3>1 DEF ImagesInv
  <2> QED
    BY <1>1, <2>6, <2>7, <2>8, <2>9 DEF ImagesInv
<1>3. CASE UpdateDiscussions(r)
  <2>1. PICK updated \in SUBSET imageRun[r].shown :
          picture' = [p \in Pictures |->
            IF p \in updated /\ picture[p].id = r
            THEN [picture[p] EXCEPT !.discussion = DiscussionOf[p]] ELSE picture[p]]
    BY <1>3 DEF UpdateDiscussions
  <2>2. PICK t : t = [imageRun[r] EXCEPT !.at = "done"]
    OBVIOUS
  <2>3. imageRun' = [imageRun EXCEPT ![r] = t] /\ imageRun[r].at = "update"
    BY <1>3, <2>2 DEF UpdateDiscussions, ImagesInv
  <2>4. t \in ImageRun /\ t.at = "done" /\ t.shown = imageRun[r].shown
    BY <1>1, <2>2 DEF ImageRun
  <2>5. ASSUME NEW p \in Pictures
        PROVE  /\ picture'[p] \in Record /\ picture'[p].id = picture[p].id
               /\ picture'[p] = picture[p] \/ (p \in imageRun[r].shown /\ picture[p].id = r)
    <3>1. picture[p] \in Record
      BY DEF ImagesInv
    <3> QED
      BY <2>1, <3>1 DEF Record
  <2>6. picture' \in [Pictures -> Record]
    BY <2>1, <2>5
  <2>7. imageRun' \in [PictureRuns -> ImageRun]
    BY <2>3, <2>4 DEF ImagesInv
  <2>8. ASSUME NEW q \in PictureRuns
        PROVE  /\ Copied(q, imageRun'[q], media) /\ FewShown(imageRun'[q])
               /\ imageRun'[q].shown = imageRun[q].shown
               /\ imageRun'[q].at = IF q = r THEN "done" ELSE imageRun[q].at
    <3>1. CASE q = r
      BY <1>1, <2>3, <2>4, <3>1 DEF ImagesInv, Copied, FewShown
    <3>2. CASE q # r
      BY <2>3, <3>2 DEF ImagesInv
    <3> QED
      BY <3>1, <3>2
  <2>9. ASSUME NEW p \in Pictures, picture'[p].id # NoPicture
        PROVE  /\ <<picture'[p].id, p>> \in media
               /\ picture'[p].discussion # NoDiscussion =>
                    /\ imageRun'[picture'[p].id].at = "done"
                    /\ p \in imageRun'[picture'[p].id].shown
    <3>1. picture[p].id \in PictureRuns /\ picture'[p].id = picture[p].id
      BY <2>5, <2>9 DEF Record
    <3> QED
      BY <2>5, <2>8, <2>9, <3>1 DEF ImagesInv
  <2> QED
    BY <1>1, <2>6, <2>7, <2>8, <2>9 DEF ImagesInv
<1> QED
  BY <1>2, <1>3

LEMMA ImagesInvariance == ImagesSpec => []ImagesInv
<1>1. ImagesInit => ImagesInv
  BY DEF ImagesInit, ImagesInv, NoRecord, Record, NoImageRun, ImageRun, Copied, FewShown
<1>2. ImagesInv /\ [ImagesNext]_imageVars => ImagesInv'
  <2>1. ImagesInv /\ UNCHANGED imageVars => ImagesInv'
    BY DEF ImagesInv, imageVars
  <2> QED
    BY <2>1, Searching, Copying, Recording DEF ImagesNext
<1> QED
  BY <1>1, <1>2, PTL DEF ImagesSpec

(***************************************************************************)
(* A picture on record has its file in the media directory, a discussion   *)
(* is recorded only for a picture that its run shows there, and no more    *)
(* are shown than the newsletter takes (extract_images_node,               *)
(* associate_images_node): for any finite set of pictures, any runs and    *)
(* any limits.                                                             *)
(***************************************************************************)
THEOREM PicturesStayServable == ImagesSpec => []PicturesAreServable
<1>1. ImagesInv => PicturesAreServable
  BY DEF ImagesInv, FewShown, PicturesAreServable
<1> QED
  BY <1>1, ImagesInvariance, PTL

--------------------------------------------------------------------------------
-----------------------------------------------------------------------------
(* The stream of progress events. *)

StreamSpec == StreamInit /\ [][StreamNext]_streamVars

Told == {"completed", "hitl_selection"}

Flow == [at : {"none", "take", "check", "drain", "ended", "gone"}, queue : Seq(Events),
         taken : Seq(Events), sent : Seq(Events), closed : BOOLEAN, full : BOOLEAN]

Connection == [at : {"unused", "delay", "posting", "reading", "closed"}, read : Nat,
               aborted : BOOLEAN]

Workflow == [task : {"none", "running"} \cup Outcomes, emitted : Nat,
             entry : {"none", "own", "other"}]

\* What the queue has accepted is what was sent and then what waits.
Splits(taken, sent, queue) ==
  /\ Len(taken) = Len(sent) + Len(queue)
  /\ \A i \in 1..Len(sent) : taken[i] = sent[i]
  /\ \A i \in 1..Len(queue) : taken[Len(sent) + i] = queue[i]

Flows(s) == Splits(s.taken, s.sent, s.queue)

EndsIn(events, task) ==
  \A i \in 1..Len(events) : events[i] \in Told => i = Len(events) /\ events[i] = task

Shown(s, task) ==
  \A i \in 1..Len(s.sent) : s.sent[i] \in Told =>
    s.sent = s.taken /\ i = Len(s.sent) /\ s.sent[i] = task

(***************************************************************************)
(* Connection c, the endpoint's s and the workflow w: nothing is in the    *)
(* queue of a running workflow that tells of its end; when the endpoint    *)
(* drains the queue the workflow has ended and puts nothing more into it.  *)
(***************************************************************************)
RunFits(s, w) ==
  /\ s.at = "none" <=> w.task = "none"
  /\ s.at = "none" => s = Over("none") /\ w.entry # "own"
  /\ w.task = "running" => s.at \in {"take", "check", "gone"}
  /\ s.at \in {"take", "check"} => Flows(s) /\ EndsIn(s.taken, "none")
  /\ s.at = "drain" => Flows(s) /\ w.task \in Told /\ EndsIn(s.taken, w.task)
  /\ Shown(s, w.task)

ReaderFits(c, s) ==
  /\ c.read <= Len(s.sent)
  /\ c.at # "reading" => c.read = 0
  /\ c.at \in {"unused", "delay", "posting"} => s.at = "none"

StreamInv ==
  /\ conn \in [StreamRuns -> Connection]
  /\ stream \in [StreamRuns -> Flow]
  /\ run \in [StreamRuns -> Workflow]
  /\ \A r \in StreamRuns : RunFits(stream[r], run[r]) /\ ReaderFits(conn[r], stream[r])

-----------------------------------------------------------------------------
(* The endpoint's side of one connection. *)

LEMMA FlowTyped ==
  ASSUME NEW s \in Flow
  PROVE  /\ s.queue \in Seq(Events) /\ s.taken \in Seq(Events) /\ s.sent \in Seq(Events)
         /\ Len(s.queue) \in Nat /\ Len(s.taken) \in Nat /\ Len(s.sent) \in Nat
BY LenProperties DEF Flow

\* A running workflow tells of no end.
LEMMA NothingTold ==
  ASSUME NEW events \in Seq(Events), EndsIn(events, "none")
  PROVE  \A i \in 1..Len(events) : events[i] \notin Told
BY DEF EndsIn, Told

LEMMA SplitsShow ==
  ASSUME NEW taken \in Seq(Events), NEW sent \in Seq(Events), NEW queue \in Seq(Events),
         Splits(taken, sent, queue), NEW task, EndsIn(taken, task),
         NEW i \in 1..Len(sent), sent[i] \in Told
  PROVE  sent = taken /\ i = Len(sent) /\ sent[i] = task
<1>1. Len(taken) \in Nat /\ Len(sent) \in Nat /\ Len(queue) \in Nat
  BY LenProperties
<1>2. taken[i] = sent[i] /\ i \in 1..Len(taken)
  BY <1>1 DEF Splits
<1>3. i = Len(taken) /\ sent[i] = task
  BY <1>2 DEF EndsIn
<1>4. Len(sent) = Len(taken)
  BY <1>1, <1>3 DEF Splits
<1>5. sent = taken
  BY <1>4, SeqEqual DEF Splits
<1> QED
  BY <1>3, <1>4, <1>5

LEMMA FlowsShow ==
  ASSUME NEW s \in Flow, Flows(s), NEW task, EndsIn(s.taken, task)
  PROVE  Shown(s, task)
BY FlowTyped, SplitsShow DEF Shown, Flows

LEMMA SplitsAppend ==
  ASSUME NEW taken \in Seq(Events), NEW sent \in Seq(Events), NEW queue \in Seq(Events),
         Splits(taken, sent, queue), NEW event \in Events
  PROVE  Splits(Append(taken, event), sent, Append(queue, event))
<1> DEFINE q == Append(queue, event)
           t == Append(taken, event)
<1>1. Len(taken) \in Nat /\ Len(sent) \in Nat /\ Len(queue) \in Nat
  BY LenProperties
<1>2. /\ q \in Seq(Events) /\ Len(q) = Len(queue) + 1 /\ q[Len(queue) + 1] = event
      /\ \A i \in 1..Len(queue) : q[i] = queue[i]
  BY AppendProperties
<1>3. /\ t \in Seq(Events) /\ Len(t) = Len(taken) + 1 /\ t[Len(taken) + 1] = event
      /\ \A i \in 1..Len(taken) : t[i] = taken[i]
  BY AppendProperties
<1> HIDE DEF q, t
<1>4. Len(t) = Len(sent) + Len(q)
  BY <1>1, <1>2, <1>3 DEF Splits
<1>5. ASSUME NEW i \in 1..Len(sent) PROVE t[i] = sent[i]
  BY <1>1, <1>3 DEF Splits
<1>6. ASSUME NEW i \in 1..Len(q) PROVE t[Len(sent) + i] = q[i]
  <2>1. CASE i \in 1..Len(queue)
    <3>1. taken[Len(sent) + i] = queue[i] /\ Len(sent) + i \in 1..Len(taken)
      BY <1>1, <2>1 DEF Splits
    <3> QED
      BY <1>2, <1>3, <2>1, <3>1
  <2>2. CASE i = Len(queue) + 1
    <3>1. Len(sent) + i = Len(taken) + 1
      BY <1>1, <2>2 DEF Splits
    <3> QED
      BY <1>2, <1>3, <2>2, <3>1
  <2> QED
    BY <1>1, <1>2, <2>1, <2>2
<1>7. Splits(t, sent, q)
  BY <1>4, <1>5, <1>6 DEF Splits
<1> QED
  BY <1>7 DEF q, t

LEMMA SplitsSend ==
  ASSUME NEW taken \in Seq(Events), NEW sent \in Seq(Events), NEW queue \in Seq(Events),
         Splits(taken, sent, queue), queue # << >>
  PROVE  /\ Append(sent, Head(queue)) \in Seq(Events) /\ Tail(queue) \in Seq(Events)
         /\ Splits(taken, Append(sent, Head(queue)), Tail(queue))
         /\ Len(sent) <= Len(Append(sent, Head(queue)))
<1> DEFINE q == Tail(queue)
           t == Append(sent, Head(queue))
<1>1. Len(taken) \in Nat /\ Len(sent) \in Nat /\ Len(queue) \in Nat /\ Len(queue) # 0
  BY LenProperties, EmptySeq
<1>2. /\ q \in Seq(Events) /\ Len(q) = Len(queue) - 1 /\ Head(queue) \in Events
      /\ \A i \in 1..Len(q) : q[i] = queue[i + 1]
  BY HeadTailProperties
<1>3. /\ t \in Seq(Events) /\ Len(t) = Len(sent) + 1 /\ t[Len(sent) + 1] = queue[1]
      /\ \A i \in 1..Len(sent) : t[i] = sent[i]
  <2>1. Head(queue) = queue[1]
    BY <1>1
  <2> QED
    BY <1>2, <2>1, AppendProperties
<1> HIDE DEF q, t
<1>4. Len(taken) = Len(t) + Len(q)
  BY <1>1, <1>2, <1>3 DEF Splits
<1>5. ASSUME NEW i \in 1..Len(t) PROVE taken[i] = t[i]
  <2>1. CASE i \in 1..Len(sent)
    BY <1>3, <2>1 DEF Splits
  <2>2. CASE i = Len(sent) + 1
    <3>1. taken[Len(sent) + 1] = queue[1]
      BY <1>1 DEF Splits
    <3> QED
      BY <1>3, <2>2, <3>1
  <2> QED
    BY <1>1, <1>3, <2>1, <2>2
<1>6. ASSUME NEW i \in 1..Len(q) PROVE taken[Len(t) + i] = q[i]
  <2>1. i + 1 \in 1..Len(queue) /\ Len(t) + i = Len(sent) + (i + 1)
    BY <1>1, <1>2, <1>3
  <2>2. taken[Len(sent) + (i + 1)] = queue[i + 1]
    BY <2>1 DEF Splits
  <2> QED
    BY <1>2, <2>1, <2>2
<1>7. Splits(taken, t, q)
  BY <1>4, <1>5, <1>6 DEF Splits
<1>8. Len(sent) <= Len(t)
  BY <1>1, <1>3
<1> QED
  BY <1>2, <1>3, <1>7, <1>8 DEF q, t

LEMMA EmitFlows ==
  ASSUME NEW s \in Flow, Flows(s), NEW event \in Events
  PROVE  /\ Emit(s, event) \in Flow /\ Flows(Emit(s, event))
         /\ Emit(s, event).at = s.at /\ Emit(s, event).sent = s.sent
         /\ Emit(s, event).taken \in {s.taken, Append(s.taken, event)}
<1> DEFINE q == Append(s.queue, event)
           t == Append(s.taken, event)
           new == [s EXCEPT !.queue = q, !.taken = t]
<1>1. CASE Emit(s, event) = s
  BY <1>1
<1>2. CASE Emit(s, event) = [s EXCEPT !.full = TRUE]
  BY <1>2 DEF Flow, Flows
<1>3. CASE Emit(s, event) = new
  <2>1. q \in Seq(Events) /\ t \in Seq(Events) /\ Splits(t, s.sent, q)
    BY FlowTyped, AppendProperties, SplitsAppend DEF Flows
  <2>2. t \in {s.taken, Append(s.taken, event)}
    OBVIOUS
  <2> HIDE DEF q, t
  <2>3. new \in Flow /\ new.at = s.at /\ new.sent = s.sent /\ new.taken = t /\ new.queue = q
    BY <2>1 DEF Flow
  <2> HIDE DEF new
  <2> QED
    BY <1>3, <2>1, <2>2, <2>3 DEF Flows
<1> QED
  BY <1>1, <1>2, <1>3 DEF Emit

LEMMA SendFlows ==
  ASSUME NEW s \in Flow, Flows(s), s.queue # << >>
  PROVE  /\ Send(s) \in Flow /\ Flows(Send(s))
         /\ Send(s).at = s.at /\ Send(s).taken = s.taken
         /\ Len(s.sent) <= Len(Send(s).sent)
<1> DEFINE q == Tail(s.queue)
           t == Append(s.sent, Head(s.queue))
           new == [s EXCEPT !.queue = q, !.sent = t]
<1>1. /\ q \in Seq(Events) /\ t \in Seq(Events) /\ Splits(s.taken, t, q)
      /\ Len(s.sent) <= Len(t)
  BY FlowTyped, SplitsSend DEF Flows
<1>2. Send(s) = new
  BY DEF Send
<1> HIDE DEF q, t
<1>3. new \in Flow /\ new.at = s.at /\ new.sent = t /\ new.taken = s.taken /\ new.queue = q
  BY <1>1 DEF Flow
<1> HIDE DEF new
<1> QED
  BY <1>1, <1>2, <1>3 DEF Flows

\* The fields that say nothing of events.
LEMMA Marked ==
  ASSUME NEW s \in Flow, NEW b \in BOOLEAN
  PROVE  /\ [s EXCEPT !.closed = b] \in Flow /\ [s EXCEPT !.closed = b].at = s.at
         /\ [s EXCEPT !.closed = b].taken = s.taken /\ [s EXCEPT !.closed = b].sent = s.sent
         /\ Flows([s EXCEPT !.closed = b]) <=> Flows(s)
BY DEF Flow, Flows

LEMMA Moved ==
  ASSUME NEW s \in Flow, NEW p \in {"none", "take", "check", "drain", "ended", "gone"}
  PROVE  /\ [s EXCEPT !.at = p] \in Flow /\ [s EXCEPT !.at = p].at = p
         /\ [s EXCEPT !.at = p].taken = s.taken /\ [s EXCEPT !.at = p].sent = s.sent
         /\ Flows([s EXCEPT !.at = p]) <=> Flows(s)
BY DEF Flow, Flows

LEMMA Overs ==
  \A p \in {"none", "ended", "gone"} :
    /\ Over(p) \in Flow /\ Over(p).at = p /\ Over(p).sent = << >> /\ Over(p).taken = << >>
    /\ Flows(Over(p)) /\ \A task : Shown(Over(p), task)
<1>1. << >> \in Seq(Events) /\ Len(<< >>) = 0
  OBVIOUS
<1> QED
  BY <1>1 DEF Over, Flow, Flows, Splits, Shown

LEMMA EndsWith ==
  ASSUME NEW events \in Seq(Events), EndsIn(events, "none"), NEW event \in Events
  PROVE  EndsIn(Append(events, event), event)
<1> DEFINE all == Append(events, event)
<1>1. /\ Len(all) = Len(events) + 1 /\ all[Len(events) + 1] = event /\ Len(events) \in Nat
      /\ \A i \in 1..Len(events) : all[i] = events[i]
  BY AppendProperties, LenProperties
<1>2. \A i \in 1..Len(events) : events[i] \notin Told
  BY NothingTold
<1> HIDE DEF all
<1>3. EndsIn(all, event)
  BY <1>1, <1>2 DEF EndsIn
<1> QED
  BY <1>3 DEF all

LEMMA EndsAnyway ==
  ASSUME NEW events \in Seq(Events), EndsIn(events, "none")
  PROVE  \A task : EndsIn(events, task)
BY NothingTold DEF EndsIn

LEMMA StageEndsNothing ==
  ASSUME NEW events \in Seq(Events), EndsIn(events, "none"),
         NEW event \in {"started", "stage"}
  PROVE  EndsIn(Append(events, event), "none")
<1> DEFINE all == Append(events, event)
<1>1. event \in Events /\ event \notin Told
  BY DEF Events, Told
<1>2. /\ Len(all) = Len(events) + 1 /\ all[Len(events) + 1] = event /\ Len(events) \in Nat
      /\ \A i \in 1..Len(events) : all[i] = events[i]
  BY <1>1, AppendProperties, LenProperties
<1>3. \A i \in 1..Len(events) : events[i] \notin Told
  BY NothingTold
<1> HIDE DEF all
<1>4. EndsIn(all, "none")
  BY <1>1, <1>2, <1>3 DEF EndsIn
<1> QED
  BY <1>4 DEF all

-----------------------------------------------------------------------------
(* What a step of a run leaves. *)

LEMMA EmitStageFits ==
  ASSUME NEW s \in Flow, NEW w \in Workflow, RunFits(s, w), w.task = "running",
         s.at # "gone"
  PROVE  Emit(s, "stage") \in Flow /\ RunFits(Emit(s, "stage"), w)
         /\ Emit(s, "stage").sent = s.sent /\ Emit(s, "stage").at = s.at
<1> DEFINE e == Emit(s, "stage")
<1>1. s.at \in {"take", "check"} /\ Flows(s) /\ EndsIn(s.taken, "none")
  BY DEF RunFits
<1>2. /\ e \in Flow /\ Flows(e) /\ e.at = s.at /\ e.sent = s.sent
      /\ e.taken \in {s.taken, Append(s.taken, "stage")}
  BY <1>1, EmitFlows DEF Events
<1> HIDE DEF e
<1>3. EndsIn(e.taken, "none")
  BY <1>1, <1>2, FlowTyped, StageEndsNothing
<1>4. Shown(e, w.task)
  BY <1>2, <1>3, FlowTyped, EndsAnyway, FlowsShow
<1>5. RunFits(e, w)
  BY <1>1, <1>2, <1>3, <1>4 DEF RunFits
<1> QED
  BY <1>2, <1>5 DEF e

LEMMA EndFits ==
  ASSUME NEW s \in Flow, NEW w \in Workflow, NEW v \in Workflow, RunFits(s, w),
         w.task = "running", v.task \in Outcomes, v.entry = w.entry
  PROVE  RunFits(s, v)
<1>1. s.at \in {"take", "check", "gone"}
  BY DEF RunFits
<1>2. CASE s.at \in {"take", "check"}
  <2>1. Shown(s, v.task)
    BY <1>2, FlowTyped, EndsAnyway, FlowsShow DEF RunFits
  <2> QED
    BY <1>2, <2>1 DEF RunFits, Outcomes
<1>3. CASE s.at = "gone"
  <2>1. Shown(s, v.task)
    BY DEF RunFits, Shown, Told
  <2> QED
    BY <1>3, <2>1 DEF RunFits, Outcomes
<1> QED
  BY <1>1, <1>2, <1>3

LEMMA EntryFits ==
  ASSUME NEW s \in Flow, NEW w \in Workflow, NEW v \in Workflow, RunFits(s, w),
         v.task = w.task, v.entry = "own" => w.entry = "own"
  PROVE  RunFits(s, v)
BY DEF RunFits

LEMMA ClosedFits ==
  ASSUME NEW s \in Flow, NEW w \in Workflow, NEW b \in BOOLEAN, RunFits(s, w),
         w.entry = "own"
  PROVE  [s EXCEPT !.closed = b] \in Flow /\ RunFits([s EXCEPT !.closed = b], w)
         /\ [s EXCEPT !.closed = b].sent = s.sent /\ [s EXCEPT !.closed = b].at = s.at
<1> DEFINE k == [s EXCEPT !.closed = b]
<1>1. /\ k \in Flow /\ k.at = s.at /\ k.taken = s.taken /\ k.sent = s.sent
      /\ Flows(k) <=> Flows(s)
  BY Marked
<1>2. s.at # "none" /\ Shown(s, w.task)
  BY DEF RunFits
<1> HIDE DEF k
<1>3. Shown(k, w.task)
  BY <1>1, <1>2 DEF Shown
<1>4. RunFits(k, w)
  BY <1>1, <1>2, <1>3 DEF RunFits
<1> QED
  BY <1>1, <1>4 DEF k

LEMMA OverFits ==
  ASSUME NEW w \in Workflow, NEW p \in {"ended", "gone"}, w.task # "none",
         w.task = "running" => p = "gone"
  PROVE  Over(p) \in Flow /\ RunFits(Over(p), w)
BY Overs DEF RunFits

LEMMA GoneFits ==
  ASSUME NEW s \in Flow, NEW w \in Workflow, RunFits(s, w), s.at # "none"
  PROVE  Gone(s) \in Flow /\ RunFits(Gone(s), w) /\ Gone(s).sent = s.sent
<1> DEFINE g == Gone(s)
<1>1. g \in Flow /\ g.at = "gone" /\ g.taken = s.taken /\ g.sent = s.sent
  <2>1. << >> \in Seq(Events)
    OBVIOUS
  <2> QED
    BY <2>1 DEF Flow, Gone
<1> HIDE DEF g
<1>2. Shown(g, w.task)
  BY <1>1 DEF RunFits, Shown
<1>3. RunFits(g, w)
  BY <1>1, <1>2 DEF RunFits
<1> QED
  BY <1>1, <1>3 DEF g

LEMMA TakeFits ==
  ASSUME NEW s \in Flow, NEW w \in Workflow, RunFits(s, w), s.at = "take",
         NEW t, t = [(IF s.queue = << >> THEN s ELSE Send(s)) EXCEPT !.at = "check"]
  PROVE  t \in Flow /\ RunFits(t, w) /\ Len(s.sent) <= Len(t.sent) /\ t.at = "check"
<1>1. PICK u : u = IF s.queue = << >> THEN s ELSE Send(s)
  OBVIOUS
<1>2. Flows(s) /\ EndsIn(s.taken, "none")
  BY DEF RunFits
<1>3. u \in Flow /\ Flows(u) /\ u.taken = s.taken /\ Len(s.sent) <= Len(u.sent)
  BY <1>1, <1>2, SendFlows, FlowTyped
<1>4. t = [u EXCEPT !.at = "check"]
  BY <1>1
<1>5. /\ t \in Flow /\ t.at = "check" /\ t.taken = u.taken /\ t.sent = u.sent
      /\ Flows(t)
  <2>1. /\ [u EXCEPT !.at = "check"] \in Flow /\ [u EXCEPT !.at = "check"].at = "check"
        /\ [u EXCEPT !.at = "check"].taken = u.taken
        /\ [u EXCEPT !.at = "check"].sent = u.sent
        /\ Flows([u EXCEPT !.at = "check"]) <=> Flows(u)
    BY <1>3, Moved, Zenon
  <2> QED
    BY <1>3, <1>4, <2>1, Zenon
<1>6. EndsIn(t.taken, "none") /\ Shown(t, w.task)
  BY <1>2, <1>3, <1>5, FlowTyped, EndsAnyway, FlowsShow
<1>7. w.task # "none"
  BY DEF RunFits
<1> QED
  BY <1>3, <1>5, <1>6, <1>7 DEF RunFits

LEMMA RunsGoOn ==
  ASSUME NEW s \in Flow, NEW w \in Workflow, RunFits(s, w), s.at = "check"
  PROVE  [s EXCEPT !.at = "take"] \in Flow /\ RunFits([s EXCEPT !.at = "take"], w)
         /\ [s EXCEPT !.at = "take"].sent = s.sent
<1> DEFINE t == [s EXCEPT !.at = "take"]
<1>1. /\ t \in Flow /\ t.at = "take" /\ t.taken = s.taken /\ t.sent = s.sent
      /\ Flows(t) <=> Flows(s)
  BY Moved
<1> HIDE DEF t
<1>2. Shown(t, w.task)
  BY <1>1 DEF RunFits, Shown
<1>3. RunFits(t, w)
  BY <1>1, <1>2 DEF RunFits
<1> QED
  BY <1>1, <1>3 DEF t

LEMMA FarewellIs ==
  ASSUME NEW s \in Flow, Flows(s), EndsIn(s.taken, "none"), NEW outcome \in Outcomes
  PROVE  /\ Farewell(s, outcome) \in Flow /\ Flows(Farewell(s, outcome))
         /\ EndsIn(Farewell(s, outcome).taken, outcome)
         /\ Farewell(s, outcome).sent = s.sent
<1> DEFINE e == Emit(s, outcome)
<1>1. /\ e \in Flow /\ Flows(e) /\ e.sent = s.sent
      /\ e.taken \in {s.taken, Append(s.taken, outcome)}
  BY EmitFlows DEF Events
<1> HIDE DEF e
<1>2. EndsIn(e.taken, outcome)
  BY <1>1, FlowTyped, EndsAnyway, EndsWith DEF Events
<1>3. Farewell(s, outcome) = [e EXCEPT !.closed = TRUE]
  BY DEF Farewell, e
<1> QED
  BY <1>1, <1>2, <1>3, Marked

LastWord(s, outcome) == [Farewell(s, outcome) EXCEPT !.at = "drain"]

LEMMA CheckToldFits ==
  ASSUME NEW s \in Flow, NEW w \in Workflow, RunFits(s, w), s.at = "check",
         NEW outcome \in Told, w.task = outcome,
         NEW t, t = LastWord(s, outcome)
  PROVE  t \in Flow /\ RunFits(t, w) /\ t.sent = s.sent /\ t.at = "drain"
<1> DEFINE f == Farewell(s, outcome)
<1>1. f \in Flow /\ Flows(f) /\ EndsIn(f.taken, w.task) /\ f.sent = s.sent
  BY FarewellIs DEF RunFits, Told, Outcomes
<1>2. t = [f EXCEPT !.at = "drain"]
  BY DEF LastWord
<1> HIDE DEF f
<1>3. t \in Flow /\ t.at = "drain" /\ t.taken = f.taken /\ t.sent = f.sent /\ Flows(t)
  <2>1. /\ [f EXCEPT !.at = "drain"] \in Flow /\ [f EXCEPT !.at = "drain"].at = "drain"
        /\ [f EXCEPT !.at = "drain"].taken = f.taken
        /\ [f EXCEPT !.at = "drain"].sent = f.sent
        /\ Flows([f EXCEPT !.at = "drain"]) <=> Flows(f)
    BY <1>1, Moved, Zenon
  <2> QED
    BY <1>1, <1>2, <2>1, Zenon
<1>4. Shown(t, w.task)
  BY <1>1, <1>3, FlowsShow
<1> QED
  BY <1>1, <1>3, <1>4 DEF RunFits, Told

LEMMA CheckErrorFits ==
  ASSUME NEW s \in Flow, NEW w \in Workflow, RunFits(s, w), s.at = "check",
         w.task = "error", NEW t, t = Failure(s)
  PROVE  t \in Flow /\ RunFits(t, w) /\ Len(s.sent) <= Len(t.sent) /\ t.at = "ended"
<1> DEFINE f == Farewell(s, "error")
           a == Append(s.sent, "error")
<1>1. f \in Flow /\ f.sent = s.sent
  BY FarewellIs DEF RunFits, Outcomes
<1>2. s.sent \in Seq(Events) /\ Len(s.sent) \in Nat /\ "error" \in Events \ Told
  BY FlowTyped DEF Events, Outcomes, Told
<1>3. /\ a \in Seq(Events) /\ Len(a) = Len(s.sent) + 1 /\ a[Len(s.sent) + 1] = "error"
      /\ \A i \in 1..Len(s.sent) : a[i] = s.sent[i]
  BY <1>2, AppendProperties
<1>4. t = [f EXCEPT !.sent = a, !.at = "ended"]
  BY <1>1 DEF Failure
<1> HIDE DEF f, a
<1>5. t \in Flow /\ t.at = "ended" /\ t.sent = a
  BY <1>1, <1>3, <1>4 DEF Flow
<1>6. \A i \in 1..Len(s.sent) : s.sent[i] \notin Told
  BY DEF RunFits, Shown, Told
<1>7. Shown(t, w.task)
  BY <1>2, <1>3, <1>5, <1>6 DEF Shown
<1>8. RunFits(t, w)
  BY <1>5, <1>7 DEF RunFits
<1> QED
  BY <1>2, <1>3, <1>5, <1>8

LEMMA DrainFits ==
  ASSUME NEW s \in Flow, NEW w \in Workflow, RunFits(s, w), s.at = "drain",
         NEW t, t = IF s.queue # << >> THEN Send(s) ELSE [s EXCEPT !.at = "ended"]
  PROVE  t \in Flow /\ RunFits(t, w) /\ Len(s.sent) <= Len(t.sent) /\ t.at # "none"
<1>1. Flows(s) /\ EndsIn(s.taken, w.task) /\ w.task \in Told /\ Shown(s, w.task)
  BY DEF RunFits
<1>2. CASE s.queue # << >>
  <2>1. /\ t \in Flow /\ Flows(t) /\ t.at = "drain" /\ t.taken = s.taken
        /\ Len(s.sent) <= Len(t.sent)
    BY <1>1, <1>2, SendFlows
  <2>2. Shown(t, w.task)
    BY <1>1, <2>1, FlowsShow
  <2> QED
    BY <1>1, <2>1, <2>2 DEF RunFits, Told
<1>3. CASE s.queue = << >>
  <2>1. t \in Flow /\ t.at = "ended" /\ t.taken = s.taken /\ t.sent = s.sent
    BY <1>3, Moved
  <2>2. Shown(t, w.task)
    BY <1>1, <2>1 DEF Shown
  <2> QED
    BY <1>1, <2>1, <2>2, FlowTyped DEF RunFits, Told
<1> QED
  BY <1>2, <1>3

LEMMA OpenFits ==
  ASSUME NEW w \in Workflow, w.task = "running",
         NEW t, t = [Emit(Over("none"), "started") EXCEPT !.at = "take"]
  PROVE  t \in Flow /\ RunFits(t, w) /\ Len(t.sent) = 0 /\ t.at = "take"
<1> DEFINE e == Emit(Over("none"), "started")
<1>1. /\ e \in Flow /\ Flows(e) /\ e.sent = << >>
      /\ e.taken \in {<< >>, Append(<< >>, "started")}
  BY Overs, EmitFlows DEF Events
<1> HIDE DEF e
<1>2. EndsIn(<< >>, "none") /\ << >> \in Seq(Events)
  BY DEF EndsIn
<1>3. EndsIn(e.taken, "none")
  BY <1>1, <1>2, StageEndsNothing
<1>4. t \in Flow /\ t.at = "take" /\ t.taken = e.taken /\ t.sent = e.sent /\ Flows(t)
  BY <1>1, Moved DEF e
<1>5. Shown(t, w.task)
  BY <1>3, <1>4, FlowTyped, EndsAnyway, FlowsShow
<1> QED
  BY <1>1, <1>3, <1>4, <1>5 DEF RunFits

-----------------------------------------------------------------------------
(* The steps. *)

Waits == {"unused", "delay", "posting"}

LEMMA ReaderStays ==
  ASSUME NEW c \in Connection, NEW s \in Flow, NEW t \in Flow, ReaderFits(c, s),
         Len(s.sent) <= Len(t.sent), s.at # "none"
  PROVE  ReaderFits(c, t)
BY FlowTyped DEF ReaderFits, Connection

LEMMA ReaderMoves ==
  ASSUME NEW c \in Connection, NEW d \in Connection, NEW s \in Flow, ReaderFits(c, s),
         d.read \in {0, c.read}, d.at \in Waits => c.at \in Waits,
         d.at # "reading" => d.read = 0
  PROVE  ReaderFits(d, s)
BY FlowTyped DEF ReaderFits, Connection, Waits

LEMMA RunMoves ==
  ASSUME StreamInv, NEW r \in StreamRuns, UNCHANGED conn,
         stream' \in [StreamRuns -> Flow], run' \in [StreamRuns -> Workflow],
         \A q \in StreamRuns \ {r} : stream'[q] = stream[q] /\ run'[q] = run[q],
         RunFits(stream'[r], run'[r]),
         stream'[r] = stream[r] \/
           (stream[r].at # "none" /\ Len(stream[r].sent) <= Len(stream'[r].sent))
  PROVE  StreamInv'
<1>1. ASSUME NEW q \in StreamRuns
      PROVE  RunFits(stream'[q], run'[q]) /\ ReaderFits(conn'[q], stream'[q])
  <2>1. CASE stream'[q] = stream[q]
    BY <2>1 DEF StreamInv
  <2>2. CASE stream'[q] # stream[q]
    BY <2>2, ReaderStays DEF StreamInv
  <2> QED
    BY <2>1, <2>2
<1> QED
  BY <1>1 DEF StreamInv

LEMMA ReadersMove ==
  ASSUME StreamInv, UNCHANGED <<stream, run>>, conn' \in [StreamRuns -> Connection],
         \A q \in StreamRuns :
           /\ conn'[q].read \in {0, conn[q].read}
           /\ conn'[q].at \in Waits => conn[q].at \in Waits
           /\ conn'[q].at # "reading" => conn'[q].read = 0
  PROVE  StreamInv'
<1>1. ASSUME NEW q \in StreamRuns PROVE ReaderFits(conn'[q], stream[q])
  BY ReaderMoves DEF StreamInv
<1> QED
  BY <1>1 DEF StreamInv

LEMMA Emitted ==
  ASSUME NEW w \in Workflow, NEW n \in Nat, NEW e \in {"none", "own", "other"},
         NEW v, v = [w EXCEPT !.emitted = n, !.entry = e]
  PROVE  v \in Workflow /\ v.task = w.task /\ v.entry = e
BY DEF Workflow

LEMMA WorkflowSteps ==
  ASSUME StreamInv, NEW r \in StreamRuns, WorkflowStep(r)
  PROVE  StreamInv'
<1> DEFINE s == stream[r]
           w == run[r]
<1>1. s \in Flow /\ w \in Workflow /\ RunFits(s, w)
  BY DEF StreamInv
<1>2. CASE EmitStage(r)
  <2>1. /\ w.task = "running" /\ UNCHANGED conn
        /\ run' = [run EXCEPT ![r].emitted = @ + 1,
                              ![r].entry = IF @ = "none" THEN "other" ELSE @]
        /\ stream' = IF w.entry = "own" /\ s.at # "gone"
                     THEN [stream EXCEPT ![r] = Emit(@, "stage")] ELSE stream
    BY <1>2 DEF EmitStage
  <2>2. /\ run' \in [StreamRuns -> Workflow] /\ \A q \in StreamRuns \ {r} : run'[q] = run[q]
        /\ run'[r].task = "running" /\ (run'[r].entry = "own" => w.entry = "own")
    <3> DEFINE n == w.emitted + 1
               e == IF w.entry = "none" THEN "other" ELSE w.entry
    <3>1. n \in Nat /\ e \in {"none", "own", "other"} /\ (e = "own" => w.entry = "own")
      BY <1>1 DEF Workflow
    <3>2. PICK v : v = [w EXCEPT !.emitted = n, !.entry = e]
      OBVIOUS
    <3>3. run' = [run EXCEPT ![r] = v]
      BY <2>1, <3>2 DEF StreamInv
    <3> HIDE DEF n, e
    <3>4. v \in Workflow /\ v.task = w.task /\ v.entry = e
      BY <1>1, <3>1, <3>2 DEF Workflow
    <3> QED
      BY <2>1, <3>1, <3>3, <3>4 DEF StreamInv
  <2>3. RunFits(s, run'[r])
    BY <1>1, <2>1, <2>2, EntryFits
  <2>4. CASE w.entry = "own" /\ s.at # "gone"
    <3>1. /\ Emit(s, "stage") \in Flow /\ RunFits(Emit(s, "stage"), run'[r])
          /\ Emit(s, "stage").sent = s.sent /\ s.at # "none"
      BY <1>1, <2>1, <2>2, <2>3, <2>4, EmitStageFits DEF RunFits
    <3>2. /\ stream' \in [StreamRuns -> Flow] /\ stream'[r] = Emit(s, "stage")
          /\ \A q \in StreamRuns \ {r} : stream'[q] = stream[q]
      BY <2>1, <2>4, <3>1 DEF StreamInv
    <3>3. Len(s.sent) <= Len(stream'[r].sent)
      BY <1>1, <3>1, <3>2, FlowTyped
    <3> QED
      BY <2>1, <2>2, <3>1, <3>2, <3>3, RunMoves
  <2>5. CASE ~(w.entry = "own" /\ s.at # "gone")
    <3>1. stream' = stream
      BY <2>1, <2>5
    <3> QED
      BY <2>1, <2>2, <2>3, <3>1, RunMoves DEF StreamInv
  <2> QED
    BY <2>4, <2>5
<1>3. CASE EndWorkflow(r)
  <2>1. PICK outcome \in Outcomes : run' = [run EXCEPT ![r].task = outcome]
    BY <1>3 DEF EndWorkflow, Outcomes
  <2>2. /\ run' \in [StreamRuns -> Workflow] /\ \A q \in StreamRuns \ {r} : run'[q] = run[q]
        /\ run'[r].task = outcome /\ run'[r].entry = w.entry
    BY <1>1, <2>1 DEF StreamInv, Workflow
  <2>3. w.task = "running" /\ UNCHANGED <<conn, stream>>
    BY <1>3 DEF EndWorkflow
  <2>4. RunFits(s, run'[r])
    BY <1>1, <2>2, <2>3, EndFits
  <2> QED
    BY <2>2, <2>3, <2>4, RunMoves DEF StreamInv
<1> QED
  BY <1>2, <1>3 DEF WorkflowStep

\* The entry of a run is dropped, or stays.
LEMMA EntryGoes ==
  ASSUME StreamInv, NEW r \in StreamRuns, NEW e \in {"none", run[r].entry},
         run' = [run EXCEPT ![r].entry = e]
  PROVE  /\ run' \in [StreamRuns -> Workflow]
         /\ \A q \in StreamRuns \ {r} : run'[q] = run[q]
         /\ run'[r].task = run[r].task
         /\ \A t : RunFits(t, run[r]) /\ t \in Flow => RunFits(t, run'[r])
<1>1. run[r] \in Workflow
  BY DEF StreamInv
<1>2. /\ run' \in [StreamRuns -> Workflow] /\ \A q \in StreamRuns \ {r} : run'[q] = run[q]
      /\ run'[r].task = run[r].task /\ run'[r].entry = e
  BY <1>1 DEF StreamInv, Workflow
<1>3. run'[r] \in Workflow /\ run'[r].task = run[r].task
      /\ (run'[r].entry = "own" => run[r].entry = "own")
  <2>1. e = "own" => run[r].entry = "own"
    OBVIOUS
  <2> QED
    BY <1>2, <2>1
<1> QED
  BY <1>1, <1>2, <1>3, EntryFits, Zenon

LEMMA EndpointSteps ==
  ASSUME StreamInv, NEW r \in StreamRuns, EndpointStep(r)
  PROVE  StreamInv'
<1> DEFINE s == stream[r]
           w == run[r]
<1>1. s \in Flow /\ w \in Workflow /\ RunFits(s, w)
  BY DEF StreamInv
\* The endpoint's side is replaced.
<1>2. ASSUME NEW t \in Flow, stream' = [stream EXCEPT ![r] = t],
             run' = run \/ run' = [run EXCEPT ![r].entry = "none"],
             UNCHANGED conn, RunFits(t, w), s.at # "none", Len(s.sent) <= Len(t.sent)
      PROVE  StreamInv'
  <2>1. /\ run' \in [StreamRuns -> Workflow] /\ \A q \in StreamRuns \ {r} : run'[q] = run[q]
        /\ RunFits(t, run'[r])
    BY <1>2, EntryGoes DEF StreamInv
  <2>2. /\ stream' \in [StreamRuns -> Flow] /\ stream'[r] = t
        /\ \A q \in StreamRuns \ {r} : stream'[q] = stream[q]
    BY <1>2 DEF StreamInv
  <2> QED
    BY <1>2, <2>1, <2>2, RunMoves
<1>3. CASE Take(r)
  <2> DEFINE t == [(IF s.queue = << >> THEN s ELSE Send(s)) EXCEPT !.at = "check"]
  <2>1. s.at = "take" /\ stream' = [stream EXCEPT ![r] = t] /\ UNCHANGED <<conn, run>>
    BY <1>3 DEF Take
  <2>2. t \in Flow /\ RunFits(t, w) /\ Len(s.sent) <= Len(t.sent)
    BY <1>1, <2>1, TakeFits
  <2> HIDE DEF t
  <2> QED
    BY <1>2, <2>1, <2>2
<1>4. CASE Check(r)
  <2>1. s.at = "check" /\ UNCHANGED conn
    BY <1>4 DEF Check
  <2>2. CASE w.task = "running"
    <3> DEFINE t == [s EXCEPT !.at = "take"]
    <3>1. stream' = [stream EXCEPT ![r] = t] /\ run' = run
      BY <1>4, <2>2 DEF Check
    <3>2. t \in Flow /\ RunFits(t, w) /\ Len(s.sent) <= Len(t.sent)
      BY <1>1, <2>1, RunsGoOn, FlowTyped
    <3> HIDE DEF t
    <3> QED
      BY <1>2, <2>1, <3>1, <3>2
  <2>3. CASE w.task = "error"
    <3>1. PICK t : t = Failure(s)
      OBVIOUS
    <3>2. t \in Flow /\ RunFits(t, w) /\ Len(s.sent) <= Len(t.sent)
      BY <1>1, <2>1, <2>3, <3>1, CheckErrorFits
    <3>3. stream' = [stream EXCEPT ![r] = t] /\ run' = [run EXCEPT ![r].entry = "none"]
      BY <1>4, <2>3, <3>1 DEF Check
    <3> QED
      BY <1>2, <2>1, <3>2, <3>3
  <2>4. CASE w.task \in Told
    <3>0. PICK outcome \in Told : w.task = outcome
      BY <2>4
    <3>1. PICK t : t = LastWord(s, outcome)
      OBVIOUS
    <3>2. t \in Flow /\ RunFits(t, w) /\ t.sent = s.sent
      BY <1>1, <2>1, <3>0, <3>1, CheckToldFits
    <3>3. Len(s.sent) <= Len(t.sent)
      BY <1>1, <3>2, FlowTyped
    <3>4. stream' = [stream EXCEPT ![r] = t] /\ run' = run
      BY <1>4, <2>4, <3>0, <3>1 DEF Check, Told, LastWord
    <3> QED
      BY <1>2, <2>1, <3>2, <3>3, <3>4
  <2>5. w.task \in {"running", "error"} \cup Told
    BY <1>1, <2>1 DEF RunFits, Workflow, Outcomes, Told
  <2> QED
    BY <2>2, <2>3, <2>4, <2>5
<1>5. CASE Drain(r)
  <2> DEFINE t == IF s.queue # << >> THEN Send(s) ELSE [s EXCEPT !.at = "ended"]
  <2>1. /\ s.at = "drain" /\ stream' = [stream EXCEPT ![r] = t] /\ UNCHANGED conn
        /\ run' = run \/ run' = [run EXCEPT ![r].entry = "none"]
    BY <1>5 DEF Drain, Drained
  <2>2. t \in Flow /\ RunFits(t, w) /\ Len(s.sent) <= Len(t.sent)
    BY <1>1, <2>1, DrainFits
  <2> HIDE DEF t
  <2> QED
    BY <1>2, <2>1, <2>2
<1>6. CASE StreamCancelled(r)
  <2>1. /\ s.at \in {"take", "check", "drain"} /\ conn[r].at = "closed" /\ UNCHANGED conn
        /\ stream' = [stream EXCEPT ![r] = Over("gone")]
        /\ run' = [run EXCEPT ![r].entry = IF run[r].task = "running" THEN @ ELSE "none"]
    BY <1>6 DEF StreamCancelled
  <2>2. /\ run' \in [StreamRuns -> Workflow] /\ \A q \in StreamRuns \ {r} : run'[q] = run[q]
        /\ \A t : RunFits(t, run[r]) /\ t \in Flow => RunFits(t, run'[r])
    <3>1. PICK e \in {"none", run[r].entry} : run' = [run EXCEPT ![r].entry = e]
      BY <2>1
    <3> QED
      BY <3>1, EntryGoes
  <2>3. Over("gone") \in Flow /\ RunFits(Over("gone"), w)
    BY <1>1, <2>1, OverFits DEF RunFits
  <2>4. ASSUME NEW q \in StreamRuns
        PROVE  RunFits(stream'[q], run'[q]) /\ ReaderFits(conn'[q], stream'[q])
    <3>1. CASE q = r
      <4>1. conn[r].read = 0 /\ Len(Over("gone").sent) = 0 /\ conn[r].at = "closed"
        BY <2>1, Overs DEF StreamInv, ReaderFits
      <4>2. ReaderFits(conn[r], Over("gone"))
        BY <4>1 DEF ReaderFits
      <4> QED
        BY <2>1, <2>2, <2>3, <3>1, <4>2 DEF StreamInv
    <3>2. CASE q # r
      BY <2>1, <2>2, <3>2 DEF StreamInv
    <3> QED
      BY <3>1, <3>2
  <2> QED
    BY <2>1, <2>2, <2>3, <2>4 DEF StreamInv
<1> QED
  BY <1>3, <1>4, <1>5, <1>6 DEF EndpointStep

LEMMA OtherRequestStep ==
  ASSUME StreamInv, NEW r \in StreamRuns, OtherRequest(r)
  PROVE  StreamInv'
<1> DEFINE s == stream[r]
           w == run[r]
           b == s.at # "gone"
           t == [s EXCEPT !.closed = b]
<1>1. s \in Flow /\ w \in Workflow /\ RunFits(s, w) /\ w.entry = "own" /\ b \in BOOLEAN
  BY DEF StreamInv, OtherRequest, Stale
<1>2. stream' = [stream EXCEPT ![r] = t] /\ run' = [run EXCEPT ![r].entry = "none"]
      /\ UNCHANGED conn
  BY DEF OtherRequest
<1> HIDE DEF b
<1>3. t \in Flow /\ RunFits(t, w) /\ t.sent = s.sent
  BY <1>1, ClosedFits
<1> HIDE DEF t
<1>4. /\ run' \in [StreamRuns -> Workflow] /\ \A q \in StreamRuns \ {r} : run'[q] = run[q]
      /\ RunFits(t, run'[r])
  BY <1>2, <1>3, EntryGoes
<1>5. /\ stream' \in [StreamRuns -> Flow] /\ stream'[r] = t
      /\ \A q \in StreamRuns \ {r} : stream'[q] = stream[q]
  BY <1>2, <1>3 DEF StreamInv
<1>6. s.at # "none" /\ Len(s.sent) <= Len(t.sent)
  BY <1>1, <1>3, FlowTyped DEF RunFits
<1> QED
  BY <1>2, <1>4, <1>5, <1>6, RunMoves

\* What a request leaves: its own run begins, and others' queues may be closed.
LEMMA OpenedIs ==
  ASSUME StreamInv, NEW r \in StreamRuns, NEW reached \in BOOLEAN, Opened(r, reached),
         stream[r].at = "none"
  PROVE  /\ stream' \in [StreamRuns -> Flow] /\ run' \in [StreamRuns -> Workflow]
         /\ RunFits(stream'[r], run'[r]) /\ Len(stream'[r].sent) = 0
         /\ \A q \in StreamRuns \ {r} :
              /\ RunFits(stream'[q], run'[q])
              /\ stream'[q].sent = stream[q].sent /\ stream'[q].at = stream[q].at
<1>1. PICK swept \in SUBSET {q \in StreamRuns : Stale(q)} :
        /\ stream' = [q \in StreamRuns |->
             IF q = r THEN IF reached THEN [Emit(stream[r], "started") EXCEPT !.at = "take"]
                          ELSE Over("gone")
             ELSE [stream[q] EXCEPT
                     !.closed = @ \/ (q \in swept /\ stream[q].at # "gone")]]
        /\ run' = [q \in StreamRuns |->
             IF q = r THEN [run[r] EXCEPT !.task = "running", !.entry = "own"]
             ELSE [run[q] EXCEPT !.entry = Sweep(swept, run, q)]]
  BY DEF Opened
<1>2. stream[r] = Over("none") /\ run[r] \in Workflow
  BY DEF StreamInv, RunFits
<1>3. run'[r] \in Workflow /\ run'[r].task = "running"
  BY <1>1, <1>2 DEF Workflow
<1>4. stream'[r] \in Flow /\ RunFits(stream'[r], run'[r]) /\ Len(stream'[r].sent) = 0
  <2>1. CASE reached
    <3>1. stream'[r] = [Emit(Over("none"), "started") EXCEPT !.at = "take"]
      BY <1>1, <1>2, <2>1
    <3> QED
      BY <1>3, <3>1, OpenFits
  <2>2. CASE ~reached
    <3>1. stream'[r] = Over("gone")
      BY <1>1, <2>2
    <3> QED
      BY <1>3, <3>1, OverFits, Overs
  <2> QED
    BY <2>1, <2>2
<1>5. ASSUME NEW q \in StreamRuns \ {r}
      PROVE  /\ stream'[q] \in Flow /\ run'[q] \in Workflow /\ RunFits(stream'[q], run'[q])
             /\ stream'[q].sent = stream[q].sent /\ stream'[q].at = stream[q].at
  <2> DEFINE b == stream[q].closed \/ (q \in swept /\ stream[q].at # "gone")
             t == [stream[q] EXCEPT !.closed = b]
  <2>1. /\ stream[q] \in Flow /\ run[q] \in Workflow /\ RunFits(stream[q], run[q])
        /\ stream[q].closed \in BOOLEAN /\ b \in BOOLEAN
    BY DEF StreamInv, Flow
  <2>2. stream'[q] = t
    BY <1>1
  <2>3. PICK e \in {"none", run[q].entry} : run'[q] = [run[q] EXCEPT !.entry = e]
    BY <1>1 DEF Sweep
  <2>4. t \in Flow /\ RunFits(t, run[q]) /\ t.sent = stream[q].sent /\ t.at = stream[q].at
    <3>1. CASE q \in swept
      <4>1. run[q].entry = "own"
        BY <3>1 DEF Stale
      <4> HIDE DEF b
      <4> QED
        BY <2>1, <4>1, ClosedFits
    <3>2. CASE q \notin swept
      <4>1. b = stream[q].closed
        BY <2>1, <3>2
      <4>2. t = stream[q]
        BY <2>1, <4>1 DEF Flow
      <4> HIDE DEF t
      <4> QED
        BY <2>1, <4>2
    <3> QED
      BY <3>1, <3>2
  <2> HIDE DEF t
  <2>5. run'[q] \in Workflow /\ run'[q].task = run[q].task /\ run'[q].entry = e
    BY <2>1, <2>3 DEF Workflow
  <2>6. RunFits(t, run'[q])
    BY <2>1, <2>4, <2>5, EntryFits
  <2> QED
    BY <2>2, <2>4, <2>5, <2>6
<1> QED
  BY <1>1, <1>3, <1>4, <1>5

\* A request, whatever becomes of its connection.
LEMMA RequestMoves ==
  ASSUME StreamInv, NEW r \in StreamRuns, NEW reached \in BOOLEAN, Opened(r, reached),
         conn[r].at = "posting", conn' \in [StreamRuns -> Connection],
         conn'[r].at \in {"reading", "closed"}, conn'[r].read = 0,
         \A q \in StreamRuns \ {r} :
           /\ conn'[q].read \in {0, conn[q].read}
           /\ conn'[q].at \in Waits => conn[q].at \in Waits
           /\ conn'[q].at # "reading" => conn'[q].read = 0
  PROVE  StreamInv'
<1>1. stream[r].at = "none"
  BY DEF StreamInv, ReaderFits
<1>2. /\ stream' \in [StreamRuns -> Flow] /\ run' \in [StreamRuns -> Workflow]
      /\ RunFits(stream'[r], run'[r]) /\ Len(stream'[r].sent) = 0
      /\ \A q \in StreamRuns \ {r} :
           /\ RunFits(stream'[q], run'[q])
           /\ stream'[q].sent = stream[q].sent /\ stream'[q].at = stream[q].at
  BY <1>1, OpenedIs
<1>3. ReaderFits(conn'[r], stream'[r])
  BY <1>2 DEF ReaderFits
<1>4. ASSUME NEW q \in StreamRuns \ {r} PROVE ReaderFits(conn'[q], stream'[q])
  <2>1. ReaderFits(conn'[q], stream[q])
    BY ReaderMoves DEF StreamInv
  <2> QED
    BY <1>2, <2>1 DEF ReaderFits
<1>5. \A q \in StreamRuns : RunFits(stream'[q], run'[q]) /\ ReaderFits(conn'[q], stream'[q])
  BY <1>2, <1>3, <1>4
<1> QED
  BY <1>2, <1>5 DEF StreamInv

\* Another connection is made, or none.
LEMMA FailedIs ==
  ASSUME StreamInv, NEW r \in StreamRuns, Failed(r), conn[r].at # "unused"
  PROVE  /\ conn' \in [StreamRuns -> Connection]
         /\ conn'[r].at = "closed" /\ conn'[r].read = 0
         /\ \A q \in StreamRuns \ {r} :
              /\ conn'[q].read \in {0, conn[q].read}
              /\ conn'[q].at \in Waits => conn[q].at \in Waits
              /\ conn'[q].at # "reading" => conn'[q].read = 0
<1>1. \A q \in StreamRuns : conn[q] \in Connection /\ ReaderFits(conn[q], stream[q])
  BY DEF StreamInv
<1>2. CASE conn' = [conn EXCEPT ![r].at = "closed", ![r].read = 0]
  <2> DEFINE c == [conn[r] EXCEPT !.at = "closed", !.read = 0]
  <2>1. c \in Connection /\ c.at = "closed" /\ c.read = 0
    BY <1>1 DEF Connection
  <2>2. conn' = [conn EXCEPT ![r] = c]
    BY <1>2 DEF StreamInv
  <2> HIDE DEF c
  <2> QED
    BY <1>1, <2>1, <2>2 DEF StreamInv, ReaderFits
<1>3. ASSUME NEW q \in StreamRuns, NextRun(q),
             conn' = [conn EXCEPT ![r].at = "closed", ![r].read = 0, ![q].at = "delay"]
      PROVE  /\ conn' \in [StreamRuns -> Connection]
             /\ conn'[r].at = "closed" /\ conn'[r].read = 0
             /\ \A p \in StreamRuns \ {r} :
                  /\ conn'[p].read \in {0, conn[p].read}
                  /\ conn'[p].at \in Waits => conn[p].at \in Waits
                  /\ conn'[p].at # "reading" => conn'[p].read = 0
  <2> DEFINE c == [conn[r] EXCEPT !.at = "closed", !.read = 0]
             d == [conn[q] EXCEPT !.at = "delay"]
  <2>1. q # r /\ conn[q].at = "unused"
    BY <1>3 DEF NextRun
  <2>2. c \in Connection /\ c.at = "closed" /\ c.read = 0
    BY <1>1 DEF Connection
  <2>3. d \in Connection /\ d.at = "delay" /\ d.read = conn[q].read /\ d.read = 0
    BY <1>1, <2>1 DEF Connection, ReaderFits
  <2>4. conn' = [conn EXCEPT ![r] = c, ![q] = d]
    BY <1>3, <2>1 DEF StreamInv
  <2> HIDE DEF c, d
  <2>5. conn'[r] = c /\ conn'[q] = d /\ \A p \in StreamRuns \ {r, q} : conn'[p] = conn[p]
    BY <2>1, <2>4 DEF StreamInv
  <2>6. conn' \in [StreamRuns -> Connection]
    BY <2>2, <2>3, <2>4 DEF StreamInv
  <2>7. ASSUME NEW p \in StreamRuns \ {r}
        PROVE  /\ conn'[p].read \in {0, conn[p].read}
               /\ conn'[p].at \in Waits => conn[p].at \in Waits
               /\ conn'[p].at # "reading" => conn'[p].read = 0
    <3>1. CASE p = q
      BY <2>1, <2>3, <2>5, <3>1 DEF Waits
    <3>2. CASE p # q
      BY <1>1, <2>5, <3>2 DEF ReaderFits
    <3> QED
      BY <3>1, <3>2
  <2> QED
    BY <2>2, <2>5, <2>6, <2>7
<1> QED
  BY <1>2, <1>3 DEF Failed

LEMMA ConnectionAt ==
  ASSUME NEW c \in Connection, NEW p \in {"unused", "delay", "posting", "reading", "closed"}
  PROVE  /\ [c EXCEPT !.at = p] \in Connection
         /\ [c EXCEPT !.at = p].at = p /\ [c EXCEPT !.at = p].read = c.read
BY DEF Connection

\* A connection that waits, and is still none that reads.
LEMMA WaitMoves ==
  ASSUME StreamInv, UNCHANGED <<stream, run>>, NEW r \in StreamRuns,
         NEW p \in {"delay", "posting", "closed"},
         conn' = [conn EXCEPT ![r].at = p], conn[r].at \in Waits
  PROVE  StreamInv'
<1> DEFINE c == [conn[r] EXCEPT !.at = p]
<1>1. conn[r] \in Connection /\ conn[r].read = 0
      /\ \A q \in StreamRuns : ReaderFits(conn[q], stream[q])
  BY DEF StreamInv, ReaderFits, Waits
<1>2. c \in Connection /\ c.at = p /\ c.read = 0
  BY <1>1 DEF Connection
<1>3. conn' = [conn EXCEPT ![r] = c]
  BY DEF StreamInv
<1> HIDE DEF c
<1> QED
  BY <1>1, <1>2, <1>3, ReadersMove DEF StreamInv, ReaderFits, Waits

LEMMA AbortedIs ==
  ASSUME StreamInv
  PROVE  /\ Aborted \in [StreamRuns -> Connection]
         /\ \A q \in StreamRuns :
              Aborted[q].at = conn[q].at /\ Aborted[q].read = conn[q].read
<1>1. ASSUME NEW q \in StreamRuns
      PROVE  /\ Aborted[q] \in Connection
             /\ Aborted[q].at = conn[q].at /\ Aborted[q].read = conn[q].read
  BY DEF StreamInv, Aborted, Connection
<1> QED
  BY <1>1 DEF Aborted

LEMMA CloseMoves ==
  ASSUME StreamInv, NEW r \in StreamRuns, UNCHANGED <<stream, run>>,
         conn' = [conn EXCEPT ![r].at = "closed", ![r].read = 0]
  PROVE  StreamInv'
<1> DEFINE c == [conn[r] EXCEPT !.at = "closed", !.read = 0]
<1>1. conn[r] \in Connection /\ \A q \in StreamRuns : ReaderFits(conn[q], stream[q])
  BY DEF StreamInv
<1>2. c \in Connection /\ c.at = "closed" /\ c.read = 0
  BY <1>1 DEF Connection
<1>3. conn' = [conn EXCEPT ![r] = c]
  BY DEF StreamInv
<1> HIDE DEF c
<1>4. conn' \in [StreamRuns -> Connection]
  BY <1>2, <1>3 DEF StreamInv
<1>5. ASSUME NEW q \in StreamRuns
      PROVE  /\ conn'[q].read \in {0, conn[q].read}
             /\ conn'[q].at \in Waits => conn[q].at \in Waits
             /\ conn'[q].at # "reading" => conn'[q].read = 0
  <2>1. conn'[q] = c \/ conn'[q] = conn[q]
    BY <1>3 DEF StreamInv
  <2>2. conn[q].at # "reading" => conn[q].read = 0
    BY <1>1 DEF ReaderFits
  <2>3. "closed" \notin Waits
    BY DEF Waits
  <2> QED
    BY <1>2, <2>1, <2>2, <2>3, Zenon
<1> QED
  BY <1>4, <1>5, ReadersMove

LEMMA ReaderSteps ==
  ASSUME StreamInv, NEW r \in StreamRuns, ReaderStep(r)
  PROVE  StreamInv'
<1>1. /\ conn[r] \in Connection /\ stream[r] \in Flow /\ run[r] \in Workflow
      /\ RunFits(stream[r], run[r])
      /\ \A q \in StreamRuns : ReaderFits(conn[q], stream[q])
  BY DEF StreamInv
<1>2. CASE Retry(r)
  <2>1. PICK p \in {"posting", "closed"} : conn' = [conn EXCEPT ![r].at = p]
    BY <1>2 DEF Retry
  <2> QED
    BY <1>2, <2>1, WaitMoves DEF Retry, Waits
<1>3. CASE Accept(r)
  <2> DEFINE c == [conn[r] EXCEPT !.at = "reading"]
  <2>1. conn[r].at = "posting" /\ conn[r].read = 0 /\ Opened(r, TRUE)
    BY <1>1, <1>3 DEF Accept, ReaderFits
  <2>2. c \in Connection /\ c.at = "reading" /\ c.read = 0
    BY <1>1, <2>1 DEF Connection
  <2>3. conn' = [conn EXCEPT ![r] = c]
    BY <1>3 DEF Accept, StreamInv
  <2> HIDE DEF c
  <2> QED
    BY <1>1, <2>1, <2>2, <2>3, RequestMoves DEF StreamInv, ReaderFits, Waits
<1>4. CASE ReadEvent(r)
  <2>1. PICK all \in {conn, Aborted} : conn' = [all EXCEPT ![r].read = @ + 1]
    BY <1>4 DEF ReadEvent
  <2>2. /\ conn[r].at = "reading" /\ conn[r].read < Len(stream[r].sent)
        /\ UNCHANGED <<stream, run>>
    BY <1>4 DEF ReadEvent
  <2>3. /\ all \in [StreamRuns -> Connection]
        /\ \A q \in StreamRuns : all[q].at = conn[q].at /\ all[q].read = conn[q].read
    BY <2>1, AbortedIs DEF StreamInv
  <2> DEFINE n == conn[r].read + 1
             c == [all[r] EXCEPT !.read = n]
  <2>4. n \in Nat /\ n <= Len(stream[r].sent)
    BY <1>1, <2>2, FlowTyped DEF Connection
  <2>5. conn' = [all EXCEPT ![r] = c]
    BY <2>1, <2>3
  <2> HIDE DEF n
  <2>6. c \in Connection /\ c.at = "reading" /\ c.read = n
    BY <2>2, <2>3, <2>4 DEF Connection
  <2> HIDE DEF c
  <2>7. /\ conn' \in [StreamRuns -> Connection]
        /\ \A q \in StreamRuns : conn'[q] = IF q = r THEN c ELSE all[q]
    BY <2>3, <2>5, <2>6
  <2>8. ASSUME NEW q \in StreamRuns PROVE ReaderFits(conn'[q], stream[q])
    BY <1>1, <2>2, <2>3, <2>4, <2>6, <2>7 DEF ReaderFits
  <2> QED
    BY <2>2, <2>7, <2>8 DEF StreamInv
<1>5. CASE ReadEnd(r)
  <2> DEFINE c == [conn[r] EXCEPT !.at = "closed", !.read = 0]
  <2>1. /\ stream[r].at = "ended" /\ UNCHANGED run
        /\ stream' = [stream EXCEPT ![r] = Over("ended")]
    BY <1>5 DEF ReadEnd
  <2>2. c \in Connection /\ c.at = "closed" /\ c.read = 0
    BY <1>1 DEF Connection
  <2>3. conn' = [conn EXCEPT ![r] = c]
    BY <1>5 DEF ReadEnd, StreamInv
  <2> HIDE DEF c
  <2>4. Over("ended") \in Flow /\ RunFits(Over("ended"), run[r])
    BY <1>1, <2>1, OverFits DEF RunFits
  <2>5. ReaderFits(c, Over("ended"))
    BY <2>2, Overs DEF ReaderFits
  <2>6. /\ conn' \in [StreamRuns -> Connection] /\ stream' \in [StreamRuns -> Flow]
        /\ \A q \in StreamRuns :
             RunFits(stream'[q], run[q]) /\ ReaderFits(conn'[q], stream'[q])
    BY <2>1, <2>2, <2>3, <2>4, <2>5 DEF StreamInv
  <2> QED
    BY <2>1, <2>6 DEF StreamInv
<1>6. CASE ReadAborted(r)
  BY <1>6, CloseMoves DEF ReadAborted
<1> QED
  BY <1>2, <1>3, <1>4, <1>5, <1>6 DEF ReaderStep

LEMMA HookSteps ==
  ASSUME StreamInv, NEW r \in StreamRuns,
         StartStream(r) \/ PostFails(r) \/ LoseConnection(r)
  PROVE  StreamInv'
<1>1. /\ conn[r] \in Connection /\ stream[r] \in Flow /\ run[r] \in Workflow
      /\ RunFits(stream[r], run[r])
      /\ \A q \in StreamRuns : ReaderFits(conn[q], stream[q])
  BY DEF StreamInv
<1>2. CASE StartStream(r)
  BY <1>2, WaitMoves DEF StartStream, NextRun, Waits
<1>3. CASE PostFails(r)
  <2>1. /\ conn[r].at = "posting" /\ Failed(r)
        /\ UNCHANGED <<stream, run>> \/ Opened(r, FALSE)
    BY <1>3 DEF PostFails
  <2>2. /\ conn' \in [StreamRuns -> Connection]
        /\ conn'[r].at = "closed" /\ conn'[r].read = 0
        /\ \A q \in StreamRuns \ {r} :
             /\ conn'[q].read \in {0, conn[q].read}
             /\ conn'[q].at \in Waits => conn[q].at \in Waits
             /\ conn'[q].at # "reading" => conn'[q].read = 0
    BY <2>1, FailedIs
  <2>3. CASE UNCHANGED <<stream, run>>
    BY <2>2, <2>3, ReadersMove DEF Waits
  <2>4. CASE Opened(r, FALSE)
    BY <2>1, <2>2, <2>4, RequestMoves
  <2> QED
    BY <2>1, <2>3, <2>4
<1>4. CASE LoseConnection(r)
  <2>1. /\ stream[r].at \in {"take", "check", "drain"} /\ conn[r].at = "reading"
        /\ \/ Failed(r) /\ stream' = [stream EXCEPT ![r] = Over("gone")]
           \/ UNCHANGED conn /\ stream' = [stream EXCEPT ![r] = Gone(@)]
    BY <1>4 DEF LoseConnection
  <2>2. /\ run' \in [StreamRuns -> Workflow] /\ \A q \in StreamRuns \ {r} : run'[q] = run[q]
        /\ \A t : RunFits(t, run[r]) /\ t \in Flow => RunFits(t, run'[r])
    <3>1. PICK e \in {"none", run[r].entry} : run' = [run EXCEPT ![r].entry = e]
      BY <1>4 DEF LoseConnection
    <3> QED
      BY <3>1, EntryGoes
  <2>3. CASE Failed(r) /\ stream' = [stream EXCEPT ![r] = Over("gone")]
    <3>1. /\ conn' \in [StreamRuns -> Connection]
          /\ conn'[r].at = "closed" /\ conn'[r].read = 0
          /\ \A q \in StreamRuns \ {r} :
               /\ conn'[q].read \in {0, conn[q].read}
               /\ conn'[q].at \in Waits => conn[q].at \in Waits
               /\ conn'[q].at # "reading" => conn'[q].read = 0
      BY <2>1, <2>3, FailedIs
    <3>2. Over("gone") \in Flow /\ RunFits(Over("gone"), run[r])
      BY <1>1, <2>1, OverFits DEF RunFits
    <3>3. ReaderFits(conn'[r], Over("gone"))
      BY <3>1, Overs DEF ReaderFits
    <3>4. ASSUME NEW q \in StreamRuns \ {r} PROVE ReaderFits(conn'[q], stream[q])
      BY <1>1, <3>1, ReaderMoves DEF StreamInv
    <3>5. \A q \in StreamRuns :
            RunFits(stream'[q], run'[q]) /\ ReaderFits(conn'[q], stream'[q])
      BY <2>2, <2>3, <3>2, <3>3, <3>4 DEF StreamInv
    <3>6. stream' \in [StreamRuns -> Flow]
      BY <2>3, <3>2 DEF StreamInv
    <3> QED
      BY <2>2, <3>1, <3>5, <3>6 DEF StreamInv
  <2>4. CASE UNCHANGED conn /\ stream' = [stream EXCEPT ![r] = Gone(@)]
    <3>1. Gone(stream[r]) \in Flow /\ RunFits(Gone(stream[r]), run[r])
          /\ Gone(stream[r]).sent = stream[r].sent
      BY <1>1, <2>1, GoneFits
    <3>2. /\ stream' \in [StreamRuns -> Flow] /\ stream'[r] = Gone(stream[r])
          /\ \A q \in StreamRuns \ {r} : stream'[q] = stream[q]
      BY <2>4, <3>1 DEF StreamInv
    <3>3. Len(stream[r].sent) <= Len(stream'[r].sent)
      BY <1>1, <3>1, <3>2, FlowTyped
    <3> QED
      BY <2>1, <2>2, <2>4, <3>1, <3>2, <3>3, RunMoves
  <2> QED
    BY <2>1, <2>3, <2>4
<1> QED
  BY <1>2, <1>3, <1>4

LEMMA OtherHookSteps ==
  ASSUME StreamInv, Timeout \/ Cancel
  PROVE  StreamInv'
<1>1. CASE Timeout
  <2>1. CASE UNCHANGED conn
    BY <1>1, <2>1 DEF Timeout, StreamInv
  <2>2. CASE \E q \in StreamRuns : NextRun(q) /\ conn' = [conn EXCEPT ![q].at = "posting"]
    BY <1>1, <2>2, WaitMoves DEF Timeout, NextRun, Waits
  <2> QED
    BY <1>1, <2>1, <2>2 DEF Timeout
<1>2. CASE Cancel
  BY <1>2, AbortedIs, ReadersMove DEF Cancel, StreamInv, ReaderFits
<1> QED
  BY <1>1, <1>2

LEMMA StreamShows == StreamInv => OutcomesComeLast
<1> SUFFICES ASSUME StreamInv, NEW r \in StreamRuns
             PROVE  LET seen == SubSeq(stream[r].sent, 1, conn[r].read) IN
                    (\E i \in DOMAIN seen : seen[i] \in {"completed", "hitl_selection"}) =>
                      seen = stream[r].taken /\ seen[Len(seen)] = run[r].task
  BY DEF OutcomesComeLast
<1> DEFINE s == stream[r]
           n == conn[r].read
           seen == SubSeq(s.sent, 1, n)
<1>1. /\ s \in Flow /\ n \in Nat /\ n <= Len(s.sent) /\ Shown(s, run[r].task)
      /\ s.sent \in Seq(Events) /\ Len(s.sent) \in Nat
  BY FlowTyped DEF StreamInv, RunFits, ReaderFits, Connection
<1>2. /\ seen \in Seq(Events) /\ Len(seen) = n /\ \A i \in 1..n : seen[i] = s.sent[i]
  <2>1. \A i \in 1..n : s.sent[i] \in Events
    BY <1>1
  <2> QED
    BY <1>1, <2>1, SubSeqProperties
<1>3. ASSUME NEW i \in DOMAIN seen, seen[i] \in Told
      PROVE  seen = s.taken /\ seen[Len(seen)] = run[r].task
  <2>1. i \in 1..n /\ i \in 1..Len(s.sent) /\ seen[i] = s.sent[i]
    <3>1. DOMAIN seen = 1..n
      BY <1>2, LenProperties
    <3> HIDE DEF seen
    <3> QED
      BY <1>1, <1>2, <1>3, <3>1
  <2>2. s.sent = s.taken /\ i = Len(s.sent) /\ s.sent[i] = run[r].task
    BY <1>3, <2>1, <1>1 DEF Shown
  <2>3. n = Len(s.sent) /\ i = n
    BY <1>1, <2>1, <2>2
  <2>4. seen = s.sent
    BY <1>1, <2>3, SubSeqFull
  <2> QED
    BY <1>2, <2>1, <2>2, <2>3, <2>4
<1> QED
  BY <1>3 DEF Told

LEMMA StreamInvariance == StreamSpec => []StreamInv
<1>1. StreamInit => StreamInv
  <2> SUFFICES ASSUME StreamInit PROVE StreamInv
    OBVIOUS
  <2>1. /\ conn \in [StreamRuns -> Connection] /\ stream \in [StreamRuns -> Flow]
        /\ run \in [StreamRuns -> Workflow]
    BY Overs DEF StreamInit, Connection, Workflow
  <2>2. ASSUME NEW r \in StreamRuns
        PROVE  RunFits(stream[r], run[r]) /\ ReaderFits(conn[r], stream[r])
    <3>1. stream[r] = Over("none") /\ run[r].task = "none" /\ run[r].entry = "none"
          /\ conn[r].at = "unused" /\ conn[r].read = 0
      BY DEF StreamInit
    <3>2. Over("none").at = "none" /\ Shown(Over("none"), "none")
          /\ Len(Over("none").sent) = 0
      BY Overs
    <3> QED
      BY <3>1, <3>2 DEF RunFits, ReaderFits
  <2> QED
    BY <2>1, <2>2 DEF StreamInv
<1>2. StreamInv /\ [StreamNext]_streamVars => StreamInv'
  <2>1. StreamInv /\ UNCHANGED streamVars => StreamInv'
    BY DEF StreamInv, streamVars
  <2> QED
    BY <2>1, WorkflowSteps, EndpointSteps, ReaderSteps, HookSteps, OtherRequestStep,
       OtherHookSteps
    DEF StreamNext
<1> QED
  BY <1>1, <1>2, PTL DEF StreamSpec

(***************************************************************************)
(* A reader that is told a run has completed, or waits for a selection,    *)
(* has read every event the run's queue accepted, in order, and that event *)
(* is the last (generate_periodic_newsletter_stream): for any number of    *)
(* connections, events, losses and sizes of the queue.                     *)
(***************************************************************************)
THEOREM OutcomeIsLast == StreamSpec => []OutcomesComeLast
BY StreamInvariance, StreamShows, PTL

--------------------------------------------------------------------------------
ExtractionSpec == ExtractionInit /\ [][ExtractionNext]_extractionVars

(***************************************************************************)
(* The invariant.  Whoever writes the entry of a window that has ended     *)
(* writes the same chunks and the same parent, so the chunk documents are  *)
(* always some of the chunks of the window's messages, and as many chunks  *)
(* as the parent counts are all of them.  A file of downloaded events that *)
(* can be read was downloaded after the end of the window, and holds it.   *)
(***************************************************************************)
AllIndexes == {ChunkOf(m, l) : m \in Messages, l \in SUBSET Messages}

Extractor == [at : ExtractorSteps, window : Windows,
              seen : {NoEntry} \cup {ParentOf(l) : l \in SUBSET Messages},
              overlap : SUBSET Messages, list : SUBSET Messages,
              pending : SUBSET AllIndexes, broken : BOOLEAN]

\* Some of the chunks of list.
SomeChunks(documents, list) ==
  \A i \in DOMAIN documents : i \in Indexes(list) /\ documents[i] = Chunked(list)[i]

Holds(file, list) == file \subseteq Messages /\ list \subseteq file

EntryFitsWindow(w) ==
  /\ SomeChunks(chunk[w], InWindow(w))
  /\ parent[w] \in {NoEntry, ParentOf(InWindow(w))}
  /\ download[w] \in {NoEntry, CutShort} \/ Holds(download[w], InWindow(w))

\* t is what an extractor may be doing while the downloads are files.
ExtractorFits(t, files) ==
  /\ t.at \notin {"idle", "failed"} => HasEnded(t.window)
  /\ t.at = "assemble" => t.seen = ParentOf(InWindow(t.window))
  /\ t.at = "decrypt" => Holds(files[t.window], InWindow(t.window))
  /\ t.at \in {"delete", "insert", "flip", "done"} => t.list = InWindow(t.window)
  /\ t.at = "insert" => t.pending \subseteq Indexes(InWindow(t.window))

ExtractionInv ==
  /\ today \in Nat
  /\ parent \in [Windows -> {NoEntry} \cup {ParentOf(l) : l \in SUBSET Messages}]
  /\ DOMAIN chunk = Windows /\ chunk = [w \in Windows |-> chunk[w]]
  /\ DOMAIN download = Windows /\ download = [w \in Windows |-> download[w]]
  /\ extractor \in [Extractors -> Extractor]
  /\ \A w \in Windows : EntryFitsWindow(w)
  /\ \A p \in Extractors : ExtractorFits(extractor[p], download)

-----------------------------------------------------------------------------
(* Chunks. *)

\* As many chunks of a list as it has are the list.
LEMMA IndexesFinite ==
  ASSUME NEW list \in SUBSET Messages
  PROVE  IsFiniteSet(Indexes(list))
<1>1. IsFiniteSet(Messages)
  <2>1. PICK n \in Nat : Messages = 1..n
    BY ExtractionAssumption DEF Messages
  <2> QED
    BY <2>1, FS_Interval
<1>2. IsFiniteSet(list)
  BY <1>1, FS_Subset
<1> DEFINE f == [m \in list |-> ChunkOf(m, list)]
<1>3. f \in Surjection(list, Indexes(list))
  BY Zenon DEF Surjection, Indexes
<1> QED
  BY <1>2, <1>3, FS_Surjection

LEMMA IndexesPossible ==
  ASSUME NEW list \in SUBSET Messages
  PROVE  Indexes(list) \in SUBSET AllIndexes
BY DEF Indexes, AllIndexes

LEMMA WholeIsAll ==
  ASSUME NEW list \in SUBSET Messages, NEW documents, SomeChunks(documents, list),
         Whole(ParentOf(list), documents)
  PROVE  Content(documents) = list
<1>1. DOMAIN documents \in SUBSET Indexes(list)
  BY DEF SomeChunks
<1>2. Cardinality(DOMAIN documents) = Cardinality(Indexes(list))
  BY DEF Whole, ParentOf
<1>3. DOMAIN documents = Indexes(list)
  BY <1>1, <1>2, IndexesFinite, FS_Subset, Zenon
<1>4. \A i \in Indexes(list) : documents[i] = {m \in list : ChunkOf(m, list) = i}
  BY <1>3 DEF SomeChunks, Chunked
<1>5. Content(documents) \subseteq list
  BY <1>3, <1>4 DEF Content
<1>6. ASSUME NEW m \in list PROVE m \in Content(documents)
  <2>1. ChunkOf(m, list) \in Indexes(list)
    BY DEF Indexes
  <2>2. m \in documents[ChunkOf(m, list)]
    BY <2>1, <1>4
  <2> QED
    BY <2>1, <2>2, <1>3 DEF Content
<1> QED
  BY <1>5, <1>6

LEMMA SomeContent ==
  ASSUME NEW list \in SUBSET Messages, NEW documents, SomeChunks(documents, list)
  PROVE  Content(documents) \subseteq list
<1>1. \A i \in DOMAIN documents : documents[i] = {m \in list : ChunkOf(m, list) = i}
  BY DEF SomeChunks, Chunked
<1> QED
  BY <1>1 DEF Content

LEMMA NoChunks == ASSUME NEW list PROVE SomeChunks(<< >>, list)
BY DEF SomeChunks

\* A window that has ended has arrived.
LEMMA EndedArrived ==
  ASSUME today \in Nat, NEW w \in Windows, HasEnded(w)
  PROVE  Holds(Arrived, InWindow(w))
<1>1. ASSUME NEW m \in InWindow(w) PROVE m \in Arrived
  <2>1. /\ m \in Messages /\ SentOn[m] \in Nat /\ SentOn[m] \in w[1]..w[2]
        /\ w[1] \in Nat /\ w[2] \in Nat
    BY ExtractionAssumption DEF InWindow, Messages
  <2> QED
    BY <2>1 DEF Arrived, HasEnded
<1> QED
  BY <1>1 DEF Holds, Arrived

LEMMA InMessages == \A w : InWindow(w) \in SUBSET Messages
BY DEF InWindow

-----------------------------------------------------------------------------
(* Steps. *)

LEMMA NotFiles ==
  ASSUME NEW file, NEW list, Holds(file, list)
  PROVE  file \notin {NoEntry, CutShort}
<1>1. 0 \notin Messages
  <2>1. PICK n \in Nat : Messages = 1..n
    BY ExtractionAssumption DEF Messages
  <2> QED
    BY <2>1
<1>2. file \in SUBSET Messages
  BY DEF Holds
<1> QED
  BY <1>1, <1>2, ExtractionAssumption DEF CutShort, Messages

\* A step that replaces no file that can be read.
LEMMA StoreMoves ==
  ASSUME ExtractionInv, today' = today, extractor' \in [Extractors -> Extractor],
         parent' \in [Windows -> {NoEntry} \cup {ParentOf(l) : l \in SUBSET Messages}],
         DOMAIN chunk' = Windows, chunk' = [w \in Windows |-> chunk'[w]],
         DOMAIN download' = Windows, download' = [w \in Windows |-> download'[w]],
         \A w \in Windows : EntryFitsWindow(w)',
         \A w \in Windows :
           download[w] \in {NoEntry, CutShort} \/ download'[w] = download[w],
         \A q \in Extractors :
           extractor'[q] = extractor[q] \/ ExtractorFits(extractor'[q], download')
  PROVE  ExtractionInv'
<1>1. ASSUME NEW q \in Extractors PROVE ExtractorFits(extractor'[q], download')
  <2>1. CASE ExtractorFits(extractor'[q], download')
    BY <2>1
  <2>2. CASE extractor'[q] = extractor[q]
    <3>1. /\ ExtractorFits(extractor[q], download) /\ extractor[q].window \in Windows
      BY DEF ExtractionInv, Extractor
    <3>2. ASSUME Holds(download[extractor[q].window], InWindow(extractor[q].window))
          PROVE  download'[extractor[q].window] = download[extractor[q].window]
      BY <3>1, <3>2, NotFiles
    <3> QED
      BY <2>2, <3>1, <3>2 DEF ExtractorFits
  <2> QED
    BY <2>1, <2>2
<1>2. \A q \in Extractors : ExtractorFits(extractor[q], download)'
  BY <1>1 DEF ExtractorFits, HasEnded
<1>3. today' \in Nat
  BY DEF ExtractionInv
<1> QED
  BY <1>2, <1>3 DEF ExtractionInv

\* A step of one extractor that writes nothing.
LEMMA ExtractorMoves ==
  ASSUME ExtractionInv, NEW p \in Extractors, NEW t \in Extractor,
         extractor' = [extractor EXCEPT ![p] = t],
         today' = today, parent' = parent, chunk' = chunk, download' = download,
         ExtractorFits(t, download)
  PROVE  ExtractionInv'
<1>1. /\ extractor' \in [Extractors -> Extractor]
      /\ \A q \in Extractors :
           extractor'[q] = extractor[q] \/ ExtractorFits(extractor'[q], download')
  BY DEF ExtractionInv
<1>2. \A w \in Windows : EntryFitsWindow(w)'
  BY DEF ExtractionInv, EntryFitsWindow
<1>3. /\ parent' \in [Windows -> {NoEntry} \cup {ParentOf(l) : l \in SUBSET Messages}]
      /\ DOMAIN chunk' = Windows /\ chunk' = [w \in Windows |-> chunk'[w]]
      /\ DOMAIN download' = Windows /\ download' = [w \in Windows |-> download'[w]]
  BY DEF ExtractionInv
<1> QED
  BY <1>1, <1>2, <1>3, StoreMoves

LEMMA IdleTyped ==
  ASSUME Windows # {}
  PROVE  Idle \in Extractor /\ Idle.at = "idle"
<1>1. (CHOOSE w \in Windows : TRUE) \in Windows
  BY Zenon
<1> QED
  BY <1>1 DEF Idle, Extractor, ExtractorSteps

LEMMA ExtractorAt ==
  ASSUME ExtractionInv, NEW p \in Extractors
  PROVE  /\ extractor[p] \in Extractor /\ Window(p) = extractor[p].window
         /\ Window(p) \in Windows /\ EntryFitsWindow(Window(p))
         /\ ExtractorFits(extractor[p], download)
         /\ today \in Nat
BY DEF ExtractionInv, Extractor, Window

LEMMA BeginSteps ==
  ASSUME ExtractionInv, ~WhileOpen, NEW p \in Extractors, BeginExtraction(p)
  PROVE  ExtractionInv'
<1>1. PICK w \in Windows, force \in BOOLEAN :
        /\ HasEnded(w)
        /\ extractor' = [extractor EXCEPT ![p] =
             [Idle EXCEPT !.at = IF force THEN "download" ELSE "look", !.window = w]]
  BY DEF BeginExtraction
<1>2. PICK t : t = [Idle EXCEPT !.at = IF force THEN "download" ELSE "look", !.window = w]
  OBVIOUS
<1>3. t \in Extractor /\ t.at \in {"download", "look"} /\ t.window = w
  BY <1>2, IdleTyped DEF Extractor, ExtractorSteps
<1>4. ExtractorFits(t, download)
  BY <1>1, <1>3 DEF ExtractorFits
<1>5. /\ extractor' = [extractor EXCEPT ![p] = t]
      /\ today' = today /\ parent' = parent /\ chunk' = chunk /\ download' = download
  BY <1>1, <1>2 DEF BeginExtraction
<1> QED
  BY <1>3, <1>4, <1>5, ExtractorMoves

LEMMA LookUpSteps ==
  ASSUME ExtractionInv, NEW p \in Extractors, LookUp(p)
  PROVE  ExtractionInv'
<1>1. PICK t : t = [extractor[p] EXCEPT !.seen = parent[Window(p)],
                      !.at = IF parent[Window(p)] = NoEntry THEN "overlap" ELSE "assemble"]
  OBVIOUS
<1>2. extractor' = [extractor EXCEPT ![p] = t]
  BY <1>1, ExtractorAt DEF LookUp, Set, ExtractionInv, Extractor
<1>3. /\ t \in Extractor /\ t.window = Window(p) /\ t.seen = parent[Window(p)]
      /\ t.at = "overlap" \/ (t.at = "assemble" /\ parent[Window(p)] # NoEntry)
  BY <1>1, ExtractorAt DEF Extractor, ExtractorSteps, ExtractionInv
<1>4. HasEnded(Window(p))
  BY ExtractorAt DEF LookUp, At, ExtractorFits
<1>5. ExtractorFits(t, download)
  BY <1>3, <1>4, ExtractorAt DEF ExtractorFits, EntryFitsWindow
<1>6. today' = today /\ parent' = parent /\ chunk' = chunk /\ download' = download
  BY DEF LookUp
<1> QED
  BY <1>2, <1>3, <1>5, <1>6, ExtractorMoves

LEMMA AssembleSteps ==
  ASSUME ExtractionInv, NEW p \in Extractors, Assemble(p)
  PROVE  ExtractionInv'
<1> DEFINE hit == Whole(extractor[p].seen, chunk[Window(p)])
<1>1. PICK t : t = [extractor[p] EXCEPT !.seen = NoEntry,
                      !.list = IF hit THEN Content(chunk[Window(p)]) ELSE {},
                      !.at = IF hit THEN "done" ELSE "overlap"]
  OBVIOUS
<1>2. extractor' = [extractor EXCEPT ![p] = t]
  BY <1>1, ExtractorAt DEF Assemble, ExtractionInv, Extractor
<1>3. /\ HasEnded(Window(p)) /\ extractor[p].seen = ParentOf(InWindow(Window(p)))
      /\ SomeChunks(chunk[Window(p)], InWindow(Window(p)))
  BY ExtractorAt DEF Assemble, At, ExtractorFits, EntryFitsWindow
<1>4. hit => Content(chunk[Window(p)]) = InWindow(Window(p))
  BY <1>3, WholeIsAll, InMessages
<1> HIDE DEF hit
<1>5. /\ t \in Extractor /\ t.window = Window(p)
      /\ t.at = "overlap" \/ (t.at = "done" /\ t.list = InWindow(Window(p)))
  <2>1. CASE hit
    <3>1. t = [extractor[p] EXCEPT !.seen = NoEntry, !.list = InWindow(Window(p)),
                                   !.at = "done"]
      BY <1>1, <1>4, <2>1, Zenon
    <3>2. InWindow(Window(p)) \in SUBSET Messages
      BY InMessages
    <3> QED
      BY <3>1, <3>2, ExtractorAt DEF Extractor, ExtractorSteps
  <2>2. CASE ~hit
    BY <1>1, <2>2, ExtractorAt DEF Extractor, ExtractorSteps
  <2> QED
    BY <2>1, <2>2
<1>6. ExtractorFits(t, download)
  BY <1>3, <1>5 DEF ExtractorFits
<1>7. today' = today /\ parent' = parent /\ chunk' = chunk /\ download' = download
  BY DEF Assemble
<1> QED
  BY <1>2, <1>5, <1>6, <1>7, ExtractorMoves

LEMMA OverlapSteps ==
  ASSUME ExtractionInv, NEW p \in Extractors, UseOverlap(p)
  PROVE  ExtractionInv'
<1> DEFINE w == Window(p)
           covering == {v \in OverlappingEntries(w) : v[1] <= w[1] /\ w[2] <= v[2]}
<1>1. /\ w \in Windows /\ HasEnded(w)
      /\ today' = today /\ parent' = parent /\ chunk' = chunk /\ download' = download
  BY ExtractorAt DEF UseOverlap, At, ExtractorFits
<1>2. ASSUME NEW v \in OverlappingEntries(w) PROVE Content(chunk[v]) = InWindow(v)
  <2>1. v \in Windows /\ parent[v] # NoEntry /\ Whole(parent[v], chunk[v])
    BY <1>2 DEF OverlappingEntries
  <2>2. SomeChunks(chunk[v], InWindow(v)) /\ parent[v] = ParentOf(InWindow(v))
    BY <2>1 DEF ExtractionInv, EntryFitsWindow
  <2> QED
    BY <2>1, <2>2, WholeIsAll, InMessages
<1>3. ASSUME NEW v \in covering,
             Set(p, "list", Content(chunk[v]) \cap InWindow(w), "delete")
      PROVE  ExtractionInv'
  <2>1. /\ v \in Windows /\ v[1] \in Nat /\ v[2] \in Nat /\ w[1] \in Nat /\ w[2] \in Nat
        /\ v[1] <= w[1] /\ w[2] <= v[2]
    BY <1>1, ExtractionAssumption DEF OverlappingEntries
  <2>2. InWindow(w) \subseteq InWindow(v)
    <3>1. ASSUME NEW m \in InWindow(w) PROVE m \in InWindow(v)
      <4>1. m \in Messages /\ SentOn[m] \in Nat /\ SentOn[m] \in w[1]..w[2]
        BY ExtractionAssumption DEF InWindow, Messages
      <4> QED
        BY <2>1, <4>1 DEF InWindow
    <3> QED
      BY <3>1
  <2>3. Content(chunk[v]) \cap InWindow(w) = InWindow(w)
    BY <1>2, <1>3, <2>2
  <2>4. PICK t : t = [extractor[p] EXCEPT !.list = InWindow(w), !.at = "delete"]
    OBVIOUS
  <2>5. extractor' = [extractor EXCEPT ![p] = t]
    BY <1>3, <2>3, <2>4, ExtractorAt DEF Set, ExtractionInv, Extractor
  <2>6. /\ t \in Extractor /\ t.window = w /\ t.at = "delete" /\ t.list = InWindow(w)
    BY <2>4, ExtractorAt, InMessages DEF Extractor, ExtractorSteps
  <2>7. ExtractorFits(t, download)
    BY <1>1, <2>6 DEF ExtractorFits
  <2> QED
    BY <1>1, <2>5, <2>6, <2>7, ExtractorMoves
<1>4. ASSUME Set(p, "overlap", UNION {Content(chunk[v]) : v \in OverlappingEntries(w)},
                 "download")
      PROVE  ExtractionInv'
  <2>1. PICK all : all = UNION {Content(chunk[v]) : v \in OverlappingEntries(w)}
    OBVIOUS
  <2>2. all \in SUBSET Messages
    BY <2>1, <1>2, InMessages
  <2>3. PICK t : t = [extractor[p] EXCEPT !.overlap = all, !.at = "download"]
    OBVIOUS
  <2>4. extractor' = [extractor EXCEPT ![p] = t]
    BY <1>4, <2>1, <2>3, ExtractorAt DEF Set, ExtractionInv, Extractor
  <2>5. t \in Extractor /\ t.window = w /\ t.at = "download"
    BY <2>2, <2>3, ExtractorAt DEF Extractor, ExtractorSteps
  <2>6. ExtractorFits(t, download)
    BY <1>1, <2>5 DEF ExtractorFits
  <2> QED
    BY <1>1, <2>4, <2>5, <2>6, ExtractorMoves
<1>5. \/ \E v \in covering : Set(p, "list", Content(chunk[v]) \cap InWindow(w), "delete")
      \/ Set(p, "overlap", UNION {Content(chunk[v]) : v \in OverlappingEntries(w)},
             "download")
  BY DEF UseOverlap
<1> QED
  BY <1>3, <1>4, <1>5

LEMMA DownloadSteps ==
  ASSUME ExtractionInv, NEW p \in Extractors, Download(p)
  PROVE  ExtractionInv'
<1> DEFINE w == Window(p)
<1>1. /\ w \in Windows /\ HasEnded(w) /\ download[w] # CutShort
      /\ today' = today /\ parent' = parent /\ chunk' = chunk
      /\ download' = [download EXCEPT ![w] = IF @ = NoEntry THEN Arrived ELSE @]
  BY ExtractorAt DEF Download, At, ExtractorFits
<1>2. DOMAIN download = Windows /\ download = [v \in Windows |-> download[v]]
  BY DEF ExtractionInv
<1>3. Holds(download'[w], InWindow(w))
  <2>1. CASE download[w] = NoEntry
    BY <1>1, <1>2, <2>1, EndedArrived, ExtractorAt
  <2>2. CASE download[w] # NoEntry
    BY <1>1, <1>2, <2>2, ExtractorAt DEF EntryFitsWindow
  <2> QED
    BY <2>1, <2>2
<1>4. /\ DOMAIN download' = Windows /\ download' = [v \in Windows |-> download'[v]]
      /\ \A v \in Windows :
           download[v] \in {NoEntry, CutShort} \/ download'[v] = download[v]
      /\ \A v \in Windows : v # w => download'[v] = download[v]
  BY <1>1, <1>2
<1>5. \A v \in Windows : EntryFitsWindow(v)'
  <2>1. \A v \in Windows :
          download'[v] \in {NoEntry, CutShort} \/ Holds(download'[v], InWindow(v))
    BY <1>3, <1>4 DEF ExtractionInv, EntryFitsWindow
  <2> QED
    BY <1>1, <2>1 DEF ExtractionInv, EntryFitsWindow
<1>6. PICK t : t = [extractor[p] EXCEPT !.at = "decrypt"]
  OBVIOUS
<1>7. extractor' = [extractor EXCEPT ![p] = t]
  BY <1>6 DEF Download, Goes
<1>8. t \in Extractor /\ t.window = w /\ t.at = "decrypt"
  BY <1>6, ExtractorAt DEF Extractor, ExtractorSteps
<1>9. ExtractorFits(t, download')
  BY <1>1, <1>3, <1>8 DEF ExtractorFits
<1>10. /\ extractor' \in [Extractors -> Extractor]
       /\ \A q \in Extractors :
            extractor'[q] = extractor[q] \/ ExtractorFits(extractor'[q], download')
  BY <1>7, <1>8, <1>9 DEF ExtractionInv
<1>11. /\ parent' \in [Windows -> {NoEntry} \cup {ParentOf(l) : l \in SUBSET Messages}]
       /\ DOMAIN chunk' = Windows /\ chunk' = [v \in Windows |-> chunk'[v]]
  BY <1>1 DEF ExtractionInv
<1> QED
  BY <1>1, <1>4, <1>5, <1>10, <1>11, StoreMoves

LEMMA DecryptSteps ==
  ASSUME ExtractionInv, NEW p \in Extractors, Decrypt(p)
  PROVE  ExtractionInv'
<1>1. /\ HasEnded(Window(p)) /\ Holds(download[Window(p)], InWindow(Window(p)))
      /\ today' = today /\ parent' = parent /\ chunk' = chunk /\ download' = download
  BY ExtractorAt DEF Decrypt, At, ExtractorFits
<1>2. WithOverlap(p) = InWindow(Window(p))
  BY <1>1 DEF WithOverlap, Holds
<1>3. PICK t : t = [extractor[p] EXCEPT !.list = InWindow(Window(p)), !.overlap = {},
                                        !.at = "delete"]
  OBVIOUS
<1>4. extractor' = [extractor EXCEPT ![p] = t]
  BY <1>2, <1>3, Zenon DEF Decrypt
<1>5. InWindow(Window(p)) \in SUBSET Messages
  BY InMessages
<1>6. /\ t \in Extractor /\ t.window = Window(p) /\ t.at = "delete"
      /\ t.list = InWindow(Window(p))
  BY <1>3, <1>5, ExtractorAt DEF Extractor, ExtractorSteps
<1>7. ExtractorFits(t, download)
  BY <1>1, <1>6 DEF ExtractorFits
<1> QED
  BY <1>1, <1>4, <1>6, <1>7, ExtractorMoves

\* A failed call, a crash, a failed write, the end of the insertion.
LEMMA EndSteps ==
  ASSUME ExtractionInv, NEW p \in Extractors,
         ExtractionFails(p) \/ InsertEnds(p) \/ WriteFails(p)
  PROVE  ExtractionInv'
<1>1. today' = today /\ parent' = parent /\ chunk' = chunk /\ download' = download
  BY DEF ExtractionFails, InsertEnds, WriteFails
<1>2. CASE ExtractionFails(p)
  <2>1. PICK t : t = [Idle EXCEPT !.at = "failed"]
    OBVIOUS
  <2>2. extractor' = [extractor EXCEPT ![p] = t]
    BY <1>2, <2>1 DEF ExtractionFails
  <2>3. t \in Extractor /\ t.at = "failed"
    BY <2>1, ExtractorAt, IdleTyped DEF Extractor, ExtractorSteps
  <2> QED
    BY <1>1, <2>2, <2>3, ExtractorMoves DEF ExtractorFits
<1>3. CASE InsertEnds(p)
  <2>1. PICK t : t = [extractor[p] EXCEPT !.broken = FALSE,
                        !.at = IF extractor[p].broken THEN "done" ELSE "flip"]
    OBVIOUS
  <2>2. extractor' = [extractor EXCEPT ![p] = t]
    BY <1>3, <2>1, ExtractorAt DEF InsertEnds, Set, ExtractionInv, Extractor
  <2>3. /\ t \in Extractor /\ t.at \in {"done", "flip"} /\ t.window = extractor[p].window
        /\ t.list = extractor[p].list
    BY <2>1, ExtractorAt DEF Extractor, ExtractorSteps
  <2>4. extractor[p].at = "insert"
    BY <1>3 DEF InsertEnds, At
  <2>5. ExtractorFits(t, download)
    BY <2>3, <2>4, ExtractorAt DEF ExtractorFits
  <2> QED
    BY <1>1, <2>2, <2>3, <2>5, ExtractorMoves
<1>4. CASE WriteFails(p)
  <2>1. PICK t : t = [extractor[p] EXCEPT !.pending = {}, !.broken = FALSE, !.at = "done"]
    OBVIOUS
  <2>2. extractor' = [extractor EXCEPT ![p] = t]
    BY <1>4, <2>1 DEF WriteFails
  <2>3. /\ t \in Extractor /\ t.at = "done" /\ t.window = extractor[p].window
        /\ t.list = extractor[p].list
    BY <2>1, ExtractorAt DEF Extractor, ExtractorSteps
  <2>4. extractor[p].at \in {"delete", "insert", "flip"}
    BY <1>4 DEF WriteFails, At
  <2>5. ExtractorFits(t, download)
    BY <2>3, <2>4, ExtractorAt DEF ExtractorFits
  <2> QED
    BY <1>1, <2>2, <2>3, <2>5, ExtractorMoves
<1> QED
  BY <1>2, <1>3, <1>4

LEMMA DeleteSteps ==
  ASSUME ExtractionInv, NEW p \in Extractors, DeleteChunks(p)
  PROVE  ExtractionInv'
<1> DEFINE w == Window(p)
<1>1. /\ w \in Windows /\ HasEnded(w) /\ extractor[p].list = InWindow(w)
      /\ today' = today /\ parent' = parent /\ download' = download
      /\ chunk' = [chunk EXCEPT ![w] = << >>]
  BY ExtractorAt DEF DeleteChunks, At, ExtractorFits
<1>2. PICK t : t = [extractor[p] EXCEPT !.pending = Indexes(InWindow(w)), !.at = "insert"]
  OBVIOUS
<1>3. extractor' = [extractor EXCEPT ![p] = t]
  BY <1>1, <1>2, ExtractorAt DEF DeleteChunks, Set, ExtractionInv, Extractor
<1>4. Indexes(InWindow(w)) \in SUBSET AllIndexes
  BY InMessages, IndexesPossible
<1>5. /\ t \in Extractor /\ t.window = w /\ t.at = "insert" /\ t.list = InWindow(w)
      /\ t.pending = Indexes(InWindow(w))
  BY <1>1, <1>2, <1>4, ExtractorAt DEF Extractor, ExtractorSteps
<1>6. ExtractorFits(t, download)
  BY <1>1, <1>5 DEF ExtractorFits
<1>7. /\ extractor' \in [Extractors -> Extractor]
      /\ \A q \in Extractors :
           extractor'[q] = extractor[q] \/ ExtractorFits(extractor'[q], download')
  BY <1>1, <1>3, <1>5, <1>6 DEF ExtractionInv
<1>8. /\ DOMAIN chunk' = Windows /\ chunk' = [v \in Windows |-> chunk'[v]]
      /\ \A v \in Windows : chunk'[v] = chunk[v] \/ chunk'[v] = << >>
  BY <1>1 DEF ExtractionInv
<1>9. \A v \in Windows : EntryFitsWindow(v)'
  BY <1>1, <1>8, NoChunks DEF ExtractionInv, EntryFitsWindow
<1> QED
  BY <1>1, <1>7, <1>8, <1>9, StoreMoves DEF ExtractionInv

LEMMA InsertSteps ==
  ASSUME ExtractionInv, NEW p \in Extractors, InsertChunk(p)
  PROVE  ExtractionInv'
<1> DEFINE w == Window(p)
<1>1. PICK i \in extractor[p].pending :
        /\ chunk' = [chunk EXCEPT ![w] =
                       [j \in DOMAIN @ \cup {i} |->
                          IF j \in DOMAIN @ THEN @[j] ELSE Chunked(extractor[p].list)[i]]]
        /\ extractor' = [extractor EXCEPT
             ![p].pending = @ \ {i},
             ![p].broken = @ \/ i \in DOMAIN chunk[w]]
  BY DEF InsertChunk
<1>2. /\ w \in Windows /\ HasEnded(w) /\ extractor[p].list = InWindow(w)
      /\ extractor[p].pending \subseteq Indexes(InWindow(w))
      /\ today' = today /\ parent' = parent /\ download' = download
  BY ExtractorAt DEF InsertChunk, At, ExtractorFits
<1>3. PICK documents : documents =
        [j \in DOMAIN chunk[w] \cup {i} |->
           IF j \in DOMAIN chunk[w] THEN chunk[w][j] ELSE Chunked(InWindow(w))[i]]
  OBVIOUS
<1>4. chunk' = [chunk EXCEPT ![w] = documents]
  BY <1>1, <1>2, <1>3 DEF ExtractionInv
<1>5. SomeChunks(documents, InWindow(w))
  BY <1>2, <1>3, ExtractorAt DEF SomeChunks, EntryFitsWindow
<1>6. PICK t : t = [extractor[p] EXCEPT !.pending = @ \ {i},
                                        !.broken = @ \/ i \in DOMAIN chunk[w]]
  OBVIOUS
<1>7. extractor' = [extractor EXCEPT ![p] = t]
  BY <1>1, <1>6, ExtractorAt DEF ExtractionInv, Extractor
<1>8. (extractor[p].broken \/ i \in DOMAIN chunk[w]) \in BOOLEAN
  OBVIOUS
<1>9. /\ t \in Extractor /\ t.window = w /\ t.at = "insert" /\ t.list = InWindow(w)
      /\ t.pending \subseteq Indexes(InWindow(w))
  <2>1. extractor[p] \in Extractor /\ extractor[p].window = w /\ extractor[p].at = "insert"
    BY ExtractorAt DEF InsertChunk, At
  <2>2. t \in Extractor
    BY <1>6, <1>8, <2>1 DEF Extractor
  <2>3. /\ t.window = extractor[p].window /\ t.at = extractor[p].at
        /\ t.list = extractor[p].list /\ t.pending = extractor[p].pending \ {i}
    BY <1>6, <2>1 DEF Extractor
  <2> QED
    BY <1>2, <2>1, <2>2, <2>3
<1>10. ExtractorFits(t, download)
  BY <1>2, <1>9 DEF ExtractorFits
<1>11. /\ extractor' \in [Extractors -> Extractor]
       /\ \A q \in Extractors :
            extractor'[q] = extractor[q] \/ ExtractorFits(extractor'[q], download')
  BY <1>2, <1>7, <1>9, <1>10 DEF ExtractionInv
<1>12. /\ DOMAIN chunk' = Windows /\ chunk' = [v \in Windows |-> chunk'[v]]
       /\ \A v \in Windows : SomeChunks(chunk'[v], InWindow(v))
  BY <1>4, <1>5 DEF ExtractionInv, EntryFitsWindow
<1>13. \A v \in Windows : EntryFitsWindow(v)'
  BY <1>2, <1>12 DEF ExtractionInv, EntryFitsWindow
<1> QED
  BY <1>2, <1>11, <1>12, <1>13, StoreMoves DEF ExtractionInv

LEMMA FlipSteps ==
  ASSUME ExtractionInv, NEW p \in Extractors, FlipParent(p)
  PROVE  ExtractionInv'
<1> DEFINE w == Window(p)
<1>1. /\ w \in Windows /\ HasEnded(w) /\ extractor[p].list = InWindow(w)
      /\ today' = today /\ chunk' = chunk /\ download' = download
      /\ parent' = [parent EXCEPT ![w] = ParentOf(InWindow(w))]
  BY ExtractorAt DEF FlipParent, At, ExtractorFits
<1>2. PICK t : t = [extractor[p] EXCEPT !.at = "done"]
  OBVIOUS
<1>3. extractor' = [extractor EXCEPT ![p] = t]
  BY <1>2 DEF FlipParent, Goes
<1>4. t \in Extractor /\ t.window = w /\ t.at = "done" /\ t.list = InWindow(w)
  BY <1>1, <1>2, ExtractorAt DEF Extractor, ExtractorSteps
<1>5. ExtractorFits(t, download)
  BY <1>1, <1>4 DEF ExtractorFits
<1>6. /\ extractor' \in [Extractors -> Extractor]
      /\ \A q \in Extractors :
           extractor'[q] = extractor[q] \/ ExtractorFits(extractor'[q], download')
  BY <1>1, <1>3, <1>4, <1>5 DEF ExtractionInv
<1>7. ParentOf(InWindow(w)) \in {ParentOf(l) : l \in SUBSET Messages}
  BY InMessages, Zenon
<1>8. /\ parent' \in [Windows -> {NoEntry} \cup {ParentOf(l) : l \in SUBSET Messages}]
      /\ \A v \in Windows : parent'[v] \in {NoEntry, ParentOf(InWindow(v))}
  BY <1>1, <1>7 DEF ExtractionInv, EntryFitsWindow
<1>9. \A v \in Windows : EntryFitsWindow(v)'
  BY <1>1, <1>8 DEF ExtractionInv, EntryFitsWindow
<1> QED
  BY <1>1, <1>6, <1>8, <1>9, StoreMoves DEF ExtractionInv

LEMMA DiesSteps ==
  ASSUME ExtractionInv, NEW p \in Extractors, ExtractorDies(p)
  PROVE  ExtractionInv'
<1>1. /\ today' = today /\ parent' = parent /\ chunk' = chunk
      /\ extractor' = [extractor EXCEPT ![p] = Idle]
      /\ \/ /\ download[Window(p)] = NoEntry
            /\ download' = [download EXCEPT ![Window(p)] = CutShort]
         \/ download' = download
  BY DEF ExtractorDies
<1>2. /\ DOMAIN download' = Windows /\ download' = [v \in Windows |-> download'[v]]
      /\ \A v \in Windows : \/ download[v] = NoEntry /\ download'[v] = CutShort
                            \/ download'[v] = download[v]
  BY <1>1 DEF ExtractionInv
<1>3. /\ extractor' \in [Extractors -> Extractor]
      /\ \A q \in Extractors :
           extractor'[q] = extractor[q] \/ ExtractorFits(extractor'[q], download')
  BY <1>1, ExtractorAt, IdleTyped DEF ExtractionInv, ExtractorFits
<1>4. \A v \in Windows : EntryFitsWindow(v)'
  BY <1>1, <1>2 DEF ExtractionInv, EntryFitsWindow
<1> QED
  BY <1>1, <1>2, <1>3, <1>4, StoreMoves DEF ExtractionInv

LEMMA DropSteps ==
  ASSUME ExtractionInv, NEW w \in Windows, DropChunks(w) \/ DropParent(w)
  PROVE  ExtractionInv'
<1>1. today' = today /\ download' = download /\ extractor' = extractor
  BY DEF DropChunks, DropParent
<1>2. /\ DOMAIN chunk' = Windows /\ chunk' = [v \in Windows |-> chunk'[v]]
      /\ \A v \in Windows : chunk'[v] = chunk[v] \/ chunk'[v] = << >>
      /\ parent' \in [Windows -> {NoEntry} \cup {ParentOf(l) : l \in SUBSET Messages}]
      /\ \A v \in Windows : parent'[v] = parent[v] \/ parent'[v] = NoEntry
  BY DEF DropChunks, DropParent, ExtractionInv
<1>3. \A v \in Windows : EntryFitsWindow(v)'
  BY <1>1, <1>2, NoChunks DEF ExtractionInv, EntryFitsWindow
<1> QED
  BY <1>1, <1>2, <1>3, StoreMoves DEF ExtractionInv

LEMMA DaySteps ==
  ASSUME ExtractionInv, NextDay
  PROVE  ExtractionInv'
<1>1. /\ today \in Nat /\ today' = today + 1
      /\ UNCHANGED <<parent, chunk, download, extractor>>
  BY DEF NextDay, ExtractionInv
<1>2. ASSUME NEW p \in Extractors PROVE ExtractorFits(extractor[p], download)'
  <2>1. /\ ExtractorFits(extractor[p], download) /\ extractor[p].window \in Windows
    BY DEF ExtractionInv, Extractor
  <2>2. HasEnded(extractor[p].window) => HasEnded(extractor[p].window)'
    <3>1. extractor[p].window[2] \in Nat
      BY <2>1, ExtractionAssumption
    <3> QED
      BY <1>1, <3>1 DEF HasEnded
  <2> QED
    BY <1>1, <2>1, <2>2 DEF ExtractorFits, HasEnded
<1>3. \A w \in Windows : EntryFitsWindow(w)'
  BY <1>1 DEF ExtractionInv, EntryFitsWindow
<1> QED
  BY <1>1, <1>2, <1>3 DEF ExtractionInv

\* As long as only windows that have ended are extracted, an extraction that
\* succeeds returns exactly the messages of its window, for any extractors,
\* windows, messages, chunk size, failures and crashes.
THEOREM EndedComplete == ExtractionSpec => []EndedWindowsAreComplete
<1>1. ExtractionInv => EndedWindowsAreComplete
  BY DEF ExtractionInv, EndedWindowsAreComplete, ExtractorFits, At, Window
<1>2. CASE WhileOpen
  <2>1. EndedWindowsAreComplete
    BY <1>2 DEF EndedWindowsAreComplete
  <2> QED
    BY <2>1, PTL
<1>3. CASE ~WhileOpen
  <2>1. ExtractionInit => ExtractionInv
    <3> SUFFICES ASSUME ExtractionInit PROVE ExtractionInv
      OBVIOUS
    <3>1. \A w \in Windows : EntryFitsWindow(w)
      BY NoChunks DEF ExtractionInit, EntryFitsWindow
    <3>2. ASSUME NEW p \in Extractors
          PROVE  extractor[p] \in Extractor /\ ExtractorFits(extractor[p], download)
      <4>1. extractor[p] = Idle
        BY DEF ExtractionInit
      <4> QED
        BY <4>1, IdleTyped, ExtractionAssumption DEF ExtractorFits
    <3> QED
      BY <3>1, <3>2 DEF ExtractionInit, ExtractionInv
  <2>2. ExtractionInv /\ [ExtractionNext]_extractionVars => ExtractionInv'
    <3> SUFFICES ASSUME ExtractionInv, [ExtractionNext]_extractionVars PROVE ExtractionInv'
      OBVIOUS
    <3>1. CASE UNCHANGED extractionVars
      BY <3>1 DEF extractionVars, ExtractionInv, EntryFitsWindow, ExtractorFits, HasEnded
    <3>2. CASE NextDay
      BY <3>2, DaySteps
    <3>3. ASSUME NEW w \in Windows, DropChunks(w) \/ DropParent(w) PROVE ExtractionInv'
      BY <3>3, DropSteps
    <3>4. ASSUME NEW p \in Extractors,
                 \/ BeginExtraction(p) \/ LookUp(p) \/ Assemble(p) \/ UseOverlap(p)
                 \/ Download(p) \/ Decrypt(p) \/ ExtractionFails(p)
                 \/ DeleteChunks(p) \/ InsertChunk(p) \/ InsertEnds(p) \/ FlipParent(p)
                 \/ WriteFails(p) \/ ExtractorDies(p)
          PROVE  ExtractionInv'
      BY <1>3, <3>4, BeginSteps, LookUpSteps, AssembleSteps, OverlapSteps, DownloadSteps,
         DecryptSteps, EndSteps, DeleteSteps, InsertSteps, FlipSteps, DiesSteps
    <3> QED
      BY <3>1, <3>2, <3>3, <3>4 DEF ExtractionNext
  <2> QED
    BY <1>1, <2>1, <2>2, PTL DEF ExtractionSpec
<1> QED
  BY <1>2, <1>3

-----------------------------------------------------------------------------
TranslationSpec == TranslationInit /\ [][TranslationNext]_translationVars

(***************************************************************************)
(* The invariant.  An entry of the cache is a text of its message, and in  *)
(* English unless the provider has left a message out; so is what a        *)
(* translation has, whose texts are of the versions it read, except for    *)
(* the messages it still wants.                                            *)
(***************************************************************************)
Job == [at : {"idle", "lookup", "submit", "poll", "store", "done", "failed"},
        read : [Chat -> Versions], want : SUBSET Chat, polls : 0..(MaxPolls + 1),
        output : [Chat -> Texts] \cup {<< >>}, provider : Providers \cup {"none"}]

\* The texts are those of the versions read; of the messages not in want, in English.
OutputFits(output, read, want, missing) ==
  /\ output \in [Chat -> Texts]
  /\ \A m \in Chat : /\ output[m].message = m /\ output[m].version = read[m]
                     /\ m \in want \/ missing \/ output[m].english

JobFits(j, missing) ==
  /\ j.at \in {"poll", "submit"} =>
       \/ OutputFits(j.output, j.read, j.want, missing)
       \/ j.at = "submit" /\ j.output = << >> /\ j.want = Chat
  /\ j.at \in {"store", "done"} => OutputFits(j.output, j.read, {}, missing)

EntryFitsMessage(m, text, missing) ==
  text # Untranslated => text.message = m /\ (missing \/ text.english)

TranslationInv ==
  /\ content \in [Chat -> Versions]
  /\ cached \in [Chat -> Texts \cup {Untranslated}]
  /\ job \in [Translators -> Job]
  /\ misses \in BOOLEAN /\ started \in 0..MaxTranslations
  /\ \A m \in Chat : EntryFitsMessage(m, cached[m], misses = TRUE)
  /\ \A t \in Translators : JobFits(job[t], misses = TRUE)

LEMMA IdleJob ==
  /\ NoJob \in Job
  /\ \A missing : JobFits(NoJob, missing)
<1>1. MaxPolls \in Nat /\ MaxEdits \in Nat
  BY TranslationAssumption
<1>2. 1 \in Versions /\ 0 \in 0..(MaxPolls + 1)
  BY <1>1 DEF Versions
<1>3. NoJob \in Job
  BY <1>2, Zenon DEF NoJob, Job
<1> QED
  BY <1>3 DEF NoJob, JobFits

\* Division by the size of a request: a position is in the request of its quotient.
LEMMA InItsRequest ==
  ASSUME NEW n \in Nat, NEW p \in Nat, p < n
  PROVE  \E i \in 0..((n - 1) \div RequestSize) :
           i * RequestSize <= p /\ p < (i + 1) * RequestSize
<1> DEFINE q == p \div RequestSize
           k == (n - 1) \div RequestSize
<1>1. RequestSize \in Nat /\ RequestSize > 0
  BY TranslationAssumption
<1>2. q \in Nat /\ q * RequestSize <= p /\ p < (q + 1) * RequestSize
  BY <1>1
<1>3. k \in Nat /\ k * RequestSize <= n - 1 /\ n - 1 < (k + 1) * RequestSize
  BY <1>1
<1> HIDE DEF q, k
<1>4. q <= k
  <2> SUFFICES ASSUME q > k PROVE FALSE
    BY <1>2, <1>3
  <2>1. PICK d \in Nat : q = k + 1 + d
    <3>1. q - (k + 1) \in Nat /\ q = k + 1 + (q - (k + 1))
      BY <1>2, <1>3
    <3> QED
      BY <3>1
  <2>2. q * RequestSize = (k + 1) * RequestSize + d * RequestSize
    BY <1>1, <1>2, <1>3, <2>1
  <2>3. d * RequestSize >= 0
    BY <1>1, <2>1
  <2>4. q * RequestSize \in Nat /\ (k + 1) * RequestSize \in Nat /\ d * RequestSize \in Nat
    BY <1>1, <1>2, <1>3, <2>1
  <2> QED
    BY <1>2, <1>3, <2>2, <2>3, <2>4
<1>5. q \in 0..k
  BY <1>2, <1>3, <1>4
<1> QED
  BY <1>2, <1>5 DEF k

LEMMA EachIsRequested ==
  ASSUME TranslationInv, NEW t \in Translators, NEW m \in job[t].want
  PROVE  \E i \in BatchRequests(t) : m \in InRequest(t, i)
<1>1. job[t].want \subseteq Chat /\ Chat \subseteq Nat /\ IsFiniteSet(Chat)
  <2>1. ChatLength \in Nat
    BY TranslationAssumption
  <2>2. IsFiniteSet(1..ChatLength)
    BY <2>1, FS_Interval
  <2>3. job[t] \in Job
    BY DEF TranslationInv
  <2> QED
    BY <2>2, <2>3 DEF Job, Chat
<1>2. IsFiniteSet(job[t].want) /\ Cardinality(job[t].want) \in Nat
  BY <1>1, FS_Subset, FS_CardinalityType, Zenon
<1> DEFINE before == {k \in job[t].want : k < m}
<1>3. before \subseteq job[t].want /\ before # job[t].want
  <2>1. m \in Nat /\ ~(m < m)
    BY <1>1
  <2> QED
    BY <2>1
<1>4. Cardinality(before) \in Nat /\ Cardinality(before) < Cardinality(job[t].want)
  <2>1. IsFiniteSet(before) /\ Cardinality(before) <= Cardinality(job[t].want)
    BY <1>2, <1>3, FS_Subset, Zenon
  <2>2. Cardinality(before) \in Nat
    BY <2>1, FS_CardinalityType, Zenon
  <2>3. Cardinality(before) # Cardinality(job[t].want)
    <3> HIDE DEF before
    <3> QED
      BY <1>2, <1>3, FS_Subset
  <2> HIDE DEF before
  <2> QED
    BY <1>2, <2>1, <2>2, <2>3
<1> HIDE DEF before
<1>5. PICK i \in 0..((Cardinality(job[t].want) - 1) \div RequestSize) :
        i * RequestSize <= Cardinality(before)
        /\ Cardinality(before) < (i + 1) * RequestSize
  BY <1>2, <1>4, InItsRequest
<1>6. Position(t, m) = Cardinality(before)
  BY Zenon DEF Position, before
<1> QED
  BY <1>5, <1>6 DEF BatchRequests, InRequest

\* A step that changes one translation and nothing else.
LEMMA OneJobMoves ==
  ASSUME TranslationInv, NEW t \in Translators, NEW j \in Job,
         job' = [job EXCEPT ![t] = j], JobFits(j, misses = TRUE),
         UNCHANGED <<content, cached, misses>>, started' \in 0..MaxTranslations
  PROVE  TranslationInv'
<1>1. job' \in [Translators -> Job]
  BY DEF TranslationInv
<1>2. ASSUME NEW u \in Translators PROVE JobFits(job'[u], misses' = TRUE)
  BY DEF TranslationInv
<1>3. \A m \in Chat : EntryFitsMessage(m, cached'[m], misses' = TRUE)
  BY DEF TranslationInv
<1> QED
  BY <1>1, <1>2, <1>3 DEF TranslationInv

\* What a translation that is under way may become.
JobMoved(j, at, want, polls, output, provider) ==
  [j EXCEPT !.at = at, !.want = want, !.polls = polls, !.output = output,
            !.provider = provider]

LEMMA JobMovedIs ==
  ASSUME NEW j \in Job,
         NEW at \in {"idle", "lookup", "submit", "poll", "store", "done", "failed"},
         NEW want \in SUBSET Chat, NEW polls \in 0..(MaxPolls + 1),
         NEW output \in [Chat -> Texts] \cup {<< >>},
         NEW provider \in Providers \cup {"none"},
         NEW x, x = JobMoved(j, at, want, polls, output, provider)
  PROVE  /\ x \in Job /\ x.at = at /\ x.want = want /\ x.output = output
         /\ x.read = j.read
BY Zenon DEF JobMoved, Job

\* More may be missing.
LEMMA MissesGrow ==
  ASSUME NEW j, JobFits(j, FALSE)
  PROVE  JobFits(j, TRUE)
BY DEF JobFits, OutputFits

LEMMA UntranslatedTexts ==
  ASSUME TranslationInv, NEW t \in Translators, NEW hits \in SUBSET Chat,
         NEW output, NEW missing,
         output = [m \in Chat |-> IF m \in hits THEN cached[m] ELSE Text(t, m, FALSE)],
         \A m \in hits : Hit(t, m), misses = TRUE => missing
  PROVE  OutputFits(output, job[t].read, Chat \ hits, missing)
<1>1. ASSUME NEW m \in Chat, m \in hits
      PROVE  /\ cached[m] \in Texts /\ cached[m].message = m
             /\ cached[m].version = job[t].read[m]
             /\ misses = TRUE \/ cached[m].english
  BY <1>1 DEF TranslationInv, EntryFitsMessage, Hit, CachedTranslations
<1>2. ASSUME NEW m \in Chat
      PROVE  /\ Text(t, m, FALSE) \in Texts /\ Text(t, m, FALSE).message = m
             /\ Text(t, m, FALSE).version = job[t].read[m]
  BY DEF TranslationInv, Job, Text, Texts
<1> HIDE DEF Text
<1>3. ASSUME NEW m \in Chat
      PROVE  /\ output[m] \in Texts /\ output[m].message = m
             /\ output[m].version = job[t].read[m]
             /\ m \in Chat \ hits \/ missing \/ output[m].english
  BY <1>1, <1>2
<1> QED
  BY <1>3 DEF OutputFits

LEMMA LookupFits ==
  ASSUME TranslationInv, NEW t \in Translators, Lookup(t)
  PROVE  TranslationInv'
<1>1. PICK hits \in {{m \in Chat : Hit(t, m)}, {}} :
        job' = [job EXCEPT
          ![t].want = Chat \ hits,
          ![t].output = [m \in Chat |-> IF m \in hits THEN cached[m]
                                          ELSE Text(t, m, FALSE)],
          ![t].at = IF hits = Chat THEN "done" ELSE "submit"]
  BY DEF Lookup
<1>2. hits \in SUBSET Chat /\ \A m \in hits : Hit(t, m)
  OBVIOUS
<1>3. PICK output : output = [m \in Chat |-> IF m \in hits THEN cached[m]
                                               ELSE Text(t, m, FALSE)]
  OBVIOUS
<1>4. PICK at : at = IF hits = Chat THEN "done" ELSE "submit"
  OBVIOUS
<1>5. job[t] \in Job
  BY DEF TranslationInv
<1>6. OutputFits(output, job[t].read, Chat \ hits, misses = TRUE)
  BY <1>2, <1>3, UntranslatedTexts
<1> DEFINE x == JobMoved(job[t], at, Chat \ hits, job[t].polls, output, job[t].provider)
<1>7. job' = [job EXCEPT ![t] = x]
  BY <1>1, <1>3, <1>4, <1>5 DEF TranslationInv, Job, JobMoved
<1>8. /\ x \in Job /\ x.at = at /\ x.want = Chat \ hits /\ x.output = output
      /\ x.read = job[t].read
  <2>1. output \in [Chat -> Texts] \cup {<< >>}
    BY <1>6 DEF OutputFits
  <2>2. job[t].polls \in 0..(MaxPolls + 1) /\ job[t].provider \in Providers \cup {"none"}
    BY <1>5 DEF Job
  <2>3. at \in {"done", "submit"}
    BY <1>4
  <2> QED
    BY <1>5, <2>1, <2>2, <2>3, JobMovedIs
<1> HIDE DEF x
<1>9. JobFits(x, misses = TRUE)
  <2>1. CASE hits = Chat
    <3>1. at = "done" /\ Chat \ hits = {}
      BY <1>4, <2>1
    <3> QED
      BY <1>6, <1>8, <3>1 DEF JobFits
  <2>2. CASE hits # Chat
    <3>1. at = "submit"
      BY <1>4, <2>2
    <3> QED
      BY <1>6, <1>8, <3>1 DEF JobFits
  <2> QED
    BY <2>1, <2>2
<1> QED
  BY <1>7, <1>8, <1>9, OneJobMoves DEF Lookup, TranslationInv

LEMMA SubmitFits ==
  ASSUME TranslationInv, NEW t \in Translators, NEW provider, Submit(t, provider)
  PROVE  TranslationInv'
<1>1. PICK output :
        output = IF job[t].output = << >> THEN [m \in Chat |-> Text(t, m, FALSE)]
                             ELSE job[t].output
  OBVIOUS
<1>2. job[t] \in Job /\ JobFits(job[t], misses = TRUE) /\ job[t].at = "submit"
      /\ provider \in Providers
  BY DEF TranslationInv, Submit, JobAt
<1>3. OutputFits(output, job[t].read, job[t].want, misses = TRUE)
  <2>1. CASE job[t].output = << >> /\ job[t].want = Chat
    <3>1. output = [m \in Chat |-> IF m \in {} THEN cached[m] ELSE Text(t, m, FALSE)]
      BY <1>1, <2>1
    <3>2. Chat \ {} = job[t].want
      BY <2>1
    <3> QED
      BY <3>1, <3>2, UntranslatedTexts, Zenon
  <2>2. CASE OutputFits(job[t].output, job[t].read, job[t].want, misses = TRUE)
    <3>1. CASE job[t].output # << >>
      BY <1>1, <2>2, <3>1
    <3>2. CASE job[t].output = << >>
      <4>1. Chat = {}
        BY <2>2, <3>2 DEF OutputFits
      <4>2. output \in [Chat -> Texts]
        BY <1>1, <3>2, <4>1
      <4> QED
        BY <4>1, <4>2 DEF OutputFits
    <3> QED
      BY <3>1, <3>2
  <2> QED
    BY <1>2, <2>1, <2>2 DEF JobFits
<1> DEFINE x == JobMoved(job[t], "poll", job[t].want, job[t].polls, output, provider)
<1>4. job' = [job EXCEPT ![t] = x]
  BY <1>1, <1>2 DEF TranslationInv, Job, JobMoved, Submit
<1>5. /\ x \in Job /\ x.at = "poll" /\ x.want = job[t].want /\ x.output = output
      /\ x.read = job[t].read
  <2>1. output \in [Chat -> Texts] \cup {<< >>}
    BY <1>3 DEF OutputFits
  <2>2. job[t].polls \in 0..(MaxPolls + 1) /\ job[t].want \in SUBSET Chat
    BY <1>2 DEF Job
  <2> QED
    BY <1>2, <2>1, <2>2, JobMovedIs
<1> HIDE DEF x
<1>6. JobFits(x, misses = TRUE)
  BY <1>3, <1>5 DEF JobFits
<1> QED
  BY <1>4, <1>5, <1>6, OneJobMoves DEF Submit, TranslationInv

LEMMA CompleteFits ==
  ASSUME TranslationInv, NEW t \in Translators, Complete(t)
  PROVE  TranslationInv'
<1>1. PICK result \in [BatchRequests(t) -> BatchResults(t) \ {"null"}],
           named \in SUBSET job[t].want :
        LET good == {i \in BatchRequests(t) : result[i] = "json"}
            translated == UNION {InRequest(t, i) \cap named : i \in good} IN
        /\ job' = [job EXCEPT
             ![t].output = [m \in Chat |-> IF m \in translated THEN Text(t, m, TRUE)
                                           ELSE @[m]],
             ![t].polls = 0, ![t].provider = "none",
             ![t].at = "store"]
        /\ misses' = (misses \/ good # BatchRequests(t) \/ named # job[t].want)
  BY DEF Complete
<1>2. PICK good : good = {i \in BatchRequests(t) : result[i] = "json"}
  OBVIOUS
<1>3. PICK translated : translated = UNION {InRequest(t, i) \cap named : i \in good}
  OBVIOUS
<1>4. PICK output : output = [m \in Chat |-> IF m \in translated THEN Text(t, m, TRUE)
                                             ELSE job[t].output[m]]
  OBVIOUS
<1>5. /\ job' = [job EXCEPT ![t].output = output, ![t].polls = 0, ![t].provider = "none",
                            ![t].at = "store"]
      /\ misses' = (misses \/ good # BatchRequests(t) \/ named # job[t].want)
      /\ UNCHANGED <<content, cached, started>>
  BY <1>1, <1>2, <1>3, <1>4 DEF Complete
<1>6. /\ job[t] \in Job
      /\ OutputFits(job[t].output, job[t].read, job[t].want, misses = TRUE)
      /\ misses \in BOOLEAN /\ misses' \in BOOLEAN
      /\ misses = TRUE => misses' = TRUE
  <2>1. job[t] \in Job /\ JobFits(job[t], misses = TRUE) /\ job[t].at = "poll"
    BY DEF TranslationInv, Complete, JobAt
  <2>2. misses \in BOOLEAN
    BY DEF TranslationInv
  <2>3. misses' \in BOOLEAN /\ (misses = TRUE => misses' = TRUE)
    BY <1>5, <2>2
  <2> QED
    BY <2>1, <2>2, <2>3 DEF JobFits
<1>7. ASSUME misses' # TRUE, NEW m \in job[t].want PROVE m \in translated
  <2>1. good = BatchRequests(t) /\ named = job[t].want
    BY <1>5, <1>7, Zenon
  <2>2. PICK i \in BatchRequests(t) : m \in InRequest(t, i)
    BY <1>7, EachIsRequested
  <2>3. m \in InRequest(t, i) \cap named /\ i \in good
    BY <1>7, <2>1, <2>2
  <2> QED
    BY <1>3, <2>3
<1>8. OutputFits(output, job[t].read, {}, misses' = TRUE)
  <2>1. ASSUME NEW m \in Chat
        PROVE  /\ Text(t, m, TRUE) \in Texts /\ Text(t, m, TRUE).message = m
               /\ Text(t, m, TRUE).version = job[t].read[m] /\ Text(t, m, TRUE).english
    BY <1>6 DEF Job, Text, Texts
  <2> HIDE DEF Text
  <2>2. ASSUME NEW m \in Chat
        PROVE  /\ output[m] \in Texts /\ output[m].message = m
               /\ output[m].version = job[t].read[m]
               /\ misses' = TRUE \/ output[m].english
    <3>1. CASE m \in translated
      BY <1>4, <2>1, <3>1
    <3>2. CASE m \notin translated
      <4>1. output[m] = job[t].output[m]
        BY <1>4, <3>2
      <4>2. misses' = TRUE \/ m \notin job[t].want
        BY <1>7, <3>2
      <4>3. /\ job[t].output[m] \in Texts /\ job[t].output[m].message = m
            /\ job[t].output[m].version = job[t].read[m]
            /\ m \in job[t].want \/ misses = TRUE \/ job[t].output[m].english
        BY <1>6 DEF OutputFits
      <4>4. misses' = TRUE \/ job[t].output[m].english
        BY <1>6, <4>2, <4>3, Zenon
      <4> QED
        BY <4>1, <4>3, <4>4, Zenon
    <3> QED
      BY <3>1, <3>2
  <2> QED
    BY <1>4, <2>2 DEF OutputFits
<1> DEFINE x == JobMoved(job[t], "store", job[t].want, 0, output, "none")
<1>9. job' = [job EXCEPT ![t] = x]
  BY <1>5, <1>6 DEF TranslationInv, Job, JobMoved
<1>10. /\ x \in Job /\ x.at = "store" /\ x.output = output /\ x.read = job[t].read
  <2>1. output \in [Chat -> Texts] \cup {<< >>}
    BY <1>8 DEF OutputFits
  <2>2. 0 \in 0..(MaxPolls + 1) /\ job[t].want \in SUBSET Chat
    BY <1>6, TranslationAssumption DEF Job
  <2> QED
    BY <1>6, <2>1, <2>2, JobMovedIs
<1> HIDE DEF x
<1>11. JobFits(x, misses' = TRUE)
  BY <1>8, <1>10 DEF JobFits
<1>12. job' \in [Translators -> Job]
  BY <1>9, <1>10 DEF TranslationInv
<1>13. ASSUME NEW u \in Translators PROVE JobFits(job'[u], misses' = TRUE)
  <2>1. CASE u = t
    BY <1>9, <1>11, <2>1 DEF TranslationInv
  <2>2. CASE u # t
    <3>1. job'[u] = job[u] /\ JobFits(job[u], misses = TRUE)
      BY <1>9, <2>2 DEF TranslationInv
    <3> QED
      <4>1. CASE misses = TRUE \/ misses' # TRUE
        <5>1. (misses = TRUE) = (misses' = TRUE)
          BY <1>6, <4>1
        <5> QED
          BY <3>1, <5>1
      <4>2. CASE misses # TRUE /\ misses' = TRUE
        <5>1. (misses = TRUE) = FALSE /\ (misses' = TRUE) = TRUE
          BY <4>2
        <5> QED
          BY <3>1, <5>1, MissesGrow
      <4> QED
        BY <4>1, <4>2
  <2> QED
    BY <2>1, <2>2
<1>14. \A m \in Chat : EntryFitsMessage(m, cached'[m], misses' = TRUE)
  BY <1>5, <1>6, Zenon DEF TranslationInv, EntryFitsMessage
<1> QED
  BY <1>5, <1>6, <1>12, <1>13, <1>14 DEF TranslationInv

LEMMA StoreFits ==
  ASSUME TranslationInv, NEW t \in Translators, StoreTranslations(t)
  PROVE  TranslationInv'
<1>1. PICK stored \in {job[t].want, {}} :
        cached' = Upserted([m \in stored |-> job[t].output[m]])
  BY DEF StoreTranslations
<1>2. /\ job[t] \in Job /\ OutputFits(job[t].output, job[t].read, {}, misses = TRUE)
      /\ stored \subseteq Chat
      /\ job' = [job EXCEPT ![t].at = "done", ![t].want = {}]
      /\ UNCHANGED <<content, misses, started>>
  <2>1. job[t] \in Job /\ JobFits(job[t], misses = TRUE) /\ job[t].at = "store"
    BY DEF TranslationInv, StoreTranslations, JobAt
  <2>2. job[t].want \subseteq Chat
    BY <2>1 DEF Job
  <2> QED
    BY <2>1, <2>2 DEF JobFits, StoreTranslations
<1>3. \A m \in Chat : cached'[m] = IF m \in stored THEN job[t].output[m] ELSE cached[m]
  BY <1>1 DEF Upserted
<1>4. DOMAIN cached' = Chat /\ cached' = [m \in Chat |-> cached'[m]]
  BY <1>1 DEF Upserted
<1>5. ASSUME NEW m \in Chat
      PROVE  /\ cached'[m] \in Texts \cup {Untranslated}
             /\ EntryFitsMessage(m, cached'[m], misses = TRUE)
  <2>1. CASE m \in stored
    BY <1>2, <1>3, <2>1 DEF OutputFits, EntryFitsMessage
  <2>2. CASE m \notin stored
    BY <1>3, <2>2 DEF TranslationInv
  <2> QED
    BY <2>1, <2>2
<1>6. cached' \in [Chat -> Texts \cup {Untranslated}]
  BY <1>4, <1>5
<1> DEFINE x == JobMoved(job[t], "done", {}, job[t].polls, job[t].output, job[t].provider)
<1>7. job' = [job EXCEPT ![t] = x]
  BY <1>2 DEF TranslationInv, Job, JobMoved
<1>8. /\ x \in Job /\ x.at = "done" /\ x.output = job[t].output /\ x.read = job[t].read
  <2>1. /\ job[t].polls \in 0..(MaxPolls + 1) /\ job[t].provider \in Providers \cup {"none"}
        /\ job[t].output \in [Chat -> Texts] \cup {<< >>}
    BY <1>2 DEF Job
  <2> QED
    BY <1>2, <2>1, JobMovedIs
<1> HIDE DEF x
<1>9. JobFits(x, misses = TRUE)
  BY <1>2, <1>8 DEF JobFits
<1>10. /\ job' \in [Translators -> Job]
       /\ \A u \in Translators : JobFits(job'[u], misses = TRUE)
  BY <1>7, <1>8, <1>9 DEF TranslationInv
<1> QED
  BY <1>2, <1>5, <1>6, <1>10 DEF TranslationInv

LEMMA PollFits ==
  ASSUME TranslationInv, NEW t \in Translators, PollAgain(t)
  PROVE  TranslationInv'
<1>1. /\ job[t] \in Job /\ JobFits(job[t], misses = TRUE) /\ job[t].at = "poll"
      /\ job[t].polls \in 0..(MaxPolls + 1) /\ ~(job[t].polls > MaxPolls)
  BY DEF TranslationInv, PollAgain, JobAt, OverTime, Job
<1>2. job[t].polls + 1 \in 0..(MaxPolls + 1)
  BY <1>1, TranslationAssumption
<1> DEFINE x == JobMoved(job[t], job[t].at, job[t].want, job[t].polls + 1, job[t].output,
                      job[t].provider)
<1>3. job' = [job EXCEPT ![t] = x]
  BY <1>1 DEF TranslationInv, Job, JobMoved, PollAgain
<1>4. /\ x \in Job /\ x.at = job[t].at /\ x.want = job[t].want
      /\ x.output = job[t].output /\ x.read = job[t].read
  <2>1. /\ job[t].want \in SUBSET Chat /\ job[t].provider \in Providers \cup {"none"}
        /\ job[t].output \in [Chat -> Texts] \cup {<< >>}
        /\ job[t].at \in {"idle", "lookup", "submit", "poll", "store", "done", "failed"}
    BY <1>1 DEF Job
  <2> QED
    BY <1>1, <1>2, <2>1, JobMovedIs
<1> HIDE DEF x
<1>5. JobFits(x, misses = TRUE)
  BY <1>1, <1>4 DEF JobFits
<1> QED
  BY <1>3, <1>4, <1>5, OneJobMoves DEF PollAgain, TranslationInv

LEMMA StartFits ==
  ASSUME TranslationInv, NEW t \in Translators, StartTranslation(t)
  PROVE  TranslationInv'
<1>1. PICK force \in BOOLEAN :
        job' = [job EXCEPT ![t] =
                  [NoJob EXCEPT !.at = IF force THEN "submit" ELSE "lookup",
                                !.want = IF force THEN Chat ELSE {},
                                !.read = content]]
  BY DEF StartTranslation
<1>2. PICK x : x = [NoJob EXCEPT !.at = IF force THEN "submit" ELSE "lookup",
                                 !.want = IF force THEN Chat ELSE {},
                                 !.read = content]
  OBVIOUS
<1>3. /\ x.at = (IF force THEN "submit" ELSE "lookup")
      /\ x.want = (IF force THEN Chat ELSE {}) /\ x.output = << >>
  BY <1>2, Zenon DEF NoJob
<1>4. x \in Job
  <2>1. content \in [Chat -> Versions] /\ 0 \in 0..(MaxPolls + 1)
    BY TranslationAssumption DEF TranslationInv
  <2>2. x = [at |-> IF force THEN "submit" ELSE "lookup", read |-> content,
             want |-> IF force THEN Chat ELSE {}, polls |-> 0, output |-> << >>,
             provider |-> "none"]
    BY <1>2 DEF NoJob
  <2>3. (IF force THEN "submit" ELSE "lookup") \in {"submit", "lookup"}
        /\ (IF force THEN Chat ELSE {}) \in SUBSET Chat
    OBVIOUS
  <2> QED
    BY <2>1, <2>2, <2>3 DEF Job
<1>5. JobFits(x, misses = TRUE)
  BY <1>3 DEF JobFits
<1>6. started' \in 0..MaxTranslations /\ UNCHANGED <<content, cached, misses>>
  BY TranslationAssumption DEF StartTranslation, TranslationInv
<1> QED
  BY <1>1, <1>2, <1>4, <1>5, <1>6, OneJobMoves

LEMMA TranslationInvariance == TranslationSpec => []TranslationInv
<1>1. TranslationInit => TranslationInv
  <2> SUFFICES ASSUME TranslationInit PROVE TranslationInv
    OBVIOUS
  <2>1. 1 \in Versions /\ 0 \in 0..MaxTranslations
    BY TranslationAssumption DEF Versions
  <2> QED
    BY <2>1, IdleJob DEF TranslationInit, TranslationInv, EntryFitsMessage
<1>2. TranslationInv /\ [TranslationNext]_translationVars => TranslationInv'
  <2> SUFFICES ASSUME TranslationInv, [TranslationNext]_translationVars
               PROVE  TranslationInv'
    OBVIOUS
  <2>1. CASE UNCHANGED translationVars
    BY <2>1 DEF translationVars, TranslationInv
  <2>2. ASSUME NEW m \in Chat, Edit(m) PROVE TranslationInv'
    <3>1. content[m] + 1 \in Versions
      BY <2>2, TranslationAssumption DEF Edit, TranslationInv, Versions
    <3> QED
      BY <2>2, <3>1 DEF Edit, TranslationInv
  <2>3. CASE Forget
    <3>1. PICK m \in Chat : cached' = [cached EXCEPT ![m] = Untranslated]
      BY <2>3 DEF Forget
    <3> QED
      BY <2>3, <3>1 DEF Forget, TranslationInv, EntryFitsMessage
  <2>4. ASSUME NEW t \in Translators, BatchFails(t) \/ TimeOut(t) PROVE TranslationInv'
    <3>1. PICK x : x = [NoJob EXCEPT !.at = "failed"]
      OBVIOUS
    <3>2. job' = [job EXCEPT ![t] = x] /\ UNCHANGED <<content, cached, misses, started>>
      BY <2>4, <3>1 DEF BatchFails, TimeOut
    <3>3. x \in Job /\ x.at = "failed"
      BY <3>1, IdleJob DEF Job
    <3>4. JobFits(x, misses = TRUE)
      BY <3>3 DEF JobFits
    <3> QED
      BY <3>2, <3>3, <3>4, OneJobMoves DEF TranslationInv
  <2>5. ASSUME NEW t \in Translators,
               SubmitToOpenAI(t) \/ SubmitToAnthropic(t) \/ SubmitToGemini(t)
        PROVE  TranslationInv'
    BY <2>5, SubmitFits DEF SubmitToOpenAI, SubmitToAnthropic, SubmitToGemini
  <2> QED
    BY <2>1, <2>2, <2>3, <2>4, <2>5, StartFits, LookupFits, PollFits, CompleteFits,
       StoreFits
       DEF TranslationNext
<1> QED
  BY <1>1, <1>2, PTL DEF TranslationSpec

(***************************************************************************)
(* Whatever is edited meanwhile and however translations overlap, the      *)
(* texts of a finished translation are of the versions it read, all of     *)
(* them in English if the provider has left nothing out.                   *)
(***************************************************************************)
THEOREM FinishedIsCurrent == TranslationSpec => []TranslationsAreCurrent
<1>1. TranslationInv => TranslationsAreCurrent
  BY DEF TranslationInv, JobFits, OutputFits, TranslationsAreCurrent, JobAt
<1> QED
  BY <1>1, TranslationInvariance, PTL

-----------------------------------------------------------------------------
DecryptionSpec == DecryptionInit /\ [][DecryptionNext]_decryptionVars

(***************************************************************************)
(* The invariant, for extractions that do not overlap.  A file that is     *)
(* whole reads what was ever read with the backup's keys, and nothing      *)
(* earlier than the backup has it; what an extraction holds before it has  *)
(* merged is no later than the file where it has a key at all; merged, its *)
(* keys are as good as the file.                                           *)
(***************************************************************************)
DecryptorSteps == {"idle", "fetch", "merge", "open", "write", "decrypt", "done"}
Decryptor == [at : DecryptorSteps, olm : Keyring, keys : Keyring, export : Keyring,
              synced : BOOLEAN, plain : SUBSET Encrypted]

\* ring reads every message of read.
ReadsAll(ring, read) == \A m \in read : Reads(ring, m)

\* ring reads no session from before the backup does.
NotBefore(ring, backed) == \A s \in MegolmSessions : OpenedKeys(backed)[s] <= ring[s]

DecryptorFits(d, file, backed, read) ==
  /\ d.at \in {"merge", "open", "write"} => NotBefore(d.keys, backed)
  /\ d.at = "merge" /\ file # Torn =>
       \A s \in MegolmSessions : d.keys[s] = Never \/ d.keys[s] <= file[s]
  /\ d.at \in {"open", "write"} => ReadsAll(d.keys, read)
  /\ d.at = "decrypt" => d.keys = NoKeys \/ (d.synced /\ file = d.keys /\ file # Torn)
  /\ d.at = "decrypt" /\ d.synced => file # Torn /\ ReadsAll(d.keys, read)
  /\ d.at \in {"idle", "fetch", "merge", "open", "write"} => ~d.synced

KeysInv ==
  /\ {keyBackup, device} \subseteq Keyring /\ (keyFile # Torn => keyFile \in Keyring)
  /\ decryptor \in [Decryptors -> Decryptor]
  /\ everRead \subseteq Encrypted /\ deaths \in Nat
  /\ \A d, e \in Decryptors : ~AtRest(d) /\ ~AtRest(e) => d = e
  /\ keyFile # Torn => NotBefore(keyFile, keyBackup) /\ ReadsAll(keyFile, everRead)
  /\ \A d \in Decryptors : DecryptorFits(decryptor[d], keyFile, keyBackup, everRead)

\* What an extraction that is under way may become.
Became(d, at, keys) == [d EXCEPT !.at = at, !.keys = keys]

LEMMA BecameIs ==
  ASSUME NEW d \in Decryptor,
         NEW at \in DecryptorSteps,
         NEW keys \in Keyring, NEW x, x = Became(d, at, keys)
  PROVE  x \in Decryptor /\ x.at = at /\ x.keys = keys /\ x.synced = d.synced
BY Zenon DEF Became, Decryptor

LEMMA WrittenIs ==
  ASSUME NEW d \in Decryptor, NEW x, x = [d EXCEPT !.at = "decrypt", !.synced = TRUE]
  PROVE  x \in Decryptor /\ x.at = "decrypt" /\ x.keys = d.keys /\ x.synced
BY DEF Decryptor, DecryptorSteps

LEMMA IdleDecryptor ==
  /\ NoKeys \in Keyring /\ NoDecryptor \in Decryptor
  /\ \A file, backed, read : DecryptorFits(NoDecryptor, file, backed, read)
<1>1. NoKeys \in Keyring
  <2>1. Never \in 0..Never
    BY DecryptionAssumption
  <2> QED
    BY <2>1 DEF NoKeys, Keyring
<1>2. NoDecryptor \in Decryptor
  BY <1>1 DEF NoDecryptor, Decryptor, DecryptorSteps
<1> QED
  BY <1>1, <1>2 DEF NoDecryptor, DecryptorFits

\* An extraction under way goes on, with these keys.
Turns(d, at, keys) == decryptor' = [decryptor EXCEPT ![d].at = at, ![d].keys = keys]

\* x is what d turns into.
TurnedInto(d, x, at, keys) ==
  /\ x \in Decryptor /\ decryptor' = [decryptor EXCEPT ![d] = x]
  /\ x.at = at /\ x.keys = keys /\ (x.synced <=> decryptor[d].synced)

LEMMA Turned ==
  ASSUME KeysInv, NEW d \in Decryptors, NEW at \in DecryptorSteps, NEW keys \in Keyring,
         Turns(d, at, keys)
  PROVE  \E x : TurnedInto(d, x, at, keys)
<1>1. PICK o \in Decryptor : o = decryptor[d]
  BY DEF KeysInv
<1>2. PICK x : x = Became(o, at, keys)
  OBVIOUS
<1>3. decryptor' = [decryptor EXCEPT ![d] = x]
  BY <1>1, <1>2 DEF Turns, KeysInv, Decryptor, Became
<1>4. o \in Decryptor
  BY <1>1
<1>5. x \in Decryptor /\ x.at = at /\ x.keys = keys /\ x.synced = o.synced
  BY <1>2, <1>4, BecameIs
<1> QED
  BY <1>1, <1>3, <1>5 DEF TurnedInto

\* A step of one extraction, when the others are at rest.
LEMMA OneMoves ==
  ASSUME KeysInv, NEW d \in Decryptors, NEW x \in Decryptor,
         ~AtRest(d) \/ \A e \in Decryptors : AtRest(e),
         decryptor' = [decryptor EXCEPT ![d] = x],
         UNCHANGED <<keyBackup, device>>, keyFile' # Torn => keyFile' \in Keyring,
         everRead' \subseteq Encrypted, deaths' \in Nat,
         keyFile' # Torn => NotBefore(keyFile', keyBackup) /\ ReadsAll(keyFile', everRead'),
         DecryptorFits(x, keyFile', keyBackup, everRead')
  PROVE  KeysInv'
<1>1. decryptor' \in [Decryptors -> Decryptor] /\ decryptor'[d] = x
      /\ \A e \in Decryptors : e # d => decryptor'[e] = decryptor[e]
  BY DEF KeysInv
<1>2. ASSUME NEW e \in Decryptors, e # d
      PROVE  /\ decryptor[e].at \in {"idle", "done"} /\ AtRest(e)'
             /\ DecryptorFits(decryptor[e], keyFile', keyBackup, everRead')
  <2>1. decryptor[e].at \in {"idle", "done"}
    BY <1>2 DEF KeysInv, AtRest
  <2>2. AtRest(e)'
    BY <1>1, <1>2, <2>1 DEF AtRest
  <2>3. DecryptorFits(decryptor[e], keyFile, keyBackup, everRead)
    BY DEF KeysInv
  <2> QED
    BY <2>1, <2>2, <2>3 DEF DecryptorFits
<1>3. \A e, f \in Decryptors : ~AtRest(e)' /\ ~AtRest(f)' => e = f
  BY <1>2
<1>4. \A e \in Decryptors : DecryptorFits(decryptor'[e], keyFile', keyBackup', everRead')
  BY <1>1, <1>2
<1> QED
  BY <1>1, <1>3, <1>4 DEF KeysInv

LEMMA NoneRead == ASSUME NEW m \in Encrypted PROVE ~Reads(NoKeys, m)
<1>1. Never \in Nat /\ m \in MegolmSessions \X (0..(Never - 1))
  BY DecryptionAssumption
<1>2. m[1] \in MegolmSessions /\ m[2] \in 0..(Never - 1)
  BY <1>1
<1>3. NoKeys[m[1]] = Never
  BY <1>2 DEF NoKeys
<1> QED
  BY <1>1, <1>2, <1>3 DEF Reads

\* The strategy of the backup is given up.
LEMMA GivesUp ==
  ASSUME KeysInv, NEW d \in Decryptors, decryptor[d].at \in {"fetch", "merge", "write"},
         WithoutBackup(d), UNCHANGED <<keyBackup, device, keyFile, everRead, deaths>>
  PROVE  KeysInv'
<1>1. ~AtRest(d) /\ ~decryptor[d].synced
  BY DEF KeysInv, AtRest, DecryptorFits
<1>2. Turns(d, "decrypt", NoKeys)
  BY DEF WithoutBackup, Turns
<1>3. PICK x : TurnedInto(d, x, "decrypt", NoKeys)
  BY <1>2, Turned, IdleDecryptor DEF DecryptorSteps
<1>4. DecryptorFits(x, keyFile', keyBackup, everRead')
  BY <1>1, <1>3 DEF DecryptorFits, TurnedInto
<1> QED
  BY <1>1, <1>3, <1>4, OneMoves DEF KeysInv, TurnedInto

LEMMA FetchFits ==
  ASSUME KeysInv, NEW d \in Decryptors, FetchKeys(d) PROVE KeysInv'
<1>1. PICK fetched \in {NoKeys, OpenedKeys(keyBackup)} :
        decryptor' = [decryptor EXCEPT ![d].at = "merge", ![d].keys = fetched]
  BY DEF FetchKeys
<1>2. /\ decryptor[d] \in Decryptor /\ decryptor[d].synced \in BOOLEAN /\ ~AtRest(d)
      /\ ~decryptor[d].synced /\ keyBackup \in Keyring
      /\ UNCHANGED <<keyBackup, device, keyFile, everRead, deaths>>
  BY DEF KeysInv, Decryptor, AtRest, DecryptorFits, FetchKeys
<1>3. OpenedKeys(keyBackup) \in Keyring /\ NoKeys \in Keyring /\ Never \in Nat
  BY <1>2, IdleDecryptor, DecryptionAssumption DEF OpenedKeys, Keyring
<1>4. fetched \in Keyring
  BY <1>3
<1>5. ASSUME NEW s \in MegolmSessions
      PROVE  /\ OpenedKeys(keyBackup)[s] <= fetched[s]
             /\ keyFile # Torn => fetched[s] = Never \/ fetched[s] <= keyFile[s]
  <2>1. OpenedKeys(keyBackup)[s] \in 0..Never
    BY <1>3 DEF Keyring
  <2>2. CASE fetched = NoKeys
    <3>1. fetched[s] = Never
      BY <2>2 DEF NoKeys
    <3> QED
      BY <1>3, <2>1, <3>1
  <2>3. CASE fetched = OpenedKeys(keyBackup)
    <3>1. keyFile # Torn => OpenedKeys(keyBackup)[s] <= keyFile[s]
      BY DEF KeysInv, NotBefore
    <3>2. OpenedKeys(keyBackup)[s] <= OpenedKeys(keyBackup)[s]
      BY <1>3, <2>1
    <3> QED
      BY <2>3, <3>1, <3>2
  <2> QED
    BY <2>2, <2>3
<1>6. Turns(d, "merge", fetched)
  BY <1>1 DEF Turns
<1>7. PICK x : TurnedInto(d, x, "merge", fetched)
  BY <1>4, <1>6, Turned DEF DecryptorSteps
<1>8. DecryptorFits(x, keyFile', keyBackup, everRead')
  BY <1>2, <1>5, <1>7 DEF DecryptorFits, NotBefore, TurnedInto
<1> QED
  BY <1>2, <1>7, <1>8, OneMoves DEF KeysInv, TurnedInto

LEMMA LoadFits ==
  ASSUME KeysInv, NEW d \in Decryptors, LoadKeyFile(d) PROVE KeysInv'
<1>1. CASE keyFile = Torn
  BY <1>1, GivesUp DEF LoadKeyFile
<1>2. CASE keyFile # Torn
  <2>1. PICK merged : merged = MergedKeys(keyFile, decryptor[d].keys)
    OBVIOUS
  <2>2. decryptor' = [decryptor EXCEPT ![d].at = "open", ![d].keys = merged]
    BY <1>2, <2>1 DEF LoadKeyFile
  <2>3. /\ decryptor[d] \in Decryptor /\ decryptor[d].synced \in BOOLEAN /\ ~AtRest(d)
        /\ ~decryptor[d].synced /\ keyFile \in Keyring /\ decryptor[d].keys \in Keyring
        /\ UNCHANGED <<keyBackup, device, keyFile, everRead, deaths>>
    BY <1>2 DEF KeysInv, Decryptor, AtRest, DecryptorFits, LoadKeyFile
  <2>4. /\ DecryptorFits(decryptor[d], keyFile, keyBackup, everRead)
        /\ decryptor[d].at = "merge" /\ NotBefore(keyFile, keyBackup)
        /\ ReadsAll(keyFile, everRead) /\ everRead \subseteq Encrypted
    BY <1>2 DEF KeysInv, LoadKeyFile
  <2>5. ASSUME NEW s \in MegolmSessions
        PROVE  /\ merged[s] \in 0..Never /\ merged[s] <= keyFile[s]
               /\ OpenedKeys(keyBackup)[s] <= merged[s]
    <3>1. keyFile[s] \in 0..Never /\ decryptor[d].keys[s] \in 0..Never /\ Never \in Nat
      BY <2>3, DecryptionAssumption DEF Keyring
    <3>2. /\ OpenedKeys(keyBackup)[s] <= keyFile[s]
          /\ OpenedKeys(keyBackup)[s] <= decryptor[d].keys[s]
          /\ decryptor[d].keys[s] = Never \/ decryptor[d].keys[s] <= keyFile[s]
      BY <1>2, <2>4 DEF DecryptorFits, NotBefore
    <3>3. merged[s] = IF decryptor[d].keys[s] < Never THEN decryptor[d].keys[s]
                      ELSE keyFile[s]
      BY <2>1 DEF MergedKeys
    <3> QED
      BY <3>1, <3>2, <3>3
  <2>6. merged \in Keyring
    <3>1. merged = [s \in MegolmSessions |-> merged[s]]
      BY <2>1 DEF MergedKeys
    <3> QED
      BY <2>5, <3>1 DEF Keyring
  <2>7. ReadsAll(merged, everRead)
    <3> SUFFICES ASSUME NEW m \in everRead PROVE Reads(merged, m)
      BY DEF ReadsAll
    <3>1. m[1] \in MegolmSessions /\ m[2] \in 0..(Never - 1) /\ Never \in Nat
      BY <2>4, DecryptionAssumption
    <3>2. keyFile[m[1]] <= m[2] /\ keyFile[m[1]] \in 0..Never
      BY <2>3, <2>4, <3>1 DEF ReadsAll, Reads, Keyring
    <3>3. merged[m[1]] \in 0..Never /\ merged[m[1]] <= keyFile[m[1]]
      BY <2>5, <3>1
    <3> QED
      BY <3>1, <3>2, <3>3 DEF Reads
  <2>8. Turns(d, "open", merged)
    BY <2>2 DEF Turns
  <2>9. PICK x : TurnedInto(d, x, "open", merged)
    BY <2>6, <2>8, Turned DEF DecryptorSteps
  <2>10. DecryptorFits(x, keyFile', keyBackup, everRead')
    BY <2>3, <2>5, <2>7, <2>9 DEF DecryptorFits, NotBefore, TurnedInto
  <2> QED
    BY <2>3, <2>9, <2>10, OneMoves DEF KeysInv, TurnedInto
<1> QED
  BY <1>1, <1>2

LEMMA OpenFileFits ==
  ASSUME KeysInv, NEW d \in Decryptors, OpenKeyFile(d) PROVE KeysInv'
<1>1. /\ decryptor[d] \in Decryptor /\ decryptor[d].keys \in Keyring /\ ~AtRest(d)
      /\ DecryptorFits(decryptor[d], keyFile, keyBackup, everRead)
      /\ decryptor[d].at = "open" /\ decryptor[d].synced \in BOOLEAN
      /\ keyFile' = Torn /\ UNCHANGED <<keyBackup, device, everRead, deaths>>
  BY DEF KeysInv, Decryptor, AtRest, OpenKeyFile
<1>2. Turns(d, "write", decryptor[d].keys)
  BY <1>1 DEF Turns, OpenKeyFile, KeysInv, Decryptor
<1>3. PICK x : TurnedInto(d, x, "write", decryptor[d].keys)
  BY <1>1, <1>2, Turned DEF DecryptorSteps
<1>4. DecryptorFits(x, keyFile', keyBackup, everRead')
  BY <1>1, <1>3 DEF DecryptorFits, TurnedInto
<1> QED
  BY <1>1, <1>3, <1>4, OneMoves DEF KeysInv, TurnedInto

LEMMA WriteFits ==
  ASSUME KeysInv, NEW d \in Decryptors, WriteKeyFile(d) PROVE KeysInv'
<1>1. /\ decryptor[d] \in Decryptor /\ decryptor[d].keys \in Keyring /\ ~AtRest(d)
      /\ DecryptorFits(decryptor[d], keyFile, keyBackup, everRead)
      /\ decryptor[d].at = "write"
      /\ keyFile' = decryptor[d].keys /\ UNCHANGED <<keyBackup, device, everRead, deaths>>
  BY DEF KeysInv, Decryptor, AtRest, WriteKeyFile
<1>x. PICK x : x = [decryptor[d] EXCEPT !.at = "decrypt", !.synced = TRUE]
  OBVIOUS
<1>2. decryptor' = [decryptor EXCEPT ![d] = x]
  BY <1>x, <1>1 DEF KeysInv, Decryptor, WriteKeyFile
<1>3. x \in Decryptor /\ x.at = "decrypt" /\ x.keys = decryptor[d].keys /\ x.synced
  BY <1>x, <1>1, WrittenIs, Zenon
<1>4. keyFile' # Torn
  BY <1>1, DecryptionAssumption
<1>5. ReadsAll(decryptor[d].keys, everRead) /\ NotBefore(decryptor[d].keys, keyBackup)
  BY <1>1 DEF DecryptorFits
<1>6. DecryptorFits(x, keyFile', keyBackup, everRead')
  BY <1>1, <1>3, <1>4, <1>5 DEF DecryptorFits
<1> QED
  BY <1>1, <1>2, <1>3, <1>4, <1>5, <1>6, OneMoves DEF KeysInv

LEMMA BeginFits ==
  ASSUME KeysInv, ~DecryptorsOverlap, NEW d \in Decryptors, BeginDecryption(d)
  PROVE  KeysInv'
<1>1. PICK olm \in {device, NoKeys}, export \in ExportedKeys :
        decryptor' = [decryptor EXCEPT
          ![d] = [NoDecryptor EXCEPT !.at = "fetch", !.olm = olm, !.export = export]]
  BY DEF BeginDecryption
<1>2. olm \in Keyring /\ export \in Keyring
  BY IdleDecryptor, DecryptionAssumption DEF KeysInv, ExportedKeys
<1>3. PICK x : x = [NoDecryptor EXCEPT !.at = "fetch", !.olm = olm, !.export = export]
  OBVIOUS
<1>4. x \in Decryptor
  BY <1>2, <1>3, IdleDecryptor DEF NoDecryptor, Decryptor, DecryptorSteps
<1>5. x.at = "fetch" /\ ~x.synced
  BY <1>3 DEF NoDecryptor
<1>6. decryptor' = [decryptor EXCEPT ![d] = x]
  BY <1>1, <1>3
<1>7. DecryptorFits(x, keyFile', keyBackup, everRead')
  BY <1>5 DEF DecryptorFits
<1>8. \A e \in Decryptors : AtRest(e)
  BY DEF BeginDecryption
<1>9. UNCHANGED <<keyBackup, device, keyFile, everRead, deaths>>
  BY DEF BeginDecryption
<1> QED
  BY <1>4, <1>6, <1>7, <1>8, <1>9, OneMoves DEF KeysInv

LEMMA DieFits ==
  ASSUME KeysInv, NEW d \in Decryptors, DieDecrypting(d) PROVE KeysInv'
<1>1. decryptor' = [decryptor EXCEPT ![d] = NoDecryptor] /\ ~AtRest(d)
      /\ UNCHANGED <<keyBackup, device, keyFile, everRead>> /\ deaths' \in Nat
  BY DEF DieDecrypting, KeysInv
<1>2. DecryptorFits(NoDecryptor, keyFile', keyBackup, everRead')
  BY IdleDecryptor
<1> QED
  BY <1>1, <1>2, IdleDecryptor, OneMoves DEF KeysInv

\* What the strategies read together.
PlainOf(d) == UNION {Strategies(d)[n] : n \in 1..3}

LEMMA PlainIs ==
  ASSUME NEW d \in Decryptors
  PROVE  PlainOf(d) \subseteq Encrypted /\ ServerBackup(d) \subseteq PlainOf(d)
<1>1. \A n \in 1..3 : Strategies(d)[n] \subseteq Encrypted
  BY DEF Strategies, PersistentSession, ServerBackup, ManualExport
<1>2. Strategies(d)[2] = ServerBackup(d) /\ 2 \in 1..3
  BY DEF Strategies
<1> QED
  BY <1>1, <1>2 DEF PlainOf

LEMMA DecryptedIs ==
  ASSUME KeysInv, NEW d \in Decryptors, DecryptChat(d)
  PROVE  \E x \in Decryptor : /\ decryptor' = [decryptor EXCEPT ![d] = x]
                              /\ x.at \in {"idle", "done"} /\ x.plain = PlainOf(d)
                              /\ (x.at = "idle" => ~x.synced)
<1>1. PICK p : p = PlainOf(d)
  OBVIOUS
<1>2. p \subseteq Encrypted
  BY <1>1, PlainIs
<1>3. decryptor' = [decryptor EXCEPT ![d] =
        IF p = {} THEN NoDecryptor ELSE [decryptor[d] EXCEPT !.at = "done", !.plain = p]]
  BY <1>1 DEF DecryptChat, PlainOf, KeysInv
<1>4. CASE p = {}
  <2>1. NoDecryptor.at = "idle" /\ NoDecryptor.plain = {} /\ ~NoDecryptor.synced
    BY DEF NoDecryptor
  <2> QED
    BY <1>1, <1>3, <1>4, <2>1, IdleDecryptor
<1>5. CASE p # {}
  <2>1. PICK x : x = [decryptor[d] EXCEPT !.at = "done", !.plain = p]
    OBVIOUS
  <2>2. x \in Decryptor /\ x.at = "done" /\ x.plain = p
    BY <1>2, <2>1 DEF KeysInv, Decryptor, DecryptorSteps
  <2>3. decryptor' = [decryptor EXCEPT ![d] = x]
    BY <1>3, <1>5, <2>1
  <2> QED
    BY <1>1, <2>2, <2>3
<1> QED
  BY <1>4, <1>5

LEMMA DecryptFits ==
  ASSUME KeysInv, NEW d \in Decryptors, DecryptChat(d) PROVE KeysInv'
<1>1. PICK x \in Decryptor : /\ decryptor' = [decryptor EXCEPT ![d] = x]
                             /\ x.at \in {"idle", "done"} /\ (x.at = "idle" => ~x.synced)
  BY DecryptedIs
<1>2. /\ UNCHANGED <<keyBackup, device, keyFile, deaths>>
      /\ decryptor[d].at = "decrypt" /\ everRead' = everRead \cup ServerBackup(d)
  BY Zenon DEF DecryptChat
<1>3. decryptor[d].keys = NoKeys \/ keyFile = decryptor[d].keys
  BY <1>2 DEF KeysInv, DecryptorFits
<1>4. everRead' \subseteq Encrypted
  BY <1>2 DEF KeysInv, ServerBackup
<1>5. ASSUME keyFile # Torn, NEW m \in everRead' PROVE Reads(keyFile, m)
  <2>1. CASE m \in everRead
    BY <1>5, <2>1 DEF KeysInv, ReadsAll
  <2>2. CASE m \in ServerBackup(d)
    <3>1. m \in Encrypted /\ Reads(decryptor[d].keys, m)
      BY <2>2 DEF ServerBackup
    <3>2. decryptor[d].keys # NoKeys
      BY <3>1, NoneRead
    <3> QED
      BY <1>3, <3>1, <3>2
  <2> QED
    BY <1>2, <2>1, <2>2
<1>6. keyFile # Torn => NotBefore(keyFile, keyBackup) /\ ReadsAll(keyFile, everRead')
  BY <1>5 DEF KeysInv, ReadsAll
<1>7. DecryptorFits(x, keyFile', keyBackup, everRead')
  BY <1>1 DEF DecryptorFits
<1> QED
  BY <1>1, <1>2, <1>4, <1>6, <1>7, OneMoves DEF KeysInv, AtRest

-----------------------------------------------------------------------------
(* The steps of the user's clients, and the theorem. *)

LEMMA UploadFits ==
  ASSUME KeysInv, NEW s \in MegolmSessions, Upload(s) PROVE KeysInv'
<1>1. PICK i \in 0..(keyBackup[s] - 1) : keyBackup' = [keyBackup EXCEPT ![s] = i]
  BY DEF Upload
<1>2. keyBackup \in [MegolmSessions -> 0..Never] /\ Never \in Nat
  BY DecryptionAssumption DEF KeysInv, Keyring
<1>3. keyBackup' \in Keyring
  BY <1>1, <1>2 DEF Keyring
<1>4. ASSUME NEW t \in MegolmSessions, NEW r, OpenedKeys(keyBackup)[t] <= r, r \in 0..Never
      PROVE  OpenedKeys(keyBackup')[t] <= r
  <2>1. {keyBackup'[t], keyBackup[t]} \subseteq 0..Never /\ keyBackup'[t] <= keyBackup[t]
    BY <1>1, <1>2
  <2> QED
    BY <1>2, <1>4, <2>1 DEF OpenedKeys
<1>5. ASSUME NEW ring \in Keyring, NotBefore(ring, keyBackup)
      PROVE  NotBefore(ring, keyBackup')
  BY <1>4, <1>5 DEF NotBefore, Keyring
<1>6. UNCHANGED <<device, keyFile, decryptor, everRead, deaths>>
  BY DEF Upload
<1>7. \A d \in Decryptors : DecryptorFits(decryptor[d], keyFile, keyBackup', everRead)
  BY <1>5 DEF KeysInv, DecryptorFits, Decryptor
<1>8. keyFile # Torn => NotBefore(keyFile, keyBackup')
  BY <1>5 DEF KeysInv
<1> QED
  BY <1>3, <1>6, <1>7, <1>8 DEF KeysInv, AtRest

LEMMA DeviceFits ==
  ASSUME KeysInv, device' \in Keyring,
         UNCHANGED <<keyBackup, keyFile, decryptor, everRead, deaths>>
  PROVE  KeysInv'
BY DEF KeysInv, AtRest

LEMMA KeysKept ==
  ASSUME KeysInv, ~DecryptorsOverlap, [DecryptionNext]_decryptionVars PROVE KeysInv'
<1>1. CASE UNCHANGED decryptionVars
  BY <1>1 DEF decryptionVars, KeysInv, AtRest
<1>2. CASE NewDevice
  BY <1>2, DeviceFits, IdleDecryptor DEF NewDevice
<1>3. ASSUME NEW s \in MegolmSessions, ShareKey(s) PROVE KeysInv'
  <2>1. Never - 1 \in 0..Never
    BY DecryptionAssumption
  <2>2. device' \in Keyring
    BY <1>3, <2>1 DEF ShareKey, KeysInv, Keyring
  <2> QED
    BY <1>3, <2>2, DeviceFits DEF ShareKey
<1>4. ASSUME NEW s \in MegolmSessions, Upload(s) PROVE KeysInv'
  BY <1>4, UploadFits
<1>5. ASSUME NEW d \in Decryptors, FailFetch(d) \/ FailWrite(d) PROVE KeysInv'
  BY <1>5, GivesUp DEF FailFetch, FailWrite
<1>6. ASSUME NEW d \in Decryptors,
             \/ BeginDecryption(d) \/ FetchKeys(d) \/ LoadKeyFile(d) \/ OpenKeyFile(d)
             \/ WriteKeyFile(d) \/ DecryptChat(d) \/ DieDecrypting(d)
      PROVE  KeysInv'
  BY <1>6, BeginFits, FetchFits, LoadFits, OpenFileFits, WriteFits, DecryptFits, DieFits
<1> QED
  BY <1>1, <1>2, <1>3, <1>4, <1>5, <1>6 DEF DecryptionNext

LEMMA KeysBegin == DecryptionInit => KeysInv
<1> SUFFICES ASSUME DecryptionInit PROVE KeysInv
  OBVIOUS
<1>1. NotBefore(NoKeys, NoKeys) /\ ReadsAll(NoKeys, {})
  BY DecryptionAssumption DEF NotBefore, ReadsAll, OpenedKeys, NoKeys
<1>2. \A d \in Decryptors : AtRest(d)
  BY DEF DecryptionInit, AtRest, NoDecryptor
<1> QED
  BY <1>1, <1>2, IdleDecryptor DEF DecryptionInit, KeysInv

\* An extraction that decrypts the chat with merged keys reads what was ever read.
LEMMA ReadAgain ==
  ASSUME KeysInv, [DecryptionNext]_decryptionVars, NEW d \in Decryptors,
         decryptor[d].at = "decrypt", decryptor[d].synced, decryptor'[d].at # "decrypt",
         deaths' = deaths
  PROVE  everRead \subseteq decryptor'[d].plain
<1>1. ASSUME NEW e \in Decryptors, NEW x, e # d, decryptor' = [decryptor EXCEPT ![e] = x]
      PROVE  FALSE
  BY <1>1 DEF KeysInv
<1>2. ASSUME NEW e \in Decryptors, WithoutBackup(e), decryptor[e].at # "decrypt" PROVE FALSE
  <2>1. e # d
    BY <1>2
  <2> QED
    BY <1>2, <2>1 DEF WithoutBackup, KeysInv
<1>3. PICK e \in Decryptors : DecryptChat(e) \/ DieDecrypting(e)
  <2>1. decryptor' # decryptor
    OBVIOUS
  <2>2. ASSUME NEW e \in Decryptors, FailFetch(e) \/ FailWrite(e) PROVE FALSE
    BY <1>2, <2>2 DEF FailFetch, FailWrite
  <2>3. ASSUME NEW e \in Decryptors, LoadKeyFile(e) PROVE FALSE
    <3>1. decryptor[e].at = "merge" /\ e # d
      BY <2>3 DEF LoadKeyFile
    <3> QED
      BY <1>2, <2>3, <3>1 DEF LoadKeyFile, KeysInv
  <2>4. ASSUME NEW e \in Decryptors,
               BeginDecryption(e) \/ FetchKeys(e) \/ OpenKeyFile(e) \/ WriteKeyFile(e)
        PROVE  FALSE
    <3>1. e # d
      BY <2>4 DEF BeginDecryption, AtRest, FetchKeys, OpenKeyFile, WriteKeyFile
    <3> QED
      BY <2>4, <3>1
      DEF BeginDecryption, FetchKeys, OpenKeyFile, WriteKeyFile, KeysInv
  <2> QED
    BY <2>1, <2>2, <2>3, <2>4
    DEF DecryptionNext, decryptionVars, NewDevice, Upload, ShareKey
<1>4. CASE DieDecrypting(e)
  BY <1>4 DEF DieDecrypting, KeysInv
<1>5. CASE DecryptChat(e)
  <2>1. PICK x : decryptor' = [decryptor EXCEPT ![e] = x] /\ x.plain = PlainOf(e)
    BY <1>5, DecryptedIs
  <2>2. e = d
    BY <1>1, <2>1
  <2>3. decryptor'[d].plain = PlainOf(d)
    BY <2>1, <2>2 DEF KeysInv
  <2>4. everRead \subseteq ServerBackup(d)
    BY DEF KeysInv, DecryptorFits, ReadsAll, ServerBackup
  <2> QED
    BY <2>3, <2>4, PlainIs
<1> QED
  BY <1>3, <1>4, <1>5

(***************************************************************************)
(* What an extraction reads with the backup's keys stays readable for the  *)
(* later ones that merge them, for any sessions, messages, answers of the  *)
(* homeserver, failed writes and deaths, if extractions do not overlap.    *)
(***************************************************************************)
THEOREM StaysReadable ==
  ASSUME ~DecryptorsOverlap
  PROVE  DecryptionSpec => ReadableStaysReadable
<1>1. KeysInv /\ [DecryptionNext]_decryptionVars => KeysInv'
  BY KeysKept
<1>2. KeysInv /\ [DecryptionNext]_decryptionVars
        => [\A d \in Decryptors :
              (decryptor[d].at = "decrypt" /\ decryptor[d].synced
                 /\ decryptor'[d].at # "decrypt" /\ deaths' = deaths)
                => everRead \subseteq decryptor'[d].plain]_decryptionVars
  BY ReadAgain
<1> QED
  BY KeysBegin, <1>1, <1>2, PTL DEF DecryptionSpec, ReadableStaysReadable

-----------------------------------------------------------------------------
(* The links of a newsletter. *)

EnrichmentSpec == EnrichmentInit /\ [][EnrichmentNext]_enrichmentVars

(***************************************************************************)
(* The invariant.  The links that were taken, and found, hold those of     *)
(* every discussion; when the model is asked, one link of each of their    *)
(* keys is in the file; and a newsletter made from an answer has the       *)
(* bullets of the one it was made from.                                    *)
(***************************************************************************)
Edition == [DOMAIN Bullets -> Seq({"original", "linked", "blank"})]

Enricher == [at : {"idle", "extract", "search", "aggregate", "insert", "json", "md",
                   "done"},
             next : Nat, links : Seq(Links), newsletter : Edition]

HasLinksOf(links, d) ==
  \A n \in DOMAIN Discussions[d].links :
    \E k \in DOMAIN links : links[k] = Discussions[d].links[n]

OfKey(file, p) == {l \in file : KeyOf(l) = p}

EachKeyOnce(file) ==
  \A d \in DOMAIN Discussions : \A n \in DOMAIN Discussions[d].links :
    Cardinality(OfKey(file, KeyOf(Discussions[d].links[n]))) = 1

HasBullets(edition) == \A s \in DOMAIN Bullets : Len(edition[s]) = Bullets[s]

EnrichmentInv ==
  /\ enricher \in Enricher
  /\ enricher.at \in {"search", "aggregate"} =>
       \A d \in DOMAIN Discussions : HasLinksOf(enricher.links, d)
  /\ enricher.at = "insert" => EachKeyOnce(linksFile)
  /\ HasBullets(enricher.newsletter)
  /\ jsonFile # NoNewsletter => HasBullets(jsonFile)

-----------------------------------------------------------------------------
(* The links of the messages: LinksUpTo is what its definition says, for the least     *)
(* number of discussions for which it were not does not exist.                         *)

UpTo(f, d) == IF d = 0 THEN << >> ELSE f[d - 1] \o Discussions[d].links

LEMMA DiscussionIs ==
  /\ Len(Discussions) \in Nat /\ DOMAIN Discussions = 1..Len(Discussions)
  /\ \A d \in 1..Len(Discussions) : Discussions[d].links \in Seq(Links)
<1>1. PICK D : D = [size : Nat, links : Seq(Links)]
  OBVIOUS
<1>2. Discussions \in Seq(D)
  BY <1>1, LinkEnrichmentAssumption
<1>3. /\ Len(Discussions) \in Nat /\ DOMAIN Discussions = 1..Len(Discussions)
      /\ \A d \in 1..Len(Discussions) : Discussions[d] \in D
  BY <1>2
<1>4. \A x \in D : x.links \in Seq(Links)
  BY <1>1
<1> QED
  BY <1>3, <1>4

LEMMA UpToExists ==
  \A n \in Nat : \E f : f = [d \in 0..n |-> UpTo(f, d)]
<1> DEFINE T == {n \in Nat : ~ \E f : f = [d \in 0..n |-> UpTo(f, d)]}
<1> SUFFICES ASSUME T # {} PROVE FALSE
  OBVIOUS
<1>1. PICK n \in T : \A m \in T : n <= m
  <2>1. T \in SUBSET Nat
    OBVIOUS
  <2> HIDE DEF T
  <2> QED
    BY <2>1, LeastOf
<1>2. CASE n = 0
  <2>1. PICK f : f = [d \in 0..0 |-> << >>]
    OBVIOUS
  <2>2. f = [d \in 0..0 |-> UpTo(f, d)]
    BY <2>1 DEF UpTo
  <2> QED
    BY <1>1, <1>2, <2>2
<1>3. CASE n # 0
  <2>1. n - 1 \in Nat /\ n - 1 \notin T
    BY <1>1, <1>3
  <2>2. PICK f : f = [d \in 0..(n - 1) |-> UpTo(f, d)]
    BY <2>1
  <2>3. PICK g : g = [d \in 0..n |-> IF d = n THEN UpTo(f, n) ELSE f[d]]
    OBVIOUS
  <2>4. ASSUME NEW d \in 0..n PROVE g[d] = UpTo(g, d)
    <3>1. CASE d = 0
      <4>1. 0 \in 0..(n - 1) /\ 0 \in 0..n
        BY <2>1
      <4>2. f[0] = << >>
        BY <2>2, <4>1 DEF UpTo
      <4>3. g[0] = f[0]
        BY <1>3, <2>3, <4>1
      <4> QED
        BY <3>1, <4>2, <4>3 DEF UpTo
    <3>2. CASE d # 0
      <4>1. d - 1 \in 0..(n - 1) /\ g[d - 1] = f[d - 1] /\ n \in Nat
        BY <1>1, <2>3, <3>2
      <4>2. g[d] = UpTo(f, d)
        <5>1. CASE d = n
          BY <2>3, <5>1
        <5>2. CASE d # n
          <6>1. d \in 0..(n - 1) /\ g[d] = f[d]
            BY <2>3, <4>1, <5>2
          <6> QED
            BY <2>2, <6>1
        <5> QED
          BY <5>1, <5>2
      <4> QED
        BY <3>2, <4>1, <4>2 DEF UpTo
    <3> QED
      BY <3>1, <3>2
  <2>5. g = [d \in 0..n |-> UpTo(g, d)]
    <3>1. g = [d \in 0..n |-> g[d]]
      BY <2>3
    <3> QED
      BY <2>4, <3>1
  <2> QED
    BY <1>1, <2>5
<1> QED
  BY <1>2, <1>3

LEMMA LinksUpToIs ==
  \A d \in 0..Len(Discussions) : LinksUpTo[d] = UpTo(LinksUpTo, d)
<1> DEFINE Is(f) == f = [d \in 0..Len(Discussions) |->
                         IF d = 0 THEN << >> ELSE f[d - 1] \o Discussions[d].links]
<1>1. \E f : Is(f)
  BY UpToExists, DiscussionIs DEF UpTo
<1>2. LinksUpTo = CHOOSE f : Is(f)
  BY DEF LinksUpTo
<1>3. Is(LinksUpTo)
  BY <1>1, <1>2
<1> QED
  BY <1>3 DEF UpTo

LEMMA AllLinks ==
  \A d \in 0..Len(Discussions) :
    /\ LinksUpTo[d] \in Seq(Links)
    /\ \A e \in 1..d : HasLinksOf(LinksUpTo[d], e)
<1> DEFINE Good(d) == /\ LinksUpTo[d] \in Seq(Links)
                      /\ \A e \in 1..d : HasLinksOf(LinksUpTo[d], e)
           T == {d \in 0..Len(Discussions) : ~Good(d)}
<1> SUFFICES ASSUME T # {} PROVE FALSE
  OBVIOUS
<1>1. PICK d \in T : \A m \in T : d <= m
  <2>1. T \in SUBSET Nat
    OBVIOUS
  <2> HIDE DEF T
  <2> QED
    BY <2>1, LeastOf
<1>2. d \in 0..Len(Discussions) /\ ~Good(d) /\ LinksUpTo[d] = UpTo(LinksUpTo, d)
  BY <1>1, LinksUpToIs
<1>3. d # 0
  BY <1>2 DEF UpTo
<1>4. d - 1 \in 0..Len(Discussions) /\ d \in 1..Len(Discussions)
  BY <1>2, <1>3, DiscussionIs
<1>5. Good(d - 1)
  BY <1>1, <1>2, <1>4, DiscussionIs
<1> HIDE DEF T
<1>6. PICK before \in Seq(Links) : before = LinksUpTo[d - 1]
  BY <1>5
<1>7. PICK own \in Seq(Links) : own = Discussions[d].links
  BY <1>4, DiscussionIs
<1>8. LinksUpTo[d] = before \o own
  BY <1>2, <1>3, <1>6, <1>7 DEF UpTo
<1>9. PICK all : all = before \o own
  OBVIOUS
<1>10. /\ all \in Seq(Links) /\ Len(all) = Len(before) + Len(own)
       /\ \A k \in 1..Len(before) : all[k] = before[k] /\ k \in DOMAIN all
       /\ \A k \in 1..Len(own) : /\ all[Len(before) + k] = own[k]
                                 /\ Len(before) + k \in DOMAIN all
  BY <1>9, ConcatProperties
<1>11. ASSUME NEW e \in 1..d PROVE HasLinksOf(all, e)
  <2>1. CASE e = d
    <3> SUFFICES ASSUME NEW n \in DOMAIN own PROVE \E k \in DOMAIN all : all[k] = own[n]
      BY <1>7, <2>1 DEF HasLinksOf
    <3>1. n \in 1..Len(own)
      BY <1>7
    <3> QED
      BY <1>10, <3>1
  <2>2. CASE e # d
    <3>1. HasLinksOf(before, e)
      BY <1>2, <1>5, <1>6, <2>2, DiscussionIs
    <3> QED
      <4>1. \A k \in DOMAIN before : k \in DOMAIN all /\ all[k] = before[k]
        <5>1. DOMAIN before = 1..Len(before)
          BY <1>6
        <5> QED
          BY <1>10, <5>1
      <4> QED
        BY <3>1, <4>1 DEF HasLinksOf
  <2> QED
    BY <2>1, <2>2
<1> QED
  BY <1>2, <1>8, <1>9, <1>10, <1>11

\* Links that are added take none away.
LEMMA LinksAdded ==
  ASSUME NEW links \in Seq(Links), NEW found \in Seq(Links), NEW d, HasLinksOf(links, d)
  PROVE  HasLinksOf(links \o found, d)
<1>1. \A k \in DOMAIN links : /\ k \in DOMAIN (links \o found)
                             /\ (links \o found)[k] = links[k]
  BY ConcatProperties
<1> QED
  BY <1>1 DEF HasLinksOf

LEMMA DeduplicatedOnce ==
  ASSUME NEW links \in Seq(Links), \A d \in DOMAIN Discussions : HasLinksOf(links, d)
  PROVE  EachKeyOnce(Deduplicated(links))
<1> SUFFICES ASSUME NEW d \in DOMAIN Discussions, NEW n \in DOMAIN Discussions[d].links
             PROVE  Cardinality(OfKey(Deduplicated(links),
                                       KeyOf(Discussions[d].links[n]))) = 1
  BY DEF EachKeyOnce
<1>1. PICK p : p = KeyOf(Discussions[d].links[n])
  OBVIOUS
<1>2. PICK T : T = {k \in DOMAIN links : KeyOf(links[k]) = p}
  OBVIOUS
<1>3. T \in SUBSET Nat /\ T # {}
  BY <1>1, <1>2 DEF HasLinksOf
<1>4. PICK k \in T : \A m \in T : k <= m
  BY <1>3, LeastOf
<1>5. OfKey(Deduplicated(links), p) = {links[k]}
  <2>1. k \in DOMAIN links /\ KeyOf(links[k]) = p /\ DOMAIN links = 1..Len(links)
        /\ Len(links) \in Nat
    BY <1>2, <1>4
  <2>2. \A m \in 1..(k - 1) : KeyOf(links[m]) # KeyOf(links[k])
    BY <1>2, <1>4, <2>1
  <2>3. links[k] \in Deduplicated(links)
    BY <2>1, <2>2 DEF Deduplicated
  <2>4. ASSUME NEW m \in DOMAIN links, KeyOf(links[m]) = p,
               \A i \in 1..(m - 1) : KeyOf(links[i]) # KeyOf(links[m])
        PROVE  m = k
    <3>1. k <= m
      BY <1>2, <1>4, <2>4
    <3>2. ~(k < m)
      BY <2>1, <2>4
    <3> QED
      BY <2>1, <3>1, <3>2
  <2> QED
    BY <2>1, <2>3, <2>4 DEF OfKey, Deduplicated
<1> QED
  BY <1>1, <1>5, FS_Singleton

-----------------------------------------------------------------------------
(* The newsletter. *)

LEMMA EditionIs ==
  /\ Original \in Edition /\ HasBullets(Original)
  /\ \A answer \in Answers : Merged(answer) \in Edition /\ HasBullets(Merged(answer))
<1>1. \A s \in DOMAIN Bullets : Bullets[s] \in Nat
  BY LinkEnrichmentAssumption
<1>2. Original \in Edition /\ HasBullets(Original)
  BY <1>1 DEF Original, Edition, HasBullets
<1>3. ASSUME NEW answer \in Answers
      PROVE  Merged(answer) \in Edition /\ HasBullets(Merged(answer))
  <2>1. answer \in Seq(Seq({"linked", "blank"}))
    BY LinkEnrichmentAssumption
  <2>2. \A s \in DOMAIN answer : answer[s] \in Seq({"linked", "blank"})
    BY <2>1
  <2>3. \A s \in DOMAIN answer : \A b \in DOMAIN answer[s] :
          answer[s][b] \in {"linked", "blank"}
    BY <2>2
  <2>4. ASSUME NEW s \in DOMAIN Bullets
        PROVE  /\ Merged(answer)[s] \in Seq({"original", "linked", "blank"})
               /\ Len(Merged(answer)[s]) = Bullets[s]
    <3>1. Merged(answer)[s] = [b \in 1..Bullets[s] |->
             IF s \in DOMAIN answer /\ b \in DOMAIN answer[s] THEN answer[s][b]
             ELSE "original"]
      BY DEF Merged
    <3>2. \A b \in 1..Bullets[s] :
            (IF s \in DOMAIN answer /\ b \in DOMAIN answer[s] THEN answer[s][b]
             ELSE "original") \in {"original", "linked", "blank"}
      BY <2>3
    <3>3. Bullets[s] \in Nat
      BY <1>1
    <3> QED
      BY <3>1, <3>2, <3>3
  <2>5. Merged(answer) = [s \in DOMAIN Bullets |-> Merged(answer)[s]]
    BY DEF Merged
  <2> QED
    BY <2>4, <2>5 DEF Edition, HasBullets
<1> QED
  BY <1>2, <1>3

LEMMA NoEnricherIs == NoEnricher \in Enricher /\ HasBullets(NoEnricher.newsletter)
BY EditionIs DEF NoEnricher, Enricher

LEMMA InsertsLinks ==
  ASSUME EnrichmentInv, InsertLinks PROVE EnrichmentInv'
<1>1. PICK answer \in Answers :
        enricher' = [enricher EXCEPT !.at = "json", !.newsletter = Merged(answer)]
  BY DEF InsertLinks
<1>2. PICK edition : edition = Merged(answer)
  OBVIOUS
<1>3. edition \in Edition /\ HasBullets(edition)
  BY <1>2, EditionIs
<1>4. enricher' = [enricher EXCEPT !.at = "json", !.newsletter = edition]
  BY <1>1, <1>2
<1>5. enricher' \in Enricher /\ enricher'.at = "json" /\ enricher'.newsletter = edition
  BY <1>3, <1>4 DEF EnrichmentInv, Enricher
<1> QED
  BY <1>3, <1>5 DEF EnrichmentInv, InsertLinks

LEMMA TakesLinks ==
  ASSUME EnrichmentInv, ExtractLinks PROVE EnrichmentInv'
<1>1. PICK all : all = LinksUpTo[Len(Discussions)]
  OBVIOUS
<1>2. all \in Seq(Links) /\ \A d \in DOMAIN Discussions : HasLinksOf(all, d)
  BY <1>1, AllLinks, DiscussionIs
<1>3. enricher' = [enricher EXCEPT !.at = "search", !.links = all]
  BY <1>1 DEF ExtractLinks
<1>4. /\ enricher' \in Enricher /\ enricher'.at = "search" /\ enricher'.links = all
      /\ enricher'.newsletter = enricher.newsletter
  BY <1>2, <1>3 DEF EnrichmentInv, Enricher
<1> QED
  BY <1>2, <1>4 DEF EnrichmentInv, ExtractLinks

LEMMA Searches ==
  ASSUME EnrichmentInv, SearchDiscussion PROVE EnrichmentInv'
<1>1. PICK found \in {<< >>} \cup Results :
        enricher' = [enricher EXCEPT !.next = @ + 1, !.links = @ \o found]
  BY DEF SearchDiscussion
<1>2. found \in Seq(Links) /\ enricher.links \in Seq(Links)
  <2>1. << >> \in Seq(Links) /\ Results \subseteq Seq(Links)
    BY LinkEnrichmentAssumption
  <2>2. enricher.links \in Seq(Links)
    BY DEF EnrichmentInv, Enricher
  <2> QED
    BY <1>1, <2>1, <2>2
<1>3. PICK all : all = enricher.links \o found
  OBVIOUS
<1>4. all \in Seq(Links)
  BY <1>2, <1>3
<1>5. \A d \in DOMAIN Discussions : HasLinksOf(all, d)
  BY <1>2, <1>3, LinksAdded DEF EnrichmentInv, SearchDiscussion
<1>6. PICK next : next = enricher.next + 1
  OBVIOUS
<1>7. enricher' = [enricher EXCEPT !.next = next, !.links = all]
  BY <1>1, <1>3, <1>6
<1>8. next \in Nat
  BY <1>6 DEF EnrichmentInv, Enricher
<1>9. /\ enricher' \in Enricher /\ enricher'.at = "search" /\ enricher'.links = all
      /\ enricher'.newsletter = enricher.newsletter
  BY <1>4, <1>7, <1>8 DEF EnrichmentInv, Enricher, SearchDiscussion
<1> QED
  BY <1>5, <1>9 DEF EnrichmentInv, SearchDiscussion

LEMMA Enriches ==
  ASSUME EnrichmentInv, [EnrichmentNext]_enrichmentVars PROVE EnrichmentInv'
<1>1. CASE UNCHANGED enrichmentVars
  BY <1>1 DEF enrichmentVars, EnrichmentInv
<1>2. ASSUME NEW force \in BOOLEAN, BeginEnrichment(force) PROVE EnrichmentInv'
  BY <1>2, NoEnricherIs DEF BeginEnrichment, EnrichmentInv, Enricher
<1>3. CASE EndSearch
  BY <1>3 DEF EndSearch, EnrichmentInv, Enricher
<1>4. CASE AggregateLinks
  <2>1. EachKeyOnce(linksFile')
    BY <1>4, DeduplicatedOnce DEF AggregateLinks, EnrichmentInv, Enricher
  <2> QED
    BY <1>4, <2>1 DEF AggregateLinks, EnrichmentInv, Enricher
<1>5. CASE CopyNewsletter
  BY <1>5, EditionIs DEF CopyNewsletter, EnrichmentInv, Enricher
<1>6. CASE SaveJson
  BY <1>6 DEF SaveJson, EnrichmentInv, Enricher
<1>7. CASE SaveMarkdown
  BY <1>7 DEF SaveMarkdown, EnrichmentInv, Enricher
<1>8. CASE FailEnrichment
  BY <1>8, NoEnricherIs DEF FailEnrichment, EnrichmentInv, NoEnricher
<1> QED
  BY <1>1, <1>2, <1>3, <1>4, <1>5, <1>6, <1>7, <1>8, TakesLinks, Searches, InsertsLinks
  DEF EnrichmentNext

\* The invariant of link enrichment.
LEMMA EnrichmentInvariance == EnrichmentSpec => []EnrichmentInv
<1>1. EnrichmentInit => EnrichmentInv
  BY NoEnricherIs DEF EnrichmentInit, EnrichmentInv, NoEnricher
<1>2. EnrichmentInv /\ [EnrichmentNext]_enrichmentVars => EnrichmentInv'
  BY Enriches
<1> QED
  BY <1>1, <1>2, PTL DEF EnrichmentSpec

(***************************************************************************)
(* Of the links in the discussions with one scheme, host and path, exactly *)
(* one is offered to the model, of whatever query (deduplicate_links tells *)
(* links apart by no more), and the newsletter saved has the bullets of    *)
(* the original, for any discussions, search results, answers and          *)
(* failures.                                                               *)
(***************************************************************************)
THEOREM BulletsKept == EnrichmentSpec => []EnrichmentKeepsBullets
<1>1. EnrichmentInv => EnrichmentKeepsBullets
  BY DEF EnrichmentInv, EnrichmentKeepsBullets, EachKeyOnce, OfKey, HasBullets
<1> QED
  BY <1>1, EnrichmentInvariance, PTL

-----------------------------------------------------------------------------
(* The choice of discussions. *)

SelectionSpec == SelectionInit /\ [][SelectionNext]_selectionVars

\* A strict total order.
StrictOrder(set, order) ==
  /\ \A x \in set : <<x, x>> \notin order
  /\ \A x, y \in set : x # y => <<x, y>> \in order \/ <<y, x>> \in order
  /\ \A x, y, z \in set : <<x, y>> \in order /\ <<y, z>> \in order => <<x, z>> \in order

\* Sorting a set keeps its elements: the places of two elements differ, since one is after
\* all that the other is after; so every place is taken.
LEMMA SortKeeps ==
  ASSUME NEW set, IsFiniteSet(set), NEW order, StrictOrder(set, order)
  PROVE  /\ Cardinality(set) \in Nat
         /\ InOrder(set, order) \in [1..Cardinality(set) -> set]
         /\ \A x \in set : \E i \in 1..Cardinality(set) : InOrder(set, order)[i] = x
<1> DEFINE n == Cardinality(set)
           Before(x) == {y \in set : <<y, x>> \in order}
           place == [x \in set |-> Cardinality(Before(x)) + 1]
<1>1. n \in Nat
  BY FS_CardinalityType
<1>2. ASSUME NEW x \in set
      PROVE  /\ IsFiniteSet(Before(x)) /\ Cardinality(Before(x)) \in Nat
             /\ Cardinality(Before(x)) < n
  <2>1. Before(x) \in SUBSET set /\ Before(x) # set
    BY DEF StrictOrder
  <2>2. /\ IsFiniteSet(Before(x)) /\ Cardinality(Before(x)) <= n
        /\ n = Cardinality(Before(x)) => set = Before(x)
    <3> HIDE DEF Before
    <3> QED
      BY <2>1, FS_Subset
  <2>3. Cardinality(Before(x)) \in Nat
    <3> HIDE DEF Before
    <3> QED
      BY <2>2, FS_CardinalityType
  <2> HIDE DEF Before
  <2> QED
    BY <1>1, <2>1, <2>2, <2>3
<1>3. ASSUME NEW x \in set, NEW y \in set, <<x, y>> \in order
      PROVE  Cardinality(Before(x)) < Cardinality(Before(y))
  <2>1. Before(x) \subseteq Before(y) /\ x \in Before(y) /\ x \notin Before(x)
    BY <1>3 DEF StrictOrder
  <2>2. IsFiniteSet(Before(y)) /\ Cardinality(Before(x)) \in Nat
        /\ Cardinality(Before(y)) \in Nat
    BY <1>2
  <2> HIDE DEF Before
  <2>3. Before(x) \in SUBSET Before(y) /\ Before(x) # Before(y)
    BY <2>1
  <2>4. /\ Cardinality(Before(x)) <= Cardinality(Before(y))
        /\ Cardinality(Before(y)) = Cardinality(Before(x)) => Before(y) = Before(x)
    BY <2>2, <2>3, FS_Subset
  <2> QED
    BY <2>2, <2>3, <2>4
<1> HIDE DEF Before
<1>4. ASSUME NEW x \in set, NEW y \in set, Cardinality(Before(x)) = Cardinality(Before(y))
      PROVE  x = y
  <2> SUFFICES ASSUME x # y PROVE FALSE
    OBVIOUS
  <2>1. <<x, y>> \in order \/ <<y, x>> \in order
    BY DEF StrictOrder
  <2>2. Cardinality(Before(x)) \in Nat /\ Cardinality(Before(y)) \in Nat
    BY <1>2
  <2>3. CASE <<x, y>> \in order
    BY <1>3, <1>4, <2>2, <2>3
  <2>4. CASE <<y, x>> \in order
    BY <1>3, <1>4, <2>2, <2>4
  <2> QED
    BY <2>1, <2>3, <2>4
<1>5. place \in Injection(set, 1..n)
  <2>1. ASSUME NEW x \in set PROVE place[x] \in 1..n
    BY <1>1, <1>2
  <2>2. ASSUME NEW x \in set, NEW y \in set, place[x] = place[y] PROVE x = y
    <3>1. Cardinality(Before(x)) = Cardinality(Before(y))
      BY <1>2, <2>2
    <3> QED
      BY <1>4, <3>1
  <2>3. place \in [set -> 1..n]
    BY <2>1
  <2> HIDE DEF place
  <2>4. DOMAIN place = set
    BY <2>3
  <2> QED
    BY <2>2, <2>3, <2>4 DEF Injection, IsInjective
<1>6. place \in Surjection(set, 1..n)
  <2>1. IsFiniteSet(1..n) /\ Cardinality(1..n) = n
    BY <1>1, FS_Interval
  <2> HIDE DEF place
  <2> QED
    BY <1>5, <2>1, FS_Injection
<1>7. ASSUME NEW i \in 1..n
      PROVE  \E x \in set : Cardinality(Before(x)) = i - 1
  <2>1. PICK x \in set : place[x] = i
    <3> HIDE DEF place
    <3> QED
      BY <1>6 DEF Surjection
  <2>2. Cardinality(Before(x)) + 1 = i /\ Cardinality(Before(x)) \in Nat
    BY <1>2, <2>1
  <2> QED
    BY <2>2
<1>8. InOrder(set, order) =
        [i \in 1..n |-> CHOOSE x \in set : Cardinality(Before(x)) = i - 1]
  BY DEF InOrder, Before
<1>9. InOrder(set, order) \in [1..n -> set]
  BY <1>7, <1>8
<1>10. ASSUME NEW x \in set
       PROVE  \E i \in 1..n : InOrder(set, order)[i] = x
  <2>1. place[x] \in 1..n /\ Cardinality(Before(x)) = place[x] - 1
    BY <1>1, <1>2
  <2>2. InOrder(set, order)[place[x]] = CHOOSE y \in set :
          Cardinality(Before(y)) = place[x] - 1
    BY <1>8, <2>1
  <2>3. InOrder(set, order)[place[x]] = x
    BY <1>4, <2>1, <2>2
  <2> QED
    BY <2>1, <2>3
<1> QED
  BY <1>1, <1>9, <1>10

LEMMA ToSetIs ==
  ASSUME NEW s
  PROVE  ToSet(s) = {s[i] : i \in DOMAIN s}
BY DEF ToSet

LEMMA MakesSeq ==
  ASSUME NEW S, NEW n \in Nat, NEW s \in [1..n -> S]
  PROVE  s \in Seq(S) /\ Len(s) = n
OBVIOUS

LEMMA AscendingKeeps ==
  ASSUME NEW set \in SUBSET Nat, IsFiniteSet(set)
  PROVE  Ascending(set) \in Seq(set) /\ ToSet(Ascending(set)) = set
<1> DEFINE order == {p \in set \X set : p[1] < p[2]}
<1>1. StrictOrder(set, order)
  <2>1. \A x, y \in set : <<x, y>> \in order <=> x < y
    OBVIOUS
  <2> HIDE DEF order
  <2> QED
    BY <2>1 DEF StrictOrder
<1> HIDE DEF order
<1>2. Ascending(set) = InOrder(set, order)
  BY DEF Ascending, order
<1>3. /\ Cardinality(set) \in Nat /\ Ascending(set) \in [1..Cardinality(set) -> set]
      /\ \A x \in set : \E i \in 1..Cardinality(set) : Ascending(set)[i] = x
  BY <1>1, <1>2, SortKeeps
<1>4. DOMAIN Ascending(set) = 1..Cardinality(set)
  BY <1>3
<1>5. Ascending(set) \in Seq(set)
  BY <1>3
<1>6. ToSet(Ascending(set)) = {Ascending(set)[i] : i \in 1..Cardinality(set)}
  BY <1>4, ToSetIs
<1>7. \A i \in 1..Cardinality(set) : Ascending(set)[i] \in set
  BY <1>3
<1> QED
  BY <1>3, <1>5, <1>6, <1>7

-----------------------------------------------------------------------------
(* Merging. *)

\* The least of the numbers in a set.
LEMMA FirstIs ==
  ASSUME NEW item \in SUBSET Nat, item # {}
  PROVE  FirstMessage(item) \in item
<1>1. \E d \in item : \A e \in item : d <= e
  BY LeastOf
<1> QED
  BY <1>1 DEF FirstMessage

LEMMA ListIsOrdered ==
  ASSUME NEW list \in Seq(SUBSET Nat), NEW places \in SUBSET DOMAIN list,
         \A i \in places : list[i] # {}
  PROVE  IsFiniteSet(places) /\ StrictOrder(places, LatestFirst(list, places))
<1>1. Len(list) \in Nat /\ DOMAIN list = 1..Len(list)
  OBVIOUS
<1>2. IsFiniteSet(places)
  <2>1. IsFiniteSet(1..Len(list)) /\ places \in SUBSET (1..Len(list))
    BY <1>1, FS_Interval
  <2> QED
    BY <2>1, FS_Subset
<1>3. ASSUME NEW i \in places
      PROVE  i \in Nat /\ FirstMessage(list[i]) \in Nat
  BY <1>1, FirstIs
<1>4. ASSUME NEW i \in places, NEW j \in places
      PROVE  <<i, j>> \in LatestFirst(list, places) <=>
               \/ FirstMessage(list[i]) > FirstMessage(list[j])
               \/ FirstMessage(list[i]) = FirstMessage(list[j]) /\ i < j
  BY DEF LatestFirst
<1> DEFINE order == LatestFirst(list, places)
<1>5. \A i \in places : <<i, i>> \notin order
  BY <1>3, <1>4
<1>6. \A i, j \in places : i # j => <<i, j>> \in order \/ <<j, i>> \in order
  BY <1>3, <1>4
<1>7. ASSUME NEW i \in places, NEW j \in places, NEW k \in places,
             <<i, j>> \in order, <<j, k>> \in order
      PROVE  <<i, k>> \in order
  <2> DEFINE f(m) == FirstMessage(list[m])
  <2>1. /\ i \in Nat /\ j \in Nat /\ k \in Nat
        /\ f(i) \in Nat /\ f(j) \in Nat /\ f(k) \in Nat
    BY <1>3
  <2>2. /\ f(i) > f(j) \/ (f(i) = f(j) /\ i < j)
        /\ f(j) > f(k) \/ (f(j) = f(k) /\ j < k)
        /\ f(i) > f(k) \/ (f(i) = f(k) /\ i < k) => <<i, k>> \in order
    <3>1. \A m, n \in places :
            <<m, n>> \in order <=> (f(m) > f(n) \/ (f(m) = f(n) /\ m < n))
      BY <1>4
    <3> HIDE DEF f, order
    <3> QED
      BY <1>7, <3>1
  <2> HIDE DEF f, order
  <2> QED
    BY <2>1, <2>2
<1> HIDE DEF order
<1> QED
  BY <1>2, <1>5, <1>6, <1>7 DEF StrictOrder, order

\* What the items of a list draw from.
Sources(list) == UNION {list[i] : i \in DOMAIN list}

LEMMA ThreadKeeps ==
  ASSUME NEW groups \in Seq(Seq(Nat)), NEW rest \in Seq(Nat), Threads \subseteq Nat,
         \A d \in Threads : ById(d) = d
  PROVE  Sources(MergedThread(groups, rest)) =
           ((UNION {ToSet(groups[g]) : g \in DOMAIN groups}) \cup ToSet(rest)) \cap Threads
<1> DEFINE first == [g \in DOMAIN groups |-> ItemOf(groups[g])]
           second == [i \in DOMAIN rest |-> Known(<<rest[i]>>)]
           list == first \o second
           places == {i \in DOMAIN list : list[i] # {}}
           sorted == InOrder(places, LatestFirst(list, places))
           merged == [i \in DOMAIN sorted |-> list[sorted[i]]]
<1>1. \A ids \in Seq(Nat) : Known(ids) = ToSet(ids) \cap Threads
  BY DEF Known
<1>2. ASSUME NEW g \in DOMAIN groups
      PROVE  first[g] = ToSet(groups[g]) \cap Threads
  <2>1. groups[g] \in Seq(Nat)
    OBVIOUS
  <2> QED
    BY <1>1, <2>1 DEF ItemOf
<1>3. ASSUME NEW i \in DOMAIN rest
      PROVE  second[i] = {rest[i]} \cap Threads
  <2>1. <<rest[i]>> \in Seq(Nat) /\ ToSet(<<rest[i]>>) = {rest[i]}
    BY DEF ToSet
  <2> QED
    BY <1>1, <2>1
<1>4. /\ first \in Seq(SUBSET Nat) /\ second \in Seq(SUBSET Nat)
      /\ Len(first) = Len(groups) /\ Len(second) = Len(rest)
  <2>1. Len(groups) \in Nat /\ Len(rest) \in Nat
        /\ DOMAIN groups = 1..Len(groups) /\ DOMAIN rest = 1..Len(rest)
    OBVIOUS
  <2>2. \A g \in 1..Len(groups) : first[g] \in SUBSET Nat
    BY <1>2, <2>1
  <2>3. \A i \in 1..Len(rest) : second[i] \in SUBSET Nat
    BY <1>3, <2>1
  <2>4. DOMAIN first = 1..Len(groups) /\ DOMAIN second = 1..Len(rest)
    BY <2>1
  <2>5. /\ first = [g \in 1..Len(groups) |-> first[g]]
        /\ second = [i \in 1..Len(rest) |-> second[i]]
    BY <2>1
  <2> HIDE DEF first, second
  <2>6. first \in [1..Len(groups) -> SUBSET Nat]
    BY <2>2, <2>5
  <2>7. second \in [1..Len(rest) -> SUBSET Nat]
    BY <2>3, <2>5
  <2>8. first \in Seq(SUBSET Nat) /\ Len(first) = Len(groups)
    BY <2>1, <2>4, <2>6, MakesSeq
  <2>9. second \in Seq(SUBSET Nat) /\ Len(second) = Len(rest)
    BY <2>1, <2>4, <2>7, MakesSeq
  <2> QED
    BY <2>8, <2>9
<1> HIDE DEF first, second
<1>5. list \in Seq(SUBSET Nat) /\ Len(list) = Len(groups) + Len(rest)
  <2>1. Len(list) = Len(first) + Len(second)
    BY <1>4, ConcatProperties
  <2> QED
    BY <1>4, <2>1, ConcatProperties
<1>6. /\ \A g \in DOMAIN groups : g \in DOMAIN list /\ list[g] = first[g]
      /\ \A i \in DOMAIN rest : /\ Len(groups) + i \in DOMAIN list
                               /\ list[Len(groups) + i] = second[i]
      /\ \A i \in DOMAIN list : \/ i \in DOMAIN groups
                               \/ \E j \in DOMAIN rest : i = Len(groups) + j
  <2>1. ASSUME NEW i \in DOMAIN list, i \notin DOMAIN groups
        PROVE  i - Len(groups) \in DOMAIN rest /\ i = Len(groups) + (i - Len(groups))
    BY <1>5, <2>1
  <2> QED
    BY <1>4, <1>5, <2>1
<1> HIDE DEF list
<1>7. /\ Cardinality(places) \in Nat /\ sorted \in [1..Cardinality(places) -> places]
      /\ \A i \in places : \E j \in 1..Cardinality(places) : sorted[j] = i
  <2>1. places \in SUBSET DOMAIN list /\ \A i \in places : list[i] # {}
    OBVIOUS
  <2> HIDE DEF places
  <2>2. IsFiniteSet(places) /\ StrictOrder(places, LatestFirst(list, places))
    BY <1>5, <2>1, ListIsOrdered
  <2> QED
    BY <2>2, SortKeeps
<1>8. Sources(merged) = Sources(list)
  <2>1. DOMAIN merged = 1..Cardinality(places)
    BY <1>7
  <2>2. ASSUME NEW i \in DOMAIN merged
        PROVE  sorted[i] \in DOMAIN list /\ merged[i] = list[sorted[i]]
    BY <1>7, <2>1
  <2>3. ASSUME NEW i \in DOMAIN list, NEW d \in list[i]
        PROVE  \E j \in DOMAIN merged : merged[j] = list[i]
    <3>1. i \in places
      BY <2>3
    <3>2. PICK j \in 1..Cardinality(places) : sorted[j] = i
      BY <1>7, <3>1
    <3> HIDE DEF sorted, places
    <3> QED
      BY <2>1, <2>2, <3>2
  <2> HIDE DEF merged, sorted
  <2>4. ASSUME NEW d \in Sources(merged)
        PROVE  d \in Sources(list)
    <3>1. PICK i \in DOMAIN merged : d \in merged[i]
      BY <2>4 DEF Sources
    <3> QED
      BY <2>2, <3>1 DEF Sources
  <2>5. ASSUME NEW d \in Sources(list)
        PROVE  d \in Sources(merged)
    <3>1. PICK i \in DOMAIN list : d \in list[i]
      BY <2>5 DEF Sources
    <3>2. PICK j \in DOMAIN merged : merged[j] = list[i]
      BY <2>3, <3>1
    <3> QED
      BY <3>1, <3>2 DEF Sources
  <2> QED
    BY <2>4, <2>5
<1>9. MergedThread(groups, rest) = merged
  BY DEF MergedThread, first, second, list
<1>10. Sources(list) =
         ((UNION {ToSet(groups[g]) : g \in DOMAIN groups}) \cup ToSet(rest)) \cap Threads
  <2>1. ASSUME NEW i \in DOMAIN list, NEW d \in list[i]
        PROVE  /\ d \in Threads
               /\ d \in (UNION {ToSet(groups[g]) : g \in DOMAIN groups}) \cup ToSet(rest)
    <3>1. CASE i \in DOMAIN groups
      BY <1>2, <1>6, <2>1, <3>1
    <3>2. CASE i \notin DOMAIN groups
      <4>1. PICK j \in DOMAIN rest : i = Len(groups) + j
        BY <1>6, <3>2
      <4>2. d \in {rest[j]} \cap Threads
        BY <1>3, <1>6, <2>1, <4>1
      <4>3. rest[j] \in ToSet(rest)
        BY Zenon, ToSetIs
      <4> QED
        BY <4>2, <4>3
    <3> QED
      BY <3>1, <3>2
  <2>2. ASSUME NEW g \in DOMAIN groups, NEW d \in ToSet(groups[g]), d \in Threads
        PROVE  d \in Sources(list)
    BY <1>2, <1>6, <2>2 DEF Sources
  <2>3. ASSUME NEW d \in ToSet(rest), d \in Threads
        PROVE  d \in Sources(list)
    <3>1. PICK j \in DOMAIN rest : rest[j] = d
      BY DEF ToSet
    <3>2. d \in list[Len(groups) + j] /\ Len(groups) + j \in DOMAIN list
      BY <1>3, <1>6, <2>3, <3>1
    <3> QED
      BY <3>2 DEF Sources
  <2>4. ASSUME NEW d \in Sources(list)
        PROVE  d \in ((UNION {ToSet(groups[g]) : g \in DOMAIN groups}) \cup ToSet(rest))
                       \cap Threads
    <3>1. PICK i \in DOMAIN list : d \in list[i]
      BY <2>4 DEF Sources
    <3> QED
      BY <2>1, <3>1
  <2>5. ASSUME NEW d \in (UNION {ToSet(groups[g]) : g \in DOMAIN groups}) \cup ToSet(rest),
               d \in Threads
        PROVE  d \in Sources(list)
    <3>1. CASE d \in ToSet(rest)
      BY <2>3, <2>5, <3>1
    <3>2. CASE d \notin ToSet(rest)
      <4>1. PICK g \in DOMAIN groups : d \in ToSet(groups[g])
        <5>1. d \in UNION {ToSet(groups[g]) : g \in DOMAIN groups}
          BY <2>5, <3>2, Zenon
        <5> QED
          BY <5>1, Zenon
      <4> QED
        BY <2>2, <2>5, <4>1
    <3> QED
      BY <3>1, <3>2
  <2> QED
    BY <2>4, <2>5
<1> HIDE DEF merged
<1> QED
  BY <1>8, <1>9, <1>10

-----------------------------------------------------------------------------
(* The theorem. *)

\* Chats whose names have the same form in ids would share ids.
OwnPrefixes ==
  \A d, e \in Threads : PrefixOf[ChatOf[d]] = PrefixOf[ChatOf[e]] => ChatOf[d] = ChatOf[e]

SelectionInv ==
  /\ stage \in {"separate", "merge", "rank", "rerank", "categorise", "done"}
  /\ stage # "separate" => Distinct(idOf)
  /\ MergingLosesNothing

LEMMA OneById ==
  ASSUME OwnPrefixes, Distinct(idOf), SelectionAssumption
  PROVE  /\ \A d, e \in Threads : FullId(e) = FullId(d) => e = d
         /\ \A d \in Threads : ById(d) = d
<1>1. ASSUME NEW d \in Threads, NEW e \in Threads, FullId(e) = FullId(d)
      PROVE  e = d
  BY <1>1 DEF FullId, OwnPrefixes, Distinct
<1>2. ASSUME NEW d \in Threads
      PROVE  ById(d) = d
  <2>1. d <= d
    BY DEF SelectionAssumption
  <2> DEFINE Is(e) == /\ FullId(e) = FullId(d)
                      /\ \A f \in Threads : FullId(f) = FullId(d) => f <= e
  <2>2. Is(d)
    BY <1>1, <2>1
  <2>3. \A e \in Threads : Is(e) => e = d
    BY <1>1
  <2>4. ById(d) = CHOOSE e \in Threads : Is(e)
    BY DEF ById
  <2> HIDE DEF Is
  <2> QED
    BY <2>2, <2>3, <2>4
<1> QED
  BY <1>1, <1>2

LEMMA MergeKeeps ==
  ASSUME OwnPrefixes, SelectionAssumption, SelectionInv, MergeSimilar
  PROVE  SelectionInv'
<1>1. stage = "merge" /\ stage' = "rank" /\ idOf' = idOf /\ Distinct(idOf)
  BY DEF MergeSimilar, SelectionInv
<1>2. Distinct(idOf)'
  BY <1>1 DEF Distinct
<1>3. /\ \A d, e \in Threads : FullId(e) = FullId(d) => e = d
      /\ \A d \in Threads : ById(d) = d
  BY <1>1, OneById
<1>4. Threads \subseteq Nat /\ IsFiniteSet(Threads)
  BY DEF SelectionAssumption
<1>5. ASSUME NEW set \in SUBSET Threads
      PROVE  Ascending(set) \in Seq(Nat) /\ ToSet(Ascending(set)) = set
  <2>1. set \in SUBSET Nat /\ IsFiniteSet(set)
    BY <1>4, FS_Subset
  <2>2. Ascending(set) \in Seq(set) /\ ToSet(Ascending(set)) = set
    BY <2>1, AscendingKeeps
  <2>3. Ascending(set) \in Seq(Nat)
    BY <2>1, <2>2, SeqMonotonic
  <2> QED
    BY <2>2, <2>3
<1>6. ASSUME NEW groups \in Seq(Seq(Nat)),
             NEW set \in SUBSET Threads,
             Threads \subseteq set \cup (UNION {ToSet(groups[g]) : g \in DOMAIN groups}),
             items' = MergedThread(groups, Ascending(set))
      PROVE  Sources(items') = Threads
  <2>1. Sources(items') =
          ((UNION {ToSet(groups[g]) : g \in DOMAIN groups}) \cup ToSet(Ascending(set)))
            \cap Threads
    <3>1. Ascending(set) \in Seq(Nat)
      BY <1>5
    <3> QED
      BY <1>3, <1>4, <1>6, <3>1, ThreadKeeps
  <2> DEFINE grouped == UNION {ToSet(groups[g]) : g \in DOMAIN groups}
  <2>2. Sources(items') = (grouped \cup set) \cap Threads
    <3>1. ToSet(Ascending(set)) = set
      BY <1>5
    <3> QED
      BY <2>1, <3>1, Zenon
  <2>3. Threads \subseteq set \cup grouped
    BY <1>6
  <2> HIDE DEF grouped
  <2> QED
    BY <2>2, <2>3
<1>7. ASSUME items' = MergedThread(<< >>, Ascending(Threads))
      PROVE  Sources(items') = Threads
  <2>1. << >> \in Seq(Seq(Nat))
    OBVIOUS
  <2> QED
    BY <1>6, <1>7, <2>1
<1>8. ASSUME embedded'
      PROVE  Sources(items') = Threads
  <2>1. PICK answer \in Groupings :
          items' = IF Cardinality(Threads) < 2 THEN MergedThread(<< >>, Ascending(Threads))
                   ELSE MergedThread(Hybrid(answer).groups, Hybrid(answer).rest)
    BY <1>8 DEF MergeSimilar
  <2>2. CASE Cardinality(Threads) < 2
    BY <1>7, <2>1, <2>2
  <2>3. CASE ~(Cardinality(Threads) < 2) /\ Candidates = {}
    BY <1>7, <2>1, <2>3 DEF Hybrid
  <2>4. CASE ~(Cardinality(Threads) < 2) /\ Candidates # {}
    <3>1. answer.groups \in Seq(Seq(Nat))
      BY DEF SelectionAssumption
    <3>2. items' = MergedThread(answer.groups, Ascending(Threads \ Grouped(answer.groups)))
      BY <2>1, <2>4 DEF Hybrid
    <3>3. Grouped(answer.groups) =
            (UNION {ToSet(answer.groups[g]) : g \in DOMAIN answer.groups}) \cap Threads
      <4> DEFINE named == (UNION {ToSet(answer.groups[g]) : g \in DOMAIN answer.groups})
                            \cap Threads
      <4>1. Grouped(answer.groups) =
              {d \in Threads : \E e \in named : FullId(e) = FullId(d)}
        BY Zenon DEF Grouped
      <4>2. named \subseteq Threads
        OBVIOUS
      <4> HIDE DEF named
      <4>3. Grouped(answer.groups) = named
        <5>1. ASSUME NEW d \in Threads, NEW e \in named, FullId(e) = FullId(d)
              PROVE  d \in named
          BY <1>3, <4>2, <5>1
        <5> QED
          BY <4>1, <4>2, <5>1
      <4> QED
        BY <4>3 DEF named
    <3> QED
      BY <1>6, <3>1, <3>2, <3>3
  <2> QED
    BY <2>2, <2>3, <2>4
<1> QED
  BY <1>1, <1>2, <1>8 DEF SelectionInv, Sources, MergingLosesNothing

(***************************************************************************)
(* Merging loses no discussion, for any discussions, similarities and      *)
(* answers of the models, if the model gives the discussions of a chat     *)
(* ids of their own and no two chats have the same prefix.                 *)
(***************************************************************************)
THEOREM NothingIsLost ==
  ASSUME DistinctIds, OwnPrefixes
  PROVE  SelectionSpec => []MergingLosesNothing
<1>1. SelectionInit => SelectionInv
  BY DEF SelectionInit, SelectionInv, MergingLosesNothing
<1>2. SelectionInv /\ [SelectionNext]_selectionVars => SelectionInv'
  <2> SUFFICES ASSUME SelectionInv, [SelectionNext]_selectionVars
               PROVE  SelectionInv'
    OBVIOUS
  <2>1. CASE SeparateThreads
    <3>1. stage' = "merge" /\ Distinct(idOf')
      BY <2>1 DEF SeparateThreads
    <3>2. Distinct(idOf)'
      BY <3>1 DEF Distinct
    <3> QED
      BY <3>1, <3>2 DEF SelectionInv, MergingLosesNothing
  <2>2. CASE MergeSimilar
    BY <2>2, MergeKeeps, SelectionAssumption
  <2>3. ASSUME UNCHANGED <<idOf, embedded, items>>,
               \/ stage' = stage
               \/ /\ stage \notin {"separate", "merge"}
                  /\ stage' \in {"rerank", "categorise", "done"}
        PROVE  SelectionInv'
    BY <2>3 DEF SelectionInv, MergingLosesNothing, Distinct
  <2>4. CASE RankItems
    BY <2>3, <2>4 DEF RankItems
  <2>5. CASE RerankItems
    BY <2>3, <2>5 DEF RerankItems
  <2>6. CASE Categorise
    BY <2>3, <2>6 DEF Categorise
  <2>7. CASE UNCHANGED selectionVars
    BY <2>3, <2>7 DEF selectionVars
  <2> QED
    BY <2>1, <2>2, <2>4, <2>5, <2>6, <2>7 DEF SelectionNext
<1>3. SelectionInv => MergingLosesNothing
  BY DEF SelectionInv
<1> QED
  BY <1>1, <1>2, <1>3, PTL DEF SelectionSpec

-----------------------------------------------------------------------------
(* Recursion on numbers: what holds of 0, and of the next of what it holds of; and that *)
(* a function defined by recursion exists.                                              *)

LEMMA AllUpTo ==
  ASSUME NEW n \in Nat, NEW T, 0 \in T, \A i \in 1..n : i - 1 \in T => i \in T
  PROVE  \A i \in 0..n : i \in T
<1> DEFINE B == {i \in 0..n : i \notin T}
<1> SUFFICES ASSUME B # {} PROVE FALSE
  OBVIOUS
<1>1. PICK x \in B : \A y \in B : x <= y
  <2>1. B \in SUBSET Nat
    OBVIOUS
  <2> HIDE DEF B
  <2> QED
    BY <2>1, LeastOf
<1>2. x \in 1..n /\ x - 1 \in B
  BY <1>1
<1> QED
  BY <1>1, <1>2

\* f is defined by recursion up to n: from v on, by the step F.
Recursive(f, n, V, v, F) ==
  /\ f \in [0..n -> V] /\ f[0] = v
  /\ \A i \in 1..n : f[i] = F[<<i, f[i - 1]>>]

IsStep(F, n, V) == F \in [(1..n) \X V -> V]

LEMMA Recursion ==
  ASSUME NEW n \in Nat, NEW V, NEW v \in V, NEW F, IsStep(F, n, V)
  PROVE  \E f : Recursive(f, n, V, v, F)
<1> DEFINE T == {k \in 0..n : \E f : Recursive(f, k, V, v, F)}
<1>1. 0 \in T
  <2>1. PICK f : f = [i \in 0..0 |-> v]
    OBVIOUS
  <2>2. Recursive(f, 0, V, v, F)
    BY <2>1 DEF Recursive
  <2> QED
    BY <2>2
<1>2. ASSUME NEW k \in 1..n, k - 1 \in T PROVE k \in T
  <2>1. PICK f : Recursive(f, k - 1, V, v, F)
    BY <1>2
  <2>2. f[k - 1] \in V /\ <<k, f[k - 1]>> \in (1..n) \X V
    BY <2>1 DEF Recursive
  <2>3. PICK next \in V : next = F[<<k, f[k - 1]>>]
    BY <2>2 DEF IsStep
  <2>4. PICK g : g = [i \in 0..k |-> IF i = k THEN next ELSE f[i]]
    OBVIOUS
  <2>5. g \in [0..k -> V]
    BY <2>1, <2>3, <2>4 DEF Recursive
  <2>6. \A i \in 0..(k - 1) : g[i] = f[i]
    BY <2>4
  <2>7. ASSUME NEW i \in 1..k PROVE g[i] = F[<<i, g[i - 1]>>]
    <3>1. g[i - 1] = f[i - 1]
      BY <2>6
    <3>2. CASE i = k
      <4>1. g[k] = next
        BY <2>4
      <4> QED
        BY <2>3, <3>1, <3>2, <4>1
    <3>3. CASE i # k
      <4>1. i \in 1..(k - 1) /\ g[i] = f[i]
        BY <2>6, <3>3
      <4> QED
        BY <2>1, <3>1, <4>1 DEF Recursive
    <3> QED
      BY <3>2, <3>3
  <2>8. g[0] = v
    BY <2>1, <2>6 DEF Recursive
  <2>9. Recursive(g, k, V, v, F)
    BY <2>5, <2>7, <2>8 DEF Recursive
  <2> QED
    BY <2>9
<1> HIDE DEF T
<1>3. \A k \in 0..n : k \in T
  BY <1>1, <1>2, AllUpTo
<1> QED
  BY <1>3 DEF T

-----------------------------------------------------------------------------
(* The parsing of a chat.                                                  *)

ParsingSpec == ParsingInit /\ [][ParsingNext]_parsingVars

(***************************************************************************)
(* The invariant.  A map names its senders apart, by numbers up to one; a  *)
(* parsing that is under way has the messages of the events of its chunks, *)
(* each once, and when runs do not overlap and the store has not failed    *)
(* its map has every name of the stored one.                               *)
(***************************************************************************)
NameMaps ==
  {m \in UNION {[S -> Nat] : S \in SUBSET Senders} :
     /\ \A s, t \in DOMAIN m : m[s] = m[t] => s = t
     /\ \E b \in Nat : \A s \in DOMAIN m : m[s] <= b}

Extending(map, old) == \A s \in DOMAIN old : s \in DOMAIN map /\ map[s] = old[s]

\* A message of an event, before the ids are shortened.
RawMessages(raw) ==
  [event : {e.id : e \in ToSet(raw)}, name : Nat, ref : {e.ref : e \in ToSet(raw)},
   hidden : {e.hidden : e \in ToSet(raw)}]

IsOfEvent(m, e) == m.event = e.id /\ m.ref = e.ref /\ m.hidden = e.hidden

\* Messages of events after the n-th, up to the last.
ComeFrom(listed, raw, n, last) ==
  /\ listed \in Seq(RawMessages(raw))
  /\ \A i \in DOMAIN listed :
       \E k \in DOMAIN raw : n < k /\ k <= last /\ IsOfEvent(listed[i], raw[k])
  /\ \A i, j \in DOMAIN listed : listed[i].event = listed[j].event => i = j

EventOf(m, raw) == CHOOSE e \in ToSet(raw) : e.id = m.event

AnsweredIn(output, event) == {j \in DOMAIN output : output[j].event = event.ref}

ReplyTo(output, event) ==
  IF event.ref = NoRef THEN NoRef
  ELSE IF AnsweredIn(output, event) = {} THEN Older
  ELSE FirstId - 1 + CHOOSE j \in AnsweredIn(output, event) : TRUE

\* What RepliesResolve says of an output.
Resolved(output, raw) ==
  \A i \in DOMAIN output : output[i].ref = ReplyTo(output, EventOf(output[i], raw))

IsParsing(x) ==
  x = [at |-> x.at, raw |-> x.raw, chunk |-> x.chunk, map |-> x.map,
       parsed |-> x.parsed, polls |-> x.polls]

ParsingFits(x) ==
  /\ IsParsing(x)
  /\ x.at \in {"idle", "chunks", "persist", "done"}
  /\ x.map \in NameMaps /\ x.chunk \in Nat
  /\ x.at # "idle" => x.raw \in RawChats
  /\ x.at = "chunks" => ComeFrom(x.parsed, x.raw, 0, x.chunk * ParseSize)
  /\ x.at \in {"persist", "done"} => Resolved(x.parsed, x.raw)

Underway == {p \in Parsers : parser[p].at \in {"chunks", "persist"}}

ParsingInv ==
  /\ names \in NameMaps /\ lapses \in Nat
  /\ parser = [p \in Parsers |-> parser[p]]
  /\ \A p \in Parsers : ParsingFits(parser[p])
  /\ ~ParsersOverlap => \A p, q \in Underway : p = q
  /\ ~ParsersOverlap /\ lapses = 0 => \A p \in Underway : Extending(parser[p].map, names)

-----------------------------------------------------------------------------
(* What is picked from a sequence: each of its elements at the places that are kept,   *)
(* once.                                                                               *)

Picks(t, s, V, places, n) ==
  /\ t \in Seq(V)
  /\ \E f \in [1..Len(t) -> 1..n] :
       /\ \A j \in 1..Len(t) : f[j] \in places /\ t[j] = s[f[j]]
       /\ \A j, k \in 1..Len(t) : f[j] = f[k] => j = k

LEMMA PicksOneMore ==
  ASSUME NEW V, NEW s \in Seq(V), NEW places, NEW i \in 1..Len(s), NEW t,
         Picks(t, s, V, places, i - 1), i \in places
  PROVE  Picks(Append(t, s[i]), s, V, places, i)
<1>1. PICK f \in [1..Len(t) -> 1..(i - 1)] :
        /\ \A j \in 1..Len(t) : f[j] \in places /\ t[j] = s[f[j]]
        /\ \A j, k \in 1..Len(t) : f[j] = f[k] => j = k
  BY DEF Picks
<1>2. t \in Seq(V) /\ Len(t) \in Nat /\ s[i] \in V
  BY DEF Picks
<1>3. PICK u : u = Append(t, s[i])
  OBVIOUS
<1>4. /\ u \in Seq(V) /\ Len(u) = Len(t) + 1 /\ u[Len(t) + 1] = s[i]
      /\ \A j \in 1..Len(t) : u[j] = t[j]
  BY <1>2, <1>3
<1>5. PICK g : g = [j \in 1..(Len(t) + 1) |-> IF j = Len(t) + 1 THEN i ELSE f[j]]
  OBVIOUS
<1>6. g \in [1..Len(u) -> 1..i]
  BY <1>2, <1>4, <1>5
<1>7. g[Len(t) + 1] = i /\ \A j \in 1..Len(t) : g[j] = f[j]
  BY <1>2, <1>5
<1>8. \A j \in 1..Len(t) : g[j] < i
  BY <1>7
<1>9. \A j \in 1..Len(u) : g[j] \in places /\ u[j] = s[g[j]]
  BY <1>1, <1>2, <1>4, <1>7
<1>10. ASSUME NEW j \in 1..Len(u), NEW k \in 1..Len(u), g[j] = g[k] PROVE j = k
  <2>1. j \in 1..Len(t) \/ j = Len(t) + 1
    BY <1>2, <1>4
  <2>2. k \in 1..Len(t) \/ k = Len(t) + 1
    BY <1>2, <1>4
  <2> QED
    BY <1>1, <1>7, <1>8, <1>10, <2>1, <2>2
<1> QED
  BY <1>3, <1>4, <1>6, <1>9, <1>10 DEF Picks

PickNext(t, s, places, i) == IF i \in places THEN Append(t, s[i]) ELSE t

LEMMA PickedIs ==
  ASSUME NEW V, NEW s \in Seq(V), NEW places
  PROVE  Picks(PickedFrom(s, places), s, V, places, Len(s))
<1> DEFINE Is(f) == f = [i \in 0..Len(s) |->
                         IF i = 0 THEN << >> ELSE PickNext(f[i - 1], s, places, i)]
<1>1. Len(s) \in Nat /\ \A i \in 1..Len(s) : s[i] \in V
  OBVIOUS
<1>2. PICK S : S = Seq(V)
  OBVIOUS
<1>3. PICK F : F = [p \in (1..Len(s)) \X S |-> PickNext(p[2], s, places, p[1])]
  OBVIOUS
<1>4. ASSUME NEW i \in 1..Len(s), NEW t \in S
      PROVE  F[<<i, t>>] = PickNext(t, s, places, i) /\ F[<<i, t>>] \in S
  <2>1. PickNext(t, s, places, i) \in S
    BY <1>1, <1>2 DEF PickNext
  <2>2. <<i, t>> \in (1..Len(s)) \X S
    OBVIOUS
  <2> QED
    BY <1>3, <2>1, <2>2
<1>5. IsStep(F, Len(s), S)
  <2>1. \A p \in (1..Len(s)) \X S : F[p] \in S
    BY <1>4
  <2>2. F = [p \in (1..Len(s)) \X S |-> F[p]]
    BY <1>3
  <2> QED
    BY <2>1, <2>2 DEF IsStep
<1>6. << >> \in S
  BY <1>2
<1>7. PICK f : Recursive(f, Len(s), S, << >>, F)
  BY <1>1, <1>5, <1>6, Recursion
<1>8. f \in [0..Len(s) -> S] /\ f[0] = << >>
  BY <1>7 DEF Recursive
<1>9. ASSUME NEW i \in 1..Len(s)
      PROVE  f[i] = PickNext(f[i - 1], s, places, i)
  <2>1. i - 1 \in 0..Len(s)
    BY <1>1
  <2>2. f[i - 1] \in S
    BY <1>8, <2>1
  <2> QED
    BY <1>4, <1>7, <2>2 DEF Recursive
<1>10. Is(f)
  BY <1>8, <1>9
<1>11. PickedUpTo(s, places) = CHOOSE g : Is(g)
  BY DEF PickedUpTo, PickNext
<1>12. PICK L : L = PickedUpTo(s, places) /\ Is(L)
  BY <1>10, <1>11
<1>13. L[0] = << >> /\ \A i \in 1..Len(s) : L[i] = PickNext(L[i - 1], s, places, i)
  BY <1>1, <1>12
<1> HIDE DEF Is
<1> DEFINE T == {i \in 0..Len(s) : Picks(L[i], s, V, places, i)}
<1>14. 0 \in T
  <2>1. << >> \in Seq(V) /\ Len(<< >>) = 0
    OBVIOUS
  <2>2. PICK g : g = [j \in 1..0 |-> j]
    OBVIOUS
  <2>3. g \in [1..0 -> 1..0]
    BY <2>2
  <2>4. Picks(<< >>, s, V, places, 0)
    <3>1. PICK e : e = << >>
      OBVIOUS
    <3>2. e \in Seq(V) /\ 1..Len(e) = 1..0 /\ \A j \in 1..0 : FALSE
      BY <2>1, <3>1
    <3>3. Picks(e, s, V, places, 0)
      BY <2>3, <3>2 DEF Picks
    <3> QED
      BY <3>1, <3>3
  <2> QED
    BY <1>1, <1>13, <2>4
<1>15. ASSUME NEW i \in 1..Len(s), i - 1 \in T PROVE i \in T
  <2>1. Picks(L[i - 1], s, V, places, i - 1)
    BY <1>15
  <2>2. CASE i \in places
    BY <1>13, <2>1, <2>2, PicksOneMore DEF PickNext
  <2>3. CASE i \notin places
    <3>1. L[i] = L[i - 1]
      BY <1>13, <2>3 DEF PickNext
    <3>2. PICK g \in [1..Len(L[i - 1]) -> 1..(i - 1)] :
            /\ \A j \in 1..Len(L[i - 1]) : g[j] \in places /\ L[i - 1][j] = s[g[j]]
            /\ \A j, k \in 1..Len(L[i - 1]) : g[j] = g[k] => j = k
      BY <2>1 DEF Picks
    <3>3. g \in [1..Len(L[i - 1]) -> 1..i]
      OBVIOUS
    <3>4. Picks(L[i - 1], s, V, places, i)
      BY <2>1, <3>2, <3>3 DEF Picks
    <3> QED
      BY <3>1, <3>4
  <2> QED
    BY <2>2, <2>3
<1> HIDE DEF T
<1>16. \A i \in 0..Len(s) : i \in T
  BY <1>1, <1>14, <1>15, AllUpTo
<1>17. Picks(L[Len(s)], s, V, places, Len(s))
  BY <1>1, <1>16 DEF T
<1> QED
  BY <1>12, <1>17 DEF PickedFrom

-----------------------------------------------------------------------------
(* The names.                                                              *)

LEMMA HighestIs ==
  ASSUME NEW map \in NameMaps
  PROVE  Highest(map) \in Nat /\ \A s \in DOMAIN map : map[s] <= Highest(map)
<1>1. PICK b \in Nat : \A s \in DOMAIN map : map[s] <= b
  BY DEF NameMaps
<1>2. \A s \in DOMAIN map : map[s] \in Nat
  BY DEF NameMaps
<1>3. PICK T : T = {map[s] : s \in DOMAIN map} \cup {0}
  OBVIOUS
<1>4. T \in SUBSET Nat /\ T # {} /\ T \subseteq 0..b
  BY <1>1, <1>2, <1>3
<1>5. IsFiniteSet(T)
  <2>1. IsFiniteSet(0..b)
    BY FS_Interval
  <2> QED
    BY <1>4, <2>1, FS_Subset
<1>6. \E x \in T : \A y \in T : x >= y
  <2>1. PICK x \in T : \A y \in T : y <= x
    BY <1>4, <1>5, GreatestOf
  <2>2. \A y \in T : x >= y
    BY <1>4, <2>1
  <2> QED
    BY <2>2
<1>7. PICK h : h = Max(T)
  OBVIOUS
<1>8. h \in T /\ \A y \in T : h >= y
  BY <1>6, <1>7 DEF Max
<1>9. Highest(map) = h
  BY <1>3, <1>7 DEF Highest
<1>10. \A s \in DOMAIN map : map[s] \in T
  BY <1>3
<1> QED
  BY <1>2, <1>4, <1>8, <1>9, <1>10

LEMMA NamedIs ==
  ASSUME NEW map \in NameMaps, NEW event, event.sender \in Senders
  PROVE  /\ Named(map, event) \in NameMaps
         /\ Extending(Named(map, event), map)
         /\ event.kind # "vote" => event.sender \in DOMAIN Named(map, event)
<1>1. CASE event.kind = "vote"
  BY <1>1 DEF Named, Extending
<1>2. CASE event.kind # "vote"
  <2>1. PICK h : h = Highest(map)
    OBVIOUS
  <2>2. h \in Nat /\ \A s \in DOMAIN map : map[s] <= h
    BY <2>1, HighestIs
  <2>3. PICK D : D = DOMAIN map \cup {event.sender}
    OBVIOUS
  <2>4. /\ map \in [DOMAIN map -> Nat] /\ DOMAIN map \subseteq Senders
        /\ \A s, t \in DOMAIN map : map[s] = map[t] => s = t
    BY DEF NameMaps
  <2>5. PICK m : m = [s \in D |-> IF s \in DOMAIN map THEN map[s] ELSE 1 + h]
    OBVIOUS
  <2>6. Named(map, event) = m
    BY <1>2, <2>1, <2>3, <2>5 DEF Named
  <2>7. m \in [D -> Nat] /\ D \in SUBSET Senders /\ DOMAIN m = D
    BY <2>2, <2>3, <2>4, <2>5
  <2>8. \A s \in D : /\ s \in DOMAIN map => m[s] = map[s] /\ m[s] <= h
                     /\ s \notin DOMAIN map => m[s] = 1 + h /\ s = event.sender
    BY <2>2, <2>3, <2>5
  <2>9. ASSUME NEW s \in D, NEW t \in D, m[s] = m[t] PROVE s = t
    BY <2>2, <2>4, <2>8, <2>9
  <2>10. \A s \in D : m[s] <= 1 + h
    BY <2>2, <2>4, <2>8
  <2>11. 1 + h \in Nat
    BY <2>2
  <2>12. m \in NameMaps
    BY <2>7, <2>9, <2>10, <2>11 DEF NameMaps
  <2>13. Extending(m, map) /\ event.sender \in DOMAIN m
    BY <2>3, <2>7, <2>8 DEF Extending
  <2> QED
    BY <2>6, <2>12, <2>13
<1> QED
  BY <1>1, <1>2

LEMMA MapAfterIs ==
  ASSUME NEW map \in NameMaps, NEW E, NEW events \in Seq(E),
         \A i \in 1..Len(events) : events[i].sender \in Senders,
         NEW last, last = MapAfter(map, events)[Len(events)]
  PROVE  /\ last \in NameMaps /\ Extending(last, map)
         /\ \A i \in 1..Len(events) :
              events[i].kind # "vote" => events[i].sender \in DOMAIN last
<1> DEFINE Is(f) == f = [i \in 0..Len(events) |->
                         IF i = 0 THEN map ELSE Named(f[i - 1], events[i])]
<1>1. Len(events) \in Nat
  OBVIOUS
<1>2. PICK F : F = [p \in (1..Len(events)) \X NameMaps |-> Named(p[2], events[p[1]])]
  OBVIOUS
<1>3. ASSUME NEW i \in 1..Len(events), NEW m \in NameMaps
      PROVE  F[<<i, m>>] = Named(m, events[i]) /\ F[<<i, m>>] \in NameMaps
  <2>1. <<i, m>> \in (1..Len(events)) \X NameMaps
    OBVIOUS
  <2>2. F[<<i, m>>] = Named(m, events[i])
    BY <1>2, <2>1
  <2> QED
    BY <2>2, NamedIs
<1>4. IsStep(F, Len(events), NameMaps)
  <2>1. \A p \in (1..Len(events)) \X NameMaps : F[p] \in NameMaps
    BY <1>3
  <2>2. F = [p \in (1..Len(events)) \X NameMaps |-> F[p]]
    BY <1>2
  <2> QED
    BY <2>1, <2>2 DEF IsStep
<1>5. PICK f : Recursive(f, Len(events), NameMaps, map, F)
  BY <1>1, <1>4, Recursion
<1>6. f \in [0..Len(events) -> NameMaps] /\ f[0] = map
  BY <1>5 DEF Recursive
<1>7. ASSUME NEW i \in 1..Len(events) PROVE f[i] = Named(f[i - 1], events[i])
  <2>1. i - 1 \in 0..Len(events)
    BY <1>1
  <2>2. f[i - 1] \in NameMaps
    BY <1>6, <2>1
  <2> QED
    BY <1>3, <1>5, <2>2 DEF Recursive
<1>8. Is(f)
  BY <1>6, <1>7
<1>9. MapAfter(map, events) = CHOOSE g : Is(g)
  BY DEF MapAfter
<1>10. PICK L : L = MapAfter(map, events) /\ Is(L)
  BY <1>8, <1>9
<1>11. L[0] = map /\ \A i \in 1..Len(events) : L[i] = Named(L[i - 1], events[i])
  BY <1>1, <1>10
<1> HIDE DEF Is
<1> DEFINE NamesAll(m, i) ==
             /\ m \in NameMaps /\ Extending(m, map)
             /\ \A k \in 1..i : events[k].kind # "vote" => events[k].sender \in DOMAIN m
           T == {i \in 0..Len(events) : NamesAll(L[i], i)}
<1>12. 0 \in T
  BY <1>1, <1>11 DEF Extending
<1>13. ASSUME NEW i \in 1..Len(events), i - 1 \in T PROVE i \in T
  <2>1. NamesAll(L[i - 1], i - 1)
    BY <1>13
  <2>2. PICK m : m = L[i]
    OBVIOUS
  <2>3. m = Named(L[i - 1], events[i])
    BY <1>11, <2>2
  <2>4. /\ m \in NameMaps /\ Extending(m, L[i - 1])
        /\ events[i].kind # "vote" => events[i].sender \in DOMAIN m
    BY <2>1, <2>3, NamedIs
  <2>5. Extending(m, map)
    BY <2>1, <2>4 DEF Extending
  <2>6. ASSUME NEW k \in 1..i, events[k].kind # "vote"
        PROVE  events[k].sender \in DOMAIN m
    <3>1. CASE k = i
      BY <2>4, <2>6, <3>1
    <3>2. CASE k # i
      <4>1. k \in 1..(i - 1)
        BY <3>2
      <4>2. events[k].sender \in DOMAIN L[i - 1]
        BY <2>1, <2>6, <4>1
      <4> QED
        BY <2>4, <4>2 DEF Extending
    <3> QED
      BY <3>1, <3>2
  <2> QED
    BY <2>2, <2>4, <2>5, <2>6
<1> HIDE DEF T
<1>14. \A i \in 0..Len(events) : i \in T
  BY <1>1, <1>12, <1>13, AllUpTo
<1>15. NamesAll(L[Len(events)], Len(events))
  BY <1>1, <1>14 DEF T
<1> QED
  BY <1>10, <1>15

-----------------------------------------------------------------------------
(* The messages of a parsing. *)

LEMMA RawIs ==
  ASSUME NEW raw \in RawChats
  PROVE  /\ raw \in Seq(ToSet(raw)) /\ Len(raw) \in Nat /\ DOMAIN raw = 1..Len(raw)
         /\ \A k \in DOMAIN raw : raw[k] \in ToSet(raw) /\ raw[k].sender \in Senders
         /\ \A k, n \in DOMAIN raw : raw[k].id = raw[n].id => k = n
         /\ \A e \in ToSet(raw) : \E k \in DOMAIN raw : e = raw[k]
<1>1. PICK E : E = ToSet(raw)
  OBVIOUS
<1>2. raw \in Seq(E)
  BY <1>1, ParsingAssumption
<1>3. Len(raw) \in Nat /\ DOMAIN raw = 1..Len(raw)
  BY <1>2
<1>4. \A e \in ToSet(raw) : \E k \in DOMAIN raw : e = raw[k]
  BY DEF ToSet
<1>5. \A k \in DOMAIN raw : raw[k] \in ToSet(raw)
  BY DEF ToSet
<1> QED
  BY <1>1, <1>2, <1>3, <1>4, <1>5, ParsingAssumption

LEMMA SliceIs ==
  ASSUME NEW V, NEW s \in Seq(V), NEW n \in Nat, NEW last \in Nat, n < last,
         last <= Len(s), NEW t, t = SubSeq(s, n + 1, last)
  PROVE  /\ t \in Seq(V) /\ Len(t) = last - n
         /\ \A i \in 1..Len(t) : t[i] = s[n + i]
OBVIOUS

LEMMA Joined ==
  ASSUME NEW raw \in RawChats, NEW n \in Nat, NEW last \in Nat, n <= last,
         NEW a, ComeFrom(a, raw, 0, n), NEW b, ComeFrom(b, raw, n, last)
  PROVE  ComeFrom(a \o b, raw, 0, last)
<1>1. PICK M : M = RawMessages(raw)
  OBVIOUS
<1>2. PICK c : c = a \o b
  OBVIOUS
<1>3. a \in Seq(M) /\ b \in Seq(M)
  BY <1>1 DEF ComeFrom
<1>4. /\ c \in Seq(M) /\ Len(a) \in Nat /\ Len(b) \in Nat /\ Len(c) = Len(a) + Len(b)
      /\ \A i \in 1..Len(c) : c[i] = IF i <= Len(a) THEN a[i] ELSE b[i - Len(a)]
  BY <1>2, <1>3
<1>5. DOMAIN a = 1..Len(a) /\ DOMAIN b = 1..Len(b) /\ DOMAIN c = 1..Len(c)
  BY <1>3, <1>4
<1>6. DOMAIN raw \subseteq Nat /\ \A k, m \in DOMAIN raw : raw[k].id = raw[m].id => k = m
  BY RawIs
<1>7. ASSUME NEW i \in DOMAIN a
      PROVE  \E k \in DOMAIN raw : 0 < k /\ k <= n /\ IsOfEvent(a[i], raw[k])
  BY DEF ComeFrom
<1>8. ASSUME NEW i \in DOMAIN b
      PROVE  \E k \in DOMAIN raw : n < k /\ k <= last /\ IsOfEvent(b[i], raw[k])
  BY DEF ComeFrom
<1>9. ASSUME NEW i \in DOMAIN c
      PROVE  \/ i \in DOMAIN a /\ c[i] = a[i]
             \/ i - Len(a) \in DOMAIN b /\ c[i] = b[i - Len(a)]
  BY <1>4, <1>5
<1>10. ASSUME NEW i \in DOMAIN c
       PROVE  \E k \in DOMAIN raw : 0 < k /\ k <= last /\ IsOfEvent(c[i], raw[k])
  <2>1. CASE i \in DOMAIN a /\ c[i] = a[i]
    <3>1. PICK k \in DOMAIN raw : 0 < k /\ k <= n /\ IsOfEvent(a[i], raw[k])
      BY <1>7, <2>1
    <3>2. k <= last
      BY <1>6, <3>1
    <3> QED
      BY <2>1, <3>1, <3>2
  <2>2. CASE i - Len(a) \in DOMAIN b /\ c[i] = b[i - Len(a)]
    <3>1. PICK k \in DOMAIN raw :
            n < k /\ k <= last /\ IsOfEvent(b[i - Len(a)], raw[k])
      BY <1>8, <2>2
    <3>2. 0 < k
      BY <1>6, <3>1
    <3> QED
      BY <2>2, <3>1, <3>2
  <2> QED
    BY <1>9, <2>1, <2>2
<1>11. ASSUME NEW i \in DOMAIN a, NEW j \in DOMAIN b PROVE a[i].event # b[j].event
  <2>1. PICK k \in DOMAIN raw : 0 < k /\ k <= n /\ IsOfEvent(a[i], raw[k])
    BY <1>7
  <2>2. PICK m \in DOMAIN raw : n < m /\ m <= last /\ IsOfEvent(b[j], raw[m])
    BY <1>8
  <2>3. k # m
    BY <1>6, <2>1, <2>2
  <2> QED
    BY <1>6, <2>1, <2>2, <2>3 DEF IsOfEvent
<1>12. ASSUME NEW i \in DOMAIN c, NEW j \in DOMAIN c, c[i].event = c[j].event PROVE i = j
  <2>1. CASE i \in DOMAIN a /\ c[i] = a[i] /\ j \in DOMAIN a /\ c[j] = a[j]
    BY <1>12, <2>1 DEF ComeFrom
  <2>2. CASE /\ i - Len(a) \in DOMAIN b /\ c[i] = b[i - Len(a)]
             /\ j - Len(a) \in DOMAIN b /\ c[j] = b[j - Len(a)]
    <3>1. i - Len(a) = j - Len(a)
      BY <1>12, <2>2 DEF ComeFrom
    <3> QED
      BY <1>4, <1>5, <3>1
  <2> QED
    BY <1>9, <1>11, <1>12, <2>1, <2>2
<1> QED
  BY <1>1, <1>2, <1>4, <1>10, <1>12 DEF ComeFrom

MessagesOf(posts, map) ==
  [i \in DOMAIN posts |->
     [event |-> posts[i].id, name |-> map[posts[i].sender], ref |-> posts[i].ref,
      hidden |-> posts[i].hidden]]

\* The messages of a chunk: of its posts, each once.
LEMMA ChunkComes ==
  ASSUME NEW raw \in RawChats, NEW n \in Nat, NEW last \in Nat, NEW size \in Nat,
         last <= n + size, last <= Len(raw), n < last,
         NEW events, events = SubSeq(raw, n + 1, last),
         NEW map, map \in NameMaps,
         \A i \in 1..Len(events) :
           events[i].kind # "vote" => events[i].sender \in DOMAIN map,
         NEW posts, posts = Posts(events),
         NEW new, new = MessagesOf(posts, map)
  PROVE  ComeFrom(new, raw, n, n + size)
<1>1. PICK E : E = ToSet(raw)
  OBVIOUS
<1>2. raw \in Seq(E) /\ Len(raw) \in Nat
  BY <1>1, RawIs
<1>3. /\ events \in Seq(E) /\ Len(events) = last - n
      /\ \A i \in 1..Len(events) : events[i] = raw[n + i]
  BY <1>2
<1>4. Len(events) \in Nat /\ DOMAIN events = 1..Len(events)
  BY <1>3
<1>5. PICK places : places = {i \in DOMAIN events : events[i].kind # "vote"}
  OBVIOUS
<1>6. Picks(posts, events, E, places, Len(events))
  BY <1>3, <1>5, PickedIs DEF Posts
<1>7. PICK f \in [1..Len(posts) -> 1..Len(events)] :
        /\ \A j \in 1..Len(posts) : f[j] \in places /\ posts[j] = events[f[j]]
        /\ \A j, k \in 1..Len(posts) : f[j] = f[k] => j = k
  BY <1>6 DEF Picks
<1>8. posts \in Seq(E) /\ Len(posts) \in Nat /\ DOMAIN posts = 1..Len(posts)
  BY <1>6 DEF Picks
<1>9. ASSUME NEW i \in 1..Len(posts)
      PROVE  /\ n + f[i] \in DOMAIN raw /\ n < n + f[i] /\ n + f[i] <= n + size
             /\ posts[i] = raw[n + f[i]] /\ posts[i] \in ToSet(raw)
             /\ map[posts[i].sender] \in Nat
  <2>1. f[i] \in 1..Len(events) /\ f[i] \in places /\ posts[i] = events[f[i]]
    BY <1>7
  <2>2. n + f[i] \in 1..Len(raw) /\ n < n + f[i] /\ n + f[i] <= n + size
    BY <1>2, <1>3, <2>1
  <2>3. posts[i] = raw[n + f[i]] /\ posts[i].sender \in DOMAIN map
    BY <1>3, <1>5, <2>1
  <2>4. map[posts[i].sender] \in Nat
    BY <2>3 DEF NameMaps
  <2>5. posts[i] \in ToSet(raw) /\ n + f[i] \in DOMAIN raw
    BY <2>2, <2>3, RawIs
  <2> QED
    BY <2>2, <2>3, <2>4, <2>5
<1>10. ASSUME NEW i \in 1..Len(posts)
       PROVE  /\ new[i] \in RawMessages(raw) /\ new[i].event = posts[i].id
              /\ IsOfEvent(new[i], raw[n + f[i]])
  <2>1. PICK e \in ToSet(raw) : e = posts[i]
    BY <1>9
  <2>2. new[i] = [event |-> e.id, name |-> map[e.sender], ref |-> e.ref,
                  hidden |-> e.hidden]
    BY <1>8, <2>1 DEF MessagesOf
  <2>3. map[e.sender] \in Nat
    BY <1>9, <2>1
  <2>4. new[i] \in RawMessages(raw)
    BY <2>2, <2>3 DEF RawMessages
  <2>5. /\ new[i].event = e.id /\ new[i].ref = e.ref /\ new[i].hidden = e.hidden
    BY <2>2
  <2> QED
    BY <1>9, <2>1, <2>4, <2>5 DEF IsOfEvent
<1>11. DOMAIN new = 1..Len(posts) /\ new \in Seq(RawMessages(raw))
  <2>1. PICK M : M = RawMessages(raw)
    OBVIOUS
  <2>2. new = [i \in 1..Len(posts) |-> new[i]]
    BY <1>8, Zenon DEF MessagesOf
  <2>3. \A i \in 1..Len(posts) : new[i] \in M
    BY <1>10, <2>1
  <2>4. PICK l \in Nat : l = Len(posts)
    BY <1>8
  <2>5. PICK g : g = [i \in 1..l |-> new[i]]
    OBVIOUS
  <2>6. g \in [1..l -> M]
    BY <2>3, <2>4, <2>5
  <2>7. g \in Seq(M) /\ DOMAIN g = 1..l
    <3>1. [1..l -> M] \in {[1..k -> M] : k \in Nat}
      BY <2>4, Zenon
    <3>2. g \in Seq(M)
      BY <2>6, <3>1, SeqDef, Zenon
    <3> QED
      BY <2>5, <3>2, Zenon
  <2>8. g = new
    BY <2>2, <2>4, <2>5, Zenon
  <2> QED
    BY <2>1, <2>4, <2>7, <2>8, Zenon
<1>12. ASSUME NEW i \in DOMAIN new, NEW j \in DOMAIN new, new[i].event = new[j].event
       PROVE  i = j
  <2>1. i \in 1..Len(posts) /\ j \in 1..Len(posts)
    BY <1>11
  <2>2. raw[n + f[i]].id = raw[n + f[j]].id
    BY <1>9, <1>10, <1>12, <2>1
  <2>3. n + f[i] = n + f[j]
    BY <1>9, <2>1, <2>2, RawIs
  <2>4. f[i] = f[j]
    BY <1>7, <2>1, <2>3
  <2> QED
    BY <1>7, <2>1, <2>4
<1>13. \A i \in DOMAIN new :
         \E k \in DOMAIN raw : n < k /\ k <= n + size /\ IsOfEvent(new[i], raw[k])
  BY <1>9, <1>10, <1>11
<1> QED
  BY <1>11, <1>12, <1>13, Zenon DEF ComeFrom

\* What is kept of the messages, with the ids shortened.
LEMMA CleanResolves ==
  ASSUME NEW raw \in RawChats, NEW last, NEW listed, ComeFrom(listed, raw, 0, last)
  PROVE  Resolved(Clean(listed), raw)
<1>1. PICK M : M = RawMessages(raw)
  OBVIOUS
<1>2. PICK kept : kept = Kept(listed)
  OBVIOUS
<1>3. PICK places : places = {i \in DOMAIN listed : ~listed[i].hidden}
  OBVIOUS
<1>4. listed \in Seq(M) /\ Len(listed) \in Nat /\ DOMAIN listed = 1..Len(listed)
  BY <1>1 DEF ComeFrom
<1>5. Picks(kept, listed, M, places, Len(listed))
  BY <1>2, <1>3, <1>4, PickedIs DEF Kept
<1>6. PICK f \in [1..Len(kept) -> 1..Len(listed)] :
        /\ \A j \in 1..Len(kept) : f[j] \in places /\ kept[j] = listed[f[j]]
        /\ \A j, k \in 1..Len(kept) : f[j] = f[k] => j = k
  BY <1>5 DEF Picks
<1>7. kept \in Seq(M) /\ DOMAIN kept = 1..Len(kept)
  BY <1>5 DEF Picks
<1>8. ASSUME NEW i \in DOMAIN kept
      PROVE  kept[i] \in M /\ \E k \in DOMAIN raw : IsOfEvent(kept[i], raw[k])
  BY <1>4, <1>6, <1>7 DEF ComeFrom
<1>9. ASSUME NEW i \in DOMAIN kept, NEW j \in DOMAIN kept, kept[i].event = kept[j].event
      PROVE  i = j
  BY <1>4, <1>6, <1>7, <1>9 DEF ComeFrom
<1>10. PICK clean : clean = Clean(listed)
  OBVIOUS
<1> DEFINE Answered(i) == {j \in DOMAIN kept : kept[j].event = kept[i].ref}
           NewRef(i) == IF kept[i].ref = NoRef THEN NoRef
                        ELSE IF Answered(i) # {}
                        THEN FirstId - 1 + CHOOSE j \in DOMAIN kept :
                                             kept[j].event = kept[i].ref
                        ELSE Older
<1>11. ASSUME NEW i \in DOMAIN kept
       PROVE  clean[i].event = kept[i].event /\ clean[i].ref = NewRef(i)
  <2>1. PICK m \in M : m = kept[i]
    BY <1>8
  <2>2. (\E k \in ToSet(kept) : k.event = m.ref) <=> Answered(i) # {}
    BY <2>1 DEF ToSet
  <2>3. PICK ref : ref = NewRef(i)
    OBVIOUS
  <2>4. clean[i] = [m EXCEPT !.ref = ref]
    <3> HIDE DEF Answered
    <3>1. clean[i] = [kept[i] EXCEPT !.ref =
                       IF @ = NoRef THEN NoRef
                       ELSE IF \E k \in ToSet(kept) : k.event = @
                       THEN ShortId(kept, @) ELSE Older]
      BY <1>2, <1>10 DEF Clean
    <3>2. ref = IF m.ref = NoRef THEN NoRef
                ELSE IF \E k \in ToSet(kept) : k.event = m.ref
                THEN ShortId(kept, m.ref) ELSE Older
      BY <2>1, <2>2, <2>3 DEF ShortId
    <3> QED
      BY <2>1, <3>1, <3>2
  <2>5. clean[i].event = m.event /\ clean[i].ref = ref
    BY <1>1, <2>4 DEF RawMessages
  <2> QED
    BY <2>1, <2>3, <2>5
<1>12. DOMAIN clean = DOMAIN kept
  BY <1>2, <1>10 DEF Clean
<1>13. ASSUME NEW i \in DOMAIN clean
       PROVE  clean[i].ref = ReplyTo(clean, EventOf(clean[i], raw))
  <2>1. PICK k \in DOMAIN raw : IsOfEvent(kept[i], raw[k])
    BY <1>8, <1>12
  <2>2. raw[k] \in ToSet(raw) /\ raw[k].id = clean[i].event
    BY <1>11, <1>12, <2>1, RawIs DEF IsOfEvent
  <2>3. PICK event : event = EventOf(clean[i], raw)
    OBVIOUS
  <2>4. event \in ToSet(raw) /\ event.id = clean[i].event
    BY <2>2, <2>3 DEF EventOf
  <2>5. event = raw[k]
    BY <2>2, <2>4, RawIs
  <2>6. event.ref = kept[i].ref
    BY <2>1, <2>5 DEF IsOfEvent
  <2>7. PICK answered : answered = AnsweredIn(clean, event)
    OBVIOUS
  <2>8. answered = Answered(i)
    BY <1>11, <1>12, <2>6, <2>7 DEF AnsweredIn
  <2>9. ASSUME answered # {}
        PROVE  (CHOOSE j \in DOMAIN kept : kept[j].event = kept[i].ref)
                 = CHOOSE j \in answered : TRUE
    <3>1. PICK a : a = CHOOSE j \in DOMAIN kept : kept[j].event = kept[i].ref
      OBVIOUS
    <3>2. PICK b : b = CHOOSE j \in answered : TRUE
      OBVIOUS
    <3>3. a \in DOMAIN kept /\ kept[a].event = kept[i].ref
      BY <2>8, <2>9, <3>1
    <3>4. b \in DOMAIN kept /\ kept[b].event = kept[i].ref
      BY <2>8, <2>9, <3>2
    <3> QED
      BY <1>9, <3>1, <3>2, <3>3, <3>4
  <2>10. clean[i].ref = NewRef(i)
    BY <1>11, <1>12
  <2> HIDE DEF Answered
  <2>11. clean[i].ref = IF event.ref = NoRef THEN NoRef
                        ELSE IF answered = {} THEN Older
                        ELSE FirstId - 1 + CHOOSE j \in answered : TRUE
    BY <2>6, <2>8, <2>9, <2>10
  <2> QED
    BY <2>3, <2>7, <2>11, Zenon DEF ReplyTo
<1> QED
  BY <1>10, <1>13 DEF Resolved

-----------------------------------------------------------------------------
(* The steps of a parsing. *)

LEMMA NoNames == << >> \in NameMaps
<1>1. PICK e : e = << >>
  OBVIOUS
<1>2. e \in [{} -> Nat] /\ DOMAIN e = {}
  BY <1>1
<1>3. e \in NameMaps
  BY <1>2 DEF NameMaps
<1> QED
  BY <1>1, <1>3

LEMMA NoMessages == ASSUME NEW raw PROVE ComeFrom(<< >>, raw, 0, 0)
<1>1. PICK M : M = RawMessages(raw)
  OBVIOUS
<1>2. PICK e : e = << >>
  OBVIOUS
<1>3. e \in Seq(M) /\ DOMAIN e = {}
  BY <1>2
<1> QED
  BY <1>1, <1>2, <1>3 DEF ComeFrom

\* A parsing in parts; so a change of it keeps the others.
LEMMA ParsingParts ==
  ASSUME NEW at, NEW raw, NEW c, NEW map, NEW parsed, NEW polls, NEW x,
         x = [at |-> at, raw |-> raw, chunk |-> c, map |-> map, parsed |-> parsed,
              polls |-> polls]
  PROVE  /\ IsParsing(x) /\ x.at = at /\ x.raw = raw /\ x.chunk = c /\ x.map = map
         /\ x.parsed = parsed
BY DEF IsParsing

LEMMA RestingFits == ParsingFits(Resting) /\ Resting.at = "idle"
<1>1. PICK x : x = Resting
  OBVIOUS
<1>2. /\ IsParsing(x) /\ x.at = "idle" /\ x.chunk = 0 /\ x.map = << >>
  BY <1>1, ParsingParts DEF Resting
<1>3. ParsingFits(x)
  BY <1>2, NoNames DEF ParsingFits
<1> QED
  BY <1>1, <1>2, <1>3

LEMMA ParserMoves ==
  ASSUME ParsingInv, NEW p \in Parsers, NEW x, ParsingFits(x),
         parser' = [parser EXCEPT ![p] = x]
  PROVE  /\ parser' = [q \in Parsers |-> parser'[q]]
         /\ \A q \in Parsers : ParsingFits(parser'[q])
         /\ parser'[p] = x /\ \A q \in Parsers : q # p => parser'[q] = parser[q]
         /\ \A q \in Underway' : q \in Underway \/ q = p
         /\ x.at \notin {"chunks", "persist"} => p \notin Underway'
<1>1. parser = [q \in Parsers |-> parser[q]] /\ \A q \in Parsers : ParsingFits(parser[q])
  BY DEF ParsingInv
<1> HIDE DEF ParsingInv
<1>2. /\ parser' = [q \in Parsers |-> parser'[q]] /\ parser'[p] = x
      /\ \A q \in Parsers : q # p => parser'[q] = parser[q]
  BY <1>1
<1> QED
  BY <1>1, <1>2, Zenon DEF Underway

LEMMA StartKeeps ==
  ASSUME ParsingInv, NEW p \in Parsers, StartParsing(p)
  PROVE  ParsingInv'
<1>1. PICK raw \in RawChats, map \in {names, << >>} :
        /\ IF map = names THEN UNCHANGED lapses ELSE Lapse
        /\ parser' = [parser EXCEPT ![p] =
                        [Resting EXCEPT !.at = "chunks", !.raw = raw, !.map = map]]
  BY DEF StartParsing
<1>2. PICK x : x = [Resting EXCEPT !.at = "chunks", !.raw = raw, !.map = map]
  OBVIOUS
<1>3. x = [at |-> "chunks", raw |-> raw, chunk |-> 0, map |-> map, parsed |-> << >>,
           polls |-> {}]
  BY <1>2, Zenon DEF Resting
<1>4. /\ IsParsing(x) /\ x.at = "chunks" /\ x.raw = raw /\ x.chunk = 0 /\ x.map = map
      /\ x.parsed = << >>
  BY <1>3, ParsingParts
<1>5. map \in NameMaps
  BY NoNames DEF ParsingInv
<1>6. ParsingFits(x)
  <2>1. 0 * ParseSize = 0
    BY ParsingAssumption
  <2> QED
    BY <1>4, <1>5, <2>1, NoMessages DEF ParsingFits
<1>7. parser' = [parser EXCEPT ![p] = x]
  BY <1>1, <1>2
<1>8. /\ parser' = [q \in Parsers |-> parser'[q]]
      /\ \A q \in Parsers : ParsingFits(parser'[q])
      /\ parser'[p] = x /\ \A q \in Parsers : q # p => parser'[q] = parser[q]
      /\ \A q \in Underway' : q \in Underway \/ q = p
  BY <1>6, <1>7, ParserMoves
<1>9. /\ names' = names /\ lapses \in Nat /\ lapses' \in Nat
      /\ lapses' = 0 => map = names
  BY <1>1 DEF StartParsing, Lapse, ParsingInv
<1>10. ~ParsersOverlap => Underway = {}
  BY DEF StartParsing, Underway
<1>11. ~ParsersOverlap => \A q, r \in Underway' : q = r
  BY <1>8, <1>10
<1>12. ASSUME ~ParsersOverlap, lapses' = 0, NEW q \in Underway'
       PROVE  Extending(parser'[q].map, names')
  <2>1. q = p
    BY <1>8, <1>10, <1>12
  <2>2. parser'[q].map = names
    BY <1>4, <1>8, <1>9, <1>12, <2>1
  <2> QED
    BY <1>9, <2>2 DEF Extending
<1> QED
  BY <1>8, <1>9, <1>11, <1>12 DEF ParsingInv

LEMMA ChunkKeeps ==
  ASSUME ParsingInv, NEW p \in Parsers, ParseChunk(p)
  PROVE  ParsingInv'
<1>1. PICK old : old = parser[p]
  OBVIOUS
<1>2. /\ ParsingFits(old) /\ old.at = "chunks" /\ old.chunk * ParseSize < Len(old.raw)
  BY <1>1 DEF ParsingInv, ParseChunk
<1>3. /\ IsParsing(old) /\ old.raw \in RawChats /\ old.map \in NameMaps /\ old.chunk \in Nat
      /\ ComeFrom(old.parsed, old.raw, 0, old.chunk * ParseSize)
  BY <1>2 DEF ParsingFits
<1>4. PICK n \in Nat : n = old.chunk * ParseSize
  BY <1>3, ParsingAssumption
<1>5. n + ParseSize = (old.chunk + 1) * ParseSize /\ ParseSize \in Nat \ {0}
  BY <1>3, <1>4, ParsingAssumption
<1>6. PICK raw \in RawChats : raw = old.raw
  BY <1>3
<1>7. Len(raw) \in Nat /\ n < Len(raw)
  BY <1>2, <1>4, <1>6, RawIs
<1>8. PICK last : last = IF n + ParseSize < Len(raw) THEN n + ParseSize ELSE Len(raw)
  OBVIOUS
<1>9. last \in Nat /\ n < last /\ last <= n + ParseSize /\ last <= Len(raw)
  BY <1>5, <1>7, <1>8
<1>10. PICK events : events = SubSeq(raw, n + 1, last)
  OBVIOUS
<1>11. ChunkEvents(p) = events
  BY <1>1, <1>4, <1>5, <1>6, <1>8, <1>10 DEF ChunkEvents
<1>12. PICK map : map = MapAfter(old.map, events)[Len(events)]
  OBVIOUS
<1>13. PICK posts : posts = Posts(events)
  OBVIOUS
<1>14. PICK new : new = MessagesOf(posts, map)
  OBVIOUS
<1>15. /\ map \in NameMaps /\ Extending(map, old.map)
       /\ \A i \in 1..Len(events) :
            events[i].kind # "vote" => events[i].sender \in DOMAIN map
  <2>1. PICK E : E = ToSet(raw)
    OBVIOUS
  <2>2. raw \in Seq(E)
    BY <2>1, RawIs
  <2>3. /\ events \in Seq(E) /\ Len(events) = last - n
        /\ \A i \in 1..Len(events) : events[i] = raw[n + i]
    BY <1>9, <1>10, <2>2, SliceIs
  <2>4. ASSUME NEW i \in 1..Len(events) PROVE events[i].sender \in Senders
    <3>1. n + i \in 1..Len(raw)
      BY <1>7, <1>9, <2>3
    <3> QED
      BY <2>3, <3>1, RawIs
  <2> QED
    BY <1>3, <1>12, <2>3, <2>4, MapAfterIs
<1>16. ComeFrom(new, raw, n, n + ParseSize)
  <2>1. PICK size \in Nat : size = ParseSize
    BY <1>5
  <2>2. last <= n + size
    BY <1>9, <2>1
  <2>3. ComeFrom(new, raw, n, n + size)
    BY <1>9, <1>10, <1>13, <1>14, <1>15, <2>2, ChunkComes
  <2> QED
    BY <2>1, <2>3
<1>17. PICK parsed : parsed = old.parsed \o new
  OBVIOUS
<1>18. ComeFrom(parsed, raw, 0, n + ParseSize)
  <2>1. n + ParseSize \in Nat /\ n <= n + ParseSize
    BY <1>5
  <2> QED
    BY <1>3, <1>4, <1>6, <1>16, <1>17, <2>1, Joined
<1>19. PICK polls, x :
         /\ x = [old EXCEPT !.chunk = @ + 1, !.map = map, !.parsed = parsed,
                            !.polls = polls]
         /\ parser' = [parser EXCEPT ![p] = x]
  <2>1. PICK polls :
          parser' = [parser EXCEPT ![p].chunk = @ + 1, ![p].map = map,
                                   ![p].parsed = @ \o new, ![p].polls = polls]
    BY <1>1, <1>11, <1>12, <1>13, <1>14, Zenon DEF ParseChunk, MessagesOf
  <2>2. PICK x : x = [old EXCEPT !.chunk = @ + 1, !.map = map, !.parsed = parsed,
                                 !.polls = polls]
    OBVIOUS
  <2>3. parser' = [parser EXCEPT ![p] = x]
    BY <1>1, <1>17, <2>1, <2>2, Zenon
  <2> QED
    BY <2>2, <2>3
<1>20. x = [at |-> old.at, raw |-> old.raw, chunk |-> old.chunk + 1, map |-> map,
            parsed |-> parsed, polls |-> polls]
  BY <1>3, <1>19, Zenon DEF IsParsing
<1>21. /\ IsParsing(x) /\ x.at = "chunks" /\ x.raw = raw /\ x.chunk = old.chunk + 1
       /\ x.map = map /\ x.parsed = parsed
  BY <1>2, <1>6, <1>20, ParsingParts
<1>22. ParsingFits(x)
  BY <1>3, <1>5, <1>15, <1>18, <1>21 DEF ParsingFits
<1>23. /\ parser' = [q \in Parsers |-> parser'[q]]
       /\ \A q \in Parsers : ParsingFits(parser'[q])
       /\ parser'[p] = x /\ \A q \in Parsers : q # p => parser'[q] = parser[q]
       /\ \A q \in Underway' : q \in Underway \/ q = p
  BY <1>19, <1>22, ParserMoves
<1>24. p \in Underway /\ UNCHANGED <<names, lapses>>
  BY DEF ParseChunk, Underway
<1>25. ~ParsersOverlap => \A q, r \in Underway' : q = r
  BY <1>23, <1>24 DEF ParsingInv
<1>26. ASSUME ~ParsersOverlap, lapses' = 0, NEW q \in Underway'
       PROVE  Extending(parser'[q].map, names')
  <2>1. q = p
    BY <1>23, <1>24, <1>26 DEF ParsingInv
  <2>2. Extending(old.map, names)
    BY <1>1, <1>24, <1>26 DEF ParsingInv
  <2>3. Extending(map, names)
    BY <1>15, <2>2 DEF Extending
  <2> QED
    BY <1>21, <1>23, <1>24, <2>1, <2>3
<1> QED
  BY <1>23, <1>24, <1>25, <1>26 DEF ParsingInv

\* A parsing that goes on, or ends, with the map it has.
LEMMA OnKeeps ==
  ASSUME ParsingInv, NEW p \in Parsers, NEW x, ParsingFits(x),
         parser' = [parser EXCEPT ![p] = x], UNCHANGED <<names, lapses>>,
         \/ x.at \notin {"chunks", "persist"}
         \/ p \in Underway /\ x.map = parser[p].map
  PROVE  ParsingInv'
<1>1. /\ parser' = [q \in Parsers |-> parser'[q]]
      /\ \A q \in Parsers : ParsingFits(parser'[q])
      /\ parser'[p] = x /\ \A q \in Parsers : q # p => parser'[q] = parser[q]
      /\ \A q \in Underway' : q \in Underway \/ q = p
      /\ x.at \notin {"chunks", "persist"} => p \notin Underway'
  BY ParserMoves
<1>2. \A q \in Underway' : q \in Underway /\ parser'[q].map = parser[q].map
  BY <1>1 DEF Underway
<1> QED
  BY <1>1, <1>2 DEF ParsingInv

LEMMA FinishKeeps ==
  ASSUME ParsingInv, NEW p \in Parsers, FinishParsing(p)
  PROVE  ParsingInv'
<1>1. PICK old : old = parser[p]
  OBVIOUS
<1>2. ParsingFits(old) /\ old.at = "chunks" /\ p \in Underway
  BY <1>1 DEF ParsingInv, FinishParsing, Underway
<1>3. /\ IsParsing(old) /\ old.raw \in RawChats /\ old.map \in NameMaps /\ old.chunk \in Nat
      /\ ComeFrom(old.parsed, old.raw, 0, old.chunk * ParseSize)
  BY <1>2 DEF ParsingFits
<1>4. PICK parsed : parsed = Clean(old.parsed)
  OBVIOUS
<1>5. Resolved(parsed, old.raw)
  BY <1>3, <1>4, CleanResolves
<1>6. PICK x : x = [old EXCEPT !.parsed = parsed, !.at = "persist"]
  OBVIOUS
<1>7. parser' = [parser EXCEPT ![p] = x]
  BY <1>1, <1>4, <1>6, Zenon DEF FinishParsing
<1>8. x = [at |-> "persist", raw |-> old.raw, chunk |-> old.chunk, map |-> old.map,
           parsed |-> parsed, polls |-> old.polls]
  BY <1>3, <1>6, Zenon DEF IsParsing
<1>9. /\ IsParsing(x) /\ x.at = "persist" /\ x.raw = old.raw /\ x.chunk = old.chunk
      /\ x.map = old.map /\ x.parsed = parsed
  BY <1>8, ParsingParts
<1>10. ParsingFits(x)
  BY <1>3, <1>5, <1>9 DEF ParsingFits
<1> QED
  BY <1>1, <1>2, <1>7, <1>9, <1>10, OnKeeps DEF FinishParsing

LEMMA PersistKeeps ==
  ASSUME ParsingInv, NEW p \in Parsers, PersistNames(p)
  PROVE  /\ ParsingInv'
         /\ ~ParsersOverlap /\ lapses' = 0 => Extending(names', names)
<1>1. PICK old : old = parser[p]
  OBVIOUS
<1>2. ParsingFits(old) /\ old.at = "persist" /\ p \in Underway
  BY <1>1 DEF ParsingInv, PersistNames, Underway
<1>3. /\ IsParsing(old) /\ old.raw \in RawChats /\ old.map \in NameMaps /\ old.chunk \in Nat
      /\ Resolved(old.parsed, old.raw)
  BY <1>2 DEF ParsingFits
<1>4. PICK x : x = [old EXCEPT !.at = "done"]
  OBVIOUS
<1>5. parser' = [parser EXCEPT ![p] = x]
  BY <1>1, <1>4 DEF PersistNames
<1>6. x = [at |-> "done", raw |-> old.raw, chunk |-> old.chunk, map |-> old.map,
           parsed |-> old.parsed, polls |-> old.polls]
  BY <1>3, <1>4, Zenon DEF IsParsing
<1>7. /\ IsParsing(x) /\ x.at = "done" /\ x.raw = old.raw /\ x.chunk = old.chunk
      /\ x.map = old.map /\ x.parsed = old.parsed
  BY <1>6, ParsingParts
<1>8. ParsingFits(x)
  BY <1>3, <1>7 DEF ParsingFits
<1>9. /\ parser' = [q \in Parsers |-> parser'[q]]
      /\ \A q \in Parsers : ParsingFits(parser'[q])
      /\ parser'[p] = x /\ \A q \in Parsers : q # p => parser'[q] = parser[q]
      /\ \A q \in Underway' : q \in Underway \/ q = p
      /\ x.at \notin {"chunks", "persist"} => p \notin Underway'
  BY <1>5, <1>8, ParserMoves
<1>10. \A q \in Underway' : q \in Underway /\ q # p
  BY <1>7, <1>9
<1>11. /\ names' \in {names, old.map} /\ lapses \in Nat /\ lapses' \in Nat
       /\ lapses' = 0 => lapses = 0
  BY <1>1 DEF PersistNames, Persisted, Lapse, ParsingInv
<1>12. ~ParsersOverlap => Underway' = {}
  BY <1>2, <1>10 DEF ParsingInv
<1>13. ASSUME ~ParsersOverlap, lapses' = 0 PROVE Extending(names', names)
  <2>1. Extending(old.map, names)
    BY <1>1, <1>2, <1>11, <1>13 DEF ParsingInv
  <2> QED
    BY <1>11, <2>1 DEF Extending
<1>14. names' \in NameMaps
  BY <1>3, <1>11 DEF ParsingInv
<1>15. ParsersOverlap \in BOOLEAN
  BY ParsingAssumption
<1> QED
  BY <1>9, <1>11, <1>12, <1>13, <1>14 DEF ParsingInv

LEMMA ParsingBegins == ParsingInit => ParsingInv
<1> SUFFICES ASSUME ParsingInit PROVE ParsingInv
  OBVIOUS
<1>1. /\ names = << >> /\ lapses = 0
      /\ parser = [p \in Parsers |-> Resting]
  BY DEF ParsingInit
<1>2. \A p \in Parsers : parser[p] = Resting
  BY <1>1
<1>3. parser = [p \in Parsers |-> parser[p]]
  BY <1>1
<1>4. Underway = {}
  BY <1>2, RestingFits DEF Underway
<1> QED
  BY <1>1, <1>2, <1>3, <1>4, RestingFits, NoNames DEF ParsingInv

LEMMA ParsingSteps ==
  ASSUME ParsingInv, [ParsingNext]_parsingVars
  PROVE  /\ ParsingInv'
         /\ ~ParsersOverlap /\ lapses' = 0 => Extending(names', names)
<1>1. CASE UNCHANGED parsingVars
  <2>1. UNCHANGED <<names, parser, lapses>>
    BY <1>1 DEF parsingVars
  <2> QED
    BY <2>1 DEF ParsingInv, Underway, Extending
<1>2. ASSUME NEW p \in Parsers, StartParsing(p) \/ ParseChunk(p) \/ FinishParsing(p)
      PROVE  ParsingInv' /\ Extending(names', names)
  <2>1. names' = names
    BY <1>2 DEF StartParsing, ParseChunk, FinishParsing
  <2> QED
    BY <1>2, <2>1, StartKeeps, ChunkKeeps, FinishKeeps DEF Extending
<1>3. ASSUME NEW p \in Parsers, PersistNames(p)
      PROVE  /\ ParsingInv'
             /\ ~ParsersOverlap /\ lapses' = 0 => Extending(names', names)
  BY <1>3, PersistKeeps
<1>4. ASSUME NEW p \in Parsers, FailParsing(p)
      PROVE  ParsingInv' /\ Extending(names', names)
  BY <1>4, RestingFits, OnKeeps DEF FailParsing, Extending
<1> QED
  BY <1>1, <1>2, <1>3, <1>4 DEF ParsingNext

LEMMA ParsingInvariance == ParsingSpec => []ParsingInv
<1>1. ParsingInv /\ [ParsingNext]_parsingVars => ParsingInv'
  BY ParsingSteps
<1> QED
  BY <1>1, ParsingBegins, PTL DEF ParsingSpec

(***************************************************************************)
(* A reply in a processed file points at the message it answers, or at an  *)
(* older one, for any downloads, sizes of a chunk, senders and failures,   *)
(* and whether or not parsings of the chat overlap.                        *)
(***************************************************************************)
THEOREM RepliesPoint == ParsingSpec => []RepliesResolve
<1>1. ParsingInv => RepliesResolve
  <2> SUFFICES ASSUME ParsingInv, NEW p \in Parsers, Parsed(p)
               PROVE  Resolved(Output(p), parser[p].raw)
    BY DEF RepliesResolve, Resolved, ReplyTo, EventOf, AnsweredIn, Raw
  <2> QED
    BY DEF ParsingInv, ParsingFits, Parsed, Output
<1> QED
  BY <1>1, ParsingInvariance, PTL

(***************************************************************************)
(* The stored names stay those of their senders if parsings do not overlap *)
(* and the store does not fail, and no two senders ever share one.         *)
(***************************************************************************)
THEOREM NamesStay == ParsingSpec => NamesAreKept
<1>1. ParsingInv /\ [ParsingNext]_parsingVars =>
        [/\ ~ParsersOverlap /\ lapses' = 0 =>
              \A s \in DOMAIN names : s \in DOMAIN names' /\ names'[s] = names[s]
         /\ \A s, t \in DOMAIN names' : names'[s] = names'[t] => s = t]_parsingVars
  BY ParsingSteps DEF ParsingInv, NameMaps, Extending
<1> QED
  BY <1>1, ParsingInvariance, PTL DEF ParsingSpec, NamesAreKept
=============================================================================
