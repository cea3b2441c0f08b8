----------------------------- MODULE BeeperSession -----------------------------
(***************************************************************************)
(* The Matrix session of the extraction: the encryption store that every   *)
(* newsletter run replaces by that of a new login                          *)
(* (refresh_session_via_login in src/src/core/ingestion/extractors/        *)
(* beeper.py), and the copies of it that dispatch_chats makes, one for     *)
(* each worker, by the worker's position in the list of chats.  The        *)
(* directories are named by the session, the login, whose keys they hold.  *)
(***************************************************************************)
EXTENDS Naturals, FiniteSets

CONSTANTS Newsletters,   \* newsletter runs of one process
          WorkerSlots,   \* positions in the list of chats
          RunsOverlap,   \* whether runs may be alive at the same time
          MaxLogins,     \* logins in a behaviour
          MaxSetbacks,   \* failed file operations, logins and crashes
          Missing        \* no such directory

ASSUME SessionAssumption ==
  /\ RunsOverlap \in BOOLEAN /\ MaxLogins \in Nat /\ MaxSetbacks \in Nat
  /\ Missing \notin Nat

VARIABLES store,     \* the canonical store
          backup,    \* <store>_backup
          temp,      \* <store>_temp
          copy,      \* copy[i]: <store>_worker_i
          phase,      \* phase[n]: where run n is
          login,     \* login[n]: the session n logged in
          worker,    \* worker[n][i]: the state of n's worker i
          opened,    \* opened[n][i]: the session whose store it opened
          logins, setbacks

sessionVars ==
  <<store, backup, temp, copy, phase, login, worker, opened, logins, setbacks>>

Sessions == 1..MaxLogins
Directory == Sessions \cup {Missing}
BeforeDispatch == {"login", "backup", "install", "dispatch"}

SessionTypeOK ==
  /\ store \in Directory /\ backup \in Directory /\ temp \in Directory
  /\ copy \in [WorkerSlots -> Directory]
  /\ phase \in [Newsletters -> {"ended", "working"} \cup BeforeDispatch]
  /\ login \in [Newsletters -> Sessions \cup {0}]
  /\ worker \in [Newsletters -> [WorkerSlots -> {"ready", "extracting", "ended"}]]
  /\ opened \in [Newsletters -> [WorkerSlots -> Directory]]
  /\ logins \in 0..MaxLogins /\ setbacks \in 0..MaxSetbacks

SessionInit ==
  /\ store = Missing /\ backup = Missing /\ temp = Missing
  /\ copy = [i \in WorkerSlots |-> Missing]
  /\ phase = [n \in Newsletters |-> "ended"]
  /\ login = [n \in Newsletters |-> 0]
  /\ worker = [n \in Newsletters |-> [i \in WorkerSlots |-> "ended"]]
  /\ opened = [n \in Newsletters |-> [i \in WorkerSlots |-> Missing]]
  /\ logins = 0 /\ setbacks = 0

-----------------------------------------------------------------------------
Setback == setbacks < MaxSetbacks /\ setbacks' = setbacks + 1

Alive(n) == phase[n] # "ended"

To(n, next) == phase' = [phase EXCEPT ![n] = next]

BeginRun(n) ==
  /\ ~Alive(n)
  /\ RunsOverlap \/ \A m \in Newsletters : ~Alive(m)
  /\ To(n, "login")
  /\ UNCHANGED <<store, backup, temp, copy, login, worker, opened, logins, setbacks>>

\* The lock: one refresh at a time.
Locked == \E n \in Newsletters : phase[n] \in {"backup", "install"}

\* A login and a first sync fill the temporary directory.
LogInToBeeper(n) ==
  /\ phase[n] = "login" /\ ~Locked
  /\ logins < MaxLogins /\ logins' = logins + 1
  /\ temp' = logins'
  /\ login' = [login EXCEPT ![n] = logins']
  /\ To(n, "backup")
  /\ UNCHANGED <<store, backup, copy, worker, opened, setbacks>>

\* Slip: the old store is removed, and nothing is kept of it.
BackUpSlip(n) ==
  /\ phase[n] = "backup"
  /\ store' = Missing
  /\ To(n, "install")
  /\ UNCHANGED <<backup, temp, copy, login, worker, opened, logins, setbacks>>

\* The old store replaces the last backup, if there is an old store.
BackUp(n) ==
  /\ phase[n] = "backup"
  /\ IF store = Missing THEN UNCHANGED <<store, backup>>
     ELSE backup' = store /\ store' = Missing
  /\ To(n, "install")
  /\ UNCHANGED <<temp, copy, login, worker, opened, logins, setbacks>>

Install(n) ==
  /\ phase[n] = "install"
  /\ store' = temp /\ temp' = Missing
  /\ To(n, "dispatch")
  /\ UNCHANGED <<backup, copy, login, worker, opened, logins, setbacks>>

\* The login or one of the moves fails: the temporary directory is removed and the
\* run ends (ensure_valid_session is fail-fast).
RefreshFails(n) ==
  /\ phase[n] \in {"backup", "install"} \/ (phase[n] = "login" /\ ~Locked)
  /\ Setback
  /\ temp' = Missing
  /\ To(n, "ended")
  /\ UNCHANGED <<store, backup, copy, login, worker, opened, logins>>

\* Slip: a copy that is there already is good enough.
CopyStoresSlip(n) ==
  /\ phase[n] = "dispatch"
  /\ copy' = [i \in WorkerSlots |-> IF copy[i] = Missing THEN store ELSE copy[i]]
  /\ worker' = [worker EXCEPT ![n] = [i \in WorkerSlots |-> "ready"]]
  /\ To(n, "working")
  /\ UNCHANGED <<store, backup, temp, login, opened, logins, setbacks>>

\* dispatch_chats: a copy for each worker, in the place of one that is there;
\* without a canonical store there are no new copies.
CopyStores(n) ==
  /\ phase[n] = "dispatch"
  /\ copy' = IF store = Missing THEN copy ELSE [i \in WorkerSlots |-> store]
  /\ worker' = [worker EXCEPT ![n] = [i \in WorkerSlots |-> "ready"]]
  /\ To(n, "working")
  /\ UNCHANGED <<store, backup, temp, login, opened, logins, setbacks>>

\* A copy fails: the exception ends the run, with the copies made so far.
CopyFails(n) ==
  /\ phase[n] = "dispatch" /\ store # Missing
  /\ Setback
  /\ \E made \in SUBSET WorkerSlots :
       copy' = [i \in WorkerSlots |-> IF i \in made THEN store ELSE copy[i]]
  /\ To(n, "ended")
  /\ UNCHANGED <<store, backup, temp, login, worker, opened, logins>>

\* extract_messages: the client opens the copy (_init_persistent_client).
Open(n, i) ==
  /\ worker[n][i] = "ready"
  /\ worker' = [worker EXCEPT ![n][i] = "extracting"]
  /\ opened' = [opened EXCEPT ![n][i] = copy[i]]
  /\ UNCHANGED <<store, backup, temp, copy, phase, login, logins, setbacks>>

\* Whether it succeeds or not, the worker removes the copy when it is done, and
\* the run ends after its last worker.
Close(n, i) ==
  /\ worker[n][i] = "extracting"
  /\ worker' = [worker EXCEPT ![n][i] = "ended"]
  /\ opened' = [opened EXCEPT ![n][i] = Missing]
  /\ copy' = [copy EXCEPT ![i] = Missing]
  /\ To(n, IF \A j \in WorkerSlots : worker'[n][j] = "ended" THEN "ended" ELSE "working")
  /\ UNCHANGED <<store, backup, temp, login, logins, setbacks>>

\* The process dies; directories stay as they are.
ProcessDies ==
  /\ \E n \in Newsletters : Alive(n)
  /\ Setback
  /\ phase' = [n \in Newsletters |-> "ended"]
  /\ worker' = [n \in Newsletters |-> [i \in WorkerSlots |-> "ended"]]
  /\ opened' = [n \in Newsletters |-> [i \in WorkerSlots |-> Missing]]
  /\ UNCHANGED <<store, backup, temp, copy, login, logins>>

SessionNext ==
  \/ \E n \in Newsletters :
       \/ BeginRun(n) \/ LogInToBeeper(n) \/ BackUp(n) \/ Install(n) \/ RefreshFails(n)
       \/ CopyStores(n) \/ CopyFails(n)
       \/ \E i \in WorkerSlots : Open(n, i) \/ Close(n, i)
  \/ ProcessDies

-----------------------------------------------------------------------------
(***************************************************************************)
(* Runs that do not overlap: every worker opens a whole copy of the        *)
(* session its own run logged in, whatever directories crashes and failed  *)
(* refreshes left behind (dispatch_chats, extract_messages).               *)
(***************************************************************************)
WorkersOpenTheirSession ==
  ~RunsOverlap =>
    \A n \in Newsletters, i \in WorkerSlots :
      worker[n][i] = "extracting" => opened[n][i] = login[n]

(***************************************************************************)
(* No step takes the last installed session away: one is left in the store *)
(* or in its backup at any point where a refresh can fail or the process   *)
(* die (_refresh_session_impl).                                            *)
(***************************************************************************)
InstalledSessionSurvives ==
  [][store # Missing \/ backup # Missing =>
       store' # Missing \/ backup' # Missing]_sessionVars
=============================================================================
