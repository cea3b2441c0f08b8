--------------------------- MODULE SoleProcessing ---------------------------
(***************************************************************************)
(* What the batch queue promises whatever its workers, its store and its   *)
(* network do: the workflow of a job is begun at most once, by one task,   *)
(* and the job's subscribers are told of its end at most once, by the task *)
(* that did the work.                                                      *)
(***************************************************************************)
CONSTANTS Jobs, Tasks

VARIABLES
    begun,      \* jobs whose workflow has been started
    working,    \* job -> the tasks working on it
    told        \* jobs whose subscribers have been told

vars == <<begun, working, told>>

Init ==
    /\ begun = {}
    /\ working = [j \in Jobs |-> {}]
    /\ told = {}

Begin(j, t) ==
    /\ j \notin begun
    /\ begun' = begun \cup {j}
    /\ working' = [working EXCEPT ![j] = {t}]
    /\ UNCHANGED told

Tell(j) ==
    /\ working[j] # {}
    /\ j \notin told
    /\ told' = told \cup {j}
    /\ working' = [working EXCEPT ![j] = {}]
    /\ UNCHANGED begun

\* Work ends without a word: an error, or the crash of a worker with all of
\* its tasks.
Drop(S) ==
    /\ working' = [j \in Jobs |-> IF j \in S THEN {} ELSE working[j]]
    /\ UNCHANGED <<begun, told>>

Next ==
    \/ \E j \in Jobs, t \in Tasks : Begin(j, t)
    \/ \E j \in Jobs : Tell(j)
    \/ \E S \in SUBSET Jobs : Drop(S)

Spec == Init /\ [][Next]_vars
=============================================================================
