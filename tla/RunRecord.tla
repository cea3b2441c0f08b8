------------------------------ MODULE RunRecord ------------------------------
(***************************************************************************)
(* What the collection of runs promises about the document of one run:    *)
(* its status only moves forward, from pending through running to         *)
(* completed or failed, and an ended run never changes again               *)
(* (src/src/db/repositories/runs.py, the comment on the status field).     *)
(* Starting may be skipped: the tracker is fail-soft, so a run whose start *)
(* could not be written is still completed.                                *)
(***************************************************************************)
EXTENDS Naturals

CONSTANT Runs

VARIABLE record

Status == {"none", "pending", "running", "completed", "failed"}

Ended == {"completed", "failed"}

Init == record = [r \in Runs |-> "none"]

Create(r) == record[r] = "none" /\ record' = [record EXCEPT ![r] = "pending"]

Start(r) == record[r] = "pending" /\ record' = [record EXCEPT ![r] = "running"]

End(r) ==
  /\ record[r] \in {"pending", "running"}
  /\ \E s \in Ended : record' = [record EXCEPT ![r] = s]

Next == \E r \in Runs : Create(r) \/ Start(r) \/ End(r)

Spec == Init /\ [][Next]_record
=============================================================================
