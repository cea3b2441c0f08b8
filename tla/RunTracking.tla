----------------------------- MODULE RunTracking -----------------------------
(***************************************************************************)
(* The run tracker (src/src/db/run_tracker.py): the run documents and the  *)
(* rows a run persists for each of its chats.  The operations on the run   *)
(* document swallow store errors; the stores of source data raise them.    *)
(* Errors of the store, like every error that comes from outside the       *)
(* program, are bounded by MaxFaults.                                      *)
(***************************************************************************)
EXTENDS Naturals, FiniteSets

CONSTANTS Runs,      \* requests for a newsletter, each accepted once
          Chats,     \* group chats
          MaxFaults  \* errors from outside in a behaviour

ASSUME TrackingAssumption == MaxFaults \in Nat

VARIABLES record,  \* record[r]: status of r's document, "none" before create_run
          known,   \* known[r]: the workflow state of r holds a mongodb_run_id
          saved,   \* saved[r]: the rows <<chat, collection>> stored under r's id
          faults   \* errors from outside so far

trackingVars == <<record, known, saved, faults>>

\* The collections of source data, whose writes fail hard.
SourceData == {"raw_messages", "polls", "messages", "raw_discussions"}

RecordStatus == {"none", "pending", "running", "completed", "failed"}

TrackingTypeOK ==
  /\ record \in [Runs -> RecordStatus]
  /\ known \in [Runs -> BOOLEAN]
  /\ saved \in [Runs -> SUBSET (Chats \X SourceData)]
  /\ faults \in 0..MaxFaults

TrackingInit ==
  /\ record = [r \in Runs |-> "none"]
  /\ known = [r \in Runs |-> FALSE]
  /\ saved = [r \in Runs |-> {}]
  /\ faults = 0

\* A call to the outside fails: MongoDB, the LLM, the network, the disk.
Fault == faults < MaxFaults /\ faults' = faults + 1

\* Slip: the run id is made of the source and the dates only, so that a run
\* creates its document over that of an earlier one.
CreateRecordSlip(r) ==
  /\ record' = [q \in Runs |-> IF q = r \/ record[q] # "none" THEN "pending" ELSE "none"]
  /\ known' = [known EXCEPT ![r] = TRUE]
  /\ UNCHANGED <<saved, faults>>

\* create_run: on a PyMongoError there is no id, whether or not the document
\* was written before the error reached the client.
CreateRecord(r) ==
  \/ /\ record' = [record EXCEPT ![r] = "pending"]
     /\ known' = [known EXCEPT ![r] = TRUE]
     /\ UNCHANGED <<saved, faults>>
  \/ /\ Fault
     /\ record' \in {record, [record EXCEPT ![r] = "pending"]}
     /\ UNCHANGED <<known, saved>>

\* start_run and complete_run set the status without looking at it and swallow
\* a PyMongoError.
SetStatus(r, status) ==
  \/ /\ record' = [record EXCEPT ![r] = status]
     /\ UNCHANGED <<known, saved, faults>>
  \/ /\ Fault
     /\ UNCHANGED <<record, known, saved>>

\* Slip: a status of its own.
StartRecordSlip(r) == SetStatus(r, "started")

StartRecord(r) == SetStatus(r, "running")

CompleteRecord(r) ==
  IF known[r] THEN SetStatus(r, "completed") ELSE UNCHANGED trackingVars

\* store_raw_messages, store_polls, store_messages, store_raw_discussions.
StoreRows(r, c, collection) ==
  /\ saved' = [saved EXCEPT ![r] = @ \cup {<<c, collection>>}]
  /\ UNCHANGED <<record, known, faults>>
=============================================================================
