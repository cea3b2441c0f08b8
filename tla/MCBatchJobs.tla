----------------------------- MODULE MCBatchJobs -----------------------------
(* Two workers over one collection.  No symmetry: liveness is checked as well. *)
EXTENDS BatchJobs
=============================================================================
