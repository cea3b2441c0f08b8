--------------------------- MODULE MCRagAdmission ---------------------------
(* RagAdmission by itself, for the run that looks for a slot that is not released. *)
EXTENDS RagAdmission
=============================================================================
