------------------------ MODULE MCNewsletterScheduler ------------------------
(* The scheduler on a small instance. *)
EXTENDS NewsletterScheduler
=============================================================================
