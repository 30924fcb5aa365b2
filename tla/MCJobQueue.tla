----------------------------- MODULE MCJobQueue -----------------------------
(* Five jobs for two slots. *)
EXTENDS JobQueue

=============================================================================
