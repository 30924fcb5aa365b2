------------------------------ MODULE MCSimJob ------------------------------
(* One job over every set of restart files, every target and every order   *)
(* of the clients' opens and the simulator's steps.                        *)
EXTENDS SimJob

=============================================================================
