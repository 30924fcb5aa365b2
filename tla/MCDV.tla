-------------------------------- MODULE MCDV --------------------------------
(* The constants of the runs of DV: a file is the number of its step. *)
EXTENDS DV

OneFilePerStep == [f \in File |-> f]

EveryFile == [c \in Client |-> File]
=============================================================================
