------------------------------ MODULE MCDVLib ------------------------------
(* Two result files and a checkpoint; three ids, fewer than it takes for   *)
(* every file of a client to have two, so that ids are used again; three   *)
(* entries (the fourth stays free), so that an id can have several.        *)
EXTENDS DVLib

Symmetry == Permutations(ResultFile)
=============================================================================
