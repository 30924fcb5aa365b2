---------------------------- MODULE MCFileCaches ----------------------------
(* Three files in two partitions: 3 and 4 behind restart 1 (4 is recovered *)
(* with 3, and costs more than 6, the one file behind restart 5), each of  *)
(* the caches with room for two of them.                                   *)
EXTENDS FileCaches

=============================================================================
