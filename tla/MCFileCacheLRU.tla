--------------------------- MODULE MCFileCacheLRU ---------------------------
(* Three files over a cache of two, one client's socket, and as many locks *)
(* and writers per file as it takes for the counts to matter.              *)
EXTENDS FileCacheLRU

=============================================================================
