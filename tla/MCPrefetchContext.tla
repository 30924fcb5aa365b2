------------------------ MODULE MCPrefetchContext ------------------------
(* Every set of restart files over five steps and every sequence of opens, *)
(* hits and misses, long enough to reset a trajectory and begin another.   *)
EXTENDS PrefetchContext

=============================================================================
