------------------------------ MODULE Restarts ------------------------------
(***************************************************************************)
(* The restart arithmetic of the Simulator class: which restart file a     *)
(* simulation step falls behind, and which steps a new job simulates.      *)
(* Pure operators; R is the set of restart numbers found by                *)
(* scanRestartFiles, held by the code twice (restarts_ in descending and   *)
(* restarts_ceil_ in ascending order, so that lower_bound on the first is  *)
(* a floor and on the second a ceiling).                                   *)
(***************************************************************************)
EXTENDS Integers, FiniteSetsExt

AtOrBelow(R, nr) == {r \in R : r <= nr}
AtOrAbove(R, nr) == {r \in R : r >= nr}
Above(R, nr) == {r \in R : r > nr}

\* Defect: the lookup in the ascending list, a ceiling where a floor is needed.
getCheckpointNr_Ceiling(R, nr) ==
    IF AtOrAbove(R, nr) = {} THEN 0 ELSE Min(AtOrAbove(R, nr))

\* The restart a step is simulated from; 0 (a start from scratch) if there is none.
getCheckpointNr(R, nr) ==
    IF AtOrBelow(R, nr) = {} THEN 0 ELSE Max(AtOrBelow(R, nr))

\* The first restart at or after a step; the step itself if there is none.
getNextCheckpointNr(R, nr) ==
    IF AtOrAbove(R, nr) = {} THEN nr ELSE Min(AtOrAbove(R, nr))

\* Steps to re-simulate to get nr back: the cost of evicting it.
getPrevRestartDiff(R, nr) == nr - getCheckpointNr(R, nr)

\* Defect: simstop is not adjusted and the next restart's step simulated as well.
JobStop_Overlapping(R, target_stop) ==
    IF Above(R, target_stop) = {} THEN target_stop ELSE Min(Above(R, target_stop))

\* The last step of a job asked for steps up to target_stop: up to the next
\* restart, that restart excluded, but never below the target.
JobStop(R, target_stop) ==
    LET next == IF Above(R, target_stop) = {} THEN target_stop
                                              ELSE Min(Above(R, target_stop))
    IN  IF next - 1 < target_stop THEN target_stop ELSE next - 1

\* The steps a job for target_start..target_stop simulates.  everything is the
\* option optional_dv_prefetch_all_files_at_once, max_nr is optional_sim_max_nr.
generateSimJobForRange(R, target_start, target_stop, everything, max_nr) ==
    IF everything
    THEN [sim_start |-> 0, sim_stop |-> max_nr]
    ELSE [sim_start |-> getCheckpointNr(R, target_start),
          sim_stop  |-> JobStop(R, target_stop)]
=============================================================================
