----------------------------- MODULE SimJobOps -----------------------------
(***************************************************************************)
(* The operations of one SimJob, as operators on a record that holds the   *)
(* members of the class the server's decisions depend on.  The durations   *)
(* (alpha, taus) and the shell script of the job are left out.             *)
(***************************************************************************)
EXTENDS Restarts

NoNr == -1

IntMax(a, b) == IF a > b THEN a ELSE b

\* The constructor, followed by setSimStart and setSimStop of
\* generateSimJobForRange; threshold is the option sim_kill_threshold.
newSimJob(range, target_nr, threshold) ==
    [sim_start      |-> range.sim_start,
     sim_stop       |-> range.sim_stop,
     last_nr        |-> NoNr,
     min_sim_target |-> target_nr,
     time_to_kill   |-> threshold,
     produced       |-> {},
     valid          |-> TRUE,
     is_passive     |-> FALSE]

hasToBeKilled(job, threshold) == threshold > 0 /\ job.time_to_kill <= 0

invalidateJob(job) == [job EXCEPT !.valid = FALSE]

\* Defect: a later request does not move the target of the job.
handleClientFileOpen_FirstTarget(job, nr, threshold) ==
    [job EXCEPT !.time_to_kill = threshold]

handleClientFileOpen(job, nr, threshold) ==
    [job EXCEPT !.time_to_kill = threshold,
                !.min_sim_target = IntMax(@, nr)]

\* Defect: the count down also runs before the targets are reached.
handleSimulatorFileCreate_Eager(job, nr) ==
    [job EXCEPT !.last_nr = nr,
                !.time_to_kill = IF @ > 0 THEN @ - 1 ELSE @]

handleSimulatorFileCreate(job, nr) ==
    [job EXCEPT !.last_nr = nr,
                !.time_to_kill = IF @ > 0 /\ job.min_sim_target < nr THEN @ - 1 ELSE @]

\* Defect: the step is not recorded.
handleSimulatorFileClose_Forgotten(job) == job

\* The step recorded is the last one CREATED, whichever file is closed.
handleSimulatorFileClose(job) == [job EXCEPT !.produced = @ \cup {job.last_nr}]

InRange(job, nr) == job.valid /\ job.sim_start <= nr /\ nr <= job.sim_stop

willProduceNr(job, nr) == job.is_passive \/ (nr \notin job.produced /\ InRange(job, nr))

nrIsInSimulationRange(job, nr) == job.is_passive \/ InRange(job, nr)
=============================================================================
