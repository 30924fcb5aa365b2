----------------------------- MODULE Simulator -----------------------------
(***************************************************************************)
(* The Simulator component: it scans the restart files once, when the DV   *)
(* starts, and from then on generates the jobs the clients' misses ask     *)
(* for.  The history variable issued keeps every job generated so that the *)
(* properties can relate jobs to one another.                              *)
(***************************************************************************)
EXTENDS Restarts, FiniteSets

CONSTANTS
    MaxNr,       \* the simulation's steps are 0 .. MaxNr
    MaxJobs,     \* bound: jobs issued
    Everything   \* optional_dv_prefetch_all_files_at_once

ASSUME SimulatorAssumption ==
    MaxNr \in Nat /\ MaxJobs \in Nat /\ Everything \in BOOLEAN

VARIABLES
    restarts,    \* restarts_ / restarts_ceil_
    issued       \* jobs generated so far, with the range they were asked for

vars == <<restarts, issued>>

Step == 0 .. MaxNr

\* What a job can be asked for: the prefetcher may extend a range below 0, past
\* the last step, or let it begin after its end.
Job == [target_start : Int, target_stop : Nat, sim_start : Step, sim_stop : Nat]

TypeOK ==
    /\ restarts \in SUBSET Step
    /\ issued \in SUBSET Job

\* scanRestartFiles: any set of restart files may be in the directory.
Init ==
    /\ restarts \in SUBSET Step
    /\ issued = {}

\* The job for a range of steps.
newSimulation(ts, te) ==
    LET range == generateSimJobForRange(restarts, ts, te, Everything, MaxNr)
    IN  [target_start |-> ts, target_stop |-> te,
         sim_start |-> range.sim_start, sim_stop |-> range.sim_stop]

GenerateSimJob(ts, te) ==
    /\ Cardinality(issued) < MaxJobs
    /\ issued' = issued \cup {newSimulation(ts, te)}
    /\ UNCHANGED restarts

\* With any range, as far as this module knows; PrefetchContext says which.
Next == \E ts \in Int, te \in Nat : GenerateSimJob(ts, te)

Spec == Init /\ [][Next]_vars

-----------------------------------------------------------------------------
(* Every job simulates all the steps it was asked for, as far as the       *)
(* simulation has them: a file a client waits for lies in the range of the *)
(* job started for it, so that willProduceFile finds it and the close of   *)
(* the file is not taken for one "not asked for".                          *)
TargetsCovered ==
    \A j \in issued : \A nr \in Step :
        j.target_start <= nr /\ nr <= j.target_stop
        => j.sim_start <= nr /\ nr <= j.sim_stop

(* A job starts at a restart file or from scratch, with no restart file    *)
(* between its start and its first target (nothing is simulated in vain),  *)
(* and it never reaches a restart behind its last target: the next         *)
(* interval belongs to another job.                                        *)
StopsBeforeNextRestart ==
    ~Everything =>
        \A j \in issued :
            /\ j.sim_start \in restarts \cup {0}
            /\ \A r \in restarts : ~(j.sim_start < r /\ r <= j.target_start)
            /\ \A r \in restarts : r > j.target_stop => j.sim_stop < r

(* Jobs for single files that start from different restarts simulate       *)
(* disjoint ranges (the "non-overlapping partition boundaries" the create  *)
(* handler relies on); two that start from the same one are nested.        *)
PartitionsDisjoint ==
    ~Everything =>
        \A i, j \in issued :
            /\ i.target_start = i.target_stop
            /\ j.target_start = j.target_stop
            /\ i.sim_start < j.sim_start
            => i.sim_stop < j.sim_start
=============================================================================
