------------------------------- MODULE SimJob -------------------------------
(***************************************************************************)
(* The life of one simulation job: the simulator process creates and       *)
(* closes the files of its steps in ascending order, clients are told to   *)
(* wait for steps it will produce, and the server kills it at a create     *)
(* once it has run sim_kill_threshold steps past everything known to be    *)
(* needed.                                                                 *)
(***************************************************************************)
EXTENDS SimJobOps, FiniteSets

CONSTANTS
    MaxNr,               \* the steps are 0 .. MaxNr
    sim_kill_threshold,  \* 0: a job is never killed
    MaxExtendLeft,       \* largest backward stride a miss extends the job by
    MaxOpen              \* files the simulator holds open at the same time

ASSUME SimJobAssumption ==
    /\ MaxNr \in Nat /\ sim_kill_threshold \in Nat
    /\ MaxExtendLeft \in Nat /\ MaxOpen \in Nat \ {0}

VARIABLES
    job,        \* the SimJob
    requested,  \* steps a client was told to wait for because of this job
    next_nr,    \* the simulator: the step it creates next
    open,       \* the simulator: the steps whose files it holds open
    closed,     \* the steps whose files are complete
    done        \* the simulator has sent its FINALIZE

simjob_vars == <<job, requested, next_nr, open, closed, done>>

Step == 0 .. MaxNr

JobType ==
    [sim_start : Step, sim_stop : Step, last_nr : Step \cup {NoNr}, min_sim_target : Step,
     time_to_kill : 0 .. sim_kill_threshold, produced : SUBSET Step,
     valid : BOOLEAN, is_passive : {FALSE}]

SimJobTypeOK ==
    /\ job \in JobType
    /\ requested \in SUBSET Step
    /\ next_nr \in 0 .. (MaxNr + 1)
    /\ open \in SUBSET Step
    /\ closed \in SUBSET Step
    /\ done \in BOOLEAN

-----------------------------------------------------------------------------
\* newSimulation, called by handleMiss for a step target with the range
\* extended to the left by a backward stride.
newSimulation(R, target, extend_left) ==
    LET first == target - extend_left
        range == generateSimJobForRange(R, first, target, FALSE, MaxNr)
    IN  handleClientFileOpen(newSimJob(range, first, sim_kill_threshold),
                             first, sim_kill_threshold)

SimJobInit ==
    /\ \E R \in SUBSET Step, target \in Step :
           \E extend_left \in 0 .. (IF MaxExtendLeft < target THEN MaxExtendLeft ELSE target) :
               /\ job = newSimulation(R, target, extend_left)
               /\ requested = {target}
    /\ next_nr = job.sim_start
    /\ open = {}
    /\ closed = {}
    /\ done = FALSE

\* A client opens a file of the job that is not in the cache: HIT (WAIT).
\* findSimulationProducingFile has found this job.
ClientFileOpen(nr) ==
    /\ ~done
    /\ willProduceNr(job, nr)
    /\ job' = handleClientFileOpen(job, nr, sim_kill_threshold)
    /\ requested' = requested \cup {nr}
    /\ UNCHANGED <<next_nr, open, closed, done>>

\* The simulator starts the file of its next step and the server allows it.
SimulatorFileCreate ==
    /\ ~done /\ job.valid
    /\ next_nr <= job.sim_stop
    /\ Cardinality(open) < MaxOpen
    /\ ~hasToBeKilled(job, sim_kill_threshold)
    /\ job' = handleSimulatorFileCreate(job, next_nr)
    /\ next_nr' = next_nr + 1
    /\ open' = open \cup {next_nr}
    /\ UNCHANGED <<requested, closed, done>>

\* The server answers the create with KILL.  DVLib ends the simulator when it
\* has no file open, otherwise at its next create without open files.
SimulatorKill ==
    /\ ~done
    /\ next_nr <= job.sim_stop
    /\ Cardinality(open) < MaxOpen
    /\ hasToBeKilled(job, sim_kill_threshold)
    /\ job' = invalidateJob(job)
    /\ next_nr' = next_nr + 1
    /\ done' = (open = {})
    /\ UNCHANGED <<requested, open, closed>>

\* A create of a checkpoint file runs the same check, whatever files are open.
SimulatorCheckpointCreate ==
    /\ ~done
    /\ hasToBeKilled(job, sim_kill_threshold)
    /\ job' = invalidateJob(job)
    /\ done' = (open = {})
    /\ UNCHANGED <<requested, next_nr, open, closed>>

\* The simulator completes a file.  The close of a killed job is out of its
\* range and ignored by the server.
SimulatorFileClose(nr) ==
    /\ nr \in open
    /\ open' = open \ {nr}
    /\ closed' = closed \cup {nr}
    /\ job' = IF nrIsInSimulationRange(job, nr) THEN handleSimulatorFileClose(job) ELSE job
    /\ UNCHANGED <<requested, next_nr, done>>

\* The simulator has run to the end of its range.
SimulatorFinalize ==
    /\ ~done
    /\ next_nr > job.sim_stop /\ open = {}
    /\ done' = TRUE
    /\ UNCHANGED <<job, requested, next_nr, open, closed>>

SimulatorStep ==
    \/ SimulatorFileCreate
    \/ SimulatorKill
    \/ \E nr \in Step : SimulatorFileClose(nr)
    \/ SimulatorFinalize

SimJobNext ==
    \/ SimulatorStep
    \/ SimulatorCheckpointCreate
    \/ \E nr \in Step : ClientFileOpen(nr)

SimJobSpec == SimJobInit /\ [][SimJobNext]_simjob_vars

\* The simulator is a process of its own that runs until it is done.
FairSimJobSpec == SimJobSpec /\ WF_simjob_vars(SimulatorStep)

-----------------------------------------------------------------------------
(* A job is killed only when every step a client waits for because of it   *)
(* is complete: "we decrease time_to_kill_ only if we already simulated    *)
(* what we know we will need for sure" (SimJob.cpp:150).                   *)
KilledOnlyWhenServed == ~job.valid => requested \subseteq closed

(* willProduceNr is true only for steps still to come, and true for every  *)
(* step the running job has left (SimJob.h:100-104): a false answer makes  *)
(* the next client start a second simulation, a wrong true one makes it    *)
(* wait for a file nobody will write.                                      *)
ProducesWhatIsLeft ==
    job.valid => \A nr \in job.sim_start .. job.sim_stop :
                     willProduceNr(job, nr) <=> nr \notin closed

(* A step a client was told to wait for is eventually complete: neither    *)
(* the range of the job, nor the kill, nor another client's later request  *)
(* loses it.                                                               *)
AwaitedStepsComplete == \A nr \in Step : nr \in requested ~> nr \in closed
=============================================================================
