------------------------------ MODULE JobQueue ------------------------------
(***************************************************************************)
(* The DV's simulation jobs and the queue that limits how many of them run *)
(* at the same time.  launch() starts a shell script that submits the      *)
(* simulator; it may fail, and a simulator may end without its FINALIZE    *)
(* message: the server notices neither.                                    *)
(***************************************************************************)
EXTENDS JobQueueOps, FiniteSets

CONSTANTS
    Job,          \* the job ids getNewRank hands out
    max_simjobs,  \* the option dv_max_parallel_simjobs
    MaxLost       \* bound: launches that fail and simulators that crash

ASSUME JobQueueAssumption ==
    /\ IsFiniteSet(Job)
    /\ max_simjobs \in Nat /\ MaxLost \in Nat

VARIABLES
    jobqueue,         \* the members of the JobQueue
    simulation_jobs,  \* the jobs the DV knows
    running,          \* launched jobs whose simulator will send its FINALIZE
    lost,             \* launched jobs whose FINALIZE will never come
    enqueued          \* history: the jobs in the order they were enqueued

vars == <<jobqueue, simulation_jobs, running, lost, enqueued>>

TypeOK ==
    /\ jobqueue \in [current : 0 .. max_simjobs, queue : Seq(Job)]
    /\ simulation_jobs \in SUBSET Job
    /\ running \in SUBSET Job
    /\ lost \in SUBSET Job
    /\ enqueued \in Seq(Job)

Init ==
    /\ jobqueue = EmptyJobQueue
    /\ simulation_jobs = {}
    /\ running = {}
    /\ lost = {}
    /\ enqueued = <<>>

Enqueued == {enqueued[i] : i \in 1 .. Len(enqueued)}
Queued == {jobqueue.queue[i] : i \in 1 .. Len(jobqueue.queue)}

\* launch() of the jobs in S (one or none); its result is ignored.
Launch(S) ==
    \/ /\ running' = running \cup S
       /\ lost' = lost
    \/ /\ S # {}
       /\ Cardinality(lost) < MaxLost
       /\ lost' = lost \cup S
       /\ running' = running

\* DV::enqueueJob.
enqueueJob(j) ==
    /\ j \notin Enqueued
    /\ simulation_jobs' = simulation_jobs \cup {j}
    /\ enqueued' = Append(enqueued, j)
    /\ jobqueue' = enqueue(jobqueue, j, max_simjobs)
    /\ Launch(IF HasFreeSlot(jobqueue, max_simjobs) THEN {j} ELSE {})

\* DV::removeJob, on the FINALIZE of a simulator.
removeJob(j) ==
    /\ j \in running
    /\ jobqueue' = handleJobTermination(jobqueue)
    /\ LET next == IF jobqueue.queue = <<>> THEN {} ELSE {Head(jobqueue.queue)}
       IN  \/ /\ running' = (running \ {j}) \cup next
              /\ lost' = lost
           \/ /\ next # {}
              /\ Cardinality(lost) < MaxLost
              /\ running' = running \ {j}
              /\ lost' = lost \cup next
    /\ simulation_jobs' = simulation_jobs \ {j}
    /\ UNCHANGED enqueued

\* A simulator ends without a FINALIZE.
SimulatorCrash(j) ==
    /\ j \in running
    /\ Cardinality(lost) < MaxLost
    /\ running' = running \ {j}
    /\ lost' = lost \cup {j}
    /\ UNCHANGED <<jobqueue, simulation_jobs, enqueued>>

Next == \E j \in Job : enqueueJob(j) \/ removeJob(j) \/ SimulatorCrash(j)

Spec == Init /\ [][Next]_vars

\* Every simulator that does not crash ends and says so.
FairSpec == Spec /\ \A j \in Job : WF_vars(removeJob(j))

-----------------------------------------------------------------------------
(* The slots taken are exactly the jobs launched and not removed: a slot   *)
(* handed over to the next job in the queue is neither counted twice nor   *)
(* given back, and only a lost job keeps its slot for ever.                *)
SlotsMatchJobs ==
    /\ running \cap lost = {}
    /\ jobqueue.current = Cardinality(running \cup lost)

(* A job waits only while every slot is taken.                             *)
NoIdleSlot == jobqueue.queue # <<>> => jobqueue.current = max_simjobs

(* The queue is the jobs enqueued last, in their order, and the others are *)
(* launched: no job is overtaken, skipped, launched twice or left behind.  *)
(* With the jobs known to the DV being those queued or launched and not    *)
(* removed, no pointer in the queue dangles when removeJob destroys a job. *)
FirstInFirstOut ==
    /\ \E k \in 0 .. Len(enqueued) :
           /\ jobqueue.queue = SubSeq(enqueued, k + 1, Len(enqueued))
           /\ \A i \in 1 .. Len(enqueued) :
                  enqueued[i] \in running \cup lost => i <= k
    /\ simulation_jobs = Queued \cup running \cup lost

(* Every job that waits is launched, if fewer jobs than there are slots    *)
(* are lost: one slot that is handed on moves the whole queue.             *)
QueuedJobsStart ==
    MaxLost < max_simjobs =>
        \A j \in Job : j \in Queued ~> j \in running \cup lost
=============================================================================
