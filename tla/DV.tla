--------------------------------- MODULE DV ---------------------------------
(***************************************************************************)
(* The data virtualizer: the server's message handlers composed with its   *)
(* file cache, its simulation jobs and their queue, the simulator          *)
(* processes and the analysis clients.  The server is one thread that      *)
(* handles one message at a time, so a handler is one atomic step; clients *)
(* and simulators run concurrently and interact through messages and the   *)
(* result directory.                                                       *)
(***************************************************************************)
EXTENDS FileCacheOps, JobQueueOps, SimJobOps, FiniteSets

CONSTANTS
    File, Nr,            \* the result files, and the step each belongs to
    Client, Wants,       \* the analyses, and the files each of them opens
    restarts,            \* the restart files' steps
    MaxNr,               \* the last step
    capacity,            \* cache capacity
    max_simjobs,         \* dv_max_parallel_simjobs
    sim_kill_threshold,
    FakeMeta,            \* a metadata file can be opened in place of the data
    Overshoot,           \* steps a simulator may run past its range
    MaxOpenFiles,        \* files a simulator holds open at the same time
    MaxCrashes,          \* bound: simulators that crash
    MaxJobs,             \* bound: simulations started
    MaxOpens             \* bound: files a client opens

\* The prefetcher needs a third access to act on a stride.
ASSUME DVAssumption ==
    /\ File # {} /\ Nr \in [File -> Nat]
    /\ IsFiniteSet(Client) /\ Wants \in [Client -> SUBSET File]
    /\ restarts \in SUBSET Nat /\ MaxNr \in Nat
    /\ capacity \in Nat /\ max_simjobs \in Nat /\ sim_kill_threshold \in Nat
    /\ FakeMeta \in BOOLEAN /\ Overshoot \in Nat /\ MaxOpenFiles \in Nat
    /\ MaxCrashes \in Nat /\ MaxJobs \in Nat /\ MaxOpens \in 1 .. 2

VARIABLES
    conncount,        \* ranks given to jobs
    simulation_jobs,  \* job id -> SimJob
    jobqueue,
    cache,
    sims,             \* job id -> the simulator process
    cl                \* client -> its process

vars == <<conncount, simulation_jobs, jobqueue, cache, sims, cl>>

JobId == 1 .. MaxJobs

SimulatorProcess ==
    [phase : {"none", "running", "ended", "crashed"},
     made : SUBSET File,        \* files it has started
     creating : SUBSET File,    \* the one the server has answered for, not yet created
     open : SUBSET File,        \* created and not closed
     redirected : SUBSET File,  \* those of the two that go to the redirect folder
     open_files_count : Int,
     to_terminate : BOOLEAN]

ClientState == {"idle", "sim", "waiting", "hit", "reading"}

TypeOK ==
    /\ conncount \in 0 .. MaxJobs
    /\ DOMAIN simulation_jobs \subseteq 1 .. conncount
    /\ jobqueue.current \in 0 .. max_simjobs
    /\ sims \in [JobId -> SimulatorProcess]
    /\ cl \in [Client -> [state : ClientState, file : File, opens : 0 .. MaxOpens]]
    /\ cache.disk \in [File -> {"absent", "partial", "complete", "overshoot"}]

NewSimulator ==
    [phase |-> "none", made |-> {}, creating |-> {}, open |-> {}, redirected |-> {},
     open_files_count |-> 0, to_terminate |-> FALSE]

\* Every client has said HELLO.
Init ==
    /\ conncount = 0
    /\ simulation_jobs = <<>>
    /\ jobqueue = EmptyJobQueue
    /\ cache = [lru |-> <<>>, waiting |-> {},
                fd |-> [f \in File |-> NoDescriptor],
                disk |-> [f \in File |-> "absent"]]
    /\ sims = [j \in JobId |-> NewSimulator]
    /\ cl = [c \in Client |-> [state |-> "idle", file |-> CHOOSE f \in File : TRUE,
                               opens |-> 0]]

-----------------------------------------------------------------------------
\* Server operations that several handlers use

Producing(f) == {j \in DOMAIN simulation_jobs : willProduceNr(simulation_jobs[j], Nr[f])}

Launch(s, S) == [j \in JobId |-> IF j \in S THEN [s[j] EXCEPT !.phase = "running"] ELSE s[j]]

\* Defect: the slot goes to the front of the queue, which is not launched.
NextJobs_Forgotten(q) == {}

\* The jobs handleJobTermination launches.
NextJobs(q) == IF q.queue = <<>> THEN {} ELSE {Head(q.queue)}

\* newSimulation for a miss without a stride, and enqueueJob.
handleMiss(nr) ==
    LET j == conncount + 1
        range == generateSimJobForRange(restarts, nr, nr, FALSE, MaxNr)
        job == handleClientFileOpen(newSimJob(range, nr, sim_kill_threshold),
                                    nr, sim_kill_threshold)
    IN  /\ conncount < MaxJobs
        /\ conncount' = j
        /\ simulation_jobs' = [i \in DOMAIN simulation_jobs \cup {j} |->
                                  IF i = j THEN job ELSE simulation_jobs[i]]
        /\ jobqueue' = enqueue(jobqueue, j, max_simjobs)
        /\ sims' = Launch(sims, IF HasFreeSlot(jobqueue, max_simjobs) THEN {j} ELSE {})

-----------------------------------------------------------------------------
\* Clients: DVLib's open, get and close, each with the server's handler

\* The open request, and the file's state after the reply.
nc_open(c, f, state) ==
    /\ cl[c].state = "idle" /\ cl[c].opens < MaxOpens /\ f \in Wants[c]
    /\ cl' = [cl EXCEPT ![c] = [state |-> state, file |-> f, opens |-> @.opens + 1]]

\* The request for the data of a file that was simulated when it was opened:
\* from nc_get, or from nc_open when there is no metadata file.
nc_get(c, state) ==
    /\ cl[c].state = "sim"
    /\ cl' = [cl EXCEPT ![c].state = state]

nc_close(c) == cl' = [cl EXCEPT ![c].state = "idle"]

\* handleOpen of the ClientDescriptor: MISS, HIT, HIT_WAIT and HIT_WAIT_W.
ClientFileOpen(c, f) ==
    LET known == Known(cache, f)
        full_hit == known /\ ~isFileUsedBySimulator(cache.fd[f])
    IN  /\ cache' = IF known THEN [cache EXCEPT !.fd[f] = lock(@)]
                    ELSE put(cache, f, lock(NoDescriptor), capacity)
        /\ \/ /\ ~known /\ Producing(f) = {}
              /\ nc_open(c, f, "sim")
              /\ handleMiss(Nr[f])
           \/ /\ full_hit
              /\ nc_open(c, f, "hit")
              /\ UNCHANGED <<conncount, simulation_jobs, jobqueue, sims>>
           \/ /\ ~full_hit
              /\ nc_open(c, f, "sim")
              /\ \E j \in Producing(f) :
                     simulation_jobs' = [simulation_jobs EXCEPT ![j] =
                                            handleClientFileOpen(@, Nr[f], sim_kill_threshold)]
              /\ UNCHANGED <<conncount, jobqueue, sims>>
           \/ /\ known /\ ~full_hit /\ Producing(f) = {}
              /\ nc_open(c, f, "sim")
              /\ UNCHANGED <<conncount, simulation_jobs, jobqueue, sims>>

ClientVariableGet(c) ==
    LET f == cl[c].file IN
    /\ Known(cache, f)
    /\ \/ /\ cache.fd[f].file_available
          /\ nc_get(c, "reading")
          /\ UNCHANGED cache
       \/ /\ ~cache.fd[f].file_available
          /\ nc_get(c, "waiting")
          /\ cache' = [cache EXCEPT !.fd[f] = appendNotificationSocket(@, c)]
    /\ UNCHANGED <<conncount, simulation_jobs, jobqueue, sims>>

\* The close of an open file: FCLOSE_CLIENT.
ClientFileClose(c) ==
    LET f == cl[c].file IN
    /\ cl[c].state \in {"hit", "reading"}
    /\ nc_close(c)
    /\ cache' = IF Known(cache, f) THEN [cache EXCEPT !.fd[f] = unlock(@)] ELSE cache
    /\ UNCHANGED <<conncount, simulation_jobs, jobqueue, sims>>

\* The close of the metadata file, before any nc_get: no message is sent.
ClientFileCloseMeta(c) ==
    /\ FakeMeta
    /\ cl[c].state = "sim"
    /\ nc_close(c)
    /\ UNCHANGED <<conncount, simulation_jobs, jobqueue, cache, sims>>

-----------------------------------------------------------------------------
\* Simulators: DVLib's create and close, each with the server's handler

\* The steps are created in ascending order, over the range the simulator was
\* given on its command line.
MayCreate(j, f) ==
    LET job == simulation_jobs[j]
        inRun(g) == job.sim_start <= Nr[g] /\ Nr[g] <= job.sim_stop + Overshoot
    IN  /\ inRun(f) /\ f \notin sims[j].made
        /\ \A g \in File : inRun(g) /\ Nr[g] < Nr[f] => g \in sims[j].made
        /\ sims[j].creating = {}
        /\ Cardinality(sims[j].open) < MaxOpenFiles

MustTerminate(j) == sims[j].to_terminate /\ sims[j].open_files_count = 0

\* The simulator after the reply to its create: the file is created in the
\* result directory (ACK) or in the redirect folder (REDIRECT).
created(sim, f, redirect) ==
    [sim EXCEPT !.made = @ \cup {f}, !.creating = {f},
                !.redirected = @ \cup (IF redirect THEN {f} ELSE {}),
                !.open_files_count = @ + 1]

\* After KILL.  With files open the file is created all the same, in the
\* result directory, and not counted.
killed(sim, f) ==
    [sim EXCEPT !.to_terminate = TRUE, !.made = @ \cup {f},
                !.creating = IF sim.open_files_count = 0 THEN {} ELSE {f}]

\* FCREATE of a job that goes on.
SimulatorFileCreate(j, f) ==
    LET job == simulation_jobs[j]
        inRange == nrIsInSimulationRange(job, Nr[f])
        known == IF inRange THEN put(cache, f, NoDescriptor, capacity) ELSE cache
    IN  /\ sims[j].phase = "running" /\ ~MustTerminate(j) /\ MayCreate(j, f)
        /\ ~hasToBeKilled(job, sim_kill_threshold)
        /\ simulation_jobs' = [simulation_jobs EXCEPT ![j] =
               IF inRange THEN handleSimulatorFileCreate(job, Nr[f]) ELSE job]
        /\ cache' = IF Known(known, f)
                    THEN [known EXCEPT !.fd[f] = setFileUsedBySimulator(@, TRUE)]
                    ELSE known
        /\ sims' = [sims EXCEPT ![j] = created(@, f, NeedsRedirect(cache, f))]
        /\ UNCHANGED <<conncount, jobqueue, cl>>

\* FCREATE of a job to be killed.
SimulatorFileCreateKilled(j, f) ==
    /\ sims[j].phase = "running" /\ ~MustTerminate(j) /\ MayCreate(j, f)
    /\ hasToBeKilled(simulation_jobs[j], sim_kill_threshold)
    /\ simulation_jobs' = [simulation_jobs EXCEPT ![j] = invalidateJob(@)]
    /\ sims' = [sims EXCEPT ![j] = killed(@, f)]
    /\ UNCHANGED <<conncount, jobqueue, cache, cl>>

\* The simulation library creates the file: in the redirect folder or in the
\* result directory, where it truncates what is there.
SimulatorTruncate(j) ==
    /\ sims[j].phase = "running"
    /\ \E f \in sims[j].creating :
           cache' = IF f \in sims[j].redirected THEN cache
                    ELSE [cache EXCEPT !.disk[f] = "partial"]
    /\ sims' = [sims EXCEPT ![j].open = @ \cup sims[j].creating, ![j].creating = {}]
    /\ UNCHANGED <<conncount, simulation_jobs, jobqueue, cl>>

\* What the result directory holds when simulator j has closed f: another one
\* may still be writing to the same file, and a file evicted meanwhile has no
\* name there any more.
DiskAfterClose(j, f) ==
    IF f \in sims[j].redirected \/ cache.disk[f] = "absent" THEN cache.disk[f]
    ELSE IF \E i \in JobId \ {j} : /\ sims[i].phase = "running"
                                  /\ f \in sims[i].open \ sims[i].redirected
    THEN "partial"
    ELSE IF Nr[f] <= simulation_jobs[j].sim_stop THEN "complete" ELSE "overshoot"

\* Defect: the clients are notified, the file stays in the waiting list.
completed_NotMoved(c, f) ==
    [c EXCEPT !.fd[f] = removeAllNotificationSockets(
                            setFileUsedBySimulator(setFileAvailable(@), FALSE))]

\* The cache after the close of a file in its job's range: the file is
\* available and the most recent one, the clients that wait for it are notified.
completed(c, f) ==
    LET available == [c EXCEPT !.fd[f] =
                          setFileUsedBySimulator(setFileAvailable(@), FALSE)]
    IN  [refresh(available, f, capacity) EXCEPT !.fd[f] = removeAllNotificationSockets(@)]

\* nc_close of a simulator: the count of open files is not guarded.
closedBySimulator(sim, f) ==
    [sim EXCEPT !.open = @ \ {f}, !.redirected = @ \ {f}, !.open_files_count = @ - 1]

\* The handler of FCLOSE_SIM.  It asserts that a file in range is known.
SimulatorFileClose(j, f) ==
    LET job == simulation_jobs[j]
        inRange == nrIsInSimulationRange(job, Nr[f])
        onDisk == [cache EXCEPT !.disk[f] = DiskAfterClose(j, f)]
        ignored == IF Known(cache, f)
                   THEN [onDisk EXCEPT !.fd[f] = setFileUsedBySimulator(@, FALSE)]
                   ELSE onDisk
    IN  /\ sims[j].phase = "running" /\ f \in sims[j].open
        /\ sims' = [sims EXCEPT ![j] = closedBySimulator(@, f)]
        /\ IF inRange
           THEN /\ Known(cache, f)
                /\ cache' = completed(onDisk, f)
                /\ cl' = [c \in Client |-> IF c \in cache.fd[f].sockets
                                           THEN [cl[c] EXCEPT !.state = "reading"]
                                           ELSE cl[c]]
                /\ simulation_jobs' = [simulation_jobs EXCEPT ![j] =
                                          handleSimulatorFileClose(@)]
           ELSE /\ cache' = ignored
                /\ UNCHANGED <<cl, simulation_jobs>>
        /\ UNCHANGED <<conncount, jobqueue>>

\* The simulator ends and sends FINALIZE: at the end of its run, or when it is
\* to terminate and creates a file.  removeJob launches the next job.
SimulatorFinalize(j) ==
    /\ sims[j].phase = "running"
    /\ \/ MustTerminate(j)
       \/ /\ sims[j].creating = {} /\ sims[j].open = {}
          /\ \A f \in File : simulation_jobs[j].sim_start <= Nr[f]
                                /\ Nr[f] <= simulation_jobs[j].sim_stop
                             => f \in sims[j].made
    /\ jobqueue' = handleJobTermination(jobqueue)
    /\ simulation_jobs' = Restrict(simulation_jobs, DOMAIN simulation_jobs \ {j})
    /\ sims' = Launch([sims EXCEPT ![j].phase = "ended"], NextJobs(jobqueue))
    /\ UNCHANGED <<conncount, cache, cl>>

\* A simulator dies without a message; the files it had open stay as they are.
SimulatorCrash(j) ==
    /\ sims[j].phase = "running"
    /\ Cardinality({i \in JobId : sims[i].phase = "crashed"}) < MaxCrashes
    /\ sims' = [sims EXCEPT ![j].phase = "crashed"]
    /\ UNCHANGED <<conncount, simulation_jobs, jobqueue, cache, cl>>

ClientStep(c) ==
    \/ \E f \in File : ClientFileOpen(c, f)
    \/ ClientVariableGet(c)
    \/ ClientFileClose(c)
    \/ ClientFileCloseMeta(c)

SimulatorStep(j) ==
    \/ \E f \in File : \/ SimulatorFileCreate(j, f)
                       \/ SimulatorFileCreateKilled(j, f)
                       \/ SimulatorFileClose(j, f)
    \/ SimulatorTruncate(j)
    \/ SimulatorFinalize(j)

Next ==
    \/ \E c \in Client : ClientStep(c)
    \/ \E j \in JobId : SimulatorStep(j) \/ SimulatorCrash(j)

Spec == Init /\ [][Next]_vars

\* Simulators and blocking calls of clients go on; opening and closing files is
\* up to the application.
FairSpec ==
    /\ Spec
    /\ \A j \in JobId : WF_vars(SimulatorStep(j))
    /\ \A c \in Client : WF_vars(ClientVariableGet(c))

-----------------------------------------------------------------------------
(* A client that was answered by VGET, at once or by the notification it   *)
(* waited for, reads complete data until it closes the file: the file is   *)
(* neither evicted nor overwritten, and the notification was not early.    *)
WaitersHaveTheData ==
    \A c \in Client : cl[c].state = "reading" => cache.disk[cl[c].file] = "complete"

(* So does a client whose open was a full hit: "is a full hit: the data is *)
(* available" (ClientDescriptor.cpp:96).                                   *)
HitsHaveTheData ==
    \A c \in Client : cl[c].state = "hit" => cache.disk[cl[c].file] = "complete"

(* Simulators do not overwrite data that clients are served from: a file   *)
(* in the cache whose data is complete is never truncated (the redirect    *)
(* decision is made "to avoid overwriting files" that are recognized,      *)
(* SimulatorFileCreateMessageHandler.cpp:106-107).                         *)
NeverOverwritten ==
    [][\A f \in Cached(cache) :
           cache.disk[f] = "complete" => cache'.disk[f] # "partial"]_vars

(* The lock count of a file is the number of clients that have it open or  *)
(* wait for it: it is neither evicted under one of them nor kept for none. *)
LocksMatchClients ==
    \A f \in File : cache.fd[f].lock_count =
                       Cardinality({c \in Client : cl[c].state # "idle" /\ cl[c].file = f})

(* A client that is blocked is blocked for a reason: its socket is with    *)
(* the descriptor of its file, and a simulation that will produce the      *)
(* file, or is writing it, runs or waits for a slot.                       *)
WaitersHaveASimulation ==
    \A c \in Client : cl[c].state = "waiting" =>
        /\ c \in cache.fd[cl[c].file].sockets
        /\ \E j \in DOMAIN simulation_jobs :
               /\ sims[j].phase \in {"none", "running"}
               /\ nrIsInSimulationRange(simulation_jobs[j], Nr[cl[c].file])
               /\ \/ cl[c].file \notin sims[j].made
                  \/ cl[c].file \in sims[j].creating \cup sims[j].open

(* assert(0) of the close handler: every file closed in its job's range    *)
(* has a descriptor.                                                       *)
ClosedFilesAreKnown ==
    \A j \in DOMAIN simulation_jobs : \A f \in sims[j].open :
        nrIsInSimulationRange(simulation_jobs[j], Nr[f]) => Known(cache, f)

(* The jobs and the queue of the DV behave as module JobQueue says, in     *)
(* every interleaving with clients and simulators.                         *)
Queue == INSTANCE JobQueue WITH
    Job <- JobId, MaxLost <- MaxCrashes,
    simulation_jobs <- DOMAIN simulation_jobs,
    running <- {j \in JobId : sims[j].phase = "running"},
    lost <- {j \in JobId : sims[j].phase = "crashed"},
    enqueued <- [i \in 1 .. conncount |-> i]

ImplementsJobQueue == Queue!Spec

(* The handlers use the file cache only in the ways module FileCacheLRU    *)
(* allows, so that what it shows of the cache holds in the DV.             *)
LRU == INSTANCE FileCacheLRU WITH
    cache <- [cache EXCEPT !.disk =
                 [f \in File |-> IF cache.disk[f] = "absent" THEN "absent" ELSE "present"]],
    unread <- {}, MaxLock <- 2 * Cardinality(Client), MaxUsed <- MaxJobs

ImplementsFileCache == LRU!Spec

(* Every client that is told to wait gets its file, if no simulator        *)
(* crashes: it waits neither for a job that will not produce the file nor  *)
(* behind jobs that do not end.                                            *)
WaitersAreServed ==
    \A c \in Client : cl[c].state \in {"sim", "waiting"} ~> cl[c].state = "reading"

=============================================================================
