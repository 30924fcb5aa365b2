# A verification development for SimFS

SimFS virtualizes the output of a simulation: analyses open result files as if
all of them existed, and a server, the DV (data virtualizer), keeps some of them in a
cache and re-simulates the others on demand from restart files. This directory
holds TLA+ models of the server and of the library linked into analyses and
simulators (DVLib), the TLC configurations that check them, and TLAPS proofs.

`PROJECT.json` maps every definition to the source lines it models and lists
runs, mutants, hazards, findings and theorems.

    tlc -workers 2 -config MCDVSerial.cfg MCDV.tla      a run
    tlapm JobProofs.tla                                 the proofs of a module

## 1. The system

| component | state | operations | talks to |
|---|---|---|---|
| DV (`server/DV.cpp`) | job index, clients, one counter for ranks and job ids, two listening sockets | `run` (one thread, one connection at a time), `enqueueJob`, `removeJob`, `findSimulationProducingFile`, `quit`, `finish` | every handler |
| message handlers (`server/*_listeners`) | none | FOPEN, VGET, FCLOSE of clients; FCREATE, FCLOSE, FINALIZE, checkpoint create of simulators; HELLO; status, stop, extended API | cache, jobs, client descriptors |
| ClientDescriptor, PrefetchContext | per client: its prefetch contexts, extended API entries, requested ranges | `handleOpen` (hit, wait, miss), `newSimulation`; strides, simulations ahead | cache, DV, Simulator |
| Simulator (`simulator/Simulator.cpp`) | restart numbers, timing statistics | `scanRestartFiles`, `generateSimJobForRange`, cost of an eviction | PrefetchContext, caches |
| SimJob | range, last step created, steps produced, countdown to its kill, validity | handlers of open, create and close; `hasToBeKilled`, `willProduceNr`, `launch` | DV, the batch system |
| JobQueue | slots taken, queue of waiting jobs | `enqueue`, `handleJobTermination` | DV |
| FileDescriptor | available, lock count, writer count, waiting sockets, cost | lock, unlock, notify, penalty | caches, handlers |
| LinkedMap (`toolbox/LinkedMap.h`) | vectors of values and links, free list, hash map | add, replace, refresh, find, search from the LRU end, erase, clear | caches |
| file caches (LRU, BCL, DCL, PLRU, PBCL, PDCL, ARC, LIRS, FIFO wrapper, unlimited) | cached files in a replacement order, waiting list, the policy's own lists | `put`, `get`, `refresh`, eviction | handlers |
| DVLib, client side (netCDF, HDF5, parallel netCDF) | table of open files, map from ids to entries | open, get (blocks), close, each of which the I/O library may fail | DV by messages, result directory, I/O library |
| DVLib, simulator side | redirected files, count of open files, the terminate flag | create, close, finalize | the same |
| `dv_status`, `stop_dv` | none | HELLO, then STATUS or STOP | DV |
| configuration, Lua, statistics, `simfs` tool | none that the above depends on | | |

How they interact. The server multiplexes its sockets with `select`, accepts
one connection, reads its message, and runs one handler to
completion before the next. Clients and simulators are
processes of their own; every message is a connection of its own. They interact with the server by request and reply
(closes and FINALIZE have no reply), and with each other only through files in
the result directory. A client that asks for data that is not there is blocked in
the library until the handler of some simulator's close writes to its socket.

What is hard, and what correctness means, per component:

* **Server and processes.** The reply to a create and the library's create of the file
  are two steps; between them the file may be evicted, completed by
  another simulator, or asked for. Correct: a client reads complete data
  from the reply to its close, is never left blocked without a simulation that
  will notify it, and is eventually served; no simulator overwrites a file in use.
* **Connections.** One thread waits in `recv` for whoever has connected. Correct:
  everyone who waits is answered or disconnected, a stop stops the server,
  ranks and job ids do not meet, and a list of ranges sent one connection at a time
  arrives whole, whatever is sent between and whatever failed before.
* **Caches.** A file leaves the cache only for another one and never in use; the
  lists of each policy agree; what is in the cache is in the result directory.
* **LinkedMap.** Four structures are updated by hand. Correct: they describe one list in order of use.
* **SimJob.** The countdown to the kill races with creates, closes and new
  opens. Correct: killed only when all that was asked for is complete, and its
  answer on what it will still produce is exact.
* **PrefetchContext.** Contexts are reset, set back and moved by misses. Correct: what is
  simulated ahead leaves no gap, and is of clients with a steady stride only.
* **JobQueue.** Slots pass from a finished job to the next, launches fail silently and simulators die silently.
  Correct: order, no idle slot, no dangling job.
* **Simulator.** Off-by-one at restart boundaries. Correct: ranges cover their targets and do not overlap.
* **DVLib's table.** Ids of the I/O library and entries are used again, and calls that
  fail leave entries behind. Correct: a handle leads to the file it was opened for, files
  open are locked, and every completed file is announced.

## 2. The modules

| module | models |
|---|---|
| `Restarts` | the restart arithmetic of `Simulator.cpp` as operators |
| `Simulator` | the generation of jobs for any set of restart files |
| `PrefetchContext` | a client's prefetch context over `Simulator`: strides, misses, simulations ahead |
| `SimJobOps` | the SimJob class: a record of its members and its operations |
| `SimJob` | one job's life: simulator process, server's checks, clients' opens |
| `JobQueueOps` | the JobQueue class |
| `JobQueue` | the DV's job index and queue, with failed launches and lost simulators |
| `RecencyList` | abstract: entries in order of their last use |
| `LinkedMap` | the vectors, links, free list and hash map; implements `RecencyList` |
| `FileCacheOps` | FileDescriptor and FileCacheLRU, and the create handler's redirect decision |
| `FileCache` | abstract: what every cache promises, whatever its policy |
| `FileCacheLRU` | the LRU cache under every order of the handlers; implements `FileCache` |
| `FileCacheOptions` | the state of every other cache, the class made for a configured type, what they share |
| `FileCacheCost` | BCL, DCL, PBCL, PDCL: cost aware victims, directory of evicted entries, penalties of partitions |
| `FileCacheARC`, `FileCacheLIRS`, `FileCacheFifo` | the caches of these names |
| `FileCaches` | any of these caches under every order of the handlers; implements `FileCache` |
| `DV` | the composition: file handlers, LRU cache, jobs, queue, simulators, clients |
| `DVLib` | one process's table of open files in the three bindings, over an I/O library that uses ids again |
| `Session` | connections, HELLO, status, stop, extended API, the loop of the server and the ends of the library and the tools |
| `MC*` | constants of the runs |
| `OperatorProofs` | lemmas about the operators of `Restarts` and of the library |
| `SimulatorProofs`, `JobProofs`, `FileCacheLRUProofs`, `FileCachesProofs`, `DVProofs`, `DVLibProofs`, `SessionProofs` | proofs (`SimulatorProofs` also those of `PrefetchContext`, `JobProofs` of `JobQueue` and `SimJob`, `FileCacheLRUProofs` of `LinkedMap`) |

The `Ops` modules are shared: the component modules and `DV` apply the same
operators, so a definition is modelled once. `DV` is shown to use the queue
only as `JobQueue` allows and the cache only as `FileCacheLRU` allows
(`ImplementsJobQueue`, `ImplementsFileCache`, by INSTANCE with a refinement
mapping), and `FileCacheLRU` implements `FileCache` (`KeepsPromise`). The
caches keep their lists as sequences; that the `LinkedMap` is such a sequence
is what `LinkedMap` shows (`KeepsRecency`).

**`DV`.** `simulation_jobs` is the map of the same name in
`DV.h`, `jobqueue` the members of `JobQueue`, `conncount` the counter.
`cache` is a record: `lru` the LinkedMap from LRU to MRU, `waiting` the waiting
list, `fd` the descriptors, `disk` what the result directory holds under a
file's name (`absent`, `partial`, `complete`, or `overshoot`: written completely
by a simulator that had run past its range). `sims` holds each simulator
process: files started, the file the server has answered for and the library has not created yet,
files open, those of them in the redirect folder, and DVLib's
`open_files_count` and terminate flag. `cl` is each client: idle, told to wait
(`sim`), blocked (`waiting`), full hit (`hit`), answered (`reading`). One action
is one message: its handler, and what the library does with it on
the sender's side. `SimulatorTruncate` is a step of its own because the file is
created after the reply.

**`FileCaches`.** `cache` is one record for all classes; a class uses the
fields it has members for. `initializeWithFiles` puts the files found in the
result directory, one by one, in any order; then the handlers' uses of the
cache follow in any order. `createdClass` is the switch of `dv.cpp`.

**`DVLib`.** `dvl` is the struct of the library: the entries, the map from ids to entries, the
redirected files; `handles` the open ids of the I/O library, each with its file, `app` those the
application holds, `server` what the DV knows. A close gives an id back, and a later open may get it.
An entry is filed under what the application's id variable holds when the I/O library returns: its new id
or, if the open failed, whatever was there, perhaps the id of an open file. Entries with one key hide each other
(`hh_next`), as in a bucket of uthash. `in_result_dir` says whether the path that the close of
parallel netCDF resolves, relative to the directory the process runs in, leads to the file.

**`Session`.** `proc` is each process (analysis, simulation, tool): where it is
in its exchange, its rank and its calls. `backlog` holds the connections of
each port in the order they came, `ready` what `select` has returned, `held` the sockets
the server keeps open without an answer, `dv` the server's members. A call for ranges is one `RequestRanges` and
then a `RequestNextRange` for each further range; it ends early when the library cannot build a message
(`Unsendable`) or the DV answers -1 (`Malformed`, or a rank it does not know).

Names that end in `_Something` after the name of a definition (`lock_Flag`) are
defective variants: plausible bugs, used only to show that the properties
notice them. No specification uses them.

### Abstractions

* Names, sizes, paths and messages are left out; a file is a model value with its
  step. What `Profiler` estimates (`alpha`, `tau`) decides when, how far and how often
  the prefetcher simulates ahead; `PrefetchContext` makes these free choices.
* A close is sent without waiting for a reply. The library's close and
  the server's handling are one step: messages of one process arrive in
  order, and the process can do nothing in between that the server would see first.
* In `DV` clients have said HELLO at the start and simulators when they are
  launched, and jobs are active ones; `Session` has HELLO and passive jobs.
* In `DV` a client opens at most two files (`DVAssumption`): the prefetcher acts on a
  stride from the third access on, so that a miss starts a job for the missed
  step. The backward stride of a miss is in `SimJob` (`MaxExtendLeft`), the
  rest in `PrefetchContext`.
* Within a step the simulator creates a file once, and steps in ascending order.
* `open_files_count` is an unsigned 32-bit integer in DVLib, here an Int: below
  zero stands for the wrapped value; it is only compared with zero.
* Data written past a job's range counts as different data
  (`overshoot`), as the comment in the create handler has it.
* `DV` starts from an empty result directory; `FileCacheLRU` and `FileCaches` from any.
* The capacity a LinkedMap grows to when nothing can be evicted is the length of `lru`: it is never reset below it, and a victim is looked for whenever the list is not shorter than `capacity`.
* `DVLib` is one process, in one thread; parallel netCDF is its rank 0, which
  alone talks to the DV. Its server is what it must know of it: which files are
  available, evicted at any time when not locked.
* Entries found under one key are in the order in which they were filed, the newest first; uthash
  keeps this order until it expands a bucket, with more than ten entries in one.
* In `Session` a slow process is one that may pause, or die, between connecting and
  writing. What a handler does to files and jobs is left to `DV`.
* Ranges that make a message too long, and ranges with a colon in a file name, which the DV
  takes for a separator and so reads a name where the stride should be, are sets of ranges
  (`Unsendable`, `Malformed`). A name whose part behind the colon begins with a number is taken for
  a range and a stride; this is not modelled. A call for no ranges sends nothing and is left out.

## 3. The runs

Passing:

| run | shows | bounds |
|---|---|---|
| `prefetch` | ranges of jobs cover their targets, stop before the next restart, do not overlap; simulations ahead leave no gap, and are of steady clients only | every sequence of 5 opens over 5 steps and every set of restarts, 2 parallel simulations, lead 2: two accesses make a stride, a third confirms it, two more change it or meet the end |
| `simjob` | kill only when served; exact answers; every awaited step completes | all restarts over 6 steps, threshold 2 (the countdown can be interrupted by an open midway), one open file |
| `jobqueue` | slots, order, ownership; queued jobs start | 5 jobs, 2 slots (a queue of up to three), one loss, so that one slot stays |
| `linkedmap` | the four structures agree, the search returns the first of the entries it may, the whole is a list in order of use | 4 keys, 2 values, 4 positions: removals at both ends and between, positions used again, entries replaced under another key or under their own, as DCL, PDCL, ARC and LIRS do; symmetric in keys and values |
| `filecache` | list consistency and the abstract promise of the LRU cache | 3 files over capacity 2, locks and writers up to 2, one socket, any content of the directory at the start |
| `caches` | the same for the other nine types, and the bookkeeping of each policy | 3 files in two partitions with different costs (3, 4 behind restart 1, 6 behind 5), capacity 2, LIR set 1, FIFO queue 1: each of the lists can be full, of files in use too |
| `dv_parallel` | data, no unknown close, both refinements, with evictions, crashes, and clients that close a metadata file before they read | 2 clients, 2 simulators with two files open each, one of which may crash, 3 jobs over disjoint ranges, 3 files over capacity 2 |
| `dv_serial` | no lost waiter, locks, nothing overwritten, every client is served, with kills and overshoot | one slot, 4 files over capacity 1, overshoot 1, threshold 1 |
| `dvlib` | a handle leads to its file, files open are locked at the DV, completed files are announced | 2 result files, a checkpoint, another file; 3 ids, fewer than a client that opens everything needs, and 4 entries, so that one id can have three; opens, gets and creates that fail; run in the result directory or not; 4.5 million states |
| `session` | ranks and ids, lists of ranges, every answer, the stop | together (`Together`) two analyses with two calls each, or one of them with `dv_status`, `stop_dv` and a simulation; a call asks for two ranges, of which the second may be one that cannot be sent or not be read; one analysis may pause or die; both modes; 1 million states |

In `session` a second analysis can disturb ranges and ranks, which the first part of
`Together` shows; for stops and answers what counts is who waits while another is served, and there an
analysis, two tools and a simulation are all kinds of processes. All of them at once, with two calls
of two messages each, is too much for TLC; the theorems do without `Together`.

Two clients are the smallest number with which one's open meets the other's
state; three jobs make one wait while another runs or is killed and a third
simulates again what was evicted. The configurations of `DV` are several
because the properties hold under different assumptions, which is what the
violations show. Bounds in guards: `MaxJobs`, `MaxOpens`, `MaxAccesses`,
`MaxCrashes`, `MaxLost`, `MaxLock`, `MaxUsed`, `MaxOpen`, `MaxWriters`, `MaxWaiting`, `MaxCreates`,
`MaxUncounted`, `MaxRank`, `MaxCalls`, `Together`. Deadlock is not checked: clients
stop when they have opened `MaxOpens` files, a server that was stopped is done, and so on.

Violations, each a disagreement between the code and a comment in it:

| run | what TLC finds |
|---|---|
| `dv_hit` | the second client to open a missing file, before the simulator has created it, is given a full hit on a file that does not exist (`ClientDescriptor.cpp:95`) |
| `dv_killed_waiter` | with two files open the kill can come before an awaited file is closed; its close is ignored and the client is blocked for ever |

### Fairness

* `WF(SimulatorStep(j))` (`DV`), `WF(SimulatorStep)` (`SimJob`): a running simulator
  goes on with its work; its creates are answered because the server thread
  never blocks in a handler. Crashes are not part of it.
* `WF(ClientVariableGet(c))`: a client that was told to wait asks for the data,
  without metadata files in the same library call.
* `WF(removeJob(j))` (`JobQueue`): a simulator that is not lost ends and sends FINALIZE.
* `Session`: `WF(Server)`, the loop of `DV::run`; `WF(Write(p) \/ Crash(p))`, a
  process that has connected writes its message in the end or dies, which closes its
  socket; `WF(Receive(p))`, `WF(Ask(p))`, a process reads its reply, and a tool sends its request after
  the HELLO.
* Opening and closing files, calls of the extended API and starting a tool are up to the application: no fairness.

### Properties that hold in part

Some properties are stated where they hold, and the reason is a fact about the code:

* `dv_parallel` and `dv_serial` differ in `max_simjobs`, `sim_kill_threshold` and `MaxOpenFiles`.
  With a kill and two files open, a simulator that is told to end creates its next file in place
  and uncounted (`dvl_nc_create.c:85`): `NeverOverwritten`, and with two slots `ClosedFilesAreKnown`, fail;
  that its count of open files goes below zero then, so that it does not end, is not checked by a property.
* `simjob` has one open file, because `handleSimulatorFileClose` records
  the step created last whichever file is closed (`SimJob.cpp:174`); with
  `MaxOpen = 2` `ProducesWhatIsLeft` fails. With `MaxExtendLeft = 1`
  `KilledOnlyWhenServed` fails: a job extended to the left has its target set to
  the extended start, and can be killed before the step that was missed
  (`ClientDescriptor.cpp:166`, `SimJob.cpp:150`).
* `WaitersHaveTheData` fails when two simulators write one file (two slots, ranges that overlap): the redirected
  one closes first, and the file is announced as available while the other writes it
  (`SimulatorFileCloseMessageHandler.cpp:122`, against `ClientVariableGetMessageHandler.cpp:80`).
  With two slots and an overshoot, the proper simulator is redirected and the overshoot file is
  served (`SimulatorFileCreateMessageHandler.cpp:124`, against its comment at 102).
* `ClosesAreAnnounced` is stated of netCDF and HDF5. The parallel netCDF create files its entry
  under `*ncidp` before the library has set it (`dvl_ncmpi_create.c:83`), so the close
  does not find it and the DV is not told; the binding also ignores KILL and REDIRECT. Outside the
  result directory its close goes no further than the I/O library (`dvl_ncmpi_close.c:78`): simulators announce
  nothing, and clients leave the entry and the lock.
* `HandlesMatchFiles` leaves open, for an id that a call failed with (`server.failed`), whether the handle has
  the data: see the next section.
* `KeepsPromise` includes the capacity; for ARC and the FIFO wrapper only
  `EvictsOneUnused` is claimed. ARC chooses T1 or T2 before it looks for a file that
  is not in use, and grows although the other list has one (`FileCacheARC.cpp:376`); the wrapper's queue
  may hold locked files, contrary to the comment at `FileCacheFifoWrapper.cpp:370`.
* `EveryRequestAnswered` and `StopIsHonoured` are stated of normal mode. In passive mode every HELLO is taken
  for a simulator's and answered with rank -1 (`HelloMessageHandler.cpp:71`): a client's open is never
  answered, and `stop_dv` gives up before it sends STOP, contrary to `src/src/dv/README.md:84`.

### Other things the code does that its authors may not expect

They are in the models as the code has them.

* `dv.cpp:227`: the case of PLRU falls through to that of PBCL; the class `FileCachePLRU` is never made.
* `FileCacheDCL.cpp:35`: the deferred cost of an eviction is recorded after the replace, under the name of
  the file put in its place. `DCL.h:41` and `PDCL.h:39` declare `a_cost_` and
  `lru_key_` a second time.
* LIRS ends the process when a full queue Q has no file that is not in use.
* `dvl.c:262`: the id of the last table entry is never set, so that it is taken for entry 0;
  the test for a free entry at `dvl_nc_open.c:41` leaves it out.
* A close of a file that is still to be simulated sends no FCLOSE: the lock stays (`dvl_nc_close.c:58`).
* An open that the I/O library fails files its entry nevertheless, under whatever the application's variable
  holds (`dvl_nc_open.c:122`). If that is the id of a file still to be simulated, a get on this id finds the new
  entry and does not wait, and reads the metadata file. The lock of the failed open is never given back.
* A get ignores that the real file could not be opened (`dvl_nc_get`): the metadata file is read as if it were the data,
  and its close is sent under the name of the metadata file, so that the lock stays.
* A create that the I/O library fails stays in `open_files_count` (`dvl_nc_create.c:97`): the simulator never ends after a KILL.
* `dvl_hdf5_close.c:198`: of a metadata file and the real file opened for it one handle stays open.
* `dvl_ncmpi_close.c:45`: the close of an id that is not tracked uses a null entry.
* `dvl.c:347`: the thread-safe build takes the second field of the reply to HELLO, a path, for the thread's rank.
* `LinkedMap.h`: `add` refuses when `next_id_` has reached `kMaxCapacity`, although positions may be free.
* The handler of SIGINT and SIGTERM in DVLib calls `dvl_finalize` and returns.

## 4. The proofs

| theorem | for every | by |
|---|---|---|
| `SimulatorProofs!TypeCorrect`, `TargetsAlwaysCovered`, `JobsStopBeforeNextRestart` | number of steps, set of restarts, number of jobs | `RangeProperty` of `OperatorProofs`: what one call returns |
| `SimulatorProofs!PartitionsAlwaysDisjoint` | the same | the start of the later job is a restart, which lies behind the earlier one's target |
| `SimulatorProofs!PrefetchedRangesCovered`, `NoGapAhead`, `TrajectoryFollowed` | the same, any opens, lead, stride limits and cost estimates | `PrefetchInv` below |
| `JobProofs!TypeCorrect`, `SlotsAlwaysMatchJobs`, `NeverAnIdleSlot`, `AlwaysFirstInFirstOut` | finite set of jobs, number of slots and losses | `IInv` below |
| `JobProofs!SimJobTypeCorrect` | stride, number of open files | `SimJobTInv` |
| `JobProofs!NeverKilledTooEarly`, `AlwaysProducesWhatIsLeft` | steps, thresholds, restarts, with `MaxExtendLeft = 0` and `MaxOpen = 1` | `SimJobIInv` below |
| `FileCacheLRUProofs!StructuresAlwaysAgree` | keys, values, capacity | `MapInv` below |
| `FileCacheLRUProofs!SearchAlwaysFindsFirst`, `RecencyImplemented`: `MapSpec => KeepsRecency` | the same, any predicate | `OrderInv` below |
| `FileCacheLRUProofs!AlwaysOneDescriptor`, `FilesAlwaysPresent`, `WaitersAlwaysKnown` | files, clients, capacity, bounds on locks and writers | `Sound` below |
| `FileCacheLRUProofs!PromiseKept`: `Spec => KeepsPromise` | the same | every handler is a step of `FileCache`, or a stutter |
| `FileCachesProofs!SacrificeAlwaysBounded`, `PenaltyPaidOnce` | files, restarts, types, capacity, options, bounds | `LRUInv` below |
| `FileCachesProofs!QueuesAlwaysAgree` | the same | `LirsInv` below |
| `FileCachesProofs!OneUnusedEvicted`, `PromisesKept`: `Spec => KeepsPromise` | the same | `Stepped` below: every handler, whatever the class |
| `DVProofs!TypeCorrect`, `QueueImplemented`, `CacheImplemented` | files, clients, restarts, slots, capacity, kills, overshoots, crashes | `Base` below; every message is a step of `JobQueue` and one of `FileCacheLRU`, or a stutter |
| `DVProofs!LocksMatch` | the same, without metadata files | `ClientInv` below |
| `DVProofs!ClosedFilesKnown` | the same, with `Overshoot = 0` and clean kills | `RunsInv`, `CountInv` |
| `DVProofs!WaitersServed` | the same, with one file open at a time and no crash | `RunsInv`, `WaitInv` |
| `DVProofs!WaitersHaveData`, `NotOverwritten` | the same, with one slot and clean kills | `DataInv` |
| `DVLibProofs!HandlesAlwaysMatch`, `OpenFilesAlwaysLocked` | files, ids, capacity, the three bindings, inside and outside the result directory, any failures | `ClientInv` below |
| `DVLibProofs!ClosesAlwaysAnnounced` | the same, netCDF and HDF5 | `SimulatorInv` below |
| `SessionProofs!IdsAlwaysIdentify`, `RangesAlwaysComplete` | clients, tools, jobs, all together, lists of ranges with any that fail, both modes | `IdsInv`, `RangesInv` below |

*Restarts.* `Min` and `Max` of the library are CHOOSE expressions; that they
exist follows from the well-foundedness of the naturals (`MinProperty`,
`MaxProperty`).

*Simulator.* The first four theorems are about the specification of `Simulator`, in which any
two requests may follow each other. `PrefetchedRangesCovered` says the same of
the requests of a `PrefetchContext`, which may begin below step 0 or end behind the last.

*PrefetchContext.* That simulations ahead leave no gap is not inductive: the
next one starts behind `last_nr_`, whatever that is. The invariant says what it
is (`LeadsOn`): a step behind which nothing has to be simulated, or which is a restart or next to one
(`Behind`), unless the client goes backwards, in which case `last_nr_` is the begin of a job and
nothing starts ahead of it. The loop that starts simulations is a recursive function; that it
exists and keeps `Behind` is shown by a least counterexample. For `TrajectoryFollowed`
the context must know the opens (`FollowsOpens`): in TRANSIENT the last one, in
STEADY the last two by their stride; in DISABLED nothing, as `last_access_` is not initialised.

*JobQueue.* `SlotsMatchJobs` is not inductive: when a slot passes to the front
of the queue, that job must not already have one. The invariant adds that the
queue is the end of the history of enqueued jobs (`QueueIsSuffix`), that no job
is enqueued twice, and that a job with a slot stands before the queue's beginning
(`OccupiedWereLaunched`); then the front of the queue is a new job and the number of
slots is the cardinality of the set of launched jobs. `FirstInFirstOut` follows.

*SimJob.* What makes the kill safe: the countdown moves only at the create of
a step behind the target, at which every earlier step is closed
(`Progress`: started is closed but for the last), and no one waits for a step
behind the target (`TargetIsLast`); hence a countdown below the threshold means everyone is
served (`CountdownMeansServed`), and an open resets it. Both assumptions are
needed, see above.

*LinkedMap.* `StructuresAgree` says that the links are one list of the live
positions in both directions, that live and free positions are the positions given out, and that the map names
just the live keys. With the types of the members it is inductive. The proof goes through the
three primitives (`removeFromList`, `addAsMru`, `moveToMru`): each takes a list over a set of positions to one
over the set with a position less, more, or the same, whatever is around it; the
operations are compositions of these.
For the refinement the invariant adds that there is one sequence of positions whose neighbours
the links join (`OrderInv`). A traversal that follows the links visits this sequence; the
abstract list is its image, and each of the operations acts on the
sequence as that of `RecencyList` acts on the list. Traversal and search are recursive functions of the links, so
that they can be reasoned about without induction over data: that there is one such function follows from the least
position at which two of them would differ.

*FileCacheLRU.* The invariant is a predicate on the value of the cache, `Sound(c)`:
the two lists are disjoint and without repetitions, a file in neither has no descriptor,
cached files are available and in the directory, and sockets are kept only for waiting
files. It is stated of a value and not of the variable because `put` and `refresh`
are chains of operators: each lemma says that one of them returns a sound cache
from a sound one. To start from a directory, the invariant adds that files not yet put are
present and unknown. For the refinement the same lemmas say what a `put` takes out: nothing, or one
file that was evictable, and nothing while there is room.

*FileCaches.* One invariant for all classes (`CacheInv`), with a part for each. None of the three invariants the
run checks is inductive.
  `LirsInv`, for `QueuesAgree`: S has no repetition either, and as long as there are fewer LIR files than
`lir_set_size` every file in S is one of them. So the file that turns LIR always finds a LIR file to change places
with, and a pruned key is never one of a resident file. A refresh first takes its file out of Q; the
parts of an operation are therefore proved of queues that lack some files (`away`).
  `Sacrifice`, for `BoundedSacrifice`: what Acost holds is what was loaded less twice what was paid, or it is
used up; a victim other than the LRU file costs less than Acost, so its cost is paid for.
  `PlacesOf`, for `PenaltyOnce`: a file is in one of cache, queue and waiting list, and outside the cache its cost
is full. That is what it enters with, when its partition has a hole or gets one.
  ARC needs little: its lists hold result files. What leaves T1 or T2 there is a victim or on its way to the other.
The refinement and `EvictsOneUnused` are proved in two layers. For each class, a put and a refresh are
reduced to the same statement about the files cached before and after (`Evicts`, `Fits`, `PinsKept`), the
victim of a cache based on LRU being any file of the list that nobody uses. Then each handler, which
looks up, puts or refreshes a file and changes its descriptor before or after, is shown to do
what `Stepped` says of that file, without regard to the class; a step of `FileCache` follows. A file that
is locked while it is put, or completed while it is refreshed, changes its own pin in the same step; that the
abstract `Insert` leaves open, and nothing else.

*DV.* First, what each message changes is stated field by field (`MissEffect`, `ClientEffect`,
`FinalizeEffect`, ...), so that later proofs need not expand the handlers. `Base` is the
types, that each job index entry and each simulator stand for the same job and slots are counted (`JobsInv`),
and that a file has one descriptor (`CacheInv`). It is enough for the refinements: the
guards of `JobQueue` and of `FileCacheLRU` follow from it and from counting
(`ClientInv`: the locks are at least the clients that hold one, the writers at most
the simulators that make the file), since the bounds of the cache (`MaxLock`, `MaxUsed`) must not be exceeded.
Then, in the order in which they build on each other:
  `RunsInv`, a simulator has made the files from its start on, without a gap, and is
told to end iff its job is invalid;
  `CountInv`, the writers counted are those that write;
  `WaitInv`, the countdown of a job moves only behind its target, and a waiting client's file lies between the last step
made and the target of some job, or is open there;
  `DataInv`, a file that is not available is written in place, one that is available
only in the redirect folder, by the one simulator there is, and what is available is complete.

The premises are needed. *Clean kills* (`CleanKills`) means that no simulator can be killed with
another file open: `MaxOpenFiles <= 1` or threshold 0. Otherwise it goes on uncounted, and the close of one
simulator takes away the count of another. A file created past the range of a job is not counted
either (`Overshoot = 0`). A crashed job is never removed (`MaxCrashes = 0`), and waits for nobody.
A metadata file closed before the data is there leaves its lock (`~FakeMeta`). With two slots
two simulators may write one file, and the copy in the redirect folder may be closed first (section 3);
`dv_parallel` checks `WaitersHaveTheData` with two slots over ranges that are disjoint.

*DVLib.* First, the table is well formed (`TableInv`): the free list has no repetitions and ends with the entry that
has the wrong id, what the index leads to is in use and has the key it is found by, and an entry that
another one hides has the same key and is hidden by no third. Tracking and untracking keep this.
With HDF5 a failed open files its entry under no id of the application, so that an id has one entry (`Flat`). There the
invariant (`AllOK`) says what each entry is: on its own (`Alone`), with the handle of its file and an id the application
has; or one of two that refer to each other (`Paired`), that of the metadata file, whose id the application has, and
that of the real one, to which the `fid` of the first leads. For the locks, every open and every close
counts for one id of the application, whichever of a pair the call names.
With the two netCDF bindings an entry left by a failed call may be on top of that of an open file, or come to light
when the one above it is untracked. `SlotsOK` says of every entry in use, hidden or not, what it leads to: the handle it is
filed under, real data under a handle that no other entry has (`Live`), or nothing that is still used (`Gone`);
and of the entry on top that it is of the file the application has open, unless a call failed with the id (`TopOK`).
Locks are then counted against the closes that can come: a file is claimed once for each of its entries (with netCDF,
those with a metadata file) and, with netCDF, once for each id of the application that is the real file's handle
(`Claimed`). The locks cover the claims (`LocksCover`): an open adds one claim and one lock, and a close that
is announced takes one of each away.
A simulator's redirected ids are among those it has open (`SimulatorInv`), so that an id used again is not found under
the name of the file before; the parallel netCDF binding breaks this (section 3), and its simulators are only
shown to keep their types.

*Session.* `IdsInv`: whoever has a rank, or has been sent one, is registered under it and
alone; job ids are below the counter and not ranks; a simulator is indexed while it has its id. It
needs that a process is in one backlog once (`BacklogInv`) and that what it asks for is what
it is (`RequestInv`). `RangesInv`: the ranges stored for a client that is about to send the next one, or waits for its
answer, are those of its list before it, and with it when the answer is 0; a call that fails, at the client or in
the server, is over, and what it left is cleared by the first range of the next.

Assumptions are the `ASSUME`s of the modules, evaluated by TLC in each run.

Only model-checked: liveness (outside the prover's reach), that is `AwaitedStepsComplete`, `QueuedJobsStart`,
`WaitersAreServed`, `EveryRequestAnswered` and `StopIsHonoured`. Every safety property the passing runs check is the
statement of a theorem, some under the premises named above; where a run goes beyond them
(`WaitersHaveTheData` with two slots), it shows the property of its instance only.

## 5. Not modelled

* The thread-safe build of DVLib (`__MT__`): the locks, per-thread ranks, and what threads may do to
  each other's files.
* RDMA: the server never sends the reply that would use it.
* Signals to the DV (they take the exit path of a stop), and a restart of the DV over partial
  files beyond what `initializeWithFiles` does: nothing says what a restart promises.
* Passive mode's handling of files and the prefetcher's jobs in the composition `DV`: both are in
  modules of their own (`Session`, `PrefetchContext`).
* HDF5 objects but for the file they belong to; ranks of parallel netCDF other than 0;
  `dvl_nc_put`, which only reports.
* Checkpoints but for the kill they may bring (`SimJob`); variable put changes nothing.
* The text of messages and of the status report, parsing, configuration, Lua callbacks, statistics,
  the generated shell script, the `simfs` tool: I/O, parsing and reporting.
* getopt, Lua and uthash, which are vendored or generated; uthash is used as a map.
