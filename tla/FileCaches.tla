----------------------------- MODULE FileCaches -----------------------------
(***************************************************************************)
(* The file caches the DV can be configured with, behind the one interface *)
(* its message handlers use (the abstract class FileCache).  The cache is  *)
(* created when the DV starts; each action is one handler's use of it, as  *)
(* in FileCacheLRU.                                                        *)
(***************************************************************************)
EXTENDS FileCacheARC, FileCacheLIRS, FileCacheFifo

CONSTANTS
    Types,        \* the cache types configured without a FIFO queue
    WrappedTypes, \* the cache types configured with one
    Client,       \* clients, each with the socket it waits on
    MaxOpen,      \* bound: files open in clients, each open counted
    MaxWriters,   \* bound: files being written, each writer counted
    MaxWaiting    \* bound: files with a descriptor that are not available

ASSUME FileCachesAssumption ==
    /\ Types \subseteq FileCacheType
    /\ {createdClass(t) : t \in WrappedTypes} \subseteq LRUBased
    /\ MaxOpen \in Nat /\ MaxWriters \in Nat /\ MaxWaiting \in Nat

VARIABLES
    type,      \* the configured type
    cache,     \* the cache the handlers use
    unread     \* files of the result directory that the start has not put yet

vars == <<type, cache, unread>>

-----------------------------------------------------------------------------
\* The virtual methods of FileCache, by the class of the cache.

CachedFiles(c) ==
    CASE c.wrapped -> Cached_Fifo(c)
      [] c.class = "unlimited" -> {f \in c.files : c.fd[f].file_available}
      [] c.class = "ARC" -> Cached_ARC(c)
      [] c.class = "LIRS" -> Cached_LIRS(c)
      [] OTHER -> Cached(c)

WaitingFiles(c) ==
    IF c.class = "unlimited" THEN {f \in c.files : ~c.fd[f].file_available} ELSE c.waiting

HasDescriptor(c, f) == f \in CachedFiles(c) \cup WaitingFiles(c)

cachePut(c, f, fd) ==
    CASE c.wrapped -> put_Fifo(c, f, fd)
      [] c.class = "unlimited" -> [describe(c, f, fd) EXCEPT !.files = @ \cup {f}]
      [] c.class = "ARC" -> put_ARC(c, f, fd)
      [] c.class = "LIRS" -> put_LIRS(c, f, fd)
      [] OTHER -> put_LRUBased(c, f, fd)

cacheGet(c, f) == IF c.class \in LRUBased THEN actualGet(c, f) ELSE c

cacheRefresh(c, f) ==
    CASE c.wrapped -> refresh_Fifo(c, f)
      [] c.class = "unlimited" -> c
      [] c.class = "ARC" -> refresh_ARC(c, f)
      [] c.class = "LIRS" -> refresh_LIRS(c, f)
      [] OTHER -> refresh_LRUBased(c, f)

-----------------------------------------------------------------------------
\* The wrapper hands the start to the wrapped cache; files is the directory.
Init ==
    /\ unread \in SUBSET File
    /\ \/ type \in Types /\ cache = newCache(createdClass(type), FALSE, unread)
       \/ type \in WrappedTypes /\ cache = newCache(createdClass(type), TRUE, unread)

initializeWithFiles(f) ==
    /\ f \in unread
    /\ unread' = unread \ {f}
    /\ LET fd == setFileAvailable(NoDescriptor)
       IN  cache' = IF cache.wrapped THEN put_LRUBased(cache, f, fd)
                    ELSE cachePut(cache, f, fd)

Opened == MapThenSumSet(LAMBDA f : cache.fd[f].lock_count, File)
Written == MapThenSumSet(LAMBDA f : cache.fd[f].used, File)

MayPut == Cardinality(WaitingFiles(cache)) < MaxWaiting

\* handleOpen: get, then lock the descriptor or put a new one.
ClientFileOpen(f) ==
    /\ Opened < MaxOpen
    /\ HasDescriptor(cache, f) \/ MayPut
    /\ LET got == cacheGet(cache, f)
       IN  cache' = IF HasDescriptor(cache, f) THEN lockFile(got, f)
                    ELSE cachePut(got, f, lock(NoDescriptor))

\* A client, blocked by the call, waits for a file that is not available.
ClientVariableGet(f, s) ==
    /\ HasDescriptor(cache, f)
    /\ \A g \in File : s \notin cache.fd[g].sockets
    /\ ~cache.fd[f].file_available
    /\ cache' = [cacheGet(cache, f) EXCEPT !.fd[f] = appendNotificationSocket(@, s)]

\* The variable get of an available file looks it up once more.
ClientVariableGetAvailable(f) ==
    /\ HasDescriptor(cache, f) /\ cache.fd[f].file_available
    /\ cache' = cacheGet(cache, f)

ClientFileClose(f) ==
    /\ HasDescriptor(cache, f)
    /\ cache' = [cache EXCEPT !.fd[f] = unlock(@)]

SimulatorFileCreate(f) ==
    /\ Written < MaxWriters
    /\ HasDescriptor(cache, f) \/ MayPut
    /\ LET known == IF HasDescriptor(cache, f) THEN cache
                    ELSE cachePut(cache, f, NoDescriptor)
       IN  cache' = [known EXCEPT !.fd[f] = setFileUsedBySimulator(@, TRUE)]

SimulatorFileCreateOutOfRange(f) ==
    /\ HasDescriptor(cache, f)
    /\ Written < MaxWriters
    /\ cache' = [cache EXCEPT !.fd[f] = setFileUsedBySimulator(@, TRUE)]

\* The simulator creates the file itself, some time after the server's reply.
SimulatorTruncate(f) == cache' = [cache EXCEPT !.disk[f] = "present"]

SimulatorFileClose(f) ==
    /\ isFileUsedBySimulator(cache.fd[f])
    /\ LET complete == [cache EXCEPT !.fd[f] =
                            setFileUsedBySimulator(setFileAvailable(@), FALSE)]
           moved == cacheRefresh(complete, f)
       IN  cache' = IF moved.lirs.exited THEN [cache EXCEPT !.lirs.exited = TRUE]
                    ELSE [moved EXCEPT !.fd[f] = removeAllNotificationSockets(@)]

SimulatorFileCloseOutOfRange(f) ==
    /\ isFileUsedBySimulator(cache.fd[f])
    /\ cache' = [cache EXCEPT !.fd[f] = setFileUsedBySimulator(@, FALSE)]

Handler(f) ==
    \/ ClientFileOpen(f)
    \/ \E s \in Client : ClientVariableGet(f, s)
    \/ ClientVariableGetAvailable(f)
    \/ ClientFileClose(f)
    \/ SimulatorFileCreate(f)
    \/ SimulatorFileCreateOutOfRange(f)
    \/ SimulatorTruncate(f)
    \/ SimulatorFileClose(f)
    \/ SimulatorFileCloseOutOfRange(f)

\* A LIRS cache without a victim ends the DV.
Next ==
    /\ ~cache.lirs.exited
    /\ type' = type
    /\ \/ \E f \in File : initializeWithFiles(f)
       \/ unread = {} /\ unread' = unread /\ \E f \in File : Handler(f)

Spec == Init /\ [][Next]_vars
-----------------------------------------------------------------------------
(* What BCL and PBCL evict in place of the LRU file costs less, all files  *)
(* together, than the LRU file for which Acost was loaded.                 *)
BoundedSacrifice ==
    cache.class \in {"BCL", "PBCL"} =>
        cache.bcl.paid = 0 \/ cache.bcl.paid < cache.bcl.loaded

(* Whatever holes the evictions leave in a partition, a cached file pays   *)
(* the penalty once at most: its cost is the cost of a simulation from the *)
(* restart file, reduced once after it has left the dictionary.            *)
PenaltyOnce ==
    cache.class \in PartitionAware =>
        /\ cache.bcl.listed \subseteq Cached(cache)
        /\ \A f \in Cached(cache) :
               LET full == getPrevRestartDiff(Restart, f)
               IN  cache.cost[f] = IF f \in cache.bcl.listed THEN full
                                   ELSE applyPenaltyFactor(full)

(* The queues of LIRS agree (assureInvariants): Q holds just the resident  *)
(* HIR files, in any of their two states, no LIR file, and all of them are *)
(* keys of S; neither set exceeds its capacity.                            *)
QueuesAgree ==
    LET InState(s) == {f \in File : cache.lirs.state[f] = s}
        Q == cache.lirs.Q
    IN  /\ cache.lirs.state \in [File -> State]
        /\ IsInjective(Q)
        /\ Range(Q) = InState("ResidentHIR") \cup InState("ResidentHIRnotInSqueue")
        /\ Range(cache.lirs.S) = {f \in File : cache.lirs.state[f] # "None"}
        /\ Cardinality(InState("LIR")) = cache.lirs.LIR_size
        /\ cache.lirs.LIR_size <= lir_set_size /\ Len(Q) <= resident_hir_capacity

KeepsCapacity == cache.class \in LRUBased \cup {"LIRS"} /\ ~cache.wrapped

Abstract == INSTANCE FileCache WITH
                stored <- IF KeepsCapacity THEN CachedFiles(cache) ELSE {},
                pinned <- IF KeepsCapacity
                          THEN {f \in File : ~Evictable(cache.fd[f])} ELSE {}

(* The caches based on LRU, and LIRS, keep the promise of a file cache: no *)
(* file in use is evicted, one file at most makes room for another, and    *)
(* the capacity is exceeded only when nothing can be evicted.  ARC and the *)
(* FIFO wrapper choose one of two lists first, and grow when that one has  *)
(* nothing to evict.                                                       *)
KeepsPromise == Abstract!Spec

(* ARC and the FIFO wrapper, like every cache, evict one file at a time,   *)
(* none that is in use, and it leaves the result directory with the cache. *)
EvictsOneUnused ==
    [][\A f \in CachedFiles(cache) \ CachedFiles(cache)' :
           /\ Evictable(cache.fd[f])
           /\ CachedFiles(cache) \ {f} \subseteq CachedFiles(cache)'
           /\ cache'.disk[f] = "absent"]_vars
=============================================================================
