---------------------------- MODULE FileCacheLRU ----------------------------
(***************************************************************************)
(* The LRU file cache under the DV's message handlers.  Each action is one *)
(* handler's use of the cache; which of them comes next is up to clients   *)
(* and simulators, whose own state is in module DV.                        *)
(***************************************************************************)
EXTENDS FileCacheOps, FiniteSets

CONSTANTS
    File,       \* the result files
    Client,     \* clients, each with the socket it waits on
    capacity,   \* the capacity option of the cache
    MaxLock,    \* bound: clients that have one file open
    MaxUsed     \* bound: simulators that write one file

ASSUME FileCacheLRUAssumption ==
    /\ capacity \in Nat
    /\ MaxLock \in Nat \ {0} /\ MaxUsed \in Nat \ {0}

VARIABLES
    cache,
    unread      \* files of the result directory that the start has not put yet

vars == <<cache, unread>>

Descriptor ==
    [file_available : BOOLEAN, lock_count : 0 .. MaxLock, used : 0 .. MaxUsed,
     sockets : SUBSET Client]

CacheType ==
    [lru : Seq(File), waiting : SUBSET File, fd : [File -> Descriptor],
     disk : [File -> {"absent", "present"}]]

TypeOK == cache \in CacheType /\ unread \in SUBSET File

\* The result directory may hold any files when the DV starts.
Init ==
    /\ unread \in SUBSET File
    /\ cache = [lru |-> <<>>, waiting |-> {},
                fd |-> [f \in File |-> NoDescriptor],
                disk |-> [f \in File |-> IF f \in unread THEN "present" ELSE "absent"]]

-----------------------------------------------------------------------------
\* The start reads the directory, in any order, before any message is handled.
initializeWithFiles(f) ==
    /\ f \in unread
    /\ cache' = put(cache, f, setFileAvailable(NoDescriptor), capacity)
    /\ unread' = unread \ {f}

\* handleOpen of a client: lock the descriptor, put a new one if there is none.
ClientFileOpen(f) ==
    /\ cache.fd[f].lock_count < MaxLock
    /\ cache' = IF Known(cache, f)
                THEN [cache EXCEPT !.fd[f] = lock(@)]
                ELSE put(cache, f, lock(NoDescriptor), capacity)

\* A client, blocked by the call, waits for a file that is not available.
ClientVariableGet(f, s) ==
    /\ Known(cache, f)
    /\ \A g \in File : s \notin cache.fd[g].sockets
    /\ ~cache.fd[f].file_available
    /\ cache' = [cache EXCEPT !.fd[f] = appendNotificationSocket(@, s)]

ClientFileClose(f) ==
    /\ Known(cache, f)
    /\ cache' = [cache EXCEPT !.fd[f] = unlock(@)]

\* The create of a file in the job's range: a new descriptor is put if needed.
SimulatorFileCreate(f) ==
    /\ cache.fd[f].used < MaxUsed
    /\ LET known == put(cache, f, NoDescriptor, capacity)
       IN  cache' = [known EXCEPT !.fd[f] = setFileUsedBySimulator(@, TRUE)]

\* The create of a file that is not in the job's range (overshoot): a
\* descriptor is used if there is one, and none is put.
SimulatorFileCreateOutOfRange(f) ==
    /\ Known(cache, f)
    /\ cache.fd[f].used < MaxUsed
    /\ cache' = [cache EXCEPT !.fd[f] = setFileUsedBySimulator(@, TRUE)]

\* A simulator whose create was not redirected creates the file itself, some
\* time after the server's reply; so may one that was told to end.
SimulatorTruncate(f) == cache' = [cache EXCEPT !.disk[f] = "present"]

\* The close of a file in the job's range: available, one writer less, moved
\* to the MRU position, and the clients that wait for it are notified.  The
\* handler asserts that the file is known, not that a writer was counted: a
\* simulator that was told to end creates files that no handler counts.
SimulatorFileClose(f) ==
    /\ Known(cache, f)
    /\ LET complete == [cache EXCEPT !.fd[f] =
                            setFileUsedBySimulator(setFileAvailable(@), FALSE)]
           moved == refresh(complete, f, capacity)
       IN  cache' = [moved EXCEPT !.fd[f] = removeAllNotificationSockets(@)]

\* The close of a file outside of the job's range, or of a killed job.
SimulatorFileCloseOutOfRange(f) ==
    /\ Known(cache, f)
    /\ cache' = [cache EXCEPT !.fd[f] = setFileUsedBySimulator(@, FALSE)]

Handler(f) ==
    \/ ClientFileOpen(f)
    \/ \E s \in Client : ClientVariableGet(f, s)
    \/ ClientFileClose(f)
    \/ SimulatorFileCreate(f)
    \/ SimulatorFileCreateOutOfRange(f)
    \/ SimulatorTruncate(f)
    \/ SimulatorFileClose(f)
    \/ SimulatorFileCloseOutOfRange(f)

Next ==
    \/ \E f \in File : initializeWithFiles(f)
    \/ unread = {} /\ unread' = unread /\ \E f \in File : Handler(f)

Spec == Init /\ [][Next]_vars

-----------------------------------------------------------------------------
(* A file has one descriptor, in the cache or in the waiting list, and     *)
(* appears once in the LRU order; what is in the cache is available: put,  *)
(* get and refresh never meet the inconsistent states they report.         *)
OneDescriptor ==
    /\ IsInjective(cache.lru)
    /\ Cached(cache) \cap cache.waiting = {}
    /\ \A f \in Cached(cache) : cache.fd[f].file_available
    /\ \A f \in File : ~Known(cache, f) => cache.fd[f] = NoDescriptor

(* The result directory holds every file in the cache: a hit never names a *)
(* file that was evicted, or one whose writer has not created it yet while *)
(* the close of a redirected copy makes it available.                      *)
FilesArePresent == \A f \in Cached(cache) : cache.disk[f] = "present"

(* A client that waits is registered with a file of the waiting list: no   *)
(* client waits for a file that is already there, and the descriptor with  *)
(* its socket is not lost.                                                 *)
WaitersAreKnown ==
    \A f \in File : cache.fd[f].sockets # {} => f \in cache.waiting

Abstract == INSTANCE FileCache WITH
                stored <- Cached(cache),
                pinned <- {f \in File : ~Evictable(cache.fd[f])}

(* The LRU cache keeps the promise of every file cache of the DV: no file  *)
(* in use is evicted, one file at most makes room for another, and the     *)
(* capacity is exceeded only when nothing can be evicted.                  *)
KeepsPromise == Abstract!Spec
=============================================================================
