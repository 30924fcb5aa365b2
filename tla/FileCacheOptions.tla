-------------------------- MODULE FileCacheOptions --------------------------
(***************************************************************************)
(* What the file caches of the DV other than LRU share: the options they   *)
(* are created with, and the record a cache is.  Beside the fields of      *)
(* FileCacheOps it has                                                     *)
(*    class      the class of the cache object,                            *)
(*    requested  the files whose use_count is not 0,                       *)
(*    cost       the cost kept in each descriptor,                         *)
(*    wrapped    whether a FifoWrapper is in front of it,                  *)
(*    bcl, arc, lirs, files, fifo   what one class keeps for itself.       *)
(***************************************************************************)
EXTENDS FileCacheOps, Restarts, FiniteSets

CONSTANTS
    File,            \* the result files, each the number of its step
    Restart,         \* the restart files, by number
    capacity,        \* filecache_embedded_cache_size
    protected_mrus,  \* filecache_protected_mrus
    penalty,         \* filecache_penalty_factor, in percent
    lir_set_size,    \* filecache_lir_set_size
    fifo_queue_size  \* filecache_fifo_queue_size

ASSUME FileCacheOptionsAssumption ==
    /\ File \subseteq Nat /\ Restart \subseteq Nat
    /\ capacity \in Nat \ {0} /\ protected_mrus \in Nat
    /\ penalty \in 0 .. 100
    /\ lir_set_size \in 1 .. capacity - 1
    /\ fifo_queue_size \in Nat \ {0}

FileCacheType == {"unlimited", "LRU", "ARC", "LIRS", "BCL", "DCL", "PLRU", "PBCL", "PDCL"}

\* The class of the cache made for a type: the case of PLRU has no break, and
\* the PBCL cache of the case behind it takes the place of its cache.
createdClass(type) == IF type = "PLRU" THEN "PBCL" ELSE type

LRUBased == {"LRU", "BCL", "DCL", "PBCL", "PDCL"}
PartitionAware == {"PBCL", "PDCL"}

newCache(class, wrapped, files) ==
    [class |-> class, wrapped |-> wrapped, lru |-> <<>>, waiting |-> {}, requested |-> {},
     fd    |-> [f \in File |-> NoDescriptor],
     disk  |-> [f \in File |-> IF f \in files THEN "present" ELSE "absent"],
     cost  |-> [f \in File |-> 0],
     bcl   |-> [a_cost |-> 0, etd |-> <<>>, listed |-> {}, loaded |-> 0, paid |-> 0],
     arc   |-> [T1 |-> <<>>, T2 |-> <<>>, B1 |-> <<>>, B2 |-> <<>>, p |-> 0,
                ghost |-> [f \in File |-> "Regular"]],
     lirs  |-> [S |-> <<>>, Q |-> <<>>, state |-> [f \in File |-> "None"],
                LIR_size |-> 0, exited |-> FALSE],
     files |-> {},
     fifo  |-> [queue |-> <<>>, capacity |-> fifo_queue_size]]

\* The list without the entry of f, if it has one (at most one, as in every map).
without(list, f) ==
    IF f \in Range(list) THEN RemoveAt(list, CHOOSE i \in DOMAIN list : list[i] = f) ELSE list

ToMru(list, f) == Append(without(list, f), f)
Lowest(positions) == IF positions = {} THEN 0 ELSE Min(positions)

\* Defect: the victim may be a file a client has open.
Victim_Locked(c, list) ==
    Lowest({i \in DOMAIN list : ~isFileUsedBySimulator(c.fd[list[i]])})

\* The first file of a list that may be evicted; 0 if there is none.
Victim(c, list) == Lowest({i \in DOMAIN list : Evictable(c.fd[list[i]])})

\* The descriptor of a victim and its file are removed.
removeFile(c, f) ==
    [c EXCEPT !.fd[f] = NoDescriptor, !.disk[f] = "absent", !.cost[f] = 0,
              !.requested = @ \ {f}]

lockFile(c, f) == [c EXCEPT !.fd[f] = lock(@), !.requested = @ \cup {f}]

\* A new descriptor gets its place and, in the caches based on LRU, its cost.
describe(c, f, fd) ==
    [c EXCEPT !.fd[f] = fd,
              !.requested = IF fd.lock_count > 0 THEN @ \cup {f} ELSE @,
              !.cost[f] = IF c.class \in LRUBased THEN getPrevRestartDiff(Restart, f) ELSE 0]

\* FileDescriptor::getActualCost: half the cost, at least 1, until requested.
getActualCost(c, f) ==
    IF f \in c.requested \/ c.cost[f] = 0 THEN c.cost[f]
    ELSE Max({1, c.cost[f] \div 2})
=============================================================================
