--------------------------- MODULE FileCacheCost ---------------------------
(***************************************************************************)
(* The cost aware caches BCL and DCL, and their partition aware versions   *)
(* PBCL and PDCL, as operators on caches.  They extend the LRU cache and   *)
(* differ in the victim they choose and in what an eviction costs.  bcl is *)
(*    a_cost   a_cost_, what may be paid to keep the LRU file,             *)
(*    etd      the ETD of DCL and PDCL, entries [key, cost], LRU to MRU,   *)
(*    listed   the files in partitions_ of the partition aware caches,     *)
(*    loaded, paid   history of BCL and PBCL: a_cost when last reset, and  *)
(*             the costs of the files evicted in place of the LRU since.   *)
(***************************************************************************)
EXTENDS FileCacheOptions

\* Victims are pairs of a position and a cost; an LRU victim has no cost.
NoVictim == <<0, -1>>
VictimAt(i, cost) == <<i, cost>>

Unprotected(c) == 1 .. Len(c.lru) - protected_mrus

\* run 1: files that cost nothing; run 2: files cheaper than Acost, the LRU excluded.
FreeOfCost(c) ==
    {i \in Unprotected(c) : Evictable(c.fd[c.lru[i]]) /\ getActualCost(c, c.lru[i]) = 0}

Cheaper(c) ==
    {i \in Unprotected(c) \ {1} :
        Evictable(c.fd[c.lru[i]]) /\ getActualCost(c, c.lru[i]) < c.bcl.a_cost}

findVictim_BCL_raw(c) ==
    IF FreeOfCost(c) # {} THEN VictimAt(Lowest(FreeOfCost(c)), 0)
    ELSE IF Cheaper(c) # {}
         THEN VictimAt(Lowest(Cheaper(c)), getActualCost(c, c.lru[Lowest(Cheaper(c))]))
         ELSE NoVictim

findVictim_BCL(c) ==
    IF findVictim_BCL_raw(c) # NoVictim THEN findVictim_BCL_raw(c)
    ELSE VictimAt(Lowest(VictimPositions(c)), -1)

resetAcost(c) ==
    LET lru == getActualCost(c, c.lru[1])
    IN  [c EXCEPT !.bcl = [@ EXCEPT !.a_cost = lru, !.loaded = lru, !.paid = 0]]

\* Defect: what was paid to keep the LRU file is not taken off.
depreciateAcost_Free(c, amount) == c

depreciateAcost(c, amount) == [c EXCEPT !.bcl.a_cost = Max({0, @ - amount})]

\* The entry of a key is replaced, else one is added, else the LRU entry makes
\* room; with capacity 1 the ETD has no room at all, and nothing happens.
etdPut(c, key, cost) ==
    LET others == SelectSeq(c.bcl.etd, LAMBDA e : e.key # key)
        kept == IF Len(others) < capacity - 1 THEN others ELSE Tail(others)
    IN  IF capacity = 1 THEN c
        ELSE [c EXCEPT !.bcl.etd = Append(kept, [key |-> key, cost |-> cost])]

-----------------------------------------------------------------------------
\* Defect: every listed file of the partition is penalised, again at each eviction.
penalised_Listed(c, v) ==
    {k \in Cached(c) : getCheckpointNr(Restart, k) = getCheckpointNr(Restart, v) /\ k <= v}

\* The files that a hole at v makes cheaper: they are simulated again with v.
penalised(c, v) ==
    {k \in c.bcl.listed \cap Cached(c) :
        getCheckpointNr(Restart, k) = getCheckpointNr(Restart, v) /\ k <= v}

applyPenaltyFactor(cost) == (penalty * cost) \div 100

\* Each file of the partition pays the penalty once and leaves the dictionary.
penalise(c, v) ==
    IF c.class \notin PartitionAware THEN c
    ELSE [c EXCEPT !.cost = [k \in File |-> IF k \in penalised(c, v)
                                            THEN applyPenaltyFactor(@[k]) ELSE @[k]],
                   !.bcl.listed = @ \ penalised(c, v)]

listInPartition(c, f) ==
    IF c.class \in PartitionAware THEN [c EXCEPT !.bcl.listed = @ \cup {f}] ELSE c

\* evict and replace: the victim's file is removed, the new file is the MRU.
replaceVictim(c, i, f) ==
    LET v == c.lru[i]
    IN  [removeFile(penalise(c, v), v) EXCEPT !.lru = Append(RemoveAt(@, i), f)]

\* What the eviction costs: nothing, an amount to pay now or with the next get
\* of the entry, or a new Acost when the LRU file was the victim.
account(c, f, cost) ==
    CASE cost < 0 -> resetAcost(c)
      [] cost = 0 -> c
      [] cost > 0 /\ c.class \in {"BCL", "PBCL"} ->
             depreciateAcost([c EXCEPT !.bcl.paid = @ + cost], 2 * cost)
      [] cost > 0 /\ c.class \in {"DCL", "PDCL"} -> etdPut(c, f, 2 * cost)

actualPut_BCL(c, f) ==
    LET victim == findVictim_BCL(c)
    IN  IF Len(c.lru) < capacity \/ victim[1] = 0
        THEN [c EXCEPT !.lru = Append(@, f)]
        ELSE account(replaceVictim(c, victim[1], f), f, victim[2])

actualPut_LRUBased(c, f) ==
    IF c.class = "LRU" THEN actualPut(c, f, capacity)
    ELSE actualPut_BCL(listInPartition(c, f), f)

put_LRUBased(c, f, fd) ==
    IF Known(c, f) THEN c
    ELSE IF fd.file_available THEN actualPut_LRUBased(describe(c, f, fd), f)
         ELSE [describe(c, f, fd) EXCEPT !.waiting = @ \cup {f}]

refresh_LRUBased(c, f) ==
    CASE f \in Cached(c) /\ f \notin c.waiting /\ c.fd[f].file_available ->
             [c EXCEPT !.lru = ToMru(@, f)]
      [] f \notin Cached(c) /\ f \in c.waiting /\ c.fd[f].file_available
             /\ c.disk[f] # "absent" ->
             [actualPut_LRUBased(c, f) EXCEPT !.waiting = @ \ {f}]
      [] OTHER -> c

\* get: DCL pays for an entry of the ETD when its key is looked up.
actualGet(c, f) ==
    LET entries == {e \in Range(c.bcl.etd) : e.key = f}
    IN  IF c.class \in {"DCL", "PDCL"} /\ entries # {}
        THEN depreciateAcost(c, (CHOOSE e \in entries : TRUE).cost)
        ELSE c
=============================================================================
