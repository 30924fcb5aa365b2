----------------------------- MODULE FileCache -----------------------------
(***************************************************************************)
(* What every file cache of the DV promises its handlers, whatever its     *)
(* replacement policy: a file leaves the cache only to make room for       *)
(* another one, one for one, never while a client or a simulator uses it,  *)
(* and the capacity is exceeded only when there is nothing to evict.       *)
(***************************************************************************)
EXTENDS FiniteSets, Naturals

CONSTANTS File, capacity

VARIABLES
    stored,   \* the files the cache holds
    pinned    \* the files that a client has locked or a simulator writes

vars == <<stored, pinned>>

Init == stored = {} /\ pinned = {}

\* At most one file, the most recently used, is protected without being pinned.
Full == Cardinality(stored) >= capacity
NothingToEvict == Cardinality(stored \ pinned) <= 1

\* A client or a simulator starts or stops using a file.
Use(f) ==
    /\ pinned' \in {pinned \cup {f}, pinned \ {f}}
    /\ UNCHANGED stored

\* A file that the cache does not hold is found at the start, or completed by a
\* simulator that may be the last to use it.
Insert(f) ==
    /\ f \notin stored
    /\ pinned' \in {pinned, pinned \ {f}}
    /\ \/ /\ ~Full \/ NothingToEvict
          /\ stored' = stored \cup {f}
       \/ /\ Full
          /\ \E v \in stored \ pinned : stored' = (stored \ {v}) \cup {f}

Next == \E f \in File : Use(f) \/ Insert(f)

Spec == Init /\ [][Next]_vars
=============================================================================
