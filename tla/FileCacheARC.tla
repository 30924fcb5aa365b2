---------------------------- MODULE FileCacheARC ----------------------------
(***************************************************************************)
(* The ARC cache as operators on caches.  T1 and T2 hold the cached files, *)
(* B1 and B2 the names of files evicted from them, all from LRU to MRU; p  *)
(* is the target size of T1.  A waiting file that had a name in B1 or B2   *)
(* is remembered as such (ghost).                                          *)
(***************************************************************************)
EXTENDS FileCacheOptions

ArcList == {"T1", "T2", "B1", "B2"}

Cached_ARC(c) == Range(c.arc.T1) \cup Range(c.arc.T2)

WaitingFrom(c, b) == {f \in c.waiting : c.arc.ghost[f] = b}
total_B1_size(c) == Len(c.arc.B1) + Cardinality(WaitingFrom(c, "B1"))
total_B2_size(c) == Len(c.arc.B2) + Cardinality(WaitingFrom(c, "B2"))

WaitingPlace == [Regular |-> "WaitingRegular", B1 |-> "WaitingB1", B2 |-> "WaitingB2"]

\* Where find locates a file; a waiting one by the list it comes from.
Location(c, f) ==
    IF f \in c.waiting THEN WaitingPlace[c.arc.ghost[f]]
    ELSE IF \E list \in ArcList : f \in Range(c.arc[list])
         THEN CHOOSE list \in ArcList : f \in Range(c.arc[list])
         ELSE "NotFound"

\* A file leaves the place it is at, for the MRU position of a list.
enter(c, f, list) ==
    LET left == [c.arc EXCEPT !.ghost[f] = "Regular",
                              !.T1 = without(@, f), !.T2 = without(@, f),
                              !.B1 = without(@, f), !.B2 = without(@, f)]
    IN  [c EXCEPT !.waiting = @ \ {f}, !.arc = [left EXCEPT ![list] = Append(@, f)]]

\* The LRU evictable file of t is evicted, its name kept in b; without one the
\* cache grows.
evictInto(c, t, b) ==
    LET i == Victim(c, c.arc[t])
        v == c.arc[t][i]
    IN  IF i = 0 THEN c ELSE enter(removeFile(c, v), v, b)

replace(c, location) ==
    LET t1 == Len(c.arc.T1)
    IN  IF t1 > 0 /\ (c.arc.p < t1 \/ (location \in {"B2", "WaitingB2"} /\ t1 = c.arc.p))
        THEN evictInto(c, "T1", "B1")
        ELSE evictInto(c, "T2", "B2")

\* A hit in B1 grows the target of T1, a hit in B2 shrinks it.
Delta(own, other) == IF own >= other THEN 1 ELSE other \div own

adapt(c, location) ==
    LET b1 == total_B1_size(c)
        b2 == total_B2_size(c)
    IN  IF location \in {"B1", "WaitingB1"}
        THEN [c EXCEPT !.arc.p = Min({capacity, @ + Delta(b1, b2)})]
        ELSE [c EXCEPT !.arc.p = Max({0, @ - Delta(b2, b1)})]

\* Case IV A: L1 is full.  The name at the LRU position of B1 is forgotten, or
\* a file of T1 is evicted and its name not kept.
makeRoomInL1(c, location) ==
    LET i == Victim(c, c.arc.T1)
        v == c.arc.T1[i]
    IN  IF Len(c.arc.T1) < capacity /\ c.arc.B1 # <<>>
        THEN replace([c EXCEPT !.arc.B1 = Tail(@)], location)
        ELSE IF i = 0 THEN c
             ELSE [removeFile(c, v) EXCEPT !.arc.T1 = without(@, v)]

handleCaseIV(c, f, location) ==
    LET l1 == Len(c.arc.T1) + total_B1_size(c)
        all == l1 + Len(c.arc.T2) + total_B2_size(c)
        forgotten == IF all >= 2 * capacity /\ c.arc.B2 # <<>>
                     THEN [c EXCEPT !.arc.B2 = Tail(@)] ELSE c
        room == IF l1 >= capacity THEN makeRoomInL1(c, location)
                ELSE IF all >= capacity THEN replace(forgotten, location) ELSE c
    IN  enter(room, f, "T1")

handleUpdate(c, f) ==
    LET location == Location(c, f)
    IN  CASE location \in {"T1", "T2"} -> enter(c, f, "T2")
          [] location \in {"B1", "B2", "WaitingB1", "WaitingB2"} ->
                 enter(replace(adapt(c, location), location), f, "T2")
          [] location = "WaitingRegular" ->
                 handleCaseIV([c EXCEPT !.waiting = @ \ {f}], f, location)

put_ARC(c, f, fd) ==
    LET location == Location(c, f)
        known == describe(c, f, fd)
        ghost == IF location \in {"B1", "B2"} THEN location ELSE "Regular"
    IN  CASE location \notin {"B1", "B2", "NotFound"} -> c
          [] location \in {"B1", "B2"} /\ fd.file_available -> handleUpdate(known, f)
          [] location = "NotFound" /\ fd.file_available -> handleCaseIV(known, f, location)
          [] OTHER -> [known EXCEPT !.arc.B1 = without(@, f), !.arc.B2 = without(@, f),
                                    !.waiting = @ \cup {f}, !.arc.ghost[f] = ghost]

\* refresh looks at the descriptor only, not at the result directory.
refresh_ARC(c, f) ==
    IF Location(c, f) \notin {"B1", "B2", "NotFound"} /\ c.fd[f].file_available
    THEN handleUpdate(c, f) ELSE c
=============================================================================
