--------------------------- MODULE FileCacheLIRS ---------------------------
(***************************************************************************)
(* The LIRS cache as operators on caches.  S and Q are its queues, from    *)
(* LRU to MRU; state is the State kept with each key of S ("None" for keys *)
(* S does not have).  A file is resident in the three states with a file.  *)
(***************************************************************************)
EXTENDS FileCacheOptions

State == {"None", "LIR", "ResidentHIR", "NonResidentHIR", "ResidentHIRnotInSqueue", "Pool"}
StateWithFile == {"LIR", "ResidentHIR", "ResidentHIRnotInSqueue"}

resident_hir_capacity == capacity - lir_set_size

Cached_LIRS(c) == {f \in File : c.lirs.state[f] \in StateWithFile}

\* The first key of S in a state, as a set of at most one.
LastInS(c, s) ==
    LET i == Lowest({j \in DOMAIN c.lirs.S : c.lirs.state[c.lirs.S[j]] = s})
    IN  IF i = 0 THEN {} ELSE {c.lirs.S[i]}

\* Defect: files evicted from Q keep their entry there.
dropFromQ_Kept(q, v) == q
dropFromQ(q, v) == without(q, v)

\* A full Q gives up the file of its LRU evictable entry; the program exits if
\* it has none.
makeRoomInQ(c) ==
    LET i == Victim(c, c.lirs.Q)
        v == c.lirs.Q[i]
    IN  CASE Len(c.lirs.Q) < resident_hir_capacity -> c
          [] Len(c.lirs.Q) >= resident_hir_capacity /\ i = 0 ->
                 [c EXCEPT !.lirs.exited = TRUE]
          [] OTHER -> [removeFile(c, v) EXCEPT !.lirs.Q = dropFromQ(@, v),
                                               !.lirs.state[v] = "NonResidentHIR"]

prunedState(s, f, moved) ==
    CASE s = "ResidentHIR" /\ f # moved -> "ResidentHIRnotInSqueue"
      [] s = "NonResidentHIR" -> "Pool"
      [] OTHER -> s

\* Everything behind the last LIR file of S leaves S, by name if not in fact.
prune_S(c, moved) ==
    LET S == c.lirs.S
        lir == {i \in DOMAIN S : c.lirs.state[S[i]] = "LIR"}
        behind == {S[i] : i \in {j \in DOMAIN S : \A k \in lir : j < k}}
    IN  [c EXCEPT !.lirs.state = [f \in File |-> IF f \in behind
                                                 THEN prunedState(@[f], f, moved) ELSE @[f]]]

\* The last LIR file becomes the MRU of Q, and f the LIR file at the MRU of S.
exchange(c, f) ==
    LET bottom == CHOOSE g \in LastInS(c, "LIR") : TRUE
    IN  prune_S([c EXCEPT !.lirs.state = [@ EXCEPT ![bottom] = "ResidentHIR", ![f] = "LIR"],
                          !.lirs.Q = Append(@, bottom),
                          !.lirs.S = ToMru(@, f)], bottom)

\* A file S has no history of: it takes the slot of a pruned key, if any.
actualPut_New(c, f, slot) ==
    LET kept == IF slot = {} THEN c.lirs.S ELSE without(c.lirs.S, CHOOSE g \in slot : TRUE)
        S == ToMru(kept, f)
        freed == [g \in File |-> IF g \in slot THEN "None" ELSE c.lirs.state[g]]
        room == makeRoomInQ(c)
    IN  IF c.lirs.LIR_size < lir_set_size
        THEN [c EXCEPT !.lirs.S = S, !.lirs.state = [freed EXCEPT ![f] = "LIR"],
                       !.lirs.LIR_size = IF slot = {} THEN @ + 1 ELSE @]
        ELSE IF room.lirs.exited THEN room
        ELSE [room EXCEPT !.lirs.S = S, !.lirs.Q = Append(@, f),
                          !.lirs.state = [g \in File |-> IF g = f THEN "ResidentHIR"
                                                         ELSE IF g \in slot THEN "None" ELSE @[g]]]

\* A non-resident HIR file had a short enough reuse distance to become LIR.
actualPut_LIRS(c, f) ==
    CASE c.lirs.state[f] = "NonResidentHIR" ->
             LET room == makeRoomInQ(c)
             IN  IF room.lirs.exited THEN room ELSE exchange(room, f)
      [] c.lirs.state[f] = "Pool" -> actualPut_New(c, f, {f})
      [] OTHER -> actualPut_New(c, f, LastInS(c, "Pool"))

actualRefresh(c, f) ==
    CASE c.lirs.state[f] = "LIR" -> prune_S([c EXCEPT !.lirs.S = ToMru(@, f)], f)
      [] c.lirs.state[f] = "ResidentHIR" -> exchange([c EXCEPT !.lirs.Q = without(@, f)], f)
      [] c.lirs.state[f] = "ResidentHIRnotInSqueue" ->
             [c EXCEPT !.lirs.state[f] = "ResidentHIR",
                       !.lirs.Q = ToMru(@, f), !.lirs.S = ToMru(@, f)]

put_LIRS(c, f, fd) ==
    IF f \in Cached_LIRS(c) \cup c.waiting THEN c
    ELSE IF fd.file_available THEN actualPut_LIRS(describe(c, f, fd), f)
         ELSE [describe(c, f, fd) EXCEPT !.waiting = @ \cup {f}]

refresh_LIRS(c, f) ==
    CASE f \in Cached_LIRS(c) /\ f \notin c.waiting /\ c.fd[f].file_available ->
             actualRefresh(c, f)
      [] f \notin Cached_LIRS(c) /\ f \in c.waiting /\ c.fd[f].file_available
             /\ c.disk[f] # "absent" ->
             [actualPut_LIRS(c, f) EXCEPT !.waiting = @ \ {f}]
      [] OTHER -> c
=============================================================================
