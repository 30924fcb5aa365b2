-------------------------- MODULE FileCachesProofs --------------------------
(***************************************************************************)
(* What holds of every file cache the DV can be configured with, for all   *)
(* files, restarts, capacities and options.                                *)
(*                                                                         *)
(* The queues of LIRS come first (LirsInv), then the costs and the places  *)
(* of the caches based on LRU, behind the FIFO wrapper or not (LRUInv),    *)
(* and the lists of ARC (ArcShape).  For each of them, what a put and a    *)
(* refresh do to the files is brought to one form: which file is evicted   *)
(* (Evicts), whether the capacity is exceeded (Fits), and that no other    *)
(* file is pinned or released (PinsKept).  Behind the interface (CacheInv) *)
(* each handler then does what Stepped says, whatever the class.           *)
(***************************************************************************)
EXTENDS FileCaches, OperatorProofs

-----------------------------------------------------------------------------
\* Lists of files, and the search for a victim.

(* The list of a map without a key has the other keys, in their order.     *)
LEMMA WithoutProperties ==
    ASSUME NEW S, NEW s \in Seq(S), NEW f, IsInjective(s)
    PROVE  /\ without(s, f) \in Seq(S)
           /\ IsInjective(without(s, f))
           /\ Range(without(s, f)) = Range(s) \ {f}
           /\ Len(without(s, f)) = IF f \in Range(s) THEN Len(s) - 1 ELSE Len(s)
<1>1. CASE f \notin Range(s)
  BY <1>1 DEF without
<1>2. CASE f \in Range(s)
  <2> DEFINE i == CHOOSE j \in DOMAIN s : s[j] = f
  <2>1. i \in 1 .. Len(s) /\ s[i] = f
    <3>1. \E j \in DOMAIN s : s[j] = f
      BY <1>2 DEF Range
    <3>2. i \in DOMAIN s /\ s[i] = f
      BY <3>1
    <3>3. DOMAIN s = 1 .. Len(s)
      OBVIOUS
    <3> QED
      BY <3>2, <3>3
  <2>2. without(s, f) = RemoveAt(s, i)
    BY <1>2, Zenon DEF without
  <2> HIDE DEF i
  <2>3. RemoveAt(s, i) \in Seq(S) /\ Len(RemoveAt(s, i)) = Len(s) - 1
    BY <2>1, RemoveAtProperties
  <2>4. IsInjective(RemoveAt(s, i)) /\ Range(RemoveAt(s, i)) = Range(s) \ {s[i]}
    BY <2>1, RemoveAtInjective
  <2> QED
    BY <1>2, <2>1, <2>2, <2>3, <2>4
<1> QED
  BY <1>1, <1>2

(* A file that becomes the MRU of a list has one entry, the last one.      *)
LEMMA ToMruProperties ==
    ASSUME NEW S, NEW s \in Seq(S), NEW f \in S, IsInjective(s)
    PROVE  /\ ToMru(s, f) \in Seq(S)
           /\ IsInjective(ToMru(s, f))
           /\ Range(ToMru(s, f)) = Range(s) \cup {f}
           /\ Len(ToMru(s, f)) = IF f \in Range(s) THEN Len(s) ELSE Len(s) + 1
<1> DEFINE w == without(s, f)
<1>1. /\ w \in Seq(S) /\ IsInjective(w) /\ Range(w) = Range(s) \ {f}
      /\ Len(w) = IF f \in Range(s) THEN Len(s) - 1 ELSE Len(s)
  BY WithoutProperties
<1>2. ToMru(s, f) = Append(w, f)
  BY DEF ToMru
<1>3. Len(s) \in Nat
  OBVIOUS
<1> HIDE DEF w
<1>4. Append(w, f) \in Seq(S) /\ IsInjective(Append(w, f))
      /\ Range(Append(w, f)) = Range(w) \cup {f}
  BY <1>1, AppendKeepsInjective
<1>5. Len(Append(w, f)) = Len(w) + 1
  BY <1>1
<1> QED
  BY <1>1, <1>2, <1>3, <1>4, <1>5

(* A list without repetitions has as many entries as it holds elements.    *)
LEMMA CountOfList ==
    ASSUME NEW S, NEW s \in Seq(S), IsInjective(s)
    PROVE  IsFiniteSet(Range(s)) /\ Cardinality(Range(s)) = Len(s)
<1> DEFINE n == Len(s)
<1>1. n \in Nat /\ DOMAIN s = 1 .. n /\ s \in [1 .. n -> Range(s)]
  BY DEF Range
<1>2. \A t \in Range(s) : \E i \in 1 .. n : s[i] = t
  BY <1>1 DEF Range
<1> HIDE DEF n
<1>3. \A i, j \in 1 .. n : s[i] = s[j] => i = j
  BY <1>1 DEF IsInjective
<1>4. s \in Surjection(1 .. n, Range(s)) /\ s \in Injection(1 .. n, Range(s))
  BY <1>1, <1>2, <1>3 DEF Surjection, Injection, IsInjective
<1>5. IsFiniteSet(1 .. n) /\ Cardinality(1 .. n) = n
  BY <1>1, FS_Interval
<1> QED
  BY <1>4, <1>5, FS_Surjection DEF n

(* A search that finds nothing returns 0, any other a position it wanted.  *)
LEMMA LowestProperty ==
    ASSUME NEW positions \in SUBSET (Nat \ {0})
    PROVE  /\ Lowest(positions) \in Nat
           /\ Lowest(positions) = 0 <=> positions = {}
           /\ positions # {} => Lowest(positions) \in positions
<1>1. CASE positions = {}
  BY <1>1 DEF Lowest
<1>2. CASE positions # {}
  BY <1>2, MinProperty DEF Lowest
<1> QED
  BY <1>1, <1>2

(* The victim in a list of files is a file of it that may be evicted.      *)
LEMMA VictimProperty ==
    ASSUME NEW c, NEW S, NEW list \in Seq(S)
    PROVE  /\ Victim(c, list) \in 0 .. Len(list)
           /\ Victim(c, list) # 0 => /\ list[Victim(c, list)] \in S
                                     /\ list[Victim(c, list)] \in Range(list)
                                     /\ Evictable(c.fd[list[Victim(c, list)]])
<1> DEFINE P == {i \in DOMAIN list : Evictable(c.fd[list[i]])}
<1>1. P \subseteq 1 .. Len(list)
  OBVIOUS
<1>9. \A i \in P : Evictable(c.fd[list[i]])
  OBVIOUS
<1>2. Victim(c, list) = Lowest(P)
  BY DEF Victim
<1>3. \A i \in 1 .. Len(list) : list[i] \in S /\ list[i] \in Range(list)
  BY DEF Range
<1>4. Len(list) \in Nat
  OBVIOUS
<1> HIDE DEF P
<1>5. Lowest(P) = 0 \/ Lowest(P) \in P
  BY <1>1, LowestProperty
<1> DEFINE v == Victim(c, list)
<1>6. v = 0 \/ v \in P
  BY <1>2, <1>5, Zenon
<1> HIDE DEF v
<1>7. v \in 0 .. Len(list) /\ (v # 0 => v \in P /\ v \in 1 .. Len(list))
  <2>1. v # 0 => v \in P /\ v \in 1 .. Len(list)
    BY <1>1, <1>6, Zenon
  <2> QED
    BY <1>4, <2>1
<1>8. v # 0 => list[v] \in S /\ list[v] \in Range(list) /\ Evictable(c.fd[list[v]])
  <2>1. SUFFICES ASSUME v # 0
                 PROVE  list[v] \in S /\ list[v] \in Range(list) /\ Evictable(c.fd[list[v]])
    OBVIOUS
  <2>2. v \in P /\ v \in 1 .. Len(list)
    BY <1>7, <2>1
  <2>3. Evictable(c.fd[list[v]])
    BY <1>9, <2>2, Zenon
  <2> QED
    BY <1>3, <2>2, <2>3, Zenon
<1> QED
  BY <1>7, <1>8, Zenon DEF v

(* The greater one of two integers.                                        *)
LEMMA MaxOfTwo ==
    ASSUME NEW a \in Int, NEW b \in Int
    PROVE  Max({a, b}) \in {a, b} /\ \A y \in {a, b} : y <= Max({a, b})
<1>1. \E x \in {a, b} : \A y \in {a, b} : x >= y
  <2>1. CASE a <= b
    BY <2>1
  <2>2. CASE b <= a
    BY <2>2
  <2> QED
    BY <2>1, <2>2
<1>2. Max({a, b}) = CHOOSE x \in {a, b} : \A y \in {a, b} : x >= y
  BY DEF Max
<1>3. Max({a, b}) \in {a, b} /\ \A y \in {a, b} : Max({a, b}) >= y
  BY <1>1, <1>2
<1> QED
  BY <1>3

-----------------------------------------------------------------------------
\* The queues of LIRS.

LirsFields == {"S", "Q", "state", "LIR_size", "exited"}

InState(l, s) == {f \in File : l.state[f] = s}

\* What the queues are, when Q lacks the entries of the files in away.
LirsInv(l, away) ==
    /\ DOMAIN l = LirsFields
    /\ l.exited \in BOOLEAN
    /\ l.state \in [File -> State]
    /\ l.S \in Seq(File) /\ IsInjective(l.S)
    /\ Range(l.S) = {f \in File : l.state[f] # "None"}
    /\ l.Q \in Seq(File) /\ IsInjective(l.Q)
    /\ Range(l.Q) = {f \in File : l.state[f] \in {"ResidentHIR", "ResidentHIRnotInSqueue"}} \ away
    /\ Len(l.Q) <= resident_hir_capacity
    /\ IsFiniteSet(InState(l, "LIR"))
    /\ Cardinality(InState(l, "LIR")) = l.LIR_size
    /\ l.LIR_size \in Nat /\ l.LIR_size <= lir_set_size
    /\ \A f \in File : l.state[f] \in {"None", "LIR"} \/ l.LIR_size = lir_set_size

CacheFields ==
    {"class", "wrapped", "lru", "waiting", "requested", "fd", "disk", "cost", "bcl", "arc",
     "lirs", "files", "fifo"}

LirsCache(c, away) == DOMAIN c = CacheFields /\ LirsInv(c.lirs, away)

SameKind(c, d) == d.class = c.class /\ d.wrapped = c.wrapped

LirsCapacity == lir_set_size \in Nat \ {0} /\ resident_hir_capacity \in Nat \ {0}

(* The options leave room for a file of either kind.                       *)
LEMMA LirsCapacities == LirsCapacity
  BY FileCacheOptionsAssumption DEF LirsCapacity, resident_hir_capacity

(* After makeRoomInQ Q has room, or the program has exited: the file that  *)
(* was evicted keeps its name in S.                                        *)
MadeRoom(c, d) ==
    /\ LirsCache(d, {}) /\ SameKind(c, d)
    /\ d.lirs.exited \/ Len(d.lirs.Q) < resident_hir_capacity
    /\ d.lirs.S = c.lirs.S /\ d.lirs.LIR_size = c.lirs.LIR_size
    /\ \A g \in File : d.lirs.state[g] = c.lirs.state[g]
                       \/ /\ c.lirs.state[g] \in {"ResidentHIR", "ResidentHIRnotInSqueue"}
                          /\ d.lirs.state[g] = "NonResidentHIR"

LEMMA RoomInQ ==
    ASSUME NEW c, LirsCache(c, {})
    PROVE  MadeRoom(c, makeRoomInQ(c))
<1> DEFINE Q == c.lirs.Q
           i == Victim(c, Q)
           v == Q[i]
           d == makeRoomInQ(c)
<1>1. Q \in Seq(File) /\ Len(Q) \in Nat /\ resident_hir_capacity \in Nat
  BY LirsCapacities DEF LirsCache, LirsInv, LirsCapacity
<1>2. CASE Len(Q) < resident_hir_capacity
  <2>1. d = c
    BY <1>1, <1>2 DEF makeRoomInQ
  <2> QED
    BY <1>2, <2>1 DEF MadeRoom, SameKind
<1>3. CASE ~(Len(Q) < resident_hir_capacity) /\ i = 0
  <2>1. d = [c EXCEPT !.lirs.exited = TRUE]
    BY <1>1, <1>3 DEF makeRoomInQ
  <2>2. DOMAIN c = CacheFields /\ DOMAIN c.lirs = LirsFields
    BY DEF LirsCache, LirsInv
  <2>3. /\ DOMAIN d = CacheFields /\ d.class = c.class /\ d.wrapped = c.wrapped
        /\ d.lirs = [c.lirs EXCEPT !.exited = TRUE]
    BY <2>1, <2>2 DEF CacheFields
  <2>4. /\ DOMAIN d.lirs = LirsFields
        /\ d.lirs.S = c.lirs.S /\ d.lirs.Q = c.lirs.Q /\ d.lirs.state = c.lirs.state
        /\ d.lirs.LIR_size = c.lirs.LIR_size /\ d.lirs.exited = TRUE
    BY <2>2, <2>3 DEF LirsFields
  <2> HIDE DEF d
  <2>5. LirsInv(d.lirs, {})
    BY <2>4 DEF LirsCache, LirsInv, InState
  <2> QED
    BY <2>3, <2>4, <2>5 DEF MadeRoom, LirsCache, SameKind, d
<1>4. CASE ~(Len(Q) < resident_hir_capacity) /\ i # 0
  <2>1. d = [removeFile(c, v) EXCEPT !.lirs.Q = dropFromQ(@, v),
                                     !.lirs.state[v] = "NonResidentHIR"]
    BY <1>1, <1>4 DEF makeRoomInQ
  <2>2. DOMAIN c = CacheFields /\ DOMAIN c.lirs = LirsFields
    BY DEF LirsCache, LirsInv
  <2>3. v \in File /\ v \in Range(Q)
    BY <1>1, <1>4, VictimProperty
  <2> HIDE DEF v, i
  <2> DEFINE e == removeFile(c, v)
  <2>4. DOMAIN e = CacheFields /\ e.class = c.class /\ e.wrapped = c.wrapped /\ e.lirs = c.lirs
    BY <2>2 DEF removeFile, CacheFields
  <2>5. d = [e EXCEPT !.lirs.Q = dropFromQ(@, v), !.lirs.state[v] = "NonResidentHIR"]
    BY <2>1
  <2> HIDE DEF d, e
  <2>6. /\ DOMAIN d = CacheFields /\ d.class = e.class /\ d.wrapped = e.wrapped
        /\ d.lirs = [e.lirs EXCEPT !.Q = dropFromQ(@, v),
                                   !.state = [@ EXCEPT ![v] = "NonResidentHIR"]]
    BY <2>4, <2>5 DEF CacheFields
  <2>7. /\ DOMAIN d.lirs = LirsFields
        /\ d.lirs.S = c.lirs.S /\ d.lirs.Q = dropFromQ(c.lirs.Q, v)
        /\ d.lirs.state = [c.lirs.state EXCEPT ![v] = "NonResidentHIR"]
        /\ d.lirs.LIR_size = c.lirs.LIR_size /\ d.lirs.exited = c.lirs.exited
    BY <2>2, <2>4, <2>6 DEF LirsFields
  <2>8. IsInjective(Q)
    BY DEF LirsCache, LirsInv
  <2>9. /\ d.lirs.Q \in Seq(File) /\ IsInjective(d.lirs.Q)
        /\ Range(d.lirs.Q) = Range(Q) \ {v} /\ Len(d.lirs.Q) = Len(Q) - 1
    BY <1>1, <2>3, <2>7, <2>8, WithoutProperties DEF dropFromQ
  <2>10. /\ c.lirs.state \in [File -> State]
         /\ Range(Q) = {f \in File : c.lirs.state[f] \in {"ResidentHIR", "ResidentHIRnotInSqueue"}}
         /\ Len(Q) <= resident_hir_capacity
    BY DEF LirsCache, LirsInv
  <2>11. /\ c.lirs.state[v] \in {"ResidentHIR", "ResidentHIRnotInSqueue"}
         /\ d.lirs.state[v] = "NonResidentHIR"
         /\ \A f \in File \ {v} : d.lirs.state[f] = c.lirs.state[f]
         /\ d.lirs.state \in [File -> State]
    BY <2>3, <2>7, <2>10 DEF State
  <2>12. InState(d.lirs, "LIR") = InState(c.lirs, "LIR")
    BY <2>3, <2>11 DEF InState
  <2>13. {f \in File : d.lirs.state[f] # "None"} = {f \in File : c.lirs.state[f] # "None"}
    BY <2>3, <2>11
  <2>14. Range(d.lirs.Q)
           = {f \in File : d.lirs.state[f] \in {"ResidentHIR", "ResidentHIRnotInSqueue"}}
    BY <2>3, <2>9, <2>10, <2>11
  <2>15. /\ c.lirs.S \in Seq(File) /\ IsInjective(c.lirs.S) /\ c.lirs.exited \in BOOLEAN
         /\ Range(c.lirs.S) = {f \in File : c.lirs.state[f] # "None"}
         /\ IsFiniteSet(InState(c.lirs, "LIR"))
         /\ Cardinality(InState(c.lirs, "LIR")) = c.lirs.LIR_size
         /\ c.lirs.LIR_size \in Nat /\ c.lirs.LIR_size <= lir_set_size
         /\ \A f \in File : c.lirs.state[f] \in {"None", "LIR"} \/ c.lirs.LIR_size = lir_set_size
    BY DEF LirsCache, LirsInv
  <2>16. Len(d.lirs.Q) < resident_hir_capacity
    BY <1>1, <2>9, <2>10
  <2>17. \A f \in File : d.lirs.state[f] \in {"None", "LIR"} \/ d.lirs.LIR_size = lir_set_size
    BY <2>7, <2>11, <2>15
  <2>18. Len(d.lirs.Q) <= resident_hir_capacity
    BY <1>1, <2>9, <2>10
  <2>19. LirsInv(d.lirs, {})
    BY <2>7, <2>9, <2>11, <2>12, <2>13, <2>14, <2>15, <2>17, <2>18 DEF LirsInv
  <2> QED
    BY <2>4, <2>6, <2>7, <2>11, <2>16, <2>19 DEF MadeRoom, LirsCache, SameKind, d
<1> QED
  BY <1>2, <1>3, <1>4

(* Pruning S renames states: resident files stay in Q, LIR files LIR, and  *)
(* the keys of S keys of S.                                                *)
LEMMA PruneKeepsQueues ==
    ASSUME NEW c, NEW moved, LirsCache(c, {})
    PROVE  LirsCache(prune_S(c, moved), {}) /\ SameKind(c, prune_S(c, moved))
<1> DEFINE S == c.lirs.S
           lir == {i \in DOMAIN S : c.lirs.state[S[i]] = "LIR"}
           behind == {S[i] : i \in {j \in DOMAIN S : \A k \in lir : j < k}}
           state == [f \in File |-> IF f \in behind THEN prunedState(c.lirs.state[f], f, moved)
                                    ELSE c.lirs.state[f]]
           d == prune_S(c, moved)
<1>1. d = [c EXCEPT !.lirs.state = state]
  BY DEF prune_S
<1> HIDE DEF behind, lir, S
<1>2. DOMAIN c = CacheFields /\ DOMAIN c.lirs = LirsFields /\ c.lirs.state \in [File -> State]
  BY DEF LirsCache, LirsInv
<1>3. \A f \in File : /\ state[f] \in State
                      /\ state[f] = "None" <=> c.lirs.state[f] = "None"
                      /\ state[f] = "LIR" <=> c.lirs.state[f] = "LIR"
                      /\ state[f] \in {"ResidentHIR", "ResidentHIRnotInSqueue"}
                           <=> c.lirs.state[f] \in {"ResidentHIR", "ResidentHIRnotInSqueue"}
  <2>1. ASSUME NEW s \in State, NEW f
        PROVE  LET p == prunedState(s, f, moved)
               IN  /\ p \in State /\ (p = "None" <=> s = "None") /\ (p = "LIR" <=> s = "LIR")
                   /\ p \in {"ResidentHIR", "ResidentHIRnotInSqueue"}
                           <=> s \in {"ResidentHIR", "ResidentHIRnotInSqueue"}
    BY DEF prunedState, State
  <2> QED
    BY <1>2, <2>1
<1>4. state \in [File -> State]
  BY <1>3
<1> HIDE DEF state, d
<1>5. /\ DOMAIN d = CacheFields /\ d.class = c.class /\ d.wrapped = c.wrapped
      /\ d.lirs = [c.lirs EXCEPT !.state = state]
  BY <1>1, <1>2 DEF CacheFields
<1>6. /\ DOMAIN d.lirs = LirsFields
      /\ d.lirs.S = c.lirs.S /\ d.lirs.Q = c.lirs.Q /\ d.lirs.state = state
      /\ d.lirs.LIR_size = c.lirs.LIR_size /\ d.lirs.exited = c.lirs.exited
  BY <1>2, <1>5 DEF LirsFields
<1>7. InState(d.lirs, "LIR") = InState(c.lirs, "LIR")
  BY <1>3, <1>6 DEF InState
<1>8. {f \in File : d.lirs.state[f] # "None"} = {f \in File : c.lirs.state[f] # "None"}
  BY <1>3, <1>6
<1>9. {f \in File : d.lirs.state[f] \in {"ResidentHIR", "ResidentHIRnotInSqueue"}}
        = {f \in File : c.lirs.state[f] \in {"ResidentHIR", "ResidentHIRnotInSqueue"}}
  BY <1>3, <1>6
<1>10. \A f \in File : c.lirs.state[f] \in {"None", "LIR"} \/ c.lirs.LIR_size = lir_set_size
  BY DEF LirsCache, LirsInv
<1>11. \A f \in File : d.lirs.state[f] \in {"None", "LIR"} \/ d.lirs.LIR_size = lir_set_size
  BY <1>3, <1>6, <1>10
<1>12. LirsInv(d.lirs, {})
  <2>1. /\ c.lirs.exited \in BOOLEAN
        /\ c.lirs.S \in Seq(File) /\ IsInjective(c.lirs.S)
        /\ Range(c.lirs.S) = {f \in File : c.lirs.state[f] # "None"}
        /\ c.lirs.Q \in Seq(File) /\ IsInjective(c.lirs.Q)
        /\ Range(c.lirs.Q)
             = {f \in File : c.lirs.state[f] \in {"ResidentHIR", "ResidentHIRnotInSqueue"}} \ {}
        /\ Len(c.lirs.Q) <= resident_hir_capacity
        /\ IsFiniteSet(InState(c.lirs, "LIR"))
        /\ Cardinality(InState(c.lirs, "LIR")) = c.lirs.LIR_size
        /\ c.lirs.LIR_size \in Nat /\ c.lirs.LIR_size <= lir_set_size
    BY DEF LirsCache, LirsInv
  <2> QED
    BY <1>4, <1>6, <1>7, <1>8, <1>9, <1>11, <2>1 DEF LirsInv
<1> QED
  BY <1>5, <1>12 DEF LirsCache, SameKind, d

(* The last LIR file of S, when there is one.                              *)
LEMMA LastInSProperty ==
    ASSUME NEW c, NEW s, c.lirs.S \in Seq(File)
    PROVE  /\ \/ LastInS(c, s) = {}
              \/ \E g \in File : LastInS(c, s) = {g} /\ c.lirs.state[g] = s
           /\ \A f \in Range(c.lirs.S) : c.lirs.state[f] = s => LastInS(c, s) # {}
<1> DEFINE S == c.lirs.S
           P == {j \in DOMAIN S : c.lirs.state[S[j]] = s}
           i == Lowest(P)
<1>1. P \subseteq 1 .. Len(S)
  OBVIOUS
<1>2. \A j \in P : S[j] \in File /\ c.lirs.state[S[j]] = s
  OBVIOUS
<1>3. LastInS(c, s) = IF i = 0 THEN {} ELSE {S[i]}
  BY DEF LastInS
<1>4. \A f \in Range(S) : c.lirs.state[f] = s => P # {}
  <2>1. SUFFICES ASSUME NEW f \in Range(S), c.lirs.state[f] = s PROVE P # {}
    OBVIOUS
  <2>2. PICK j \in DOMAIN S : S[j] = f
    BY DEF Range
  <2>3. j \in P
    BY <2>1, <2>2
  <2> QED
    BY <2>3
<1> HIDE DEF P
<1>5. (i = 0 <=> P = {}) /\ (P # {} => i \in P)
  BY <1>1, LowestProperty
<1> HIDE DEF i
<1>6. CASE i = 0
  BY <1>3, <1>4, <1>5, <1>6
<1>7. CASE i # 0
  <2>1. LastInS(c, s) = {S[i]} /\ S[i] \in File /\ c.lirs.state[S[i]] = s
    BY <1>2, <1>3, <1>5, <1>7, Zenon
  <2> QED
    BY <2>1, Zenon
<1> QED
  BY <1>6, <1>7

-----------------------------------------------------------------------------
\* What LIRS does to the files: its resident files are the cached ones.

Resident(l) == {g \in File : l.state[g] \in StateWithFile}

HIRStates == {"ResidentHIR", "ResidentHIRnotInSqueue"}

(* A file LIRS caches is a resident one.                                   *)
LEMMA ResidentFiles ==
    ASSUME NEW c
    PROVE  Cached_LIRS(c) = Resident(c.lirs)
  BY DEF Cached_LIRS, Resident

(* The resident files are the LIR files and those of Q.                    *)
LEMMA ResidentCount ==
    ASSUME NEW c, LirsCache(c, {})
    PROVE  /\ Cardinality(Cached_LIRS(c)) = c.lirs.LIR_size + Len(c.lirs.Q)
           /\ IsFiniteSet(Cached_LIRS(c)) /\ Cached_LIRS(c) \subseteq File
<1> DEFINE l == c.lirs
           A == InState(l, "LIR")
           B == Range(l.Q)
<1>1. /\ l.Q \in Seq(File) /\ IsInjective(l.Q)
      /\ B = {g \in File : l.state[g] \in HIRStates}
      /\ IsFiniteSet(A) /\ Cardinality(A) = l.LIR_size
  BY DEF LirsCache, LirsInv, HIRStates
<1>2. IsFiniteSet(B) /\ Cardinality(B) = Len(l.Q)
  BY <1>1, CountOfList
<1>3. A \cap B = {} /\ Cached_LIRS(c) = A \cup B
  BY <1>1 DEF InState, HIRStates, Cached_LIRS, StateWithFile
<1> HIDE DEF A, B
<1>4. /\ IsFiniteSet(A \cup B)
      /\ Cardinality(A \cup B) = Cardinality(A) + Cardinality(B) - Cardinality(A \cap B)
  BY <1>1, <1>2, FS_Union
<1>5. Cardinality(A \cap B) = 0
  BY <1>3, FS_EmptySet
<1>6. l.LIR_size \in Nat /\ Len(l.Q) \in Nat
  BY <1>1 DEF LirsCache, LirsInv
<1>7. Cardinality(A \cup B) = l.LIR_size + Len(l.Q)
  <2>1. Cardinality(A) = l.LIR_size /\ Cardinality(B) = Len(l.Q)
    BY <1>1, <1>2
  <2> HIDE DEF l
  <2> QED
    BY <1>4, <1>5, <1>6, <2>1
<1>8. Cached_LIRS(c) \subseteq File
  BY DEF Cached_LIRS
<1> QED
  BY <1>3, <1>4, <1>7, <1>8

Removed(c, d, v) ==
    /\ d.fd = [c.fd EXCEPT ![v] = NoDescriptor] /\ d.disk = [c.disk EXCEPT ![v] = "absent"]

\* f is inserted: the cache has room or nothing to evict, or a victim makes room.
Insertion(c, d, f, old, new) ==
    \/ /\ new = old \cup {f} /\ d.fd = c.fd /\ d.disk = c.disk
       /\ Cardinality(old) < capacity \/ Cardinality({g \in old : Evictable(c.fd[g])}) <= 1
    \/ /\ Cardinality(old) >= capacity
       /\ \E v \in old : /\ Evictable(c.fd[v]) /\ new = (old \ {v}) \cup {f}
                         /\ d.fd = [c.fd EXCEPT ![v] = NoDescriptor]
                         /\ d.disk = [c.disk EXCEPT ![v] = "absent"]

\* Q had room, or gave up one file that is not in use.
RoomMade(c, d) ==
    \/ /\ d.lirs.exited \/ Len(c.lirs.Q) < resident_hir_capacity
       /\ d.fd = c.fd /\ d.disk = c.disk /\ d.lirs.state = c.lirs.state
    \/ /\ Len(c.lirs.Q) = resident_hir_capacity /\ d.lirs.exited = c.lirs.exited
       /\ \E v \in File : /\ c.lirs.state[v] \in HIRStates /\ Evictable(c.fd[v])
                          /\ Removed(c, d, v)
                          /\ d.lirs.state = [c.lirs.state EXCEPT ![v] = "NonResidentHIR"]

(* What makeRoomInQ does to the files, beside the queues.                  *)
LEMMA RoomEffect ==
    ASSUME NEW c, LirsCache(c, {})
    PROVE  RoomMade(c, makeRoomInQ(c))
<1> DEFINE Q == c.lirs.Q
           i == Victim(c, Q)
           v == Q[i]
           d == makeRoomInQ(c)
<1>1. /\ Q \in Seq(File) /\ Len(Q) \in Nat /\ resident_hir_capacity \in Nat
      /\ Len(Q) <= resident_hir_capacity
      /\ DOMAIN c = CacheFields /\ DOMAIN c.lirs = LirsFields
      /\ Range(Q) = {g \in File : c.lirs.state[g] \in HIRStates}
  BY LirsCapacities DEF LirsCache, LirsInv, LirsCapacity, HIRStates
<1>2. CASE Len(Q) < resident_hir_capacity
  <2>1. d = c
    BY <1>1, <1>2 DEF makeRoomInQ
  <2> QED
    BY <1>2, <2>1 DEF RoomMade
<1>3. CASE ~(Len(Q) < resident_hir_capacity) /\ i = 0
  <2>1. d = [c EXCEPT !.lirs.exited = TRUE]
    BY <1>1, <1>3 DEF makeRoomInQ
  <2> HIDE DEF d
  <2>2. d.lirs.exited /\ d.fd = c.fd /\ d.disk = c.disk /\ d.lirs.state = c.lirs.state
    BY <1>1, <2>1 DEF CacheFields, LirsFields
  <2> QED
    BY <2>2 DEF RoomMade, d
<1>4. CASE ~(Len(Q) < resident_hir_capacity) /\ i # 0
  <2>1. d = [removeFile(c, v) EXCEPT !.lirs.Q = dropFromQ(@, v),
                                     !.lirs.state[v] = "NonResidentHIR"]
    BY <1>1, <1>4 DEF makeRoomInQ
  <2>2. v \in File /\ v \in Range(Q) /\ Evictable(c.fd[v])
    BY <1>1, <1>4, VictimProperty
  <2> HIDE DEF v, i
  <2> DEFINE e == removeFile(c, v)
  <2>3. DOMAIN e = CacheFields /\ e.lirs = c.lirs /\ Removed(c, e, v)
    BY <1>1 DEF removeFile, CacheFields, Removed
  <2>4. d = [e EXCEPT !.lirs.Q = dropFromQ(@, v), !.lirs.state[v] = "NonResidentHIR"]
    BY <2>1
  <2> HIDE DEF d, e
  <2>5. /\ d.fd = e.fd /\ d.disk = e.disk /\ d.lirs.exited = c.lirs.exited
        /\ d.lirs.state = [c.lirs.state EXCEPT ![v] = "NonResidentHIR"]
    BY <1>1, <2>3, <2>4 DEF CacheFields, LirsFields
  <2>6. Removed(c, d, v)
    BY <2>3, <2>5 DEF Removed
  <2>7. c.lirs.state[v] \in HIRStates
    BY <1>1, <2>2
  <2>8. Len(Q) = resident_hir_capacity
    BY <1>1, <1>4
  <2> QED
    BY <2>2, <2>5, <2>6, <2>7, <2>8 DEF RoomMade, d
<1> QED
  BY <1>2, <1>3, <1>4

\* d has the files of c, and f.
Admits(c, d, f) ==
    /\ d.fd = c.fd /\ d.disk = c.disk
    /\ Cached_LIRS(d) = Cached_LIRS(c) \cup {f}

(* Pruning S changes no file.                                              *)
LEMMA PruneEffect ==
    ASSUME NEW c, NEW moved, LirsCache(c, {})
    PROVE  LET d == prune_S(c, moved)
           IN  d.fd = c.fd /\ d.disk = c.disk /\ Cached_LIRS(d) = Cached_LIRS(c)
<1> DEFINE S == c.lirs.S
           lir == {i \in DOMAIN S : c.lirs.state[S[i]] = "LIR"}
           behind == {S[i] : i \in {j \in DOMAIN S : \A k \in lir : j < k}}
           state == [f \in File |-> IF f \in behind THEN prunedState(c.lirs.state[f], f, moved)
                                    ELSE c.lirs.state[f]]
           d == prune_S(c, moved)
<1>1. d = [c EXCEPT !.lirs.state = state]
  BY DEF prune_S
<1> HIDE DEF behind, lir, S
<1>2. DOMAIN c = CacheFields /\ DOMAIN c.lirs = LirsFields /\ c.lirs.state \in [File -> State]
  BY DEF LirsCache, LirsInv
<1>3. \A f \in File : state[f] \in StateWithFile <=> c.lirs.state[f] \in StateWithFile
  <2>1. ASSUME NEW s \in State, NEW f
        PROVE  prunedState(s, f, moved) \in StateWithFile <=> s \in StateWithFile
    BY DEF prunedState, State, StateWithFile
  <2> QED
    BY <1>2, <2>1
<1> HIDE DEF state, d
<1>4. d.fd = c.fd /\ d.disk = c.disk /\ d.lirs.state = state
  BY <1>1, <1>2 DEF CacheFields, LirsFields
<1> QED
  BY <1>3, <1>4 DEF Cached_LIRS, d

(* What is inserted once Q has room may have cost Q one file.              *)
LEMMA InsertedAfterRoom ==
    ASSUME NEW c, NEW room, NEW d, NEW f \in File, LirsCache(c, {}),
           c.lirs.LIR_size = lir_set_size, RoomMade(c, room), ~room.lirs.exited,
           Admits(room, d, f)
    PROVE  Insertion(c, d, f, Cached_LIRS(c), Cached_LIRS(d))
<1>1. /\ lir_set_size \in Nat /\ resident_hir_capacity \in Nat
      /\ capacity = lir_set_size + resident_hir_capacity
  BY FileCacheOptionsAssumption, LirsCapacities DEF LirsCapacity, resident_hir_capacity
<1>2. /\ Cardinality(Cached_LIRS(c)) = lir_set_size + Len(c.lirs.Q)
      /\ c.lirs.Q \in Seq(File) /\ Len(c.lirs.Q) \in Nat /\ c.lirs.state \in [File -> State]
  BY ResidentCount DEF LirsCache, LirsInv
<1>3. CASE /\ Len(c.lirs.Q) < resident_hir_capacity
           /\ room.fd = c.fd /\ room.disk = c.disk /\ room.lirs.state = c.lirs.state
  <2>1. Cardinality(Cached_LIRS(c)) < capacity
    BY <1>1, <1>2, <1>3
  <2>2. Cached_LIRS(room) = Cached_LIRS(c)
    BY <1>3 DEF Cached_LIRS
  <2> QED
    BY <1>3, <2>1, <2>2 DEF Admits, Insertion
<1>4. CASE /\ Len(c.lirs.Q) = resident_hir_capacity
           /\ \E v \in File : /\ c.lirs.state[v] \in HIRStates /\ Evictable(c.fd[v])
                              /\ Removed(c, room, v)
                              /\ room.lirs.state = [c.lirs.state EXCEPT ![v] = "NonResidentHIR"]
  <2>1. PICK v \in File : /\ c.lirs.state[v] \in HIRStates /\ Evictable(c.fd[v])
                          /\ Removed(c, room, v)
                          /\ room.lirs.state = [c.lirs.state EXCEPT ![v] = "NonResidentHIR"]
    BY <1>4
  <2>2. Cardinality(Cached_LIRS(c)) >= capacity
    BY <1>1, <1>2, <1>4
  <2>3. /\ v \in Cached_LIRS(c) /\ room.lirs.state[v] = "NonResidentHIR"
        /\ \A g \in File \ {v} : room.lirs.state[g] = c.lirs.state[g]
    BY <1>2, <2>1 DEF Cached_LIRS, HIRStates, StateWithFile
  <2>4. Cached_LIRS(room) = Cached_LIRS(c) \ {v}
    BY <2>3 DEF Cached_LIRS, StateWithFile
  <2>5. Cached_LIRS(d) = (Cached_LIRS(c) \ {v}) \cup {f}
    BY <2>4 DEF Admits
  <2>6. /\ d.fd = [c.fd EXCEPT ![v] = NoDescriptor]
        /\ d.disk = [c.disk EXCEPT ![v] = "absent"]
    BY <2>1 DEF Admits, Removed
  <2> QED
    BY <2>1, <2>2, <2>3, <2>5, <2>6 DEF Insertion
<1> QED
  BY <1>3, <1>4 DEF RoomMade

\* What the insertion of f does to the files: without a victim the DV ends.
LirsPut(c, d, f) ==
    \/ /\ d.lirs.exited /\ d.fd = c.fd /\ d.disk = c.disk
       /\ Cached_LIRS(d) = Cached_LIRS(c)
    \/ Insertion(c, d, f, Cached_LIRS(c), Cached_LIRS(d))

(* A put without room in Q changes no file: the program exits.             *)
LEMMA NoRoom ==
    ASSUME NEW c, NEW room, NEW f, RoomMade(c, room), room.lirs.exited, ~c.lirs.exited
    PROVE  LirsPut(c, room, f)
<1>1. room.fd = c.fd /\ room.disk = c.disk /\ room.lirs.state = c.lirs.state
  BY DEF RoomMade
<1> QED
  BY <1>1 DEF LirsPut, Cached_LIRS

(* The last LIR file and f exchange their parts; f is out of Q.            *)
LEMMA ExchangeKeepsQueues ==
    ASSUME NEW c, NEW f \in File, LirsCache(c, {f}),
           c.lirs.state[f] \notin {"None", "LIR"},
           Len(c.lirs.Q) < resident_hir_capacity
    PROVE  /\ LirsCache(exchange(c, f), {}) /\ SameKind(c, exchange(c, f))
           /\ Admits(c, exchange(c, f), f)
<1> DEFINE l == c.lirs
           bottom == CHOOSE g \in LastInS(c, "LIR") : TRUE
           d == [c EXCEPT !.lirs.state = [@ EXCEPT ![bottom] = "ResidentHIR", ![f] = "LIR"],
                          !.lirs.Q = Append(@, bottom),
                          !.lirs.S = ToMru(@, f)]
           m == d.lirs
           HIR == {"ResidentHIR", "ResidentHIRnotInSqueue"}
<1>1. /\ DOMAIN c = CacheFields /\ DOMAIN l = LirsFields /\ l.state \in [File -> State]
      /\ l.S \in Seq(File) /\ IsInjective(l.S) /\ Range(l.S) = {g \in File : l.state[g] # "None"}
      /\ l.Q \in Seq(File) /\ IsInjective(l.Q)
      /\ Range(l.Q) = {g \in File : l.state[g] \in HIR} \ {f}
      /\ IsFiniteSet(InState(l, "LIR")) /\ Cardinality(InState(l, "LIR")) = l.LIR_size
      /\ l.LIR_size \in Nat /\ l.LIR_size <= lir_set_size /\ l.exited \in BOOLEAN
  BY DEF LirsCache, LirsInv
<1>2. l.LIR_size = lir_set_size
  BY DEF LirsCache, LirsInv
<1>3. exchange(c, f) = prune_S(d, bottom)
  BY DEF exchange
<1>4. bottom \in File /\ l.state[bottom] = "LIR" /\ bottom # f
  <2>1. InState(l, "LIR") # {}
    BY <1>1, <1>2, FS_EmptySet, LirsCapacities DEF LirsCapacity
  <2>2. LastInS(c, "LIR") # {}
    <3>1. PICK g \in File : l.state[g] = "LIR"
      BY <2>1 DEF InState
    <3>2. g \in Range(l.S)
      BY <1>1, <3>1
    <3> QED
      BY <1>1, <3>1, <3>2, LastInSProperty
  <2>3. PICK g \in File : LastInS(c, "LIR") = {g} /\ l.state[g] = "LIR"
    BY <1>1, <2>2, LastInSProperty
  <2>4. bottom = g
    BY <2>3
  <2> QED
    BY <2>3, <2>4
<1> HIDE DEF bottom
<1>5. /\ DOMAIN d = CacheFields /\ d.class = c.class /\ d.wrapped = c.wrapped
      /\ d.fd = c.fd /\ d.disk = c.disk
      /\ m = [[[l EXCEPT !.state = [@ EXCEPT ![bottom] = "ResidentHIR", ![f] = "LIR"]]
                  EXCEPT !.Q = Append(@, bottom)] EXCEPT !.S = ToMru(@, f)]
  BY <1>1 DEF CacheFields
<1> HIDE DEF d
<1>6. /\ DOMAIN m = LirsFields /\ m.LIR_size = l.LIR_size /\ m.exited = l.exited
      /\ m.state = [l.state EXCEPT ![bottom] = "ResidentHIR", ![f] = "LIR"]
      /\ m.Q = Append(l.Q, bottom) /\ m.S = ToMru(l.S, f)
  BY <1>1, <1>5 DEF LirsFields
<1> HIDE DEF m, l
<1>7. /\ m.state \in [File -> State] /\ m.state[bottom] = "ResidentHIR" /\ m.state[f] = "LIR"
      /\ \A g \in File \ {f, bottom} : m.state[g] = l.state[g]
  BY <1>1, <1>4, <1>6 DEF State
<1>8. bottom \notin Range(l.Q) /\ f \in Range(l.S)
  BY <1>1, <1>4 DEF l
<1>9. m.Q \in Seq(File) /\ IsInjective(m.Q) /\ Range(m.Q) = Range(l.Q) \cup {bottom}
  BY <1>1, <1>4, <1>6, <1>8, AppendKeepsInjective
<1>10. m.S \in Seq(File) /\ IsInjective(m.S) /\ Range(m.S) = Range(l.S)
  <2>1. /\ ToMru(l.S, f) \in Seq(File) /\ IsInjective(ToMru(l.S, f))
        /\ Range(ToMru(l.S, f)) = Range(l.S) \cup {f}
    BY <1>1, ToMruProperties
  <2> QED
    BY <1>6, <1>8, <2>1
<1>11. Len(m.Q) <= resident_hir_capacity
  <2>1. Len(m.Q) = Len(l.Q) + 1 /\ Len(l.Q) \in Nat
    BY <1>1, <1>6
  <2> QED
    BY <2>1, LirsCapacities DEF LirsCapacity, l
<1>12. Range(m.S) = {g \in File : m.state[g] # "None"}
  BY <1>1, <1>4, <1>7, <1>10 DEF l
<1>13. Range(m.Q) = {g \in File : m.state[g] \in HIR}
  BY <1>1, <1>4, <1>7, <1>9
<1>14. InState(m, "LIR") = (InState(l, "LIR") \ {bottom}) \cup {f}
  BY <1>4, <1>7 DEF InState
<1>15. IsFiniteSet(InState(m, "LIR")) /\ Cardinality(InState(m, "LIR")) = l.LIR_size
  <2>1. bottom \in InState(l, "LIR") /\ f \notin InState(l, "LIR")
    BY <1>4 DEF InState, l
  <2> DEFINE A == InState(l, "LIR")
  <2> HIDE DEF A
  <2>2. IsFiniteSet(A \ {bottom}) /\ Cardinality(A \ {bottom}) = Cardinality(A) - 1
    BY <1>1, <2>1, FS_RemoveElement DEF A
  <2>3. /\ IsFiniteSet((A \ {bottom}) \cup {f})
        /\ Cardinality((A \ {bottom}) \cup {f}) = Cardinality(A \ {bottom}) + 1
    BY <2>1, <2>2, FS_AddElement DEF A
  <2> QED
    <3>1. Cardinality(A) = l.LIR_size /\ l.LIR_size \in Nat
      BY <1>1 DEF A
    <3>2. Cardinality((A \ {bottom}) \cup {f}) = l.LIR_size
      BY <2>2, <2>3, <3>1
    <3> QED
      BY <1>14, <2>3, <3>2, Zenon DEF A
<1>16. LirsInv(m, {})
  BY <1>1, <1>2, <1>6, <1>7, <1>9, <1>10, <1>11, <1>12, <1>13, <1>15 DEF LirsInv
<1>17. LirsCache(d, {})
  BY <1>5, <1>16 DEF LirsCache, m
<1>18. LirsCache(prune_S(d, bottom), {}) /\ SameKind(d, prune_S(d, bottom))
  BY <1>17, PruneKeepsQueues
<1>19. Cached_LIRS(d) = Cached_LIRS(c) \cup {f}
  BY <1>4, <1>7 DEF Cached_LIRS, StateWithFile, m, l
<1>20. Admits(c, prune_S(d, bottom), f)
  <2> DEFINE p == prune_S(d, bottom)
  <2>1. p.fd = d.fd /\ p.disk = d.disk /\ Cached_LIRS(p) = Cached_LIRS(d)
    BY <1>17, PruneEffect
  <2> HIDE DEF p
  <2>2. Admits(c, p, f)
    BY <1>5, <1>19, <2>1 DEF Admits
  <2> QED
    BY <2>2 DEF p
<1> QED
  BY <1>3, <1>5, <1>18, <1>20 DEF SameKind

(* A file S has no place for enters it, with the slot of a pruned key.     *)
LEMMA NewKeepsQueues ==
    ASSUME NEW c, NEW f \in File, NEW slot, LirsCache(c, {}), ~c.lirs.exited,
           \/ c.lirs.state[f] = "Pool" /\ slot = {f}
           \/ /\ c.lirs.state[f] = "None"
              /\ slot = {} \/ \E g \in File : slot = {g} /\ c.lirs.state[g] = "Pool"
    PROVE  /\ LirsCache(actualPut_New(c, f, slot), {}) /\ SameKind(c, actualPut_New(c, f, slot))
           /\ LirsPut(c, actualPut_New(c, f, slot), f)
<1> DEFINE l == c.lirs
           kept == IF slot = {} THEN l.S ELSE without(l.S, CHOOSE g \in slot : TRUE)
           S == ToMru(kept, f)
           freed == [g \in File |-> IF g \in slot THEN "None" ELSE l.state[g]]
           room == makeRoomInQ(c)
           d == actualPut_New(c, f, slot)
           HIR == {"ResidentHIR", "ResidentHIRnotInSqueue"}
<1>1. /\ DOMAIN c = CacheFields /\ DOMAIN l = LirsFields /\ l.state \in [File -> State]
      /\ l.S \in Seq(File) /\ IsInjective(l.S) /\ Range(l.S) = {g \in File : l.state[g] # "None"}
      /\ l.Q \in Seq(File) /\ IsInjective(l.Q)
      /\ Range(l.Q) = {g \in File : l.state[g] \in HIR} /\ Len(l.Q) <= resident_hir_capacity
      /\ IsFiniteSet(InState(l, "LIR")) /\ Cardinality(InState(l, "LIR")) = l.LIR_size
      /\ l.LIR_size \in Nat /\ l.LIR_size <= lir_set_size /\ l.exited \in BOOLEAN
      /\ \A g \in File : l.state[g] \in {"None", "LIR"} \/ l.LIR_size = lir_set_size
  BY DEF LirsCache, LirsInv
<1>2. /\ slot \subseteq File /\ \A g \in slot : l.state[g] = "Pool"
      /\ slot # {} => \E g \in File : slot = {g}
      /\ l.state[f] \in {"None", "Pool"}
  OBVIOUS
<1>3. S \in Seq(File) /\ IsInjective(S) /\ Range(S) = (Range(l.S) \ slot) \cup {f}
  <2>1. kept \in Seq(File) /\ IsInjective(kept) /\ Range(kept) = Range(l.S) \ slot
    <3>1. CASE slot = {}
      BY <1>1, <3>1
    <3>2. CASE slot # {}
      <4>1. PICK g \in File : slot = {g}
        BY <1>2, <3>2
      <4>2. kept = without(l.S, g)
        BY <4>1
      <4>3. /\ without(l.S, g) \in Seq(File) /\ IsInjective(without(l.S, g))
            /\ Range(without(l.S, g)) = Range(l.S) \ {g}
        BY <1>1, WithoutProperties
      <4> QED
        BY <4>1, <4>2, <4>3
    <3> QED
      BY <3>1, <3>2
  <2> HIDE DEF kept
  <2> QED
    BY <2>1, ToMruProperties
<1>4. d = IF l.LIR_size < lir_set_size
          THEN [c EXCEPT !.lirs.S = S, !.lirs.state = [freed EXCEPT ![f] = "LIR"],
                         !.lirs.LIR_size = IF slot = {} THEN @ + 1 ELSE @]
          ELSE IF room.lirs.exited THEN room
          ELSE [room EXCEPT !.lirs.S = S, !.lirs.Q = Append(@, f),
                            !.lirs.state = [g \in File |->
                                               IF g = f THEN "ResidentHIR"
                                               ELSE IF g \in slot THEN "None" ELSE @[g]]]
  BY DEF actualPut_New
<1>5. Range(S) = (Range(l.S) \ slot) \cup {f}
  BY <1>3
<1> HIDE DEF S, kept, d
<1>6. CASE l.LIR_size < lir_set_size
  <2>1. slot = {} /\ l.state[f] = "None"
    BY <1>1, <1>2, <1>6
  <2>2. freed = l.state
    BY <1>1, <2>1
  <2> DEFINE m == d.lirs
  <2>3. d = [c EXCEPT !.lirs.S = S, !.lirs.state = [l.state EXCEPT ![f] = "LIR"],
                      !.lirs.LIR_size = @ + 1]
    BY <1>4, <1>6, <2>1, <2>2
  <2>4. /\ DOMAIN d = CacheFields /\ d.class = c.class /\ d.wrapped = c.wrapped
        /\ d.fd = c.fd /\ d.disk = c.disk
        /\ m = [[[l EXCEPT !.S = S] EXCEPT !.state = [l.state EXCEPT ![f] = "LIR"]]
                    EXCEPT !.LIR_size = l.LIR_size + 1]
    BY <1>1, <2>3 DEF CacheFields
  <2> HIDE DEF freed, l
  <2>5. /\ DOMAIN m = LirsFields /\ m.LIR_size = l.LIR_size + 1 /\ m.exited = l.exited
        /\ m.state = [l.state EXCEPT ![f] = "LIR"] /\ m.Q = l.Q /\ m.S = S
    BY <1>1, <2>4 DEF LirsFields
  <2> HIDE DEF m
  <2>6. /\ m.state \in [File -> State] /\ m.state[f] = "LIR"
        /\ \A g \in File \ {f} : m.state[g] = l.state[g]
    BY <1>1, <2>5 DEF State
  <2>7. InState(m, "LIR") = InState(l, "LIR") \cup {f} /\ f \notin InState(l, "LIR")
    BY <2>1, <2>6 DEF InState
  <2>8. IsFiniteSet(InState(m, "LIR")) /\ Cardinality(InState(m, "LIR")) = m.LIR_size
    <3>1. /\ IsFiniteSet(InState(l, "LIR") \cup {f})
          /\ Cardinality(InState(l, "LIR") \cup {f}) = Cardinality(InState(l, "LIR")) + 1
      BY <1>1, <2>7, FS_AddElement
    <3> QED
      BY <1>1, <2>5, <2>7, <3>1
  <2>9. m.LIR_size \in Nat /\ m.LIR_size <= lir_set_size
    BY <1>1, <1>6, <2>5, LirsCapacities DEF LirsCapacity
  <2>10. Range(m.S) = {g \in File : m.state[g] # "None"}
    BY <1>1, <1>5, <2>1, <2>5, <2>6
  <2>11. Range(m.Q) = {g \in File : m.state[g] \in HIR}
    BY <1>1, <2>1, <2>5, <2>6
  <2>12. \A g \in File : m.state[g] \in {"None", "LIR"}
    <3>1. \A g \in File : l.state[g] \in {"None", "LIR"}
      BY <1>1, <1>6, LirsCapacities DEF LirsCapacity
    <3> QED
      BY <2>6, <3>1
  <2>13. LirsInv(m, {})
    BY <1>1, <1>3, <2>5, <2>6, <2>8, <2>9, <2>10, <2>11, <2>12 DEF LirsInv
  <2>14. LirsPut(c, d, f)
    <3>1. Cached_LIRS(d) = Cached_LIRS(c) \cup {f}
      BY <2>6 DEF Cached_LIRS, StateWithFile, m, l
    <3>2. Cardinality(Cached_LIRS(c)) < capacity
      <4>1. Cardinality(Cached_LIRS(c)) = l.LIR_size + Len(l.Q)
        BY ResidentCount DEF l
      <4>2. l.LIR_size \in Nat /\ Len(l.Q) \in Nat
        BY <1>1
      <4>3. capacity = lir_set_size + resident_hir_capacity
        BY FileCacheOptionsAssumption DEF resident_hir_capacity
      <4> QED
        BY <1>1, <1>6, <4>1, <4>2, <4>3, LirsCapacities DEF LirsCapacity
    <3> QED
      BY <2>4, <3>1, <3>2 DEF LirsPut, Insertion
  <2> QED
    BY <2>4, <2>13, <2>14 DEF LirsCache, SameKind, d, m
<1>7. CASE ~(l.LIR_size < lir_set_size) /\ room.lirs.exited
  <2>1. d = room
    BY <1>4, <1>7
  <2>2. MadeRoom(c, room)
    BY RoomInQ
  <2>3. LirsPut(c, room, f)
    BY <1>7, RoomEffect, NoRoom
  <2> QED
    BY <2>1, <2>2, <2>3 DEF MadeRoom, d
<1>8. CASE ~(l.LIR_size < lir_set_size) /\ ~room.lirs.exited
  <2> DEFINE m == d.lirs
             r == room.lirs
             state == [g \in File |-> IF g = f THEN "ResidentHIR"
                                      ELSE IF g \in slot THEN "None" ELSE r.state[g]]
  <2>1. MadeRoom(c, room)
    BY RoomInQ
  <2>2. /\ DOMAIN room = CacheFields /\ DOMAIN r = LirsFields /\ r.state \in [File -> State]
        /\ r.Q \in Seq(File) /\ IsInjective(r.Q)
        /\ Range(r.Q) = {g \in File : r.state[g] \in HIR} /\ Len(r.Q) < resident_hir_capacity
        /\ IsFiniteSet(InState(r, "LIR")) /\ Cardinality(InState(r, "LIR")) = r.LIR_size
        /\ r.exited \in BOOLEAN
        /\ room.class = c.class /\ room.wrapped = c.wrapped
    BY <1>8, <2>1 DEF MadeRoom, LirsCache, LirsInv, SameKind
  <2>3. /\ r.LIR_size = l.LIR_size
        /\ \A g \in File : \/ r.state[g] = l.state[g]
                           \/ l.state[g] \in HIR /\ r.state[g] = "NonResidentHIR"
    BY <2>1 DEF MadeRoom
  <2>4. d = [room EXCEPT !.lirs.S = S, !.lirs.Q = Append(@, f), !.lirs.state = state]
    BY <1>4, <1>8
  <2> HIDE DEF room, state, l
  <2>5. /\ DOMAIN d = CacheFields /\ d.class = c.class /\ d.wrapped = c.wrapped
        /\ d.fd = room.fd /\ d.disk = room.disk
        /\ m = [[[r EXCEPT !.S = S] EXCEPT !.Q = Append(r.Q, f)] EXCEPT !.state = state]
    BY <2>2, <2>4 DEF CacheFields
  <2> HIDE DEF r
  <2>6. /\ DOMAIN m = LirsFields /\ m.LIR_size = r.LIR_size /\ m.exited = r.exited
        /\ m.state = state /\ m.Q = Append(r.Q, f) /\ m.S = S
    BY <2>2, <2>5 DEF LirsFields
  <2> HIDE DEF m
  <2>7. /\ m.state \in [File -> State] /\ m.state[f] = "ResidentHIR"
        /\ \A g \in File \ {f} : m.state[g] = IF g \in slot THEN "None" ELSE r.state[g]
    BY <2>2, <2>6 DEF State, state
  <2>8. r.state[f] \in {"None", "Pool"} /\ \A g \in slot : r.state[g] = "Pool"
    BY <1>2, <2>3 DEF l
  <2>9. InState(m, "LIR") = InState(r, "LIR")
    BY <2>7, <2>8 DEF InState
  <2>10. Range(m.S) = {g \in File : m.state[g] # "None"}
    <3>1. \A g \in File : r.state[g] # "None" <=> l.state[g] # "None"
      BY <2>3
    <3> QED
      BY <1>1, <1>2, <1>5, <2>6, <2>7, <3>1
  <2>11. /\ m.Q \in Seq(File) /\ IsInjective(m.Q) /\ Range(m.Q) = Range(r.Q) \cup {f}
         /\ Len(m.Q) <= resident_hir_capacity
    <3>1. f \notin Range(r.Q)
      BY <2>2, <2>8
    <3>2. Len(Append(r.Q, f)) = Len(r.Q) + 1 /\ Len(r.Q) \in Nat
      BY <2>2
    <3>3. Len(Append(r.Q, f)) <= resident_hir_capacity
      BY <2>2, <3>2, LirsCapacities DEF LirsCapacity
    <3> QED
      BY <2>2, <2>6, <3>1, <3>3, AppendKeepsInjective
  <2>12. Range(m.Q) = {g \in File : m.state[g] \in HIR}
    BY <1>2, <2>2, <2>7, <2>8, <2>11
  <2>13. m.LIR_size = lir_set_size
    BY <1>1, <1>8, <2>3, <2>6, LirsCapacities DEF LirsCapacity
  <2>14. LirsInv(m, {})
    BY <1>3, <2>2, <2>6, <2>7, <2>9, <2>10, <2>11, <2>12, <2>13, LirsCapacities
       DEF LirsInv, LirsCapacity
  <2>15. LirsPut(c, d, f)
    <3>1. Cached_LIRS(d) = Cached_LIRS(room) \cup {f}
      BY <2>7, <2>8 DEF Cached_LIRS, StateWithFile, m, r
    <3>2. Admits(room, d, f)
      BY <2>5, <3>1 DEF Admits
    <3>3. RoomMade(c, room)
      BY RoomEffect DEF room
    <3>4. c.lirs.LIR_size = lir_set_size
      BY <1>1, <1>8, LirsCapacities DEF LirsCapacity, l
    <3>5. Insertion(c, d, f, Cached_LIRS(c), Cached_LIRS(d))
      BY <1>8, <3>2, <3>3, <3>4, InsertedAfterRoom
    <3> QED
      BY <3>5 DEF LirsPut
  <2> QED
    BY <2>5, <2>14, <2>15 DEF LirsCache, SameKind, d, m
<1> QED
  BY <1>6, <1>7, <1>8

(* The removal of an entry of Q leaves the queues as they are but for it.  *)
LEMMA OutOfQ ==
    ASSUME NEW c, NEW f \in File, LirsCache(c, {}), c.lirs.state[f] = "ResidentHIR"
    PROVE  LET d == [c EXCEPT !.lirs.Q = without(@, f)]
           IN  /\ LirsCache(d, {f}) /\ SameKind(c, d)
               /\ Len(d.lirs.Q) < resident_hir_capacity /\ d.lirs.state = c.lirs.state
<1> DEFINE d == [c EXCEPT !.lirs.Q = without(@, f)]
           l == c.lirs
           m == d.lirs
           HIR == {"ResidentHIR", "ResidentHIRnotInSqueue"}
<1>1. /\ DOMAIN c = CacheFields /\ DOMAIN l = LirsFields /\ l.state \in [File -> State]
      /\ l.Q \in Seq(File) /\ IsInjective(l.Q)
      /\ Range(l.Q) = {g \in File : l.state[g] \in HIR} /\ Len(l.Q) <= resident_hir_capacity
  BY DEF LirsCache, LirsInv
<1>2. /\ DOMAIN d = CacheFields /\ d.class = c.class /\ d.wrapped = c.wrapped
      /\ m = [l EXCEPT !.Q = without(l.Q, f)]
  BY <1>1 DEF CacheFields
<1>3. l = c.lirs
  OBVIOUS
<1> HIDE DEF d, l
<1>4. /\ DOMAIN m = LirsFields /\ m.LIR_size = l.LIR_size /\ m.exited = l.exited
      /\ m.state = l.state /\ m.Q = without(l.Q, f) /\ m.S = l.S
  BY <1>1, <1>2 DEF LirsFields
<1> HIDE DEF m
<1>5. f \in Range(l.Q)
  BY <1>1, <1>3
<1>6. /\ m.Q \in Seq(File) /\ IsInjective(m.Q) /\ Range(m.Q) = Range(l.Q) \ {f}
      /\ Len(m.Q) = Len(l.Q) - 1
  <2>1. /\ without(l.Q, f) \in Seq(File) /\ IsInjective(without(l.Q, f))
        /\ Range(without(l.Q, f)) = Range(l.Q) \ {f}
        /\ Len(without(l.Q, f)) = Len(l.Q) - 1
    BY <1>1, <1>5, WithoutProperties
  <2> QED
    BY <1>4, <2>1
<1>7. Len(m.Q) < resident_hir_capacity
  <2>1. Len(l.Q) \in Nat
    BY <1>1
  <2> QED
    BY <1>1, <1>6, <2>1, LirsCapacities DEF LirsCapacity
<1>8. Len(m.Q) <= resident_hir_capacity
  <2>1. Len(l.Q) \in Nat
    BY <1>1
  <2> QED
    BY <1>1, <1>6, <2>1, LirsCapacities DEF LirsCapacity
<1>9. Range(m.Q) = {g \in File : m.state[g] \in HIR} \ {f}
  BY <1>1, <1>4, <1>6
<1>10. /\ l.S \in Seq(File) /\ IsInjective(l.S) /\ Range(l.S) = {g \in File : l.state[g] # "None"}
       /\ IsFiniteSet(InState(l, "LIR")) /\ Cardinality(InState(l, "LIR")) = l.LIR_size
       /\ l.LIR_size \in Nat /\ l.LIR_size <= lir_set_size /\ l.exited \in BOOLEAN
       /\ \A g \in File : l.state[g] \in {"None", "LIR"} \/ l.LIR_size = lir_set_size
  BY DEF LirsCache, LirsInv, l
<1>11. InState(m, "LIR") = InState(l, "LIR")
  BY <1>4 DEF InState
<1>12. LirsInv(m, {f})
  BY <1>1, <1>4, <1>6, <1>8, <1>9, <1>10, <1>11 DEF LirsInv
<1> QED
  BY <1>2, <1>4, <1>7, <1>12 DEF LirsCache, SameKind, d, m, l

(* A file of S becomes the MRU of it.                                      *)
LEMMA FirstInS ==
    ASSUME NEW c, NEW f \in File, LirsCache(c, {}), c.lirs.state[f] # "None"
    PROVE  LET d == [c EXCEPT !.lirs.S = ToMru(@, f)]
           IN  LirsCache(d, {}) /\ SameKind(c, d)
<1> DEFINE d == [c EXCEPT !.lirs.S = ToMru(@, f)]
           l == c.lirs
           m == d.lirs
<1>1. /\ DOMAIN c = CacheFields /\ DOMAIN l = LirsFields
      /\ l.S \in Seq(File) /\ IsInjective(l.S) /\ Range(l.S) = {g \in File : l.state[g] # "None"}
      /\ f \in Range(l.S)
  BY DEF LirsCache, LirsInv
<1>2. /\ DOMAIN d = CacheFields /\ d.class = c.class /\ d.wrapped = c.wrapped
      /\ m = [l EXCEPT !.S = ToMru(l.S, f)]
  BY <1>1 DEF CacheFields
<1> HIDE DEF d, l
<1>3. /\ DOMAIN m = LirsFields /\ m.LIR_size = l.LIR_size /\ m.exited = l.exited
      /\ m.state = l.state /\ m.Q = l.Q /\ m.S = ToMru(l.S, f)
  BY <1>1, <1>2 DEF LirsFields
<1> HIDE DEF m
<1>4. m.S \in Seq(File) /\ IsInjective(m.S) /\ Range(m.S) = Range(l.S)
  <2>1. /\ ToMru(l.S, f) \in Seq(File) /\ IsInjective(ToMru(l.S, f))
        /\ Range(ToMru(l.S, f)) = Range(l.S) \cup {f}
    BY <1>1, ToMruProperties
  <2> QED
    BY <1>1, <1>3, <2>1
<1>5. InState(m, "LIR") = InState(l, "LIR")
  BY <1>3 DEF InState
<1>6. LirsInv(l, {})
  BY DEF LirsCache, l
<1>7. LirsInv(m, {})
  BY <1>3, <1>4, <1>5, <1>6 DEF LirsInv
<1> QED
  BY <1>2, <1>7 DEF LirsCache, SameKind, d, m

(* A resident HIR file that S had forgotten becomes the MRU of S and Q.    *)
LEMMA FoundAgain ==
    ASSUME NEW c, NEW f \in File, LirsCache(c, {}), c.lirs.state[f] = "ResidentHIRnotInSqueue"
    PROVE  LET d == [c EXCEPT !.lirs.state[f] = "ResidentHIR",
                              !.lirs.Q = ToMru(@, f), !.lirs.S = ToMru(@, f)]
           IN  LirsCache(d, {}) /\ SameKind(c, d)
<1> DEFINE d == [c EXCEPT !.lirs.state[f] = "ResidentHIR",
                          !.lirs.Q = ToMru(@, f), !.lirs.S = ToMru(@, f)]
           l == c.lirs
           m == d.lirs
           HIR == {"ResidentHIR", "ResidentHIRnotInSqueue"}
<1>1. /\ DOMAIN c = CacheFields /\ DOMAIN l = LirsFields /\ l.state \in [File -> State]
      /\ l.S \in Seq(File) /\ IsInjective(l.S) /\ Range(l.S) = {g \in File : l.state[g] # "None"}
      /\ l.Q \in Seq(File) /\ IsInjective(l.Q) /\ Range(l.Q) = {g \in File : l.state[g] \in HIR}
      /\ Len(l.Q) <= resident_hir_capacity
      /\ l.state[f] = "ResidentHIRnotInSqueue" /\ f \in Range(l.S) /\ f \in Range(l.Q)
      /\ IsFiniteSet(InState(l, "LIR")) /\ Cardinality(InState(l, "LIR")) = l.LIR_size
      /\ l.LIR_size \in Nat /\ l.LIR_size <= lir_set_size /\ l.exited \in BOOLEAN
      /\ l.LIR_size = lir_set_size
  BY DEF LirsCache, LirsInv
<1>2. /\ DOMAIN d = CacheFields /\ d.class = c.class /\ d.wrapped = c.wrapped
      /\ m = [[[l EXCEPT !.state = [l.state EXCEPT ![f] = "ResidentHIR"]]
                  EXCEPT !.Q = ToMru(l.Q, f)] EXCEPT !.S = ToMru(l.S, f)]
  <2>1. d = [[[c EXCEPT !.lirs.state[f] = "ResidentHIR"] EXCEPT !.lirs.Q = ToMru(@, f)]
                EXCEPT !.lirs.S = ToMru(@, f)]
    OBVIOUS
  <2> HIDE DEF d
  <2> QED
    BY <1>1, <2>1 DEF CacheFields, LirsFields
<1> HIDE DEF d, l
<1>3. /\ DOMAIN m = LirsFields /\ m.LIR_size = l.LIR_size /\ m.exited = l.exited
      /\ m.state = [l.state EXCEPT ![f] = "ResidentHIR"]
      /\ m.Q = ToMru(l.Q, f) /\ m.S = ToMru(l.S, f)
  BY <1>1, <1>2 DEF LirsFields
<1> HIDE DEF m
<1>4. m.S \in Seq(File) /\ IsInjective(m.S) /\ Range(m.S) = Range(l.S)
  <2>1. /\ ToMru(l.S, f) \in Seq(File) /\ IsInjective(ToMru(l.S, f))
        /\ Range(ToMru(l.S, f)) = Range(l.S) \cup {f}
    BY <1>1, ToMruProperties
  <2> QED
    BY <1>1, <1>3, <2>1
<1>5. /\ m.Q \in Seq(File) /\ IsInjective(m.Q) /\ Range(m.Q) = Range(l.Q)
      /\ Len(m.Q) = Len(l.Q)
  <2>1. /\ ToMru(l.Q, f) \in Seq(File) /\ IsInjective(ToMru(l.Q, f))
        /\ Range(ToMru(l.Q, f)) = Range(l.Q) \cup {f} /\ Len(ToMru(l.Q, f)) = Len(l.Q)
    BY <1>1, ToMruProperties
  <2> QED
    BY <1>1, <1>3, <2>1
<1>6. /\ m.state \in [File -> State] /\ m.state[f] = "ResidentHIR"
      /\ \A g \in File \ {f} : m.state[g] = l.state[g]
  BY <1>1, <1>3 DEF State
<1>7. InState(m, "LIR") = InState(l, "LIR")
  BY <1>1, <1>6 DEF InState
<1>8. /\ Range(m.S) = {g \in File : m.state[g] # "None"}
      /\ Range(m.Q) = {g \in File : m.state[g] \in HIR}
  BY <1>1, <1>4, <1>5, <1>6
<1>9. LirsInv(m, {})
  BY <1>1, <1>3, <1>4, <1>5, <1>6, <1>7, <1>8 DEF LirsInv
<1> QED
  BY <1>2, <1>9 DEF LirsCache, SameKind, d, m

(* The insertion of a file that is not resident keeps the queues.          *)
LEMMA PutKeepsQueues ==
    ASSUME NEW c, NEW f \in File, LirsCache(c, {}), f \notin Cached_LIRS(c), ~c.lirs.exited
    PROVE  /\ LirsCache(actualPut_LIRS(c, f), {}) /\ SameKind(c, actualPut_LIRS(c, f))
           /\ LirsPut(c, actualPut_LIRS(c, f), f)
<1>1. c.lirs.state[f] \in {"None", "NonResidentHIR", "Pool"}
  BY DEF LirsCache, LirsInv, Cached_LIRS, StateWithFile, State
<1>2. CASE c.lirs.state[f] = "NonResidentHIR"
  <2> DEFINE room == makeRoomInQ(c)
  <2>1. MadeRoom(c, room)
    BY RoomInQ
  <2>2. actualPut_LIRS(c, f) = IF room.lirs.exited THEN room ELSE exchange(room, f)
    BY <1>2 DEF actualPut_LIRS
  <2>5. RoomMade(c, room)
    BY RoomEffect
  <2> HIDE DEF room
  <2>3. CASE room.lirs.exited
    BY <2>1, <2>2, <2>3, <2>5, NoRoom DEF MadeRoom
  <2>4. CASE ~room.lirs.exited
    <3>1. /\ LirsCache(room, {}) /\ SameKind(c, room) /\ room.lirs.state[f] = "NonResidentHIR"
          /\ Len(room.lirs.Q) < resident_hir_capacity
      BY <1>2, <2>1, <2>4 DEF MadeRoom
    <3>2. LirsCache(room, {f})
      BY <3>1 DEF LirsCache, LirsInv
    <3>3. /\ LirsCache(exchange(room, f), {}) /\ SameKind(room, exchange(room, f))
          /\ Admits(room, exchange(room, f), f)
      BY <3>1, <3>2, ExchangeKeepsQueues
    <3>4. c.lirs.LIR_size = lir_set_size
      BY <1>2 DEF LirsCache, LirsInv
    <3>5. Insertion(c, exchange(room, f), f, Cached_LIRS(c), Cached_LIRS(exchange(room, f)))
      BY <2>4, <2>5, <3>3, <3>4, InsertedAfterRoom
    <3> QED
      BY <2>2, <2>4, <3>1, <3>3, <3>5 DEF SameKind, LirsPut
  <2> QED
    BY <2>3, <2>4
<1>3. CASE c.lirs.state[f] = "Pool"
  <2>1. actualPut_LIRS(c, f) = actualPut_New(c, f, {f})
    BY <1>3 DEF actualPut_LIRS
  <2> QED
    BY <1>3, <2>1, NewKeepsQueues
<1>4. CASE c.lirs.state[f] = "None"
  <2> DEFINE slot == LastInS(c, "Pool")
  <2>1. actualPut_LIRS(c, f) = actualPut_New(c, f, slot)
    BY <1>4 DEF actualPut_LIRS
  <2>2. slot = {} \/ \E g \in File : slot = {g} /\ c.lirs.state[g] = "Pool"
    <3>1. c.lirs.S \in Seq(File)
      BY DEF LirsCache, LirsInv
    <3> QED
      BY <3>1, LastInSProperty
  <2> HIDE DEF slot
  <2> QED
    BY <1>4, <2>1, <2>2, NewKeepsQueues
<1> QED
  BY <1>1, <1>2, <1>3, <1>4

(* So does the refresh of a resident one.                                  *)
LEMMA RefreshKeepsQueues ==
    ASSUME NEW c, NEW f \in File, LirsCache(c, {}), f \in Cached_LIRS(c)
    PROVE  /\ LirsCache(actualRefresh(c, f), {}) /\ SameKind(c, actualRefresh(c, f))
           /\ Admits(c, actualRefresh(c, f), f)
<1>1. c.lirs.state[f] \in {"LIR", "ResidentHIR", "ResidentHIRnotInSqueue"}
  BY DEF Cached_LIRS, StateWithFile
<1>2. CASE c.lirs.state[f] = "LIR"
  <2> DEFINE d == [c EXCEPT !.lirs.S = ToMru(@, f)]
  <2>1. actualRefresh(c, f) = prune_S(d, f)
    BY <1>2 DEF actualRefresh
  <2>2. LirsCache(d, {}) /\ SameKind(c, d)
    BY <1>2, FirstInS
  <2>4. d.fd = c.fd /\ d.disk = c.disk /\ d.lirs.state = c.lirs.state
    BY DEF LirsCache, LirsInv, CacheFields, LirsFields
  <2> HIDE DEF d
  <2>5. /\ prune_S(d, f).fd = d.fd /\ prune_S(d, f).disk = d.disk
        /\ Cached_LIRS(prune_S(d, f)) = Cached_LIRS(d)
    BY <2>2, PruneEffect
  <2>6. Cached_LIRS(d) = Cached_LIRS(c)
    BY <2>4 DEF Cached_LIRS
  <2>7. Admits(c, prune_S(d, f), f)
    BY <2>4, <2>5, <2>6 DEF Admits
  <2>3. LirsCache(prune_S(d, f), {}) /\ SameKind(d, prune_S(d, f))
    BY <2>2, PruneKeepsQueues
  <2> QED
    BY <2>1, <2>2, <2>3, <2>7 DEF SameKind
<1>3. CASE c.lirs.state[f] = "ResidentHIR"
  <2> DEFINE d == [c EXCEPT !.lirs.Q = without(@, f)]
  <2>1. actualRefresh(c, f) = exchange(d, f)
    BY <1>3 DEF actualRefresh
  <2>2. /\ LirsCache(d, {f}) /\ SameKind(c, d)
        /\ Len(d.lirs.Q) < resident_hir_capacity /\ d.lirs.state = c.lirs.state
    BY <1>3, OutOfQ
  <2>4. d.fd = c.fd /\ d.disk = c.disk
    BY DEF LirsCache, LirsInv, CacheFields
  <2> HIDE DEF d
  <2>3. /\ LirsCache(exchange(d, f), {}) /\ SameKind(d, exchange(d, f))
        /\ Admits(d, exchange(d, f), f)
    BY <1>3, <2>2, ExchangeKeepsQueues
  <2>5. Cached_LIRS(d) = Cached_LIRS(c)
    BY <2>2 DEF Cached_LIRS
  <2>6. Admits(c, exchange(d, f), f)
    BY <2>3, <2>4, <2>5 DEF Admits
  <2> QED
    BY <2>1, <2>2, <2>3, <2>6 DEF SameKind
<1>4. CASE c.lirs.state[f] = "ResidentHIRnotInSqueue"
  <2> DEFINE d == [c EXCEPT !.lirs.state[f] = "ResidentHIR",
                            !.lirs.Q = ToMru(@, f), !.lirs.S = ToMru(@, f)]
  <2>1. actualRefresh(c, f) = d
    BY <1>4 DEF actualRefresh
  <2>2. LirsCache(d, {}) /\ SameKind(c, d)
    BY <1>4, FoundAgain
  <2>3. Admits(c, d, f)
    <3>1. DOMAIN c = CacheFields /\ DOMAIN c.lirs = LirsFields /\ c.lirs.state \in [File -> State]
      BY DEF LirsCache, LirsInv
    <3>2. d = [[[c EXCEPT !.lirs.state[f] = "ResidentHIR"] EXCEPT !.lirs.Q = ToMru(@, f)]
                  EXCEPT !.lirs.S = ToMru(@, f)]
      OBVIOUS
    <3> HIDE DEF d
    <3>3. /\ d.fd = c.fd /\ d.disk = c.disk
          /\ d.lirs.state = [c.lirs.state EXCEPT ![f] = "ResidentHIR"]
      BY <3>1, <3>2 DEF CacheFields, LirsFields
    <3> QED
      BY <1>4, <3>1, <3>3 DEF Admits, Cached_LIRS, StateWithFile
  <2> QED
    BY <2>1, <2>2, <2>3
<1> QED
  BY <1>1, <1>2, <1>3, <1>4

-----------------------------------------------------------------------------
\* The caches based on LRU.

BclFields == {"a_cost", "etd", "listed", "loaded", "paid"}

FullCost(f) == getPrevRestartDiff(Restart, f)

\* PenaltyOnce, and what BCL may still pay, of a cache c.
Penalised(c) ==
    c.class \in PartitionAware =>
        /\ c.bcl.listed \subseteq Cached(c)
        /\ \A f \in Cached(c) : c.cost[f] = IF f \in c.bcl.listed THEN FullCost(f)
                                            ELSE applyPenaltyFactor(FullCost(f))

Sacrifice(a_cost, loaded, paid) ==
    /\ a_cost \in Nat /\ loaded \in Nat /\ paid \in Nat
    /\ a_cost = 0 \/ a_cost = loaded - 2 * paid
    /\ paid = 0 \/ paid < loaded

Bounded(c) ==
    c.class \in {"BCL", "PBCL"} => Sacrifice(c.bcl.a_cost, c.bcl.loaded, c.bcl.paid)

Policy(c) ==
    /\ DOMAIN c = CacheFields /\ DOMAIN c.bcl = BclFields /\ c.class \in LRUBased
    /\ c.cost \in [File -> Nat] /\ DOMAIN c.fd = File /\ DOMAIN c.disk = File
    /\ c.lru \in Seq(File) /\ IsInjective(c.lru)
    /\ Penalised(c) /\ Bounded(c)

(* The cost of a file and what is left of it are never negative.           *)
LEMMA CostsAreNatural ==
    /\ \A f \in File : FullCost(f) \in Nat
    /\ \A n \in Nat : applyPenaltyFactor(n) \in Nat
<1>1. ASSUME NEW f \in File PROVE FullCost(f) \in Nat
  <2>1. f \in Nat /\ Restart \in SUBSET Nat
    BY FileCacheOptionsAssumption
  <2> DEFINE r == getCheckpointNr(Restart, f)
  <2>2. FullCost(f) = f - r
    BY DEF FullCost, getPrevRestartDiff
  <2>3. r \in Restart \cup {0} /\ (r = 0 \/ r <= f)
    BY <2>1, CheckpointProperty
  <2> HIDE DEF r
  <2>4. r \in Nat /\ r <= f
    BY <2>1, <2>3
  <2> QED
    BY <2>1, <2>2, <2>4
<1>2. ASSUME NEW n \in Nat PROVE applyPenaltyFactor(n) \in Nat
  <2>1. penalty \in Nat
    BY FileCacheOptionsAssumption
  <2>2. penalty * n \in Nat
    BY <2>1
  <2> QED
    BY <2>2 DEF applyPenaltyFactor
<1> QED
  BY <1>1, <1>2

(* So is what FileDescriptor::getActualCost makes of them.                 *)
LEMMA ActualCostIsNatural ==
    ASSUME NEW c, c.cost \in [File -> Nat], NEW f \in File
    PROVE  getActualCost(c, f) \in Nat
<1> DEFINE n == c.cost[f]
           h == n \div 2
<1>1. n \in Nat /\ h \in Nat
  OBVIOUS
<1> HIDE DEF n, h
<1>2. Max({1, h}) \in {1, h}
  <2>1. {1, h} \in SUBSET Nat /\ {1, h} # {}
    BY <1>1
  <2>2. 1 + h \in Nat /\ \A s \in {1, h} : s <= 1 + h
    BY <1>1
  <2> HIDE DEF h
  <2> QED
    BY <2>1, <2>2, MaxProperty
<1> QED
  BY <1>1, <1>2 DEF getActualCost, n, h

(* The victim of BCL: a file that may be evicted, whose cost is below what *)
(* may be paid; when there is none, LRU has none either.                   *)
LEMMA VictimOfBCL ==
    ASSUME NEW c, c.lru \in Seq(File), c.cost \in [File -> Nat]
    PROVE  LET victim == findVictim_BCL(c)
           IN  /\ victim[1] \in 0 .. Len(c.lru) /\ victim[2] \in Int
               /\ victim[1] = 0 => VictimPositions(c) = {}
               /\ victim[1] # 0 => Evictable(c.fd[c.lru[victim[1]]])
               /\ victim[2] > 0 => victim[2] \in Nat /\ victim[2] < c.bcl.a_cost
<1> DEFINE free == FreeOfCost(c)
           cheap == Cheaper(c)
           raw == findVictim_BCL_raw(c)
           rest == VictimPositions(c)
           n == Len(c.lru)
<1>1. n \in Nat /\ protected_mrus \in Nat
  BY FileCacheOptionsAssumption
<1> HIDE DEF n
<1>2. free \subseteq 1 .. n /\ cheap \subseteq 1 .. n /\ rest \subseteq 1 .. n
  BY <1>1 DEF FreeOfCost, Cheaper, VictimPositions, Unprotected, n
<1>3. /\ \A i \in free \cup cheap \cup rest : Evictable(c.fd[c.lru[i]])
      /\ \A i \in cheap : getActualCost(c, c.lru[i]) < c.bcl.a_cost
  BY DEF FreeOfCost, Cheaper, VictimPositions
<1>4. \A i \in 1 .. n : c.lru[i] \in File
  BY DEF n
<1>5. raw = IF free # {} THEN VictimAt(Lowest(free), 0)
            ELSE IF cheap # {} THEN VictimAt(Lowest(cheap), getActualCost(c, c.lru[Lowest(cheap)]))
            ELSE NoVictim
  BY DEF findVictim_BCL_raw
<1>6. findVictim_BCL(c) = IF raw # NoVictim THEN raw ELSE VictimAt(Lowest(rest), -1)
  BY DEF findVictim_BCL
<1> HIDE DEF free, cheap, raw, rest
<1>7. /\ free # {} => Lowest(free) \in free
      /\ cheap # {} => Lowest(cheap) \in cheap
      /\ rest # {} => Lowest(rest) \in rest
      /\ rest = {} => Lowest(rest) = 0
  BY <1>1, <1>2, LowestProperty
<1>8. CASE free # {}
  <2>1. findVictim_BCL(c) = <<Lowest(free), 0>>
    BY <1>1, <1>2, <1>5, <1>6, <1>7, <1>8 DEF VictimAt, NoVictim
  <2>2. Lowest(free) \in 1 .. n /\ Evictable(c.fd[c.lru[Lowest(free)]])
    BY <1>2, <1>3, <1>7, <1>8, Zenon
  <2> QED
    BY <1>1, <2>1, <2>2 DEF n
<1>9. CASE free = {} /\ cheap # {}
  <2> DEFINE p == Lowest(cheap)
             k == getActualCost(c, c.lru[p])
  <2>1. /\ p \in 1 .. n /\ Evictable(c.fd[c.lru[p]]) /\ c.lru[p] \in File
        /\ k < c.bcl.a_cost
    BY <1>2, <1>3, <1>4, <1>7, <1>9, Zenon
  <2>2. k \in Nat
    BY <2>1, ActualCostIsNatural
  <2>3. raw = <<p, k>>
    BY <1>5, <1>9 DEF VictimAt
  <2> HIDE DEF p, k
  <2>4. findVictim_BCL(c) = <<p, k>>
    BY <1>1, <1>6, <2>1, <2>3 DEF NoVictim
  <2> QED
    BY <1>1, <2>1, <2>2, <2>4 DEF n
<1>10. CASE free = {} /\ cheap = {}
  <2>1. findVictim_BCL(c) = <<Lowest(rest), -1>>
    BY <1>5, <1>6, <1>10 DEF VictimAt
  <2>2. CASE rest = {}
    BY <1>1, <1>7, <2>1, <2>2 DEF n, rest
  <2>3. CASE rest # {}
    <3>1. Lowest(rest) \in 1 .. n /\ Evictable(c.fd[c.lru[Lowest(rest)]])
      BY <1>2, <1>3, <1>7, <2>3, Zenon
    <3> QED
      BY <1>1, <2>1, <3>1 DEF n
  <2> QED
    BY <2>2, <2>3
<1> QED
  BY <1>8, <1>9, <1>10

\* What the caches based on LRU leave alone when they insert a file.
Framed(c, d) ==
    /\ DOMAIN d = CacheFields /\ SameKind(c, d)
    /\ d.waiting = c.waiting /\ d.fifo = c.fifo /\ d.lirs = c.lirs

(* A list without repetitions has as many entries as it holds files, and   *)
(* if none but the last may be evicted, there is one such file at most.    *)
LEMMA CountsOfList ==
    ASSUME NEW c, c.lru \in Seq(File), IsInjective(c.lru)
    PROVE  /\ Cardinality(Cached(c)) = Len(c.lru)
           /\ VictimPositions(c) = {}
                => Cardinality({g \in Cached(c) : Evictable(c.fd[g])}) <= 1
<1> DEFINE n == Len(c.lru)
           free == {g \in Cached(c) : Evictable(c.fd[g])}
<1>1. n \in Nat /\ DOMAIN c.lru = 1 .. n
  OBVIOUS
<1>2. Cardinality(Cached(c)) = n
  BY CountOfList DEF Cached
<1>3. ASSUME VictimPositions(c) = {} PROVE Cardinality(free) <= 1
  <2>1. CASE n = 0
    <3>1. free = {}
      BY <1>1, <2>1 DEF Cached, Range
    <3>2. Cardinality({}) = 0
      BY FS_EmptySet
    <3> HIDE DEF free
    <3> QED
      BY <3>1, <3>2
  <2>2. CASE n # 0
    <3>1. free \subseteq {c.lru[n]}
      <4>1. SUFFICES ASSUME NEW g \in free PROVE g = c.lru[n]
        OBVIOUS
      <4>2. PICK i \in 1 .. n : c.lru[i] = g
        BY <1>1 DEF Cached, Range
      <4>3. i \notin 1 .. n - 1
        BY <1>3, <4>2 DEF VictimPositions
      <4> QED
        BY <1>1, <4>2, <4>3
    <3>2. IsFiniteSet({c.lru[n]}) /\ Cardinality({c.lru[n]}) = 1
      BY FS_Singleton
    <3> QED
      BY <3>1, <3>2, FS_Subset
  <2> QED
    BY <2>1, <2>2
<1> QED
  BY <1>2, <1>3

\* d is c with f in the place of the victim v, every penalty paid.
Replaced(c, d, i, f) ==
    LET v == c.lru[i]
    IN  /\ Framed(c, d)
        /\ d.lru = Append(RemoveAt(c.lru, i), f)
        /\ d.fd = [c.fd EXCEPT ![v] = NoDescriptor] /\ d.disk = [c.disk EXCEPT ![v] = "absent"]
        /\ DOMAIN d.bcl = BclFields
        /\ d.bcl.a_cost = c.bcl.a_cost /\ d.bcl.loaded = c.bcl.loaded /\ d.bcl.paid = c.bcl.paid
        /\ d.cost \in [File -> Nat]
        /\ \A g \in File \ Cached(c) : d.cost[g] = c.cost[g]
        /\ c.class \in PartitionAware =>
              /\ d.bcl.listed \subseteq c.bcl.listed \cup {f} /\ v \notin d.bcl.listed
              /\ f \in d.bcl.listed
              /\ \A g \in Cached(c) \ {v} :
                    \/ g \notin c.bcl.listed /\ g \notin d.bcl.listed /\ d.cost[g] = c.cost[g]
                    \/ g \in c.bcl.listed /\ g \in d.bcl.listed /\ d.cost[g] = c.cost[g]
                    \/ /\ g \in c.bcl.listed /\ g \notin d.bcl.listed
                       /\ d.cost[g] = applyPenaltyFactor(c.cost[g])

(* penalise and the eviction, of a cache that f has been listed in.        *)
LEMMA VictimReplaced ==
    ASSUME NEW c, NEW f \in File, Policy(c), f \notin Cached(c), NEW i \in 1 .. Len(c.lru)
    PROVE  Replaced(c, replaceVictim(listInPartition(c, f), i, f), i, f)
<1> DEFINE v == c.lru[i]
           a == listInPartition(c, f)
           b == penalise(a, v)
           e == removeFile(b, v)
           d == replaceVictim(a, i, f)
           aware == c.class \in PartitionAware
           listed == c.bcl.listed \cup {f}
           P == IF aware THEN penalised(a, v) ELSE {}
           cost == [k \in File |-> IF k \in P THEN applyPenaltyFactor(c.cost[k]) ELSE c.cost[k]]
<1>1. /\ DOMAIN c = CacheFields /\ DOMAIN c.bcl = BclFields /\ c.cost \in [File -> Nat]
      /\ DOMAIN c.fd = File /\ DOMAIN c.disk = File
      /\ c.lru \in Seq(File) /\ Penalised(c)
  BY DEF Policy
<1>2. v \in File /\ v \in Cached(c)
  BY <1>1 DEF Cached, Range
<1>3. /\ DOMAIN a = CacheFields /\ DOMAIN a.bcl = BclFields /\ SameKind(c, a)
      /\ a.lru = c.lru /\ a.waiting = c.waiting /\ a.fifo = c.fifo /\ a.lirs = c.lirs
      /\ a.cost = c.cost /\ a.fd = c.fd /\ a.disk = c.disk
      /\ a.bcl.a_cost = c.bcl.a_cost /\ a.bcl.loaded = c.bcl.loaded
      /\ a.bcl.paid = c.bcl.paid /\ (aware => a.bcl.listed = listed)
  BY <1>1 DEF listInPartition, CacheFields, BclFields, SameKind
<1>4. d = [e EXCEPT !.lru = Append(RemoveAt(@, i), f)]
  BY <1>3 DEF replaceVictim
<1>5. aware => P = {k \in listed \cap Cached(c) :
                       getCheckpointNr(Restart, k) = getCheckpointNr(Restart, v) /\ k <= v}
  BY <1>3 DEF penalised, Cached
<1>6. b = IF aware THEN [a EXCEPT !.cost = [k \in File |-> IF k \in P
                                                       THEN applyPenaltyFactor(@[k]) ELSE @[k]],
                                  !.bcl.listed = @ \ P]
          ELSE a
  BY <1>3 DEF penalise, SameKind
<1> HIDE DEF a, P, v
<1>7. c.cost = [k \in File |-> c.cost[k]]
  BY <1>1
<1>8. /\ DOMAIN b = CacheFields /\ DOMAIN b.bcl = BclFields /\ SameKind(c, b)
      /\ b.lru = c.lru /\ b.waiting = c.waiting /\ b.fifo = c.fifo /\ b.lirs = c.lirs
      /\ b.fd = c.fd /\ b.disk = c.disk
      /\ b.bcl.a_cost = c.bcl.a_cost /\ b.bcl.loaded = c.bcl.loaded
      /\ b.bcl.paid = c.bcl.paid /\ (aware => b.bcl.listed = listed \ P)
      /\ b.cost = IF aware THEN cost ELSE c.cost
  <2>1. CASE aware
    <3>1. b = [[a EXCEPT !.cost = cost] EXCEPT !.bcl.listed = @ \ P]
      BY <1>3, <1>6, <2>1
    <3> HIDE DEF b, cost
    <3> QED
      BY <1>3, <2>1, <3>1 DEF CacheFields, BclFields, SameKind
  <2>2. CASE ~aware
    <3>1. b = a
      BY <1>6, <2>2
    <3> QED
      BY <1>3, <2>2, <3>1
  <2> QED
    BY <2>1, <2>2
<1>9. b.cost \in [File -> Nat] /\ \A k \in File : /\ k \notin P => b.cost[k] = c.cost[k]
                                                  /\ k \in P => aware /\ b.cost[k] = applyPenaltyFactor(c.cost[k])
  <2>1. cost \in [File -> Nat]
    BY <1>1, CostsAreNatural
  <2> QED
    BY <1>1, <1>8, <2>1 DEF P
<1> HIDE DEF b
<1>10. /\ DOMAIN e = CacheFields /\ e.bcl = b.bcl /\ SameKind(b, e)
       /\ e.lru = b.lru /\ e.waiting = b.waiting /\ e.fifo = b.fifo /\ e.lirs = b.lirs
       /\ e.fd = [b.fd EXCEPT ![v] = NoDescriptor] /\ e.disk = [b.disk EXCEPT ![v] = "absent"]
       /\ e.cost = [b.cost EXCEPT ![v] = 0]
  BY <1>8 DEF removeFile, CacheFields, SameKind
<1> HIDE DEF e
<1>11. /\ DOMAIN d = CacheFields /\ d.bcl = e.bcl /\ SameKind(e, d)
       /\ d.lru = Append(RemoveAt(e.lru, i), f)
       /\ d.waiting = e.waiting /\ d.fifo = e.fifo /\ d.lirs = e.lirs
       /\ d.fd = e.fd /\ d.disk = e.disk /\ d.cost = e.cost
  BY <1>4, <1>10 DEF CacheFields, SameKind
<1> HIDE DEF d, cost
<1>12. /\ Framed(c, d) /\ d.lru = Append(RemoveAt(c.lru, i), f)
       /\ d.fd = [c.fd EXCEPT ![v] = NoDescriptor] /\ d.disk = [c.disk EXCEPT ![v] = "absent"]
       /\ DOMAIN d.bcl = BclFields
       /\ d.bcl.a_cost = c.bcl.a_cost /\ d.bcl.loaded = c.bcl.loaded /\ d.bcl.paid = c.bcl.paid
       /\ d.cost = [b.cost EXCEPT ![v] = 0]
  BY <1>8, <1>10, <1>11 DEF Framed, SameKind
<1>13. d.cost \in [File -> Nat] /\ \A g \in File \ {v} : d.cost[g] = b.cost[g]
  <2>1. b.cost \in [File -> Nat]
    BY <1>9
  <2>2. d.cost = [b.cost EXCEPT ![v] = 0]
    BY <1>12
  <2>3. ASSUME NEW old \in [File -> Nat], NEW new, new = [old EXCEPT ![v] = 0]
        PROVE  new \in [File -> Nat] /\ \A g \in File \ {v} : new[g] = old[g]
    BY <2>3
  <2> QED
    BY <2>1, <2>2, <2>3
<1>14. P \subseteq Cached(c) /\ f \notin P
  BY <1>5 DEF P
<1>15. \A g \in File \ Cached(c) : d.cost[g] = c.cost[g]
  BY <1>2, <1>9, <1>13, <1>14
<1>16. ASSUME aware
       PROVE  /\ d.bcl.listed \subseteq listed /\ v \notin d.bcl.listed /\ f \in d.bcl.listed
              /\ \A g \in Cached(c) \ {v} :
                    \/ g \notin c.bcl.listed /\ g \notin d.bcl.listed /\ d.cost[g] = c.cost[g]
                    \/ g \in c.bcl.listed /\ g \in d.bcl.listed /\ d.cost[g] = c.cost[g]
                    \/ /\ g \in c.bcl.listed /\ g \notin d.bcl.listed
                       /\ d.cost[g] = applyPenaltyFactor(c.cost[g])
  <2>1. d.bcl.listed = listed \ P
    BY <1>8, <1>10, <1>11, <1>16
  <2>2. v \in Nat /\ Cached(c) \subseteq File
    <3>1. Cached(c) \subseteq File
      BY <1>1 DEF Cached, Range
    <3> QED
      BY <1>2, <3>1, FileCacheOptionsAssumption
  <2>3. v \in listed => v \in P
    BY <1>2, <1>5, <1>16, <2>2
  <2>4. P \subseteq listed
    BY <1>5, <1>16
  <2>5. \A g \in Cached(c) \ {v} : /\ g \in P => d.cost[g] = applyPenaltyFactor(c.cost[g])
                                   /\ g \notin P => d.cost[g] = c.cost[g]
                                   /\ g # f
    BY <1>9, <1>13, <2>2
  <2> HIDE DEF listed
  <2>6. f \in listed /\ \A g \in Cached(c) : g \in listed <=> g \in c.bcl.listed
    BY DEF listed
  <2> QED
    BY <1>14, <2>1, <2>3, <2>4, <2>5, <2>6
<1> QED
  BY <1>12, <1>13, <1>15, <1>16 DEF Replaced, v, d, a

\* d is c after the cost of an eviction is accounted for.
Accounted(c, d) ==
    /\ Framed(c, d) /\ d.lru = c.lru /\ d.fd = c.fd /\ d.disk = c.disk /\ d.cost = c.cost
    /\ DOMAIN d.bcl = BclFields /\ d.bcl.listed = c.bcl.listed
    /\ Bounded(d)

(* What Acost pays, and is loaded with, keeps the sacrifice bounded.       *)
LEMMA CostAccounted ==
    ASSUME NEW c, NEW f, NEW cost \in Int, DOMAIN c = CacheFields, DOMAIN c.bcl = BclFields,
           c.class \in LRUBased \ {"LRU"}, Bounded(c), c.cost \in [File -> Nat],
           c.lru[1] \in File, cost > 0 => cost < c.bcl.a_cost
    PROVE  Accounted(c, account(c, f, cost))
<1> DEFINE d == account(c, f, cost)
           x == c.bcl
<1>1. CASE cost < 0
  <2> DEFINE k == getActualCost(c, c.lru[1])
  <2>1. k \in Nat
    BY ActualCostIsNatural
  <2>2. d = [c EXCEPT !.bcl = [c.bcl EXCEPT !.a_cost = k, !.loaded = k, !.paid = 0]]
    BY <1>1 DEF account, resetAcost
  <2> HIDE DEF k, d, x
  <2>3. /\ Framed(c, d) /\ d.lru = c.lru /\ d.fd = c.fd /\ d.disk = c.disk /\ d.cost = c.cost
        /\ d.bcl = [[[c.bcl EXCEPT !.a_cost = k] EXCEPT !.loaded = k] EXCEPT !.paid = 0]
    BY <2>2 DEF CacheFields, Framed, SameKind
  <2>4. /\ DOMAIN d.bcl = BclFields /\ d.bcl.listed = c.bcl.listed
        /\ d.bcl.a_cost = k /\ d.bcl.loaded = k /\ d.bcl.paid = 0
    BY <2>3 DEF BclFields
  <2>5. Sacrifice(k, k, 0)
    BY <2>1 DEF Sacrifice
  <2> QED
    BY <2>3, <2>4, <2>5 DEF Accounted, Bounded, d
<1>2. CASE cost = 0
  <2>1. d = c
    BY <1>2 DEF account
  <2> QED
    BY <2>1 DEF Accounted, Framed, SameKind
<1>3. CASE cost > 0 /\ c.class \in {"BCL", "PBCL"}
  <2> DEFINE a == Max({0, x.a_cost - 2 * cost})
  <2>1. d = depreciateAcost([c EXCEPT !.bcl.paid = @ + cost], 2 * cost)
    BY <1>3 DEF account
  <2> DEFINE e == [c EXCEPT !.bcl.paid = @ + cost]
  <2>2. /\ DOMAIN e = CacheFields /\ Framed(c, e)
        /\ e.lru = c.lru /\ e.fd = c.fd /\ e.disk = c.disk /\ e.cost = c.cost
        /\ DOMAIN e.bcl = BclFields /\ e.bcl.listed = x.listed
        /\ e.bcl.a_cost = x.a_cost /\ e.bcl.loaded = x.loaded /\ e.bcl.paid = x.paid + cost
    BY DEF CacheFields, BclFields, Framed, SameKind
  <2>3. d = [e EXCEPT !.bcl.a_cost = a]
    BY <2>1, <2>2 DEF depreciateAcost
  <2> HIDE DEF e, a, x, d
  <2>4. /\ Framed(e, d) /\ d.lru = e.lru /\ d.fd = e.fd /\ d.disk = e.disk /\ d.cost = e.cost
        /\ DOMAIN d.bcl = BclFields /\ d.bcl.listed = e.bcl.listed
        /\ d.bcl.a_cost = a /\ d.bcl.loaded = e.bcl.loaded /\ d.bcl.paid = e.bcl.paid
    BY <2>2, <2>3 DEF CacheFields, BclFields, Framed, SameKind
  <2>5. Sacrifice(x.a_cost, x.loaded, x.paid) /\ cost < x.a_cost
    BY <1>3 DEF Bounded, x
  <2>6. a \in Nat /\ (a = 0 \/ a = x.a_cost - 2 * cost)
    <3> DEFINE left == x.a_cost - 2 * cost
    <3>1. left \in Int
      BY <2>5 DEF Sacrifice
    <3>2. a = Max({0, left})
      BY DEF a
    <3> HIDE DEF left
    <3>3. a \in {0, left} /\ \A y \in {0, left} : y <= a
      BY <3>1, <3>2, MaxOfTwo
    <3> QED
      BY <3>1, <3>3 DEF left
  <2>7. Sacrifice(a, x.loaded, x.paid + cost)
    BY <1>3, <2>5, <2>6 DEF Sacrifice
  <2> QED
    BY <2>2, <2>4, <2>7 DEF Accounted, Bounded, Framed, SameKind, d, x
<1>4. CASE cost > 0 /\ c.class \in {"DCL", "PDCL"}
  <2>1. d = etdPut(c, f, 2 * cost)
    BY <1>4 DEF account
  <2>2. \/ d = c
        \/ \E etd : d = [c EXCEPT !.bcl.etd = etd]
    BY <2>1 DEF etdPut
  <2> HIDE DEF d, x
  <2>3. ASSUME NEW etd, d = [c EXCEPT !.bcl.etd = etd]
        PROVE  Accounted(c, d)
    BY <1>4, <2>3 DEF Accounted, CacheFields, BclFields, Framed, SameKind, Bounded
  <2>4. CASE d = c
    BY <2>4 DEF Accounted, Framed, SameKind, d
  <2> QED
    BY <2>2, <2>3, <2>4 DEF d
<1> QED
  BY <1>1, <1>2, <1>3, <1>4 DEF LRUBased

\* What the insertion of f into a cache based on LRU does.
PutResult(c, d, f) ==
    /\ Policy(d) /\ Framed(c, d)
    /\ Insertion(c, d, f, Cached(c), Cached(d))
    /\ \A g \in File \ Cached(c) : d.cost[g] = c.cost[g]

(* One entry of a list leaves, a new one enters at the MRU position.       *)
LEMMA EntryReplaced ==
    ASSUME NEW S, NEW s \in Seq(S), IsInjective(s), NEW i \in 1 .. Len(s),
           NEW f \in S, f \notin Range(s)
    PROVE  LET t == Append(RemoveAt(s, i), f)
           IN  /\ t \in Seq(S) /\ IsInjective(t)
               /\ Range(t) = (Range(s) \ {s[i]}) \cup {f} /\ Len(t) = Len(s)
<1> DEFINE r == RemoveAt(s, i)
<1>1. r \in Seq(S) /\ Len(r) = Len(s) - 1
  BY RemoveAtProperties
<1>2. IsInjective(r) /\ Range(r) = Range(s) \ {s[i]}
  BY RemoveAtInjective
<1>3. Len(s) \in Nat
  OBVIOUS
<1> HIDE DEF r
<1>4. Append(r, f) \in Seq(S) /\ IsInjective(Append(r, f)) /\ Range(Append(r, f)) = Range(r) \cup {f}
  BY <1>1, <1>2, AppendKeepsInjective
<1>5. Len(Append(r, f)) = Len(s)
  BY <1>1, <1>3
<1> QED
  BY <1>2, <1>4, <1>5 DEF r

(* A put that evicts nothing appends the file.                             *)
LEMMA PutAppends ==
    ASSUME NEW c, NEW d, NEW f \in File, Policy(c), f \notin Cached(c),
           c.class \in PartitionAware => c.cost[f] = FullCost(f),
           Len(c.lru) < capacity \/ VictimPositions(c) = {},
           Framed(c, d), d.lru = Append(c.lru, f), d.fd = c.fd, d.disk = c.disk,
           d.cost = c.cost, DOMAIN d.bcl = BclFields,
           c.class \in PartitionAware => d.bcl.listed = c.bcl.listed \cup {f},
           d.bcl.a_cost = c.bcl.a_cost, d.bcl.loaded = c.bcl.loaded, d.bcl.paid = c.bcl.paid
    PROVE  PutResult(c, d, f)
<1>1. c.lru \in Seq(File) /\ IsInjective(c.lru) /\ f \notin Range(c.lru)
  BY DEF Policy, Cached
<1>2. d.lru \in Seq(File) /\ IsInjective(d.lru) /\ Cached(d) = Cached(c) \cup {f}
  BY <1>1, AppendKeepsInjective DEF Cached
<1>3. Penalised(d)
  <2>1. SUFFICES ASSUME d.class \in PartitionAware PROVE Penalised(d)
    BY DEF Penalised
  <2>2. /\ c.bcl.listed \subseteq Cached(c) /\ d.bcl.listed = c.bcl.listed \cup {f}
        /\ c.cost[f] = FullCost(f)
        /\ \A g \in Cached(c) : c.cost[g] = IF g \in c.bcl.listed THEN FullCost(g)
                                            ELSE applyPenaltyFactor(FullCost(g))
    BY <2>1 DEF Policy, Penalised, Framed, SameKind
  <2> QED
    BY <1>2, <2>2 DEF Penalised
<1>4. Bounded(d)
  BY DEF Policy, Bounded, Framed, SameKind
<1>5. Policy(d)
  BY <1>2, <1>3, <1>4 DEF Policy, Framed, SameKind
<1>6. Insertion(c, d, f, Cached(c), Cached(d))
  <2>1. /\ Cardinality(Cached(c)) = Len(c.lru)
        /\ VictimPositions(c) = {} => Cardinality({g \in Cached(c) : Evictable(c.fd[g])}) <= 1
    BY <1>1, CountsOfList
  <2> QED
    BY <1>2, <2>1 DEF Insertion
<1> QED
  BY <1>5, <1>6 DEF PutResult

(* A put that evicts a file replaces its entry.                            *)
LEMMA PutReplaces ==
    ASSUME NEW c, NEW e, NEW d, NEW f \in File, NEW i \in 1 .. Len(c.lru),
           Policy(c), f \notin Cached(c),
           c.class \in PartitionAware => c.cost[f] = FullCost(f),
           ~(Len(c.lru) < capacity), Evictable(c.fd[c.lru[i]]),
           Replaced(c, e, i, f), Accounted(e, d)
    PROVE  PutResult(c, d, f)
<1> DEFINE v == c.lru[i]
<1>1. c.lru \in Seq(File) /\ IsInjective(c.lru) /\ f \notin Range(c.lru)
  BY DEF Policy, Cached
<1>2. d.lru = Append(RemoveAt(c.lru, i), f)
  BY DEF Replaced, Accounted
<1>3. d.lru \in Seq(File) /\ IsInjective(d.lru) /\ Cached(d) = (Cached(c) \ {v}) \cup {f}
  BY <1>1, <1>2, EntryReplaced DEF Cached
<1>4. v \in Cached(c) /\ Cached(c) \subseteq File
  BY <1>1 DEF Cached, Range
<1>5. /\ Framed(c, d) /\ d.fd = [c.fd EXCEPT ![v] = NoDescriptor]
      /\ d.disk = [c.disk EXCEPT ![v] = "absent"] /\ DOMAIN d.bcl = BclFields
      /\ d.cost \in [File -> Nat]
      /\ \A g \in File \ Cached(c) : d.cost[g] = c.cost[g]
  BY DEF Replaced, Accounted, Framed, SameKind
<1>6. c.class \in PartitionAware =>
         /\ d.bcl.listed \subseteq c.bcl.listed \cup {f} /\ v \notin d.bcl.listed
         /\ f \in d.bcl.listed
         /\ \A g \in Cached(c) \ {v} :
               \/ g \notin c.bcl.listed /\ g \notin d.bcl.listed /\ d.cost[g] = c.cost[g]
               \/ g \in c.bcl.listed /\ g \in d.bcl.listed /\ d.cost[g] = c.cost[g]
               \/ /\ g \in c.bcl.listed /\ g \notin d.bcl.listed
                  /\ d.cost[g] = applyPenaltyFactor(c.cost[g])
  BY DEF Replaced, Accounted
<1> HIDE DEF v
<1>7. Penalised(d)
  <2>1. SUFFICES ASSUME d.class \in PartitionAware PROVE Penalised(d)
    BY DEF Penalised
  <2>2. /\ c.class \in PartitionAware
        /\ c.bcl.listed \subseteq Cached(c) /\ c.cost[f] = FullCost(f)
        /\ \A g \in Cached(c) : c.cost[g] = IF g \in c.bcl.listed THEN FullCost(g)
                                            ELSE applyPenaltyFactor(FullCost(g))
    BY <1>5, <2>1 DEF Policy, Penalised, Framed, SameKind
  <2>3. d.bcl.listed \subseteq Cached(d)
    BY <1>3, <1>6, <2>2
  <2>4. d.cost[f] = FullCost(f) /\ f \in d.bcl.listed
    BY <1>5, <1>6, <2>2
  <2>5. \A g \in Cached(c) \ {v} : d.cost[g] = IF g \in d.bcl.listed THEN FullCost(g)
                                               ELSE applyPenaltyFactor(FullCost(g))
    BY <1>6, <2>2
  <2> QED
    BY <1>3, <2>3, <2>4, <2>5 DEF Penalised
<1>8. Policy(d)
  <2>1. DOMAIN d.fd = File /\ DOMAIN d.disk = File
    BY <1>5 DEF Policy
  <2>2. d.class \in LRUBased /\ DOMAIN d = CacheFields /\ Bounded(d)
    BY <1>5 DEF Policy, Framed, SameKind, Accounted
  <2> QED
    BY <1>3, <1>5, <1>7, <2>1, <2>2 DEF Policy
<1>9. Insertion(c, d, f, Cached(c), Cached(d))
  <2>0. Len(c.lru) \in Nat
    BY <1>1
  <2>1. Cardinality(Cached(c)) = Len(c.lru)
    BY <1>1, CountsOfList
  <2>2. Cardinality(Cached(c)) >= capacity
    BY <2>0, <2>1, FileCacheOptionsAssumption
  <2>3. Evictable(c.fd[v])
    BY DEF v
  <2> QED
    BY <1>3, <1>4, <1>5, <2>2, <2>3, Zenon DEF Insertion
<1> QED
  BY <1>5, <1>8, <1>9 DEF PutResult

(* The insertion of a file that the cache does not hold.                   *)
LEMMA LRUBasedPut ==
    ASSUME NEW c, NEW f \in File, Policy(c), f \notin Cached(c),
           c.class \in PartitionAware => c.cost[f] = FullCost(f)
    PROVE  PutResult(c, actualPut_LRUBased(c, f), f)
<1> DEFINE d == actualPut_LRUBased(c, f)
<1>1. /\ DOMAIN c = CacheFields /\ DOMAIN c.bcl = BclFields /\ c.class \in LRUBased
      /\ c.cost \in [File -> Nat] /\ DOMAIN c.fd = File /\ DOMAIN c.disk = File
      /\ c.lru \in Seq(File) /\ IsInjective(c.lru)
  BY DEF Policy
<1>2. VictimPositions(c) \subseteq 1 .. Len(c.lru)
  BY <1>1 DEF VictimPositions
<1>3. CASE c.class = "LRU"
  <2>1. d = actualPut(c, f, capacity)
    BY <1>3 DEF actualPut_LRUBased
  <2>2. CASE Len(c.lru) < capacity \/ VictimPositions(c) = {}
    <3>1. d = [c EXCEPT !.lru = Append(@, f)]
      BY <2>1, <2>2 DEF actualPut
    <3> HIDE DEF d
    <3>2. /\ Framed(c, d) /\ d.lru = Append(c.lru, f) /\ d.fd = c.fd /\ d.disk = c.disk
          /\ d.cost = c.cost /\ d.bcl = c.bcl
      BY <1>1, <3>1 DEF Framed, SameKind, CacheFields
    <3> QED
      BY <1>1, <1>3, <2>2, <3>2, PutAppends DEF PartitionAware, d
  <2>3. CASE ~(Len(c.lru) < capacity) /\ VictimPositions(c) # {}
    <3> DEFINE i == findVictim_LRU(c)
               v == c.lru[i]
               e == evict(c, i)
    <3>1. i \in VictimPositions(c)
      <4>1. VictimPositions(c) \in SUBSET Nat
        BY <1>2
      <4> QED
        BY <2>3, <4>1, MinProperty DEF findVictim_LRU
    <3>2. i \in 1 .. Len(c.lru) /\ Evictable(c.fd[v])
      BY <1>2, <3>1 DEF VictimPositions
    <3>3. d = [e EXCEPT !.lru = Append(@, f)]
      BY <2>1, <2>3 DEF actualPut
    <3> HIDE DEF i
    <3>4. /\ DOMAIN e = CacheFields /\ Framed(c, e) /\ e.lru = RemoveAt(c.lru, i)
          /\ e.fd = [c.fd EXCEPT ![v] = NoDescriptor] /\ e.disk = [c.disk EXCEPT ![v] = "absent"]
          /\ e.cost = c.cost /\ e.bcl = c.bcl
      BY <1>1 DEF evict, Framed, SameKind, CacheFields
    <3> HIDE DEF d, e
    <3>5. /\ Framed(c, d) /\ d.lru = Append(RemoveAt(c.lru, i), f)
          /\ d.fd = [c.fd EXCEPT ![v] = NoDescriptor] /\ d.disk = [c.disk EXCEPT ![v] = "absent"]
          /\ d.cost = c.cost /\ d.bcl = c.bcl
      BY <3>3, <3>4 DEF Framed, SameKind, CacheFields
    <3>6. Replaced(c, d, i, f)
      BY <1>1, <1>3, <3>5 DEF Replaced, PartitionAware
    <3>7. Accounted(d, d)
      BY <1>1, <1>3, <3>5 DEF Accounted, Framed, SameKind, Bounded
    <3> QED
      BY <1>3, <2>3, <3>2, <3>6, <3>7, PutReplaces DEF d, PartitionAware
  <2> QED
    BY <2>2, <2>3
<1>4. CASE c.class # "LRU"
  <2> DEFINE x == listInPartition(c, f)
             victim == findVictim_BCL(x)
             i == victim[1]
  <2>1. /\ DOMAIN x = CacheFields /\ DOMAIN x.bcl = BclFields /\ Framed(c, x)
        /\ x.lru = c.lru /\ x.cost = c.cost /\ x.fd = c.fd /\ x.disk = c.disk
        /\ x.bcl.a_cost = c.bcl.a_cost /\ x.bcl.loaded = c.bcl.loaded
        /\ x.bcl.paid = c.bcl.paid
        /\ c.class \in PartitionAware => x.bcl.listed = c.bcl.listed \cup {f}
    BY <1>1 DEF listInPartition, CacheFields, BclFields, Framed, SameKind
  <2>2. d = actualPut_BCL(x, f)
    BY <1>4 DEF actualPut_LRUBased
  <2>3. /\ victim[1] \in 0 .. Len(c.lru) /\ victim[2] \in Int
        /\ victim[1] = 0 => VictimPositions(x) = {}
        /\ victim[1] # 0 => Evictable(c.fd[c.lru[victim[1]]])
        /\ victim[2] > 0 => victim[2] \in Nat /\ victim[2] < c.bcl.a_cost
    BY <1>1, <2>1, VictimOfBCL
  <2>4. VictimPositions(x) = VictimPositions(c)
    BY <2>1 DEF VictimPositions
  <2>5. CASE Len(c.lru) < capacity \/ i = 0
    <3>1. d = [x EXCEPT !.lru = Append(@, f)]
      BY <2>1, <2>2, <2>5 DEF actualPut_BCL
    <3> HIDE DEF d, x
    <3>2. /\ Framed(c, d) /\ d.lru = Append(c.lru, f) /\ d.fd = c.fd /\ d.disk = c.disk
          /\ d.cost = c.cost /\ d.bcl = x.bcl
      BY <2>1, <3>1 DEF Framed, SameKind, CacheFields
    <3>3. Len(c.lru) < capacity \/ VictimPositions(c) = {}
      BY <2>3, <2>4, <2>5
    <3> HIDE DEF victim
    <3> QED
      BY <2>1, <3>2, <3>3, PutAppends DEF d
  <2>6. CASE ~(Len(c.lru) < capacity) /\ i # 0
    <3> DEFINE e == replaceVictim(x, i, f)
    <3>1. d = account(e, f, victim[2])
      BY <2>1, <2>2, <2>6 DEF actualPut_BCL
    <3>2. i \in 1 .. Len(c.lru) /\ Evictable(c.fd[c.lru[i]]) /\ victim[2] \in Int
          /\ (victim[2] > 0 => victim[2] < c.bcl.a_cost)
      BY <2>3, <2>6
    <3> HIDE DEF victim, d
    <3>3. Replaced(c, e, i, f)
      BY <3>2, VictimReplaced
    <3> HIDE DEF e, x, i
    <3>4. e.lru[1] \in File
      <4>1. e.lru = Append(RemoveAt(c.lru, i), f) /\ f \notin Range(c.lru)
        BY <3>3 DEF Replaced, Cached
      <4>2. e.lru \in Seq(File) /\ Len(e.lru) = Len(c.lru)
        BY <1>1, <3>2, <4>1, EntryReplaced
      <4>3. 1 \in 1 .. Len(e.lru)
        BY <3>2, <4>2
      <4> QED
        BY <4>2, <4>3
    <3>5. /\ DOMAIN e = CacheFields /\ DOMAIN e.bcl = BclFields /\ e.class = c.class
          /\ e.bcl.a_cost = c.bcl.a_cost /\ e.bcl.loaded = c.bcl.loaded
          /\ e.bcl.paid = c.bcl.paid /\ e.cost \in [File -> Nat]
      BY <3>3 DEF Replaced, Framed, SameKind
    <3>6. Bounded(e)
      BY <3>5 DEF Bounded, Policy
    <3>7. Accounted(e, d)
      BY <1>1, <1>4, <3>1, <3>2, <3>4, <3>5, <3>6, CostAccounted
    <3> QED
      BY <2>6, <3>2, <3>3, <3>7, PutReplaces DEF d, i
  <2> QED
    BY <2>5, <2>6
<1> QED
  BY <1>3, <1>4

\* A file is in one of the three places, the waiting list being W; outside
\* the cache its cost is full.
PlacesOf(c, W) ==
    /\ W \subseteq File
    /\ DOMAIN c.fifo = {"queue", "capacity"} /\ c.fifo.capacity \in Nat
    /\ c.fifo.queue \in Seq(File) /\ IsInjective(c.fifo.queue)
    /\ Cached(c) \cap W = {} /\ Cached(c) \cap Range(c.fifo.queue) = {}
    /\ W \cap Range(c.fifo.queue) = {}
    /\ c.class \in PartitionAware =>
          \A g \in W \cup Range(c.fifo.queue) : c.cost[g] = FullCost(g)

Places(c) == PlacesOf(c, c.waiting)

LRUInv(c) == Policy(c) /\ Places(c)

\* What a put or a refresh of f does in a cache based on LRU.
LRUOutcome(c, d, f) ==
    /\ LRUInv(d) /\ SameKind(c, d) /\ d.lirs = c.lirs /\ d.fifo = c.fifo
    /\ \/ Cached(d) = Cached(c) /\ d.fd = c.fd /\ d.disk = c.disk
       \/ f \notin Cached(c) /\ Insertion(c, d, f, Cached(c), Cached(d))

(* An insertion adds the file it is for, and no other.                     *)
LEMMA InsertionBounds ==
    ASSUME NEW c, NEW d, NEW f, NEW old, NEW new, Insertion(c, d, f, old, new)
    PROVE  f \in new /\ new \subseteq old \cup {f}
  BY DEF Insertion

(* A cached file becomes the MRU.                                          *)
LEMMA CachedRefreshed ==
    ASSUME NEW c, NEW f \in File, LRUInv(c), f \in Cached(c)
    PROVE  LRUOutcome(c, [c EXCEPT !.lru = ToMru(@, f)], f)
<1> DEFINE d == [c EXCEPT !.lru = ToMru(@, f)]
<1>1. /\ DOMAIN c = CacheFields /\ c.lru \in Seq(File) /\ IsInjective(c.lru)
  BY DEF LRUInv, Policy
<1>2. /\ DOMAIN d = CacheFields /\ SameKind(c, d) /\ d.lirs = c.lirs /\ d.fifo = c.fifo
      /\ d.waiting = c.waiting /\ d.fd = c.fd /\ d.disk = c.disk /\ d.cost = c.cost
      /\ d.bcl = c.bcl /\ d.lru = ToMru(c.lru, f)
  BY <1>1 DEF CacheFields, SameKind
<1> HIDE DEF d
<1>3. d.lru \in Seq(File) /\ IsInjective(d.lru) /\ Range(d.lru) = Range(c.lru)
  <2>1. /\ ToMru(c.lru, f) \in Seq(File) /\ IsInjective(ToMru(c.lru, f))
        /\ Range(ToMru(c.lru, f)) = Range(c.lru) \cup {f}
    BY <1>1, ToMruProperties
  <2> QED
    BY <1>2, <2>1 DEF Cached
<1>4. Cached(d) = Cached(c)
  BY <1>3 DEF Cached
<1>5. Policy(d)
  BY <1>2, <1>3, <1>4 DEF LRUInv, Policy, Penalised, Bounded, SameKind
<1>6. Places(d)
  BY <1>2, <1>4 DEF LRUInv, Places, PlacesOf, SameKind
<1> QED
  BY <1>2, <1>4, <1>5, <1>6 DEF LRUOutcome, LRUInv, d

(* A file of the waiting list enters the cache.                            *)
LEMMA WaitingInserted ==
    ASSUME NEW c, NEW f \in File, LRUInv(c), f \in c.waiting
    PROVE  LRUOutcome(c, [actualPut_LRUBased(c, f) EXCEPT !.waiting = @ \ {f}], f)
<1> DEFINE e == actualPut_LRUBased(c, f)
           d == [e EXCEPT !.waiting = @ \ {f}]
<1>1. f \notin Cached(c) /\ (c.class \in PartitionAware => c.cost[f] = FullCost(f))
  BY DEF LRUInv, Places, PlacesOf
<1>2. PutResult(c, e, f)
  BY <1>1, LRUBasedPut DEF LRUInv
<1> HIDE DEF e
<1>3. /\ DOMAIN e = CacheFields /\ SameKind(c, e) /\ e.lirs = c.lirs /\ e.fifo = c.fifo
      /\ e.waiting = c.waiting
  BY <1>2 DEF PutResult, Framed
<1>4. /\ DOMAIN d = CacheFields /\ SameKind(e, d) /\ d.lirs = e.lirs /\ d.fifo = e.fifo
      /\ d.waiting = e.waiting \ {f} /\ d.fd = e.fd /\ d.disk = e.disk /\ d.cost = e.cost
      /\ d.bcl = e.bcl /\ d.lru = e.lru
  BY <1>3 DEF CacheFields, SameKind
<1> HIDE DEF d
<1>5. Cached(d) = Cached(e)
  BY <1>4 DEF Cached
<1>6. Policy(d)
  BY <1>2, <1>4, <1>5 DEF PutResult, Policy, Penalised, Bounded, SameKind
<1>7. Insertion(c, d, f, Cached(c), Cached(d))
  BY <1>2, <1>4, <1>5 DEF PutResult, Insertion
<1>8. Cached(d) \subseteq Cached(c) \cup {f}
  BY <1>7, InsertionBounds
<1>9. Places(d)
  <2>1. /\ d.waiting = c.waiting \ {f} /\ d.fifo = c.fifo /\ d.class = c.class
        /\ \A g \in File \ Cached(c) : d.cost[g] = c.cost[g]
    BY <1>2, <1>3, <1>4 DEF PutResult, SameKind
  <2>2. Range(c.fifo.queue) \subseteq File
    BY DEF LRUInv, Places, PlacesOf, Range
  <2>3. Cached(d) \cap d.waiting = {} /\ Cached(d) \cap Range(d.fifo.queue) = {}
    BY <1>8, <2>1 DEF LRUInv, Places, PlacesOf
  <2>4. \A g \in d.waiting \cup Range(d.fifo.queue) : d.cost[g] = c.cost[g]
    BY <2>1, <2>2 DEF LRUInv, Places, PlacesOf
  <2> QED
    BY <2>1, <2>3, <2>4 DEF LRUInv, Places, PlacesOf
<1> QED
  BY <1>1, <1>3, <1>4, <1>6, <1>7, <1>9 DEF LRUOutcome, LRUInv, SameKind, d, e

(* A refresh of a cache based on LRU.                                      *)
LEMMA LRUBasedRefresh ==
    ASSUME NEW c, NEW f \in File, LRUInv(c)
    PROVE  LRUOutcome(c, refresh_LRUBased(c, f), f)
<1> DEFINE d == refresh_LRUBased(c, f)
<1>1. CASE f \in Cached(c) /\ f \notin c.waiting /\ c.fd[f].file_available
  <2>1. d = [c EXCEPT !.lru = ToMru(@, f)]
    BY <1>1 DEF refresh_LRUBased
  <2> QED
    BY <1>1, <2>1, CachedRefreshed
<1>2. CASE f \notin Cached(c) /\ f \in c.waiting /\ c.fd[f].file_available
           /\ c.disk[f] # "absent"
  <2>1. d = [actualPut_LRUBased(c, f) EXCEPT !.waiting = @ \ {f}]
    BY <1>2 DEF refresh_LRUBased
  <2> QED
    BY <1>2, <2>1, WaitingInserted
<1>3. CASE /\ ~(f \in Cached(c) /\ f \notin c.waiting /\ c.fd[f].file_available)
           /\ ~(f \notin Cached(c) /\ f \in c.waiting /\ c.fd[f].file_available
                /\ c.disk[f] # "absent")
  <2>1. d = c
    BY <1>3 DEF refresh_LRUBased
  <2> QED
    BY <2>1 DEF LRUOutcome, SameKind
<1> QED
  BY <1>1, <1>2, <1>3

\* d is c with a descriptor for f.
Described(c, d, f, fd) ==
    /\ Framed(c, d) /\ d.lru = c.lru /\ d.bcl = c.bcl /\ d.disk = c.disk
    /\ d.arc = c.arc /\ d.files = c.files
    /\ d.fd = [c.fd EXCEPT ![f] = fd]
    /\ c.class \in LRUBased => d.cost = [c.cost EXCEPT ![f] = FullCost(f)]

(* A new descriptor changes the descriptor, the cost and the requests.     *)
LEMMA Describes ==
    ASSUME NEW c, NEW f, NEW fd, DOMAIN c = CacheFields
    PROVE  Described(c, describe(c, f, fd), f, fd)
<1> DEFINE d == describe(c, f, fd)
           r == IF fd.lock_count > 0 THEN c.requested \cup {f} ELSE c.requested
           k == IF c.class \in LRUBased THEN getPrevRestartDiff(Restart, f) ELSE 0
<1>1. d = [[[c EXCEPT !.fd = [c.fd EXCEPT ![f] = fd]] EXCEPT !.requested = r]
              EXCEPT !.cost = [c.cost EXCEPT ![f] = k]]
  BY DEF describe, CacheFields
<1>2. c.class \in LRUBased => k = FullCost(f)
  BY DEF FullCost
<1> HIDE DEF d, r, k
<1>3. /\ DOMAIN d = CacheFields /\ SameKind(c, d)
      /\ d.waiting = c.waiting /\ d.fifo = c.fifo /\ d.lirs = c.lirs
      /\ d.lru = c.lru /\ d.bcl = c.bcl /\ d.disk = c.disk /\ d.arc = c.arc /\ d.files = c.files
      /\ d.fd = [c.fd EXCEPT ![f] = fd] /\ d.cost = [c.cost EXCEPT ![f] = k]
  BY <1>1 DEF CacheFields, SameKind
<1> QED
  BY <1>2, <1>3 DEF Described, Framed, d

(* A new descriptor of a file that is nowhere keeps the invariant.         *)
LEMMA DescribedKeeps ==
    ASSUME NEW c, NEW d, NEW f \in File, NEW fd, LRUInv(c), Described(c, d, f, fd),
           f \notin Cached(c), f \notin c.waiting, f \notin Range(c.fifo.queue)
    PROVE  LRUInv(d) /\ d.cost[f] = FullCost(f) /\ Cached(d) = Cached(c)
<1>1. /\ Framed(c, d) /\ d.lru = c.lru /\ d.bcl = c.bcl /\ d.disk = c.disk
      /\ d.fd = [c.fd EXCEPT ![f] = fd] /\ d.cost = [c.cost EXCEPT ![f] = FullCost(f)]
      /\ c.cost \in [File -> Nat] /\ c.lru \in Seq(File) /\ DOMAIN c.fd = File
  BY DEF LRUInv, Policy, Described
<1>2. /\ d.cost \in [File -> Nat] /\ d.cost[f] = FullCost(f)
      /\ \A g \in File \ {f} : d.cost[g] = c.cost[g]
  <2>1. FullCost(f) \in Nat
    BY CostsAreNatural
  <2> QED
    BY <1>1, <2>1
<1>3. Cached(d) = Cached(c) /\ Cached(c) \subseteq File
  BY <1>1 DEF Cached, Range
<1>4. DOMAIN d.fd = File
  BY <1>1
<1>5. Policy(d)
  BY <1>1, <1>2, <1>3, <1>4 DEF LRUInv, Policy, Penalised, Bounded, Framed, SameKind
<1>6. Places(d)
  <2>1. Range(c.fifo.queue) \subseteq File /\ c.waiting \subseteq File
    BY DEF LRUInv, Places, PlacesOf, Range
  <2> QED
    BY <1>1, <1>2, <1>3, <2>1 DEF LRUInv, Places, PlacesOf, Framed, SameKind
<1> QED
  BY <1>2, <1>3, <1>5, <1>6 DEF LRUInv

-----------------------------------------------------------------------------
\* What every cache does to the files other than the one it is called for.

PinsKept(c, d, f) ==
    \A g \in File \ {f} : Evictable(d.fd[g]) <=> Evictable(c.fd[g])

AllPinsKept(c, d) == \A g \in File : Evictable(d.fd[g]) <=> Evictable(c.fd[g])

\* One file at most is evicted, none that is in use, and its file removed.
Evicts(c, d, f, old, new) ==
    \A v \in old \ new : /\ v # f /\ Evictable(c.fd[v])
                         /\ old \ {v} \subseteq new
                         /\ d.disk[v] = "absent"

\* The capacity is exceeded only when nothing can be evicted.
Fits(c, f, old, new) ==
    \/ new = old
    \/ /\ f \notin old /\ new = old \cup {f}
       /\ Cardinality(old) < capacity \/ Cardinality({g \in old : Evictable(c.fd[g])}) <= 1
    \/ /\ f \notin old /\ Cardinality(old) >= capacity
       /\ \E v \in old : Evictable(c.fd[v]) /\ new = (old \ {v}) \cup {f}

(* The removal of an unused file leaves the files in use as they were.     *)
LEMMA RemovedFile ==
    ASSUME NEW c, NEW d, NEW v \in File, DOMAIN c.fd = File, DOMAIN c.disk = File,
           Evictable(c.fd[v]), Removed(c, d, v)
    PROVE  /\ \A g \in File : Evictable(d.fd[g]) <=> Evictable(c.fd[g])
           /\ d.disk[v] = "absent"
<1>1. Evictable(NoDescriptor)
  BY DEF Evictable, NoDescriptor, isFileUsedBySimulator
<1>2. d.fd[v] = NoDescriptor /\ \A g \in File \ {v} : d.fd[g] = c.fd[g]
  BY DEF Removed
<1>3. d.disk[v] = "absent"
  BY DEF Removed
<1> QED
  BY <1>1, <1>2, <1>3

(* What an insertion does to the other files.                              *)
LEMMA InsertionMeans ==
    ASSUME NEW c, NEW d, NEW f \in File, NEW old \in SUBSET File, NEW new, f \notin old,
           DOMAIN c.fd = File, DOMAIN c.disk = File, Insertion(c, d, f, old, new)
    PROVE  /\ PinsKept(c, d, f) /\ Evicts(c, d, f, old, new) /\ Fits(c, f, old, new)
           /\ f \in new /\ new \subseteq old \cup {f} /\ AllPinsKept(c, d)
<1>1. CASE /\ new = old \cup {f} /\ d.fd = c.fd /\ d.disk = c.disk
           /\ Cardinality(old) < capacity \/ Cardinality({g \in old : Evictable(c.fd[g])}) <= 1
  BY <1>1 DEF PinsKept, AllPinsKept, Evicts, Fits
<1>2. CASE /\ Cardinality(old) >= capacity
           /\ \E v \in old : /\ Evictable(c.fd[v]) /\ new = (old \ {v}) \cup {f}
                             /\ d.fd = [c.fd EXCEPT ![v] = NoDescriptor]
                             /\ d.disk = [c.disk EXCEPT ![v] = "absent"]
  <2>1. PICK v \in old : /\ Evictable(c.fd[v]) /\ new = (old \ {v}) \cup {f}
                         /\ d.fd = [c.fd EXCEPT ![v] = NoDescriptor]
                         /\ d.disk = [c.disk EXCEPT ![v] = "absent"]
    BY <1>2
  <2>2. /\ \A g \in File : Evictable(d.fd[g]) <=> Evictable(c.fd[g])
        /\ d.disk[v] = "absent"
    BY <2>1, RemovedFile DEF Removed
  <2>3. PinsKept(c, d, f) /\ AllPinsKept(c, d)
    BY <2>2 DEF PinsKept, AllPinsKept
  <2>4. Evicts(c, d, f, old, new)
    BY <2>1, <2>2 DEF Evicts
  <2>5. Fits(c, f, old, new)
    BY <1>2, <2>1 DEF Fits
  <2> QED
    BY <2>1, <2>3, <2>4, <2>5
<1> QED
  BY <1>1, <1>2 DEF Insertion

\* What a put or a refresh of f does, files being the files the cache holds.
Outcome(c, d, f, old, new) ==
    /\ LRUInv(d) /\ SameKind(c, d) /\ d.lirs = c.lirs
    /\ PinsKept(c, d, f) /\ Evicts(c, d, f, old, new)

(* What a put or a refresh does to them, in the caches based on LRU.       *)
LEMMA LRUOutcomeMeans ==
    ASSUME NEW c, NEW d, NEW f \in File, LRUInv(c), LRUOutcome(c, d, f)
    PROVE  /\ Outcome(c, d, f, Cached(c), Cached(d)) /\ Fits(c, f, Cached(c), Cached(d))
           /\ Outcome(c, d, f, Cached_Fifo(c), Cached_Fifo(d))
           /\ d.fifo = c.fifo /\ AllPinsKept(c, d)
<1>1. /\ LRUInv(d) /\ SameKind(c, d) /\ d.lirs = c.lirs /\ d.fifo = c.fifo
      /\ DOMAIN c.fd = File /\ DOMAIN c.disk = File /\ Cached(c) \in SUBSET File
  BY DEF LRUOutcome, LRUInv, Policy, Cached, Range
<1>2. /\ PinsKept(c, d, f) /\ Evicts(c, d, f, Cached(c), Cached(d))
      /\ Fits(c, f, Cached(c), Cached(d)) /\ AllPinsKept(c, d)
  <2>1. CASE Cached(d) = Cached(c) /\ d.fd = c.fd /\ d.disk = c.disk
    BY <2>1 DEF PinsKept, AllPinsKept, Evicts, Fits
  <2>2. CASE f \notin Cached(c) /\ Insertion(c, d, f, Cached(c), Cached(d))
    BY <1>1, <2>2, InsertionMeans
  <2> QED
    BY <2>1, <2>2 DEF LRUOutcome
<1>3. Evicts(c, d, f, Cached_Fifo(c), Cached_Fifo(d))
  BY <1>1, <1>2 DEF Evicts, Cached_Fifo
<1> QED
  BY <1>1, <1>2, <1>3 DEF Outcome

(* put of the caches based on LRU.                                         *)
LEMMA LRUBasedPutOutcome ==
    ASSUME NEW c, NEW f \in File, NEW fd, LRUInv(c), f \notin Range(c.fifo.queue)
    PROVE  LET d == put_LRUBased(c, f, fd)
           IN  /\ Outcome(c, d, f, Cached(c), Cached(d)) /\ Fits(c, f, Cached(c), Cached(d))
               /\ Outcome(c, d, f, Cached_Fifo(c), Cached_Fifo(d))
               /\ d.fifo = c.fifo
               /\ d = c \/ (Evictable(d.fd[f]) <=> Evictable(fd))
               /\ fd.file_available \/ Cached(d) = Cached(c)
<1> DEFINE d == put_LRUBased(c, f, fd)
           a == describe(c, f, fd)
<1>1. CASE Known(c, f)
  <2>1. d = c
    BY <1>1 DEF put_LRUBased
  <2> QED
    BY <2>1 DEF Outcome, SameKind, PinsKept, Evicts, Fits
<1>2. CASE ~Known(c, f)
  <2>1. f \notin Cached(c) /\ f \notin c.waiting
    BY <1>2 DEF Known
  <2>2. DOMAIN c = CacheFields /\ DOMAIN c.fd = File
    BY DEF LRUInv, Policy
  <2>3. Described(c, a, f, fd)
    BY <2>2, Describes
  <2>4. LRUInv(a) /\ a.cost[f] = FullCost(f) /\ Cached(a) = Cached(c)
    BY <2>1, <2>3, DescribedKeeps
  <2>5. /\ SameKind(c, a) /\ a.lirs = c.lirs /\ a.fifo = c.fifo /\ a.waiting = c.waiting
        /\ a.disk = c.disk /\ a.fd[f] = fd /\ \A g \in File \ {f} : a.fd[g] = c.fd[g]
    BY <2>2, <2>3 DEF Described, Framed
  <2>6. ASSUME NEW e, LRUOutcome(a, e, f), d = e
        PROVE  /\ Outcome(c, d, f, Cached(c), Cached(d)) /\ Fits(c, f, Cached(c), Cached(d))
               /\ Outcome(c, d, f, Cached_Fifo(c), Cached_Fifo(d))
               /\ d.fifo = c.fifo
               /\ Evictable(d.fd[f]) <=> Evictable(fd)
    <3>1. /\ Outcome(a, d, f, Cached(a), Cached(d)) /\ Fits(a, f, Cached(a), Cached(d))
          /\ Outcome(a, d, f, Cached_Fifo(a), Cached_Fifo(d))
          /\ d.fifo = a.fifo /\ AllPinsKept(a, d)
      BY <2>4, <2>6, LRUOutcomeMeans
    <3>2. Cached_Fifo(a) = Cached_Fifo(c)
      BY <2>4, <2>5 DEF Cached_Fifo
    <3>3. /\ Cached(c) \subseteq File /\ Cached_Fifo(c) \subseteq File
      BY DEF LRUInv, Policy, Places, PlacesOf, Cached_Fifo, Cached, Range
    <3>4. PinsKept(c, d, f)
      BY <2>5, <3>1 DEF Outcome, PinsKept
    <3>5. Evicts(c, d, f, Cached(c), Cached(d)) /\ Evicts(c, d, f, Cached_Fifo(c), Cached_Fifo(d))
      BY <2>4, <2>5, <3>1, <3>2, <3>3 DEF Outcome, Evicts
    <3>6. Fits(c, f, Cached(c), Cached(d))
      <4>1. {g \in Cached(c) : Evictable(a.fd[g])} = {g \in Cached(c) : Evictable(c.fd[g])}
        BY <2>1, <2>5, <3>3
      <4>2. \A g \in Cached(c) : Evictable(a.fd[g]) <=> Evictable(c.fd[g])
        BY <2>1, <2>5, <3>3
      <4> QED
        BY <2>4, <3>1, <4>1, <4>2 DEF Fits
    <3>7. Evictable(d.fd[f]) <=> Evictable(fd)
      BY <2>5, <3>1 DEF AllPinsKept
    <3> QED
      BY <2>5, <3>1, <3>4, <3>5, <3>6, <3>7 DEF Outcome, SameKind
  <2>7. CASE fd.file_available
    <3> DEFINE e == actualPut_LRUBased(a, f)
    <3>1. d = e
      BY <1>2, <2>7 DEF put_LRUBased
    <3>2. PutResult(a, e, f)
      BY <2>1, <2>4, LRUBasedPut DEF LRUInv
    <3> HIDE DEF e, a
    <3>3. Cached(e) \subseteq Cached(a) \cup {f}
      BY <3>2, InsertionBounds DEF PutResult
    <3>4. Range(c.fifo.queue) \subseteq File /\ c.waiting \subseteq File
      BY DEF LRUInv, Places, PlacesOf, Range
    <3>5. Places(e)
      <4>1. e.waiting = a.waiting /\ e.fifo = a.fifo /\ e.class = a.class
            /\ \A g \in File \ Cached(a) : e.cost[g] = a.cost[g]
        BY <3>2 DEF PutResult, Framed, SameKind
      <4> QED
        BY <2>1, <2>4, <2>5, <3>3, <3>4, <4>1 DEF LRUInv, Places, PlacesOf
    <3>6. LRUOutcome(a, e, f)
      BY <2>1, <2>4, <3>2, <3>5 DEF PutResult, Framed, LRUOutcome, LRUInv
    <3> QED
      BY <2>6, <2>7, <3>1, <3>6
  <2>8. CASE ~fd.file_available
    <3> DEFINE e == [a EXCEPT !.waiting = @ \cup {f}]
    <3>1. d = e
      BY <1>2, <2>8 DEF put_LRUBased
    <3>2. DOMAIN a = CacheFields
      BY <2>4 DEF LRUInv, Policy
    <3> HIDE DEF a
    <3>3. /\ DOMAIN e = CacheFields /\ SameKind(a, e) /\ e.lirs = a.lirs /\ e.fifo = a.fifo
          /\ e.waiting = a.waiting \cup {f} /\ e.fd = a.fd /\ e.disk = a.disk
          /\ e.cost = a.cost /\ e.bcl = a.bcl /\ e.lru = a.lru
      BY <3>2 DEF CacheFields, SameKind
    <3> HIDE DEF e
    <3>4. Cached(e) = Cached(a)
      BY <3>3 DEF Cached
    <3>5. Policy(e)
      BY <2>4, <3>3, <3>4 DEF LRUInv, Policy, Penalised, Bounded, SameKind
    <3>6. Places(e)
      BY <2>1, <2>4, <2>5, <3>3, <3>4 DEF LRUInv, Places, PlacesOf, SameKind
    <3>7. LRUOutcome(a, e, f)
      BY <3>3, <3>4, <3>5, <3>6 DEF LRUOutcome, LRUInv
    <3> QED
      BY <2>4, <2>6, <2>8, <3>1, <3>4, <3>7
  <2> QED
    BY <2>7, <2>8
<1> QED
  BY <1>1, <1>2

-----------------------------------------------------------------------------
\* The FIFO wrapper.

\* What a placement of f does; W is the waiting list without f.
Placement(c, d, f, W) ==
    /\ Policy(d) /\ PlacesOf(d, W) /\ SameKind(c, d) /\ d.lirs = c.lirs /\ d.waiting = c.waiting
    /\ PinsKept(c, d, f) /\ Evicts(c, d, f, Cached_Fifo(c), Cached_Fifo(d))

(* A file of the queue or the waiting list moves to the wrapped cache.     *)
LEMMA MovedToCache ==
    ASSUME NEW c, NEW f \in File, NEW W, Policy(c), PlacesOf(c, W), f \notin Cached(c), f \notin W,
           c.class \in PartitionAware => c.cost[f] = FullCost(f)
    PROVE  Placement(c, moveToCache(c, f), f, W)
<1> DEFINE e == actualPut_LRUBased(c, f)
           d == moveToCache(c, f)
           q == c.fifo.queue
<1>1. PutResult(c, e, f)
  BY LRUBasedPut
<1>2. d = [e EXCEPT !.fifo.queue = without(@, f)]
  BY DEF moveToCache
<1> HIDE DEF d, e
<1>3. /\ DOMAIN e = CacheFields /\ SameKind(c, e) /\ e.lirs = c.lirs /\ e.fifo = c.fifo
      /\ e.waiting = c.waiting /\ DOMAIN e.fifo = {"queue", "capacity"}
      /\ e.fifo.capacity \in Nat
  BY <1>1 DEF PutResult, Framed, PlacesOf
<1>4. /\ DOMAIN d = CacheFields /\ SameKind(e, d) /\ d.lirs = e.lirs
      /\ d.waiting = e.waiting /\ d.fd = e.fd /\ d.disk = e.disk /\ d.cost = e.cost
      /\ d.bcl = e.bcl /\ d.lru = e.lru
      /\ DOMAIN d.fifo = {"queue", "capacity"} /\ d.fifo.queue = without(q, f)
      /\ d.fifo.capacity \in Nat
  BY <1>2, <1>3 DEF CacheFields, SameKind
<1>5. /\ d.fifo.queue \in Seq(File) /\ IsInjective(d.fifo.queue)
      /\ Range(d.fifo.queue) = Range(q) \ {f}
  <2>1. q \in Seq(File) /\ IsInjective(q)
    BY DEF PlacesOf
  <2>2. /\ without(q, f) \in Seq(File) /\ IsInjective(without(q, f))
        /\ Range(without(q, f)) = Range(q) \ {f}
    BY <2>1, WithoutProperties
  <2> QED
    BY <1>4, <2>2
<1>6. Cached(d) = Cached(e)
  BY <1>4 DEF Cached
<1>7. Policy(d)
  BY <1>1, <1>4, <1>6 DEF PutResult, Policy, Penalised, Bounded, SameKind
<1>8. /\ DOMAIN c.fd = File /\ DOMAIN c.disk = File /\ Cached(c) \in SUBSET File
      /\ Range(q) \subseteq File
  BY DEF Policy, PlacesOf, Cached, Range
<1>9. /\ PinsKept(c, d, f) /\ Evicts(c, d, f, Cached(c), Cached(d))
      /\ f \in Cached(d) /\ Cached(d) \subseteq Cached(c) \cup {f}
  <2>1. Insertion(c, d, f, Cached(c), Cached(d))
    BY <1>1, <1>4, <1>6 DEF PutResult, Insertion
  <2> QED
    BY <1>8, <2>1, InsertionMeans
<1>10. Evicts(c, d, f, Cached_Fifo(c), Cached_Fifo(d))
  BY <1>5, <1>9 DEF Evicts, Cached_Fifo
<1>11. PlacesOf(d, W)
  <2>1. \A g \in File \ Cached(c) : d.cost[g] = c.cost[g]
    BY <1>1, <1>4 DEF PutResult
  <2>2. d.class = c.class
    BY <1>3, <1>4 DEF SameKind
  <2> QED
    BY <1>4, <1>5, <1>8, <1>9, <2>1, <2>2 DEF PlacesOf
<1> QED
  BY <1>3, <1>4, <1>7, <1>9, <1>10, <1>11 DEF Placement, SameKind, d

(* A file that no client has requested yet joins the queue.                *)
LEMMA AddedToQueue ==
    ASSUME NEW c, NEW f \in File, NEW W, Policy(c), PlacesOf(c, W), f \notin Cached(c), f \notin W,
           f \notin Range(c.fifo.queue),
           c.class \in PartitionAware => c.cost[f] = FullCost(f)
    PROVE  Placement(c, fifoQueueAdd(c, f), f, W)
<1> DEFINE q == c.fifo.queue
           i == Victim(c, q)
           v == q[i]
           d == fifoQueueAdd(c, f)
<1>1. /\ DOMAIN c = CacheFields /\ DOMAIN c.fd = File /\ DOMAIN c.disk = File
      /\ DOMAIN c.fifo = {"queue", "capacity"} /\ c.fifo.capacity \in Nat
      /\ c.cost \in [File -> Nat]
      /\ q \in Seq(File) /\ IsInjective(q) /\ Cached(c) \in SUBSET File
  BY DEF Policy, PlacesOf, Cached, Range
<1>2. Range(q) \subseteq File
  BY <1>1 DEF Range
<1>3. \/ /\ d.fifo.queue = Append(q, f) /\ d.fd = c.fd /\ d.disk = c.disk /\ d.cost = c.cost
         /\ Framed(c, [d EXCEPT !.fifo = c.fifo]) /\ DOMAIN d = CacheFields
         /\ d.bcl = c.bcl /\ d.lru = c.lru /\ DOMAIN d.fifo = {"queue", "capacity"} /\ d.fifo.capacity \in Nat
      \/ /\ i \in 1 .. Len(q) /\ v \in File /\ v \in Range(q) /\ Evictable(c.fd[v])
         /\ d.fifo.queue = Append(RemoveAt(q, i), f) /\ Removed(c, d, v)
         /\ d.cost = [c.cost EXCEPT ![v] = 0]
         /\ Framed(c, [d EXCEPT !.fifo = c.fifo]) /\ DOMAIN d = CacheFields
         /\ d.bcl = c.bcl /\ d.lru = c.lru /\ DOMAIN d.fifo = {"queue", "capacity"} /\ d.fifo.capacity \in Nat
  <2> HIDE DEF d
  <2>1. CASE d = [c EXCEPT !.fifo.queue = Append(@, f)]
    BY <1>1, <2>1 DEF CacheFields, Framed, SameKind
  <2>2. CASE d = [c EXCEPT !.fifo.queue = Append(@, f), !.fifo.capacity = @ + 1]
    <3> DEFINE e == [c EXCEPT !.fifo.queue = Append(@, f)]
    <3>1. d = [e EXCEPT !.fifo.capacity = @ + 1]
      BY <2>2
    <3>2. /\ e.fifo.queue = Append(q, f) /\ Framed(c, [e EXCEPT !.fifo = c.fifo])
          /\ DOMAIN e = CacheFields /\ DOMAIN e.fifo = {"queue", "capacity"}
          /\ e.fifo.capacity \in Nat /\ SameKind(c, e) /\ e.waiting = c.waiting /\ e.lirs = c.lirs
          /\ e.fd = c.fd /\ e.disk = c.disk /\ e.cost = c.cost /\ e.bcl = c.bcl /\ e.lru = c.lru
      BY <1>1 DEF CacheFields, Framed, SameKind
    <3> HIDE DEF e
    <3>3. /\ d.fifo.queue = Append(q, f) /\ DOMAIN d = CacheFields
          /\ DOMAIN d.fifo = {"queue", "capacity"} /\ d.fifo.capacity \in Nat
          /\ SameKind(c, d) /\ d.waiting = c.waiting /\ d.lirs = c.lirs
          /\ d.fd = c.fd /\ d.disk = c.disk /\ d.cost = c.cost /\ d.bcl = c.bcl /\ d.lru = c.lru
      BY <3>1, <3>2 DEF CacheFields, SameKind
    <3>4. Framed(c, [d EXCEPT !.fifo = c.fifo])
      BY <3>3 DEF CacheFields, Framed, SameKind
    <3> QED
      BY <3>3, <3>4
  <2>3. CASE /\ i # 0
             /\ d = [removeFile(c, v) EXCEPT !.fifo.queue = Append(RemoveAt(@, i), f)]
    <3> DEFINE e == removeFile(c, v)
    <3>1. i \in 1 .. Len(q) /\ v \in File /\ v \in Range(q) /\ Evictable(c.fd[v])
      <4>1. i \in 0 .. Len(q) /\ (i # 0 => v \in File /\ v \in Range(q) /\ Evictable(c.fd[v]))
        BY <1>1, VictimProperty
      <4>2. Len(q) \in Nat
        BY <1>1
      <4> HIDE DEF i, v
      <4> QED
        BY <2>3, <4>1, <4>2
    <3> HIDE DEF i, v
    <3>2. /\ DOMAIN e = CacheFields /\ Framed(c, e) /\ Removed(c, e, v) /\ e.fifo = c.fifo
          /\ e.cost = [c.cost EXCEPT ![v] = 0] /\ e.bcl = c.bcl /\ e.lru = c.lru
      BY <1>1 DEF removeFile, CacheFields, Framed, SameKind, Removed
    <3>3. d = [e EXCEPT !.fifo.queue = Append(RemoveAt(@, i), f)]
      BY <2>3
    <3> HIDE DEF e
    <3>4. /\ d.fifo.queue = Append(RemoveAt(q, i), f) /\ Removed(c, d, v)
          /\ d.cost = [c.cost EXCEPT ![v] = 0]
          /\ Framed(c, [d EXCEPT !.fifo = c.fifo]) /\ DOMAIN d = CacheFields
          /\ d.bcl = c.bcl /\ d.lru = c.lru /\ DOMAIN d.fifo = {"queue", "capacity"} /\ d.fifo.capacity \in Nat
      BY <1>1, <3>2, <3>3 DEF CacheFields, Framed, SameKind, Removed
    <3> QED
      BY <3>1, <3>4 DEF i, v
  <2>4. \/ d = [c EXCEPT !.fifo.queue = Append(@, f)]
        \/ d = [c EXCEPT !.fifo.queue = Append(@, f), !.fifo.capacity = @ + 1]
        \/ /\ i # 0
           /\ d = [removeFile(c, v) EXCEPT !.fifo.queue = Append(RemoveAt(@, i), f)]
    <3>1. d = CASE Len(q) < c.fifo.capacity -> [c EXCEPT !.fifo.queue = Append(@, f)]
                [] Len(q) >= c.fifo.capacity /\ i = 0 ->
                       [c EXCEPT !.fifo.queue = Append(@, f), !.fifo.capacity = @ + 1]
                [] OTHER -> [removeFile(c, v) EXCEPT !.fifo.queue = Append(RemoveAt(@, i), f)]
      BY Zenon DEF fifoQueueAdd, d
    <3>2. Len(q) \in Nat /\ c.fifo.capacity \in Nat
      BY <1>1
    <3> HIDE DEF i, v, q
    <3>3. Len(q) < c.fifo.capacity <=> ~(Len(q) >= c.fifo.capacity)
      BY <3>2
    <3>4. CASE Len(q) < c.fifo.capacity
      BY <3>1, <3>3, <3>4, Zenon
    <3>5. CASE Len(q) >= c.fifo.capacity /\ i = 0
      BY <3>1, <3>3, <3>5, Zenon
    <3>6. CASE Len(q) >= c.fifo.capacity /\ i # 0
      BY <3>1, <3>3, <3>6, Zenon
    <3> QED
      BY <3>3, <3>4, <3>5, <3>6
  <2> QED
    BY <2>1, <2>2, <2>3, <2>4
<1> HIDE DEF d, i, v
<1>4. DOMAIN d = CacheFields
  BY <1>3
<1>5. SameKind(c, d) /\ d.lirs = c.lirs /\ d.waiting = c.waiting
  <2> DEFINE e == [d EXCEPT !.fifo = c.fifo]
  <2>1. Framed(c, e)
    BY <1>3
  <2>2. SameKind(d, e) /\ e.lirs = d.lirs /\ e.waiting = d.waiting
    BY <1>4 DEF CacheFields, SameKind
  <2> HIDE DEF e
  <2> QED
    BY <2>1, <2>2 DEF Framed, SameKind
<1>6. d.bcl = c.bcl /\ d.lru = c.lru /\ DOMAIN d.fifo = {"queue", "capacity"} /\ Cached(d) = Cached(c)
      /\ d.fifo.capacity \in Nat
  BY <1>3 DEF Cached
<1>7. CASE d.fifo.queue = Append(q, f) /\ d.fd = c.fd /\ d.disk = c.disk /\ d.cost = c.cost
  <2>1. /\ d.fifo.queue \in Seq(File) /\ IsInjective(d.fifo.queue)
        /\ Range(d.fifo.queue) = Range(q) \cup {f}
    BY <1>1, <1>7, AppendKeepsInjective
  <2>2. Policy(d)
    BY <1>4, <1>5, <1>6, <1>7 DEF Policy, Penalised, Bounded, SameKind
  <2>3. PlacesOf(d, W)
    BY <1>5, <1>6, <1>7, <2>1 DEF PlacesOf, SameKind
  <2>4. PinsKept(c, d, f) /\ Evicts(c, d, f, Cached_Fifo(c), Cached_Fifo(d))
    BY <1>6, <1>7, <2>1 DEF PinsKept, Evicts, Cached_Fifo
  <2> QED
    BY <1>5, <2>2, <2>3, <2>4 DEF Placement, d
<1>8. CASE /\ i \in 1 .. Len(q) /\ v \in File /\ v \in Range(q) /\ Evictable(c.fd[v])
           /\ d.fifo.queue = Append(RemoveAt(q, i), f) /\ Removed(c, d, v)
           /\ d.cost = [c.cost EXCEPT ![v] = 0]
  <2>1. /\ d.fifo.queue \in Seq(File) /\ IsInjective(d.fifo.queue)
        /\ Range(d.fifo.queue) = (Range(q) \ {v}) \cup {f}
    BY <1>1, <1>8, EntryReplaced DEF v
  <2>2. /\ \A g \in File : Evictable(d.fd[g]) <=> Evictable(c.fd[g])
        /\ d.disk[v] = "absent"
    BY <1>1, <1>8, RemovedFile
  <2>3. d.cost \in [File -> Nat] /\ \A g \in File \ {v} : d.cost[g] = c.cost[g]
    BY <1>1, <1>8
  <2>4. v \notin Cached(c) /\ v \notin W /\ W \subseteq File /\ v # f
    BY <1>8 DEF PlacesOf
  <2>5. DOMAIN d.fd = File /\ DOMAIN d.disk = File
    BY <1>1, <1>8 DEF Removed
  <2>6. Policy(d)
    BY <1>1, <1>4, <1>5, <1>6, <2>3, <2>4, <2>5 DEF Policy, Penalised, Bounded, SameKind
  <2>7. PlacesOf(d, W)
    BY <1>2, <1>5, <1>6, <2>1, <2>3, <2>4 DEF PlacesOf, SameKind
  <2>8. PinsKept(c, d, f) /\ Evicts(c, d, f, Cached_Fifo(c), Cached_Fifo(d))
    BY <1>2, <1>6, <1>8, <2>1, <2>2, <2>4 DEF PinsKept, Evicts, Cached_Fifo
  <2> QED
    BY <1>5, <2>6, <2>7, <2>8 DEF Placement, d
<1> QED
  BY <1>3, <1>7, <1>8

(* A file that has become available takes one of the two places.           *)
LEMMA Placed ==
    ASSUME NEW c, NEW f \in File, NEW W, Policy(c), PlacesOf(c, W), f \notin Cached(c), f \notin W,
           f \notin Range(c.fifo.queue),
           c.class \in PartitionAware => c.cost[f] = FullCost(f)
    PROVE  Placement(c, place(c, f), f, W)
  BY MovedToCache, AddedToQueue DEF place

(* put of the wrapper: a file goes where its descriptor sends it.          *)
LEMMA FifoPutOutcome ==
    ASSUME NEW c, NEW f \in File, NEW fd, LRUInv(c)
    PROVE  LET d == put_Fifo(c, f, fd) IN Outcome(c, d, f, Cached_Fifo(c), Cached_Fifo(d))
<1> DEFINE d == put_Fifo(c, f, fd)
           a == describe(c, f, fd)
<1>1. CASE f \in Cached_Fifo(c) \cup c.waiting
  <2>1. d = c
    BY <1>1 DEF put_Fifo
  <2> QED
    BY <2>1 DEF Outcome, SameKind, PinsKept, Evicts
<1>2. CASE f \notin Cached_Fifo(c) \cup c.waiting
  <2>1. f \notin Cached(c) /\ f \notin c.waiting /\ f \notin Range(c.fifo.queue)
    BY <1>2 DEF Cached_Fifo
  <2>2. DOMAIN c = CacheFields /\ DOMAIN c.fd = File
    BY DEF LRUInv, Policy
  <2>3. Described(c, a, f, fd)
    BY <2>2, Describes
  <2>4. LRUInv(a) /\ a.cost[f] = FullCost(f) /\ Cached(a) = Cached(c)
    BY <2>1, <2>3, DescribedKeeps
  <2>5. /\ DOMAIN a = CacheFields /\ SameKind(c, a) /\ a.lirs = c.lirs /\ a.fifo = c.fifo
        /\ a.waiting = c.waiting
        /\ a.disk = c.disk /\ \A g \in File \ {f} : a.fd[g] = c.fd[g]
    BY <2>2, <2>3 DEF Described, Framed
  <2>6. Cached_Fifo(a) = Cached_Fifo(c) /\ Cached_Fifo(c) \subseteq File
    <3>1. c.lru \in Seq(File) /\ c.fifo.queue \in Seq(File)
      BY DEF LRUInv, Places, PlacesOf, Policy
    <3>2. Cached(c) \subseteq File /\ Range(c.fifo.queue) \subseteq File
      BY <3>1 DEF Cached, Range
    <3> QED
      BY <2>4, <2>5, <3>2 DEF Cached_Fifo
  <2>7. CASE fd.file_available
    <3>1. d = place(a, f)
      BY <1>2, <2>7 DEF put_Fifo
    <3>2. Placement(a, d, f, a.waiting)
      BY <2>1, <2>4, <2>5, <3>1, Placed DEF LRUInv, Places
    <3> HIDE DEF a, d
    <3>3. PinsKept(c, d, f) /\ Evicts(c, d, f, Cached_Fifo(c), Cached_Fifo(d))
      BY <1>2, <2>5, <2>6, <3>2 DEF Placement, PinsKept, Evicts
    <3>4. LRUInv(d)
      BY <3>2 DEF Placement, LRUInv, Places
    <3> QED
      BY <2>5, <3>2, <3>3, <3>4 DEF Placement, Outcome, SameKind, d
  <2>8. CASE ~fd.file_available
    <3>1. d = [a EXCEPT !.waiting = @ \cup {f}]
      BY <1>2, <2>8 DEF put_Fifo
    <3> HIDE DEF a, d
    <3>2. /\ DOMAIN d = CacheFields /\ SameKind(a, d) /\ d.lirs = a.lirs /\ d.fifo = a.fifo
          /\ d.waiting = a.waiting \cup {f} /\ d.fd = a.fd /\ d.disk = a.disk
          /\ d.cost = a.cost /\ d.bcl = a.bcl /\ d.lru = a.lru
      BY <2>5, <3>1 DEF CacheFields, SameKind
    <3>3. Cached(d) = Cached(a)
      BY <3>2 DEF Cached
    <3>4. Policy(d)
      BY <2>4, <3>2, <3>3 DEF LRUInv, Policy, Penalised, Bounded, SameKind
    <3>5. Places(d)
      BY <2>1, <2>4, <2>5, <3>2, <3>3 DEF LRUInv, Places, PlacesOf, SameKind
    <3>6. Cached_Fifo(d) = Cached_Fifo(c)
      BY <2>6, <3>2, <3>3 DEF Cached_Fifo
    <3>7. PinsKept(c, d, f) /\ Evicts(c, d, f, Cached_Fifo(c), Cached_Fifo(d))
      BY <2>5, <3>2, <3>6 DEF PinsKept, Evicts
    <3> QED
      BY <2>5, <3>2, <3>4, <3>5, <3>7 DEF LRUInv, Outcome, SameKind, d
  <2> QED
    BY <2>7, <2>8
<1> QED
  BY <1>1, <1>2

(* refresh of the wrapper.                                                 *)
LEMMA FifoRefreshOutcome ==
    ASSUME NEW c, NEW f \in File, LRUInv(c)
    PROVE  LET d == refresh_Fifo(c, f) IN Outcome(c, d, f, Cached_Fifo(c), Cached_Fifo(d))
<1> DEFINE d == refresh_Fifo(c, f)
           Queued == f \in Range(c.fifo.queue) /\ c.disk[f] # "absent"
           Ready == f \in c.waiting /\ c.fd[f].file_available /\ c.disk[f] # "absent"
<1>1. /\ Policy(c) /\ PlacesOf(c, c.waiting) /\ DOMAIN c = CacheFields
      /\ f \in Cached(c) => ~Queued /\ ~Ready
      /\ Queued => ~Ready
  BY DEF LRUInv, Places, PlacesOf, Policy
<1>2. d = CASE f \in Cached(c) -> refresh_LRUBased(c, f)
            [] Queued -> IF f \in c.requested THEN moveToCache(c, f)
                         ELSE [c EXCEPT !.fifo.queue = ToMru(@, f)]
            [] Ready -> [place(c, f) EXCEPT !.waiting = @ \ {f}]
            [] OTHER -> c
  BY Zenon DEF refresh_Fifo
<1>3. CASE f \in Cached(c)
  <2> HIDE DEF Queued, Ready
  <2>1. d = refresh_LRUBased(c, f)
    BY <1>1, <1>2, <1>3, Zenon
  <2>2. LRUOutcome(c, d, f)
    BY <2>1, LRUBasedRefresh
  <2> QED
    BY <2>2, LRUOutcomeMeans
<1>4. CASE Queued /\ f \in c.requested
  <2>1. d = moveToCache(c, f)
    <3> HIDE DEF Queued, Ready
    <3> QED
      BY <1>1, <1>2, <1>4, Zenon
  <2>2. Placement(c, d, f, c.waiting)
    <3>1. f \notin Cached(c) /\ f \notin c.waiting
          /\ (c.class \in PartitionAware => c.cost[f] = FullCost(f))
      BY <1>1, <1>4 DEF PlacesOf
    <3> QED
      BY <1>1, <2>1, <3>1, MovedToCache
  <2> QED
    BY <2>2 DEF Placement, Outcome, LRUInv, Places
<1>5. CASE Queued /\ f \notin c.requested
  <2>1. d = [c EXCEPT !.fifo.queue = ToMru(@, f)]
    <3> HIDE DEF Queued, Ready
    <3> QED
      BY <1>1, <1>2, <1>5, Zenon
  <2> HIDE DEF d
  <2>2. DOMAIN c.fifo = {"queue", "capacity"}
    BY <1>1 DEF PlacesOf
  <2>3. /\ DOMAIN d = CacheFields /\ SameKind(c, d) /\ d.lirs = c.lirs
        /\ d.waiting = c.waiting /\ d.fd = c.fd /\ d.disk = c.disk
        /\ d.cost = c.cost /\ d.bcl = c.bcl /\ d.lru = c.lru
        /\ DOMAIN d.fifo = {"queue", "capacity"} /\ d.fifo.queue = ToMru(c.fifo.queue, f)
        /\ d.fifo.capacity = c.fifo.capacity
    BY <1>1, <2>1, <2>2 DEF CacheFields, SameKind
  <2>4. /\ d.fifo.queue \in Seq(File) /\ IsInjective(d.fifo.queue)
        /\ Range(d.fifo.queue) = Range(c.fifo.queue)
    <3>1. c.fifo.queue \in Seq(File) /\ IsInjective(c.fifo.queue)
      BY <1>1 DEF PlacesOf
    <3>2. /\ ToMru(c.fifo.queue, f) \in Seq(File) /\ IsInjective(ToMru(c.fifo.queue, f))
          /\ Range(ToMru(c.fifo.queue, f)) = Range(c.fifo.queue) \cup {f}
      BY <3>1, ToMruProperties
    <3> QED
      BY <1>5, <2>3, <3>2
  <2>5. Cached(d) = Cached(c) /\ Cached_Fifo(d) = Cached_Fifo(c)
    BY <2>3, <2>4 DEF Cached, Cached_Fifo
  <2>6. Policy(d)
    BY <1>1, <2>3, <2>5 DEF Policy, Penalised, Bounded, SameKind
  <2>7. Places(d)
    BY <1>1, <2>3, <2>4, <2>5 DEF Places, PlacesOf, SameKind
  <2> QED
    BY <2>3, <2>5, <2>6, <2>7 DEF Outcome, LRUInv, PinsKept, Evicts, d
<1>6. CASE Ready
  <2> DEFINE W == c.waiting \ {f}
             e == place(c, f)
  <2>1. d = [e EXCEPT !.waiting = @ \ {f}] /\ ~Queued /\ f \notin Cached(c)
    <3> HIDE DEF Queued, Ready
    <3> QED
      BY <1>1, <1>2, <1>6, Zenon
  <2>2. /\ f \notin Range(c.fifo.queue) /\ PlacesOf(c, W) /\ f \notin W
        /\ (c.class \in PartitionAware => c.cost[f] = FullCost(f))
    BY <1>1, <1>6 DEF PlacesOf
  <2>3. Placement(c, e, f, W)
    <3> HIDE DEF W
    <3> QED
      BY <1>1, <2>1, <2>2, Placed
  <2> HIDE DEF e, d
  <2>4. DOMAIN e = CacheFields /\ e.waiting = c.waiting
    BY <2>3 DEF Placement, Policy
  <2>5. /\ DOMAIN d = CacheFields /\ SameKind(e, d) /\ d.lirs = e.lirs /\ d.fifo = e.fifo
        /\ d.waiting = W /\ d.fd = e.fd /\ d.disk = e.disk
        /\ d.cost = e.cost /\ d.bcl = e.bcl /\ d.lru = e.lru
    BY <2>1, <2>4 DEF CacheFields, SameKind
  <2> HIDE DEF W
  <2>6. Cached(d) = Cached(e) /\ Cached_Fifo(d) = Cached_Fifo(e)
    BY <2>5 DEF Cached, Cached_Fifo
  <2>7. Policy(d)
    BY <2>3, <2>5, <2>6 DEF Placement, Policy, Penalised, Bounded, SameKind
  <2>8. Places(d)
    BY <2>3, <2>5, <2>6 DEF Placement, Places, PlacesOf, SameKind
  <2>9. PinsKept(c, d, f) /\ Evicts(c, d, f, Cached_Fifo(c), Cached_Fifo(d))
    BY <2>3, <2>5, <2>6 DEF Placement, PinsKept, Evicts
  <2> QED
    BY <2>3, <2>5, <2>7, <2>8, <2>9 DEF Placement, SameKind, Outcome, LRUInv, d
<1>7. CASE f \notin Cached(c) /\ ~Queued /\ ~Ready
  <2>1. d = c
    <3> HIDE DEF Queued, Ready
    <3> QED
      BY <1>2, <1>7, Zenon
  <2> QED
    BY <2>1 DEF Outcome, SameKind, PinsKept, Evicts
<1> QED
  BY <1>3, <1>4, <1>5, <1>6, <1>7

-----------------------------------------------------------------------------
\* A put and a refresh, in LIRS.

LirsShape(c) == LirsCache(c, {}) /\ DOMAIN c.fd = File /\ DOMAIN c.disk = File

LirsOutcome(c, d, f) ==
    /\ LirsShape(d) /\ SameKind(c, d) /\ PinsKept(c, d, f)
    /\ Evicts(c, d, f, Cached_LIRS(c), Cached_LIRS(d))
    /\ Fits(c, f, Cached_LIRS(c), Cached_LIRS(d))

(* A call that changes no file keeps the promises.                         *)
LEMMA SameFiles ==
    ASSUME NEW c, NEW d, NEW f \in File, LirsShape(c), LirsCache(d, {}), SameKind(c, d),
           DOMAIN d.fd = File, d.disk = c.disk,
           \A g \in File \ {f} : d.fd[g] = c.fd[g], Cached_LIRS(d) = Cached_LIRS(c)
    PROVE  LirsOutcome(c, d, f)
  BY DEF LirsOutcome, LirsShape, PinsKept, Evicts, Fits

(* What an insertion into LIRS does to the other files.                    *)
LEMMA LirsPutMeans ==
    ASSUME NEW c, NEW d, NEW f \in File, LirsShape(c), LirsCache(d, {}), SameKind(c, d),
           LirsPut(c, d, f), f \notin Cached_LIRS(c)
    PROVE  LirsOutcome(c, d, f) /\ AllPinsKept(c, d)
<1>1. DOMAIN c.fd = File /\ DOMAIN c.disk = File /\ Cached_LIRS(c) \in SUBSET File
  BY DEF LirsShape, Cached_LIRS
<1>2. CASE d.fd = c.fd /\ d.disk = c.disk /\ Cached_LIRS(d) = Cached_LIRS(c)
  BY <1>1, <1>2, SameFiles DEF AllPinsKept
<1>3. CASE Insertion(c, d, f, Cached_LIRS(c), Cached_LIRS(d))
  <2>1. DOMAIN d.fd = File /\ DOMAIN d.disk = File
    BY <1>1, <1>3 DEF Insertion
  <2>2. /\ PinsKept(c, d, f) /\ Evicts(c, d, f, Cached_LIRS(c), Cached_LIRS(d))
        /\ Fits(c, f, Cached_LIRS(c), Cached_LIRS(d)) /\ AllPinsKept(c, d)
    BY <1>1, <1>3, InsertionMeans
  <2> QED
    BY <2>1, <2>2 DEF LirsOutcome, LirsShape
<1> QED
  BY <1>2, <1>3 DEF LirsPut

(* What was done to the cache with f's descriptor was done to the cache.   *)
LEMMA LirsAfterDescription ==
    ASSUME NEW c, NEW a, NEW d, NEW f \in File, LirsShape(c), SameKind(c, a),
           a.disk = c.disk, \A g \in File \ {f} : a.fd[g] = c.fd[g],
           Cached_LIRS(a) = Cached_LIRS(c), f \notin Cached_LIRS(c), LirsOutcome(a, d, f)
    PROVE  LirsOutcome(c, d, f)
<1>1. Cached_LIRS(c) \subseteq File
  BY DEF Cached_LIRS
<1>2. \A g \in Cached_LIRS(c) : Evictable(a.fd[g]) <=> Evictable(c.fd[g])
  BY <1>1
<1>3. {g \in Cached_LIRS(c) : Evictable(a.fd[g])} = {g \in Cached_LIRS(c) : Evictable(c.fd[g])}
  BY <1>2
<1>4. PinsKept(c, d, f)
  BY DEF LirsOutcome, PinsKept
<1>5. Evicts(c, d, f, Cached_LIRS(c), Cached_LIRS(d))
  BY <1>2 DEF LirsOutcome, Evicts
<1>6. Fits(c, f, Cached_LIRS(c), Cached_LIRS(d))
  BY <1>2, <1>3 DEF LirsOutcome, Fits
<1> QED
  BY <1>4, <1>5, <1>6 DEF LirsOutcome, SameKind

(* put of LIRS; a file that is not available only waits.                   *)
LEMMA LirsPutOutcome ==
    ASSUME NEW c, NEW f \in File, NEW fd, LirsShape(c), ~c.lirs.exited
    PROVE  LET d == put_LIRS(c, f, fd)
           IN  /\ LirsOutcome(c, d, f)
               /\ d = c \/ (Evictable(d.fd[f]) <=> Evictable(fd))
               /\ fd.file_available \/ Cached_LIRS(d) = Cached_LIRS(c)
<1> DEFINE d == put_LIRS(c, f, fd)
           a == describe(c, f, fd)
<1>1. DOMAIN c = CacheFields /\ DOMAIN c.fd = File /\ DOMAIN c.disk = File
  BY DEF LirsShape, LirsCache
<1>2. CASE f \in Cached_LIRS(c) \cup c.waiting
  <2>1. d = c
    BY <1>2 DEF put_LIRS
  <2> QED
    BY <1>1, <2>1, SameFiles DEF LirsShape, SameKind
<1>3. CASE f \notin Cached_LIRS(c) \cup c.waiting
  <2>1. Described(c, a, f, fd)
    BY <1>1, Describes
  <2>2. /\ DOMAIN a = CacheFields /\ SameKind(c, a) /\ a.lirs = c.lirs /\ a.disk = c.disk
        /\ DOMAIN a.fd = File /\ a.fd[f] = fd /\ \A g \in File \ {f} : a.fd[g] = c.fd[g]
    BY <1>1, <2>1 DEF Described, Framed
  <2>3. LirsShape(a) /\ Cached_LIRS(a) = Cached_LIRS(c) /\ ~a.lirs.exited
    BY <1>1, <2>2 DEF LirsShape, LirsCache, Cached_LIRS
  <2>4. CASE fd.file_available
    <3>1. d = actualPut_LIRS(a, f)
      BY <1>3, <2>4 DEF put_LIRS
    <3> HIDE DEF a
    <3>2. LirsCache(d, {}) /\ SameKind(a, d) /\ LirsPut(a, d, f)
      BY <1>3, <2>3, <3>1, PutKeepsQueues DEF LirsShape
    <3> HIDE DEF d
    <3>3. LirsOutcome(a, d, f) /\ AllPinsKept(a, d)
      BY <1>3, <2>3, <3>2, LirsPutMeans
    <3>4. LirsOutcome(c, d, f)
      BY <1>3, <2>2, <2>3, <3>3, LirsAfterDescription
    <3>5. Evictable(d.fd[f]) <=> Evictable(fd)
      BY <2>2, <3>3 DEF AllPinsKept
    <3> QED
      BY <2>4, <3>4, <3>5 DEF d
  <2>5. CASE ~fd.file_available
    <3>1. d = [a EXCEPT !.waiting = @ \cup {f}]
      BY <1>3, <2>5 DEF put_LIRS
    <3> HIDE DEF a, d
    <3>2. /\ DOMAIN d = CacheFields /\ SameKind(a, d) /\ d.lirs = a.lirs /\ d.disk = a.disk
          /\ d.fd = a.fd
      BY <2>2, <3>1 DEF CacheFields, SameKind
    <3>3. LirsCache(d, {}) /\ Cached_LIRS(d) = Cached_LIRS(c)
      BY <2>2, <2>3, <3>2 DEF LirsShape, LirsCache, Cached_LIRS
    <3>4. LirsOutcome(c, d, f)
      BY <2>2, <3>2, <3>3, SameFiles DEF SameKind
    <3> QED
      BY <2>2, <3>2, <3>3, <3>4 DEF d
  <2> QED
    BY <2>4, <2>5
<1> QED
  BY <1>2, <1>3

(* A refresh in LIRS.                                                      *)
LEMMA LirsRefreshOutcome ==
    ASSUME NEW c, NEW f \in File, LirsShape(c), ~c.lirs.exited
    PROVE  LirsOutcome(c, refresh_LIRS(c, f), f)
<1> DEFINE d == refresh_LIRS(c, f)
<1>1. DOMAIN c = CacheFields /\ DOMAIN c.fd = File /\ DOMAIN c.disk = File
  BY DEF LirsShape, LirsCache
<1>2. CASE f \in Cached_LIRS(c) /\ f \notin c.waiting /\ c.fd[f].file_available
  <2>1. d = actualRefresh(c, f)
    BY <1>2 DEF refresh_LIRS
  <2> HIDE DEF d
  <2>2. LirsCache(d, {}) /\ SameKind(c, d) /\ Admits(c, d, f)
    BY <1>2, <2>1, RefreshKeepsQueues DEF LirsShape
  <2>3. Cached_LIRS(d) = Cached_LIRS(c)
    BY <1>2, <2>2 DEF Admits
  <2> QED
    BY <1>1, <2>2, <2>3, SameFiles DEF Admits, d
<1>3. CASE f \notin Cached_LIRS(c) /\ f \in c.waiting /\ c.fd[f].file_available
           /\ c.disk[f] # "absent"
  <2> DEFINE e == actualPut_LIRS(c, f)
  <2>1. d = [e EXCEPT !.waiting = @ \ {f}]
    BY <1>3 DEF refresh_LIRS
  <2>2. LirsCache(e, {}) /\ SameKind(c, e) /\ LirsPut(c, e, f)
    BY <1>3, PutKeepsQueues DEF LirsShape
  <2> HIDE DEF d, e
  <2>3. DOMAIN e = CacheFields
    BY <2>2 DEF LirsCache
  <2>4. /\ DOMAIN d = CacheFields /\ SameKind(e, d) /\ d.lirs = e.lirs /\ d.disk = e.disk
        /\ d.fd = e.fd
    BY <2>1, <2>3 DEF CacheFields, SameKind
  <2>5. LirsCache(d, {}) /\ SameKind(c, d) /\ Cached_LIRS(d) = Cached_LIRS(e)
    BY <2>2, <2>4 DEF LirsCache, SameKind, Cached_LIRS
  <2>6. LirsPut(c, d, f)
    BY <2>2, <2>4, <2>5 DEF LirsPut, Insertion
  <2> QED
    BY <1>3, <2>5, <2>6, LirsPutMeans DEF d
<1>4. CASE /\ ~(f \in Cached_LIRS(c) /\ f \notin c.waiting /\ c.fd[f].file_available)
           /\ ~(f \notin Cached_LIRS(c) /\ f \in c.waiting /\ c.fd[f].file_available
                /\ c.disk[f] # "absent")
  <2>1. d = c
    BY <1>4 DEF refresh_LIRS
  <2> QED
    BY <1>1, <2>1, SameFiles DEF LirsShape, SameKind
<1> QED
  BY <1>2, <1>3, <1>4

-----------------------------------------------------------------------------
\* The lists of ARC, and a put and a refresh there.

ArcFields == {"T1", "T2", "B1", "B2", "p", "ghost"}

Lists(a) ==
    /\ a.T1 \in Seq(File) /\ a.T2 \in Seq(File) /\ a.B1 \in Seq(File) /\ a.B2 \in Seq(File)

ArcShape(c) ==
    /\ DOMAIN c = CacheFields /\ DOMAIN c.arc = ArcFields /\ Lists(c.arc)
    /\ c.arc.ghost \in [File -> {"Regular", "B1", "B2"}]
    /\ DOMAIN c.fd = File /\ DOMAIN c.disk = File

\* What a removal from a list leaves in it, entered once or more often.
LEMMA WithoutKeeps ==
    ASSUME NEW s \in Seq(File), NEW f
    PROVE  /\ without(s, f) \in Seq(File)
           /\ Range(s) \ {f} \subseteq Range(without(s, f))
<1>1. CASE f \notin Range(s)
  BY <1>1 DEF without
<1>2. CASE f \in Range(s)
  <2> DEFINE i == CHOOSE j \in DOMAIN s : s[j] = f
             r == RemoveAt(s, i)
  <2>1. i \in 1 .. Len(s) /\ s[i] = f
    <3>1. \E j \in DOMAIN s : s[j] = f
      BY <1>2 DEF Range
    <3>2. i \in DOMAIN s /\ s[i] = f
      BY <3>1
    <3>3. DOMAIN s = 1 .. Len(s)
      OBVIOUS
    <3> QED
      BY <3>2, <3>3
  <2>2. without(s, f) = r
    BY <1>2, Zenon DEF without
  <2> HIDE DEF i
  <2>3. /\ r \in Seq(File) /\ Len(r) = Len(s) - 1
        /\ \A j \in 1 .. Len(s) - 1 : r[j] = IF j < i THEN s[j] ELSE s[j + 1]
    BY <2>1, RemoveAtProperties
  <2> HIDE DEF r
  <2>4. Len(s) \in Nat
    OBVIOUS
  <2>5. ASSUME NEW j \in 1 .. Len(s), s[j] # f PROVE s[j] \in Range(r)
    <3>1. CASE j < i
      <4>1. j \in 1 .. Len(r) /\ r[j] = s[j]
        BY <2>1, <2>3, <2>4, <3>1
      <4> QED
        BY <2>3, <4>1 DEF Range
    <3>2. CASE j > i
      <4>1. j - 1 \in 1 .. Len(r) /\ r[j - 1] = s[j]
        BY <2>1, <2>3, <2>4, <3>2
      <4> QED
        BY <2>3, <4>1 DEF Range
    <3>3. j # i
      BY <2>1, <2>5
    <3> QED
      BY <2>1, <2>4, <3>1, <3>2, <3>3
  <2> QED
    BY <2>2, <2>3, <2>5 DEF Range
<1> QED
  BY <1>1, <1>2

(* What joins a list is in it, and what was in it stays.                   *)
LEMMA AppendKeeps ==
    ASSUME NEW s \in Seq(File), NEW f \in File
    PROVE  Append(s, f) \in Seq(File) /\ Range(Append(s, f)) = Range(s) \cup {f}
<1> DEFINE r == Append(s, f)
<1>1. /\ r \in Seq(File) /\ Len(r) = Len(s) + 1 /\ Len(s) \in Nat /\ r[Len(s) + 1] = f
      /\ \A i \in 1 .. Len(s) : r[i] = s[i]
  OBVIOUS
<1> HIDE DEF r
<1>2. Range(s) \cup {f} \subseteq Range(r)
  <2>1. ASSUME NEW i \in 1 .. Len(s) PROVE s[i] \in Range(r)
    BY <1>1 DEF Range
  <2>2. f \in Range(r)
    BY <1>1 DEF Range
  <2> QED
    BY <2>1, <2>2 DEF Range
<1>3. Range(r) \subseteq Range(s) \cup {f}
  <2>1. ASSUME NEW i \in 1 .. Len(r) PROVE r[i] \in Range(s) \cup {f}
    <3>1. i \in 1 .. Len(s) \/ i = Len(s) + 1
      BY <1>1
    <3> QED
      BY <1>1, <3>1 DEF Range
  <2> QED
    BY <1>1, <2>1 DEF Range
<1> QED
  BY <1>1, <1>2, <1>3 DEF r

\* d is c but for what ARC keeps for itself.
ArcStep(c, d) ==
    /\ ArcShape(d) /\ SameKind(c, d) /\ d.lirs = c.lirs

\* The files of the cache stay, but for one that was not in use, at most.
Spares(c, d) ==
    \/ /\ d.fd = c.fd /\ d.disk = c.disk
       /\ Cached_ARC(c) \subseteq Cached_ARC(d)
    \/ \E v \in File : /\ Evictable(c.fd[v]) /\ Removed(c, d, v)
                       /\ Cached_ARC(c) \ {v} \subseteq Cached_ARC(d)

\* A file that enters a list leaves the others.
LEMMA Enters ==
    ASSUME NEW c, NEW f \in File, NEW list \in ArcList, ArcShape(c)
    PROVE  LET d == enter(c, f, list)
           IN  /\ ArcStep(c, d) /\ d.fd = c.fd /\ d.disk = c.disk
               /\ Cached_ARC(c) \ {f} \subseteq Cached_ARC(d)
               /\ list \in {"T1", "T2"} => f \in Cached_ARC(d)
<1> DEFINE a == c.arc
           e == [a EXCEPT !.ghost[f] = "Regular",
                          !.T1 = without(@, f), !.T2 = without(@, f),
                          !.B1 = without(@, f), !.B2 = without(@, f)]
           d == enter(c, f, list)
           x == [e EXCEPT ![list] = Append(@, f)]
<1>1. d = [c EXCEPT !.waiting = @ \ {f}, !.arc = x]
  BY DEF enter
<1>2. /\ DOMAIN c = CacheFields /\ DOMAIN a = ArcFields /\ Lists(a)
      /\ a.ghost \in [File -> {"Regular", "B1", "B2"}]
  BY DEF ArcShape
<1>8. /\ DOMAIN e = ArcFields
      /\ e.T1 = without(a.T1, f) /\ e.T2 = without(a.T2, f)
      /\ e.B1 = without(a.B1, f) /\ e.B2 = without(a.B2, f)
      /\ e.ghost = [a.ghost EXCEPT ![f] = "Regular"]
  BY <1>2 DEF ArcFields
<1> HIDE DEF e
<1>7. x = [e EXCEPT ![list] = Append(e[list], f)]
  OBVIOUS
<1> HIDE DEF d, x
<1>9. /\ DOMAIN d = CacheFields /\ SameKind(c, d) /\ d.lirs = c.lirs /\ d.fd = c.fd
      /\ d.disk = c.disk /\ d.arc = x
  BY <1>1, <1>2 DEF CacheFields, SameKind
<1>10. \A l \in ArcList :
          /\ e[l] \in Seq(File)
          /\ Range(a[l]) \ {f} \subseteq Range(e[l])
  <2>1. /\ a.T1 \in Seq(File) /\ a.T2 \in Seq(File) /\ a.B1 \in Seq(File) /\ a.B2 \in Seq(File)
    BY <1>2 DEF Lists
  <2> HIDE DEF a
  <2> QED
    BY <1>8, <2>1, WithoutKeeps DEF ArcList
<1>11. /\ DOMAIN d.arc = ArcFields /\ d.arc.ghost = e.ghost
       /\ d.arc[list] = Append(e[list], f)
       /\ \A l \in ArcList \ {list} : d.arc[l] = e[l]
  BY <1>7, <1>8, <1>9 DEF ArcFields, ArcList
<1>12. Append(e[list], f) \in Seq(File) /\ Range(Append(e[list], f)) = Range(e[list]) \cup {f}
  BY <1>10, AppendKeeps
<1>13. \A l \in ArcList : /\ d.arc[l] \in Seq(File)
                          /\ Range(a[l]) \ {f} \subseteq Range(d.arc[l])
  BY <1>10, <1>11, <1>12
<1>14. d.arc.ghost \in [File -> {"Regular", "B1", "B2"}]
  BY <1>2, <1>8, <1>11
<1>15. ArcStep(c, d)
  BY <1>9, <1>11, <1>13, <1>14 DEF ArcStep, ArcShape, Lists, ArcList
<1>16. Cached_ARC(c) \ {f} \subseteq Cached_ARC(d)
  BY <1>13 DEF Cached_ARC, ArcList
<1>17. list \in {"T1", "T2"} => f \in Cached_ARC(d)
  BY <1>11, <1>12 DEF Cached_ARC
<1> QED
  BY <1>9, <1>15, <1>16, <1>17 DEF d

(* The removal of a file from T1, or into B1 or B2.                        *)
LEMMA RemovedFromArc ==
    ASSUME NEW c, NEW v \in File, ArcShape(c)
    PROVE  LET e == removeFile(c, v)
           IN  /\ ArcStep(c, e) /\ Removed(c, e, v) /\ e.arc = c.arc /\ e.waiting = c.waiting
<1> DEFINE e == removeFile(c, v)
<1>1. DOMAIN c = CacheFields
  BY DEF ArcShape
<1>2. /\ DOMAIN e = CacheFields /\ SameKind(c, e) /\ e.lirs = c.lirs /\ e.arc = c.arc
      /\ e.waiting = c.waiting /\ Removed(c, e, v)
  BY <1>1 DEF removeFile, CacheFields, SameKind, Removed
<1> HIDE DEF e
<1> QED
  BY <1>2 DEF ArcStep, ArcShape, Removed, e

(* An eviction from one of the lists keeps the rest.                       *)
LEMMA EvictedInto ==
    ASSUME NEW c, NEW t \in {"T1", "T2"}, NEW b \in {"B1", "B2"}, ArcShape(c)
    PROVE  ArcStep(c, evictInto(c, t, b)) /\ Spares(c, evictInto(c, t, b))
<1> DEFINE i == Victim(c, c.arc[t])
           v == c.arc[t][i]
           d == evictInto(c, t, b)
<1>1. d = IF i = 0 THEN c ELSE enter(removeFile(c, v), v, b)
  BY DEF evictInto
<1>2. CASE i = 0
  BY <1>1, <1>2 DEF ArcStep, SameKind, Spares
<1>3. CASE i # 0
  <2>1. c.arc[t] \in Seq(File)
    BY DEF ArcShape, Lists
  <2>2. v \in File /\ Evictable(c.fd[v])
    BY <1>3, <2>1, VictimProperty
  <2> HIDE DEF v, i
  <2> DEFINE e == removeFile(c, v)
  <2>3. ArcStep(c, e) /\ Removed(c, e, v) /\ e.arc = c.arc
    BY <2>2, RemovedFromArc
  <2>4. d = enter(e, v, b)
    BY <1>1, <1>3
  <2> HIDE DEF e, d
  <2>5. /\ ArcStep(e, d) /\ d.fd = e.fd /\ d.disk = e.disk
        /\ Cached_ARC(e) \ {v} \subseteq Cached_ARC(d)
    BY <2>2, <2>3, <2>4, Enters DEF ArcStep, ArcList
  <2>6. Removed(c, d, v) /\ Cached_ARC(e) = Cached_ARC(c)
    BY <2>3, <2>5 DEF Removed, Cached_ARC
  <2>7. Spares(c, d)
    BY <2>2, <2>5, <2>6 DEF Spares
  <2> QED
    BY <2>3, <2>5, <2>7 DEF ArcStep, SameKind, d
<1> QED
  BY <1>2, <1>3

(* replace evicts one file at most, from the list it chooses.              *)
LEMMA Replaces ==
    ASSUME NEW c, NEW location, ArcShape(c)
    PROVE  ArcStep(c, replace(c, location)) /\ Spares(c, replace(c, location))
<1>1. replace(c, location) \in {evictInto(c, "T1", "B1"), evictInto(c, "T2", "B2")}
  BY DEF replace
<1> QED
  BY <1>1, EvictedInto

(* Whatever is done before an eviction without losing a file.              *)
LEMMA SparesOfSame ==
    ASSUME NEW c, NEW b, NEW d, b.fd = c.fd, b.disk = c.disk,
           Cached_ARC(c) \subseteq Cached_ARC(b), Spares(b, d)
    PROVE  Spares(c, d)
  BY DEF Spares, Removed

(* The name at the LRU position of a history list is forgotten.            *)
LEMMA Forgets ==
    ASSUME NEW c, ArcShape(c)
    PROVE  /\ c.arc.B1 # <<>> =>
                  LET d == [c EXCEPT !.arc.B1 = Tail(@)]
                  IN  ArcStep(c, d) /\ d.fd = c.fd /\ d.disk = c.disk /\ Cached_ARC(d) = Cached_ARC(c)
           /\ c.arc.B2 # <<>> =>
                  LET d == [c EXCEPT !.arc.B2 = Tail(@)]
                  IN  ArcStep(c, d) /\ d.fd = c.fd /\ d.disk = c.disk /\ Cached_ARC(d) = Cached_ARC(c)
<1>1. /\ DOMAIN c = CacheFields /\ DOMAIN c.arc = ArcFields /\ Lists(c.arc)
      /\ c.arc.ghost \in [File -> {"Regular", "B1", "B2"}]
      /\ DOMAIN c.fd = File /\ DOMAIN c.disk = File
  BY DEF ArcShape
<1>2. ASSUME c.arc.B1 # <<>>
      PROVE  LET d == [c EXCEPT !.arc.B1 = Tail(@)]
             IN  ArcStep(c, d) /\ d.fd = c.fd /\ d.disk = c.disk /\ Cached_ARC(d) = Cached_ARC(c)
  <2> DEFINE d == [c EXCEPT !.arc.B1 = Tail(@)]
             r == Tail(c.arc.B1)
  <2>1. r \in Seq(File)
    BY <1>1, <1>2 DEF Lists
  <2>2. d = [c EXCEPT !.arc.B1 = r]
    OBVIOUS
  <2> HIDE DEF d, r
  <2>3. /\ DOMAIN d = CacheFields /\ SameKind(c, d) /\ d.lirs = c.lirs /\ d.fd = c.fd
        /\ d.disk = c.disk /\ d.arc = [c.arc EXCEPT !.B1 = r]
    BY <1>1, <2>2 DEF CacheFields, SameKind
  <2>4. /\ DOMAIN d.arc = ArcFields /\ d.arc.B1 = r /\ d.arc.T1 = c.arc.T1 /\ d.arc.T2 = c.arc.T2
        /\ d.arc.B2 = c.arc.B2 /\ d.arc.ghost = c.arc.ghost
    BY <1>1, <2>3 DEF ArcFields
  <2> QED
    BY <1>1, <2>1, <2>3, <2>4 DEF ArcStep, ArcShape, Lists, Cached_ARC, d
<1>3. ASSUME c.arc.B2 # <<>>
      PROVE  LET d == [c EXCEPT !.arc.B2 = Tail(@)]
             IN  ArcStep(c, d) /\ d.fd = c.fd /\ d.disk = c.disk /\ Cached_ARC(d) = Cached_ARC(c)
  <2> DEFINE d == [c EXCEPT !.arc.B2 = Tail(@)]
             r == Tail(c.arc.B2)
  <2>1. r \in Seq(File)
    BY <1>1, <1>3 DEF Lists
  <2>2. d = [c EXCEPT !.arc.B2 = r]
    OBVIOUS
  <2> HIDE DEF d, r
  <2>3. /\ DOMAIN d = CacheFields /\ SameKind(c, d) /\ d.lirs = c.lirs /\ d.fd = c.fd
        /\ d.disk = c.disk /\ d.arc = [c.arc EXCEPT !.B2 = r]
    BY <1>1, <2>2 DEF CacheFields, SameKind
  <2>4. /\ DOMAIN d.arc = ArcFields /\ d.arc.B2 = r /\ d.arc.T1 = c.arc.T1 /\ d.arc.T2 = c.arc.T2
        /\ d.arc.B1 = c.arc.B1 /\ d.arc.ghost = c.arc.ghost
    BY <1>1, <2>3 DEF ArcFields
  <2> QED
    BY <1>1, <2>1, <2>3, <2>4 DEF ArcStep, ArcShape, Lists, Cached_ARC, d
<1> QED
  BY <1>2, <1>3

(* Room in L1, in one of its ways.                                         *)
LEMMA RoomInL1 ==
    ASSUME NEW c, NEW location, ArcShape(c)
    PROVE  ArcStep(c, makeRoomInL1(c, location)) /\ Spares(c, makeRoomInL1(c, location))
<1> DEFINE i == Victim(c, c.arc.T1)
           v == c.arc.T1[i]
           d == makeRoomInL1(c, location)
           b == [c EXCEPT !.arc.B1 = Tail(@)]
<1>1. d = IF Len(c.arc.T1) < capacity /\ c.arc.B1 # <<>>
          THEN replace(b, location)
          ELSE IF i = 0 THEN c
               ELSE [removeFile(c, v) EXCEPT !.arc.T1 = without(@, v)]
  BY DEF makeRoomInL1
<1> HIDE DEF d
<1>2. CASE Len(c.arc.T1) < capacity /\ c.arc.B1 # <<>>
  <2>1. d = replace(b, location)
    BY <1>1, <1>2
  <2>2. ArcStep(c, b) /\ b.fd = c.fd /\ b.disk = c.disk /\ Cached_ARC(b) = Cached_ARC(c)
    BY <1>2, Forgets
  <2> HIDE DEF b
  <2>3. ArcStep(b, d) /\ Spares(b, d)
    BY <2>1, <2>2, Replaces DEF ArcStep
  <2>4. Spares(c, d)
    BY <2>2, <2>3, SparesOfSame
  <2> QED
    BY <2>2, <2>3, <2>4 DEF ArcStep, SameKind, d
<1>3. CASE ~(Len(c.arc.T1) < capacity /\ c.arc.B1 # <<>>) /\ i = 0
  <2>1. d = c
    BY <1>1, <1>3
  <2> QED
    BY <2>1 DEF ArcStep, SameKind, Spares, d
<1>4. CASE ~(Len(c.arc.T1) < capacity /\ c.arc.B1 # <<>>) /\ i # 0
  <2>1. c.arc.T1 \in Seq(File)
    BY DEF ArcShape, Lists
  <2>2. v \in File /\ Evictable(c.fd[v])
    BY <1>4, <2>1, VictimProperty
  <2>3. d = [removeFile(c, v) EXCEPT !.arc.T1 = without(@, v)]
    BY <1>1, <1>4
  <2> HIDE DEF v, i
  <2> DEFINE e == removeFile(c, v)
             r == without(c.arc.T1, v)
  <2>4. ArcStep(c, e) /\ Removed(c, e, v) /\ e.arc = c.arc
    BY <2>2, RemovedFromArc
  <2>5. r \in Seq(File) /\ Range(c.arc.T1) \ {v} \subseteq Range(r)
    BY <2>1, WithoutKeeps
  <2>6. d = [e EXCEPT !.arc.T1 = r]
    BY <2>3, <2>4
  <2> HIDE DEF e, r
  <2>7. /\ DOMAIN e = CacheFields /\ DOMAIN e.arc = ArcFields
    BY <2>4 DEF ArcStep, ArcShape
  <2>8. /\ DOMAIN d = CacheFields /\ SameKind(e, d) /\ d.lirs = e.lirs /\ d.fd = e.fd
        /\ d.disk = e.disk /\ d.arc = [e.arc EXCEPT !.T1 = r]
    BY <2>6, <2>7 DEF CacheFields, SameKind
  <2>9. /\ DOMAIN d.arc = ArcFields /\ d.arc.T1 = r /\ d.arc.T2 = c.arc.T2
        /\ d.arc.B1 = c.arc.B1 /\ d.arc.B2 = c.arc.B2 /\ d.arc.ghost = c.arc.ghost
    BY <2>4, <2>7, <2>8 DEF ArcFields
  <2>10. ArcStep(c, d)
    BY <2>4, <2>5, <2>8, <2>9 DEF ArcStep, ArcShape, Lists, SameKind
  <2>11. Removed(c, d, v) /\ Cached_ARC(c) \ {v} \subseteq Cached_ARC(d)
    BY <2>4, <2>5, <2>8, <2>9 DEF Removed, Cached_ARC
  <2>12. Spares(c, d)
    BY <2>2, <2>11 DEF Spares
  <2> QED
    BY <2>10, <2>12 DEF d
<1> QED
  BY <1>2, <1>3, <1>4

\* f is cached in d, and the other files of c but for one at most.
ArcPlaced(c, d, f) == ArcStep(c, d) /\ Spares(c, d) /\ f \in Cached_ARC(d)

(* A file that enters after room was made is in the cache.                 *)
LEMMA PlacedAfterRoom ==
    ASSUME NEW c, NEW room, NEW f \in File, NEW list \in {"T1", "T2"}, ArcStep(c, room),
           Spares(c, room)
    PROVE  ArcPlaced(c, enter(room, f, list), f)
<1> DEFINE d == enter(room, f, list)
<1>1. /\ ArcStep(room, d) /\ d.fd = room.fd /\ d.disk = room.disk
      /\ Cached_ARC(room) \ {f} \subseteq Cached_ARC(d) /\ f \in Cached_ARC(d)
  BY Enters DEF ArcStep, ArcList
<1> HIDE DEF d
<1>2. Cached_ARC(room) \subseteq Cached_ARC(d)
  BY <1>1
<1>3. Spares(c, d)
  BY <1>1, <1>2 DEF Spares, Removed
<1>4. ArcStep(c, d)
  BY <1>1 DEF ArcStep, SameKind
<1> QED
  BY <1>1, <1>3, <1>4 DEF ArcPlaced, d

(* The miss of case IV.                                                    *)
LEMMA CaseIV ==
    ASSUME NEW c, NEW f \in File, NEW location, ArcShape(c)
    PROVE  ArcPlaced(c, handleCaseIV(c, f, location), f)
<1> DEFINE l1 == Len(c.arc.T1) + total_B1_size(c)
           everything == l1 + Len(c.arc.T2) + total_B2_size(c)
           b == [c EXCEPT !.arc.B2 = Tail(@)]
           forgotten == IF everything >= 2 * capacity /\ c.arc.B2 # <<>> THEN b ELSE c
           room == IF l1 >= capacity THEN makeRoomInL1(c, location)
                   ELSE IF everything >= capacity THEN replace(forgotten, location) ELSE c
<1>1. handleCaseIV(c, f, location) = enter(room, f, "T1")
  BY DEF handleCaseIV
<1>2. /\ ArcStep(c, forgotten) /\ forgotten.fd = c.fd /\ forgotten.disk = c.disk
      /\ Cached_ARC(forgotten) = Cached_ARC(c)
  <2>1. CASE everything >= 2 * capacity /\ c.arc.B2 # <<>>
    <3>1. ArcStep(c, b) /\ b.fd = c.fd /\ b.disk = c.disk /\ Cached_ARC(b) = Cached_ARC(c)
      BY <2>1, Forgets
    <3>2. forgotten = b
      BY <2>1
    <3> HIDE DEF b, forgotten
    <3> QED
      BY <3>1, <3>2
  <2>2. CASE ~(everything >= 2 * capacity /\ c.arc.B2 # <<>>)
    <3>1. forgotten = c
      BY <2>2
    <3> HIDE DEF forgotten
    <3> QED
      BY <3>1 DEF ArcStep, SameKind
  <2> QED
    BY <2>1, <2>2
<1> HIDE DEF forgotten
<1>3. ArcStep(c, replace(forgotten, location)) /\ Spares(c, replace(forgotten, location))
  <2> DEFINE r == replace(forgotten, location)
  <2>1. ArcStep(forgotten, r) /\ Spares(forgotten, r)
    BY <1>2, Replaces DEF ArcStep
  <2> HIDE DEF r
  <2>2. Spares(c, r)
    BY <1>2, <2>1, SparesOfSame
  <2> QED
    BY <1>2, <2>1, <2>2 DEF ArcStep, SameKind, r
<1>4. ArcStep(c, c) /\ Spares(c, c)
  BY DEF ArcStep, SameKind, Spares
<1>5. room \in {makeRoomInL1(c, location), replace(forgotten, location), c}
  BY Zenon
<1> HIDE DEF room
<1>6. ArcStep(c, room) /\ Spares(c, room)
  BY <1>3, <1>4, <1>5, RoomInL1
<1> QED
  BY <1>1, <1>6, PlacedAfterRoom

\* What handleUpdate does changes p and the waiting list at once.
LEMMA Unnoticed ==
    ASSUME NEW c, NEW n, NEW W, ArcShape(c)
    PROVE  /\ LET d == [c EXCEPT !.arc.p = n]
              IN  /\ ArcStep(c, d) /\ d.fd = c.fd /\ d.disk = c.disk
                  /\ Cached_ARC(d) = Cached_ARC(c)
           /\ LET d == [c EXCEPT !.waiting = W]
              IN  /\ ArcStep(c, d) /\ d.fd = c.fd /\ d.disk = c.disk
                  /\ Cached_ARC(d) = Cached_ARC(c)
<1>1. /\ DOMAIN c = CacheFields /\ DOMAIN c.arc = ArcFields /\ Lists(c.arc)
      /\ c.arc.ghost \in [File -> {"Regular", "B1", "B2"}]
      /\ DOMAIN c.fd = File /\ DOMAIN c.disk = File
  BY DEF ArcShape
<1>2. LET d == [c EXCEPT !.arc.p = n]
      IN  /\ ArcStep(c, d) /\ d.fd = c.fd /\ d.disk = c.disk /\ Cached_ARC(d) = Cached_ARC(c)
  <2> DEFINE d == [c EXCEPT !.arc.p = n]
  <2>1. /\ DOMAIN d = CacheFields /\ SameKind(c, d) /\ d.lirs = c.lirs /\ d.fd = c.fd
        /\ d.disk = c.disk /\ d.arc = [c.arc EXCEPT !.p = n]
    BY <1>1 DEF CacheFields, SameKind
  <2> HIDE DEF d
  <2>2. /\ DOMAIN d.arc = ArcFields /\ d.arc.T1 = c.arc.T1 /\ d.arc.T2 = c.arc.T2
        /\ d.arc.B1 = c.arc.B1 /\ d.arc.B2 = c.arc.B2 /\ d.arc.ghost = c.arc.ghost
    BY <1>1, <2>1 DEF ArcFields
  <2> QED
    BY <1>1, <2>1, <2>2 DEF ArcStep, ArcShape, Lists, Cached_ARC, d
<1>3. LET d == [c EXCEPT !.waiting = W]
      IN  /\ ArcStep(c, d) /\ d.fd = c.fd /\ d.disk = c.disk /\ Cached_ARC(d) = Cached_ARC(c)
  <2> DEFINE d == [c EXCEPT !.waiting = W]
  <2>1. /\ DOMAIN d = CacheFields /\ SameKind(c, d) /\ d.lirs = c.lirs /\ d.fd = c.fd
        /\ d.disk = c.disk /\ d.arc = c.arc
    BY <1>1 DEF CacheFields, SameKind
  <2> HIDE DEF d
  <2> QED
    BY <1>1, <2>1 DEF ArcStep, ArcShape, Cached_ARC, d
<1> QED
  BY <1>2, <1>3

(* A new target of T1 moves no file.                                       *)
LEMMA Adapted ==
    ASSUME NEW c, NEW location, ArcShape(c)
    PROVE  LET d == adapt(c, location)
           IN  /\ ArcStep(c, d) /\ d.fd = c.fd /\ d.disk = c.disk
               /\ Cached_ARC(d) = Cached_ARC(c)
<1> DEFINE x == Min({capacity, c.arc.p + Delta(total_B1_size(c), total_B2_size(c))})
           y == Max({0, c.arc.p - Delta(total_B2_size(c), total_B1_size(c))})
<1>1. adapt(c, location) = IF location \in {"B1", "WaitingB1"} THEN [c EXCEPT !.arc.p = x]
                           ELSE [c EXCEPT !.arc.p = y]
  BY DEF adapt
<1> HIDE DEF x, y
<1>2. \E n : adapt(c, location) = [c EXCEPT !.arc.p = n]
  BY <1>1
<1>3. PICK n : adapt(c, location) = [c EXCEPT !.arc.p = n]
  BY <1>2
<1> DEFINE e == [c EXCEPT !.arc.p = n]
<1>4. ArcStep(c, e) /\ e.fd = c.fd /\ e.disk = c.disk /\ Cached_ARC(e) = Cached_ARC(c)
  BY Unnoticed, Zenon
<1>5. adapt(c, location) = e
  BY <1>3
<1> HIDE DEF e
<1> QED
  BY <1>4, <1>5, Zenon

Places_ARC == {"T1", "T2", "B1", "B2", "WaitingB1", "WaitingB2", "WaitingRegular"}

(* Where find locates a file.                                              *)
LEMMA LocationProperty ==
    ASSUME NEW c, NEW f \in File, ArcShape(c)
    PROVE  Location(c, f) \in Places_ARC \cup {"NotFound"}
<1>1. CASE f \in c.waiting
  <2>1. c.arc.ghost[f] \in {"Regular", "B1", "B2"}
    BY DEF ArcShape
  <2>2. WaitingPlace[c.arc.ghost[f]] \in {"WaitingRegular", "WaitingB1", "WaitingB2"}
    BY <2>1 DEF WaitingPlace
  <2> QED
    BY <1>1, <2>2 DEF Location, Places_ARC
<1>2. CASE f \notin c.waiting /\ \E list \in ArcList : f \in Range(c.arc[list])
  <2> DEFINE l == CHOOSE list \in ArcList : f \in Range(c.arc[list])
  <2>1. l \in ArcList
    BY <1>2
  <2>2. Location(c, f) = l
    BY <1>2 DEF Location
  <2> HIDE DEF l
  <2> QED
    BY <2>1, <2>2 DEF ArcList, Places_ARC
<1>3. CASE f \notin c.waiting /\ ~\E list \in ArcList : f \in Range(c.arc[list])
  BY <1>3 DEF Location
<1> QED
  BY <1>1, <1>2, <1>3

(* handleUpdate places the file it is called for.                          *)
LEMMA Updates ==
    ASSUME NEW c, NEW f \in File, ArcShape(c), Location(c, f) \in Places_ARC
    PROVE  ArcPlaced(c, handleUpdate(c, f), f)
<1> DEFINE location == Location(c, f)
           a == adapt(c, location)
           b == [c EXCEPT !.waiting = @ \ {f}]
           d == handleUpdate(c, f)
<1>1. d = CASE location \in {"T1", "T2"} -> enter(c, f, "T2")
            [] location \in {"B1", "B2", "WaitingB1", "WaitingB2"} ->
                   enter(replace(a, location), f, "T2")
            [] location = "WaitingRegular" -> handleCaseIV(b, f, location)
  BY Zenon DEF handleUpdate
<1>2. location \in Places_ARC
  OBVIOUS
<1>3. ArcStep(c, c) /\ Spares(c, c)
  BY DEF ArcStep, SameKind, Spares
<1> HIDE DEF d, location
<1>4. CASE location \in {"T1", "T2"}
  <2>1. d = enter(c, f, "T2")
    BY <1>1, <1>4
  <2> QED
    BY <1>3, <2>1, PlacedAfterRoom DEF d
<1>5. CASE location \in {"B1", "B2", "WaitingB1", "WaitingB2"}
  <2> DEFINE r == replace(a, location)
  <2>1. d = enter(r, f, "T2")
    BY <1>1, <1>5
  <2>2. ArcStep(c, a) /\ a.fd = c.fd /\ a.disk = c.disk /\ Cached_ARC(a) = Cached_ARC(c)
    BY Adapted
  <2> HIDE DEF a
  <2>3. ArcStep(a, r) /\ Spares(a, r)
    BY <2>2, Replaces DEF ArcStep
  <2> HIDE DEF r
  <2>4. Spares(c, r)
    BY <2>2, <2>3, SparesOfSame
  <2>5. ArcStep(c, r)
    BY <2>2, <2>3 DEF ArcStep, SameKind
  <2> QED
    BY <2>1, <2>4, <2>5, PlacedAfterRoom DEF d
<1>6. CASE location = "WaitingRegular"
  <2>1. d = handleCaseIV(b, f, location)
    BY <1>1, <1>6
  <2>2. ArcStep(c, b) /\ b.fd = c.fd /\ b.disk = c.disk /\ Cached_ARC(b) = Cached_ARC(c)
    BY Unnoticed
  <2> HIDE DEF b
  <2>3. ArcPlaced(b, d, f)
    BY <2>1, <2>2, CaseIV DEF ArcStep
  <2>4. Spares(c, d)
    BY <2>2, <2>3, SparesOfSame DEF ArcPlaced
  <2>5. ArcStep(c, d)
    BY <2>2, <2>3 DEF ArcPlaced, ArcStep, SameKind
  <2> QED
    BY <2>3, <2>4, <2>5 DEF ArcPlaced, d
<1> QED
  BY <1>2, <1>4, <1>5, <1>6 DEF Places_ARC

\* What a put or a refresh of f does.
ArcOutcome(c, d, f) ==
    /\ ArcStep(c, d) /\ PinsKept(c, d, f) /\ Evicts(c, d, f, Cached_ARC(c), Cached_ARC(d))

(* What the placement does to the other files.                             *)
LEMMA ArcPlacedMeans ==
    ASSUME NEW c, NEW d, NEW f \in File, ArcShape(c), ArcPlaced(c, d, f)
    PROVE  ArcOutcome(c, d, f)
<1>1. ArcStep(c, d) /\ f \in Cached_ARC(d) /\ DOMAIN c.fd = File /\ DOMAIN c.disk = File
  BY DEF ArcPlaced, ArcShape
<1>2. CASE d.fd = c.fd /\ d.disk = c.disk /\ Cached_ARC(c) \subseteq Cached_ARC(d)
  BY <1>1, <1>2 DEF ArcOutcome, PinsKept, Evicts
<1>3. CASE \E v \in File : /\ Evictable(c.fd[v]) /\ Removed(c, d, v)
                           /\ Cached_ARC(c) \ {v} \subseteq Cached_ARC(d)
  <2>1. PICK v \in File : /\ Evictable(c.fd[v]) /\ Removed(c, d, v)
                          /\ Cached_ARC(c) \ {v} \subseteq Cached_ARC(d)
    BY <1>3
  <2>2. /\ \A g \in File : Evictable(d.fd[g]) <=> Evictable(c.fd[g])
        /\ d.disk[v] = "absent"
    BY <1>1, <2>1, RemovedFile
  <2>3. PinsKept(c, d, f)
    BY <2>2 DEF PinsKept
  <2>4. Evicts(c, d, f, Cached_ARC(c), Cached_ARC(d))
    BY <1>1, <2>1, <2>2 DEF Evicts
  <2> QED
    BY <1>1, <2>3, <2>4 DEF ArcOutcome
<1> QED
  BY <1>2, <1>3 DEF ArcPlaced, Spares

(* A put into ARC.                                                         *)
LEMMA ArcPutOutcome ==
    ASSUME NEW c, NEW f \in File, NEW fd, ArcShape(c), c.class = "ARC"
    PROVE  ArcOutcome(c, put_ARC(c, f, fd), f)
<1> DEFINE location == Location(c, f)
           a == describe(c, f, fd)
           ghost == IF location \in {"B1", "B2"} THEN location ELSE "Regular"
           w == [a EXCEPT !.arc.B1 = without(@, f), !.arc.B2 = without(@, f),
                          !.waiting = @ \cup {f}, !.arc.ghost[f] = ghost]
           d == put_ARC(c, f, fd)
<1>1. d = CASE location \notin {"B1", "B2", "NotFound"} -> c
            [] location \in {"B1", "B2"} /\ fd.file_available -> handleUpdate(a, f)
            [] location = "NotFound" /\ fd.file_available -> handleCaseIV(a, f, location)
            [] OTHER -> w
  BY Zenon DEF put_ARC
<1>2. /\ DOMAIN c = CacheFields /\ DOMAIN c.arc = ArcFields /\ Lists(c.arc)
      /\ c.arc.ghost \in [File -> {"Regular", "B1", "B2"}]
      /\ DOMAIN c.fd = File /\ DOMAIN c.disk = File
  BY DEF ArcShape
<1>3. Described(c, a, f, fd)
  BY <1>2, Describes
<1>4. /\ DOMAIN a = CacheFields /\ SameKind(c, a) /\ a.lirs = c.lirs /\ a.disk = c.disk
      /\ a.waiting = c.waiting /\ a.arc = c.arc
      /\ DOMAIN a.fd = File /\ \A g \in File \ {f} : a.fd[g] = c.fd[g]
  BY <1>2, <1>3 DEF Described, Framed
<1>5. ArcShape(a) /\ Cached_ARC(a) = Cached_ARC(c) /\ Location(a, f) = location
      /\ Cached_ARC(c) \subseteq File
  <2>1. ArcShape(a) /\ Cached_ARC(a) = Cached_ARC(c)
    BY <1>2, <1>4 DEF ArcShape, Cached_ARC
  <2>2. Location(a, f) = location
    BY <1>4 DEF Location
  <2>3. Cached_ARC(c) \subseteq File
    BY <1>2 DEF Lists, Cached_ARC, Range
  <2> QED
    BY <2>1, <2>2, <2>3
<1> HIDE DEF a, d, location
<1>6. ASSUME ArcOutcome(a, d, f)
      PROVE  ArcOutcome(c, d, f)
  <2>1. ArcStep(c, d)
    BY <1>4, <1>6 DEF ArcOutcome, ArcStep, SameKind
  <2>2. PinsKept(c, d, f)
    BY <1>4, <1>6 DEF ArcOutcome, PinsKept
  <2>3. Evicts(c, d, f, Cached_ARC(c), Cached_ARC(d))
    BY <1>4, <1>5, <1>6 DEF ArcOutcome, Evicts
  <2> QED
    BY <2>1, <2>2, <2>3 DEF ArcOutcome
<1>7. location \in Places_ARC \cup {"NotFound"}
  BY LocationProperty DEF location
<1>8. CASE location \notin {"B1", "B2", "NotFound"}
  <2>1. d = c
    BY <1>1, <1>8
  <2> QED
    BY <2>1 DEF ArcOutcome, ArcStep, SameKind, PinsKept, Evicts, d
<1>9. CASE location \in {"B1", "B2"} /\ fd.file_available
  <2>1. d = handleUpdate(a, f)
    BY <1>1, <1>9
  <2>2. ArcPlaced(a, d, f)
    BY <1>5, <1>9, <2>1, Updates DEF Places_ARC
  <2> QED
    BY <1>5, <1>6, <2>2, ArcPlacedMeans DEF d
<1>10. CASE location = "NotFound" /\ fd.file_available
  <2>1. d = handleCaseIV(a, f, location)
    BY <1>1, <1>10
  <2>2. ArcPlaced(a, d, f)
    BY <1>5, <2>1, CaseIV
  <2> QED
    BY <1>5, <1>6, <2>2, ArcPlacedMeans DEF d
<1>11. CASE location \in {"B1", "B2", "NotFound"} /\ ~fd.file_available
  <2>1. d = w
    BY <1>1, <1>11, Zenon
  <2> DEFINE b1 == without(c.arc.B1, f)
             b2 == without(c.arc.B2, f)
             g1 == [c.arc.ghost EXCEPT ![f] = ghost]
  <2>2. b1 \in Seq(File) /\ b2 \in Seq(File)
    BY <1>2, WithoutKeeps DEF Lists
  <2>3. g1 \in [File -> {"Regular", "B1", "B2"}]
    <3>1. ghost \in {"Regular", "B1", "B2"}
      OBVIOUS
    <3> QED
      BY <1>2, <3>1
  <2> HIDE DEF ghost
  <2>4. /\ DOMAIN w = CacheFields /\ SameKind(a, w) /\ w.lirs = a.lirs /\ w.fd = a.fd
        /\ w.disk = a.disk
        /\ w.arc = [a.arc EXCEPT !.B1 = b1, !.B2 = b2, !.ghost = g1]
    BY <1>4 DEF CacheFields, SameKind
  <2> HIDE DEF w, b1, b2, g1
  <2>5. /\ DOMAIN w.arc = ArcFields /\ w.arc.T1 = c.arc.T1 /\ w.arc.T2 = c.arc.T2
        /\ w.arc.B1 = b1 /\ w.arc.B2 = b2 /\ w.arc.ghost = g1
    BY <1>2, <1>4, <2>4 DEF ArcFields
  <2>6. ArcStep(a, w)
    BY <1>2, <1>4, <2>2, <2>3, <2>4, <2>5 DEF ArcStep, ArcShape, Lists
  <2>7. Cached_ARC(w) = Cached_ARC(a)
    BY <1>4, <2>5 DEF Cached_ARC
  <2>8. ArcOutcome(a, w, f)
    BY <2>4, <2>6, <2>7 DEF ArcOutcome, PinsKept, Evicts
  <2> QED
    BY <1>6, <2>1, <2>8 DEF d
<1> QED
  BY <1>8, <1>9, <1>10, <1>11

(* A refresh in ARC.                                                       *)
LEMMA ArcRefreshOutcome ==
    ASSUME NEW c, NEW f \in File, ArcShape(c)
    PROVE  ArcOutcome(c, refresh_ARC(c, f), f)
<1>1. CASE Location(c, f) \notin {"B1", "B2", "NotFound"} /\ c.fd[f].file_available
  <2> DEFINE d == handleUpdate(c, f)
  <2>1. refresh_ARC(c, f) = d
    BY <1>1 DEF refresh_ARC
  <2>2. Location(c, f) \in Places_ARC
    BY <1>1, LocationProperty
  <2>3. ArcPlaced(c, d, f)
    BY <2>2, Updates
  <2> HIDE DEF d
  <2> QED
    BY <2>1, <2>3, ArcPlacedMeans
<1>2. CASE ~(Location(c, f) \notin {"B1", "B2", "NotFound"} /\ c.fd[f].file_available)
  <2>1. refresh_ARC(c, f) = c
    BY <1>2 DEF refresh_ARC
  <2> QED
    BY <2>1 DEF ArcOutcome, ArcStep, SameKind, PinsKept, Evicts
<1> QED
  BY <1>1, <1>2

-----------------------------------------------------------------------------
\* The cache behind the interface, whatever its class.

IdleLirs ==
    [S |-> <<>>, Q |-> <<>>, state |-> [f \in File |-> "None"], LIR_size |-> 0, exited |-> FALSE]

FdFields == DOMAIN NoDescriptor

UnlimitedShape(c) == c.files \subseteq File /\ \A g \in File : DOMAIN c.fd[g] = FdFields

CacheInv(c) ==
    /\ DOMAIN c = CacheFields /\ DOMAIN c.fd = File /\ DOMAIN c.disk = File
    /\ c.class \in LRUBased \cup {"LIRS", "ARC", "unlimited"}
    /\ c.wrapped \in BOOLEAN /\ (c.wrapped => c.class \in LRUBased)
    /\ c.class \in LRUBased => LRUInv(c) /\ (c.wrapped \/ c.fifo.queue = <<>>)
    /\ c.class = "LIRS" => LirsShape(c)
    /\ c.class # "LIRS" => c.lirs = IdleLirs
    /\ c.class = "ARC" => ArcShape(c)
    /\ c.class = "unlimited" => UnlimitedShape(c)

\* The caches that keep the capacity: KeepsCapacity of a cache.
Limited(c) == c.class \in LRUBased \cup {"LIRS"} /\ ~c.wrapped

UnlimitedFiles(c) == {g \in c.files : c.fd[g].file_available}

(* The files a cache holds, by its class.                                  *)
LEMMA CachedByClass ==
    ASSUME NEW c, CacheInv(c)
    PROVE  /\ c.class \in LRUBased /\ c.wrapped => CachedFiles(c) = Cached_Fifo(c)
           /\ c.class \in LRUBased /\ ~c.wrapped => CachedFiles(c) = Cached(c)
           /\ c.class = "LIRS" => CachedFiles(c) = Cached_LIRS(c)
           /\ c.class = "ARC" => CachedFiles(c) = Cached_ARC(c)
           /\ c.class = "unlimited" => CachedFiles(c) = UnlimitedFiles(c)
<1>1. c.wrapped \in BOOLEAN /\ (c.wrapped => c.class \in LRUBased)
  BY DEF CacheInv
<1>2. CASE c.wrapped
  BY <1>1, <1>2 DEF CachedFiles, LRUBased
<1>3. CASE ~c.wrapped
  BY <1>1, <1>3 DEF CachedFiles, LRUBased, UnlimitedFiles
<1> QED
  BY <1>1, <1>2, <1>3

\* d is c after a put or a refresh of f.
Moved(c, d, f) ==
    /\ CacheInv(d) /\ SameKind(c, d) /\ PinsKept(c, d, f)
    /\ Evicts(c, d, f, CachedFiles(c), CachedFiles(d))
    /\ Limited(c) => Fits(c, f, CachedFiles(c), CachedFiles(d))

(* What the caches based on LRU do, wrapped or not.                        *)
LEMMA MovedLRU ==
    ASSUME NEW c, NEW d, NEW f, CacheInv(c), c.class \in LRUBased,
           c.wrapped => Outcome(c, d, f, Cached_Fifo(c), Cached_Fifo(d)),
           ~c.wrapped => /\ Outcome(c, d, f, Cached(c), Cached(d))
                         /\ Fits(c, f, Cached(c), Cached(d)) /\ d.fifo = c.fifo
    PROVE  Moved(c, d, f)
<1>1. c.wrapped \in BOOLEAN
  BY DEF CacheInv
<1>2. LRUInv(d) /\ SameKind(c, d) /\ d.lirs = c.lirs /\ PinsKept(c, d, f)
  BY <1>1 DEF Outcome
<1>3. DOMAIN d = CacheFields /\ DOMAIN d.fd = File /\ DOMAIN d.disk = File
  BY <1>2 DEF LRUInv, Policy
<1>4. ~c.wrapped => d.fifo.queue = <<>>
  BY <1>1 DEF CacheInv
<1>5. CacheInv(d)
  BY <1>1, <1>2, <1>3, <1>4 DEF CacheInv, SameKind, LRUBased
<1>6. CASE c.wrapped
  <2>1. CachedFiles(c) = Cached_Fifo(c) /\ CachedFiles(d) = Cached_Fifo(d)
    BY <1>2, <1>5, <1>6, CachedByClass DEF SameKind
  <2> QED
    BY <1>2, <1>5, <1>6, <2>1 DEF Moved, Outcome, Limited
<1>7. CASE ~c.wrapped
  <2>1. CachedFiles(c) = Cached(c) /\ CachedFiles(d) = Cached(d)
    BY <1>2, <1>5, <1>7, CachedByClass DEF SameKind
  <2> QED
    BY <1>2, <1>5, <1>7, <2>1 DEF Moved, Outcome
<1> QED
  BY <1>1, <1>6, <1>7

(* What LIRS does.                                                         *)
LEMMA MovedLIRS ==
    ASSUME NEW c, NEW d, NEW f, CacheInv(c), c.class = "LIRS", LirsOutcome(c, d, f)
    PROVE  Moved(c, d, f)
<1>1. LirsShape(d) /\ SameKind(c, d) /\ c.wrapped \in BOOLEAN /\ ~c.wrapped
  BY DEF LirsOutcome, CacheInv, LRUBased
<1>2. CacheInv(d)
  BY <1>1 DEF CacheInv, SameKind, LRUBased, LirsShape, LirsCache
<1>3. CachedFiles(c) = Cached_LIRS(c) /\ CachedFiles(d) = Cached_LIRS(d)
  BY <1>1, <1>2, CachedByClass DEF SameKind
<1> QED
  BY <1>1, <1>2, <1>3 DEF Moved, LirsOutcome

(* What ARC does.                                                          *)
LEMMA MovedARC ==
    ASSUME NEW c, NEW d, NEW f, CacheInv(c), c.class = "ARC", ArcOutcome(c, d, f)
    PROVE  Moved(c, d, f)
<1>1. ArcShape(d) /\ SameKind(c, d) /\ d.lirs = c.lirs /\ c.wrapped \in BOOLEAN /\ ~c.wrapped
  BY DEF ArcOutcome, ArcStep, CacheInv, LRUBased
<1>2. CacheInv(d)
  BY <1>1 DEF CacheInv, SameKind, LRUBased, ArcShape
<1>3. CachedFiles(c) = Cached_ARC(c) /\ CachedFiles(d) = Cached_ARC(d)
  BY <1>1, <1>2, CachedByClass DEF SameKind
<1>4. ~Limited(c)
  BY DEF Limited, LRUBased
<1> QED
  BY <1>1, <1>2, <1>3, <1>4 DEF Moved, ArcOutcome

(* The unlimited cache takes every file.                                   *)
LEMMA UnlimitedPut ==
    ASSUME NEW c, NEW f \in File, NEW fd, CacheInv(c), c.class = "unlimited",
           DOMAIN fd = FdFields, f \notin CachedFiles(c) \/ fd.file_available
    PROVE  Moved(c, [describe(c, f, fd) EXCEPT !.files = @ \cup {f}], f)
<1> DEFINE a == describe(c, f, fd)
           d == [a EXCEPT !.files = @ \cup {f}]
<1>1. /\ DOMAIN c = CacheFields /\ DOMAIN c.fd = File /\ DOMAIN c.disk = File
      /\ c.wrapped \in BOOLEAN /\ ~c.wrapped /\ c.lirs = IdleLirs
      /\ c.files \subseteq File /\ \A g \in File : DOMAIN c.fd[g] = FdFields
      /\ CachedFiles(c) = UnlimitedFiles(c)
  BY CachedByClass DEF CacheInv, LRUBased, UnlimitedShape
<1>2. Described(c, a, f, fd)
  BY <1>1, Describes
<1>3. /\ DOMAIN a = CacheFields /\ SameKind(c, a) /\ a.lirs = c.lirs /\ a.disk = c.disk
      /\ a.files = c.files /\ a.fd = [c.fd EXCEPT ![f] = fd]
  BY <1>2 DEF Described, Framed
<1> HIDE DEF a
<1>4. /\ DOMAIN d = CacheFields /\ SameKind(c, d) /\ d.lirs = c.lirs /\ d.disk = c.disk
      /\ d.files = c.files \cup {f} /\ d.fd = [c.fd EXCEPT ![f] = fd]
  BY <1>3 DEF CacheFields, SameKind
<1> HIDE DEF d
<1>5. /\ DOMAIN d.fd = File /\ d.fd[f] = fd /\ \A g \in File \ {f} : d.fd[g] = c.fd[g]
  BY <1>1, <1>4
<1>6. CacheInv(d)
  BY <1>1, <1>4, <1>5 DEF CacheInv, SameKind, LRUBased, UnlimitedShape
<1>7. CachedFiles(d) = UnlimitedFiles(d)
  BY <1>4, <1>6, CachedByClass DEF SameKind
<1>8. CachedFiles(c) \subseteq CachedFiles(d)
  BY <1>1, <1>4, <1>5, <1>7 DEF UnlimitedFiles
<1>9. ~Limited(c)
  BY DEF Limited, LRUBased
<1> QED
  BY <1>4, <1>5, <1>6, <1>8, <1>9 DEF Moved, PinsKept, Evicts, d, a

(* A put into any cache.                                                   *)
LEMMA PutMoves ==
    ASSUME NEW c, NEW f \in File, NEW fd, CacheInv(c), ~c.lirs.exited,
           DOMAIN fd = FdFields, f \notin CachedFiles(c) \/ fd.file_available
    PROVE  LET d == cachePut(c, f, fd)
           IN  /\ Moved(c, d, f)
               /\ Limited(c) => /\ d = c \/ (Evictable(d.fd[f]) <=> Evictable(fd))
                                /\ fd.file_available \/ CachedFiles(d) = CachedFiles(c)
<1> DEFINE d == cachePut(c, f, fd)
<1>1. c.wrapped \in BOOLEAN /\ (c.wrapped => c.class \in LRUBased)
  BY DEF CacheInv
<1>2. CASE c.wrapped
  <2>1. d = put_Fifo(c, f, fd)
    BY <1>1, <1>2 DEF cachePut, LRUBased
  <2>2. c.class \in LRUBased /\ LRUInv(c)
    BY <1>1, <1>2 DEF CacheInv
  <2>3. Outcome(c, d, f, Cached_Fifo(c), Cached_Fifo(d))
    BY <2>1, <2>2, FifoPutOutcome
  <2> HIDE DEF d
  <2> QED
    BY <1>2, <2>2, <2>3, MovedLRU DEF Limited, d
<1>3. CASE ~c.wrapped /\ c.class \in LRUBased
  <2>1. d = put_LRUBased(c, f, fd)
    BY <1>1, <1>3 DEF cachePut, LRUBased
  <2>2. LRUInv(c) /\ f \notin Range(c.fifo.queue)
    BY <1>3 DEF CacheInv, Range
  <2>3. /\ Outcome(c, d, f, Cached(c), Cached(d)) /\ Fits(c, f, Cached(c), Cached(d))
        /\ d.fifo = c.fifo
        /\ d = c \/ (Evictable(d.fd[f]) <=> Evictable(fd))
        /\ fd.file_available \/ Cached(d) = Cached(c)
    BY <2>1, <2>2, LRUBasedPutOutcome
  <2> HIDE DEF d
  <2>4. Moved(c, d, f)
    BY <1>3, <2>3, MovedLRU
  <2>5. CachedFiles(c) = Cached(c) /\ CachedFiles(d) = Cached(d)
    BY <1>3, <2>4, CachedByClass DEF Moved, SameKind
  <2> QED
    BY <2>3, <2>4, <2>5 DEF d
<1>4. CASE c.class = "LIRS"
  <2>1. d = put_LIRS(c, f, fd)
    BY <1>1, <1>4 DEF cachePut, LRUBased
  <2>2. LirsShape(c)
    BY <1>4 DEF CacheInv
  <2>3. /\ LirsOutcome(c, d, f)
        /\ d = c \/ (Evictable(d.fd[f]) <=> Evictable(fd))
        /\ fd.file_available \/ Cached_LIRS(d) = Cached_LIRS(c)
    BY <2>1, <2>2, LirsPutOutcome
  <2> HIDE DEF d
  <2>4. Moved(c, d, f)
    BY <1>4, <2>3, MovedLIRS
  <2>5. CachedFiles(c) = Cached_LIRS(c) /\ CachedFiles(d) = Cached_LIRS(d)
    BY <1>4, <2>4, CachedByClass DEF Moved, SameKind
  <2> QED
    BY <2>3, <2>4, <2>5 DEF d
<1>5. CASE c.class = "ARC"
  <2>1. d = put_ARC(c, f, fd)
    BY <1>1, <1>5 DEF cachePut, LRUBased
  <2>2. ArcShape(c)
    BY <1>5 DEF CacheInv
  <2>3. ArcOutcome(c, d, f)
    BY <1>5, <2>1, <2>2, ArcPutOutcome
  <2> HIDE DEF d
  <2>4. Moved(c, d, f)
    BY <1>5, <2>3, MovedARC
  <2> QED
    BY <1>5, <2>4 DEF Limited, LRUBased, d
<1>6. CASE c.class = "unlimited"
  <2>1. d = [describe(c, f, fd) EXCEPT !.files = @ \cup {f}]
    BY <1>1, <1>6 DEF cachePut, LRUBased
  <2> HIDE DEF d
  <2>2. Moved(c, d, f)
    BY <1>6, <2>1, UnlimitedPut
  <2> QED
    BY <1>6, <2>2 DEF Limited, LRUBased, d
<1> QED
  BY <1>1, <1>2, <1>3, <1>4, <1>5, <1>6 DEF CacheInv

(* A refresh in any cache.                                                 *)
LEMMA RefreshMoves ==
    ASSUME NEW c, NEW f \in File, CacheInv(c), ~c.lirs.exited
    PROVE  Moved(c, cacheRefresh(c, f), f)
<1> DEFINE d == cacheRefresh(c, f)
<1>1. c.wrapped \in BOOLEAN /\ (c.wrapped => c.class \in LRUBased)
  BY DEF CacheInv
<1>2. CASE c.wrapped
  <2>1. d = refresh_Fifo(c, f)
    BY <1>1, <1>2 DEF cacheRefresh, LRUBased
  <2>2. c.class \in LRUBased /\ LRUInv(c)
    BY <1>1, <1>2 DEF CacheInv
  <2>3. Outcome(c, d, f, Cached_Fifo(c), Cached_Fifo(d))
    BY <2>1, <2>2, FifoRefreshOutcome
  <2> HIDE DEF d
  <2> QED
    BY <1>2, <2>2, <2>3, MovedLRU DEF d
<1>3. CASE ~c.wrapped /\ c.class \in LRUBased
  <2>1. d = refresh_LRUBased(c, f)
    BY <1>1, <1>3 DEF cacheRefresh, LRUBased
  <2>2. LRUInv(c)
    BY <1>3 DEF CacheInv
  <2>3. LRUOutcome(c, d, f)
    BY <2>1, <2>2, LRUBasedRefresh
  <2> HIDE DEF d
  <2>4. /\ Outcome(c, d, f, Cached(c), Cached(d)) /\ Fits(c, f, Cached(c), Cached(d))
        /\ d.fifo = c.fifo
    BY <2>2, <2>3, LRUOutcomeMeans
  <2> QED
    BY <1>3, <2>4, MovedLRU DEF d
<1>4. CASE c.class = "LIRS"
  <2>1. d = refresh_LIRS(c, f)
    BY <1>1, <1>4 DEF cacheRefresh, LRUBased
  <2>2. LirsShape(c)
    BY <1>4 DEF CacheInv
  <2> QED
    BY <1>4, <2>1, <2>2, LirsRefreshOutcome, MovedLIRS
<1>5. CASE c.class = "ARC"
  <2>1. d = refresh_ARC(c, f)
    BY <1>1, <1>5 DEF cacheRefresh, LRUBased
  <2>2. ArcShape(c)
    BY <1>5 DEF CacheInv
  <2> QED
    BY <1>5, <2>1, <2>2, ArcRefreshOutcome, MovedARC
<1>6. CASE c.class = "unlimited"
  <2>1. d = c
    BY <1>1, <1>6 DEF cacheRefresh, LRUBased
  <2> QED
    BY <2>1 DEF Moved, SameKind, PinsKept, Evicts, Fits
<1> QED
  BY <1>1, <1>2, <1>3, <1>4, <1>5, <1>6 DEF CacheInv

-----------------------------------------------------------------------------
\* The handlers.

\* The handlers that change the descriptor of f, or its file, and nothing the
\* caches keep; get may pay an entry of the ETD.
Touched(c, d, f) ==
    /\ DOMAIN d = CacheFields /\ SameKind(c, d)
    /\ d.lru = c.lru /\ d.waiting = c.waiting /\ d.cost = c.cost /\ d.arc = c.arc
    /\ d.lirs = c.lirs /\ d.files = c.files /\ d.fifo = c.fifo
    /\ DOMAIN d.bcl = DOMAIN c.bcl /\ d.bcl.listed = c.bcl.listed
    /\ c.class \in {"BCL", "PBCL"} => d.bcl = c.bcl
    /\ DOMAIN d.fd = File /\ DOMAIN d.disk = File
    /\ \A g \in File \ {f} : d.fd[g] = c.fd[g] /\ d.disk[g] = c.disk[g]
    /\ c.class = "unlimited" => /\ DOMAIN d.fd[f] = FdFields
                                /\ c.fd[f].file_available => d.fd[f].file_available

(* A cache holds result files.                                             *)
LEMMA CachedAreFiles ==
    ASSUME NEW c, CacheInv(c)
    PROVE  CachedFiles(c) \subseteq File
<1>1. CASE c.class \in LRUBased
  <2>1. c.lru \in Seq(File) /\ c.fifo.queue \in Seq(File) /\ c.wrapped \in BOOLEAN
    BY <1>1 DEF CacheInv, LRUInv, Policy, Places, PlacesOf
  <2>2. Cached(c) \subseteq File /\ Cached_Fifo(c) \subseteq File
    BY <2>1 DEF Cached, Cached_Fifo, Range
  <2> QED
    BY <1>1, <2>1, <2>2, CachedByClass
<1>2. CASE c.class = "LIRS"
  BY <1>2, CachedByClass DEF Cached_LIRS
<1>3. CASE c.class = "ARC"
  <2>1. c.arc.T1 \in Seq(File) /\ c.arc.T2 \in Seq(File)
    BY <1>3 DEF CacheInv, ArcShape, Lists
  <2>2. Cached_ARC(c) \subseteq File
    BY <2>1 DEF Cached_ARC, Range
  <2> QED
    BY <1>3, <2>2, CachedByClass
<1>4. CASE c.class = "unlimited"
  <2>1. c.files \subseteq File
    BY <1>4 DEF CacheInv, UnlimitedShape
  <2> QED
    BY <1>4, <2>1, CachedByClass DEF UnlimitedFiles
<1> QED
  BY <1>1, <1>2, <1>3, <1>4 DEF CacheInv

(* A handler that only touches f keeps what the cache holds.               *)
LEMMA TouchedKeeps ==
    ASSUME NEW c, NEW d, NEW f \in File, CacheInv(c), Touched(c, d, f)
    PROVE  /\ CacheInv(d) /\ PinsKept(c, d, f)
           /\ CachedFiles(c) \subseteq CachedFiles(d)
           /\ c.class # "unlimited" => CachedFiles(d) = CachedFiles(c)
<1>1. /\ DOMAIN d = CacheFields /\ d.class = c.class /\ d.wrapped = c.wrapped
      /\ DOMAIN d.fd = File /\ DOMAIN d.disk = File /\ d.lirs = c.lirs /\ d.lru = c.lru
      /\ d.fifo = c.fifo /\ d.arc = c.arc /\ d.files = c.files
  BY DEF Touched, SameKind
<1>2. Cached(d) = Cached(c) /\ Cached_Fifo(d) = Cached_Fifo(c)
      /\ Cached_LIRS(d) = Cached_LIRS(c) /\ Cached_ARC(d) = Cached_ARC(c)
  BY <1>1 DEF Cached, Cached_Fifo, Cached_LIRS, Cached_ARC
<1>3. c.class \in LRUBased => LRUInv(d) /\ (d.wrapped \/ d.fifo.queue = <<>>)
  <2>1. SUFFICES ASSUME c.class \in LRUBased
                 PROVE  LRUInv(d) /\ (d.wrapped \/ d.fifo.queue = <<>>)
    OBVIOUS
  <2>2. Policy(c) /\ Places(c) /\ (c.wrapped \/ c.fifo.queue = <<>>)
    BY <2>1 DEF CacheInv, LRUInv
  <2>3. Policy(d)
    BY <1>1, <1>2, <2>1, <2>2 DEF Touched, Policy, Penalised, Bounded
  <2>4. Places(d)
    BY <1>1, <1>2, <2>2 DEF Touched, Places, PlacesOf
  <2> QED
    BY <1>1, <2>2, <2>3, <2>4 DEF LRUInv
<1>4. c.class = "LIRS" => LirsShape(d)
  BY <1>1 DEF CacheInv, LirsShape, LirsCache
<1>5. c.class = "ARC" => ArcShape(d)
  BY <1>1 DEF CacheInv, ArcShape
<1>6. c.class = "unlimited" => UnlimitedShape(d)
  BY <1>1 DEF CacheInv, Touched, UnlimitedShape
<1>7. CacheInv(d)
  BY <1>1, <1>3, <1>4, <1>5, <1>6 DEF CacheInv
<1>8. PinsKept(c, d, f)
  BY DEF Touched, PinsKept
<1>9. c.class # "unlimited" => CachedFiles(d) = CachedFiles(c)
  <2>1. c.wrapped \in BOOLEAN
    BY DEF CacheInv
  <2>2. CASE c.class \in LRUBased
    BY <1>1, <1>2, <1>7, <2>1, <2>2, CachedByClass
  <2>3. CASE c.class \in {"LIRS", "ARC"}
    BY <1>1, <1>2, <1>7, <2>3, CachedByClass
  <2> QED
    BY <2>2, <2>3 DEF CacheInv
<1>10. c.class = "unlimited" => CachedFiles(c) \subseteq CachedFiles(d)
  <2>1. SUFFICES ASSUME c.class = "unlimited" PROVE CachedFiles(c) \subseteq CachedFiles(d)
    OBVIOUS
  <2>2. CachedFiles(c) = UnlimitedFiles(c) /\ CachedFiles(d) = UnlimitedFiles(d)
    BY <1>1, <1>7, <2>1, CachedByClass
  <2>3. c.files \subseteq File
    BY <2>1 DEF CacheInv, UnlimitedShape
  <2>4. \A g \in File : c.fd[g].file_available => d.fd[g].file_available
    BY <2>1 DEF Touched
  <2> QED
    BY <1>1, <2>2, <2>3, <2>4 DEF UnlimitedFiles
<1> QED
  BY <1>7, <1>8, <1>9, <1>10

\* What a handler called for f does to the cache.
Stepped(c, d, f) ==
    /\ CacheInv(d) /\ SameKind(c, d) /\ PinsKept(c, d, f)
    /\ Evicts(c, d, f, CachedFiles(c), CachedFiles(d))
    /\ Limited(c) => /\ Fits(c, f, CachedFiles(c), CachedFiles(d))
                     /\ \/ CachedFiles(d) = CachedFiles(c)
                        \/ Evictable(d.fd[f]) \/ ~Evictable(c.fd[f])

(* Such a handler does what Stepped says.                                  *)
LEMMA TouchedSteps ==
    ASSUME NEW c, NEW d, NEW f \in File, CacheInv(c), Touched(c, d, f)
    PROVE  Stepped(c, d, f)
<1>1. /\ CacheInv(d) /\ PinsKept(c, d, f) /\ CachedFiles(c) \subseteq CachedFiles(d)
      /\ c.class # "unlimited" => CachedFiles(d) = CachedFiles(c)
  BY TouchedKeeps
<1>2. Limited(c) => c.class # "unlimited"
  BY DEF Limited, LRUBased
<1> QED
  BY <1>1, <1>2 DEF Stepped, Touched, Evicts, Fits

(* A handler that touches f before and after a put or a refresh of it.     *)
LEMMA MovedSteps ==
    ASSUME NEW c, NEW b, NEW e, NEW d, NEW f \in File, CacheInv(c), Touched(c, b, f),
           Moved(b, e, f), Touched(e, d, f),
           Limited(c) => \/ CachedFiles(e) = CachedFiles(b)
                         \/ Evictable(d.fd[f]) \/ ~Evictable(c.fd[f])
    PROVE  Stepped(c, d, f)
<1>1. /\ CacheInv(b) /\ PinsKept(c, b, f) /\ CachedFiles(c) \subseteq CachedFiles(b)
      /\ c.class # "unlimited" => CachedFiles(b) = CachedFiles(c)
  BY TouchedKeeps
<1>2. /\ CacheInv(e) /\ SameKind(b, e) /\ PinsKept(b, e, f)
      /\ Evicts(b, e, f, CachedFiles(b), CachedFiles(e))
      /\ Limited(b) => Fits(b, f, CachedFiles(b), CachedFiles(e))
  BY DEF Moved
<1>3. /\ CacheInv(d) /\ PinsKept(e, d, f) /\ CachedFiles(e) \subseteq CachedFiles(d)
      /\ e.class # "unlimited" => CachedFiles(d) = CachedFiles(e)
  BY <1>2, TouchedKeeps
<1>4. SameKind(c, b) /\ SameKind(e, d)
  BY DEF Touched
<1>5. SameKind(c, d) /\ e.class = c.class /\ (Limited(c) <=> Limited(b))
  BY <1>2, <1>4 DEF SameKind, Limited
<1>6. PinsKept(c, d, f)
  BY <1>1, <1>2, <1>3 DEF PinsKept
<1>7. CachedFiles(c) \subseteq File /\ CachedFiles(b) \subseteq File
  BY <1>1, CachedAreFiles
<1>8. Evicts(c, d, f, CachedFiles(c), CachedFiles(d))
  <2>1. SUFFICES ASSUME NEW v \in CachedFiles(c) \ CachedFiles(d)
                 PROVE  /\ v # f /\ Evictable(c.fd[v])
                        /\ CachedFiles(c) \ {v} \subseteq CachedFiles(d) /\ d.disk[v] = "absent"
    BY DEF Evicts
  <2>2. v \in CachedFiles(b) \ CachedFiles(e)
    BY <1>1, <1>3
  <2>3. /\ v # f /\ Evictable(b.fd[v])
        /\ CachedFiles(b) \ {v} \subseteq CachedFiles(e) /\ e.disk[v] = "absent"
    BY <1>2, <2>2 DEF Evicts
  <2>4. v \in File
    BY <1>7
  <2>5. b.fd[v] = c.fd[v] /\ d.disk[v] = e.disk[v]
    BY <2>3, <2>4 DEF Touched
  <2> QED
    BY <1>1, <1>3, <2>3, <2>5
<1>9. ASSUME Limited(c)
      PROVE  /\ Fits(c, f, CachedFiles(c), CachedFiles(d))
             /\ CachedFiles(d) = CachedFiles(c) \/ Evictable(d.fd[f]) \/ ~Evictable(c.fd[f])
  <2>1. CachedFiles(b) = CachedFiles(c) /\ CachedFiles(d) = CachedFiles(e)
    BY <1>1, <1>3, <1>5, <1>9 DEF Limited, LRUBased
  <2>2. Fits(b, f, CachedFiles(c), CachedFiles(d))
    BY <1>2, <1>5, <1>9, <2>1
  <2>3. \A g \in File \ {f} : Evictable(b.fd[g]) <=> Evictable(c.fd[g])
    BY <1>1 DEF PinsKept
  <2>4. f \notin CachedFiles(c) =>
           /\ \A g \in CachedFiles(c) : Evictable(b.fd[g]) <=> Evictable(c.fd[g])
           /\ {g \in CachedFiles(c) : Evictable(b.fd[g])} = {g \in CachedFiles(c) : Evictable(c.fd[g])}
    BY <1>7, <2>3
  <2>5. Fits(c, f, CachedFiles(c), CachedFiles(d))
    BY <2>2, <2>4 DEF Fits
  <2> QED
    BY <1>9, <2>1, <2>5
<1> QED
  BY <1>3, <1>5, <1>6, <1>8, <1>9 DEF Stepped

\* An operation on a descriptor keeps its fields, and an available file available.
KeepsFd(fd, new) ==
    DOMAIN fd = FdFields =>
        DOMAIN new = FdFields /\ (fd.file_available => new.file_available)

(* The operations of FileDescriptor keep its fields.                       *)
LEMMA DescriptorOperations ==
    /\ \A fd : /\ KeepsFd(fd, lock(fd)) /\ KeepsFd(fd, unlock(fd))
               /\ KeepsFd(fd, removeAllNotificationSockets(fd))
               /\ KeepsFd(fd, setFileUsedBySimulator(fd, TRUE))
               /\ KeepsFd(fd, setFileUsedBySimulator(fd, FALSE))
               /\ KeepsFd(fd, setFileUsedBySimulator(setFileAvailable(fd), FALSE))
    /\ \A fd, s : KeepsFd(fd, appendNotificationSocket(fd, s))
<1>1. FdFields = {"file_available", "lock_count", "used", "sockets"}
  BY DEF FdFields, NoDescriptor
<1> QED
  BY <1>1 DEF KeepsFd, lock, unlock, removeAllNotificationSockets, setFileUsedBySimulator,
              setFileAvailable, appendNotificationSocket

(* The descriptors the handlers put.                                       *)
LEMMA NewDescriptors ==
    /\ DOMAIN NoDescriptor = FdFields /\ NoDescriptor.file_available = FALSE
    /\ DOMAIN lock(NoDescriptor) = FdFields /\ lock(NoDescriptor).file_available = FALSE
    /\ DOMAIN setFileAvailable(NoDescriptor) = FdFields
    /\ setFileAvailable(NoDescriptor).file_available = TRUE
    /\ Evictable(setFileAvailable(NoDescriptor))
  BY DEF FdFields, NoDescriptor, lock, setFileAvailable, Evictable, isFileUsedBySimulator

(* A handler that changes nothing touches f.                               *)
LEMMA TouchedSelf ==
    ASSUME NEW c, NEW f \in File, CacheInv(c)
    PROVE  Touched(c, c, f)
  BY DEF Touched, CacheInv, SameKind, UnlimitedShape

(* A new value of the descriptor of f, requested or not.                   *)
LEMMA DescriptorTouched ==
    ASSUME NEW c, NEW f \in File, NEW fd, NEW W, CacheInv(c), KeepsFd(c.fd[f], fd)
    PROVE  Touched(c, [c EXCEPT !.fd[f] = fd, !.requested = W], f)
           /\ Touched(c, [c EXCEPT !.fd[f] = fd], f)
<1>1. /\ DOMAIN c = CacheFields /\ DOMAIN c.fd = File /\ DOMAIN c.disk = File
      /\ c.class = "unlimited" => DOMAIN c.fd[f] = FdFields
  BY DEF CacheInv, UnlimitedShape
<1>2. ASSUME NEW d, DOMAIN d = CacheFields, SameKind(c, d), d.lru = c.lru,
             d.waiting = c.waiting, d.cost = c.cost, d.arc = c.arc, d.lirs = c.lirs,
             d.files = c.files, d.fifo = c.fifo, d.bcl = c.bcl, d.disk = c.disk,
             d.fd = [c.fd EXCEPT ![f] = fd]
      PROVE  Touched(c, d, f)
  <2>1. /\ DOMAIN d.fd = File /\ d.fd[f] = fd /\ \A g \in File \ {f} : d.fd[g] = c.fd[g]
    BY <1>1, <1>2
  <2>2. c.class = "unlimited" =>
            DOMAIN fd = FdFields /\ (c.fd[f].file_available => fd.file_available)
    BY <1>1 DEF KeepsFd
  <2> QED
    BY <1>1, <1>2, <2>1, <2>2 DEF Touched
<1>3. Touched(c, [c EXCEPT !.fd[f] = fd, !.requested = W], f)
  <2> DEFINE d == [c EXCEPT !.fd[f] = fd, !.requested = W]
  <2>1. /\ DOMAIN d = CacheFields /\ SameKind(c, d) /\ d.lru = c.lru
        /\ d.waiting = c.waiting /\ d.cost = c.cost /\ d.arc = c.arc /\ d.lirs = c.lirs
        /\ d.files = c.files /\ d.fifo = c.fifo /\ d.bcl = c.bcl /\ d.disk = c.disk
        /\ d.fd = [c.fd EXCEPT ![f] = fd]
    BY <1>1 DEF CacheFields, SameKind
  <2> HIDE DEF d
  <2>2. Touched(c, d, f)
    BY <1>2, <2>1
  <2> QED
    BY <2>2 DEF d
<1>4. Touched(c, [c EXCEPT !.fd[f] = fd], f)
  <2> DEFINE d == [c EXCEPT !.fd[f] = fd]
  <2>1. /\ DOMAIN d = CacheFields /\ SameKind(c, d) /\ d.lru = c.lru
        /\ d.waiting = c.waiting /\ d.cost = c.cost /\ d.arc = c.arc /\ d.lirs = c.lirs
        /\ d.files = c.files /\ d.fifo = c.fifo /\ d.bcl = c.bcl /\ d.disk = c.disk
        /\ d.fd = [c.fd EXCEPT ![f] = fd]
    BY <1>1 DEF CacheFields, SameKind
  <2> HIDE DEF d
  <2>2. Touched(c, d, f)
    BY <1>2, <2>1
  <2> QED
    BY <2>2 DEF d
<1> QED
  BY <1>3, <1>4

\* get pays for an entry of the ETD at most.
LEMMA GetTouches ==
    ASSUME NEW c, NEW f \in File, CacheInv(c)
    PROVE  /\ Touched(c, cacheGet(c, f), f)
           /\ c.class = "unlimited" => cacheGet(c, f) = c
           /\ cacheGet(c, f).fd = c.fd
<1> DEFINE d == cacheGet(c, f)
           entries == {e \in Range(c.bcl.etd) : e.key = f}
           n == Max({0, c.bcl.a_cost - (CHOOSE e \in entries : TRUE).cost})
           p == [c EXCEPT !.bcl.a_cost = n]
<1>1. d = c \/ (c.class \in {"DCL", "PDCL"} /\ d = p)
  BY DEF cacheGet, actualGet, depreciateAcost
<1>2. c.class = "unlimited" => d = c
  BY DEF cacheGet, LRUBased
<1> HIDE DEF d, n
<1>3. CASE d = c
  BY <1>3, TouchedSelf DEF d
<1>4. CASE c.class \in {"DCL", "PDCL"} /\ d = p
  <2>1. /\ DOMAIN c = CacheFields /\ DOMAIN c.fd = File /\ DOMAIN c.disk = File
        /\ DOMAIN c.bcl = BclFields
    BY <1>4 DEF CacheInv, LRUInv, Policy, LRUBased
  <2>2. /\ DOMAIN p = CacheFields /\ SameKind(c, p) /\ p.lru = c.lru
        /\ p.waiting = c.waiting /\ p.cost = c.cost /\ p.arc = c.arc /\ p.lirs = c.lirs
        /\ p.files = c.files /\ p.fifo = c.fifo /\ p.fd = c.fd /\ p.disk = c.disk
        /\ p.bcl = [c.bcl EXCEPT !.a_cost = n]
    BY <2>1 DEF CacheFields, SameKind
  <2> HIDE DEF p
  <2>3. DOMAIN p.bcl = BclFields /\ p.bcl.listed = c.bcl.listed
    BY <2>1, <2>2 DEF BclFields
  <2>4. Touched(c, p, f)
    BY <1>4, <2>1, <2>2, <2>3 DEF Touched
  <2> QED
    BY <1>4, <2>2, <2>4 DEF d
<1> QED
  BY <1>1, <1>2, <1>3, <1>4 DEF d

(* Two touches are one.                                                    *)
LEMMA TouchedTwice ==
    ASSUME NEW c, NEW b, NEW d, NEW f, Touched(c, b, f), Touched(b, d, f)
    PROVE  Touched(c, d, f)
  BY DEF Touched, SameKind

-----------------------------------------------------------------------------
(* Each handler, and the start, does what Stepped says.                    *)
LEMMA StartSteps ==
    ASSUME NEW c, NEW f \in File, CacheInv(c), ~c.lirs.exited,
           c.class \in LRUBased => c.fifo.queue = <<>>
    PROVE  LET fd == setFileAvailable(NoDescriptor)
               d == IF c.wrapped THEN put_LRUBased(c, f, fd) ELSE cachePut(c, f, fd)
           IN  /\ Stepped(c, d, f)
               /\ c.class \in LRUBased => d.fifo.queue = <<>>
<1> DEFINE fd == setFileAvailable(NoDescriptor)
           d == IF c.wrapped THEN put_LRUBased(c, f, fd) ELSE cachePut(c, f, fd)
<1>1. DOMAIN fd = FdFields /\ fd.file_available = TRUE /\ Evictable(fd)
  BY NewDescriptors
<1>2. Touched(c, c, f) /\ c.wrapped \in BOOLEAN
  BY TouchedSelf DEF CacheInv
<1> HIDE DEF fd
<1>3. CASE c.wrapped
  <2>1. d = put_LRUBased(c, f, fd)
    BY <1>3
  <2>2. c.class \in LRUBased /\ LRUInv(c) /\ c.fifo.queue = <<>>
    BY <1>3 DEF CacheInv
  <2>3. f \notin Range(c.fifo.queue)
    BY <2>2 DEF Range
  <2>4. Outcome(c, d, f, Cached_Fifo(c), Cached_Fifo(d)) /\ d.fifo = c.fifo
    BY <2>1, <2>2, <2>3, LRUBasedPutOutcome
  <2> HIDE DEF d
  <2>5. Moved(c, d, f)
    BY <1>3, <2>2, <2>4, MovedLRU
  <2>6. Touched(d, d, f)
    BY <2>5, TouchedSelf DEF Moved
  <2>7. ~Limited(c)
    BY <1>3 DEF Limited
  <2>8. Stepped(c, d, f)
    BY <1>2, <2>5, <2>6, <2>7, MovedSteps
  <2> QED
    BY <2>2, <2>4, <2>8 DEF d, fd
<1>4. CASE ~c.wrapped
  <2>1. d = cachePut(c, f, fd)
    BY <1>2, <1>4
  <2>2. /\ Moved(c, d, f)
        /\ Limited(c) => d = c \/ (Evictable(d.fd[f]) <=> Evictable(fd))
    BY <1>1, <2>1, PutMoves
  <2> HIDE DEF d
  <2>3. Touched(d, d, f)
    BY <2>2, TouchedSelf DEF Moved
  <2>4. Stepped(c, d, f)
    BY <1>1, <1>2, <2>2, <2>3, MovedSteps
  <2>5. c.class \in LRUBased => d.fifo.queue = <<>>
    BY <1>4, <2>2 DEF Moved, CacheInv, SameKind
  <2> QED
    BY <2>4, <2>5 DEF d, fd
<1> QED
  BY <1>2, <1>3, <1>4

(* handleOpen gets the descriptor, and locks it or puts a new one.         *)
LEMMA OpenSteps ==
    ASSUME NEW c, NEW f \in File, CacheInv(c), ~c.lirs.exited
    PROVE  LET got == cacheGet(c, f)
               d == IF HasDescriptor(c, f) THEN lockFile(got, f)
                    ELSE cachePut(got, f, lock(NoDescriptor))
           IN  Stepped(c, d, f)
<1> DEFINE got == cacheGet(c, f)
           d == IF HasDescriptor(c, f) THEN lockFile(got, f)
                ELSE cachePut(got, f, lock(NoDescriptor))
<1>1. /\ Touched(c, got, f) /\ (c.class = "unlimited" => got = c)
  BY GetTouches
<1> HIDE DEF got
<1>2. /\ CacheInv(got)
      /\ c.class # "unlimited" => CachedFiles(got) = CachedFiles(c)
  BY <1>1, TouchedKeeps
<1>3. ~got.lirs.exited
  BY <1>1 DEF Touched
<1>4. CASE HasDescriptor(c, f)
  <2>1. d = lockFile(got, f)
    BY <1>4
  <2> DEFINE fd == lock(got.fd[f])
             W == got.requested \cup {f}
             l == [got EXCEPT !.fd[f] = fd, !.requested = W]
  <2>2. lockFile(got, f) = l
    BY DEF lockFile
  <2>3. KeepsFd(got.fd[f], fd)
    BY DescriptorOperations
  <2> HIDE DEF fd, W
  <2>4. Touched(got, l, f)
    BY <1>2, <2>3, DescriptorTouched
  <2> HIDE DEF l, d
  <2>5. Touched(c, d, f)
    BY <1>1, <2>1, <2>2, <2>4, TouchedTwice
  <2>6. Stepped(c, d, f)
    BY <2>5, TouchedSteps
  <2> QED
    BY <2>6 DEF d, got
<1>5. CASE ~HasDescriptor(c, f)
  <2> DEFINE fd == lock(NoDescriptor)
  <2>1. d = cachePut(got, f, fd)
    BY <1>5
  <2>2. DOMAIN fd = FdFields /\ fd.file_available = FALSE
    BY NewDescriptors
  <2>3. f \notin CachedFiles(got)
    BY <1>1, <1>2, <1>5 DEF HasDescriptor
  <2> HIDE DEF fd
  <2>4. /\ Moved(got, d, f)
        /\ Limited(got) => CachedFiles(d) = CachedFiles(got)
    BY <1>2, <1>3, <2>1, <2>2, <2>3, PutMoves
  <2> HIDE DEF d
  <2>5. Touched(d, d, f)
    BY <2>4, TouchedSelf DEF Moved
  <2>6. Limited(c) <=> Limited(got)
    BY <1>1 DEF Touched, Limited, SameKind
  <2>7. Stepped(c, d, f)
    BY <1>1, <2>4, <2>5, <2>6, MovedSteps
  <2> QED
    BY <2>7 DEF d, got, fd
<1> QED
  BY <1>4, <1>5

(* The create of a file puts a descriptor unless there is one.             *)
LEMMA CreateSteps ==
    ASSUME NEW c, NEW f \in File, CacheInv(c), ~c.lirs.exited
    PROVE  LET known == IF HasDescriptor(c, f) THEN c ELSE cachePut(c, f, NoDescriptor)
               d == [known EXCEPT !.fd[f] = setFileUsedBySimulator(@, TRUE)]
           IN  Stepped(c, d, f)
<1> DEFINE known == IF HasDescriptor(c, f) THEN c ELSE cachePut(c, f, NoDescriptor)
           d == [known EXCEPT !.fd[f] = setFileUsedBySimulator(@, TRUE)]
<1>1. Touched(c, c, f)
  BY TouchedSelf
<1>2. ASSUME CacheInv(known) PROVE Touched(known, d, f)
  <2> DEFINE fd == setFileUsedBySimulator(known.fd[f], TRUE)
  <2>1. KeepsFd(known.fd[f], fd)
    BY DescriptorOperations
  <2> HIDE DEF known
  <2>2. d = [known EXCEPT !.fd[f] = fd]
    OBVIOUS
  <2> HIDE DEF d, fd
  <2>3. Touched(known, [known EXCEPT !.fd[f] = fd], f)
    BY <1>2, <2>1, DescriptorTouched
  <2> QED
    BY <2>2, <2>3
<1>3. CASE HasDescriptor(c, f)
  <2>1. known = c
    BY <1>3
  <2> HIDE DEF known, d
  <2>2. Touched(c, d, f)
    BY <1>2, <2>1
  <2>3. Stepped(c, d, f)
    BY <2>2, TouchedSteps
  <2> QED
    BY <2>3 DEF known, d
<1>4. CASE ~HasDescriptor(c, f)
  <2>1. known = cachePut(c, f, NoDescriptor)
    BY <1>4
  <2>2. f \notin CachedFiles(c)
    BY <1>4 DEF HasDescriptor
  <2>3. /\ Moved(c, known, f)
        /\ Limited(c) => CachedFiles(known) = CachedFiles(c)
    BY <2>1, <2>2, PutMoves, NewDescriptors
  <2> HIDE DEF known, d
  <2>4. Touched(known, d, f)
    BY <1>2, <2>3 DEF Moved
  <2>5. Stepped(c, d, f)
    BY <1>1, <2>3, <2>4, MovedSteps
  <2> QED
    BY <2>5 DEF known, d
<1> QED
  BY <1>3, <1>4

(* The close of a file completes, refreshes and announces it.              *)
LEMMA CloseSteps ==
    ASSUME NEW c, NEW f \in File, CacheInv(c), ~c.lirs.exited, isFileUsedBySimulator(c.fd[f])
    PROVE  LET complete == [c EXCEPT !.fd[f] =
                                setFileUsedBySimulator(setFileAvailable(@), FALSE)]
               moved == cacheRefresh(complete, f)
               d == IF moved.lirs.exited THEN [c EXCEPT !.lirs.exited = TRUE]
                    ELSE [moved EXCEPT !.fd[f] = removeAllNotificationSockets(@)]
           IN  Stepped(c, d, f)
<1> DEFINE complete == [c EXCEPT !.fd[f] =
                            setFileUsedBySimulator(setFileAvailable(@), FALSE)]
           moved == cacheRefresh(complete, f)
           d == IF moved.lirs.exited THEN [c EXCEPT !.lirs.exited = TRUE]
                ELSE [moved EXCEPT !.fd[f] = removeAllNotificationSockets(@)]
<1>1. Touched(c, complete, f)
  <2> DEFINE fd == setFileUsedBySimulator(setFileAvailable(c.fd[f]), FALSE)
  <2>1. KeepsFd(c.fd[f], fd)
    BY DescriptorOperations
  <2>2. complete = [c EXCEPT !.fd[f] = fd]
    OBVIOUS
  <2> HIDE DEF complete, fd
  <2> QED
    BY <2>1, <2>2, DescriptorTouched
<1> HIDE DEF complete
<1>2. CacheInv(complete) /\ ~complete.lirs.exited /\ SameKind(c, complete)
  BY <1>1, TouchedKeeps DEF Touched
<1>3. Moved(complete, moved, f)
  BY <1>2, RefreshMoves
<1> HIDE DEF moved
<1>4. CASE moved.lirs.exited
  <2> DEFINE e == [c EXCEPT !.lirs.exited = TRUE]
  <2>1. d = e
    BY <1>4
  <2>2. c.class = "LIRS"
    <3>1. CacheInv(moved) /\ moved.class = c.class
      BY <1>2, <1>3 DEF Moved, SameKind
    <3>2. moved.lirs # IdleLirs
      BY <1>4 DEF IdleLirs
    <3> QED
      BY <3>1, <3>2 DEF CacheInv
  <2>3. LirsShape(c) /\ DOMAIN c = CacheFields /\ DOMAIN c.lirs = LirsFields
    BY <2>2 DEF CacheInv, LirsShape, LirsCache, LirsInv
  <2>4. /\ DOMAIN e = CacheFields /\ SameKind(c, e) /\ e.fd = c.fd /\ e.disk = c.disk
        /\ e.lirs = [c.lirs EXCEPT !.exited = TRUE]
    BY <2>3 DEF CacheFields, SameKind
  <2> HIDE DEF e, d
  <2>5. /\ DOMAIN e.lirs = LirsFields /\ e.lirs.exited = TRUE
        /\ e.lirs.S = c.lirs.S /\ e.lirs.Q = c.lirs.Q /\ e.lirs.state = c.lirs.state
        /\ e.lirs.LIR_size = c.lirs.LIR_size
    BY <2>3, <2>4 DEF LirsFields
  <2>6. LirsCache(e, {}) /\ Cached_LIRS(e) = Cached_LIRS(c)
    BY <2>3, <2>4, <2>5 DEF LirsShape, LirsCache, LirsInv, InState, Cached_LIRS
  <2>7. LirsOutcome(c, e, f)
    BY <2>3, <2>4, <2>6, SameFiles DEF LirsShape
  <2>8. Moved(c, e, f)
    BY <2>2, <2>7, MovedLIRS
  <2>9. CachedFiles(e) = CachedFiles(c)
    BY <2>2, <2>4, <2>6, <2>8, CachedByClass DEF Moved, SameKind
  <2>10. Stepped(c, e, f)
    BY <2>8, <2>9 DEF Moved, Stepped
  <2> QED
    BY <2>1, <2>10 DEF d, moved, complete
<1>5. CASE ~moved.lirs.exited
  <2> DEFINE fd == removeAllNotificationSockets(moved.fd[f])
  <2>1. d = [moved EXCEPT !.fd[f] = fd]
    BY <1>5
  <2>2. KeepsFd(moved.fd[f], fd)
    BY DescriptorOperations
  <2> HIDE DEF fd, d
  <2>3. Touched(moved, d, f)
    BY <1>3, <2>1, <2>2, DescriptorTouched DEF Moved
  <2>4. ~Evictable(c.fd[f])
    BY DEF Evictable
  <2>5. Stepped(c, d, f)
    BY <1>1, <1>3, <2>3, <2>4, MovedSteps
  <2> QED
    BY <2>5 DEF d, moved, complete
<1> QED
  BY <1>4, <1>5

(* The cache created at the start, of whatever class.                      *)
LEMMA NewCache ==
    ASSUME NEW class \in LRUBased \cup {"LIRS", "ARC", "unlimited"}, NEW w \in BOOLEAN,
           NEW files, w => class \in LRUBased
    PROVE  LET c == newCache(class, w, files)
           IN  /\ CacheInv(c) /\ CachedFiles(c) = {} /\ c.fifo.queue = <<>>
               /\ \A f \in File : Evictable(c.fd[f])
<1> DEFINE c == newCache(class, w, files)
           none == <<>>
<1>1. none \in Seq(File) /\ IsInjective(none) /\ Range(none) = {} /\ Len(none) = 0
  BY DEF IsInjective, Range
<1>2. IsFiniteSet({}) /\ Cardinality({}) = 0
  BY FS_EmptySet
<1>3. /\ DOMAIN c = CacheFields /\ c.class = class /\ c.wrapped = w /\ c.lru = none
      /\ c.waiting = {} /\ c.files = {} /\ c.cost = [f \in File |-> 0]
      /\ c.fd = [f \in File |-> NoDescriptor]
      /\ DOMAIN c.disk = File
  BY DEF newCache, CacheFields
<1>4. /\ DOMAIN c.bcl = BclFields /\ c.bcl.listed = {}
      /\ c.bcl.a_cost = 0 /\ c.bcl.loaded = 0 /\ c.bcl.paid = 0
  BY DEF newCache, BclFields
<1>5. /\ DOMAIN c.arc = ArcFields /\ c.arc.T1 = none /\ c.arc.T2 = none
      /\ c.arc.B1 = none /\ c.arc.B2 = none /\ c.arc.ghost = [f \in File |-> "Regular"]
  BY DEF newCache, ArcFields
<1>6. c.lirs = IdleLirs
  BY DEF newCache, IdleLirs
<1>7. /\ DOMAIN c.fifo = {"queue", "capacity"} /\ c.fifo.queue = none
      /\ c.fifo.capacity \in Nat
  BY FileCacheOptionsAssumption DEF newCache
<1> HIDE DEF c
<1>8. \A f \in File : Evictable(c.fd[f]) /\ DOMAIN c.fd[f] = FdFields
  BY <1>3 DEF FdFields, NoDescriptor, Evictable, isFileUsedBySimulator
<1> HIDE DEF none
<1>9. Cached(c) = {} /\ Cached_Fifo(c) = {} /\ Cached_ARC(c) = {}
  BY <1>1, <1>3, <1>5, <1>7 DEF Cached, Cached_Fifo, Cached_ARC
<1>10. class \in LRUBased => LRUInv(c)
  <2>1. Penalised(c) /\ Bounded(c)
    BY <1>4, <1>9 DEF Penalised, Bounded, Sacrifice
  <2>2. class \in LRUBased => Policy(c)
    BY <1>1, <1>3, <1>4, <2>1 DEF Policy
  <2>3. Places(c)
    BY <1>1, <1>3, <1>7, <1>9 DEF Places, PlacesOf
  <2> QED
    BY <2>2, <2>3 DEF LRUInv
<1>11. LirsShape(c) /\ Cached_LIRS(c) = {}
  <2>1. /\ DOMAIN c.lirs = LirsFields /\ c.lirs.exited = FALSE /\ c.lirs.LIR_size = 0
        /\ c.lirs.S = none /\ c.lirs.Q = none /\ c.lirs.state = [f \in File |-> "None"]
    BY <1>6 DEF IdleLirs, LirsFields, none
  <2>2. InState(c.lirs, "LIR") = {}
    BY <2>1 DEF InState
  <2>3. {f \in File : c.lirs.state[f] # "None"} = {}
        /\ {f \in File : c.lirs.state[f] \in {"ResidentHIR", "ResidentHIRnotInSqueue"}} = {}
    BY <2>1
  <2>4. c.lirs.state \in [File -> State] /\ \A f \in File : c.lirs.state[f] = "None"
    BY <2>1 DEF State
  <2>5. 0 \in Nat /\ 0 <= lir_set_size /\ 0 <= resident_hir_capacity
    BY LirsCapacities DEF LirsCapacity
  <2> DEFINE l == c.lirs
  <2>7. /\ Range(l.S) = {f \in File : l.state[f] # "None"}
        /\ Range(l.Q) = {f \in File : l.state[f] \in {"ResidentHIR", "ResidentHIRnotInSqueue"}} \ {}
    BY <1>1, <2>1, <2>3, Zenon
  <2> HIDE DEF l
  <2>8. LirsInv(l, {})
    BY <1>1, <1>2, <2>1, <2>2, <2>4, <2>5, <2>7 DEF LirsInv, l
  <2>6. Cached_LIRS(c) = {}
    BY <2>4 DEF Cached_LIRS, StateWithFile
  <2> QED
    BY <1>3, <2>6, <2>8 DEF LirsShape, LirsCache, l
<1>12. ArcShape(c)
  BY <1>1, <1>3, <1>5 DEF ArcShape, Lists
<1>13. UnlimitedShape(c) /\ UnlimitedFiles(c) = {}
  BY <1>3, <1>8 DEF UnlimitedShape, UnlimitedFiles
<1>14. CacheInv(c)
  BY <1>3, <1>6, <1>7, <1>10, <1>11, <1>12, <1>13 DEF CacheInv, none
<1>15. CachedFiles(c) = {}
  BY <1>3, <1>9, <1>11, <1>13, <1>14, CachedByClass DEF CacheInv
<1> QED
  BY <1>7, <1>8, <1>14, <1>15 DEF c, none

\* The start puts the files of the directory before any handler runs.
Inv ==
    /\ CacheInv(cache)
    /\ unread \subseteq File
    /\ cache.class \in LRUBased /\ unread # {} => cache.fifo.queue = <<>>

InitEmpty == CachedFiles(cache) = {} /\ \A f \in File : Evictable(cache.fd[f])

(* A new DV has an empty cache.                                            *)
LEMMA InitAgrees ==
    ASSUME Init
    PROVE  Inv /\ InitEmpty
<1>1. unread \subseteq File
  BY DEF Init
<1>2. \A t \in FileCacheType : createdClass(t) \in LRUBased \cup {"LIRS", "ARC", "unlimited"}
  BY DEF FileCacheType, createdClass, LRUBased
<1>3. CASE type \in Types /\ cache = newCache(createdClass(type), FALSE, unread)
  <2>1. createdClass(type) \in LRUBased \cup {"LIRS", "ARC", "unlimited"}
    BY <1>2, <1>3, FileCachesAssumption
  <2> QED
    BY <1>1, <1>3, <2>1, NewCache DEF Inv, InitEmpty
<1>4. CASE type \in WrappedTypes /\ cache = newCache(createdClass(type), TRUE, unread)
  <2>1. createdClass(type) \in LRUBased
    BY <1>4, FileCachesAssumption
  <2> QED
    BY <1>1, <1>4, <2>1, NewCache DEF Inv, InitEmpty
<1> QED
  BY <1>3, <1>4 DEF Init

(* Each handler does what Stepped says.                                    *)
LEMMA HandlerSteps ==
    ASSUME NEW f \in File, Inv, ~cache.lirs.exited, Handler(f)
    PROVE  Stepped(cache, cache', f)
<1> DEFINE c == cache
           d == cache'
<1>1. CacheInv(c)
  BY DEF Inv
<1>2. CASE ClientFileOpen(f)
  BY <1>1, <1>2, OpenSteps DEF ClientFileOpen
<1>3. ASSUME NEW s \in Client, ClientVariableGet(f, s) PROVE Stepped(c, d, f)
  <2> DEFINE got == cacheGet(c, f)
             fd == appendNotificationSocket(got.fd[f], s)
  <2>1. d = [got EXCEPT !.fd[f] = fd]
    BY <1>3 DEF ClientVariableGet
  <2>2. Touched(c, got, f)
    BY <1>1, GetTouches
  <2>3. KeepsFd(got.fd[f], fd)
    BY DescriptorOperations
  <2> HIDE DEF got, fd, c, d
  <2>4. CacheInv(got)
    BY <1>1, <2>2, TouchedKeeps
  <2>5. Touched(got, d, f)
    BY <2>1, <2>3, <2>4, DescriptorTouched
  <2>6. Touched(c, d, f)
    BY <2>2, <2>5, TouchedTwice
  <2> QED
    BY <1>1, <2>6, TouchedSteps
<1>4. CASE ClientVariableGetAvailable(f)
  <2>1. Touched(c, d, f)
    BY <1>1, <1>4, GetTouches DEF ClientVariableGetAvailable
  <2> QED
    BY <1>1, <2>1, TouchedSteps
<1>5. ASSUME NEW fd, d = [c EXCEPT !.fd[f] = fd], KeepsFd(c.fd[f], fd)
      PROVE  Stepped(c, d, f)
  <2> HIDE DEF c, d
  <2>1. Touched(c, d, f)
    BY <1>1, <1>5, DescriptorTouched
  <2> QED
    BY <1>1, <2>1, TouchedSteps
<1>6. CASE ClientFileClose(f)
  <2>1. d = [c EXCEPT !.fd[f] = unlock(c.fd[f])]
    BY <1>6 DEF ClientFileClose
  <2>2. KeepsFd(c.fd[f], unlock(c.fd[f]))
    BY DescriptorOperations
  <2> QED
    BY <1>5, <2>1, <2>2
<1>7. CASE SimulatorFileCreate(f)
  BY <1>1, <1>7, CreateSteps DEF SimulatorFileCreate
<1>8. CASE SimulatorFileCreateOutOfRange(f)
  <2>1. d = [c EXCEPT !.fd[f] = setFileUsedBySimulator(c.fd[f], TRUE)]
    BY <1>8 DEF SimulatorFileCreateOutOfRange
  <2>2. KeepsFd(c.fd[f], setFileUsedBySimulator(c.fd[f], TRUE))
    BY DescriptorOperations
  <2> QED
    BY <1>5, <2>1, <2>2
<1>9. CASE SimulatorTruncate(f)
  <2>1. d = [c EXCEPT !.disk[f] = "present"]
    BY <1>9 DEF SimulatorTruncate
  <2>2. DOMAIN c = CacheFields /\ DOMAIN c.fd = File /\ DOMAIN c.disk = File
    BY <1>1 DEF CacheInv
  <2> HIDE DEF c, d
  <2>3. /\ DOMAIN d = CacheFields /\ SameKind(c, d) /\ d.lru = c.lru
        /\ d.waiting = c.waiting /\ d.cost = c.cost /\ d.arc = c.arc /\ d.lirs = c.lirs
        /\ d.files = c.files /\ d.fifo = c.fifo /\ d.bcl = c.bcl /\ d.fd = c.fd
        /\ d.disk = [c.disk EXCEPT ![f] = "present"]
    BY <2>1, <2>2 DEF CacheFields, SameKind
  <2>4. DOMAIN d.disk = File /\ \A g \in File \ {f} : d.disk[g] = c.disk[g]
    BY <2>2, <2>3
  <2>5. Touched(c, d, f)
    BY <1>1, <2>2, <2>3, <2>4 DEF Touched, CacheInv, UnlimitedShape
  <2>6. Stepped(c, d, f)
    BY <1>1, <2>5, TouchedSteps
  <2> QED
    BY <2>6 DEF c, d
<1>10. CASE SimulatorFileClose(f)
  BY <1>1, <1>10, CloseSteps DEF SimulatorFileClose
<1>11. CASE SimulatorFileCloseOutOfRange(f)
  <2>1. d = [c EXCEPT !.fd[f] = setFileUsedBySimulator(c.fd[f], FALSE)]
    BY <1>11 DEF SimulatorFileCloseOutOfRange
  <2>2. KeepsFd(c.fd[f], setFileUsedBySimulator(c.fd[f], FALSE))
    BY DescriptorOperations
  <2> QED
    BY <1>5, <2>1, <2>2
<1> QED
  BY <1>2, <1>3, <1>4, <1>6, <1>7, <1>8, <1>9, <1>10, <1>11 DEF Handler

(* Every step is one of the start or of a handler.                         *)
LEMMA NextAgrees ==
    ASSUME Inv, Next
    PROVE  Inv' /\ \E f \in File : Stepped(cache, cache', f)
<1>1. ~cache.lirs.exited
  BY DEF Next
<1>2. ASSUME NEW f \in File, initializeWithFiles(f)
      PROVE  Inv' /\ Stepped(cache, cache', f)
  <2>1. CacheInv(cache) /\ unread # {} /\ unread' \subseteq File
    BY <1>2 DEF Inv, initializeWithFiles
  <2>2. cache.class \in LRUBased => cache.fifo.queue = <<>>
    BY <2>1 DEF Inv
  <2> DEFINE fd == setFileAvailable(NoDescriptor)
             d == IF cache.wrapped THEN put_LRUBased(cache, f, fd) ELSE cachePut(cache, f, fd)
  <2>3. cache' = d
    BY <1>2 DEF initializeWithFiles
  <2>4. Stepped(cache, d, f) /\ (cache.class \in LRUBased => d.fifo.queue = <<>>)
    BY <1>1, <2>1, <2>2, StartSteps
  <2> HIDE DEF d
  <2> QED
    BY <2>1, <2>3, <2>4 DEF Inv, Stepped, SameKind
<1>3. ASSUME NEW f \in File, unread = {}, unread' = unread, Handler(f)
      PROVE  Inv' /\ Stepped(cache, cache', f)
  BY <1>1, <1>3, HandlerSteps DEF Inv, Stepped
<1> QED
  BY <1>2, <1>3 DEF Next

LEMMA StepAgrees ==
    ASSUME Inv, [Next]_vars
    PROVE  Inv'
  BY NextAgrees DEF vars, Inv

(* The invariant.                                                          *)
LEMMA InvAlways == Spec => []Inv
<1>1. Init => Inv
  BY InitAgrees
<1>2. Inv /\ [Next]_vars => Inv'
  BY StepAgrees
<1> QED
  BY <1>1, <1>2, PTL DEF Spec

(* BCL never gives away, in place of the LRU file, files that cost more    *)
(* together than that file does (findVictim of FileCacheBCL): Acost pays   *)
(* twice the cost of each and is loaded with the cost of the LRU file.     *)
THEOREM SacrificeAlwaysBounded == Spec => []BoundedSacrifice
<1>1. Inv => BoundedSacrifice
  BY DEF Inv, CacheInv, LRUInv, Policy, Bounded, Sacrifice, BoundedSacrifice, LRUBased
<1> QED
  BY <1>1, InvAlways, PTL

(* The partition-aware caches charge the penalty of a hole to each cached  *)
(* file of the partition once (actualPut and evict of FileCachePBCL).      *)
THEOREM PenaltyPaidOnce == Spec => []PenaltyOnce
<1>1. Inv => PenaltyOnce
  BY DEF Inv, CacheInv, LRUInv, Policy, Penalised, PenaltyOnce, FullCost, LRUBased,
         PartitionAware
<1> QED
  BY <1>1, InvAlways, PTL

(* LIRS' assureInvariants holds after every operation, in every cache.     *)
THEOREM QueuesAlwaysAgree == Spec => []QueuesAgree
<1>1. ASSUME Inv PROVE QueuesAgree
  <2> DEFINE l == cache.lirs
             Of(s) == {f \in File : l.state[f] = s}
             HIRs == {f \in File : l.state[f] \in {"ResidentHIR", "ResidentHIRnotInSqueue"}}
  <2>1. HIRs = Of("ResidentHIR") \cup Of("ResidentHIRnotInSqueue")
    OBVIOUS
  <2>2. lir_set_size \in Nat /\ resident_hir_capacity \in Nat
    BY LirsCapacities DEF LirsCapacity
  <2>3. CASE cache.class = "LIRS"
    <3>1. LirsInv(l, {})
      BY <1>1, <2>3 DEF Inv, CacheInv, LirsShape, LirsCache
    <3> QED
      BY <2>1, <3>1 DEF LirsInv, InState, QueuesAgree
  <2>4. CASE cache.class # "LIRS"
    <3>1. l = IdleLirs
      BY <1>1, <2>4 DEF Inv, CacheInv
    <3>2. /\ l.S = <<>> /\ l.Q = <<>> /\ l.state = [f \in File |-> "None"]
          /\ l.LIR_size = 0
      BY <3>1 DEF IdleLirs
    <3>3. Of("LIR") = {} /\ HIRs = {} /\ {f \in File : l.state[f] # "None"} = {}
      BY <3>2
    <3>4. Cardinality(Of("LIR")) = 0
      BY <3>3, FS_EmptySet
    <3>5. l.state \in [File -> State]
      BY <3>2 DEF State
    <3>6. IsInjective(l.Q) /\ Range(l.Q) = {} /\ Range(l.S) = {} /\ Len(l.Q) = 0
      BY <3>2 DEF IsInjective, Range
    <3> QED
      BY <2>1, <2>2, <3>2, <3>3, <3>4, <3>5, <3>6 DEF QueuesAgree
  <2> QED
    BY <2>3, <2>4
<1>2. Inv => QueuesAgree
  BY <1>1
<1> QED
  BY <1>2, InvAlways, PTL

(* Whatever its class, the cache evicts one file at a time, none that a    *)
(* client has open or a simulator writes, and the file leaves the result   *)
(* directory with it (evict of every FileCache).                           *)
THEOREM OneUnusedEvicted == Spec => EvictsOneUnused
<1> DEFINE Fair == \A f \in CachedFiles(cache) \ CachedFiles(cache)' :
                       /\ Evictable(cache.fd[f])
                       /\ CachedFiles(cache) \ {f} \subseteq CachedFiles(cache)'
                       /\ cache'.disk[f] = "absent"
<1>1. ASSUME Inv, [Next]_vars PROVE Fair \/ vars' = vars
  <2>1. CASE UNCHANGED vars
    BY <2>1
  <2>2. CASE Next
    <3>1. PICK f \in File : Stepped(cache, cache', f)
      BY <1>1, <2>2, NextAgrees
    <3> QED
      BY <3>1 DEF Stepped, Evicts
  <2> QED
    BY <1>1, <2>1, <2>2
<1>2. Inv /\ [Next]_vars => [Fair]_vars
  BY <1>1
<1> QED
  BY <1>2, InvAlways, PTL DEF Spec, EvictsOneUnused

(* The caches that keep the capacity hold finitely many files.             *)
LEMMA CachedCount ==
    ASSUME NEW c, CacheInv(c), Limited(c)
    PROVE  Cardinality(CachedFiles(c)) \in Nat
<1>1. CASE c.class \in LRUBased
  <2>1. c.lru \in Seq(File) /\ IsInjective(c.lru)
    BY <1>1 DEF CacheInv, LRUInv, Policy
  <2>2. CachedFiles(c) = Range(c.lru)
    BY <1>1, CachedByClass DEF Limited, Cached
  <2> QED
    BY <2>1, <2>2, CountOfList
<1>2. CASE c.class = "LIRS"
  <2>1. LirsCache(c, {}) /\ CachedFiles(c) = Cached_LIRS(c)
    BY <1>2, CachedByClass DEF CacheInv, LirsShape
  <2> QED
    BY <2>1, ResidentCount, FS_CardinalityType
<1> QED
  BY <1>1, <1>2 DEF Limited

(* A step of a cache that keeps the capacity is a step of the promise.     *)
LEMMA StepsKeepPromise ==
    ASSUME Inv, NEW f \in File, Stepped(cache, cache', f)
    PROVE  [Abstract!Next]_(Abstract!vars)
<1> DEFINE c == cache
           d == cache'
           old == CachedFiles(c)
           new == CachedFiles(d)
           was == {g \in File : ~Evictable(c.fd[g])}
           is == {g \in File : ~Evictable(d.fd[g])}
<1>1. CacheInv(c) /\ CacheInv(d) /\ SameKind(c, d)
  BY DEF Inv, Stepped
<1>2. (KeepsCapacity <=> Limited(c)) /\ (KeepsCapacity' <=> Limited(c))
  BY <1>1 DEF KeepsCapacity, Limited, SameKind
<1>3. CASE ~Limited(c)
  BY <1>2, <1>3 DEF Abstract!vars
<1>4. CASE Limited(c)
  <2>1. /\ Abstract!vars = <<old, was>> /\ Abstract!vars' = <<new, is>>
    BY <1>2, <1>4 DEF Abstract!vars
  <2>2. /\ \A g \in File \ {f} : Evictable(d.fd[g]) <=> Evictable(c.fd[g])
        /\ Fits(c, f, old, new)
        /\ new = old \/ Evictable(d.fd[f]) \/ ~Evictable(c.fd[f])
    BY <1>4 DEF Stepped, PinsKept
  <2>3. is \in {was \cup {f}, was \ {f}}
    <3>1. CASE Evictable(d.fd[f])
      <4>1. is = was \ {f}
        BY <2>2, <3>1
      <4> QED
        BY <4>1
    <3>2. CASE ~Evictable(d.fd[f])
      <4>1. is = was \cup {f}
        BY <2>2, <3>2
      <4> QED
        BY <4>1
    <3> QED
      BY <3>1, <3>2
  <2>4. new = old \/ is \in {was, was \ {f}}
    <3>1. CASE Evictable(d.fd[f])
      <4>1. is = was \ {f}
        BY <2>2, <3>1
      <4> QED
        BY <4>1
    <3>2. CASE ~Evictable(c.fd[f])
      <4>1. was \cup {f} = was
        BY <3>2
      <4> QED
        BY <2>3, <4>1
    <3> QED
      BY <2>2, <3>1, <3>2
  <2>5. old \subseteq File /\ Cardinality(old) \in Nat /\ capacity \in Nat
    BY <1>1, <1>4, CachedAreFiles, CachedCount, FileCacheOptionsAssumption
  <2>6. {g \in old : Evictable(c.fd[g])} = old \ was
    BY <2>5
  <2>7. /\ \A S : Abstract!Cardinality(S) = Cardinality(S)
    BY DEF Abstract!Cardinality, Cardinality
  <2>8. CASE new = old
    <3>1. Abstract!Use(f)
      BY <1>2, <1>4, <2>3, <2>8 DEF Abstract!Use
    <3> QED
      BY <3>1 DEF Abstract!Next
  <2>9. CASE new # old
    <3>1. f \notin old
      BY <2>2, <2>9 DEF Fits
    <3>2. \/ /\ new = old \cup {f}
             /\ ~(Cardinality(old) >= capacity) \/ Cardinality(old \ was) <= 1
          \/ /\ Cardinality(old) >= capacity
             /\ \E v \in old \ was : new = (old \ {v}) \cup {f}
      <4>1. CASE Cardinality(old) < capacity \/ Cardinality({g \in old : Evictable(c.fd[g])}) <= 1
        <5>1. ~(Cardinality(old) >= capacity) \/ Cardinality(old \ was) <= 1
          BY <2>5, <2>6, <4>1
        <5> QED
          BY <2>2, <2>6, <2>9, <5>1 DEF Fits
      <4>2. CASE ~(Cardinality(old) < capacity \/ Cardinality({g \in old : Evictable(c.fd[g])}) <= 1)
        BY <2>2, <2>6, <2>9, <4>2 DEF Fits
      <4> QED
        BY <4>1, <4>2
    <3>3. Abstract!Insert(f)
      BY <1>2, <1>4, <2>4, <2>7, <2>9, <3>1, <3>2
         DEF Abstract!Insert, Abstract!Full, Abstract!NothingToEvict
    <3> QED
      BY <3>3 DEF Abstract!Next
  <2> QED
    BY <2>8, <2>9
<1> QED
  BY <1>3, <1>4

(* The caches based on LRU, and LIRS, implement the promise of a file      *)
(* cache: each handler uses a file, or inserts one into the cache, evicting*)
(* one unused file at most when it is full.                                *)
THEOREM PromisesKept == Spec => KeepsPromise
<1>1. Init => Abstract!Init
  <2>1. ASSUME Init PROVE Abstract!Init
    BY <2>1, InitAgrees DEF InitEmpty, Abstract!Init
  <2> QED
    BY <2>1
<1>2. ASSUME Inv, [Next]_vars PROVE [Abstract!Next]_(Abstract!vars)
  <2>1. CASE UNCHANGED vars
    BY <2>1 DEF vars, Abstract!vars, KeepsCapacity
  <2>2. CASE Next
    BY <1>2, <2>2, NextAgrees, StepsKeepPromise
  <2> QED
    BY <1>2, <2>1, <2>2
<1>3. Inv /\ [Next]_vars => [Abstract!Next]_(Abstract!vars)
  BY <1>2
<1> QED
  BY <1>1, <1>3, InvAlways, PTL DEF Spec, KeepsPromise, Abstract!Spec

=============================================================================
