------------------------- MODULE FileCacheLRUProofs -------------------------
(***************************************************************************)
(* What holds of the LRU file cache for all files, clients and capacities, *)
(* and of the LinkedMap it keeps its files in for all keys, values and     *)
(* capacities.                                                             *)
(*                                                                         *)
(* The cache: the invariant Sound is stated of a value, for a handler      *)
(* makes several calls: each call's lemma says what it makes of such a     *)
(* value.                                                                  *)
(*                                                                         *)
(* The map implements the list of its entries in the order of their last   *)
(* use.  First its structures agree: the two list primitives keep the ids  *)
(* linked both ways, which needs no order.  Then the order: there always   *)
(* is a sequence s of the held ids that the links lead through (OrderInv), *)
(* and each primitive is an operation on s.  A traversal visits s, so that *)
(* the entries are those of s, and the operations on s the abstract ones.  *)
(***************************************************************************)
EXTENDS FileCacheLRU, LinkedMap, OperatorProofs

-----------------------------------------------------------------------------
\* The file cache.

Sound(c) ==
    /\ c \in CacheType
    /\ IsInjective(c.lru)
    /\ Cached(c) \cap c.waiting = {}
    /\ \A f \in Cached(c) : c.fd[f].file_available /\ c.disk[f] = "present"
    /\ \A f \in File : ~Known(c, f) => c.fd[f] = NoDescriptor
    /\ \A f \in File : c.fd[f].sockets # {} => f \in c.waiting

Inv ==
    /\ Sound(cache)
    /\ unread \in SUBSET File
    /\ \A f \in unread : cache.disk[f] = "present" /\ ~Known(cache, f)

-----------------------------------------------------------------------------
\* What the calls of a handler make of a sound cache.

LEMMA Fields ==
    ASSUME NEW c \in CacheType
    PROVE  /\ c.lru \in Seq(File) /\ c.waiting \in SUBSET File
           /\ c.fd \in [File -> Descriptor] /\ c.disk \in [File -> {"absent", "present"}]
           /\ c = [lru |-> c.lru, waiting |-> c.waiting, fd |-> c.fd, disk |-> c.disk]
           /\ Cached(c) \in SUBSET File
BY DEF CacheType, Cached, Range

LEMMA WithDescriptor ==
    ASSUME NEW c \in CacheType, NEW f \in File, NEW d \in Descriptor
    PROVE  [c EXCEPT !.fd[f] = d] = [lru |-> c.lru, waiting |-> c.waiting,
                                     fd |-> [c.fd EXCEPT ![f] = d], disk |-> c.disk]
BY DEF CacheType

LEMMA WithList ==
    ASSUME NEW c \in CacheType, NEW s
    PROVE  [c EXCEPT !.lru = s] = [lru |-> s, waiting |-> c.waiting, fd |-> c.fd, disk |-> c.disk]
BY DEF CacheType

LEMMA WithWaiting ==
    ASSUME NEW c \in CacheType, NEW w
    PROVE  [c EXCEPT !.waiting = w] = [lru |-> c.lru, waiting |-> w, fd |-> c.fd, disk |-> c.disk]
BY DEF CacheType

LEMMA WithFile ==
    ASSUME NEW c \in CacheType, NEW f \in File, NEW e
    PROVE  [c EXCEPT !.disk[f] = e] = [lru |-> c.lru, waiting |-> c.waiting, fd |-> c.fd,
                                       disk |-> [c.disk EXCEPT ![f] = e]]
BY DEF CacheType

LEMMA NoDescriptorType == NoDescriptor \in Descriptor
BY FileCacheLRUAssumption DEF NoDescriptor, Descriptor

LEMMA Evicted ==
    ASSUME NEW c \in CacheType, NEW s \in Seq(File), NEW v \in File
    PROVE  LET r == [c EXCEPT !.lru = s, !.fd[v] = NoDescriptor, !.disk[v] = "absent"]
           IN  /\ r \in CacheType
               /\ r = [lru |-> s, waiting |-> c.waiting, fd |-> [c.fd EXCEPT ![v] = NoDescriptor],
                       disk |-> [c.disk EXCEPT ![v] = "absent"]]
<1> DEFINE c1 == [c EXCEPT !.lru = s]
           c2 == [c1 EXCEPT !.fd[v] = NoDescriptor]
           c3 == [c2 EXCEPT !.disk[v] = "absent"]
<1>1. [c EXCEPT !.lru = s, !.fd[v] = NoDescriptor, !.disk[v] = "absent"] = c3
  OBVIOUS
<1> HIDE DEF c1, c2, c3
<1>2. /\ c1 = [lru |-> s, waiting |-> c.waiting, fd |-> c.fd, disk |-> c.disk]
      /\ c1 \in CacheType
  <2>1. c1 = [lru |-> s, waiting |-> c.waiting, fd |-> c.fd, disk |-> c.disk]
    BY WithList DEF c1
  <2>2. QED  BY <2>1, Fields DEF CacheType
<1>3. /\ c2 = [lru |-> s, waiting |-> c.waiting, fd |-> [c.fd EXCEPT ![v] = NoDescriptor],
               disk |-> c.disk]
      /\ c2 \in CacheType
  <2>1. c2 = [lru |-> c1.lru, waiting |-> c1.waiting, fd |-> [c1.fd EXCEPT ![v] = NoDescriptor],
              disk |-> c1.disk]
    BY <1>2, NoDescriptorType, WithDescriptor DEF c2
  <2>2. c2 = [lru |-> s, waiting |-> c.waiting, fd |-> [c.fd EXCEPT ![v] = NoDescriptor],
              disk |-> c.disk]
    BY <1>2, <2>1
  <2>3. QED  BY <2>2, Fields, NoDescriptorType DEF CacheType
<1>4. /\ c3 = [lru |-> s, waiting |-> c.waiting, fd |-> [c.fd EXCEPT ![v] = NoDescriptor],
               disk |-> [c.disk EXCEPT ![v] = "absent"]]
      /\ c3 \in CacheType
  <2>1. c3 = [lru |-> c2.lru, waiting |-> c2.waiting, fd |-> c2.fd,
              disk |-> [c2.disk EXCEPT ![v] = "absent"]]
    BY <1>3, WithFile DEF c3
  <2>2. c3 = [lru |-> s, waiting |-> c.waiting, fd |-> [c.fd EXCEPT ![v] = NoDescriptor],
              disk |-> [c.disk EXCEPT ![v] = "absent"]]
    BY <1>3, <2>1
  <2>3. QED  BY <2>2, Fields, NoDescriptorType DEF CacheType
<1>5. QED  BY <1>1, <1>4

(* A descriptor changes in place: a lock, a count of writers, a socket.    *)
LEMMA DescriptorChanges ==
    ASSUME NEW c, Sound(c), NEW f \in File, NEW d \in Descriptor,
           Known(c, f),
           f \in Cached(c) => d.file_available,
           d.sockets # {} => f \in c.waiting
    PROVE  Sound([c EXCEPT !.fd[f] = d])
<1> DEFINE r == [c EXCEPT !.fd[f] = d]
<1> HIDE DEF r
<1>1. c \in CacheType
  BY DEF Sound
<1>2. r = [lru |-> c.lru, waiting |-> c.waiting, fd |-> [c.fd EXCEPT ![f] = d], disk |-> c.disk]
  BY <1>1, WithDescriptor DEF r
<1>3. /\ r.lru = c.lru /\ r.waiting = c.waiting /\ r.disk = c.disk
      /\ r.fd = [c.fd EXCEPT ![f] = d] /\ r \in CacheType
  BY <1>1, <1>2, Fields DEF CacheType
<1>4. Cached(r) = Cached(c) /\ \A g : Known(r, g) <=> Known(c, g)
  BY <1>3 DEF Cached, Known
<1>5. /\ \A g \in Cached(c) : r.fd[g].file_available
      /\ \A g \in File : ~Known(c, g) => r.fd[g] = NoDescriptor
      /\ \A g \in File : r.fd[g].sockets # {} => g \in c.waiting
  BY <1>1, <1>3, Fields DEF Sound
<1>6. Sound(r)
  BY <1>3, <1>4, <1>5 DEF Sound
<1>7. QED  BY <1>6 DEF r

(* A file without a descriptor gets one in the waiting list.               *)
LEMMA PutInWaitingList ==
    ASSUME NEW c, Sound(c), NEW f \in File, NEW d \in Descriptor,
           ~d.file_available, d.sockets = {}
    PROVE  /\ Sound(put(c, f, d, capacity))
           /\ Known(put(c, f, d, capacity), f)
           /\ Cached(put(c, f, d, capacity)) = Cached(c)
           /\ put(c, f, d, capacity).fd = IF Known(c, f) THEN c.fd ELSE [c.fd EXCEPT ![f] = d]
<1> DEFINE r == put(c, f, d, capacity)
<1> HIDE DEF r
<1>1. c \in CacheType
  BY DEF Sound
<1>2. CASE Known(c, f)
  BY <1>2 DEF put
<1>3. CASE ~Known(c, f)
  <2>1. [c EXCEPT !.fd[f] = d] = [lru |-> c.lru, waiting |-> c.waiting,
                                  fd |-> [c.fd EXCEPT ![f] = d], disk |-> c.disk]
    BY <1>1, WithDescriptor
  <2>2. r = [[c EXCEPT !.fd[f] = d] EXCEPT !.waiting = @ \cup {f}]
    BY <1>3 DEF put, r
  <2>3. r = [lru |-> c.lru, waiting |-> c.waiting \cup {f},
             fd |-> [c.fd EXCEPT ![f] = d], disk |-> c.disk]
    BY <2>1, <2>2
  <2>4. /\ r.lru = c.lru /\ r.waiting = c.waiting \cup {f} /\ r.disk = c.disk
        /\ r.fd = [c.fd EXCEPT ![f] = d] /\ r \in CacheType
    BY <1>1, <2>3, Fields DEF CacheType
  <2>5. Cached(r) = Cached(c) /\ f \notin Cached(c) /\ \A g : Known(r, g) <=> Known(c, g) \/ g = f
    BY <1>3, <2>4 DEF Cached, Known
  <2>6. /\ \A g \in Cached(c) : r.fd[g].file_available
        /\ \A g \in File : ~Known(r, g) => r.fd[g] = NoDescriptor
        /\ \A g \in File : r.fd[g].sockets # {} => g \in r.waiting
        /\ Cached(r) \cap r.waiting = {}
    BY <1>1, <2>4, <2>5, Fields DEF Sound
  <2>7. Sound(r)
    BY <2>4, <2>5, <2>6 DEF Sound
  <2>8. QED  BY <1>3, <2>4, <2>5, <2>7 DEF r
<1>4. QED  BY <1>2, <1>3

(* The insertion of a file that is not cached evicts one unused file, when *)
(* the cache is full and it has one that is not the MRU, or none.          *)
Outcome(c, r, f) ==
    /\ r \in CacheType /\ IsInjective(r.lru) /\ r.waiting = c.waiting
    /\ \/ /\ Cached(r) = Cached(c) \cup {f} /\ r.fd = c.fd /\ r.disk = c.disk
          /\ Len(c.lru) < capacity \/ VictimPositions(c) = {}
       \/ \E v \in Cached(c) :
             /\ Evictable(c.fd[v]) /\ Len(c.lru) >= capacity
             /\ Cached(r) = (Cached(c) \ {v}) \cup {f}
             /\ r.fd = [c.fd EXCEPT ![v] = NoDescriptor]
             /\ r.disk = [c.disk EXCEPT ![v] = "absent"]

LEMMA ActualPut ==
    ASSUME NEW c \in CacheType, IsInjective(c.lru), NEW f \in File, f \notin Cached(c)
    PROVE  Outcome(c, actualPut(c, f, capacity), f)
<1> DEFINE r == actualPut(c, f, capacity)
<1> HIDE DEF r
<1>0. /\ c.lru \in Seq(File) /\ Len(c.lru) \in Nat /\ DOMAIN c.lru = 1 .. Len(c.lru)
      /\ f \notin Range(c.lru)
  BY Fields DEF Cached
<1>1. CASE Len(c.lru) < capacity \/ VictimPositions(c) = {}
  <2>1. r = [c EXCEPT !.lru = Append(@, f)]
    BY <1>1 DEF actualPut, r
  <2>2. r = [lru |-> Append(c.lru, f), waiting |-> c.waiting, fd |-> c.fd, disk |-> c.disk]
    <3>1. c = [lru |-> c.lru, waiting |-> c.waiting, fd |-> c.fd, disk |-> c.disk]
      BY Fields
    <3>2. [c EXCEPT !.lru = Append(@, f)]
              = [lru |-> Append(c.lru, f), waiting |-> c.waiting, fd |-> c.fd, disk |-> c.disk]
      BY <3>1
    <3>3. QED  BY <2>1, <3>2
  <2>3. /\ Append(c.lru, f) \in Seq(File) /\ IsInjective(Append(c.lru, f))
        /\ Range(Append(c.lru, f)) = Range(c.lru) \cup {f}
    BY <1>0, AppendKeepsInjective
  <2>4. /\ r \in CacheType /\ IsInjective(r.lru) /\ r.waiting = c.waiting
        /\ Cached(r) = Cached(c) \cup {f} /\ r.fd = c.fd /\ r.disk = c.disk
    <3>1. /\ r.lru = Append(c.lru, f) /\ r.waiting = c.waiting
          /\ r.fd = c.fd /\ r.disk = c.disk
      BY <2>2
    <3>2. /\ c.waiting \in SUBSET File /\ c.fd \in [File -> Descriptor]
          /\ c.disk \in [File -> {"absent", "present"}]
      BY Fields
    <3>3. r \in CacheType
      BY <2>2, <2>3, <3>2 DEF CacheType
    <3>4. Cached(r) = Cached(c) \cup {f}
      BY <2>3, <3>1 DEF Cached
    <3>5. QED  BY <2>3, <3>1, <3>3, <3>4
  <2>5. QED  BY <1>1, <2>4 DEF r, Outcome
<1>2. CASE ~(Len(c.lru) < capacity \/ VictimPositions(c) = {})
  <2> DEFINE i == findVictim_LRU(c)
             v == c.lru[i]
             s == RemoveAt(c.lru, i)
  <2>1. i \in VictimPositions(c)
    <3>1. VictimPositions(c) \in SUBSET Nat /\ VictimPositions(c) # {}
      BY <1>0, <1>2 DEF VictimPositions
    <3>2. QED  BY <3>1, MinProperty DEF findVictim_LRU
  <2> HIDE DEF i
  <2>2. i \in 1 .. Len(c.lru) /\ Evictable(c.fd[v]) /\ v \in Cached(c) /\ v \in File
    BY <1>0, <2>1 DEF VictimPositions, Cached, Range
  <2>3. /\ IsInjective(s) /\ Range(s) = Range(c.lru) \ {v} /\ s \in Seq(File)
    BY <1>0, <2>2, RemoveAtInjective, RemoveAtProperties
  <2> HIDE DEF s
  <2>4. /\ Append(s, f) \in Seq(File) /\ IsInjective(Append(s, f))
        /\ Range(Append(s, f)) = Range(s) \cup {f}
    BY <1>0, <2>3, AppendKeepsInjective
  <2>5. /\ evict(c, i) = [lru |-> s, waiting |-> c.waiting,
                           fd |-> [c.fd EXCEPT ![v] = NoDescriptor],
                           disk |-> [c.disk EXCEPT ![v] = "absent"]]
        /\ evict(c, i) \in CacheType
    <3>1. evict(c, i) = [c EXCEPT !.lru = s, !.fd[v] = NoDescriptor, !.disk[v] = "absent"]
      BY DEF evict, s
    <3> HIDE DEF v
    <3> DEFINE w == [c EXCEPT !.lru = s, !.fd[v] = NoDescriptor, !.disk[v] = "absent"]
    <3>2. v \in File /\ s \in Seq(File)
      BY <2>2, <2>3
    <3>3. /\ w = [lru |-> s, waiting |-> c.waiting, fd |-> [c.fd EXCEPT ![v] = NoDescriptor],
                  disk |-> [c.disk EXCEPT ![v] = "absent"]]
          /\ w \in CacheType
      BY <3>2, Evicted
    <3> HIDE DEF w
    <3>4. evict(c, i) = w
      BY <3>1 DEF w
    <3>5. QED  BY <3>3, <3>4
  <2>6. r = [evict(c, i) EXCEPT !.lru = Append(evict(c, i).lru, f)]
    BY <1>2 DEF actualPut, r, i
  <2>7. r = [lru |-> Append(s, f), waiting |-> c.waiting,
             fd |-> [c.fd EXCEPT ![v] = NoDescriptor],
             disk |-> [c.disk EXCEPT ![v] = "absent"]]
    <3> HIDE DEF v
    <3> DEFINE w == evict(c, i)
    <3> HIDE DEF w
    <3>1. /\ w.lru = s /\ w.waiting = c.waiting /\ w.fd = [c.fd EXCEPT ![v] = NoDescriptor]
          /\ w.disk = [c.disk EXCEPT ![v] = "absent"] /\ w \in CacheType
      BY <2>5 DEF w
    <3>2. r = [lru |-> Append(w.lru, f), waiting |-> w.waiting, fd |-> w.fd, disk |-> w.disk]
      BY <2>6, <3>1, WithList DEF w
    <3>3. QED  BY <3>1, <3>2
  <2>8. /\ r.fd = [c.fd EXCEPT ![v] = NoDescriptor] /\ r.disk = [c.disk EXCEPT ![v] = "absent"]
        /\ r.lru = Append(s, f) /\ r.waiting = c.waiting
        /\ r.fd \in [File -> Descriptor] /\ r.disk \in [File -> {"absent", "present"}]
    BY <2>2, <2>7, Fields, NoDescriptorType
  <2>9. r \in CacheType
    BY <2>4, <2>7, <2>8, Fields DEF CacheType
  <2>10. Cached(r) = (Cached(c) \ {v}) \cup {f}
    BY <2>3, <2>4, <2>8 DEF Cached
  <2>11. Len(c.lru) >= capacity
    BY <1>0, <1>2, FileCacheLRUAssumption
  <2> HIDE DEF v
  <2>12. QED  BY <2>2, <2>4, <2>8, <2>9, <2>10, <2>11 DEF r, Outcome
<1>3. QED  BY <1>1, <1>2

-----------------------------------------------------------------------------
\* What a call means for the promise: a use of one file, or an insertion.

Pinned(c) == {f \in File : ~Evictable(c.fd[f])}

Used(c, q, f) ==
    /\ Cached(q) = Cached(c)
    /\ Pinned(q) \in {Pinned(c) \cup {f}, Pinned(c) \ {f}}

Inserted(c, q, f) ==
    /\ f \notin Cached(c)
    /\ Pinned(q) \in {Pinned(c), Pinned(c) \ {f}}
    /\ \/ /\ \/ ~(Cardinality(Cached(c)) >= capacity)
             \/ Cardinality(Cached(c) \ Pinned(c)) <= 1
          /\ Cached(q) = Cached(c) \cup {f}
       \/ /\ Cardinality(Cached(c)) >= capacity
          /\ \E v \in Cached(c) \ Pinned(c) : Cached(q) = (Cached(c) \ {v}) \cup {f}

(* The list has as many entries as the cache holds files, and without a    *)
(* victim at most the file at the MRU position is not in use.              *)
LEMMA Counts ==
    ASSUME NEW c \in CacheType, IsInjective(c.lru)
    PROVE  /\ Cardinality(Cached(c)) = Len(c.lru)
           /\ VictimPositions(c) = {} => Cardinality(Cached(c) \ Pinned(c)) <= 1
<1> DEFINE s == c.lru
           n == Len(s)
<1>1. s \in Seq(File) /\ n \in Nat /\ DOMAIN s = 1 .. n /\ s \in [1 .. n -> Range(s)]
  BY Fields DEF Range
<1> HIDE DEF s, n
<1>2. s \in Surjection(1 .. n, Range(s)) /\ s \in Injection(1 .. n, Range(s))
  <2>1. \A t \in Range(s) : \E i \in 1 .. n : s[i] = t
    BY <1>1 DEF Range
  <2>2. \A i, j \in 1 .. n : s[i] = s[j] => i = j
    BY <1>1 DEF IsInjective, s
  <2>3. QED  BY <1>1, <2>1, <2>2 DEF Surjection, Injection, IsInjective
<1>3. IsFiniteSet(1 .. n) /\ Cardinality(1 .. n) = n
  BY <1>1, FS_Interval
<1>4. Cardinality(Range(s)) = n /\ IsFiniteSet(Range(s))
  BY <1>2, <1>3, FS_Surjection
<1>5. ASSUME VictimPositions(c) = {}
      PROVE  Cardinality(Cached(c) \ Pinned(c)) <= 1
  <2>1. \A i \in 1 .. n - 1 : s[i] \in Pinned(c)
    BY <1>1, <1>5 DEF VictimPositions, Pinned, s, n
  <2>2. Range(s) \ Pinned(c) \subseteq {s[n]}
    <3>1. \A i \in 1 .. n : i = n \/ i \in 1 .. n - 1
      BY <1>1
    <3>2. QED  BY <1>1, <2>1, <3>1 DEF Range
  <2>3. Cardinality(Range(s) \ Pinned(c)) <= Cardinality({s[n]})
    BY <2>2, FS_Singleton, FS_Subset
  <2>4. QED  BY <2>3, FS_Singleton DEF Cached, s
<1>6. QED  BY <1>4, <1>5 DEF Cached, s, n

(* A put of an available file: it is inserted.                             *)
LEMMA InsertedByPut ==
    ASSUME NEW c \in CacheType, IsInjective(c.lru), NEW f \in File, f \notin Cached(c)
    PROVE  Inserted(c, actualPut(c, f, capacity), f)
<1> DEFINE r == actualPut(c, f, capacity)
<1> HIDE DEF r
<1>1. /\ r \in CacheType
      /\ \/ /\ Cached(r) = Cached(c) \cup {f} /\ r.fd = c.fd
            /\ Len(c.lru) < capacity \/ VictimPositions(c) = {}
         \/ \E v \in Cached(c) :
               /\ Evictable(c.fd[v]) /\ Len(c.lru) >= capacity
               /\ Cached(r) = (Cached(c) \ {v}) \cup {f}
               /\ r.fd = [c.fd EXCEPT ![v] = NoDescriptor]
  <2>1. Outcome(c, r, f)
    BY ActualPut DEF r
  <2>2. QED  BY <2>1 DEF Outcome
<1>2. CASE /\ Cached(r) = Cached(c) \cup {f} /\ r.fd = c.fd
           /\ Len(c.lru) < capacity \/ VictimPositions(c) = {}
  <2>1. Pinned(r) = Pinned(c)
    BY <1>2 DEF Pinned
  <2>2. ~(Cardinality(Cached(c)) >= capacity) \/ Cardinality(Cached(c) \ Pinned(c)) <= 1
    <3>1. Len(c.lru) \in Nat
      BY Fields
    <3>2. QED  BY <1>2, <3>1, Counts, FileCacheLRUAssumption
  <2>3. QED  BY <1>2, <2>1, <2>2 DEF Inserted, r
<1>3. CASE \E v \in Cached(c) :
               /\ Evictable(c.fd[v]) /\ Len(c.lru) >= capacity
               /\ Cached(r) = (Cached(c) \ {v}) \cup {f}
               /\ r.fd = [c.fd EXCEPT ![v] = NoDescriptor]
  <2>1. PICK v \in Cached(c) :
               /\ Evictable(c.fd[v]) /\ Len(c.lru) >= capacity
               /\ Cached(r) = (Cached(c) \ {v}) \cup {f}
               /\ r.fd = [c.fd EXCEPT ![v] = NoDescriptor]
    BY <1>3
  <2>2. v \in File /\ v \notin Pinned(c) /\ Evictable(NoDescriptor)
    BY <2>1, Fields DEF Pinned, Evictable, NoDescriptor, isFileUsedBySimulator
  <2>3. Pinned(r) = Pinned(c)
    BY <2>1, <2>2, Fields DEF Pinned
  <2>4. Cardinality(Cached(c)) >= capacity
    BY <2>1, Counts
  <2>5. QED  BY <2>1, <2>2, <2>3, <2>4 DEF Inserted, r
<1>4. QED  BY <1>1, <1>2, <1>3

(* The put of an available file that was not known keeps the cache sound,  *)
(* whatever sockets are left in its descriptor: they are removed next.     *)
LEMMA AvailableFileStored ==
    ASSUME NEW c \in CacheType, IsInjective(c.lru), NEW f \in File, f \notin Cached(c),
           NEW W \in SUBSET File, f \notin W, Cached(c) \cap W = {},
           c.fd[f].file_available, c.disk[f] = "present",
           \A g \in Cached(c) : c.fd[g].file_available /\ c.disk[g] = "present",
           \A g \in File : g # f /\ g \notin Cached(c) \cup W => c.fd[g] = NoDescriptor,
           \A g \in File : g # f /\ c.fd[g].sockets # {} => g \in W,
           NEW q \in CacheType, q.waiting = W,
           q.lru = actualPut(c, f, capacity).lru, q.disk = actualPut(c, f, capacity).disk,
           NEW e \in Descriptor, e.file_available, e.sockets = {},
           q.fd = [actualPut(c, f, capacity).fd EXCEPT ![f] = e]
    PROVE  Sound(q)
<1> DEFINE r == actualPut(c, f, capacity)
<1> HIDE DEF r
<1>1. /\ r \in CacheType /\ IsInjective(r.lru)
      /\ \/ Cached(r) = Cached(c) \cup {f} /\ r.fd = c.fd /\ r.disk = c.disk
         \/ \E v \in Cached(c) :
               /\ Cached(r) = (Cached(c) \ {v}) \cup {f}
               /\ r.fd = [c.fd EXCEPT ![v] = NoDescriptor]
               /\ r.disk = [c.disk EXCEPT ![v] = "absent"]
  <2>1. Outcome(c, r, f)
    BY ActualPut DEF r
  <2>2. QED  BY <2>1 DEF Outcome
<1>2. /\ \A g \in Cached(r) : r.fd[g].file_available /\ r.disk[g] = "present"
      /\ \A g \in File : g \notin Cached(r) \cup W => r.fd[g] = NoDescriptor
      /\ \A g \in File : g # f /\ r.fd[g].sockets # {} => g \in W
      /\ Cached(r) \cap W = {} /\ f \in Cached(r)
  <2>1. CASE Cached(r) = Cached(c) \cup {f} /\ r.fd = c.fd /\ r.disk = c.disk
    BY <2>1
  <2>2. CASE \E v \in Cached(c) :
               /\ Cached(r) = (Cached(c) \ {v}) \cup {f}
               /\ r.fd = [c.fd EXCEPT ![v] = NoDescriptor]
               /\ r.disk = [c.disk EXCEPT ![v] = "absent"]
    <3>1. PICK v \in Cached(c) :
               /\ Cached(r) = (Cached(c) \ {v}) \cup {f}
               /\ r.fd = [c.fd EXCEPT ![v] = NoDescriptor]
               /\ r.disk = [c.disk EXCEPT ![v] = "absent"]
      BY <2>2
    <3>2. v \in File /\ v # f /\ NoDescriptor.sockets = {}
      BY Fields DEF NoDescriptor
    <3>3. \A g \in File : g # v => r.fd[g] = c.fd[g] /\ r.disk[g] = c.disk[g]
      BY <3>1, Fields
    <3>4. r.fd[v] = NoDescriptor
      BY <3>1, <3>2, Fields
    <3>5. Cached(c) \in SUBSET File
      BY Fields
    <3>6. QED  BY <3>1, <3>2, <3>3, <3>4, <3>5
  <2>3. QED  BY <1>1, <2>1, <2>2
<1>3. /\ q.lru = r.lru /\ q.disk = r.disk /\ q.fd = [r.fd EXCEPT ![f] = e]
      /\ Cached(q) = Cached(r)
  BY DEF r, Cached
<1>4. \A g \in File : g # f => q.fd[g] = r.fd[g]
  BY <1>1, <1>3, Fields
<1>5. q.fd[f] = e
  BY <1>1, <1>3, Fields
<1>6. Cached(r) \in SUBSET File
  BY <1>1, Fields
<1>7. QED  BY <1>1, <1>2, <1>3, <1>4, <1>5, <1>6 DEF Sound, Known

-----------------------------------------------------------------------------
\* The handlers.

LEMMA DescriptorOperations ==
    ASSUME NEW d \in Descriptor
    PROVE  /\ d.lock_count < MaxLock => lock(d) \in Descriptor
           /\ unlock(d) \in Descriptor
           /\ d.used < MaxUsed => setFileUsedBySimulator(d, TRUE) \in Descriptor
           /\ setFileUsedBySimulator(d, FALSE) \in Descriptor
           /\ setFileAvailable(d) \in Descriptor
           /\ \A s \in Client : appendNotificationSocket(d, s) \in Descriptor
           /\ removeAllNotificationSockets(d) \in Descriptor
           /\ \A e \in {lock(d), unlock(d), setFileUsedBySimulator(d, TRUE),
                        setFileUsedBySimulator(d, FALSE)} :
                 e.file_available = d.file_available /\ e.sockets = d.sockets
<1>1. /\ d.file_available \in BOOLEAN /\ d.lock_count \in 0 .. MaxLock
      /\ d.used \in 0 .. MaxUsed /\ d.sockets \in SUBSET Client
      /\ MaxLock \in Nat /\ MaxUsed \in Nat
  BY FileCacheLRUAssumption DEF Descriptor
<1>2. /\ d.lock_count < MaxLock => lock(d) \in Descriptor
      /\ lock(d).file_available = d.file_available /\ lock(d).sockets = d.sockets
  BY <1>1 DEF lock, Descriptor
<1>3. /\ unlock(d) \in Descriptor
      /\ unlock(d).file_available = d.file_available /\ unlock(d).sockets = d.sockets
  BY <1>1 DEF unlock, Descriptor
<1>4. /\ d.used < MaxUsed => setFileUsedBySimulator(d, TRUE) \in Descriptor
      /\ setFileUsedBySimulator(d, TRUE).file_available = d.file_available
      /\ setFileUsedBySimulator(d, TRUE).sockets = d.sockets
  BY <1>1 DEF setFileUsedBySimulator, Descriptor
<1>5. /\ setFileUsedBySimulator(d, FALSE) \in Descriptor
      /\ setFileUsedBySimulator(d, FALSE).file_available = d.file_available
      /\ setFileUsedBySimulator(d, FALSE).sockets = d.sockets
  BY <1>1 DEF setFileUsedBySimulator, Descriptor
<1>6. /\ setFileAvailable(d) \in Descriptor
      /\ \A s \in Client : appendNotificationSocket(d, s) \in Descriptor
      /\ removeAllNotificationSockets(d) \in Descriptor
  BY <1>1 DEF setFileAvailable, appendNotificationSocket, removeAllNotificationSockets, Descriptor
<1>7. QED  BY <1>2, <1>3, <1>4, <1>5, <1>6

(* A descriptor that changes in place is a use of its file.                *)
LEMMA UsedInPlace ==
    ASSUME NEW c \in CacheType, NEW f \in File, NEW d \in Descriptor
    PROVE  Used(c, [c EXCEPT !.fd[f] = d], f)
<1> DEFINE r == [c EXCEPT !.fd[f] = d]
<1> HIDE DEF r
<1>1. r = [lru |-> c.lru, waiting |-> c.waiting, fd |-> [c.fd EXCEPT ![f] = d], disk |-> c.disk]
  BY WithDescriptor DEF r
<1>2. Cached(r) = Cached(c) /\ r.fd = [c.fd EXCEPT ![f] = d]
  BY <1>1 DEF Cached
<1>3. Pinned(r) = Pinned(c) \cup {f} \/ Pinned(r) = Pinned(c) \ {f}
  BY <1>2, Fields DEF Pinned
<1>4. QED  BY <1>2, <1>3 DEF Used, r

LEMMA UsedTwice ==
    ASSUME NEW c, NEW k, NEW q, NEW f, Used(c, k, f), Used(k, q, f)
    PROVE  Used(c, q, f)
BY DEF Used

LEMMA OpenAgrees ==
    ASSUME Sound(cache), NEW f \in File, ClientFileOpen(f)
    PROVE  Sound(cache') /\ Used(cache, cache', f)
<1>1. cache \in CacheType /\ cache.fd[f] \in Descriptor /\ cache.fd[f].lock_count < MaxLock
  BY Fields DEF Sound, ClientFileOpen
<1>2. CASE Known(cache, f)
  <2> DEFINE d == lock(cache.fd[f])
  <2>1. /\ d \in Descriptor /\ d.file_available = cache.fd[f].file_available
        /\ d.sockets = cache.fd[f].sockets
    BY <1>1, DescriptorOperations
  <2>2. cache' = [cache EXCEPT !.fd[f] = d]
    BY <1>2 DEF ClientFileOpen
  <2> HIDE DEF d
  <2>3. /\ f \in Cached(cache) => d.file_available
        /\ d.sockets # {} => f \in cache.waiting
    BY <2>1 DEF Sound
  <2>4. QED  BY <1>1, <1>2, <2>1, <2>2, <2>3, DescriptorChanges, UsedInPlace
<1>3. CASE ~Known(cache, f)
  <2> DEFINE d == lock(NoDescriptor)
  <2>1. cache' = put(cache, f, d, capacity)
    BY <1>3 DEF ClientFileOpen
  <2>2. d \in Descriptor /\ ~d.file_available /\ d.sockets = {}
    <3>1. /\ NoDescriptor \in Descriptor /\ NoDescriptor.lock_count < MaxLock
          /\ ~NoDescriptor.file_available /\ NoDescriptor.sockets = {}
      BY NoDescriptorType, FileCacheLRUAssumption DEF NoDescriptor
    <3>2. QED  BY <3>1, DescriptorOperations
  <2> HIDE DEF d
  <2>3. /\ Sound(cache') /\ Cached(cache') = Cached(cache)
        /\ cache'.fd = [cache.fd EXCEPT ![f] = d]
    BY <1>3, <2>1, <2>2, PutInWaitingList
  <2>4. Pinned(cache') = Pinned(cache) \cup {f} \/ Pinned(cache') = Pinned(cache) \ {f}
    BY <1>1, <2>3, Fields DEF Pinned
  <2>5. QED  BY <2>3, <2>4 DEF Used
<1>4. QED  BY <1>2, <1>3

LEMMA VariableGetAgrees ==
    ASSUME Sound(cache), NEW f \in File, NEW s \in Client, ClientVariableGet(f, s)
    PROVE  Sound(cache') /\ Used(cache, cache', f)
<1> DEFINE d == appendNotificationSocket(cache.fd[f], s)
<1>1. cache \in CacheType /\ cache.fd[f] \in Descriptor
  BY Fields DEF Sound
<1>2. /\ Known(cache, f) /\ ~cache.fd[f].file_available
      /\ cache' = [cache EXCEPT !.fd[f] = d]
  BY DEF ClientVariableGet
<1>3. d \in Descriptor
  BY <1>1, DescriptorOperations
<1>4. f \notin Cached(cache) /\ f \in cache.waiting
  BY <1>2 DEF Sound, Known
<1> HIDE DEF d
<1>5. QED  BY <1>1, <1>2, <1>3, <1>4, DescriptorChanges, UsedInPlace

(* A change of the lock or the count of writers alone.                     *)
LEMMA CountAgrees ==
    ASSUME NEW c, Sound(c), NEW f \in File, Known(c, f),
           NEW d \in Descriptor, d.file_available = c.fd[f].file_available,
           d.sockets = c.fd[f].sockets
    PROVE  Sound([c EXCEPT !.fd[f] = d]) /\ Used(c, [c EXCEPT !.fd[f] = d], f)
<1>1. c \in CacheType
  BY DEF Sound
<1>2. /\ f \in Cached(c) => d.file_available
      /\ d.sockets # {} => f \in c.waiting
  BY DEF Sound
<1>3. QED  BY <1>1, <1>2, DescriptorChanges, UsedInPlace

LEMMA CloseOpenedAgrees ==
    ASSUME Sound(cache), NEW f \in File, ClientFileClose(f)
    PROVE  Sound(cache') /\ Used(cache, cache', f)
<1> DEFINE d == unlock(cache.fd[f])
<1>1. cache.fd[f] \in Descriptor
  BY Fields DEF Sound
<1>2. Known(cache, f) /\ cache' = [cache EXCEPT !.fd[f] = d]
  BY DEF ClientFileClose
<1>3. /\ d \in Descriptor /\ d.file_available = cache.fd[f].file_available
      /\ d.sockets = cache.fd[f].sockets
  BY <1>1, DescriptorOperations
<1> HIDE DEF d
<1>4. QED  BY <1>2, <1>3, CountAgrees

LEMMA CreateOutOfRangeAgrees ==
    ASSUME Sound(cache), NEW f \in File, SimulatorFileCreateOutOfRange(f)
    PROVE  Sound(cache') /\ Used(cache, cache', f)
<1> DEFINE d == setFileUsedBySimulator(cache.fd[f], TRUE)
<1>1. cache.fd[f] \in Descriptor
  BY Fields DEF Sound
<1>2. /\ Known(cache, f) /\ cache' = [cache EXCEPT !.fd[f] = d] /\ cache.fd[f].used < MaxUsed
  BY DEF SimulatorFileCreateOutOfRange
<1>3. /\ d \in Descriptor /\ d.file_available = cache.fd[f].file_available
      /\ d.sockets = cache.fd[f].sockets
  BY <1>1, <1>2, DescriptorOperations
<1> HIDE DEF d
<1>4. QED  BY <1>2, <1>3, CountAgrees

LEMMA CloseOutOfRangeAgrees ==
    ASSUME Sound(cache), NEW f \in File, SimulatorFileCloseOutOfRange(f)
    PROVE  Sound(cache') /\ Used(cache, cache', f)
<1> DEFINE d == setFileUsedBySimulator(cache.fd[f], FALSE)
<1>1. cache.fd[f] \in Descriptor
  BY Fields DEF Sound
<1>2. /\ Known(cache, f) /\ cache' = [cache EXCEPT !.fd[f] = d]
  BY DEF SimulatorFileCloseOutOfRange
<1>3. /\ d \in Descriptor /\ d.file_available = cache.fd[f].file_available
      /\ d.sockets = cache.fd[f].sockets
  BY <1>1, DescriptorOperations
<1> HIDE DEF d
<1>4. QED  BY <1>2, <1>3, CountAgrees

LEMMA CreateAgrees ==
    ASSUME Sound(cache), NEW f \in File, SimulatorFileCreate(f)
    PROVE  Sound(cache') /\ Used(cache, cache', f)
<1> DEFINE k == put(cache, f, NoDescriptor, capacity)
           d == setFileUsedBySimulator(k.fd[f], TRUE)
<1>1. cache \in CacheType /\ cache.fd[f] \in Descriptor /\ cache.fd[f].used < MaxUsed
  BY Fields DEF Sound, SimulatorFileCreate
<1>2. cache' = [k EXCEPT !.fd[f] = d]
  BY DEF SimulatorFileCreate
<1> HIDE DEF k
<1>3. /\ Sound(k) /\ Known(k, f) /\ Cached(k) = Cached(cache)
      /\ k.fd = IF Known(cache, f) THEN cache.fd ELSE [cache.fd EXCEPT ![f] = NoDescriptor]
  BY NoDescriptorType, PutInWaitingList DEF k, NoDescriptor
<1>4. k.fd = cache.fd
  <2>1. ~Known(cache, f) => cache.fd[f] = NoDescriptor
    BY DEF Sound
  <2>2. QED  BY <1>1, <1>3, <2>1, Fields
<1>5. Used(cache, k, f)
  <2>1. Pinned(k) = Pinned(cache)
    BY <1>4 DEF Pinned
  <2>2. Pinned(cache) \in {Pinned(cache) \cup {f}, Pinned(cache) \ {f}}
    OBVIOUS
  <2>3. QED  BY <1>3, <2>1, <2>2 DEF Used
<1>6. /\ d \in Descriptor /\ d.file_available = k.fd[f].file_available
      /\ d.sockets = k.fd[f].sockets
  BY <1>1, <1>4, DescriptorOperations
<1> HIDE DEF d
<1>7. Sound(cache') /\ Used(k, cache', f)
  BY <1>2, <1>3, <1>6, CountAgrees
<1>8. QED  BY <1>5, <1>7, UsedTwice

LEMMA TruncateAgrees ==
    ASSUME Sound(cache), NEW f \in File, SimulatorTruncate(f)
    PROVE  Sound(cache') /\ Cached(cache') = Cached(cache) /\ Pinned(cache') = Pinned(cache)
<1>1. cache \in CacheType
  BY DEF Sound
<1>2. cache' = [lru |-> cache.lru, waiting |-> cache.waiting, fd |-> cache.fd,
                disk |-> [cache.disk EXCEPT ![f] = "present"]]
  BY <1>1, WithFile DEF SimulatorTruncate
<1>3. /\ cache'.lru = cache.lru /\ cache'.waiting = cache.waiting /\ cache'.fd = cache.fd
      /\ cache'.disk = [cache.disk EXCEPT ![f] = "present"] /\ cache' \in CacheType
  BY <1>1, <1>2, Fields DEF CacheType
<1>4. /\ Cached(cache') = Cached(cache) /\ Pinned(cache') = Pinned(cache)
      /\ \A g : Known(cache', g) <=> Known(cache, g)
  BY <1>3 DEF Cached, Pinned, Known
<1>5. \A g \in Cached(cache) : cache'.disk[g] = "present"
  BY <1>1, <1>3, Fields DEF Sound
<1>6. QED  BY <1>3, <1>4, <1>5 DEF Sound

(* The close of a complete file: the counts, then the refresh, which moves *)
(* or inserts it, then the sockets.                                        *)
LEMMA CloseAgrees ==
    ASSUME Sound(cache), NEW f \in File, SimulatorFileClose(f)
    PROVE  Sound(cache') /\ (Used(cache, cache', f) \/ Inserted(cache, cache', f))
<1> DEFINE d == setFileUsedBySimulator(setFileAvailable(cache.fd[f]), FALSE)
           complete == [cache EXCEPT !.fd[f] = d]
           moved == refresh(complete, f, capacity)
           e == removeAllNotificationSockets(moved.fd[f])
<1>1. cache \in CacheType /\ cache.fd[f] \in Descriptor /\ Known(cache, f)
  BY Fields DEF Sound, SimulatorFileClose
<1>2. cache' = [moved EXCEPT !.fd[f] = e]
  BY DEF SimulatorFileClose
<1>3. d \in Descriptor /\ d.file_available /\ d.sockets = cache.fd[f].sockets
  <2>1. /\ setFileAvailable(cache.fd[f]) \in Descriptor
        /\ setFileAvailable(cache.fd[f]).file_available = TRUE
        /\ setFileAvailable(cache.fd[f]).sockets = cache.fd[f].sockets
    BY <1>1, DescriptorOperations DEF setFileAvailable, Descriptor
  <2>2. QED  BY <2>1, DescriptorOperations
<1>3a. Evictable(cache.fd[f]) => Evictable(d)
  BY <1>1 DEF setFileUsedBySimulator, setFileAvailable, Descriptor, Evictable, isFileUsedBySimulator
<1> HIDE DEF d
<1>4. Sound(complete) /\ Used(cache, complete, f)
  <2>1. d.sockets # {} => f \in cache.waiting
    BY <1>3 DEF Sound
  <2>2. QED  BY <1>1, <1>3, <2>1, DescriptorChanges, UsedInPlace
<1>5. /\ complete.lru = cache.lru /\ complete.waiting = cache.waiting
      /\ complete.fd = [cache.fd EXCEPT ![f] = d] /\ complete.disk = cache.disk
      /\ complete \in CacheType /\ IsInjective(complete.lru) /\ complete.fd[f] = d
      /\ Cached(complete) = Cached(cache) /\ Known(complete, f)
  <2>1. complete = [lru |-> cache.lru, waiting |-> cache.waiting,
                    fd |-> [cache.fd EXCEPT ![f] = d], disk |-> cache.disk]
    BY <1>1, <1>3, WithDescriptor
  <2> HIDE DEF complete
  <2>2. complete \in CacheType /\ IsInjective(complete.lru)
    BY <1>4 DEF Sound
  <2>3. QED  BY <1>1, <2>1, <2>2, Fields DEF Cached, Known
<1> HIDE DEF complete
<1>6. ASSUME NEW m, Sound(m), Used(complete, m, f), moved = m, Known(m, f),
             f \in Cached(m) => m.fd[f].file_available
      PROVE  Sound(cache') /\ Used(cache, cache', f)
  <2> DEFINE x == removeAllNotificationSockets(m.fd[f])
  <2>1. m \in CacheType /\ m.fd[f] \in Descriptor
    BY <1>6, Fields DEF Sound
  <2>2. x \in Descriptor /\ x.file_available = m.fd[f].file_available /\ x.sockets = {}
    BY <2>1, DescriptorOperations DEF removeAllNotificationSockets, Descriptor
  <2>3. cache' = [m EXCEPT !.fd[f] = x]
    BY <1>2, <1>6
  <2> HIDE DEF x, moved
  <2>4. Sound(cache') /\ Used(m, cache', f)
    BY <1>6, <2>1, <2>2, <2>3, DescriptorChanges, UsedInPlace
  <2>5. QED  BY <1>4, <1>6, <2>4, UsedTwice
<1>7. CASE f \in Cached(complete) /\ f \notin complete.waiting
  <2> DEFINE i == find(complete, f)
             s == Append(RemoveAt(complete.lru, i), f)
             m == [complete EXCEPT !.lru = s]
  <2>1. i \in 1 .. Len(complete.lru) /\ complete.lru[i] = f
    <3>1. complete.lru \in Seq(File) /\ \E k \in DOMAIN complete.lru : complete.lru[k] = f
      BY <1>5, <1>7, Fields DEF Cached, Range
    <3>2. i \in DOMAIN complete.lru /\ complete.lru[i] = f
      BY <3>1 DEF find
    <3>3. QED  BY <3>1, <3>2
  <2>2. moved = m
    BY <1>3, <1>5, <1>7, <2>1 DEF refresh, refreshAt
  <2> HIDE DEF i, moved
  <2>3. /\ s \in Seq(File) /\ IsInjective(s) /\ Range(s) = Range(complete.lru)
    <3> DEFINE l == RemoveAt(complete.lru, i)
    <3>1. complete.lru \in Seq(File)
      BY <1>5, Fields
    <3>2. /\ l \in Seq(File) /\ IsInjective(l) /\ Range(l) = Range(complete.lru) \ {f}
      BY <1>5, <2>1, <3>1, RemoveAtProperties, RemoveAtInjective
    <3> HIDE DEF l
    <3>3. /\ Append(l, f) \in Seq(File) /\ IsInjective(Append(l, f))
          /\ Range(Append(l, f)) = Range(l) \cup {f}
      BY <3>2, AppendKeepsInjective
    <3>4. f \in Range(complete.lru)
      BY <1>7 DEF Cached
    <3>5. QED  BY <3>2, <3>3, <3>4 DEF l
  <2> HIDE DEF s
  <2>4. m = [lru |-> s, waiting |-> complete.waiting, fd |-> complete.fd, disk |-> complete.disk]
    BY <1>5, WithList
  <2>5. /\ m.lru = s /\ m.waiting = complete.waiting /\ m.fd = complete.fd
        /\ m.disk = complete.disk /\ m \in CacheType
    BY <1>5, <2>3, <2>4, Fields DEF CacheType
  <2> HIDE DEF m
  <2>6. Cached(m) = Cached(complete) /\ Pinned(m) = Pinned(complete)
        /\ \A g : Known(m, g) <=> Known(complete, g)
    BY <2>3, <2>5 DEF Cached, Pinned, Known
  <2>7. Sound(m)
    BY <1>4, <2>3, <2>5, <2>6 DEF Sound
  <2>8. Used(complete, m, f)
    <3>1. Pinned(complete) \in {Pinned(complete) \cup {f}, Pinned(complete) \ {f}}
      OBVIOUS
    <3>2. QED  BY <2>6, <3>1 DEF Used
  <2>9. m.fd[f].file_available /\ Known(m, f)
    BY <1>3, <1>5, <2>5, <2>6
  <2>10. QED  BY <1>6, <2>2, <2>7, <2>8, <2>9
<1>8. CASE f \notin Cached(complete) /\ f \in complete.waiting /\ complete.disk[f] # "absent"
  <2> DEFINE r == actualPut(complete, f, capacity)
  <2>1. moved = [r EXCEPT !.waiting = r.waiting \ {f}]
    BY <1>3, <1>5, <1>8 DEF refresh
  <2> HIDE DEF moved
  <2>2. r \in CacheType /\ r.waiting = complete.waiting /\ Outcome(complete, r, f)
    BY <1>5, <1>8, ActualPut DEF Outcome
  <2>3. Inserted(complete, r, f)
    BY <1>5, <1>8, InsertedByPut
  <2> HIDE DEF r
  <2>4. moved = [lru |-> r.lru, waiting |-> r.waiting \ {f}, fd |-> r.fd, disk |-> r.disk]
    BY <2>1, <2>2, WithWaiting
  <2>5. /\ moved.lru = r.lru /\ moved.waiting = r.waiting \ {f}
        /\ moved.fd = r.fd /\ moved.disk = r.disk /\ moved \in CacheType
    BY <2>2, <2>4, Fields DEF CacheType
  <2>6. /\ e \in Descriptor /\ e.sockets = {}
        /\ e.file_available = r.fd[f].file_available
        /\ Evictable(e) <=> Evictable(r.fd[f])
    <3>1. r.fd[f] \in Descriptor /\ e = removeAllNotificationSockets(r.fd[f])
      BY <2>2, <2>5, Fields
    <3> HIDE DEF e
    <3>2. QED  BY <3>1, DescriptorOperations
               DEF removeAllNotificationSockets, Descriptor, Evictable, isFileUsedBySimulator
  <2> HIDE DEF e
  <2>7. /\ cache' = [lru |-> r.lru, waiting |-> r.waiting \ {f},
                     fd |-> [r.fd EXCEPT ![f] = e], disk |-> r.disk]
    BY <1>2, <2>5, <2>6, WithDescriptor
  <2>8. /\ cache'.lru = r.lru /\ cache'.waiting = r.waiting \ {f}
        /\ cache'.fd = [r.fd EXCEPT ![f] = e] /\ cache'.disk = r.disk /\ cache' \in CacheType
    BY <2>2, <2>6, <2>7, Fields DEF CacheType
  <2>9. r.fd[f].file_available
    <3>1. \/ Cached(r) = Cached(complete) \cup {f} /\ r.fd = complete.fd /\ r.disk = complete.disk
          \/ \E v \in Cached(complete) :
                /\ Cached(r) = (Cached(complete) \ {v}) \cup {f}
                /\ r.fd = [complete.fd EXCEPT ![v] = NoDescriptor]
                /\ r.disk = [complete.disk EXCEPT ![v] = "absent"]
      BY <2>2 DEF Outcome
    <3>2. r.fd[f] = complete.fd[f]
      BY <1>5, <1>8, <3>1, Fields
    <3>3. QED  BY <1>3, <1>5, <3>2
  <2>10. Sound(cache')
    <3> DEFINE W == r.waiting \ {f}
    <3>1. /\ W \in SUBSET File /\ f \notin W /\ Cached(complete) \cap W = {}
          /\ complete.fd[f].file_available /\ complete.disk[f] = "present"
          /\ \A g \in Cached(complete) : complete.fd[g].file_available /\ complete.disk[g] = "present"
          /\ \A g \in File : g # f /\ g \notin Cached(complete) \cup W => complete.fd[g] = NoDescriptor
          /\ \A g \in File : g # f /\ complete.fd[g].sockets # {} => g \in W
      BY <1>3, <1>4, <1>5, <1>8, <2>2, Fields DEF Sound, Known
    <3> HIDE DEF W
    <3>2. /\ cache'.waiting = W /\ cache'.lru = actualPut(complete, f, capacity).lru
          /\ cache'.disk = actualPut(complete, f, capacity).disk
          /\ cache'.fd = [actualPut(complete, f, capacity).fd EXCEPT ![f] = e]
      BY <2>8 DEF W, r
    <3>3. e.file_available /\ e.sockets = {} /\ e \in Descriptor
      BY <2>6, <2>9
    <3>4. QED  BY <1>5, <1>8, <2>8, <3>1, <3>2, <3>3, AvailableFileStored
  <2>11. Inserted(cache, cache', f)
    <3>1. Cached(cache') = Cached(r) /\ Pinned(cache') = Pinned(r)
      <4>1. \A g \in File : Evictable(cache'.fd[g]) <=> Evictable(r.fd[g])
        BY <2>2, <2>6, <2>8, Fields
      <4>2. QED  BY <2>8, <4>1 DEF Cached, Pinned
    <3>2. Cached(complete) = Cached(cache) /\ f \notin Cached(cache)
      BY <1>5, <1>8
    <3>3. Pinned(complete) \in {Pinned(cache), Pinned(cache) \ {f}}
      <4>1. f \in Pinned(complete) => f \in Pinned(cache)
        BY <1>3a, <1>5 DEF Pinned
      <4>2. QED  BY <1>4, <4>1 DEF Used
    <3>4. Cached(complete) \ Pinned(complete) = Cached(cache) \ Pinned(cache)
      BY <3>2, <3>3
    <3>5. Pinned(cache') \in {Pinned(cache), Pinned(cache) \ {f}}
      BY <2>3, <3>1, <3>3 DEF Inserted
    <3>6. QED  BY <2>3, <3>1, <3>2, <3>4, <3>5 DEF Inserted
  <2>12. QED  BY <2>10, <2>11
<1>9. CASE /\ ~(f \in Cached(complete) /\ f \notin complete.waiting)
           /\ ~(f \notin Cached(complete) /\ f \in complete.waiting /\ complete.disk[f] # "absent")
  <2>1. moved = complete
    BY <1>9 DEF refresh
  <2> HIDE DEF moved
  <2>2. Used(complete, complete, f)
    <3>1. Pinned(complete) \in {Pinned(complete) \cup {f}, Pinned(complete) \ {f}}
      OBVIOUS
    <3>2. QED  BY <3>1 DEF Used
  <2>3. QED  BY <1>3, <1>4, <1>5, <1>6, <2>1, <2>2
<1>10. QED  BY <1>7, <1>8, <1>9

(* A file found at the start: it is put complete.                          *)
LEMMA InitializeAgrees ==
    ASSUME Inv, NEW f \in File, initializeWithFiles(f)
    PROVE  Inv' /\ Inserted(cache, cache', f)
<1> DEFINE e == setFileAvailable(NoDescriptor)
           d == [cache EXCEPT !.fd[f] = e]
           r == actualPut(d, f, capacity)
<1>1. /\ Sound(cache) /\ cache \in CacheType /\ f \in unread /\ unread' = unread \ {f}
      /\ ~Known(cache, f) /\ cache.disk[f] = "present" /\ unread \in SUBSET File
      /\ cache.fd[f] = NoDescriptor
  BY DEF Inv, Sound, initializeWithFiles
<1>2. /\ e \in Descriptor /\ e.file_available /\ e.sockets = {}
      /\ Evictable(e) /\ Evictable(NoDescriptor)
  <2>1. /\ e.file_available /\ e.sockets = {} /\ e.lock_count = 0 /\ e.used = 0
    BY DEF setFileAvailable, NoDescriptor
  <2>2. e \in Descriptor
    BY NoDescriptorType, DescriptorOperations
  <2> HIDE DEF e
  <2>3. QED  BY <2>1, <2>2 DEF NoDescriptor, Evictable, isFileUsedBySimulator
<1>3. cache' = r
  BY <1>1, <1>2 DEF initializeWithFiles, put
<1> HIDE DEF e
<1>4. /\ d.lru = cache.lru /\ d.waiting = cache.waiting /\ d.disk = cache.disk
      /\ d.fd = [cache.fd EXCEPT ![f] = e] /\ d \in CacheType /\ IsInjective(d.lru)
      /\ Cached(d) = Cached(cache) /\ f \notin Cached(d) /\ f \notin d.waiting
      /\ d.fd[f] = e
  <2>1. d = [lru |-> cache.lru, waiting |-> cache.waiting,
             fd |-> [cache.fd EXCEPT ![f] = e], disk |-> cache.disk]
    BY <1>1, <1>2, WithDescriptor
  <2> HIDE DEF d
  <2>2. d.lru = cache.lru /\ d.waiting = cache.waiting /\ d.disk = cache.disk
        /\ d.fd = [cache.fd EXCEPT ![f] = e] /\ d \in CacheType
    BY <1>1, <1>2, <2>1, Fields DEF CacheType
  <2>3. QED  BY <1>1, <2>2, Fields DEF Cached, Known, Sound
<1> HIDE DEF d, r
<1>5. /\ r \in CacheType /\ r.waiting = d.waiting
      /\ \/ Cached(r) = Cached(d) \cup {f} /\ r.fd = d.fd /\ r.disk = d.disk
         \/ \E v \in Cached(d) : /\ Cached(r) = (Cached(d) \ {v}) \cup {f}
                                 /\ r.fd = [d.fd EXCEPT ![v] = NoDescriptor]
                                 /\ r.disk = [d.disk EXCEPT ![v] = "absent"]
  <2>1. Outcome(d, r, f)
    BY <1>4, ActualPut DEF r
  <2>2. QED  BY <2>1 DEF Outcome
<1>6. Inserted(d, r, f)
  BY <1>4, InsertedByPut DEF r
<1>7. Sound(r)
  <2> DEFINE W == d.waiting
  <2>1. r.fd = [r.fd EXCEPT ![f] = e]
    <3>1. r.fd \in [File -> Descriptor] /\ d.fd \in [File -> Descriptor] /\ Cached(d) \in SUBSET File
      BY <1>4, <1>5, Fields
    <3>2. r.fd[f] = e
      BY <1>4, <1>5, <3>1
    <3>3. QED  BY <3>1, <3>2
  <2>2. /\ W \in SUBSET File /\ f \notin W /\ Cached(d) \cap W = {}
        /\ d.fd[f].file_available /\ d.disk[f] = "present"
        /\ \A g \in Cached(d) : d.fd[g].file_available /\ d.disk[g] = "present"
        /\ \A g \in File : g # f /\ g \notin Cached(d) \cup W => d.fd[g] = NoDescriptor
        /\ \A g \in File : g # f /\ d.fd[g].sockets # {} => g \in W
    BY <1>1, <1>2, <1>4, Fields DEF Sound, Known
  <2>3. /\ r.lru = actualPut(d, f, capacity).lru /\ r.disk = actualPut(d, f, capacity).disk
        /\ r.fd = [actualPut(d, f, capacity).fd EXCEPT ![f] = e]
    BY <2>1 DEF r
  <2>4. r.waiting = W /\ r \in CacheType /\ e \in Descriptor /\ e.file_available /\ e.sockets = {}
        /\ d \in CacheType /\ IsInjective(d.lru) /\ f \notin Cached(d)
    BY <1>2, <1>4, <1>5
  <2> HIDE DEF W
  <2>5. QED  BY <2>2, <2>3, <2>4, AvailableFileStored
<1>8. \A g \in unread' : r.disk[g] = "present" /\ ~Known(r, g)
  <2>1. \A g \in unread' : /\ g \in File /\ g # f /\ g \notin Cached(d) /\ g \notin d.waiting
                           /\ d.disk[g] = "present"
    BY <1>1, <1>4 DEF Inv, Known
  <2>2. \A g \in unread' : g \notin Cached(r) /\ r.disk[g] = d.disk[g]
    BY <1>4, <1>5, <2>1, Fields
  <2>3. QED  BY <1>5, <2>1, <2>2 DEF Known
<1>9. Inserted(cache, cache', f)
  <2>1. Pinned(d) = Pinned(cache)
    BY <1>1, <1>2, <1>4, Fields DEF Pinned
  <2>2. QED  BY <1>3, <1>4, <1>6, <2>1 DEF Inserted
<1>10. QED  BY <1>1, <1>3, <1>7, <1>8, <1>9 DEF Inv

-----------------------------------------------------------------------------
LEMMA InitAgrees == Init => Inv
<1> SUFFICES ASSUME Init PROVE Inv
  OBVIOUS
<1>1. /\ cache.lru = <<>> /\ cache.waiting = {} /\ cache.fd = [f \in File |-> NoDescriptor]
      /\ cache.disk = [f \in File |-> IF f \in unread THEN "present" ELSE "absent"]
      /\ unread \in SUBSET File
      /\ cache = [lru |-> cache.lru, waiting |-> cache.waiting, fd |-> cache.fd, disk |-> cache.disk]
  BY DEF Init
<1>2. cache \in CacheType
  <2>1. /\ cache.lru \in Seq(File) /\ cache.waiting \in SUBSET File
        /\ cache.fd \in [File -> Descriptor] /\ cache.disk \in [File -> {"absent", "present"}]
    BY <1>1, NoDescriptorType
  <2>2. QED  BY <1>1, <2>1 DEF CacheType
<1>3. Cached(cache) = {} /\ IsInjective(cache.lru) /\ NoDescriptor.sockets = {}
  BY <1>1 DEF Cached, Range, IsInjective, NoDescriptor
<1>4. \A f \in File : ~Known(cache, f)
  BY <1>1, <1>3 DEF Known
<1>5. Sound(cache)
  BY <1>1, <1>2, <1>3, <1>4 DEF Sound
<1>6. QED  BY <1>1, <1>4, <1>5 DEF Inv

\* What a step may do: a use of a file, its insertion, or neither.
Step ==
    \/ \E f \in File : Used(cache, cache', f) \/ Inserted(cache, cache', f)
    \/ Cached(cache') = Cached(cache) /\ Pinned(cache') = Pinned(cache)

LEMMA HandlerAgrees ==
    ASSUME Inv, NEW f \in File, Handler(f)
    PROVE  Sound(cache') /\ Step
<1>1. Sound(cache)
  BY DEF Inv
<1>2. CASE ClientFileOpen(f)
  BY <1>1, <1>2, OpenAgrees DEF Step
<1>3. CASE \E s \in Client : ClientVariableGet(f, s)
  BY <1>1, <1>3, VariableGetAgrees DEF Step
<1>4. CASE ClientFileClose(f)
  BY <1>1, <1>4, CloseOpenedAgrees DEF Step
<1>5. CASE SimulatorFileCreate(f)
  BY <1>1, <1>5, CreateAgrees DEF Step
<1>6. CASE SimulatorFileCreateOutOfRange(f)
  BY <1>1, <1>6, CreateOutOfRangeAgrees DEF Step
<1>7. CASE SimulatorTruncate(f)
  BY <1>1, <1>7, TruncateAgrees DEF Step
<1>8. CASE SimulatorFileClose(f)
  BY <1>1, <1>8, CloseAgrees DEF Step
<1>9. CASE SimulatorFileCloseOutOfRange(f)
  BY <1>1, <1>9, CloseOutOfRangeAgrees DEF Step
<1>10. QED  BY <1>2, <1>3, <1>4, <1>5, <1>6, <1>7, <1>8, <1>9 DEF Handler

LEMMA StepAgrees == Inv /\ [Next]_vars => Inv' /\ Step
<1> SUFFICES ASSUME Inv, [Next]_vars PROVE Inv' /\ Step
  OBVIOUS
<1>1. CASE \E f \in File : initializeWithFiles(f)
  BY <1>1, InitializeAgrees DEF Step
<1>2. CASE unread = {} /\ unread' = unread /\ \E f \in File : Handler(f)
  <2>1. Sound(cache') /\ Step
    BY <1>2, HandlerAgrees
  <2>2. QED  BY <1>2, <2>1 DEF Inv
<1>3. CASE UNCHANGED vars
  BY <1>3 DEF vars, Inv, Step
<1>4. QED  BY <1>1, <1>2, <1>3 DEF Next

LEMMA InvAlways == Spec => []Inv
<1>1. Inv /\ [Next]_vars => Inv'
  BY StepAgrees
<1>2. QED  BY <1>1, InitAgrees, PTL DEF Spec

(* A file has one descriptor, in the cache or in the waiting list (put and *)
(* refresh of FileCacheLRU), whatever clients and simulators do.           *)
THEOREM AlwaysOneDescriptor == Spec => []OneDescriptor
<1>1. Inv => OneDescriptor
  BY DEF Inv, Sound, OneDescriptor
<1>2. QED  BY <1>1, InvAlways, PTL

(* The result directory holds every cached file: refresh looks for it, and *)
(* only an eviction removes it.                                            *)
THEOREM FilesAlwaysPresent == Spec => []FilesArePresent
<1>1. Inv => FilesArePresent
  BY DEF Inv, Sound, FilesArePresent
<1>2. QED  BY <1>1, InvAlways, PTL

(* A client waits for a file of the waiting list: no eviction, no refresh  *)
(* and no open loses its socket.                                           *)
THEOREM WaitersAlwaysKnown == Spec => []WaitersAreKnown
<1>1. Inv => WaitersAreKnown
  BY DEF Inv, Sound, WaitersAreKnown
<1>2. QED  BY <1>1, InvAlways, PTL

(* The LRU cache implements the promise of a file cache: each step uses a  *)
(* file, inserts one, evicting one unused file at most when it is full, or *)
(* changes neither.                                                        *)
THEOREM PromiseKept == Spec => KeepsPromise
<1>1. Init => Abstract!Init
  <2> SUFFICES ASSUME Init PROVE Abstract!Init
    OBVIOUS
  <2>1. cache.lru = <<>> /\ cache.fd = [f \in File |-> NoDescriptor]
    BY DEF Init
  <2>2. Cached(cache) = {}
    BY <2>1 DEF Cached, Range
  <2>3. \A f \in File : Evictable(cache.fd[f])
    BY <2>1 DEF NoDescriptor, Evictable, isFileUsedBySimulator
  <2>4. QED  BY <2>2, <2>3 DEF Abstract!Init
<1>2. Inv /\ [Next]_vars => [Abstract!Next]_(Abstract!vars)
  <2> SUFFICES ASSUME Inv, [Next]_vars PROVE [Abstract!Next]_(Abstract!vars)
    OBVIOUS
  <2>1. Step
    BY StepAgrees
  <2>2. ASSUME NEW f \in File, Used(cache, cache', f) PROVE Abstract!Next
    <3>1. Abstract!Use(f)
      BY <2>2 DEF Used, Pinned, Abstract!Use
    <3>2. QED  BY <3>1 DEF Abstract!Next
  <2>3. ASSUME NEW f \in File, Inserted(cache, cache', f) PROVE Abstract!Next
    <3>0. \A S : Abstract!Cardinality(S) = Cardinality(S)
      BY DEF Abstract!Cardinality, Cardinality
    <3>1. Abstract!Insert(f)
      BY <2>3, <3>0 DEF Inserted, Pinned, Abstract!Insert, Abstract!Full, Abstract!NothingToEvict
    <3>2. QED  BY <3>1 DEF Abstract!Next
  <2>4. CASE Cached(cache') = Cached(cache) /\ Pinned(cache') = Pinned(cache)
    BY <2>4 DEF Pinned, Abstract!vars
  <2>5. QED  BY <2>1, <2>2, <2>3, <2>4 DEF Step
<1>3. QED  BY <1>1, <1>2, InvAlways, PTL DEF Spec, KeepsPromise, Abstract!Spec

-----------------------------------------------------------------------------
\* The LinkedMap.

(* Taking an id out of the list (removeFromList) leaves the others linked. *)
LEMMA RemoveKeepsLinks ==
    ASSUME NEW l \in LinksType, NEW S \in SUBSET Id, NEW id \in S, Linked(l, S)
    PROVE  /\ removeFromList(l, id) \in LinksType
           /\ Linked(removeFromList(l, id), S \ {id})
<1> DEFINE r == removeFromList(l, id)
           p == l.prev[id]
           n == l.next[id]
<1>0. kNone \notin Id /\ id \in Id /\ kNone \notin S
  BY LinkedMapAssumption DEF Id, kNone
<1>1. p \in S \cup {kNone} /\ n \in S \cup {kNone}
  BY DEF Linked
<1>2. /\ l.prev \in [Id -> Id \cup {kNone}] /\ l.next \in [Id -> Id \cup {kNone}]
      /\ l.first \in Id \cup {kNone} /\ l.last \in Id \cup {kNone}
  BY DEF LinksType
<1>3. /\ r.first = IF p = kNone THEN n ELSE l.first
      /\ r.last = IF n = kNone THEN p ELSE l.last
      /\ r.next = IF p = kNone THEN l.next ELSE [l.next EXCEPT ![p] = n]
      /\ r.prev = IF n = kNone THEN l.prev ELSE [l.prev EXCEPT ![n] = p]
  BY DEF removeFromList, LinksType
<1>4. r \in LinksType
  <2>1. /\ r.next \in [Id -> Id \cup {kNone}] /\ r.prev \in [Id -> Id \cup {kNone}]
        /\ r.first \in Id \cup {kNone} /\ r.last \in Id \cup {kNone}
    BY <1>1, <1>2, <1>3
  <2>2. r = [first |-> r.first, last |-> r.last, prev |-> r.prev, next |-> r.next]
    BY DEF removeFromList
  <2> HIDE DEF r
  <2>3. QED  BY <2>1, <2>2 DEF LinksType
<1>5. \A i \in S : /\ r.next[i] = IF i = p THEN n ELSE l.next[i]
                   /\ r.prev[i] = IF i = n THEN p ELSE l.prev[i]
  BY <1>0, <1>1, <1>2, <1>3
<1>6. Linked(r, S \ {id})
  <2> HIDE DEF r
  <2>1. \A i \in S : /\ l.next[i] = kNone <=> i = l.last
                     /\ l.prev[i] = kNone <=> i = l.first
                     /\ l.next[i] \in S \cup {kNone} /\ l.prev[i] \in S \cup {kNone}
                     /\ l.next[i] # kNone => l.prev[l.next[i]] = i
                     /\ l.prev[i] # kNone => l.next[l.prev[i]] = i
    BY DEF Linked
  <2>2. (l.first = kNone <=> l.last = kNone) /\ l.first \in S \cup {kNone} /\ l.last \in S \cup {kNone}
    BY DEF Linked
  <2>3. r.first \in (S \ {id}) \cup {kNone} /\ r.last \in (S \ {id}) \cup {kNone}
    BY <1>0, <1>1, <1>3, <2>1, <2>2
  <2>4. r.first = kNone <=> r.last = kNone
    BY <1>0, <1>1, <1>3, <2>1, <2>2
  <2>5. ASSUME NEW i \in S \ {id}
        PROVE  /\ r.next[i] \in (S \ {id}) \cup {kNone} /\ r.prev[i] \in (S \ {id}) \cup {kNone}
               /\ r.next[i] = kNone <=> i = r.last
               /\ r.prev[i] = kNone <=> i = r.first
               /\ r.next[i] # kNone => r.prev[r.next[i]] = i
               /\ r.prev[i] # kNone => r.next[r.prev[i]] = i
    BY <1>0, <1>1, <1>3, <1>5, <2>1, <2>2
  <2>6. QED  BY <2>3, <2>4, <2>5 DEF Linked
<1>7. QED  BY <1>4, <1>6

(* Adding an id that the list does not link (addAsMru) links it as well.   *)
LEMMA AddKeepsLinks ==
    ASSUME NEW l \in LinksType, NEW S \in SUBSET Id, NEW id \in Id \ S, Linked(l, S)
    PROVE  /\ addAsMru(l, id) \in LinksType
           /\ Linked(addAsMru(l, id), S \cup {id})
<1> DEFINE r == addAsMru(l, id)
<1>0. kNone \notin Id /\ id \in Id /\ kNone \notin S /\ id \notin S
  BY LinkedMapAssumption DEF Id, kNone
<1>1. l.last \in S \cup {kNone} /\ l.first \in S \cup {kNone} /\ (l.first = kNone <=> l.last = kNone)
  BY DEF Linked
<1>2. /\ l.prev \in [Id -> Id \cup {kNone}] /\ l.next \in [Id -> Id \cup {kNone}]
      /\ l.first \in Id \cup {kNone} /\ l.last \in Id \cup {kNone}
  BY DEF LinksType
<1>3. /\ r.first = IF l.first = kNone THEN id ELSE l.first
      /\ r.last = id
      /\ r.prev = [l.prev EXCEPT ![id] = l.last]
      /\ r.next = [(IF l.last = kNone THEN l.next ELSE [l.next EXCEPT ![l.last] = id])
                      EXCEPT ![id] = kNone]
      /\ r = [first |-> r.first, last |-> r.last, prev |-> r.prev, next |-> r.next]
  BY DEF addAsMru
<1> HIDE DEF r
<1>4. r \in LinksType
  <2>1. /\ r.next \in [Id -> Id \cup {kNone}] /\ r.prev \in [Id -> Id \cup {kNone}]
        /\ r.first \in Id \cup {kNone} /\ r.last \in Id \cup {kNone}
    BY <1>0, <1>1, <1>2, <1>3
  <2>2. QED  BY <2>1, <1>3 DEF LinksType
<1>5. \A i \in S \cup {id} :
          /\ r.next[i] = IF i = id THEN kNone ELSE IF i = l.last THEN id ELSE l.next[i]
          /\ r.prev[i] = IF i = id THEN l.last ELSE l.prev[i]
  BY <1>0, <1>1, <1>2, <1>3
<1>6. Linked(r, S \cup {id})
  <2>1. \A i \in S : /\ l.next[i] = kNone <=> i = l.last
                     /\ l.prev[i] = kNone <=> i = l.first
                     /\ l.next[i] \in S \cup {kNone} /\ l.prev[i] \in S \cup {kNone}
                     /\ l.next[i] # kNone => l.prev[l.next[i]] = i
                     /\ l.prev[i] # kNone => l.next[l.prev[i]] = i
    BY DEF Linked
  <2>2. /\ r.first \in S \cup {id} /\ r.last \in S \cup {id}
        /\ r.first # kNone /\ r.last # kNone
    BY <1>0, <1>1, <1>3
  <2>3. ASSUME NEW i \in S \cup {id}
        PROVE  /\ r.next[i] \in S \cup {id} \cup {kNone} /\ r.prev[i] \in S \cup {id} \cup {kNone}
               /\ r.next[i] = kNone <=> i = r.last
               /\ r.prev[i] = kNone <=> i = r.first
               /\ r.next[i] # kNone => r.prev[r.next[i]] = i
               /\ r.prev[i] # kNone => r.next[r.prev[i]] = i
    BY <1>0, <1>1, <1>3, <1>5, <2>1
  <2>4. QED  BY <2>2, <2>3 DEF Linked
<1>7. QED  BY <1>4, <1>6 DEF r

(* A refresh (moveToMru) links the same ids.                               *)
LEMMA MoveKeepsLinks ==
    ASSUME NEW l \in LinksType, NEW S \in SUBSET Id, NEW id \in S, Linked(l, S)
    PROVE  moveToMru(l, id) \in LinksType /\ Linked(moveToMru(l, id), S)
<1> DEFINE r == removeFromList(l, id)
<1>1. r \in LinksType /\ Linked(r, S \ {id})
  BY RemoveKeepsLinks
<1>2. S \ {id} \in SUBSET Id /\ id \in Id \ (S \ {id}) /\ (S \ {id}) \cup {id} = S
  OBVIOUS
<1> HIDE DEF r
<1>3. addAsMru(r, id) \in LinksType /\ Linked(addAsMru(r, id), (S \ {id}) \cup {id})
  BY <1>1, <1>2, AddKeepsLinks
<1>4. QED  BY <1>2, <1>3 DEF moveToMru, r

-----------------------------------------------------------------------------
MapInv == MapTypeOK /\ StructuresAgree

LEMMA LiveIds ==
    ASSUME MapTypeOK
    PROVE  Live \in SUBSET Id /\ kNone \notin Id
BY LinkedMapAssumption DEF MapTypeOK, Live, Id, kNone

LEMMA NothingLinked == NoLinks \in LinksType /\ Linked(NoLinks, {})
BY DEF LinksType, NoLinks, Linked

LEMMA MapInitAgrees == MapInit => MapInv
<1> SUFFICES ASSUME MapInit PROVE MapInv
  OBVIOUS
<1>1. Live = {} /\ Free = {}
  BY DEF MapInit, Live, Free
<1>2. MapTypeOK
  BY NothingLinked, LinkedMapAssumption DEF MapInit, MapTypeOK
<1>3. StructuresAgree
  BY <1>1, NothingLinked DEF MapInit, StructuresAgree
<1>4. QED  BY <1>2, <1>3 DEF MapInv

(* clear, also the erase of the last entry.                                *)
LEMMA ClearAgrees == clear => MapInv'
<1> SUFFICES ASSUME clear PROVE MapInv'
  OBVIOUS
<1>1. Live' = {} /\ Free' = {}
  BY DEF clear, Live, Free
<1>2. MapTypeOK'
  BY NothingLinked, LinkedMapAssumption DEF clear, MapTypeOK
<1>3. StructuresAgree'
  BY <1>1, NothingLinked DEF clear, StructuresAgree
<1>4. QED  BY <1>2, <1>3 DEF MapInv

(* The position of a new entry: one of the free list, or the next.         *)
LEMMA AddTakesFree ==
    ASSUME MapInv, NEW k \in Key, NEW v \in Value, add(k, v)
    PROVE  LET id == IF free_list = <<>> THEN next_id ELSE free_list[Len(free_list)]
           IN  /\ id \in Id \ Live /\ Live' = Live \cup {id}
               /\ size' = size + 1
               /\ Free' \subseteq 0 .. next_id' - 1
               /\ \A i, j \in 1 .. Len(free_list') : free_list'[i] = free_list'[j] => i = j
               /\ next_id' \in 0 .. kMaxCapacity
               /\ free_list' \in Seq(Id)
<1> DEFINE id == IF free_list = <<>> THEN next_id ELSE free_list[Len(free_list)]
<1>1. MapTypeOK /\ StructuresAgree /\ Live \in SUBSET Id /\ kNone \notin Id
  BY LiveIds DEF MapInv
<1>2. /\ next_id < kMaxCapacity
      /\ next_id' = IF free_list = <<>> THEN next_id + 1 ELSE next_id
      /\ free_list' = IF free_list = <<>> THEN <<>>
                      ELSE SubSeq(free_list, 1, Len(free_list) - 1)
  BY DEF add
<1>3. /\ id \in Id \ Live
      /\ Live' = Live \cup {id}
      /\ size' = size + 1
      /\ Free' \subseteq 0 .. next_id' - 1
      /\ \A i, j \in 1 .. Len(free_list') : free_list'[i] = free_list'[j] => i = j
      /\ next_id' \in 0 .. kMaxCapacity
      /\ free_list' \in Seq(Id)
  <2>1. CASE free_list = <<>>
    <3>1. /\ id = next_id /\ next_id' = next_id + 1 /\ free_list' = <<>>
          /\ next_id \in 0 .. kMaxCapacity /\ next_id < kMaxCapacity
      BY <1>1, <1>2, <2>1 DEF MapTypeOK
    <3>2. Free = {} /\ Free' = {} /\ Len(free_list') = 0
      BY <2>1, <3>1 DEF Free
    <3> HIDE DEF id
    <3>3. Live = 0 .. next_id - 1 /\ Live' = 0 .. next_id'- 1
      BY <3>2 DEF Live
    <3>4. id \in Id \ Live /\ Live' = Live \cup {id}
      BY <3>1, <3>3, LinkedMapAssumption DEF Id
    <3>5. size' = size + 1
      BY <2>1, <3>1, <3>2 DEF size
    <3>6. QED  BY <3>1, <3>2, <3>4, <3>5, LinkedMapAssumption
  <2>2. CASE free_list # <<>>
    <3> DEFINE n == Len(free_list)
    <3>1. /\ n \in Nat \ {0} /\ free_list \in Seq(Id) /\ id = free_list[n]
          /\ next_id \in Nat /\ next_id' = next_id
          /\ free_list' = SubSeq(free_list, 1, n - 1)
      BY <1>1, <1>2, <2>2 DEF MapTypeOK
    <3>2. /\ Len(free_list') = n - 1 /\ free_list' \in Seq(Id)
          /\ \A i \in 1 .. n - 1 : free_list'[i] = free_list[i]
      <4> HIDE DEF n, id
      <4>1. n \in Nat \ {0} /\ \A i \in 1 .. n - 1 : free_list[i] \in Id
        BY <3>1 DEF n
      <4>2. /\ Len(SubSeq(free_list, 1, n - 1)) = n - 1
            /\ SubSeq(free_list, 1, n - 1) \in Seq(Id)
        BY <4>1, SubSeqProperties
      <4>3. \A i \in 1 .. n - 1 : SubSeq(free_list, 1, n - 1)[i] = free_list[i]
        BY <4>1, SubSeqProperties
      <4>4. QED  BY <3>1, <4>2, <4>3
    <3>3. /\ \A i, j \in 1 .. n : free_list[i] = free_list[j] => i = j
          /\ Free \subseteq 0 .. next_id - 1
          /\ next_id \in 0 .. kMaxCapacity
      BY <1>1 DEF StructuresAgree, MapTypeOK
    <3>4. Free' = Free \ {id}
      BY <3>1, <3>2, <3>3 DEF Free
    <3>5. id \in Free /\ id \in Id
      BY <3>1 DEF Free
    <3> HIDE DEF id, n
    <3>6. id \in Id \ Live /\ Live' = Live \cup {id} /\ Free' \subseteq 0 .. next_id' - 1
      BY <3>1, <3>3, <3>4, <3>5 DEF Live
    <3>7. ASSUME NEW i \in 1 .. Len(free_list'), NEW j \in 1 .. Len(free_list'),
                 free_list'[i] = free_list'[j]
          PROVE  i = j
      <4>1. /\ i \in 1 .. n - 1 /\ j \in 1 .. n - 1
            /\ 1 .. n - 1 \subseteq 1 .. n
        BY <3>1, <3>2
      <4>2. free_list[i] = free_list[j]
        BY <3>2, <3>7, <4>1
      <4>3. QED  BY <3>3, <4>1, <4>2
    <3>8. size' = size + 1
      BY <3>1, <3>2 DEF size, n
    <3>9. QED  BY <3>1, <3>2, <3>3, <3>6, <3>7, <3>8
  <2>3. QED  BY <2>1, <2>2
<1>4. QED  BY <1>3

(* A new entry takes a new position, or the last one of the free list.     *)
LEMMA AddAgrees ==
    ASSUME MapInv, NEW k \in Key, NEW v \in Value, add(k, v)
    PROVE  MapInv'
<1> DEFINE id == IF free_list = <<>> THEN next_id ELSE free_list[Len(free_list)]
<1>1. MapTypeOK /\ StructuresAgree /\ Live \in SUBSET Id /\ kNone \notin Id
  BY LiveIds DEF MapInv
<1>2. /\ map[k] = kNone /\ next_id < kMaxCapacity
      /\ next_id' = IF free_list = <<>> THEN next_id + 1 ELSE next_id
      /\ free_list' = IF free_list = <<>> THEN <<>>
                      ELSE SubSeq(free_list, 1, Len(free_list) - 1)
      /\ store' = [store EXCEPT ![id] = v]
      /\ key' = [key EXCEPT ![id] = k]
      /\ links' = addAsMru(links, id)
      /\ map' = [map EXCEPT ![k] = id]
  BY DEF add
<1>3. /\ id \in Id \ Live
      /\ Live' = Live \cup {id}
      /\ Free' \subseteq 0 .. next_id' - 1
      /\ \A i, j \in 1 .. Len(free_list') : free_list'[i] = free_list'[j] => i = j
      /\ next_id' \in 0 .. kMaxCapacity
      /\ free_list' \in Seq(Id)
  BY AddTakesFree
<1> HIDE DEF id
<1>4. links' \in LinksType /\ Linked(links', Live')
  BY <1>1, <1>2, <1>3, AddKeepsLinks DEF MapTypeOK, StructuresAgree
<1>5. MapTypeOK'
  BY <1>1, <1>2, <1>3, <1>4 DEF MapTypeOK
<1>6. /\ \A x \in Key : map'[x] # kNone => map'[x] \in Live' /\ key'[map'[x]] = x
      /\ \A i \in Live' : key'[i] \in Key /\ map'[key'[i]] = i
  BY <1>1, <1>2, <1>3 DEF MapTypeOK, StructuresAgree
<1>7. QED  BY <1>3, <1>4, <1>5, <1>6 DEF MapInv, StructuresAgree

(* An entry takes the position of another and its place at the MRU end.    *)
LEMMA ReplaceAgrees ==
    ASSUME MapInv, NEW id \in Live, NEW k \in Key, NEW v \in Value, replace(id, k, v)
    PROVE  MapInv'
<1>1. MapTypeOK /\ StructuresAgree /\ Live \in SUBSET Id /\ kNone \notin Id
  BY LiveIds DEF MapInv
<1>2. /\ map[k] \in {kNone, id}
      /\ map' = [map EXCEPT ![key[id]] = kNone, ![k] = id]
      /\ store' = [store EXCEPT ![id] = v] /\ key' = [key EXCEPT ![id] = k]
      /\ links' = moveToMru(links, id)
      /\ next_id' = next_id /\ free_list' = free_list
  BY DEF replace
<1>3. Live' = Live /\ Free' = Free
  BY <1>2 DEF Live, Free
<1>4. links' \in LinksType /\ Linked(links', Live')
  BY <1>1, <1>2, <1>3, MoveKeepsLinks DEF MapTypeOK, StructuresAgree
<1>5. /\ key[id] \in Key /\ map[key[id]] = id /\ id \in Id /\ id # kNone
      /\ \A i \in Live \ {id} : key[i] # k
  BY <1>1, <1>2 DEF StructuresAgree
<1>6. MapTypeOK'
  BY <1>1, <1>2, <1>4, <1>5 DEF MapTypeOK
<1>7. /\ \A x \in Key : map'[x] # kNone => map'[x] \in Live' /\ key'[map'[x]] = x
      /\ \A i \in Live' : key'[i] \in Key /\ map'[key'[i]] = i
  BY <1>1, <1>2, <1>3, <1>5 DEF MapTypeOK, StructuresAgree
<1>8. QED  BY <1>1, <1>2, <1>3, <1>4, <1>6, <1>7 DEF MapInv, StructuresAgree

(* A refresh changes nothing but the order of the list.                    *)
LEMMA RefreshAgrees ==
    ASSUME MapInv, NEW id \in Live, refreshWithId(id)
    PROVE  MapInv'
<1>1. MapTypeOK /\ StructuresAgree /\ Live \in SUBSET Id
  BY LiveIds DEF MapInv
<1>2. /\ links' = moveToMru(links, id)
      /\ key' = key /\ store' = store /\ map' = map
      /\ next_id' = next_id /\ free_list' = free_list
  BY DEF refreshWithId
<1>3. Live' = Live /\ Free' = Free
  BY <1>2 DEF Live, Free
<1>4. links' \in LinksType /\ Linked(links', Live')
  BY <1>1, <1>2, <1>3, MoveKeepsLinks DEF MapTypeOK, StructuresAgree
<1>5. MapTypeOK'
  BY <1>1, <1>2, <1>4 DEF MapTypeOK
<1>6. StructuresAgree'
  BY <1>1, <1>2, <1>3, <1>4 DEF StructuresAgree
<1>7. QED  BY <1>5, <1>6 DEF MapInv

(* An erased entry leaves a position behind that was not free.             *)
LEMMA EraseAgrees ==
    ASSUME MapInv, NEW id \in Live, eraseOne(id)
    PROVE  MapInv'
<1>1. MapTypeOK /\ StructuresAgree /\ Live \in SUBSET Id /\ kNone \notin Id /\ id \in Id
  BY LiveIds DEF MapInv
<1>2. /\ map' = [map EXCEPT ![key[id]] = kNone]
      /\ links' = removeFromList(links, id)
      /\ free_list' = Append(free_list, id)
      /\ key' = key /\ store' = store /\ next_id' = next_id
  BY DEF eraseOne
<1>3. /\ Live' = Live \ {id}
      /\ Free' \subseteq 0 .. next_id' - 1
      /\ \A i, j \in 1 .. Len(free_list') : free_list'[i] = free_list'[j] => i = j
      /\ free_list' \in Seq(Id)
  <2> DEFINE n == Len(free_list)
  <2>1. /\ n \in Nat /\ free_list \in Seq(Id)
        /\ \A i, j \in 1 .. n : free_list[i] = free_list[j] => i = j
        /\ Free \subseteq 0 .. next_id - 1
    BY <1>1 DEF MapTypeOK, StructuresAgree
  <2>2. /\ free_list' \in Seq(Id) /\ Len(free_list') = n + 1 /\ free_list'[n + 1] = id
        /\ \A i \in 1 .. n : free_list'[i] = free_list[i]
    BY <1>1, <1>2, <2>1
  <2>3. Free' = Free \cup {id}
    BY <2>1, <2>2 DEF Free
  <2>4. id \in 0 .. next_id - 1 /\ id \notin Free
    BY DEF Live
  <2>5. \A i \in 1 .. n : free_list[i] # id
    BY <2>4 DEF Free
  <2>6. QED  BY <1>2, <2>1, <2>2, <2>3, <2>4, <2>5 DEF Live
<1>4. links' \in LinksType /\ Linked(links', Live')
  BY <1>1, <1>2, <1>3, RemoveKeepsLinks DEF MapTypeOK, StructuresAgree
<1>5. key[id] \in Key /\ map[key[id]] = id
  BY <1>1 DEF StructuresAgree
<1>6. MapTypeOK'
  BY <1>1, <1>2, <1>3, <1>4, <1>5 DEF MapTypeOK
<1>7. /\ \A x \in Key : map'[x] # kNone => map'[x] \in Live' /\ key'[map'[x]] = x
      /\ \A i \in Live' : key'[i] \in Key /\ map'[key'[i]] = i
  BY <1>1, <1>2, <1>3, <1>5 DEF MapTypeOK, StructuresAgree
<1>8. QED  BY <1>3, <1>4, <1>6, <1>7 DEF MapInv, StructuresAgree

-----------------------------------------------------------------------------
LEMMA MapStepAgrees == MapInv /\ [MapNext]_map_vars => MapInv'
<1> SUFFICES ASSUME MapInv, [MapNext]_map_vars PROVE MapInv'
  OBVIOUS
<1>1. CASE \E k \in Key, v \in Value : add(k, v)
  BY <1>1, AddAgrees
<1>2. CASE \E k \in Key : refreshWithKey(k)
  <2>1. PICK k \in Key : refreshWithKey(k)
    BY <1>2
  <2>2. map[k] \in Live /\ refreshWithId(map[k])
    BY <2>1 DEF refreshWithKey, MapInv, StructuresAgree
  <2>3. QED  BY <2>2, RefreshAgrees
<1>3. ASSUME NEW id \in Live
      PROVE  /\ (\E k \in Key, v \in Value : replace(id, k, v)) => MapInv'
             /\ refreshWithId(id) => MapInv'
             /\ (\E v \in Value : change(id, v)) => MapInv'
             /\ erase(id) => MapInv'
  <2>1. (\E k \in Key, v \in Value : replace(id, k, v)) => MapInv'
    BY ReplaceAgrees
  <2>2. refreshWithId(id) => MapInv'
    BY RefreshAgrees
  <2>3. ASSUME NEW v \in Value, change(id, v) PROVE MapInv'
    <3>1. /\ store' = [store EXCEPT ![id] = v]
          /\ links' = links /\ key' = key /\ map' = map
          /\ next_id' = next_id /\ free_list' = free_list
      BY <2>3 DEF change
    <3>2. Live' = Live /\ Free' = Free
      BY <3>1 DEF Live, Free
    <3>3. MapTypeOK' /\ StructuresAgree'
      BY <3>1, <3>2 DEF MapInv, MapTypeOK, StructuresAgree
    <3>4. QED  BY <3>3 DEF MapInv
  <2>4. erase(id) => MapInv'
    BY ClearAgrees, EraseAgrees DEF erase
  <2>5. QED  BY <2>1, <2>2, <2>3, <2>4
<1>4. CASE UNCHANGED map_vars
  BY <1>4 DEF map_vars, MapInv, MapTypeOK, StructuresAgree, Live, Free
<1>5. QED  BY <1>1, <1>2, <1>3, <1>4 DEF MapNext

(* Whatever is added, replaced, refreshed and erased, a position is free   *)
(* once or held by the one key that the hash map leads to it, and the      *)
(* links of the list (LinkedMap.h) stay within the held positions and lead *)
(* back.                                                                   *)
THEOREM StructuresAlwaysAgree == MapSpec => []StructuresAgree
<1>1. MapSpec => []MapInv
  BY MapInitAgrees, MapStepAgrees, PTL DEF MapSpec
<1>2. MapInv => StructuresAgree
  BY DEF MapInv
<1>3. QED  BY <1>1, <1>2, PTL

-----------------------------------------------------------------------------
\* The order of the list.

(* The list leads through the ids of s, from the first to the last.        *)
Ordered(l, s) ==
    /\ IsInjective(s)
    /\ l.first = IF s = <<>> THEN kNone ELSE s[1]
    /\ l.last = IF s = <<>> THEN kNone ELSE s[Len(s)]
    /\ \A i \in 1 .. Len(s) :
          /\ l.next[s[i]] = IF i = Len(s) THEN kNone ELSE s[i + 1]
          /\ l.prev[s[i]] = IF i = 1 THEN kNone ELSE s[i - 1]

LEMMA OrderedFields ==
    ASSUME NEW l, NEW s \in Seq(Id), Ordered(l, s)
    PROVE  /\ Len(s) \in Nat /\ DOMAIN s = 1 .. Len(s)
           /\ \A i \in 1 .. Len(s) : s[i] \in Id /\ s[i] # kNone
           /\ \A i, j \in 1 .. Len(s) : s[i] = s[j] => i = j
           /\ s = <<>> <=> Len(s) = 0
           /\ l.first = IF Len(s) = 0 THEN kNone ELSE s[1]
           /\ l.last = IF Len(s) = 0 THEN kNone ELSE s[Len(s)]
           /\ \A i \in 1 .. Len(s) :
                 /\ l.next[s[i]] = IF i = Len(s) THEN kNone ELSE s[i + 1]
                 /\ l.prev[s[i]] = IF i = 1 THEN kNone ELSE s[i - 1]
<1>1. Len(s) \in Nat /\ DOMAIN s = 1 .. Len(s) /\ (s = <<>> <=> Len(s) = 0)
  OBVIOUS
<1>2. \A i \in 1 .. Len(s) : s[i] \in Id /\ s[i] # kNone
  BY LinkedMapAssumption DEF Id, kNone
<1>3. \A i, j \in 1 .. Len(s) : s[i] = s[j] => i = j
  BY <1>1 DEF Ordered, IsInjective
<1>4. QED  BY <1>1, <1>2, <1>3 DEF Ordered

\* removeFromList takes one id out of the order.
LEMMA RemoveKeepsOrder ==
    ASSUME NEW l \in LinksType, NEW s \in Seq(Id), Ordered(l, s), NEW i \in 1 .. Len(s)
    PROVE  Ordered(removeFromList(l, s[i]), RemoveAt(s, i))
<1> DEFINE r == removeFromList(l, s[i])
           t == RemoveAt(s, i)
           n == Len(s)
           id == s[i]
           p == l.prev[id]
           x == l.next[id]
<1>1. /\ n \in Nat /\ (\A j \in 1 .. n : s[j] \in Id /\ s[j] # kNone)
      /\ \A j, k \in 1 .. n : s[j] = s[k] => j = k
      /\ l.first = IF n = 0 THEN kNone ELSE s[1]
      /\ l.last = IF n = 0 THEN kNone ELSE s[n]
      /\ \A j \in 1 .. n :
            /\ l.next[s[j]] = IF j = n THEN kNone ELSE s[j + 1]
            /\ l.prev[s[j]] = IF j = 1 THEN kNone ELSE s[j - 1]
  BY OrderedFields
<1>2. /\ t \in Seq(Id) /\ Len(t) = n - 1 /\ IsInjective(t)
      /\ \A j \in 1 .. n - 1 : t[j] = IF j < i THEN s[j] ELSE s[j + 1]
  <2>1. IsInjective(s)
    BY DEF Ordered
  <2>2. t \in Seq(Id) /\ Len(t) = n - 1
    BY RemoveAtProperties
  <2>3. \A j \in 1 .. n - 1 : t[j] = IF j < i THEN s[j] ELSE s[j + 1]
    BY RemoveAtProperties
  <2>4. IsInjective(t)
    BY <2>1, RemoveAtInjective
  <2>5. QED  BY <2>2, <2>3, <2>4
<1>3. /\ p = IF i = 1 THEN kNone ELSE s[i - 1]
      /\ x = IF i = n THEN kNone ELSE s[i + 1]
      /\ i \in 1 .. n
  BY <1>1
<1>4. /\ l.prev \in [Id -> Id \cup {kNone}] /\ l.next \in [Id -> Id \cup {kNone}]
  BY DEF LinksType
<1>5. /\ r.first = IF p = kNone THEN x ELSE l.first
      /\ r.last = IF x = kNone THEN p ELSE l.last
      /\ r.next = IF p = kNone THEN l.next ELSE [l.next EXCEPT ![p] = x]
      /\ r.prev = IF x = kNone THEN l.prev ELSE [l.prev EXCEPT ![x] = p]
  BY DEF removeFromList
<1> HIDE DEF r, t
<1>6. (p = kNone <=> i = 1) /\ (x = kNone <=> i = n)
  BY <1>1, <1>3
<1>7. \A j \in 1 .. n : /\ r.next[s[j]] = IF j = i - 1 THEN x ELSE l.next[s[j]]
                        /\ r.prev[s[j]] = IF j = i + 1 THEN p ELSE l.prev[s[j]]
  <2>1. ASSUME NEW j \in 1 .. n PROVE r.next[s[j]] = IF j = i - 1 THEN x ELSE l.next[s[j]]
    <3>1. CASE i = 1
      BY <1>1, <1>5, <1>6, <3>1
    <3>2. CASE i # 1
      <4>1. p = s[i - 1] /\ i - 1 \in 1 .. n /\ p \in Id /\ s[j] \in Id
        BY <1>1, <1>3, <3>2
      <4>2. s[j] = p <=> j = i - 1
        BY <1>1, <4>1
      <4>3. r.next = [l.next EXCEPT ![p] = x]
        BY <1>5, <1>6, <3>2
      <4> HIDE DEF p, x
      <4>4. QED  BY <1>4, <4>1, <4>2, <4>3
    <3>3. QED  BY <3>1, <3>2
  <2>2. ASSUME NEW j \in 1 .. n PROVE r.prev[s[j]] = IF j = i + 1 THEN p ELSE l.prev[s[j]]
    <3>1. CASE i = n
      BY <1>1, <1>5, <1>6, <3>1
    <3>2. CASE i # n
      <4>1. x = s[i + 1] /\ i + 1 \in 1 .. n /\ x \in Id /\ s[j] \in Id
        BY <1>1, <1>3, <3>2
      <4>2. s[j] = x <=> j = i + 1
        BY <1>1, <4>1
      <4>3. r.prev = [l.prev EXCEPT ![x] = p]
        BY <1>5, <1>6, <3>2
      <4> HIDE DEF p, x
      <4>4. QED  BY <1>4, <4>1, <4>2, <4>3
    <3>3. QED  BY <3>1, <3>2
  <2>3. QED  BY <2>1, <2>2
<1>8. t = <<>> <=> n = 1
  BY <1>1, <1>2
<1> HIDE DEF n, p, x
<1>9. r.first = IF t = <<>> THEN kNone ELSE t[1]
  <2>1. CASE n = 1
    BY <1>1, <1>3, <1>5, <1>6, <1>8, <2>1
  <2>2. CASE n # 1
    <3>1. t[1] = IF 1 < i THEN s[1] ELSE s[2]
      BY <1>1, <1>2, <1>3, <2>2
    <3>2. QED  BY <1>1, <1>3, <1>5, <1>6, <1>8, <2>2, <3>1
  <2>3. QED  BY <2>1, <2>2
<1>10. r.last = IF t = <<>> THEN kNone ELSE t[Len(t)]
  <2>1. CASE n = 1
    BY <1>1, <1>3, <1>5, <1>6, <1>8, <2>1
  <2>2. CASE n # 1
    <3>1. t[n - 1] = IF n - 1 < i THEN s[n - 1] ELSE s[n]
      BY <1>1, <1>2, <1>3, <2>2
    <3>2. QED  BY <1>1, <1>2, <1>3, <1>5, <1>6, <1>8, <2>2, <3>1
  <2>3. QED  BY <2>1, <2>2
<1>11. ASSUME NEW j \in 1 .. n - 1
       PROVE  /\ r.next[t[j]] = IF j = n - 1 THEN kNone ELSE t[j + 1]
              /\ r.prev[t[j]] = IF j = 1 THEN kNone ELSE t[j - 1]
  <2>1. j \in 1 .. n /\ j + 1 \in 1 .. n
    BY <1>1
  <2>2. CASE j < i
    <3>1. /\ t[j] = s[j] /\ (j # 1 => t[j - 1] = s[j - 1])
          /\ (j # n - 1 => t[j + 1] = IF j + 1 < i THEN s[j + 1] ELSE s[j + 2])
      BY <1>1, <1>2, <1>3, <2>2
    <3>2. r.next[s[j]] = IF j = n - 1 THEN kNone ELSE t[j + 1]
      BY <1>1, <1>3, <1>7, <2>1, <2>2, <3>1
    <3>3. r.prev[s[j]] = IF j = 1 THEN kNone ELSE t[j - 1]
      BY <1>1, <1>3, <1>7, <2>1, <2>2, <3>1
    <3>4. QED  BY <3>1, <3>2, <3>3
  <2>3. CASE ~(j < i)
    <3>1. /\ t[j] = s[j + 1] /\ (j # n - 1 => t[j + 1] = s[j + 2])
          /\ (j # 1 => t[j - 1] = IF j - 1 < i THEN s[j - 1] ELSE s[j])
      <4>1. t[j] = s[j + 1]
        BY <1>2, <2>3
      <4>2. ASSUME j # n - 1 PROVE t[j + 1] = s[j + 2]
        <5> n \in Nat /\ i \in 1 .. n
          BY <1>1, <1>3
        <5>0. j \in Int /\ n \in Int /\ i \in Int /\ j + 1 \in Int
          OBVIOUS
        <5>1. j + 1 \in 1 .. n - 1 /\ ~(j + 1 < i) /\ (j + 1) + 1 = j + 2
          BY <5>0, <2>3, <4>2
        <5>2. t[j + 1] = s[(j + 1) + 1]
          BY <1>2, <5>1
        <5>3. QED  BY <5>1, <5>2
      <4>3. ASSUME j # 1 PROVE t[j - 1] = IF j - 1 < i THEN s[j - 1] ELSE s[j]
        <5>1. j - 1 \in 1 .. n - 1 /\ (j - 1) + 1 = j
          BY <1>1, <4>3
        <5>2. t[j - 1] = IF j - 1 < i THEN s[j - 1] ELSE s[(j - 1) + 1]
          BY <1>2, <5>1
        <5>3. QED  BY <5>1, <5>2
      <4>4. QED  BY <4>1, <4>2, <4>3
    <3>2. r.next[s[j + 1]] = IF j = n - 1 THEN kNone ELSE t[j + 1]
      BY <1>1, <1>3, <1>7, <2>1, <2>3, <3>1
    <3>3. r.prev[s[j + 1]] = IF j = 1 THEN kNone ELSE t[j - 1]
      BY <1>1, <1>3, <1>7, <2>1, <2>3, <3>1
    <3>4. QED  BY <3>1, <3>2, <3>3
  <2>4. QED  BY <2>2, <2>3
<1>12. QED  BY <1>2, <1>9, <1>10, <1>11 DEF Ordered, r, t

\* addAsMru puts an id at its end.
LEMMA AddKeepsOrder ==
    ASSUME NEW l \in LinksType, NEW s \in Seq(Id), Ordered(l, s),
           NEW id \in Id, id \notin Range(s)
    PROVE  Ordered(addAsMru(l, id), Append(s, id))
<1> DEFINE r == addAsMru(l, id)
           t == Append(s, id)
           n == Len(s)
<1>1. /\ n \in Nat /\ DOMAIN s = 1 .. n /\ (\A j \in 1 .. n : s[j] \in Id /\ s[j] # kNone)
      /\ \A j, k \in 1 .. n : s[j] = s[k] => j = k
      /\ l.first = IF n = 0 THEN kNone ELSE s[1]
      /\ l.last = IF n = 0 THEN kNone ELSE s[n]
      /\ \A j \in 1 .. n :
            /\ l.next[s[j]] = IF j = n THEN kNone ELSE s[j + 1]
            /\ l.prev[s[j]] = IF j = 1 THEN kNone ELSE s[j - 1]
  BY OrderedFields
<1>2. /\ t \in Seq(Id) /\ Len(t) = n + 1 /\ t[n + 1] = id /\ t # <<>>
      /\ \A j \in 1 .. n : t[j] = s[j]
  OBVIOUS
<1>3. IsInjective(t)
  BY AppendKeepsInjective DEF Ordered
<1>4. \A j \in 1 .. n : s[j] # id
  BY <1>1 DEF Range
<1>5. /\ l.prev \in [Id -> Id \cup {kNone}] /\ l.next \in [Id -> Id \cup {kNone}]
  BY DEF LinksType
<1>6. /\ r.first = IF l.first = kNone THEN id ELSE l.first
      /\ r.last = id
      /\ r.prev = [l.prev EXCEPT ![id] = l.last]
      /\ r.next = [(IF l.last = kNone THEN l.next ELSE [l.next EXCEPT ![l.last] = id])
                      EXCEPT ![id] = kNone]
  BY DEF addAsMru
<1> HIDE DEF r, t, n
<1>7. l.last = kNone \/ l.last \in Id
  BY <1>1
<1>8. /\ r.prev[id] = l.last /\ r.next[id] = kNone
      /\ \A j \in 1 .. n : /\ r.prev[s[j]] = l.prev[s[j]]
                           /\ r.next[s[j]] = IF j = n THEN id ELSE l.next[s[j]]
  <2>1. \A j \in 1 .. n : s[j] = l.last <=> j = n
    BY <1>1
  <2>2. QED  BY <1>1, <1>4, <1>5, <1>6, <1>7, <2>1
<1>9. r.first = t[1] /\ r.last = t[n + 1]
  BY <1>1, <1>2, <1>6
<1>10. ASSUME NEW j \in 1 .. n + 1
       PROVE  /\ r.next[t[j]] = IF j = n + 1 THEN kNone ELSE t[j + 1]
              /\ r.prev[t[j]] = IF j = 1 THEN kNone ELSE t[j - 1]
  <2>1. CASE j = n + 1
    <3>1. n # 0 => t[n] = s[n]
      BY <1>1, <1>2
    <3>2. QED  BY <1>1, <1>2, <1>8, <2>1, <3>1
  <2>2. CASE j # n + 1
    <3>1. /\ j \in 1 .. n /\ t[j] = s[j] /\ (j # 1 => t[j - 1] = s[j - 1])
          /\ t[j + 1] = IF j = n THEN id ELSE s[j + 1]
      BY <1>1, <1>2, <2>2
    <3>2. QED  BY <1>1, <1>8, <2>2, <3>1
  <2>3. QED  BY <2>1, <2>2
<1>11. QED  BY <1>2, <1>3, <1>9, <1>10 DEF Ordered, r, t

\* moveToMru takes an id to its end.
LEMMA MoveKeepsOrder ==
    ASSUME NEW l \in LinksType, NEW s \in Seq(Id), Ordered(l, s), NEW i \in 1 .. Len(s),
           removeFromList(l, s[i]) \in LinksType
    PROVE  Ordered(moveToMru(l, s[i]), Append(RemoveAt(s, i), s[i]))
<1> DEFINE r == removeFromList(l, s[i])
           t == RemoveAt(s, i)
<1>1. Ordered(r, t) /\ t \in Seq(Id)
  BY RemoveKeepsOrder, RemoveAtProperties
<1>2. s[i] \notin Range(t) /\ s[i] \in Id
  <2>1. IsInjective(s)
    BY DEF Ordered
  <2>2. QED  BY <2>1, RemoveAtInjective
<1> HIDE DEF r, t
<1>3. Ordered(addAsMru(r, s[i]), Append(t, s[i]))
  BY <1>1, <1>2, AddKeepsOrder DEF r
<1>4. QED  BY <1>3 DEF moveToMru, r, t

-----------------------------------------------------------------------------
(* s names the n ids of S in the order of the list.                        *)
InOrder(l, S, n, s) ==
    /\ s \in Seq(Id) /\ Ordered(l, s)
    /\ Range(s) = S /\ Len(s) = n

OrderInv == \E s \in Seq(Id) : InOrder(links, Live, size, s)

(* A free position, or the next one, makes the list longer by one.         *)
LEMMA AddOrder ==
    ASSUME MapInv, NEW k \in Key, NEW v \in Value, add(k, v),
           NEW s \in Seq(Id), InOrder(links, Live, size, s)
    PROVE  \E id \in Id \ Live :
              /\ InOrder(links', Live', size', Append(s, id))
              /\ key' = [key EXCEPT ![id] = k] /\ store' = [store EXCEPT ![id] = v]
<1>1. PICK id : /\ id \in Id \ Live /\ Live' = Live \cup {id} /\ size' = size + 1
                /\ key' = [key EXCEPT ![id] = k] /\ store' = [store EXCEPT ![id] = v]
                /\ links' = addAsMru(links, id)
  BY AddTakesFree DEF add
<1>2. Ordered(links, s) /\ Range(s) = Live /\ Len(s) = size /\ links \in LinksType
  BY DEF InOrder, MapInv, MapTypeOK
<1>3. Ordered(links', Append(s, id))
  BY <1>1, <1>2, AddKeepsOrder
<1>4. Append(s, id) \in Seq(Id) /\ Len(Append(s, id)) = size'
  BY <1>1, <1>2
<1>5. Range(Append(s, id)) = Live'
  <2>1. IsInjective(s) /\ id \notin Range(s) /\ id \in Id
    BY <1>1, <1>2 DEF Ordered
  <2>2. QED  BY <2>1, <1>1, <1>2, AppendKeepsInjective
<1>6. QED  BY <1>1, <1>3, <1>4, <1>5 DEF InOrder

(* A list that is only reordered.                                          *)
LEMMA MoveOrder ==
    ASSUME MapInv, NEW s \in Seq(Id), InOrder(links, Live, size, s), NEW i \in 1 .. Len(s),
           links' = moveToMru(links, s[i]), next_id' = next_id, free_list' = free_list
    PROVE  InOrder(links', Live', size', Append(RemoveAt(s, i), s[i]))
<1> DEFINE t == RemoveAt(s, i)
<1>1. /\ Ordered(links, s) /\ Range(s) = Live /\ Len(s) = size /\ links \in LinksType
      /\ IsInjective(s) /\ Linked(links, Live) /\ Live \in SUBSET Id
  BY LiveIds DEF InOrder, MapInv, MapTypeOK, Ordered, StructuresAgree
<1>2. s[i] \in Live /\ s[i] \in Id
  BY <1>1 DEF Range
<1>3. Live' = Live /\ size' = size
  BY DEF Live, size, Free
<1>4. removeFromList(links, s[i]) \in LinksType
  BY <1>1, <1>2, RemoveKeepsLinks
<1>5. Ordered(links', Append(t, s[i]))
  BY <1>1, <1>4, MoveKeepsOrder
<1>6. t \in Seq(Id) /\ Len(t) = Len(s) - 1
  BY RemoveAtProperties
<1>7. IsInjective(t) /\ Range(t) = Live \ {s[i]}
  BY <1>1, RemoveAtInjective
<1> HIDE DEF t
<1>8. Range(Append(t, s[i])) = Live
  <2>1. s[i] \notin Range(t)
    BY <1>7
  <2>2. Range(Append(t, s[i])) = Range(t) \cup {s[i]}
    BY <1>2, <1>6, <1>7, <2>1, AppendKeepsInjective
  <2>3. QED  BY <1>2, <1>7, <2>2
<1>9. Append(t, s[i]) \in Seq(Id) /\ Len(Append(t, s[i])) = size
  <2>1. Len(s) \in Nat
    OBVIOUS
  <2>2. QED  BY <2>1, <1>1, <1>2, <1>6
<1>10. InOrder(links', Live', size', Append(t, s[i]))
  BY <1>3, <1>5, <1>8, <1>9 DEF InOrder
<1>11. QED  BY <1>10 DEF t

(* A list one of whose entries is erased.                                  *)
LEMMA EraseOrder ==
    ASSUME MapInv, NEW s \in Seq(Id), InOrder(links, Live, size, s), NEW i \in 1 .. Len(s),
           eraseOne(s[i])
    PROVE  InOrder(links', Live', size', RemoveAt(s, i))
<1>1. /\ Ordered(links, s) /\ Range(s) = Live /\ Len(s) = size /\ links \in LinksType
      /\ IsInjective(s) /\ free_list \in Seq(Id) /\ next_id \in Int
  BY LinkedMapAssumption DEF InOrder, MapInv, MapTypeOK, Ordered
<1>2. s[i] \in Live /\ s[i] \in Id /\ i \in DOMAIN s
  BY <1>1 DEF Range
<1>3. /\ links' = removeFromList(links, s[i]) /\ free_list' = Append(free_list, s[i])
      /\ next_id' = next_id
  BY DEF eraseOne
<1>4. Live' = Live \ {s[i]} /\ size' = size - 1
  <2> DEFINE n == Len(free_list)
  <2>1. /\ n \in Nat /\ Len(free_list') = n + 1 /\ free_list'[n + 1] = s[i]
        /\ \A j \in 1 .. n : free_list'[j] = free_list[j]
    BY <1>1, <1>2, <1>3
  <2>2. Free' = Free \cup {s[i]}
    BY <2>1 DEF Free
  <2>3. QED  BY <1>1, <1>3, <2>1, <2>2 DEF Live, size
<1>5. Ordered(links', RemoveAt(s, i))
  BY <1>1, <1>3, RemoveKeepsOrder
<1>6. RemoveAt(s, i) \in Seq(Id) /\ Len(RemoveAt(s, i)) = Len(s) - 1
  BY RemoveAtProperties
<1>7. Range(RemoveAt(s, i)) = Live \ {s[i]}
  BY <1>1, RemoveAtInjective
<1>8. QED  BY <1>1, <1>4, <1>5, <1>6, <1>7 DEF InOrder

LEMMA NothingInOrder == InOrder(NoLinks, {}, 0, <<>>)
<1>1. Ordered(NoLinks, <<>>)
  BY DEF Ordered, NoLinks, IsInjective
<1>2. QED  BY <1>1 DEF InOrder, Range

LEMMA ClearOrder == clear => InOrder(links', Live', size', <<>>)
<1> SUFFICES ASSUME clear PROVE InOrder(links', Live', size', <<>>)
  OBVIOUS
<1>1. links' = NoLinks /\ next_id' = 0 /\ free_list' = <<>>
  BY DEF clear
<1>2. Free' = {} /\ Live' = {} /\ size' = 0
  <2>1. Len(free_list') = 0
    BY <1>1
  <2>2. Free' = {}
    BY <2>1 DEF Free
  <2>3. 0 .. 0 - 1 = {}
    OBVIOUS
  <2>4. Live' = {}
    BY <1>1, <2>3 DEF Live
  <2>5. size' = 0
    <3>1. size' = next_id' - Len(free_list')
      BY DEF size
    <3>2. next_id' = 0
      BY <1>1
    <3>3. QED  BY <2>1, <3>1, <3>2
  <2>6. QED  BY <2>2, <2>4, <2>5
<1>3. QED  BY <1>1, <1>2, NothingInOrder

-----------------------------------------------------------------------------
\* Traversals.

(* A traversal visits the ids in order, then finds no more.                *)
Traversal(s) == [n \in 0 .. size |-> IF n < size THEN s[n + 1] ELSE kNone]

VisitsOrder ==
    \A s \in Seq(Id) : Ordered(links, s) /\ Len(s) = size => Visited = Traversal(s)

(* Visited is the only function that solves its recursive equation.        *)
LEMMA TraversalVisits == VisitsOrder
<1> SUFFICES ASSUME NEW s \in Seq(Id), Ordered(links, s), Len(s) = size
             PROVE  Visited = Traversal(s)
  BY DEF VisitsOrder
<1> DEFINE T == Traversal(s)
           Hop(v, n) == IF n = 0 THEN links.first
                         ELSE IF v[n - 1] = kNone THEN kNone
                         ELSE links.next[v[n - 1]]
           Solves(v) == v = [n \in 0 .. size |-> Hop(v, n)]
<1>1. Visited = CHOOSE v : Solves(v)
  BY DEF Visited
<1>2. /\ size \in Nat /\ \A n \in 1 .. size : s[n] # kNone
      /\ links.first = IF size = 0 THEN kNone ELSE s[1]
      /\ \A n \in 1 .. size : links.next[s[n]] = IF n = size THEN kNone ELSE s[n + 1]
  BY OrderedFields
<1>3. \A n \in 0 .. size : T[n] = IF n < size THEN s[n + 1] ELSE kNone
  BY DEF Traversal
<1>4. \A n \in 0 .. size : T[n] = Hop(T, n)
  <2> HIDE DEF T
  <2> TAKE n \in 0 .. size
  <2>1. CASE n = 0
    BY <1>2, <1>3, <2>1
  <2>2. CASE n # 0
    <3>1. n - 1 \in 0 .. size /\ n \in 1 .. size /\ n - 1 < size /\ (n - 1) + 1 = n
      BY <1>2, <2>2
    <3>2. T[n - 1] = s[n]
      BY <1>3, <3>1
    <3>3. s[n] # kNone /\ links.next[s[n]] = IF n = size THEN kNone ELSE s[n + 1]
      BY <1>2, <3>1
    <3>4. T[n] = IF n < size THEN s[n + 1] ELSE kNone
      BY <1>3
    <3>5. n < size <=> n # size
      BY <1>2
    <3>6. QED  BY <2>2, <3>2, <3>3, <3>4, <3>5
  <2>3. QED  BY <2>1, <2>2
<1>5. T = [n \in 0 .. size |-> T[n]]
  BY DEF Traversal
<1>6. Solves(T)
  <2> HIDE DEF T
  <2> DEFINE U == [n \in 0 .. size |-> Hop(T, n)]
  <2>1. \A n \in 0 .. size : U[n] = T[n]
    <3> HIDE DEF Hop
    <3>1. QED  BY <1>4
  <2>2. DOMAIN U = 0 .. size
    OBVIOUS
  <2>3. U = [n \in 0 .. size |-> U[n]]
    OBVIOUS
  <2> HIDE DEF U
  <2>4. T = U
    BY <1>5, <2>1, <2>3
  <2>5. QED  BY <2>4 DEF U
<1>7. ASSUME NEW v, Solves(v) PROVE v = T
  <2>1. \A n \in 0 .. size : v[n] = Hop(v, n)
    <3> HIDE DEF Hop
    <3>1. QED  BY <1>7
  <2>2. v = [n \in 0 .. size |-> v[n]]
    BY <1>7
  <2> DEFINE D == {n \in 0 .. size : v[n] # T[n]}
  <2> HIDE DEF T
  <2>3. D = {}
    <3>1. SUFFICES ASSUME D # {} PROVE FALSE
      OBVIOUS
    <3>2. D \in SUBSET Nat
      BY <1>2
    <3> DEFINE m == Min(D)
    <3>3. m \in D /\ \A y \in D : m <= y
      BY <3>1, <3>2, MinProperty
    <3> HIDE DEF m
    <3>4. m \in 0 .. size /\ v[m] # T[m]
      BY <3>3
    <3>5. CASE m = 0
      BY <1>4, <2>1, <3>4, <3>5
    <3>6. CASE m # 0
      <4>1. m - 1 \in 0 .. size /\ ~(m <= m - 1)
        BY <1>2, <3>4, <3>6
      <4>2. v[m - 1] = T[m - 1]
        BY <3>3, <4>1
      <4>3. v[m] = Hop(v, m) /\ T[m] = Hop(T, m)
        BY <1>4, <2>1, <3>4
      <4>4. QED  BY <3>4, <4>2, <4>3
    <3>7. QED  BY <3>5, <3>6
  <2>4. \A n \in 0 .. size : v[n] = T[n]
    BY <2>3
  <2>5. QED  BY <1>5, <2>2, <2>4
<1>8. QED
  <2> HIDE DEF Solves, T
  <2>1. Solves(CHOOSE v : Solves(v))
    BY <1>6
  <2>2. QED  BY <1>1, <1>7, <2>1 DEF T

-----------------------------------------------------------------------------
\* The entries, as the abstract list sees them.

EntryAt(K, V, i) == [key |-> K[i], value |-> V[i]]

(* The entries of the positions in s.                                      *)
Listed(s, K, V) == [n \in 1 .. Len(s) |-> EntryAt(K, V, s[n])]

EntryType == [key : Key \cup {kNone}, value : Value \cup {kNone}]

LEMMA EntriesListed ==
    ASSUME NEW s \in Seq(Id), InOrder(links, Live, size, s)
    PROVE  Entries = Listed(s, key, store)
<1>1. Len(s) = size /\ size \in Nat /\ Visited = Traversal(s)
  <2>1. Ordered(links, s) /\ Len(s) = size
    BY DEF InOrder
  <2>2. QED  BY <2>1, TraversalVisits DEF VisitsOrder
<1>2. ASSUME NEW n \in 1 .. size PROVE Visited[n - 1] = s[n]
  <2>1. n - 1 \in 0 .. size /\ n - 1 < size /\ (n - 1) + 1 = n
    BY <1>1
  <2>2. QED  BY <1>1, <2>1 DEF Traversal
<1>3. QED  BY <1>1, <1>2 DEF Entries, Listed, EntryAt

LEMMA EntriesListedNext ==
    ASSUME NEW s \in Seq(Id), InOrder(links', Live', size', s)
    PROVE  Entries' = Listed(s, key', store')
<1>1. Len(s) = size' /\ size' \in Nat /\ Visited' = [n \in 0 .. size' |-> IF n < size' THEN s[n + 1] ELSE kNone]
  <2>1. Ordered(links', s) /\ Len(s) = size'
    BY DEF InOrder
  <2>2. VisitsOrder'
    BY TraversalVisits, PTL
  <2>3. QED  BY <2>1, <2>2 DEF VisitsOrder, Traversal
<1>2. ASSUME NEW n \in 1 .. size' PROVE Visited'[n - 1] = s[n]
  <2>1. n - 1 \in 0 .. size' /\ n - 1 < size' /\ (n - 1) + 1 = n
    BY <1>1
  <2>2. QED  BY <1>1, <2>1
<1>3. QED  BY <1>1, <1>2 DEF Entries, Listed, EntryAt

LEMMA ListedType ==
    ASSUME NEW s \in Seq(Id), NEW K \in [Id -> Key \cup {kNone}], NEW V \in [Id -> Value \cup {kNone}]
    PROVE  /\ Listed(s, K, V) \in Seq(EntryType) /\ Len(Listed(s, K, V)) = Len(s)
           /\ \A n \in 1 .. Len(s) : /\ s[n] \in Id
                                     /\ Listed(s, K, V)[n] = EntryAt(K, V, s[n])
                                     /\ EntryAt(K, V, s[n]) \in EntryType
<1>1. \A n \in 1 .. Len(s) : s[n] \in Id /\ EntryAt(K, V, s[n]) \in EntryType
  <2> TAKE n \in 1 .. Len(s)
  <2>1. s[n] \in Id
    OBVIOUS
  <2>2. K[s[n]] \in Key \cup {kNone} /\ V[s[n]] \in Value \cup {kNone}
    BY <2>1
  <2>3. QED  BY <2>1, <2>2 DEF EntryAt, EntryType
<1> DEFINE L == Listed(s, K, V)
<1>2. L = [n \in 1 .. Len(s) |-> EntryAt(K, V, s[n])] /\ Len(s) \in Nat
  BY DEF Listed
<1> HIDE DEF L
<1>3. L \in [1 .. Len(s) -> EntryType]
  BY <1>1, <1>2
<1>4. L \in Seq(EntryType) /\ Len(L) = Len(s)
  BY <1>2, <1>3
<1>5. QED  BY <1>1, <1>2, <1>4 DEF L

LEMMA ListedAppend ==
    ASSUME NEW s \in Seq(Id), NEW id \in Id,
           NEW K \in [Id -> Key \cup {kNone}], NEW V \in [Id -> Value \cup {kNone}]
    PROVE  Listed(Append(s, id), K, V) = Append(Listed(s, K, V), EntryAt(K, V, id))
<1> DEFINE t == Append(s, id)
           L == Listed(s, K, V)
           M == Listed(t, K, V)
           e == EntryAt(K, V, id)
<1>1. /\ t \in Seq(Id) /\ Len(t) = Len(s) + 1 /\ Len(s) \in Nat /\ t[Len(s) + 1] = id
      /\ \A n \in 1 .. Len(s) : t[n] = s[n]
  OBVIOUS
<1> HIDE DEF t
<1>2. /\ L \in Seq(EntryType) /\ Len(L) = Len(s)
      /\ \A n \in 1 .. Len(s) : L[n] = EntryAt(K, V, s[n])
  BY ListedType
<1>3. /\ M \in Seq(EntryType) /\ Len(M) = Len(t)
      /\ \A n \in 1 .. Len(t) : M[n] = EntryAt(K, V, t[n])
  BY <1>1, ListedType
<1>4. e \in EntryType
  <2>1. K[id] \in Key \cup {kNone} /\ V[id] \in Value \cup {kNone}
    OBVIOUS
  <2>2. QED  BY <2>1 DEF EntryAt, EntryType
<1>5. e = EntryAt(K, V, id)
  OBVIOUS
<1> HIDE DEF L, M, e
<1>6. /\ Append(L, e) \in Seq(EntryType) /\ Len(Append(L, e)) = Len(L) + 1
      /\ Append(L, e)[Len(L) + 1] = e
      /\ \A n \in 1 .. Len(L) : Append(L, e)[n] = L[n]
  BY <1>2, <1>4
<1> DEFINE A == Append(L, e)
<1> HIDE DEF A
<1>7. ASSUME NEW n \in 1 .. Len(M) PROVE M[n] = A[n]
  <2>1. CASE n = Len(s) + 1
    BY <1>1, <1>2, <1>3, <1>5, <1>6, <2>1 DEF A
  <2>2. CASE n # Len(s) + 1
    <3>1. n \in 1 .. Len(s) /\ n \in 1 .. Len(t) /\ n \in 1 .. Len(L)
      BY <1>1, <1>2, <1>3, <2>2
    <3>2. A[n] = L[n]
      BY <1>6, <3>1 DEF A
    <3>3. QED  BY <1>1, <1>2, <1>3, <3>1, <3>2
  <2>3. QED  BY <2>1, <2>2
<1>8. A \in Seq(EntryType) /\ Len(A) = Len(M)
  BY <1>1, <1>2, <1>3, <1>6 DEF A
<1>9. M = A
  BY <1>3, <1>7, <1>8, SeqEqual
<1>10. QED  BY <1>9 DEF A, L, M, e, t

LEMMA ListedRemove ==
    ASSUME NEW s \in Seq(Id), NEW i \in 1 .. Len(s),
           NEW K \in [Id -> Key \cup {kNone}], NEW V \in [Id -> Value \cup {kNone}]
    PROVE  Listed(RemoveAt(s, i), K, V) = RemoveAt(Listed(s, K, V), i)
<1> DEFINE t == RemoveAt(s, i)
           L == Listed(s, K, V)
           M == Listed(t, K, V)
           A == RemoveAt(L, i)
<1>1. t \in Seq(Id) /\ Len(t) = Len(s) - 1
  BY RemoveAtProperties
<1>2. \A n \in 1 .. Len(s) - 1 : t[n] = IF n < i THEN s[n] ELSE s[n + 1]
  BY RemoveAtProperties
<1> HIDE DEF t
<1>3. /\ L \in Seq(EntryType) /\ Len(L) = Len(s)
      /\ \A n \in 1 .. Len(s) : L[n] = EntryAt(K, V, s[n])
  BY ListedType
<1>4. /\ M \in Seq(EntryType) /\ Len(M) = Len(t)
      /\ \A n \in 1 .. Len(t) : M[n] = EntryAt(K, V, t[n])
  BY <1>1, ListedType
<1> HIDE DEF L, M
<1>5. i \in 1 .. Len(L)
  BY <1>3
<1>6. A \in Seq(EntryType) /\ Len(A) = Len(L) - 1
  BY <1>3, <1>5, RemoveAtProperties
<1>7. \A n \in 1 .. Len(L) - 1 : A[n] = IF n < i THEN L[n] ELSE L[n + 1]
  BY <1>3, <1>5, RemoveAtProperties
<1> HIDE DEF A
<1>8. ASSUME NEW n \in 1 .. Len(M) PROVE M[n] = A[n]
  <2>1. /\ n \in 1 .. Len(s) - 1 /\ n \in 1 .. Len(L) - 1 /\ n \in 1 .. Len(t)
        /\ n \in 1 .. Len(s) /\ n + 1 \in 1 .. Len(s)
    <3>1. Len(s) \in Nat
      OBVIOUS
    <3>2. QED  BY <3>1, <1>1, <1>3, <1>4
  <2>2. M[n] = EntryAt(K, V, t[n])
    BY <1>4, <2>1
  <2>3. CASE n < i
    BY <1>2, <1>3, <1>7, <2>1, <2>2, <2>3
  <2>4. CASE ~(n < i)
    BY <1>2, <1>3, <1>7, <2>1, <2>2, <2>4
  <2>5. QED  BY <2>3, <2>4
<1>9. Len(M) = Len(A)
  BY <1>1, <1>3, <1>4, <1>6
<1>10. M = A
  BY <1>4, <1>6, <1>8, <1>9, SeqEqual
<1>11. QED  BY <1>10 DEF M, A, L, t

LEMMA ListedSame ==
    ASSUME NEW s \in Seq(Id), NEW K, NEW V, NEW K2, NEW V2,
           \A n \in 1 .. Len(s) : K[s[n]] = K2[s[n]] /\ V[s[n]] = V2[s[n]]
    PROVE  Listed(s, K, V) = Listed(s, K2, V2)
BY DEF Listed, EntryAt

-----------------------------------------------------------------------------
\* The operations, on the abstract list.

LEMMA AbstractRemoveAt ==
    \A s, i : Recency!RemoveAt(s, i) = RemoveAt(s, i)
BY DEF Recency!RemoveAt, RemoveAt

LEMMA ListedKeys ==
    ASSUME NEW s \in Seq(Id), NEW K \in [Id -> Key \cup {kNone}], NEW V \in [Id -> Value \cup {kNone}]
    PROVE  /\ Len(Listed(s, K, V)) = Len(s)
           /\ \A n \in 1 .. Len(s) : s[n] \in Id /\ Listed(s, K, V)[n].key = K[s[n]]
<1>1. /\ Len(Listed(s, K, V)) = Len(s)
      /\ \A n \in 1 .. Len(s) : s[n] \in Id /\ Listed(s, K, V)[n] = EntryAt(K, V, s[n])
  BY ListedType
<1>2. \A i : EntryAt(K, V, i).key = K[i]
  BY DEF EntryAt
<1>3. QED  BY <1>1, <1>2

(* What the operations do to the list, for the ids s in its order.         *)
LEMMA AddRefines ==
    ASSUME MapInv, OrderInv, NEW k \in Key, NEW v \in Value, add(k, v)
    PROVE  OrderInv' /\ Recency!Next
<1>1. PICK s \in Seq(Id) : InOrder(links, Live, size, s)
  BY DEF OrderInv
<1>2. PICK id \in Id \ Live :
         /\ InOrder(links', Live', size', Append(s, id))
         /\ key' = [key EXCEPT ![id] = k] /\ store' = [store EXCEPT ![id] = v]
  BY <1>1, AddOrder
<1>3. MapTypeOK /\ StructuresAgree /\ Live \in SUBSET Id /\ kNone \notin Id /\ kNone \notin Live
  BY LiveIds DEF MapInv
<1>4. /\ key \in [Id -> Key \cup {kNone}] /\ store \in [Id -> Value \cup {kNone}]
      /\ key' \in [Id -> Key \cup {kNone}] /\ store' \in [Id -> Value \cup {kNone}]
  BY <1>2, <1>3 DEF MapTypeOK
<1>5. \A n \in 1 .. Len(s) : s[n] \in Live /\ s[n] \in Id
  BY <1>1, <1>3 DEF InOrder, Range
<1>6. Entries = Listed(s, key, store)
  BY <1>1, EntriesListed
<1>7. Append(s, id) \in Seq(Id)
  OBVIOUS
<1>8. Entries' = Listed(Append(s, id), key', store')
  BY <1>2, <1>7, EntriesListedNext
<1>9. Listed(Append(s, id), key', store') = Append(Listed(s, key', store'), EntryAt(key', store', id))
  BY <1>4, ListedAppend
<1>10. Listed(s, key', store') = Listed(s, key, store)
  <2>1. \A n \in 1 .. Len(s) : key'[s[n]] = key[s[n]] /\ store'[s[n]] = store[s[n]]
    BY <1>2, <1>3, <1>5 DEF MapTypeOK
  <2>2. QED  BY <2>1, ListedSame
<1>11. EntryAt(key', store', id) = Recency!Entry(k, v)
  <2>1. key'[id] = k /\ store'[id] = v
    BY <1>2, <1>4, <1>3 DEF MapTypeOK
  <2>2. QED  BY <2>1 DEF EntryAt, Recency!Entry
<1>12. Entries' = Append(Entries, Recency!Entry(k, v))
  BY <1>6, <1>8, <1>9, <1>10, <1>11
<1>13. Recency!New(k)
  <2>1. map[k] = kNone
    BY DEF add
  <2>2. ASSUME NEW n \in 1 .. Len(Entries) PROVE Entries[n].key # k
    <3>1. n \in 1 .. Len(s) /\ Entries[n].key = key[s[n]]
      BY <1>4, <1>6, <2>2, ListedKeys
    <3>2. map[key[s[n]]] = s[n] /\ s[n] # kNone
      BY <1>3, <1>5, <3>1 DEF StructuresAgree
    <3>3. QED  BY <2>1, <3>1, <3>2
  <2>3. QED  BY <2>2 DEF Recency!New
<1>14. Recency!Add(k, v)
  BY <1>12, <1>13 DEF Recency!Add
<1>15. QED  BY <1>2, <1>7, <1>14 DEF OrderInv, Recency!Next

LEMMA Positions ==
    ASSUME MapInv, NEW s \in Seq(Id), InOrder(links, Live, size, s), NEW id \in Live
    PROVE  \E i \in 1 .. Len(s) : s[i] = id
BY DEF InOrder, Range

(* The entries keep their order, up to the one at i.                       *)
LEMMA MovedEntries ==
    ASSUME MapInv, NEW s \in Seq(Id), InOrder(links, Live, size, s), NEW i \in 1 .. Len(s),
           InOrder(links', Live', size', Append(RemoveAt(s, i), s[i])),
           key' \in [Id -> Key \cup {kNone}], store' \in [Id -> Value \cup {kNone}],
           \A n \in Id \ {s[i]} : key'[n] = key[n] /\ store'[n] = store[n]
    PROVE  /\ Entries = Listed(s, key, store)
           /\ Entries' = Append(RemoveAt(Entries, i), EntryAt(key', store', s[i]))
<1> DEFINE t == RemoveAt(s, i)
<1>1. key \in [Id -> Key \cup {kNone}] /\ store \in [Id -> Value \cup {kNone}]
  BY DEF MapInv, MapTypeOK
<1>2. t \in Seq(Id) /\ Len(t) = Len(s) - 1
  BY RemoveAtProperties
<1>3. s[i] \notin Range(t) /\ s[i] \in Id
  <2>1. IsInjective(s)
    BY DEF InOrder, Ordered
  <2>2. QED  BY <2>1, RemoveAtInjective
<1>4. Entries = Listed(s, key, store)
  BY EntriesListed
<1>5. RemoveAt(Entries, i) = Listed(t, key, store)
  BY <1>1, <1>4, ListedRemove
<1> HIDE DEF t
<1>6. Append(t, s[i]) \in Seq(Id)
  BY <1>2, <1>3
<1>7. Entries' = Listed(Append(t, s[i]), key', store')
  BY <1>6, EntriesListedNext DEF t
<1>8. Listed(Append(t, s[i]), key', store') = Append(Listed(t, key', store'), EntryAt(key', store', s[i]))
  BY <1>2, <1>3, ListedAppend
<1>9. Listed(t, key', store') = Listed(t, key, store)
  <2>1. \A n \in 1 .. Len(t) : t[n] \in Id /\ t[n] # s[i]
    BY <1>2, <1>3 DEF Range
  <2>2. \A n \in 1 .. Len(t) : key'[t[n]] = key[t[n]] /\ store'[t[n]] = store[t[n]]
    BY <2>1
  <2>3. QED  BY <2>2 DEF Listed, EntryAt
<1>10. QED  BY <1>4, <1>5, <1>7, <1>8, <1>9

LEMMA RefreshRefines ==
    ASSUME MapInv, OrderInv, NEW id \in Live, refreshWithId(id)
    PROVE  OrderInv' /\ Recency!Next
<1>1. PICK s \in Seq(Id) : InOrder(links, Live, size, s)
  BY DEF OrderInv
<1>2. PICK i \in 1 .. Len(s) : s[i] = id
  BY <1>1, Positions
<1>3. /\ links' = moveToMru(links, s[i]) /\ next_id' = next_id /\ free_list' = free_list
      /\ key' = key /\ store' = store
  BY <1>2 DEF refreshWithId
<1>4. InOrder(links', Live', size', Append(RemoveAt(s, i), s[i]))
  BY <1>1, <1>3, MoveOrder
<1>5. key \in [Id -> Key \cup {kNone}] /\ store \in [Id -> Value \cup {kNone}]
  BY DEF MapInv, MapTypeOK
<1>6. Entries = Listed(s, key, store) /\ Entries' = Append(RemoveAt(Entries, i), EntryAt(key', store', s[i]))
  BY <1>1, <1>3, <1>4, <1>5, MovedEntries
<1>7. Len(Entries) = Len(s) /\ Entries[i] = EntryAt(key, store, s[i])
  BY <1>5, <1>6, ListedType
<1>8. Recency!Refresh(i)
  BY <1>3, <1>6, <1>7, AbstractRemoveAt DEF Recency!Refresh
<1>9. Append(RemoveAt(s, i), s[i]) \in Seq(Id)
  BY <1>4 DEF InOrder
<1>10. QED  BY <1>4, <1>7, <1>8, <1>9 DEF OrderInv, Recency!Next

LEMMA ReplaceRefines ==
    ASSUME MapInv, OrderInv, NEW id \in Live, NEW k \in Key, NEW v \in Value, replace(id, k, v)
    PROVE  OrderInv' /\ Recency!Next
<1>1. PICK s \in Seq(Id) : InOrder(links, Live, size, s)
  BY DEF OrderInv
<1>2. PICK i \in 1 .. Len(s) : s[i] = id
  BY <1>1, Positions
<1>3. /\ links' = moveToMru(links, s[i]) /\ next_id' = next_id /\ free_list' = free_list
      /\ key' = [key EXCEPT ![s[i]] = k] /\ store' = [store EXCEPT ![s[i]] = v]
      /\ map[k] \in {kNone, s[i]}
  BY <1>2 DEF replace
<1>4. InOrder(links', Live', size', Append(RemoveAt(s, i), s[i]))
  BY <1>1, <1>3, MoveOrder
<1>5. /\ key \in [Id -> Key \cup {kNone}] /\ store \in [Id -> Value \cup {kNone}]
      /\ StructuresAgree /\ s[i] \in Id /\ Live \in SUBSET Id /\ kNone \notin Live
  BY <1>2, LiveIds DEF MapInv, MapTypeOK
<1>6. /\ key' \in [Id -> Key \cup {kNone}] /\ store' \in [Id -> Value \cup {kNone}]
      /\ key'[s[i]] = k /\ store'[s[i]] = v
      /\ \A n \in Id \ {s[i]} : key'[n] = key[n] /\ store'[n] = store[n]
  BY <1>3, <1>5
<1>7. Entries = Listed(s, key, store) /\ Entries' = Append(RemoveAt(Entries, i), EntryAt(key', store', s[i]))
  BY <1>1, <1>4, <1>6, MovedEntries
<1>8. EntryAt(key', store', s[i]) = Recency!Entry(k, v)
  BY <1>6 DEF EntryAt, Recency!Entry
<1>9. /\ Len(Entries) = Len(s)
      /\ \A n \in 1 .. Len(s) : s[n] \in Id /\ Entries[n].key = key[s[n]]
  BY <1>5, <1>7, ListedKeys
<1>10. Recency!New(k) \/ Entries[i].key = k
  <2>1. CASE map[k] = kNone
    <3>1. ASSUME NEW n \in 1 .. Len(Entries) PROVE Entries[n].key # k
      <4>1. n \in 1 .. Len(s) /\ s[n] \in Live
        BY <1>1, <1>9 DEF InOrder, Range
      <4>2. map[key[s[n]]] = s[n] /\ s[n] # kNone
        BY <1>5, <4>1 DEF StructuresAgree
      <4>3. QED  BY <1>9, <2>1, <4>1, <4>2
    <3>2. QED  BY <3>1 DEF Recency!New
  <2>2. CASE map[k] = s[i]
    <3>1. map[k] # kNone
      BY <1>2, <1>5, <2>2
    <3>2. key[s[i]] = k
      BY <1>5, <2>2, <3>1 DEF StructuresAgree
    <3>3. QED  BY <1>9, <3>2
  <2>3. QED  BY <1>3, <2>1, <2>2
<1>11. Recency!Replace(i, k, v)
  BY <1>7, <1>8, <1>10, AbstractRemoveAt DEF Recency!Replace
<1>12. Append(RemoveAt(s, i), s[i]) \in Seq(Id)
  BY <1>4 DEF InOrder
<1>13. QED  BY <1>4, <1>9, <1>11, <1>12 DEF OrderInv, Recency!Next

LEMMA ChangeRefines ==
    ASSUME MapInv, OrderInv, NEW id \in Live, NEW v \in Value, change(id, v)
    PROVE  OrderInv' /\ Recency!Next
<1>1. PICK s \in Seq(Id) : InOrder(links, Live, size, s)
  BY DEF OrderInv
<1>2. PICK i \in 1 .. Len(s) : s[i] = id
  BY <1>1, Positions
<1>3. /\ links' = links /\ next_id' = next_id /\ free_list' = free_list
      /\ key' = key /\ store' = [store EXCEPT ![s[i]] = v]
  BY <1>2 DEF change
<1>4. Live' = Live /\ size' = size
  BY <1>3 DEF Live, size, Free
<1>5. InOrder(links', Live', size', s)
  BY <1>1, <1>3, <1>4
<1>6. /\ key \in [Id -> Key \cup {kNone}] /\ store \in [Id -> Value \cup {kNone}]
      /\ s[i] \in Id /\ store' \in [Id -> Value \cup {kNone}]
  BY <1>3 DEF MapInv, MapTypeOK
<1>7. Entries = Listed(s, key, store) /\ Entries' = Listed(s, key, store')
  BY <1>1, <1>3, <1>5, EntriesListed, EntriesListedNext
<1> DEFINE e == Entries
           f == Entries'
<1>8. /\ e \in Seq(EntryType) /\ Len(e) = Len(s)
      /\ \A n \in 1 .. Len(s) : e[n] = EntryAt(key, store, s[n]) /\ e[n] \in EntryType
  BY <1>6, <1>7, ListedType
<1>9. /\ f \in Seq(EntryType) /\ Len(f) = Len(s)
      /\ \A n \in 1 .. Len(s) : f[n] = EntryAt(key, store', s[n])
  BY <1>6, <1>7, ListedType
<1>10. \A n \in 1 .. Len(s) : s[n] \in Id /\ (s[n] = s[i] => n = i)
  BY <1>1 DEF InOrder, Ordered, IsInjective
<1> HIDE DEF e, f
<1>11. ASSUME NEW n \in 1 .. Len(s) PROVE f[n] = IF n = i THEN [e[i] EXCEPT !.value = v] ELSE e[n]
  <2>1. CASE n = i
    <3>1. e[i] = [key |-> key[s[i]], value |-> store[s[i]]]
      BY <1>8 DEF EntryAt
    <3>2. f[i] = [key |-> key[s[i]], value |-> v]
      BY <1>3, <1>6, <1>9 DEF EntryAt
    <3>3. QED  BY <2>1, <3>1, <3>2
  <2>2. CASE n # i
    <3>1. store'[s[n]] = store[s[n]]
      BY <1>3, <1>6, <1>10, <2>2
    <3>2. QED  BY <1>8, <1>9, <2>2, <3>1 DEF EntryAt
  <2>3. QED  BY <2>1, <2>2
<1>12. f = [e EXCEPT ![i].value = v]
  <2> DEFINE g == [n \in 1 .. Len(s) |-> IF n = i THEN [e[i] EXCEPT !.value = v] ELSE e[n]]
  <2>1. /\ DOMAIN e = 1 .. Len(s) /\ e = [n \in DOMAIN e |-> e[n]]
        /\ f = [n \in 1 .. Len(s) |-> f[n]]
    BY <1>8, <1>9
  <2>2. f = g
    BY <1>11, <2>1
  <2>3. g = [e EXCEPT ![i].value = v]
    BY <2>1
  <2>4. QED  BY <2>2, <2>3
<1>13. Recency!Change(i, v)
  BY <1>12 DEF Recency!Change, e, f
<1>14. QED  BY <1>5, <1>8, <1>13 DEF OrderInv, Recency!Next, e

LEMMA EraseRefines ==
    ASSUME MapInv, OrderInv, NEW id \in Live, erase(id)
    PROVE  OrderInv' /\ Recency!Next
<1>1. PICK s \in Seq(Id) : InOrder(links, Live, size, s)
  BY DEF OrderInv
<1>2. PICK i \in 1 .. Len(s) : s[i] = id
  BY <1>1, Positions
<1>3. key \in [Id -> Key \cup {kNone}] /\ store \in [Id -> Value \cup {kNone}] /\ Len(s) = size
  BY <1>1 DEF MapInv, MapTypeOK, InOrder
<1>4. Entries = Listed(s, key, store)
  BY <1>1, EntriesListed
<1>5. Len(Entries) = Len(s) /\ RemoveAt(Entries, i) = Listed(RemoveAt(s, i), key, store)
  BY <1>3, <1>4, ListedType, ListedRemove
<1>6. RemoveAt(s, i) \in Seq(Id) /\ Len(RemoveAt(s, i)) = Len(s) - 1
  BY RemoveAtProperties
<1>7. \E t \in Seq(Id) : /\ InOrder(links', Live', size', t)
                         /\ Listed(t, key', store') = Listed(RemoveAt(s, i), key, store)
  <2>1. CASE size = 1
    <3>1. clear
      BY <2>1 DEF erase
    <3>2. InOrder(links', Live', size', <<>>)
      BY <3>1, ClearOrder
    <3>3. Len(RemoveAt(s, i)) = 0 /\ Len(<<>>) = 0 /\ <<>> \in Seq(Id)
      BY <1>3, <1>6, <2>1
    <3>4. Listed(<<>>, key', store') = Listed(RemoveAt(s, i), key, store)
      BY <3>3 DEF Listed
    <3>5. QED  BY <3>2, <3>3, <3>4
  <2>2. CASE size # 1
    <3>1. eraseOne(s[i])
      BY <1>2, <2>2 DEF erase
    <3>2. key' = key /\ store' = store
      BY <3>1 DEF eraseOne
    <3>3. InOrder(links', Live', size', RemoveAt(s, i))
      BY <1>1, <3>1, EraseOrder
    <3>4. QED  BY <1>6, <3>2, <3>3
  <2>3. QED  BY <2>1, <2>2
<1>8. PICK t \in Seq(Id) : /\ InOrder(links', Live', size', t)
                           /\ Listed(t, key', store') = Listed(RemoveAt(s, i), key, store)
  BY <1>7
<1>9. Entries' = RemoveAt(Entries, i)
  <2>1. Entries' = Listed(t, key', store')
    BY <1>8, EntriesListedNext
  <2>2. QED  BY <1>5, <1>8, <2>1
<1>10. Recency!Erase(i)
  BY <1>9, AbstractRemoveAt DEF Recency!Erase
<1>11. QED  BY <1>5, <1>8, <1>10 DEF OrderInv, Recency!Next

-----------------------------------------------------------------------------
\* A search.

(* findFirstWithPredicate tries the ids in their order, from the LRU       *)
(* position, and stops before the reserved ones.                           *)
LEMMA SearchFindsFirst == MapInv /\ OrderInv => FindsFirst
<1> SUFFICES ASSUME MapInv, OrderInv PROVE FindsFirst
  OBVIOUS
<1>1. PICK s \in Seq(Id) : InOrder(links, Live, size, s)
  BY DEF OrderInv
<1>2. key \in [Id -> Key \cup {kNone}] /\ store \in [Id -> Value \cup {kNone}]
  BY DEF MapInv, MapTypeOK
<1>3. size \in Nat /\ Len(s) = size /\ Visited = Traversal(s)
  <2>1. Ordered(links, s) /\ Len(s) = size
    BY <1>1 DEF InOrder
  <2>2. QED  BY <2>1, TraversalVisits DEF VisitsOrder
<1>4. \A n \in 0 .. size - 1 : Visited[n] = s[n + 1]
  BY <1>3 DEF Traversal
<1>5. \A n \in 1 .. size : /\ s[n] \in Id /\ s[n] # kNone
                           /\ Entries[n].key = key[s[n]] /\ Entries[n].value = store[s[n]]
  <2>1. Entries = Listed(s, key, store)
    BY <1>1, EntriesListed
  <2>2. \A n \in 1 .. size : s[n] \in Id /\ Listed(s, key, store)[n] = EntryAt(key, store, s[n])
    BY <1>2, <1>3, ListedType
  <2>3. \A i : EntryAt(key, store, i).key = key[i] /\ EntryAt(key, store, i).value = store[i]
    BY DEF EntryAt
  <2>4. \A n \in 1 .. size : s[n] # kNone
    BY <2>2, LinkedMapAssumption DEF Id, kNone
  <2>5. QED  BY <2>1, <2>2, <2>3, <2>4
<1>6. ASSUME NEW P \in SUBSET Value, NEW exclude_lru \in BOOLEAN, NEW reserved \in 0 .. size
      PROVE  LET id == findFirstWithPredicate(P, exclude_lru, reserved)
                 Meets(n) == Entries[n].value \in P /\ n <= size - reserved
                             /\ (exclude_lru => n > 1)
             IN  IF id = kNone THEN \A n \in 1 .. size : ~Meets(n)
                 ELSE \E n \in 1 .. size :
                         /\ Meets(n) /\ \A o \in 1 .. n - 1 : ~Meets(o)
                         /\ Entries[n].key = key[id]
  <2> DEFINE id == findFirstWithPredicate(P, exclude_lru, reserved)
             Meets(n) == Entries[n].value \in P /\ n <= size - reserved
                         /\ (exclude_lru => n > 1)
             first == IF exclude_lru THEN 1 ELSE 0
             found == {n \in Searched(exclude_lru, reserved) : store[Visited[n]] \in P}
  <2>1. Searched(exclude_lru, reserved) = first .. size - reserved - 1
    BY DEF Searched
  <2>2. id = IF found = {} THEN kNone ELSE Visited[Min(found)]
    BY DEF findFirstWithPredicate, Min
  <2>3. first \in {0, 1} /\ (first = 1 <=> exclude_lru)
    OBVIOUS
  <2> HIDE DEF first, id
  <2>4. \A n \in 0 .. size - 1 : n \in found <=> Meets(n + 1)
    <3> SUFFICES ASSUME NEW n \in 0 .. size - 1 PROVE n \in found <=> Meets(n + 1)
      OBVIOUS
    <3>1. /\ n + 1 \in 1 .. size /\ Entries[n + 1].value = store[Visited[n]]
      BY <1>3, <1>4, <1>5
    <3>2. n \in first .. size - reserved - 1 <=> n + 1 <= size - reserved /\ (exclude_lru => n + 1 > 1)
      BY <1>3, <2>3
    <3>3. QED  BY <2>1, <3>1, <3>2
  <2>5. found \subseteq 0 .. size - 1 /\ found \in SUBSET Nat
    BY <1>3, <2>1, <2>3
  <2> HIDE DEF found, Meets
  <2>6. CASE found = {}
    <3>1. ASSUME NEW n \in 1 .. size PROVE ~Meets(n)
      <4>1. n - 1 \in 0 .. size - 1 /\ (n - 1) + 1 = n
        BY <1>3
      <4>2. QED  BY <2>4, <2>6, <4>1
    <3>2. id = kNone
      BY <2>2, <2>6
    <3>3. QED  BY <3>1, <3>2 DEF id, Meets
  <2>7. CASE found # {}
    <3> DEFINE m == Min(found)
    <3>1. m \in found /\ \A y \in found : m <= y
      BY <2>5, <2>7, MinProperty
    <3>2. id = Visited[m]
      BY <2>2, <2>7
    <3> HIDE DEF m
    <3>3. m \in 0 .. size - 1 /\ m + 1 \in 1 .. size /\ id = s[m + 1]
      BY <1>3, <1>4, <2>5, <3>1, <3>2
    <3>4. id # kNone /\ Entries[m + 1].key = key[id]
      BY <1>5, <3>3
    <3>5. Meets(m + 1)
      BY <2>4, <3>1, <3>3
    <3>6. ASSUME NEW o \in 1 .. (m + 1) - 1 PROVE ~Meets(o)
      <4>1. o - 1 \in 0 .. size - 1 /\ (o - 1) + 1 = o /\ ~(m <= o - 1)
        BY <1>3, <3>3
      <4>2. QED  BY <2>4, <3>1, <4>1
    <3>7. \E n \in 1 .. size :
             /\ Meets(n) /\ \A o \in 1 .. n - 1 : ~Meets(o)
             /\ Entries[n].key = key[id]
      BY <3>3, <3>4, <3>5, <3>6
    <3>8. QED  BY <3>4, <3>7 DEF id, Meets
  <2>8. QED  BY <2>6, <2>7
<1>7. QED  BY <1>6 DEF FindsFirst

-----------------------------------------------------------------------------
\* The theorems.

LEMMA InitRefines == MapInit => OrderInv /\ Recency!Init
<1> SUFFICES ASSUME MapInit PROVE OrderInv /\ Recency!Init
  OBVIOUS
<1>1. links = NoLinks /\ next_id = 0 /\ free_list = <<>>
  BY DEF MapInit
<1>2. Free = {} /\ Live = {} /\ size = 0
  <2>1. Len(free_list) = 0
    BY <1>1
  <2>2. Free = {}
    BY <2>1 DEF Free
  <2>3. 0 .. 0 - 1 = {}
    OBVIOUS
  <2>4. Live = {}
    BY <1>1, <2>3 DEF Live
  <2>5. size = 0
    <3>1. size = next_id - Len(free_list)
      BY DEF size
    <3>2. next_id = 0
      BY <1>1
    <3>3. QED  BY <2>1, <3>1, <3>2
  <2>6. QED  BY <2>2, <2>4, <2>5
<1>3. InOrder(links, Live, size, <<>>)
  BY <1>1, <1>2, NothingInOrder
<1>4. Entries = <<>>
  <2>0. <<>> \in Seq(Id) /\ Len(<<>>) = 0
    OBVIOUS
  <2>1. Entries = Listed(<<>>, key, store)
    BY <1>3, <2>0, EntriesListed
  <2>2. key \in [Id -> Key \cup {kNone}] /\ store \in [Id -> Value \cup {kNone}]
    BY MapInitAgrees DEF MapInv, MapTypeOK
  <2>3. Listed(<<>>, key, store) \in Seq(EntryType) /\ Len(Listed(<<>>, key, store)) = 0
    BY <2>0, <2>2, ListedType
  <2> DEFINE L == Listed(<<>>, key, store)
  <2> HIDE DEF L
  <2>4. L \in Seq(EntryType) /\ Len(L) = 0
    BY <2>3 DEF L
  <2>5. L = <<>>
    BY <2>4
  <2>6. QED  BY <2>1, <2>5 DEF L
<1>5. OrderInv
  <2>1. <<>> \in Seq(Id)
    OBVIOUS
  <2>2. QED  BY <1>3, <2>1 DEF OrderInv
<1>6. QED  BY <1>4, <1>5 DEF Recency!Init

LEMMA StepRefines ==
    MapInv /\ OrderInv /\ [MapNext]_map_vars => OrderInv' /\ [Recency!Next]_Entries
<1> SUFFICES ASSUME MapInv, OrderInv, [MapNext]_map_vars PROVE OrderInv' /\ [Recency!Next]_Entries
  OBVIOUS
<1>1. CASE \E k \in Key, v \in Value : add(k, v)
  BY <1>1, AddRefines
<1>2. CASE \E k \in Key : refreshWithKey(k)
  <2>1. PICK k \in Key : refreshWithKey(k)
    BY <1>2
  <2>2. map[k] \in Live /\ refreshWithId(map[k])
    BY <2>1 DEF refreshWithKey, MapInv, StructuresAgree
  <2>3. QED  BY <2>2, RefreshRefines
<1>3. ASSUME NEW id \in Live,
             \/ \E k \in Key, v \in Value : replace(id, k, v)
             \/ refreshWithId(id)
             \/ \E v \in Value : change(id, v)
             \/ erase(id)
      PROVE  OrderInv' /\ Recency!Next
  BY <1>3, ReplaceRefines, RefreshRefines, ChangeRefines, EraseRefines
<1>4. CASE UNCHANGED map_vars
  <2>1. /\ links' = links /\ key' = key /\ store' = store
        /\ next_id' = next_id /\ free_list' = free_list
    BY <1>4 DEF map_vars
  <2>2. Live' = Live /\ size' = size
    BY <2>1 DEF Live, size, Free
  <2>3. PICK s \in Seq(Id) : InOrder(links, Live, size, s)
    BY DEF OrderInv
  <2>4. InOrder(links', Live', size', s)
    BY <2>1, <2>2, <2>3
  <2>5. Entries = Listed(s, key, store) /\ Entries' = Listed(s, key', store')
    BY <2>3, <2>4, EntriesListed, EntriesListedNext
  <2>6. QED  BY <2>1, <2>4, <2>5 DEF OrderInv
<1>5. QED  BY <1>1, <1>2, <1>3, <1>4 DEF MapNext

LEMMA InOrderAlways == MapSpec => [](MapInv /\ OrderInv)
<1>1. MapInit => MapInv /\ OrderInv
  BY MapInitAgrees, InitRefines
<1>2. MapInv /\ OrderInv /\ [MapNext]_map_vars => (MapInv /\ OrderInv)'
  BY MapStepAgrees, StepRefines
<1>3. QED  BY <1>1, <1>2, PTL DEF MapSpec

(* Wherever its entries lie in the vectors, a search (LinkedMap.h,         *)
(* findFirstWithPredicate) returns the one nearest to the LRU position     *)
(* that meets the predicate, and none of the excluded ones.                *)
THEOREM SearchAlwaysFindsFirst == MapSpec => []FindsFirst
BY InOrderAlways, SearchFindsFirst, PTL

(* The linked map implements the list of entries in the order of their     *)
(* last use: each operation of the vectors and links is one of the list's. *)
THEOREM RecencyImplemented == MapSpec => KeepsRecency
<1>1. MapInit => Recency!Init
  BY InitRefines
<1>2. MapInv /\ OrderInv /\ [MapNext]_map_vars => [Recency!Next]_Entries
  BY StepRefines
<1>3. QED  BY <1>1, <1>2, InOrderAlways, PTL DEF MapSpec, KeepsRecency, Recency!Spec

=============================================================================
