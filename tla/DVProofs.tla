------------------------------ MODULE DVProofs ------------------------------
(***************************************************************************)
(* What holds of the DV for all files, clients, simulators and options: it *)
(* implements the job queue and the file cache it is built from, and the   *)
(* promises that span several components.  The first part says what each   *)
(* handler changes; the invariants are then proved one action at a time.   *)
(***************************************************************************)
EXTENDS DV, OperatorProofs

Descriptor ==
    [file_available : BOOLEAN, lock_count : Nat, used : Nat, sockets : SUBSET Client]

DiskState == {"absent", "partial", "complete", "overshoot"}

CacheType ==
    [lru : Seq(File), waiting : SUBSET File, fd : [File -> Descriptor],
     disk : [File -> DiskState]]

SimJobType ==
    [sim_start : Nat, sim_stop : Nat, last_nr : Int, min_sim_target : Int,
     time_to_kill : Int, produced : SUBSET Int, valid : BOOLEAN, is_passive : {FALSE}]

ClientType == [state : ClientState, file : File, opens : 0 .. MaxOpens]

Typed ==
    /\ conncount \in 0 .. MaxJobs
    /\ DOMAIN simulation_jobs \subseteq 1 .. conncount
    /\ simulation_jobs \in [DOMAIN simulation_jobs -> SimJobType]
    /\ jobqueue \in [current : Int, queue : Seq(JobId)]
    /\ cache \in CacheType
    /\ sims \in [JobId -> SimulatorProcess]
    /\ cl \in [Client -> ClientType]

-----------------------------------------------------------------------------
\* What the operations on a cache make of its fields.

LEMMA CacheFields ==
    ASSUME NEW c \in CacheType
    PROVE  /\ c.lru \in Seq(File) /\ c.waiting \in SUBSET File /\ c.fd \in [File -> Descriptor]
           /\ c.disk \in [File -> DiskState]
           /\ c = [lru |-> c.lru, waiting |-> c.waiting, fd |-> c.fd, disk |-> c.disk]
           /\ Cached(c) \in SUBSET File
BY DEF CacheType, Cached, Range

LEMMA SetDescriptor ==
    ASSUME NEW c \in CacheType, NEW f \in File, NEW d \in Descriptor
    PROVE  LET r == [c EXCEPT !.fd[f] = d]
           IN  /\ r \in CacheType
               /\ r.lru = c.lru /\ r.waiting = c.waiting /\ r.disk = c.disk
               /\ r.fd = [c.fd EXCEPT ![f] = d]
<1>1. [c EXCEPT !.fd[f] = d] = [lru |-> c.lru, waiting |-> c.waiting,
                                fd |-> [c.fd EXCEPT ![f] = d], disk |-> c.disk]
  BY CacheFields
<1>2. [c.fd EXCEPT ![f] = d] \in [File -> Descriptor]
  BY CacheFields
<1>3. QED  BY <1>1, <1>2, CacheFields DEF CacheType

LEMMA SetDisk ==
    ASSUME NEW c \in CacheType, NEW f \in File, NEW e \in DiskState
    PROVE  LET r == [c EXCEPT !.disk[f] = e]
           IN  /\ r \in CacheType
               /\ r.lru = c.lru /\ r.waiting = c.waiting /\ r.fd = c.fd
               /\ r.disk = [c.disk EXCEPT ![f] = e]
<1>1. [c EXCEPT !.disk[f] = e] = [lru |-> c.lru, waiting |-> c.waiting, fd |-> c.fd,
                                  disk |-> [c.disk EXCEPT ![f] = e]]
  BY CacheFields
<1>2. [c.disk EXCEPT ![f] = e] \in [File -> DiskState]
  BY CacheFields
<1>3. QED  BY <1>1, <1>2, CacheFields DEF CacheType

LEMMA SetWaiting ==
    ASSUME NEW c \in CacheType, NEW w \in SUBSET File
    PROVE  LET r == [c EXCEPT !.waiting = w]
           IN  /\ r \in CacheType
               /\ r.lru = c.lru /\ r.waiting = w /\ r.fd = c.fd /\ r.disk = c.disk
<1>1. [c EXCEPT !.waiting = w] = [lru |-> c.lru, waiting |-> w, fd |-> c.fd, disk |-> c.disk]
  BY CacheFields
<1>2. QED  BY <1>1, CacheFields DEF CacheType

LEMMA SetList ==
    ASSUME NEW c \in CacheType, NEW s \in Seq(File)
    PROVE  LET r == [c EXCEPT !.lru = s]
           IN  /\ r \in CacheType
               /\ r.lru = s /\ r.waiting = c.waiting /\ r.fd = c.fd /\ r.disk = c.disk
<1>1. [c EXCEPT !.lru = s] = [lru |-> s, waiting |-> c.waiting, fd |-> c.fd, disk |-> c.disk]
  BY CacheFields
<1>2. QED  BY <1>1, CacheFields DEF CacheType

(* The operations of a descriptor, field by field.                         *)
LEMMA DescriptorOps ==
    ASSUME NEW d \in Descriptor
    PROVE  /\ NoDescriptor \in Descriptor
           /\ lock(d) \in Descriptor /\ unlock(d) \in Descriptor
           /\ setFileAvailable(d) \in Descriptor /\ removeAllNotificationSockets(d) \in Descriptor
           /\ \A use \in BOOLEAN : setFileUsedBySimulator(d, use) \in Descriptor
           /\ \A s \in Client : appendNotificationSocket(d, s) \in Descriptor
<1>1. NoDescriptor \in Descriptor
  BY DEF Descriptor, NoDescriptor
<1>2. lock(d) \in Descriptor /\ unlock(d) \in Descriptor
  BY DEF Descriptor, lock, unlock
<1>3. setFileAvailable(d) \in Descriptor /\ removeAllNotificationSockets(d) \in Descriptor
  BY DEF Descriptor, setFileAvailable, removeAllNotificationSockets
<1>4. ASSUME NEW use \in BOOLEAN PROVE setFileUsedBySimulator(d, use) \in Descriptor
  BY DEF Descriptor, setFileUsedBySimulator
<1>5. ASSUME NEW s \in Client PROVE appendNotificationSocket(d, s) \in Descriptor
  BY DEF Descriptor, appendNotificationSocket
<1>6. QED  BY <1>1, <1>2, <1>3, <1>4, <1>5

(* put of an unavailable descriptor: in the waiting list, if the file is   *)
(* not known.                                                              *)
LEMMA PutFields ==
    ASSUME NEW c \in CacheType, NEW f \in File, NEW d \in Descriptor, ~d.file_available
    PROVE  LET r == put(c, f, d, capacity)
           IN  /\ r \in CacheType
               /\ r.lru = c.lru /\ r.disk = c.disk
               /\ r.waiting = IF Known(c, f) THEN c.waiting ELSE c.waiting \cup {f}
               /\ r.fd = IF Known(c, f) THEN c.fd ELSE [c.fd EXCEPT ![f] = d]
               /\ Known(r, f)
<1> DEFINE e == [c EXCEPT !.fd[f] = d]
           r == put(c, f, d, capacity)
<1>1. CASE Known(c, f)
  BY <1>1 DEF put
<1>2. CASE ~Known(c, f)
  <2>1. /\ e \in CacheType /\ e.lru = c.lru /\ e.waiting = c.waiting /\ e.disk = c.disk
        /\ e.fd = [c.fd EXCEPT ![f] = d]
    BY SetDescriptor
  <2>2. r = [e EXCEPT !.waiting = e.waiting \cup {f}]
    BY <1>2 DEF put
  <2> HIDE DEF e, r
  <2>3. e.waiting \cup {f} \in SUBSET File
    BY <2>1, CacheFields
  <2>4. /\ r \in CacheType /\ r.lru = c.lru /\ r.disk = c.disk
        /\ r.waiting = c.waiting \cup {f} /\ r.fd = [c.fd EXCEPT ![f] = d]
    BY <2>1, <2>2, <2>3, SetWaiting
  <2>5. Known(r, f)
    BY <2>4 DEF Known
  <2>6. QED  BY <1>2, <2>4, <2>5 DEF r
<1>3. QED  BY <1>1, <1>2

(* actualPut: at most one file goes, which nobody uses.                    *)
LEMMA ActualPutFields ==
    ASSUME NEW c \in CacheType, IsInjective(c.lru), NEW f \in File, f \notin Cached(c)
    PROVE  \E V \in SUBSET Cached(c) :
              LET r == actualPut(c, f, capacity)
              IN  /\ \A v \in V : Evictable(c.fd[v])
                  /\ r \in CacheType /\ IsInjective(r.lru)
                  /\ Cached(r) = (Cached(c) \ V) \cup {f}
                  /\ r.waiting = c.waiting
                  /\ r.fd = [g \in File |-> IF g \in V THEN NoDescriptor ELSE c.fd[g]]
                  /\ r.disk = [g \in File |-> IF g \in V THEN "absent" ELSE c.disk[g]]
<1> DEFINE r == actualPut(c, f, capacity)
<1>0. c.lru \in Seq(File) /\ c.fd \in [File -> Descriptor] /\ Cached(c) \in SUBSET File
      /\ c.disk \in [File -> DiskState]
  BY CacheFields
<1>1. CASE Len(c.lru) < capacity \/ VictimPositions(c) = {}
  <2>1. r = [c EXCEPT !.lru = Append(c.lru, f)]
    BY <1>1 DEF actualPut
  <2>2. /\ Append(c.lru, f) \in Seq(File) /\ IsInjective(Append(c.lru, f))
        /\ Range(Append(c.lru, f)) = Range(c.lru) \cup {f}
    BY <1>0, AppendKeepsInjective DEF Cached
  <2> HIDE DEF r
  <2>3. /\ r \in CacheType /\ r.lru = Append(c.lru, f) /\ r.waiting = c.waiting
        /\ r.fd = c.fd /\ r.disk = c.disk
    BY <2>1, <2>2, SetList
  <2>4. Cached(r) = (Cached(c) \ {}) \cup {f}
    BY <2>2, <2>3 DEF Cached
  <2>5. /\ r.fd = [g \in File |-> IF g \in {} THEN NoDescriptor ELSE c.fd[g]]
        /\ r.disk = [g \in File |-> IF g \in {} THEN "absent" ELSE c.disk[g]]
    BY <1>0, <2>3
  <2>6. IsInjective(r.lru) /\ {} \in SUBSET Cached(c)
    BY <2>2, <2>3
  <2>7. QED  BY <2>3, <2>4, <2>5, <2>6 DEF r
<1>2. CASE ~(Len(c.lru) < capacity \/ VictimPositions(c) = {})
  <2> DEFINE i == findVictim_LRU(c)
             v == c.lru[i]
             s == RemoveAt(c.lru, i)
             e == evict(c, i)
  <2>1. i \in 1 .. Len(c.lru) - 1 /\ Evictable(c.fd[v]) /\ i \in 1 .. Len(c.lru)
    <3>1. VictimPositions(c) \in SUBSET Nat /\ VictimPositions(c) # {}
      BY <1>2 DEF VictimPositions
    <3>2. i \in VictimPositions(c)
      BY <3>1, MinProperty DEF findVictim_LRU
    <3>3. QED  BY <1>0, <3>2 DEF VictimPositions
  <2>2. r = [e EXCEPT !.lru = Append(e.lru, f)]
    BY <1>2 DEF actualPut
  <2>3. v \in File /\ v \in Cached(c)
    BY <1>0, <2>1 DEF Cached, Range
  <2>4. e = [[[c EXCEPT !.lru = s] EXCEPT !.fd[v] = NoDescriptor] EXCEPT !.disk[v] = "absent"]
    BY DEF evict
  <2>5. /\ s \in Seq(File) /\ IsInjective(s) /\ Range(s) = Range(c.lru) \ {v}
    BY <1>0, <2>1, RemoveAtProperties, RemoveAtInjective
  <2>6. /\ Append(s, f) \in Seq(File) /\ IsInjective(Append(s, f))
        /\ Range(Append(s, f)) = Range(s) \cup {f}
    BY <2>5, AppendKeepsInjective DEF Cached
  <2> HIDE DEF s, v, i, e, r
  <2>7. NoDescriptor \in Descriptor
    BY DEF NoDescriptor, Descriptor
  <2>8. /\ e \in CacheType /\ e.lru = s /\ e.waiting = c.waiting
        /\ e.fd = [c.fd EXCEPT ![v] = NoDescriptor] /\ e.disk = [c.disk EXCEPT ![v] = "absent"]
    <3> DEFINE c1 == [c EXCEPT !.lru = s]
               c2 == [c1 EXCEPT !.fd[v] = NoDescriptor]
    <3>1. /\ c1 \in CacheType /\ c1.lru = s /\ c1.waiting = c.waiting
          /\ c1.fd = c.fd /\ c1.disk = c.disk
      BY <2>5, SetList
    <3> HIDE DEF c1
    <3>2. /\ c2 \in CacheType /\ c2.lru = s /\ c2.waiting = c.waiting
          /\ c2.fd = [c.fd EXCEPT ![v] = NoDescriptor] /\ c2.disk = c.disk
      BY <2>3, <2>7, <3>1, SetDescriptor
    <3>3. e = [c2 EXCEPT !.disk[v] = "absent"]
      BY <2>4 DEF c1
    <3> HIDE DEF c2
    <3>4. "absent" \in DiskState
      BY DEF DiskState
    <3>5. QED  BY <2>3, <3>2, <3>3, <3>4, SetDisk
  <2>9. /\ r \in CacheType /\ r.lru = Append(s, f) /\ r.waiting = c.waiting
        /\ r.fd = e.fd /\ r.disk = e.disk
    <3>1. r = [e EXCEPT !.lru = Append(s, f)]
      BY <2>2, <2>8
    <3>2. QED  BY <2>6, <2>8, <3>1, SetList
  <2>10. Cached(r) = (Cached(c) \ {v}) \cup {f}
    BY <2>5, <2>6, <2>9 DEF Cached
  <2>11. /\ r.fd = [g \in File |-> IF g \in {v} THEN NoDescriptor ELSE c.fd[g]]
         /\ r.disk = [g \in File |-> IF g \in {v} THEN "absent" ELSE c.disk[g]]
    BY <1>0, <2>8, <2>9
  <2>12. /\ {v} \in SUBSET Cached(c) /\ \A x \in {v} : Evictable(c.fd[x])
         /\ IsInjective(r.lru)
    BY <2>1, <2>3, <2>6, <2>9
  <2>13. QED  BY <2>9, <2>10, <2>11, <2>12 DEF r
<1>3. QED  BY <1>1, <1>2

(* The close of a file in its job's range: the file is available and, if   *)
(* it exists, cached; its sockets are gone, and so are the files of V,     *)
(* which nobody uses.                                                      *)
Closed(d) ==
    removeAllNotificationSockets(setFileUsedBySimulator(setFileAvailable(d), FALSE))

CompletedTo(c, r, f, V) ==
    /\ V \subseteq Cached(c) /\ f \notin V
    /\ \A v \in V : Evictable(c.fd[v])
    /\ r \in CacheType /\ IsInjective(r.lru)
    /\ Cached(r) = (Cached(c) \ V) \cup (IF f \in c.waiting /\ c.disk[f] = "absent" THEN {} ELSE {f})
    /\ r.waiting = IF c.disk[f] = "absent" THEN c.waiting ELSE c.waiting \ {f}
    /\ r.fd = [g \in File |-> IF g = f THEN Closed(c.fd[f])
                              ELSE IF g \in V THEN NoDescriptor ELSE c.fd[g]]
    /\ r.disk = [g \in File |-> IF g \in V THEN "absent" ELSE c.disk[g]]

LEMMA CompletedFields ==
    ASSUME NEW c \in CacheType, IsInjective(c.lru), Cached(c) \cap c.waiting = {},
           NEW f \in File, Known(c, f), f \in Cached(c) => c.disk[f] # "absent"
    PROVE  \E V : CompletedTo(c, completed(c, f), f, V)
<1> DEFINE d == setFileUsedBySimulator(setFileAvailable(c.fd[f]), FALSE)
           a == [c EXCEPT !.fd[f] = d]
           m == refresh(a, f, capacity)
           r == completed(c, f)
<1>0. c.lru \in Seq(File) /\ c.fd \in [File -> Descriptor] /\ Cached(c) \in SUBSET File
      /\ c.disk \in [File -> DiskState] /\ c.waiting \in SUBSET File /\ c.fd[f] \in Descriptor
  BY CacheFields
<1>1. d \in Descriptor /\ d.file_available
  <2>1. setFileAvailable(c.fd[f]) \in Descriptor /\ setFileAvailable(c.fd[f]).file_available
    BY <1>0, DescriptorOps DEF setFileAvailable, Descriptor
  <2>2. QED  BY <2>1, DescriptorOps DEF setFileUsedBySimulator, Descriptor
<1>2. /\ a \in CacheType /\ a.lru = c.lru /\ a.waiting = c.waiting /\ a.disk = c.disk
      /\ a.fd = [c.fd EXCEPT ![f] = d]
  BY <1>1, SetDescriptor
<1>3. r = [m EXCEPT !.fd[f] = removeAllNotificationSockets(m.fd[f])]
  BY DEF completed
<1>4. Closed(c.fd[f]) = removeAllNotificationSockets(d)
  BY DEF Closed
<1> HIDE DEF d, a, r
<1>5. Cached(a) = Cached(c) /\ a.fd[f] = d
  BY <1>0, <1>2 DEF Cached
<1>6. ASSUME m \in CacheType, m.fd[f] = d
      PROVE  /\ r \in CacheType /\ r.lru = m.lru /\ r.waiting = m.waiting /\ r.disk = m.disk
             /\ r.fd = [m.fd EXCEPT ![f] = Closed(c.fd[f])]
  <2> HIDE DEF m
  <2>1. removeAllNotificationSockets(d) \in Descriptor
    BY <1>1, DescriptorOps
  <2>2. QED  BY <1>3, <1>4, <1>6, <2>1, SetDescriptor
<1>7. CASE f \in Cached(a) /\ f \notin a.waiting
  <2> DEFINE i == find(a, f)
             s == Append(RemoveAt(a.lru, i), f)
  <2>1. i \in 1 .. Len(a.lru) /\ a.lru[i] = f
    <3>1. \E k \in DOMAIN a.lru : a.lru[k] = f
      BY <1>7 DEF Cached, Range
    <3>2. i \in DOMAIN a.lru /\ a.lru[i] = f
      BY <3>1 DEF find
    <3>3. QED  BY <1>0, <1>2, <3>2
  <2>2. m = [a EXCEPT !.lru = s]
    <3>1. m = refreshAt(a, i)
      BY <1>1, <1>5, <1>7 DEF refresh
    <3>2. QED  BY <2>1, <3>1 DEF refreshAt
  <2>3. s \in Seq(File) /\ IsInjective(s) /\ Range(s) = Range(a.lru)
    <3> DEFINE l == RemoveAt(a.lru, i)
    <3>1. l \in Seq(File) /\ IsInjective(l) /\ Range(l) = Range(a.lru) \ {f}
      BY <1>0, <1>2, <2>1, RemoveAtProperties, RemoveAtInjective
    <3> HIDE DEF l
    <3>2. /\ Append(l, f) \in Seq(File) /\ IsInjective(Append(l, f))
          /\ Range(Append(l, f)) = Range(l) \cup {f}
      BY <3>1, AppendKeepsInjective
    <3>3. f \in Range(a.lru)
      BY <1>7 DEF Cached
    <3>4. QED  BY <3>1, <3>2, <3>3 DEF l
  <2> HIDE DEF s, i, m
  <2>4. m \in CacheType /\ m.lru = s /\ m.waiting = a.waiting /\ m.fd = a.fd /\ m.disk = a.disk
    BY <1>2, <2>2, <2>3, SetList
  <2>5. /\ r \in CacheType /\ r.lru = s /\ r.waiting = c.waiting /\ r.disk = c.disk
        /\ r.fd = [a.fd EXCEPT ![f] = Closed(c.fd[f])]
    BY <1>2, <1>5, <1>6, <2>4
  <2>6. Cached(r) = Cached(c) /\ f \in Cached(c) /\ f \notin c.waiting
    BY <1>2, <1>5, <1>7, <2>3, <2>5 DEF Cached
  <2>7. r.fd = [g \in File |-> IF g = f THEN Closed(c.fd[f])
                               ELSE IF g \in {} THEN NoDescriptor ELSE c.fd[g]]
    BY <1>0, <1>2, <2>5
  <2>8. r.disk = [g \in File |-> IF g \in {} THEN "absent" ELSE c.disk[g]]
    BY <1>0, <2>5
  <2>9. CompletedTo(c, r, f, {})
    BY <2>3, <2>5, <2>6, <2>7, <2>8 DEF CompletedTo
  <2>10. QED  BY <2>9 DEF r
<1>8. CASE f \notin Cached(a) /\ f \in a.waiting /\ a.disk[f] # "absent"
  <2> DEFINE p == actualPut(a, f, capacity)
  <2>1. m = [p EXCEPT !.waiting = p.waiting \ {f}]
    BY <1>1, <1>5, <1>8 DEF refresh
  <2>2. PICK V \in SUBSET Cached(a) :
           /\ \A v \in V : Evictable(a.fd[v])
           /\ p \in CacheType /\ IsInjective(p.lru)
           /\ Cached(p) = (Cached(a) \ V) \cup {f}
           /\ p.waiting = a.waiting
           /\ p.fd = [g \in File |-> IF g \in V THEN NoDescriptor ELSE a.fd[g]]
           /\ p.disk = [g \in File |-> IF g \in V THEN "absent" ELSE a.disk[g]]
    BY <1>2, <1>8, ActualPutFields
  <2> HIDE DEF p, m
  <2>3. /\ m \in CacheType /\ m.lru = p.lru /\ m.waiting = c.waiting \ {f}
        /\ m.fd = p.fd /\ m.disk = p.disk
    <3>1. p.waiting \ {f} \in SUBSET File
      BY <1>0, <1>2, <2>2
    <3>2. m.waiting = p.waiting \ {f} /\ m \in CacheType /\ m.lru = p.lru
          /\ m.fd = p.fd /\ m.disk = p.disk
      BY <2>1, <2>2, <3>1, SetWaiting
    <3>3. QED  BY <1>2, <2>2, <3>2
  <2>4. f \notin V /\ V \subseteq Cached(c) /\ m.fd[f] = d
    BY <1>5, <1>8, <2>2, <2>3
  <2>5. /\ r \in CacheType /\ r.lru = m.lru /\ r.waiting = m.waiting /\ r.disk = m.disk
        /\ r.fd = [m.fd EXCEPT ![f] = Closed(c.fd[f])]
    BY <1>6, <2>3, <2>4
  <2>6. r.fd = [g \in File |-> IF g = f THEN Closed(c.fd[f])
                               ELSE IF g \in V THEN NoDescriptor ELSE c.fd[g]]
    BY <1>0, <1>2, <2>2, <2>3, <2>5
  <2>7. r.disk = [g \in File |-> IF g \in V THEN "absent" ELSE c.disk[g]]
    BY <1>0, <1>2, <2>2, <2>3, <2>5
  <2>8. Cached(r) = (Cached(c) \ V) \cup {f}
    BY <1>5, <2>2, <2>3, <2>5 DEF Cached
  <2>9. \A v \in V : Evictable(c.fd[v])
    BY <1>0, <1>2, <2>2, <2>4
  <2>10. IsInjective(r.lru) /\ r.waiting = c.waiting \ {f} /\ c.disk[f] # "absent"
    BY <1>2, <1>8, <2>2, <2>3, <2>5
  <2>11. CompletedTo(c, r, f, V)
    BY <2>4, <2>5, <2>6, <2>7, <2>8, <2>9, <2>10 DEF CompletedTo
  <2>12. QED  BY <2>11 DEF r
<1>9. CASE f \in c.waiting /\ c.disk[f] = "absent"
  <2>1. f \notin Cached(a) /\ a.disk[f] = "absent"
    BY <1>2, <1>5, <1>9
  <2>2. m = a
    BY <2>1 DEF refresh
  <2> HIDE DEF m
  <2>3. /\ r \in CacheType /\ r.lru = c.lru /\ r.waiting = c.waiting /\ r.disk = c.disk
        /\ r.fd = [a.fd EXCEPT ![f] = Closed(c.fd[f])]
    BY <1>2, <1>5, <1>6, <2>2
  <2>4. r.fd = [g \in File |-> IF g = f THEN Closed(c.fd[f])
                               ELSE IF g \in {} THEN NoDescriptor ELSE c.fd[g]]
    BY <1>0, <1>2, <2>3
  <2>5. r.disk = [g \in File |-> IF g \in {} THEN "absent" ELSE c.disk[g]]
    BY <1>0, <2>3
  <2>6. Cached(r) = Cached(c)
    BY <2>3 DEF Cached
  <2>7. CompletedTo(c, r, f, {})
    BY <1>9, <2>3, <2>4, <2>5, <2>6 DEF CompletedTo
  <2>8. QED  BY <2>7 DEF r
<1>10. QED
  <2>1. f \in Cached(c) \/ f \in c.waiting
    BY DEF Known
  <2>2. QED  BY <1>2, <1>5, <1>7, <1>8, <1>9, <2>1

-----------------------------------------------------------------------------
\* What the handlers make of jobs and simulators.

NewJob(nr) ==
    handleClientFileOpen(
        newSimJob(generateSimJobForRange(restarts, nr, nr, FALSE, MaxNr), nr, sim_kill_threshold),
        nr, sim_kill_threshold)

(* The job for a miss has the step in its range and as its target.         *)
LEMMA NewJobProperty ==
    ASSUME NEW nr \in Nat
    PROVE  /\ NewJob(nr) \in SimJobType
           /\ NewJob(nr).sim_start <= nr /\ nr <= NewJob(nr).sim_stop
           /\ NewJob(nr).valid /\ NewJob(nr).produced = {} /\ NewJob(nr).min_sim_target = nr
           /\ NewJob(nr).time_to_kill = sim_kill_threshold
<1> DEFINE range == generateSimJobForRange(restarts, nr, nr, FALSE, MaxNr)
           job == newSimJob(range, nr, sim_kill_threshold)
<1>1. range = [sim_start |-> getCheckpointNr(restarts, nr), sim_stop |-> JobStop(restarts, nr)]
  BY DEF generateSimJobForRange
<1>2. restarts \in SUBSET Nat /\ sim_kill_threshold \in Nat
  BY DVAssumption
<1>3. getCheckpointNr(restarts, nr) \in Nat /\ getCheckpointNr(restarts, nr) <= nr
  <2>1. /\ getCheckpointNr(restarts, nr) \in restarts \cup {0}
        /\ getCheckpointNr(restarts, nr) = 0 \/ getCheckpointNr(restarts, nr) <= nr
    BY <1>2, CheckpointProperty
  <2>2. \A r \in restarts \cup {0} : r \in Nat
    BY <1>2
  <2>3. getCheckpointNr(restarts, nr) \in Nat
    BY <2>1, <2>2
  <2>4. QED  BY <2>1, <2>3
<1>4. JobStop(restarts, nr) \in Nat /\ nr <= JobStop(restarts, nr)
  BY <1>2, JobStopProperty
<1> HIDE DEF range
<1>5. range.sim_start \in Nat /\ range.sim_start <= nr
      /\ range.sim_stop \in Nat /\ nr <= range.sim_stop
  BY <1>1, <1>3, <1>4
<1>6. NewJob(nr) =
        [sim_start |-> range.sim_start, sim_stop |-> range.sim_stop, last_nr |-> -1,
         min_sim_target |-> nr, time_to_kill |-> sim_kill_threshold, produced |-> {},
         valid |-> TRUE, is_passive |-> FALSE]
  <2>1. IntMax(nr, nr) = nr
    BY DEF IntMax
  <2>2. job = [sim_start |-> range.sim_start, sim_stop |-> range.sim_stop, last_nr |-> -1,
               min_sim_target |-> nr, time_to_kill |-> sim_kill_threshold, produced |-> {},
               valid |-> TRUE, is_passive |-> FALSE]
    BY DEF newSimJob, NoNr
  <2>3. NewJob(nr) = [job EXCEPT !.time_to_kill = sim_kill_threshold,
                                 !.min_sim_target = IntMax(job.min_sim_target, nr)]
    BY DEF NewJob, handleClientFileOpen, range
  <2> HIDE DEF job
  <2>4. QED  BY <2>1, <2>2, <2>3
<1>7. QED  BY <1>2, <1>5, <1>6 DEF SimJobType

LEMMA JobFields ==
    ASSUME NEW job \in SimJobType
    PROVE  /\ job = [sim_start |-> job.sim_start, sim_stop |-> job.sim_stop,
                     last_nr |-> job.last_nr, min_sim_target |-> job.min_sim_target,
                     time_to_kill |-> job.time_to_kill, produced |-> job.produced,
                     valid |-> job.valid, is_passive |-> FALSE]
           /\ job.sim_start \in Nat /\ job.sim_stop \in Nat /\ job.last_nr \in Int
           /\ job.min_sim_target \in Int /\ job.time_to_kill \in Int
           /\ job.produced \in SUBSET Int /\ job.valid \in BOOLEAN /\ job.is_passive = FALSE
BY DEF SimJobType

(* The operations of a job keep its range.                                 *)
LEMMA JobOps ==
    ASSUME NEW job \in SimJobType, NEW nr \in Nat
    PROVE  /\ handleClientFileOpen(job, nr, sim_kill_threshold) \in SimJobType
           /\ handleSimulatorFileCreate(job, nr) \in SimJobType
           /\ handleSimulatorFileClose(job) \in SimJobType
           /\ invalidateJob(job) \in SimJobType
<1> USE DEF SimJobType
<1>1. sim_kill_threshold \in Int
  BY DVAssumption
<1>2. handleClientFileOpen(job, nr, sim_kill_threshold) \in SimJobType
  <2>1. IntMax(job.min_sim_target, nr) \in Int
    BY DEF IntMax
  <2>2. ASSUME NEW t \in Int, NEW m \in Int
        PROVE  [job EXCEPT !.time_to_kill = t, !.min_sim_target = m] \in SimJobType
    OBVIOUS
  <2>3. QED  BY <1>1, <2>1, <2>2 DEF handleClientFileOpen
<1>3. handleSimulatorFileCreate(job, nr) \in SimJobType
  <2> DEFINE ttk == IF job.time_to_kill > 0 /\ job.min_sim_target < nr
                    THEN job.time_to_kill - 1 ELSE job.time_to_kill
  <2>1. ttk \in Int /\ nr \in Int
    OBVIOUS
  <2>2. ASSUME NEW t \in Int, NEW l \in Int
        PROVE  [job EXCEPT !.last_nr = l, !.time_to_kill = t] \in SimJobType
    OBVIOUS
  <2>3. handleSimulatorFileCreate(job, nr) = [job EXCEPT !.last_nr = nr, !.time_to_kill = ttk]
    BY DEF handleSimulatorFileCreate
  <2> HIDE DEF ttk, SimJobType
  <2>4. QED  BY <2>1, <2>2, <2>3
<1>4. handleSimulatorFileClose(job) \in SimJobType
  BY DEF handleSimulatorFileClose, SimJobType
<1>5. invalidateJob(job) \in SimJobType
  BY DEF invalidateJob, SimJobType
<1>6. QED  BY <1>2, <1>3, <1>4, <1>5

LEMMA SimulatorOps ==
    ASSUME NEW sim \in SimulatorProcess, NEW f \in File
    PROVE  /\ \A redirect \in BOOLEAN : created(sim, f, redirect) \in SimulatorProcess
           /\ killed(sim, f) \in SimulatorProcess
           /\ closedBySimulator(sim, f) \in SimulatorProcess
           /\ [sim EXCEPT !.open = @ \cup sim.creating, !.creating = {}] \in SimulatorProcess
           /\ \A p \in {"none", "running", "ended", "crashed"} :
                 [sim EXCEPT !.phase = p] \in SimulatorProcess
<1>1. ASSUME NEW redirect \in BOOLEAN PROVE created(sim, f, redirect) \in SimulatorProcess
  <2> DEFINE n == sim.open_files_count + 1
             m == sim.made \cup {f}
             r == sim.redirected \cup (IF redirect THEN {f} ELSE {})
  <2>1. n \in Int /\ m \in SUBSET File /\ r \in SUBSET File /\ {f} \in SUBSET File
    BY DEF SimulatorProcess
  <2>2. created(sim, f, redirect) =
           [sim EXCEPT !.made = m, !.creating = {f}, !.redirected = r, !.open_files_count = n]
    BY DEF created
  <2> HIDE DEF n, m, r
  <2>3. QED  BY <2>1, <2>2 DEF SimulatorProcess
<1>2. killed(sim, f) \in SimulatorProcess
  BY DEF killed, SimulatorProcess
<1>3. closedBySimulator(sim, f) \in SimulatorProcess
  <2> DEFINE n == sim.open_files_count - 1
             o == sim.open \ {f}
             r == sim.redirected \ {f}
  <2>1. n \in Int /\ o \in SUBSET File /\ r \in SUBSET File
    BY DEF SimulatorProcess
  <2>2. closedBySimulator(sim, f) =
           [sim EXCEPT !.open = o, !.redirected = r, !.open_files_count = n]
    BY DEF closedBySimulator
  <2> HIDE DEF n, o, r
  <2>3. QED  BY <2>1, <2>2 DEF SimulatorProcess
<1>4. [sim EXCEPT !.open = @ \cup sim.creating, !.creating = {}] \in SimulatorProcess
  BY DEF SimulatorProcess
<1>5. ASSUME NEW p \in {"none", "running", "ended", "crashed"}
      PROVE  [sim EXCEPT !.phase = p] \in SimulatorProcess
  BY DEF SimulatorProcess
<1>6. QED  BY <1>1, <1>2, <1>3, <1>4, <1>5

LEMMA LaunchProperty ==
    ASSUME NEW s \in [JobId -> SimulatorProcess], NEW S
    PROVE  /\ Launch(s, S) \in [JobId -> SimulatorProcess]
           /\ \A i \in JobId : Launch(s, S)[i] = IF i \in S THEN [s[i] EXCEPT !.phase = "running"]
                                                 ELSE s[i]
<1>1. \A i \in JobId : [s[i] EXCEPT !.phase = "running"] \in SimulatorProcess
  BY DEF SimulatorProcess
<1>2. QED  BY <1>1 DEF Launch

LEMMA MissStep ==
    ASSUME Typed, NEW nr \in Nat, handleMiss(nr)
    PROVE  LET j == conncount + 1
           IN  /\ conncount' = j /\ j \in JobId /\ j \notin DOMAIN simulation_jobs
               /\ DOMAIN simulation_jobs' = DOMAIN simulation_jobs \cup {j}
               /\ simulation_jobs' \in [DOMAIN simulation_jobs' -> SimJobType]
               /\ simulation_jobs'[j] = NewJob(nr)
               /\ \A i \in DOMAIN simulation_jobs : simulation_jobs'[i] = simulation_jobs[i]
               /\ jobqueue' = enqueue(jobqueue, j, max_simjobs)
               /\ sims' \in [JobId -> SimulatorProcess]
               /\ \A i \in JobId :
                     sims'[i] = IF i = j /\ HasFreeSlot(jobqueue, max_simjobs)
                                THEN [sims[i] EXCEPT !.phase = "running"] ELSE sims[i]
<1> DEFINE j == conncount + 1
<1>1. /\ conncount < MaxJobs /\ conncount' = j
      /\ simulation_jobs' = [i \in DOMAIN simulation_jobs \cup {j} |->
                                IF i = j THEN NewJob(nr) ELSE simulation_jobs[i]]
      /\ jobqueue' = enqueue(jobqueue, j, max_simjobs)
      /\ sims' = Launch(sims, IF HasFreeSlot(jobqueue, max_simjobs) THEN {j} ELSE {})
  BY DEF handleMiss, NewJob
<1>2. j \in JobId /\ j \notin DOMAIN simulation_jobs
  <2>1. conncount \in 0 .. MaxJobs /\ MaxJobs \in Nat /\ DOMAIN simulation_jobs \subseteq 1 .. conncount
    BY DVAssumption DEF Typed
  <2>2. QED  BY <1>1, <2>1 DEF JobId
<1>3. NewJob(nr) \in SimJobType
  BY NewJobProperty
<1>4. sims \in [JobId -> SimulatorProcess] /\ simulation_jobs \in [DOMAIN simulation_jobs -> SimJobType]
  BY DEF Typed
<1>5. /\ sims' \in [JobId -> SimulatorProcess]
      /\ \A i \in JobId :
            sims'[i] = IF i = j /\ HasFreeSlot(jobqueue, max_simjobs)
                       THEN [sims[i] EXCEPT !.phase = "running"] ELSE sims[i]
  BY <1>1, <1>4, LaunchProperty
<1> HIDE DEF j
<1>6. /\ DOMAIN simulation_jobs' = DOMAIN simulation_jobs \cup {j}
      /\ simulation_jobs' \in [DOMAIN simulation_jobs' -> SimJobType]
      /\ simulation_jobs'[j] = NewJob(nr)
      /\ \A i \in DOMAIN simulation_jobs : simulation_jobs'[i] = simulation_jobs[i]
  BY <1>1, <1>2, <1>3, <1>4
<1>7. QED  BY <1>1, <1>2, <1>5, <1>6 DEF j

(* The fields the operations of a job change.                              *)
LEMMA JobOpFields ==
    ASSUME NEW job \in SimJobType, NEW nr \in Nat
    PROVE  /\ LET r == handleClientFileOpen(job, nr, sim_kill_threshold)
              IN  /\ r.sim_start = job.sim_start /\ r.sim_stop = job.sim_stop
                  /\ r.last_nr = job.last_nr /\ r.produced = job.produced /\ r.valid = job.valid
                  /\ r.time_to_kill = sim_kill_threshold
                  /\ r.min_sim_target = IntMax(job.min_sim_target, nr)
           /\ LET r == handleSimulatorFileCreate(job, nr)
              IN  /\ r.sim_start = job.sim_start /\ r.sim_stop = job.sim_stop
                  /\ r.last_nr = nr /\ r.produced = job.produced /\ r.valid = job.valid
                  /\ r.time_to_kill = IF job.time_to_kill > 0 /\ job.min_sim_target < nr
                                      THEN job.time_to_kill - 1 ELSE job.time_to_kill
                  /\ r.min_sim_target = job.min_sim_target
           /\ LET r == handleSimulatorFileClose(job)
              IN  /\ r.sim_start = job.sim_start /\ r.sim_stop = job.sim_stop
                  /\ r.last_nr = job.last_nr /\ r.produced = job.produced \cup {job.last_nr}
                  /\ r.valid = job.valid /\ r.time_to_kill = job.time_to_kill
                  /\ r.min_sim_target = job.min_sim_target
           /\ LET r == invalidateJob(job)
              IN  /\ r.sim_start = job.sim_start /\ r.sim_stop = job.sim_stop
                  /\ r.valid = FALSE
<1>1. LET r == handleClientFileOpen(job, nr, sim_kill_threshold)
      IN  /\ r.sim_start = job.sim_start /\ r.sim_stop = job.sim_stop
          /\ r.last_nr = job.last_nr /\ r.produced = job.produced /\ r.valid = job.valid
          /\ r.time_to_kill = sim_kill_threshold
          /\ r.min_sim_target = IntMax(job.min_sim_target, nr)
  BY DEF handleClientFileOpen, SimJobType
<1>2. LET r == handleSimulatorFileCreate(job, nr)
      IN  /\ r.sim_start = job.sim_start /\ r.sim_stop = job.sim_stop
          /\ r.last_nr = nr /\ r.produced = job.produced /\ r.valid = job.valid
          /\ r.time_to_kill = IF job.time_to_kill > 0 /\ job.min_sim_target < nr
                              THEN job.time_to_kill - 1 ELSE job.time_to_kill
          /\ r.min_sim_target = job.min_sim_target
  BY DEF handleSimulatorFileCreate, SimJobType
<1>3. LET r == handleSimulatorFileClose(job)
      IN  /\ r.sim_start = job.sim_start /\ r.sim_stop = job.sim_stop
          /\ r.last_nr = job.last_nr /\ r.produced = job.produced \cup {job.last_nr}
          /\ r.valid = job.valid /\ r.time_to_kill = job.time_to_kill
          /\ r.min_sim_target = job.min_sim_target
  BY DEF handleSimulatorFileClose, SimJobType
<1>4. LET r == invalidateJob(job)
      IN  r.sim_start = job.sim_start /\ r.sim_stop = job.sim_stop /\ r.valid = FALSE
  BY DEF invalidateJob, SimJobType
<1>5. QED  BY <1>1, <1>2, <1>3, <1>4

(* The fields the operations of a simulator change.                        *)
LEMMA SimulatorOpFields ==
    ASSUME NEW sim \in SimulatorProcess, NEW f \in File
    PROVE  /\ \A redirect \in BOOLEAN :
                 LET r == created(sim, f, redirect)
                 IN  /\ r.phase = sim.phase /\ r.open = sim.open /\ r.to_terminate = sim.to_terminate
                     /\ r.made = sim.made \cup {f} /\ r.creating = {f}
                     /\ r.redirected = sim.redirected \cup (IF redirect THEN {f} ELSE {})
                     /\ r.open_files_count = sim.open_files_count + 1
           /\ LET r == killed(sim, f)
              IN  /\ r.phase = sim.phase /\ r.open = sim.open /\ r.to_terminate
                  /\ r.made = sim.made \cup {f} /\ r.redirected = sim.redirected
                  /\ r.creating = IF sim.open_files_count = 0 THEN {} ELSE {f}
                  /\ r.open_files_count = sim.open_files_count
           /\ LET r == closedBySimulator(sim, f)
              IN  /\ r.phase = sim.phase /\ r.to_terminate = sim.to_terminate
                  /\ r.made = sim.made /\ r.creating = sim.creating
                  /\ r.open = sim.open \ {f} /\ r.redirected = sim.redirected \ {f}
                  /\ r.open_files_count = sim.open_files_count - 1
           /\ LET r == [sim EXCEPT !.open = @ \cup sim.creating, !.creating = {}]
              IN  /\ r.phase = sim.phase /\ r.to_terminate = sim.to_terminate
                  /\ r.made = sim.made /\ r.creating = {} /\ r.open = sim.open \cup sim.creating
                  /\ r.redirected = sim.redirected /\ r.open_files_count = sim.open_files_count
           /\ \A p : LET r == [sim EXCEPT !.phase = p]
                     IN  /\ r.phase = p /\ r.to_terminate = sim.to_terminate
                         /\ r.made = sim.made /\ r.creating = sim.creating /\ r.open = sim.open
                         /\ r.redirected = sim.redirected
                         /\ r.open_files_count = sim.open_files_count
<1>1. ASSUME NEW redirect \in BOOLEAN
      PROVE  LET r == created(sim, f, redirect)
             IN  /\ r.phase = sim.phase /\ r.open = sim.open /\ r.to_terminate = sim.to_terminate
                 /\ r.made = sim.made \cup {f} /\ r.creating = {f}
                 /\ r.redirected = sim.redirected \cup (IF redirect THEN {f} ELSE {})
                 /\ r.open_files_count = sim.open_files_count + 1
  BY DEF created, SimulatorProcess
<1>2. LET r == killed(sim, f)
      IN  /\ r.phase = sim.phase /\ r.open = sim.open /\ r.to_terminate
          /\ r.made = sim.made \cup {f} /\ r.redirected = sim.redirected
          /\ r.creating = IF sim.open_files_count = 0 THEN {} ELSE {f}
          /\ r.open_files_count = sim.open_files_count
  BY DEF killed, SimulatorProcess
<1>3. LET r == closedBySimulator(sim, f)
      IN  /\ r.phase = sim.phase /\ r.to_terminate = sim.to_terminate
          /\ r.made = sim.made /\ r.creating = sim.creating
          /\ r.open = sim.open \ {f} /\ r.redirected = sim.redirected \ {f}
          /\ r.open_files_count = sim.open_files_count - 1
  BY DEF closedBySimulator, SimulatorProcess
<1>4. LET r == [sim EXCEPT !.open = @ \cup sim.creating, !.creating = {}]
      IN  /\ r.phase = sim.phase /\ r.to_terminate = sim.to_terminate
          /\ r.made = sim.made /\ r.creating = {} /\ r.open = sim.open \cup sim.creating
          /\ r.redirected = sim.redirected /\ r.open_files_count = sim.open_files_count
  BY DEF SimulatorProcess
<1>5. ASSUME NEW p
      PROVE  LET r == [sim EXCEPT !.phase = p]
             IN  /\ r.phase = p /\ r.to_terminate = sim.to_terminate
                 /\ r.made = sim.made /\ r.creating = sim.creating /\ r.open = sim.open
                 /\ r.redirected = sim.redirected
                 /\ r.open_files_count = sim.open_files_count
  BY DEF SimulatorProcess
<1>6. QED  BY <1>1, <1>2, <1>3, <1>4, <1>5

-----------------------------------------------------------------------------
\* The structure of the state, on which everything else rests.

Phase(P) == {j \in JobId : sims[j].phase \in P}

Occupying == Phase({"running", "crashed"})

(* Ranks, jobs, queue and simulators agree: a queued job has no simulator  *)
(* yet, an ended one is forgotten, and the others take the slots.          *)
JobsInv ==
    /\ IsInjective(jobqueue.queue)
    /\ \A i \in DOMAIN jobqueue.queue :
          jobqueue.queue[i] <= conncount /\ sims[jobqueue.queue[i]].phase = "none"
    /\ \A j \in JobId : sims[j].phase = "none" => sims[j] = NewSimulator
    /\ \A j \in JobId : j > conncount => sims[j].phase = "none"
    /\ \A j \in JobId : j \in DOMAIN simulation_jobs <=> j <= conncount /\ sims[j].phase # "ended"
    /\ jobqueue.current = Cardinality(Occupying)
    /\ jobqueue.current <= max_simjobs

(* A file has one descriptor, what is cached is available and has a name   *)
(* in the result directory.                                                *)
CacheInv ==
    /\ IsInjective(cache.lru)
    /\ Cached(cache) \cap cache.waiting = {}
    /\ \A f \in Cached(cache) : cache.fd[f].file_available /\ cache.disk[f] # "absent"
    /\ \A f \in File : ~Known(cache, f) => cache.fd[f] = NoDescriptor

Base == Typed /\ JobsInv /\ CacheInv

-----------------------------------------------------------------------------
\* What each handler changes, field by field.

MissEffect(nr) ==
    LET j == conncount + 1
    IN  /\ conncount' = j /\ j \in JobId /\ j \notin DOMAIN simulation_jobs
        /\ DOMAIN simulation_jobs' = DOMAIN simulation_jobs \cup {j}
        /\ simulation_jobs'[j] = NewJob(nr)
        /\ \A i \in DOMAIN simulation_jobs : simulation_jobs'[i] = simulation_jobs[i]
        /\ jobqueue' = enqueue(jobqueue, j, max_simjobs)
        /\ \A i \in JobId :
              sims'[i] = IF i = j /\ HasFreeSlot(jobqueue, max_simjobs)
                         THEN [sims[i] EXCEPT !.phase = "running"] ELSE sims[i]

OpenEffect(c, f) ==
    /\ cl[c].state = "idle" /\ cl[c].opens < MaxOpens
    /\ cache'.lru = cache.lru /\ cache'.disk = cache.disk
    /\ cache'.waiting = IF Known(cache, f) THEN cache.waiting ELSE cache.waiting \cup {f}
    /\ cache'.fd = [cache.fd EXCEPT ![f] = lock(cache.fd[f])]
    /\ \E s \in {"sim", "hit"} :
          /\ cl' = [cl EXCEPT ![c] = [state |-> s, file |-> f, opens |-> cl[c].opens + 1]]
          /\ s = "hit" => Known(cache, f) /\ ~isFileUsedBySimulator(cache.fd[f])
    /\ \/ ~Known(cache, f) /\ MissEffect(Nr[f])
       \/ /\ UNCHANGED <<conncount, jobqueue, sims>>
          /\ \/ \E j \in Producing(f) :
                   simulation_jobs' = [simulation_jobs EXCEPT ![j] =
                       handleClientFileOpen(simulation_jobs[j], Nr[f], sim_kill_threshold)]
             \/ UNCHANGED simulation_jobs /\ Known(cache, f)

GetEffect(c) ==
    /\ cl[c].state = "sim"
    /\ Known(cache, cl[c].file)
    /\ UNCHANGED <<conncount, simulation_jobs, jobqueue, sims>>
    /\ \/ /\ cache.fd[cl[c].file].file_available
          /\ cl' = [cl EXCEPT ![c] = [state |-> "reading", file |-> cl[c].file, opens |-> cl[c].opens]]
          /\ UNCHANGED cache
       \/ /\ ~cache.fd[cl[c].file].file_available
          /\ cl' = [cl EXCEPT ![c] = [state |-> "waiting", file |-> cl[c].file, opens |-> cl[c].opens]]
          /\ cache'.lru = cache.lru /\ cache'.disk = cache.disk /\ cache'.waiting = cache.waiting
          /\ cache'.fd = [cache.fd EXCEPT ![cl[c].file] =
                             appendNotificationSocket(cache.fd[cl[c].file], c)]

CloseEffect(c) ==
    /\ cl[c].state \in {"hit", "reading"}
    /\ UNCHANGED <<conncount, simulation_jobs, jobqueue, sims>>
    /\ cl' = [cl EXCEPT ![c] = [state |-> "idle", file |-> cl[c].file, opens |-> cl[c].opens]]
    /\ cache'.lru = cache.lru /\ cache'.disk = cache.disk /\ cache'.waiting = cache.waiting
    /\ cache'.fd = [cache.fd EXCEPT ![cl[c].file] = unlock(cache.fd[cl[c].file])]

CloseMetaEffect(c) ==
    /\ FakeMeta
    /\ cl[c].state = "sim"
    /\ UNCHANGED <<conncount, simulation_jobs, jobqueue, cache, sims>>
    /\ cl' = [cl EXCEPT ![c] = [state |-> "idle", file |-> cl[c].file, opens |-> cl[c].opens]]

CreateEffect(j, f) ==
    LET job == simulation_jobs[j]
        inRange == nrIsInSimulationRange(job, Nr[f])
    IN  /\ sims[j].phase = "running" /\ j \in DOMAIN simulation_jobs
        /\ ~MustTerminate(j) /\ MayCreate(j, f) /\ ~hasToBeKilled(job, sim_kill_threshold)
        /\ UNCHANGED <<conncount, jobqueue, cl>>
        /\ simulation_jobs' = [simulation_jobs EXCEPT ![j] =
               IF inRange THEN handleSimulatorFileCreate(job, Nr[f]) ELSE job]
        /\ cache'.lru = cache.lru /\ cache'.disk = cache.disk
        /\ cache'.waiting = IF inRange /\ ~Known(cache, f) THEN cache.waiting \cup {f}
                            ELSE cache.waiting
        /\ cache'.fd = IF inRange \/ Known(cache, f)
                       THEN [cache.fd EXCEPT ![f] = setFileUsedBySimulator(cache.fd[f], TRUE)]
                       ELSE cache.fd
        /\ sims' = [sims EXCEPT ![j] = created(sims[j], f, NeedsRedirect(cache, f))]

CreateKilledEffect(j, f) ==
    /\ sims[j].phase = "running" /\ j \in DOMAIN simulation_jobs
    /\ ~MustTerminate(j) /\ MayCreate(j, f)
    /\ hasToBeKilled(simulation_jobs[j], sim_kill_threshold)
    /\ UNCHANGED <<conncount, jobqueue, cache, cl>>
    /\ simulation_jobs' = [simulation_jobs EXCEPT ![j] = invalidateJob(simulation_jobs[j])]
    /\ sims' = [sims EXCEPT ![j] = killed(sims[j], f)]

TruncateEffect(j) ==
    /\ sims[j].phase = "running" /\ j \in DOMAIN simulation_jobs
    /\ UNCHANGED <<conncount, simulation_jobs, jobqueue, cl>>
    /\ cache'.lru = cache.lru /\ cache'.waiting = cache.waiting /\ cache'.fd = cache.fd
    /\ \E f \in sims[j].creating :
          cache'.disk = IF f \in sims[j].redirected THEN cache.disk
                        ELSE [cache.disk EXCEPT ![f] = "partial"]
    /\ sims' = [sims EXCEPT ![j] =
                   [sims[j] EXCEPT !.open = @ \cup sims[j].creating, !.creating = {}]]

\* The close of a file in range; V are the victims of its move into the cache.
ClosedInRange(j, f, V) ==
    /\ Known(cache, f)
    /\ V \subseteq Cached(cache) /\ f \notin V
    /\ \A v \in V : Evictable(cache.fd[v])
    /\ IsInjective(cache'.lru)
    /\ Cached(cache') = (Cached(cache) \ V) \cup
                        (IF f \in cache.waiting /\ cache.disk[f] = "absent" THEN {} ELSE {f})
    /\ cache'.waiting = IF cache.disk[f] = "absent" THEN cache.waiting ELSE cache.waiting \ {f}
    /\ cache'.fd = [g \in File |-> IF g = f THEN Closed(cache.fd[f])
                                   ELSE IF g \in V THEN NoDescriptor ELSE cache.fd[g]]
    /\ cache'.disk = [g \in File |-> IF g \in V THEN "absent"
                                     ELSE IF g = f THEN DiskAfterClose(j, f) ELSE cache.disk[g]]
    /\ cl' = [c \in Client |-> IF c \in cache.fd[f].sockets
                               THEN [cl[c] EXCEPT !.state = "reading"] ELSE cl[c]]
    /\ simulation_jobs' = [simulation_jobs EXCEPT ![j] =
                              handleSimulatorFileClose(simulation_jobs[j])]

ClosedOutOfRange(j, f) ==
    /\ cache'.lru = cache.lru /\ cache'.waiting = cache.waiting
    /\ cache'.fd = [cache.fd EXCEPT ![f] = setFileUsedBySimulator(cache.fd[f], FALSE)]
    /\ cache'.disk = [cache.disk EXCEPT ![f] = DiskAfterClose(j, f)]
    /\ UNCHANGED <<cl, simulation_jobs>>

FileCloseEffect(j, f) ==
    /\ sims[j].phase = "running" /\ j \in DOMAIN simulation_jobs /\ f \in sims[j].open
    /\ UNCHANGED <<conncount, jobqueue>>
    /\ sims' = [sims EXCEPT ![j] = closedBySimulator(sims[j], f)]
    /\ \/ /\ nrIsInSimulationRange(simulation_jobs[j], Nr[f])
          /\ \E V : ClosedInRange(j, f, V)
       \/ /\ ~nrIsInSimulationRange(simulation_jobs[j], Nr[f])
          /\ ClosedOutOfRange(j, f)

FinalizeEffect(j) ==
    /\ sims[j].phase = "running" /\ j \in DOMAIN simulation_jobs
    /\ \/ MustTerminate(j)
       \/ /\ sims[j].creating = {} /\ sims[j].open = {}
          /\ \A f \in File : simulation_jobs[j].sim_start <= Nr[f]
                                /\ Nr[f] <= simulation_jobs[j].sim_stop
                             => f \in sims[j].made
    /\ UNCHANGED <<conncount, cache, cl>>
    /\ jobqueue' = handleJobTermination(jobqueue)
    /\ DOMAIN simulation_jobs' = DOMAIN simulation_jobs \ {j}
    /\ \A i \in DOMAIN simulation_jobs \ {j} : simulation_jobs'[i] = simulation_jobs[i]
    /\ j \notin NextJobs(jobqueue)
    /\ \A i \in NextJobs(jobqueue) : sims[i].phase = "none" /\ i <= conncount /\ i \in JobId
    /\ \A i \in JobId :
          sims'[i] = IF i = j THEN [sims[i] EXCEPT !.phase = "ended"]
                     ELSE IF i \in NextJobs(jobqueue) THEN [sims[i] EXCEPT !.phase = "running"]
                     ELSE sims[i]

CrashEffect(j) ==
    /\ sims[j].phase = "running" /\ j \in DOMAIN simulation_jobs
    /\ Cardinality(Phase({"crashed"})) < MaxCrashes
    /\ UNCHANGED <<conncount, simulation_jobs, jobqueue, cache, cl>>
    /\ sims' = [sims EXCEPT ![j] = [sims[j] EXCEPT !.phase = "crashed"]]

-----------------------------------------------------------------------------
LEMMA TypedFields ==
    ASSUME Typed
    PROVE  /\ conncount \in Nat /\ MaxJobs \in Nat /\ conncount <= MaxJobs
           /\ DOMAIN simulation_jobs \subseteq 1 .. conncount
           /\ DOMAIN simulation_jobs \subseteq JobId
           /\ simulation_jobs \in [DOMAIN simulation_jobs -> SimJobType]
           /\ jobqueue.current \in Int /\ jobqueue.queue \in Seq(JobId)
           /\ jobqueue = [current |-> jobqueue.current, queue |-> jobqueue.queue]
           /\ cache \in CacheType /\ cache.fd \in [File -> Descriptor]
           /\ cache.disk \in [File -> DiskState] /\ cache.waiting \in SUBSET File
           /\ cache.lru \in Seq(File) /\ Cached(cache) \in SUBSET File
           /\ sims \in [JobId -> SimulatorProcess] /\ cl \in [Client -> ClientType]
           /\ Nr \in [File -> Nat]
<1>1. conncount \in Nat /\ MaxJobs \in Nat /\ conncount <= MaxJobs
      /\ DOMAIN simulation_jobs \subseteq 1 .. conncount
  BY DVAssumption DEF Typed
<1>2. DOMAIN simulation_jobs \subseteq JobId
  BY <1>1 DEF JobId
<1>3. simulation_jobs \in [DOMAIN simulation_jobs -> SimJobType]
      /\ sims \in [JobId -> SimulatorProcess] /\ cl \in [Client -> ClientType]
      /\ cache \in CacheType /\ Nr \in [File -> Nat]
  BY DVAssumption DEF Typed
<1>4. /\ jobqueue.current \in Int /\ jobqueue.queue \in Seq(JobId)
      /\ jobqueue = [current |-> jobqueue.current, queue |-> jobqueue.queue]
  BY DEF Typed
<1>5. /\ cache.fd \in [File -> Descriptor] /\ cache.disk \in [File -> DiskState]
      /\ cache.waiting \in SUBSET File /\ cache.lru \in Seq(File) /\ Cached(cache) \in SUBSET File
  BY <1>3, CacheFields
<1>6. QED  BY <1>1, <1>2, <1>3, <1>4, <1>5

LEMMA RunningHasJob ==
    ASSUME Base, NEW j \in JobId, sims[j].phase \notin {"none", "ended"}
    PROVE  /\ j \in DOMAIN simulation_jobs /\ simulation_jobs[j] \in SimJobType
           /\ sims[j] \in SimulatorProcess /\ j <= conncount
<1>1. j <= conncount
  <2>1. j \in Int /\ conncount \in Int
    BY TypedFields DEF Base, JobId
  <2>2. QED  BY <2>1 DEF Base, JobsInv
<1>2. j \in DOMAIN simulation_jobs
  BY <1>1 DEF Base, JobsInv
<1>3. QED  BY <1>1, <1>2, TypedFields DEF Base

LEMMA ClientFields ==
    ASSUME Typed, NEW c \in Client
    PROVE  /\ cl[c].state \in ClientState /\ cl[c].file \in File /\ cl[c].opens \in 0 .. MaxOpens
           /\ cl[c] = [state |-> cl[c].state, file |-> cl[c].file, opens |-> cl[c].opens]
<1>1. cl[c] \in ClientType
  BY TypedFields
<1>2. QED  BY <1>1 DEF ClientType

(* A client's new state.                                                   *)
LEMMA ClientMoves ==
    ASSUME Typed, NEW c \in Client, NEW s \in ClientState,
           cl' = [cl EXCEPT ![c].state = s]
    PROVE  /\ cl' = [cl EXCEPT ![c] = [state |-> s, file |-> cl[c].file, opens |-> cl[c].opens]]
           /\ cl' \in [Client -> ClientType]
<1>1. cl \in [Client -> ClientType] /\ cl[c] \in ClientType
  BY TypedFields
<1>2. [cl[c] EXCEPT !.state = s] = [state |-> s, file |-> cl[c].file, opens |-> cl[c].opens]
  BY <1>1 DEF ClientType
<1>3. [state |-> s, file |-> cl[c].file, opens |-> cl[c].opens] \in ClientType
  BY <1>1 DEF ClientType
<1>4. QED  BY <1>1, <1>2, <1>3

LEMMA TypedJobs ==
    ASSUME Typed, NEW j \in DOMAIN simulation_jobs, NEW job \in SimJobType,
           simulation_jobs' = [simulation_jobs EXCEPT ![j] = job]
    PROVE  /\ DOMAIN simulation_jobs' = DOMAIN simulation_jobs
           /\ simulation_jobs' \in [DOMAIN simulation_jobs' -> SimJobType]
           /\ simulation_jobs'[j] = job
           /\ \A i \in DOMAIN simulation_jobs : i # j => simulation_jobs'[i] = simulation_jobs[i]
<1>1. simulation_jobs \in [DOMAIN simulation_jobs -> SimJobType]
  BY TypedFields
<1>2. QED  BY <1>1

LEMMA OpenStep ==
    ASSUME Base, NEW c \in Client, NEW f \in File, ClientFileOpen(c, f)
    PROVE  OpenEffect(c, f) /\ Typed'
<1> DEFINE known == Known(cache, f)
           full_hit == known /\ ~isFileUsedBySimulator(cache.fd[f])
<1>0. Typed /\ cache.fd[f] \in Descriptor /\ cache \in CacheType /\ Nr[f] \in Nat
  BY TypedFields DEF Base
<1>1. /\ cache' \in CacheType /\ cache'.lru = cache.lru /\ cache'.disk = cache.disk
      /\ cache'.waiting = IF known THEN cache.waiting ELSE cache.waiting \cup {f}
      /\ cache'.fd = [cache.fd EXCEPT ![f] = lock(cache.fd[f])]
  <2>1. CASE known
    <3>1. cache' = [cache EXCEPT !.fd[f] = lock(cache.fd[f])]
      BY <2>1 DEF ClientFileOpen
    <3>2. lock(cache.fd[f]) \in Descriptor
      BY <1>0, DescriptorOps
    <3>3. QED  BY <1>0, <2>1, <3>1, <3>2, SetDescriptor
  <2>2. CASE ~known
    <3>1. cache' = put(cache, f, lock(NoDescriptor), capacity)
      BY <2>2 DEF ClientFileOpen
    <3>2. lock(NoDescriptor) \in Descriptor /\ ~lock(NoDescriptor).file_available
      <4>1. NoDescriptor \in Descriptor
        BY DEF NoDescriptor, Descriptor
      <4>2. lock(NoDescriptor) \in Descriptor
        BY <4>1, DescriptorOps
      <4>3. QED  BY <4>2 DEF lock, NoDescriptor
    <3>3. cache.fd[f] = NoDescriptor
      BY <2>2 DEF Base, CacheInv
    <3> DEFINE l == lock(NoDescriptor)
    <3>4. l \in Descriptor /\ ~l.file_available /\ l = lock(cache.fd[f])
          /\ cache' = put(cache, f, l, capacity)
      BY <3>1, <3>2, <3>3
    <3> DEFINE r == put(cache, f, l, capacity)
    <3> HIDE DEF l
    <3>5. /\ r \in CacheType /\ r.lru = cache.lru /\ r.disk = cache.disk
          /\ r.waiting = IF Known(cache, f) THEN cache.waiting ELSE cache.waiting \cup {f}
          /\ r.fd = IF Known(cache, f) THEN cache.fd ELSE [cache.fd EXCEPT ![f] = l]
      BY <1>0, <3>4, PutFields
    <3> HIDE DEF r
    <3>6. cache' = r
      BY <3>4 DEF r
    <3>7. QED  BY <2>2, <3>4, <3>5, <3>6
  <2>3. QED  BY <2>1, <2>2
<1>2. PICK s \in {"sim", "hit"} :
         /\ nc_open(c, f, s)
         /\ s = "hit" => full_hit
  BY DEF ClientFileOpen
<1>3. cl[c].state = "idle" /\ cl[c].opens < MaxOpens
      /\ cl' = [cl EXCEPT ![c] = [state |-> s, file |-> f, opens |-> cl[c].opens + 1]]
  BY <1>2 DEF nc_open
<1>4. cl' \in [Client -> ClientType]
  <2>1. cl \in [Client -> ClientType] /\ cl[c].opens \in 0 .. MaxOpens /\ MaxOpens \in Nat
    BY <1>0, TypedFields, ClientFields, DVAssumption
  <2>2. cl[c].opens + 1 \in 0 .. MaxOpens
    BY <1>3, <2>1
  <2>3. [state |-> s, file |-> f, opens |-> cl[c].opens + 1] \in ClientType
    BY <2>2 DEF ClientType, ClientState
  <2>4. QED  BY <1>3, <2>1, <2>3
<1>5. /\ \/ ~known /\ handleMiss(Nr[f])
         \/ /\ UNCHANGED <<conncount, jobqueue, sims>>
            /\ \/ \E j \in Producing(f) :
                     simulation_jobs' = [simulation_jobs EXCEPT ![j] =
                         handleClientFileOpen(@, Nr[f], sim_kill_threshold)]
               \/ UNCHANGED simulation_jobs /\ known
  BY DEF ClientFileOpen
<1>6. CASE ~known /\ handleMiss(Nr[f])
  <2>1. /\ MissEffect(Nr[f])
        /\ simulation_jobs' \in [DOMAIN simulation_jobs' -> SimJobType]
        /\ sims' \in [JobId -> SimulatorProcess]
    BY <1>0, <1>6, MissStep DEF MissEffect
  <2>2. OpenEffect(c, f)
    BY <1>1, <1>2, <1>3, <1>6, <2>1 DEF OpenEffect
  <2>3. Typed'
    <3>1. conncount' \in 0 .. MaxJobs /\ DOMAIN simulation_jobs' \subseteq 1 .. conncount'
      <4>1. /\ conncount' = conncount + 1 /\ conncount' \in JobId
            /\ DOMAIN simulation_jobs' = DOMAIN simulation_jobs \cup {conncount'}
        BY <2>1 DEF MissEffect
      <4>2. conncount \in Nat /\ MaxJobs \in Nat /\ DOMAIN simulation_jobs \subseteq 1 .. conncount
        BY <1>0, TypedFields
      <4>3. QED  BY <4>1, <4>2 DEF JobId
    <3>2. jobqueue' \in [current : Int, queue : Seq(JobId)]
      <4>1. conncount + 1 \in JobId /\ jobqueue' = enqueue(jobqueue, conncount + 1, max_simjobs)
        BY <2>1 DEF MissEffect
      <4>2. /\ jobqueue.current \in Int /\ jobqueue.queue \in Seq(JobId)
            /\ jobqueue = [current |-> jobqueue.current, queue |-> jobqueue.queue]
        BY <1>0, TypedFields
      <4>3. Append(jobqueue.queue, conncount + 1) \in Seq(JobId)
        BY <4>1, <4>2
      <4>4. jobqueue' = [current |-> jobqueue.current + 1, queue |-> jobqueue.queue]
            \/ jobqueue' = [current |-> jobqueue.current, queue |-> Append(jobqueue.queue, conncount + 1)]
        BY <4>1, <4>2 DEF enqueue
      <4>5. QED  BY <4>2, <4>3, <4>4
    <3>3. QED  BY <1>1, <1>4, <2>1, <3>1, <3>2 DEF Typed
  <2>4. QED  BY <2>2, <2>3
<1>7. CASE UNCHANGED <<conncount, jobqueue, sims>>
  <2>1. CASE UNCHANGED simulation_jobs /\ known
    <3>1. OpenEffect(c, f)
      BY <1>1, <1>2, <1>3, <1>7, <2>1 DEF OpenEffect
    <3>2. Typed'
      BY <1>0, <1>1, <1>4, <1>7, <2>1 DEF Typed
    <3>3. QED  BY <3>1, <3>2
  <2>2. CASE ~(UNCHANGED simulation_jobs /\ known) /\ ~(~known /\ handleMiss(Nr[f]))
    <3>1. PICK j \in Producing(f) :
             simulation_jobs' = [simulation_jobs EXCEPT ![j] =
                 handleClientFileOpen(@, Nr[f], sim_kill_threshold)]
      BY <1>5, <2>2
    <3>2. j \in DOMAIN simulation_jobs /\ simulation_jobs[j] \in SimJobType
      <4>1. j \in DOMAIN simulation_jobs
        BY DEF Producing
      <4>2. QED  BY <1>0, <4>1, TypedFields
    <3> DEFINE job == handleClientFileOpen(simulation_jobs[j], Nr[f], sim_kill_threshold)
    <3>3. job \in SimJobType /\ simulation_jobs' = [simulation_jobs EXCEPT ![j] = job]
      BY <1>0, <3>1, <3>2, JobOps
    <3>4. OpenEffect(c, f)
      BY <1>1, <1>2, <1>3, <1>7, <3>3 DEF OpenEffect
    <3> HIDE DEF job
    <3>5. /\ DOMAIN simulation_jobs' = DOMAIN simulation_jobs
          /\ simulation_jobs' \in [DOMAIN simulation_jobs' -> SimJobType]
      BY <1>0, <3>2, <3>3, TypedJobs
    <3>6. Typed'
      BY <1>0, <1>1, <1>4, <1>7, <3>5 DEF Typed
    <3>7. QED  BY <3>4, <3>6
  <2>3. QED  BY <1>6, <2>1, <2>2
<1>8. QED  BY <1>5, <1>6, <1>7

LEMMA GetStep ==
    ASSUME Base, NEW c \in Client, ClientVariableGet(c)
    PROVE  GetEffect(c) /\ Typed'
<1> DEFINE f == cl[c].file
<1>0. Typed /\ f \in File /\ cache.fd[f] \in Descriptor /\ cache \in CacheType
  BY TypedFields, ClientFields DEF Base
<1>1. Known(cache, f) /\ UNCHANGED <<conncount, simulation_jobs, jobqueue, sims>>
  BY DEF ClientVariableGet
<1>2. CASE /\ cache.fd[f].file_available
           /\ nc_get(c, "reading")
           /\ UNCHANGED cache
  <2>1. cl[c].state = "sim" /\ cl' = [cl EXCEPT ![c].state = "reading"] /\ "reading" \in ClientState
    BY <1>2 DEF nc_get, ClientState
  <2>2. /\ cl' = [cl EXCEPT ![c] = [state |-> "reading", file |-> f, opens |-> cl[c].opens]]
        /\ cl' \in [Client -> ClientType]
    BY <1>0, <2>1, ClientMoves
  <2>3. Typed'
    BY <1>0, <1>1, <1>2, <2>2 DEF Typed
  <2>4. QED  BY <1>1, <1>2, <2>1, <2>2, <2>3 DEF GetEffect
<1>3. CASE /\ ~cache.fd[f].file_available
           /\ nc_get(c, "waiting")
           /\ cache' = [cache EXCEPT !.fd[f] = appendNotificationSocket(@, c)]
  <2>1. cl[c].state = "sim" /\ cl' = [cl EXCEPT ![c].state = "waiting"] /\ "waiting" \in ClientState
    BY <1>3 DEF nc_get, ClientState
  <2>2. /\ cl' = [cl EXCEPT ![c] = [state |-> "waiting", file |-> f, opens |-> cl[c].opens]]
        /\ cl' \in [Client -> ClientType]
    BY <1>0, <2>1, ClientMoves
  <2> DEFINE d == appendNotificationSocket(cache.fd[f], c)
  <2>3. d \in Descriptor /\ cache' = [cache EXCEPT !.fd[f] = d]
    BY <1>0, <1>3, DescriptorOps
  <2> HIDE DEF d, f
  <2>4. /\ cache' \in CacheType
        /\ cache'.lru = cache.lru /\ cache'.disk = cache.disk /\ cache'.waiting = cache.waiting
        /\ cache'.fd = [cache.fd EXCEPT ![f] = d]
    BY <1>0, <2>3, SetDescriptor
  <2>5. Typed'
    BY <1>0, <1>1, <2>2, <2>4 DEF Typed
  <2>6. QED  BY <1>1, <1>3, <2>1, <2>2, <2>4, <2>5 DEF GetEffect, d, f
<1>4. QED  BY <1>2, <1>3 DEF ClientVariableGet

LEMMA CloseStep ==
    ASSUME Base, NEW c \in Client, ClientFileClose(c)
    PROVE  CloseEffect(c) /\ Typed'
<1> DEFINE f == cl[c].file
           d == unlock(cache.fd[f])
<1>0. Typed /\ f \in File /\ cache.fd[f] \in Descriptor /\ cache \in CacheType
      /\ cache.fd \in [File -> Descriptor]
  BY TypedFields, ClientFields DEF Base
<1>1. cl[c].state \in {"hit", "reading"} /\ UNCHANGED <<conncount, simulation_jobs, jobqueue, sims>>
      /\ cl' = [cl EXCEPT ![c].state = "idle"] /\ "idle" \in ClientState
      /\ cache' = IF Known(cache, f) THEN [cache EXCEPT !.fd[f] = d] ELSE cache
  BY DEF ClientFileClose, nc_close, ClientState
<1>2. /\ cl' = [cl EXCEPT ![c] = [state |-> "idle", file |-> f, opens |-> cl[c].opens]]
      /\ cl' \in [Client -> ClientType]
  BY <1>0, <1>1, ClientMoves
<1>3. d \in Descriptor
  BY <1>0, DescriptorOps
<1>4. ~Known(cache, f) => d = cache.fd[f]
  <2>1. ~Known(cache, f) => cache.fd[f] = NoDescriptor
    BY <1>0 DEF Base, CacheInv
  <2>2. unlock(NoDescriptor) = NoDescriptor
    BY DEF unlock, NoDescriptor
  <2>3. QED  BY <2>1, <2>2
<1> HIDE DEF d, f
<1>5. /\ cache' \in CacheType
      /\ cache'.lru = cache.lru /\ cache'.disk = cache.disk /\ cache'.waiting = cache.waiting
      /\ cache'.fd = [cache.fd EXCEPT ![f] = d]
  <2>1. CASE Known(cache, f)
    <3>1. cache' = [cache EXCEPT !.fd[f] = d]
      BY <1>1, <2>1
    <3>2. QED  BY <1>0, <1>3, <3>1, SetDescriptor
  <2>2. CASE ~Known(cache, f)
    BY <1>0, <1>1, <1>4, <2>2
  <2>3. QED  BY <2>1, <2>2
<1>6. Typed'
  BY <1>0, <1>1, <1>2, <1>5 DEF Typed
<1>7. QED  BY <1>1, <1>2, <1>5, <1>6 DEF CloseEffect, d, f

LEMMA CloseMetaStep ==
    ASSUME Base, NEW c \in Client, ClientFileCloseMeta(c)
    PROVE  CloseMetaEffect(c) /\ Typed'
<1>0. Typed /\ "idle" \in ClientState
  BY DEF Base, ClientState
<1>1. /\ FakeMeta /\ cl[c].state = "sim"
      /\ UNCHANGED <<conncount, simulation_jobs, jobqueue, cache, sims>>
      /\ cl' = [cl EXCEPT ![c].state = "idle"]
  BY DEF ClientFileCloseMeta, nc_close
<1>2. /\ cl' = [cl EXCEPT ![c] = [state |-> "idle", file |-> cl[c].file, opens |-> cl[c].opens]]
      /\ cl' \in [Client -> ClientType]
  BY <1>0, <1>1, ClientMoves
<1>3. Typed'
  BY <1>0, <1>1, <1>2 DEF Typed
<1>4. QED  BY <1>1, <1>2, <1>3 DEF CloseMetaEffect

(* A simulator's new state.                                                *)
LEMMA TypedSims ==
    ASSUME Typed, NEW j \in JobId, NEW s \in SimulatorProcess, sims' = [sims EXCEPT ![j] = s]
    PROVE  /\ sims' \in [JobId -> SimulatorProcess] /\ sims'[j] = s
           /\ \A i \in JobId : i # j => sims'[i] = sims[i]
<1>1. sims \in [JobId -> SimulatorProcess]
  BY TypedFields
<1>2. QED  BY <1>1

LEMMA CreateStep ==
    ASSUME Base, NEW j \in JobId, NEW f \in File, SimulatorFileCreate(j, f)
    PROVE  CreateEffect(j, f) /\ Typed'
<1> DEFINE job == simulation_jobs[j]
           inRange == nrIsInSimulationRange(job, Nr[f])
           known == IF inRange THEN put(cache, f, NoDescriptor, capacity) ELSE cache
           d == setFileUsedBySimulator(cache.fd[f], TRUE)
           job2 == IF inRange THEN handleSimulatorFileCreate(job, Nr[f]) ELSE job
           sim == created(sims[j], f, NeedsRedirect(cache, f))
<1>0. Typed /\ cache.fd[f] \in Descriptor /\ cache \in CacheType /\ Nr[f] \in Nat
      /\ cache.fd \in [File -> Descriptor]
  BY TypedFields DEF Base
<1>1. /\ sims[j].phase = "running" /\ ~MustTerminate(j) /\ MayCreate(j, f)
      /\ ~hasToBeKilled(job, sim_kill_threshold)
      /\ simulation_jobs' = [simulation_jobs EXCEPT ![j] = job2]
      /\ cache' = IF Known(known, f)
                  THEN [known EXCEPT !.fd[f] = setFileUsedBySimulator(@, TRUE)] ELSE known
      /\ sims' = [sims EXCEPT ![j] = sim]
      /\ UNCHANGED <<conncount, jobqueue, cl>>
  BY DEF SimulatorFileCreate
<1>2. /\ j \in DOMAIN simulation_jobs /\ job \in SimJobType /\ sims[j] \in SimulatorProcess
  BY <1>1, RunningHasJob
<1>3. job2 \in SimJobType /\ sim \in SimulatorProcess
  <2>1. handleSimulatorFileCreate(job, Nr[f]) \in SimJobType
    BY <1>0, <1>2, JobOps
  <2>2. NeedsRedirect(cache, f) \in BOOLEAN
    BY <1>0 DEF NeedsRedirect, Known, isFileUsedBySimulator, Descriptor
  <2>3. QED  BY <1>2, <2>1, <2>2, SimulatorOps
<1>4. d \in Descriptor
  BY <1>0, DescriptorOps
<1>5. /\ known \in CacheType /\ known.lru = cache.lru /\ known.disk = cache.disk
      /\ known.waiting = IF inRange /\ ~Known(cache, f) THEN cache.waiting \cup {f} ELSE cache.waiting
      /\ known.fd = cache.fd
      /\ Known(known, f) <=> inRange \/ Known(cache, f)
  <2>1. CASE inRange
    <3> DEFINE r == put(cache, f, NoDescriptor, capacity)
    <3>1. NoDescriptor \in Descriptor /\ ~NoDescriptor.file_available
      BY DEF NoDescriptor, Descriptor
    <3>2. /\ r \in CacheType /\ r.lru = cache.lru /\ r.disk = cache.disk
          /\ r.waiting = IF Known(cache, f) THEN cache.waiting ELSE cache.waiting \cup {f}
          /\ r.fd = IF Known(cache, f) THEN cache.fd ELSE [cache.fd EXCEPT ![f] = NoDescriptor]
          /\ Known(r, f)
      BY <1>0, <3>1, PutFields
    <3>3. known = r
      BY <2>1
    <3>4. ~Known(cache, f) => cache.fd[f] = NoDescriptor
      BY DEF Base, CacheInv
    <3> HIDE DEF r, known, inRange
    <3>5. r.fd = cache.fd
      BY <1>0, <3>2, <3>4
    <3>6. QED  BY <2>1, <3>2, <3>3, <3>5
  <2>2. CASE ~inRange
    BY <1>0, <2>2
  <2>3. QED  BY <2>1, <2>2
<1> HIDE DEF known, d, job2, sim
<1>6. /\ cache' \in CacheType /\ cache'.lru = cache.lru /\ cache'.disk = cache.disk
      /\ cache'.waiting = known.waiting
      /\ cache'.fd = IF Known(known, f) THEN [cache.fd EXCEPT ![f] = d] ELSE cache.fd
  <2>1. CASE Known(known, f)
    <3>1. cache' = [known EXCEPT !.fd[f] = d]
      BY <1>1, <1>5, <2>1 DEF d
    <3>2. QED  BY <1>4, <1>5, <2>1, <3>1, SetDescriptor
  <2>2. CASE ~Known(known, f)
    BY <1>1, <1>5, <2>2
  <2>3. QED  BY <2>1, <2>2
<1>7. /\ DOMAIN simulation_jobs' = DOMAIN simulation_jobs
      /\ simulation_jobs' \in [DOMAIN simulation_jobs' -> SimJobType]
      /\ sims' \in [JobId -> SimulatorProcess]
  BY <1>0, <1>1, <1>2, <1>3, TypedJobs, TypedSims
<1>8. Typed'
  BY <1>0, <1>1, <1>6, <1>7 DEF Typed
<1>9. /\ cache'.waiting = IF inRange /\ ~Known(cache, f) THEN cache.waiting \cup {f} ELSE cache.waiting
      /\ cache'.fd = IF inRange \/ Known(cache, f)
                     THEN [cache.fd EXCEPT ![f] = setFileUsedBySimulator(cache.fd[f], TRUE)]
                     ELSE cache.fd
  BY <1>5, <1>6 DEF d
<1>10. QED  BY <1>1, <1>2, <1>6, <1>8, <1>9 DEF CreateEffect, job2, sim

LEMMA CreateKilledStep ==
    ASSUME Base, NEW j \in JobId, NEW f \in File, SimulatorFileCreateKilled(j, f)
    PROVE  CreateKilledEffect(j, f) /\ Typed'
<1> DEFINE job == invalidateJob(simulation_jobs[j])
           sim == killed(sims[j], f)
<1>0. Typed /\ Nr[f] \in Nat
  BY TypedFields DEF Base
<1>1. /\ sims[j].phase = "running" /\ ~MustTerminate(j) /\ MayCreate(j, f)
      /\ hasToBeKilled(simulation_jobs[j], sim_kill_threshold)
      /\ simulation_jobs' = [simulation_jobs EXCEPT ![j] = job]
      /\ sims' = [sims EXCEPT ![j] = sim]
      /\ UNCHANGED <<conncount, jobqueue, cache, cl>>
  BY DEF SimulatorFileCreateKilled
<1>2. /\ j \in DOMAIN simulation_jobs /\ simulation_jobs[j] \in SimJobType
      /\ sims[j] \in SimulatorProcess
  BY <1>1, RunningHasJob
<1>3. job \in SimJobType /\ sim \in SimulatorProcess
  BY <1>0, <1>2, JobOps, SimulatorOps
<1> HIDE DEF job, sim
<1>4. /\ DOMAIN simulation_jobs' = DOMAIN simulation_jobs
      /\ simulation_jobs' \in [DOMAIN simulation_jobs' -> SimJobType]
      /\ sims' \in [JobId -> SimulatorProcess]
  BY <1>0, <1>1, <1>2, <1>3, TypedJobs, TypedSims
<1>5. Typed'
  BY <1>0, <1>1, <1>4 DEF Typed
<1>6. QED  BY <1>1, <1>2, <1>5 DEF CreateKilledEffect, job, sim

LEMMA TruncateStep ==
    ASSUME Base, NEW j \in JobId, SimulatorTruncate(j)
    PROVE  TruncateEffect(j) /\ Typed'
<1> DEFINE sim == [sims[j] EXCEPT !.open = @ \cup sims[j].creating, !.creating = {}]
<1>0. Typed /\ cache \in CacheType /\ sims \in [JobId -> SimulatorProcess]
  BY TypedFields DEF Base
<1>1. /\ sims[j].phase = "running" /\ UNCHANGED <<conncount, simulation_jobs, jobqueue, cl>>
      /\ sims' = [sims EXCEPT ![j].open = @ \cup sims[j].creating, ![j].creating = {}]
  BY DEF SimulatorTruncate
<1>2. j \in DOMAIN simulation_jobs /\ sims[j] \in SimulatorProcess
  BY <1>1, RunningHasJob
<1>3. PICK f \in sims[j].creating : cache' = IF f \in sims[j].redirected THEN cache
                                             ELSE [cache EXCEPT !.disk[f] = "partial"]
  BY DEF SimulatorTruncate
<1>4. f \in File
  BY <1>2 DEF SimulatorProcess
<1>5. /\ cache' \in CacheType
      /\ cache'.lru = cache.lru /\ cache'.waiting = cache.waiting /\ cache'.fd = cache.fd
      /\ cache'.disk = IF f \in sims[j].redirected THEN cache.disk
                       ELSE [cache.disk EXCEPT ![f] = "partial"]
  <2>1. CASE f \in sims[j].redirected
    BY <1>0, <1>3, <2>1
  <2>2. CASE f \notin sims[j].redirected
    <3>1. "partial" \in DiskState
      BY DEF DiskState
    <3>2. cache' = [cache EXCEPT !.disk[f] = "partial"]
      BY <1>3, <2>2
    <3>3. QED  BY <1>0, <1>4, <2>2, <3>1, <3>2, SetDisk
  <2>3. QED  BY <2>1, <2>2
<1>6. sims' = [sims EXCEPT ![j] = sim]
  BY <1>0, <1>1
<1>7. sim \in SimulatorProcess
  BY <1>2, <1>4, SimulatorOps
<1> HIDE DEF sim
<1>8. sims' \in [JobId -> SimulatorProcess]
  BY <1>0, <1>6, <1>7, TypedSims
<1>9. Typed'
  BY <1>0, <1>1, <1>5, <1>8 DEF Typed
<1>10. TruncateEffect(j)
  BY <1>1, <1>2, <1>5, <1>6 DEF TruncateEffect, sim
<1>11. QED  BY <1>9, <1>10

LEMMA CrashStep ==
    ASSUME Base, NEW j \in JobId, SimulatorCrash(j)
    PROVE  CrashEffect(j) /\ Typed'
<1> DEFINE sim == [sims[j] EXCEPT !.phase = "crashed"]
<1>0. Typed /\ sims \in [JobId -> SimulatorProcess]
  BY TypedFields DEF Base
<1>1. /\ sims[j].phase = "running"
      /\ UNCHANGED <<conncount, simulation_jobs, jobqueue, cache, cl>>
      /\ sims' = [sims EXCEPT ![j] = sim]
  BY <1>0 DEF SimulatorCrash
<1>2. j \in DOMAIN simulation_jobs /\ sims[j] \in SimulatorProcess
  BY <1>1, RunningHasJob
<1>3. Cardinality(Phase({"crashed"})) < MaxCrashes
  <2>1. Phase({"crashed"}) = {i \in JobId : sims[i].phase = "crashed"}
    BY DEF Phase
  <2>2. QED  BY <2>1 DEF SimulatorCrash
<1>4. sim \in SimulatorProcess
  BY <1>2 DEF SimulatorProcess
<1> HIDE DEF sim
<1>5. sims' \in [JobId -> SimulatorProcess]
  BY <1>0, <1>1, <1>4, TypedSims
<1>6. Typed'
  BY <1>0, <1>1, <1>5 DEF Typed
<1>7. QED  BY <1>1, <1>2, <1>3, <1>6 DEF CrashEffect, sim

LEMMA DiskAfterCloseType ==
    ASSUME Base, NEW j \in JobId, NEW f \in File
    PROVE  /\ DiskAfterClose(j, f) \in DiskState
           /\ DiskAfterClose(j, f) = "absent" <=> cache.disk[f] = "absent"
<1>1. cache.disk[f] \in DiskState
  BY TypedFields DEF Base
<1>2. QED  BY <1>1 DEF DiskAfterClose, DiskState

LEMMA FileCloseStep ==
    ASSUME Base, NEW j \in JobId, NEW f \in File, SimulatorFileClose(j, f)
    PROVE  FileCloseEffect(j, f) /\ Typed'
<1> DEFINE job == simulation_jobs[j]
           inRange == nrIsInSimulationRange(job, Nr[f])
           e == DiskAfterClose(j, f)
           onDisk == [cache EXCEPT !.disk[f] = e]
           sim == closedBySimulator(sims[j], f)
           job2 == handleSimulatorFileClose(job)
<1>0. /\ Typed /\ cache.fd[f] \in Descriptor /\ cache \in CacheType /\ Nr[f] \in Nat
      /\ cache.fd \in [File -> Descriptor] /\ cache.disk \in [File -> DiskState]
      /\ cache.waiting \in SUBSET File /\ Cached(cache) \in SUBSET File
  BY TypedFields DEF Base
<1>1. /\ sims[j].phase = "running" /\ f \in sims[j].open
      /\ sims' = [sims EXCEPT ![j] = sim]
      /\ UNCHANGED <<conncount, jobqueue>>
  BY DEF SimulatorFileClose
<1>2. /\ j \in DOMAIN simulation_jobs /\ job \in SimJobType /\ sims[j] \in SimulatorProcess
  BY <1>1, RunningHasJob
<1>3. job2 \in SimJobType /\ sim \in SimulatorProcess
  BY <1>0, <1>2, JobOps, SimulatorOps
<1>4. e \in DiskState /\ (e = "absent" <=> cache.disk[f] = "absent")
  BY DiskAfterCloseType
<1>5. inRange => /\ Known(cache, f)
                 /\ cache' = completed(onDisk, f)
                 /\ cl' = [c \in Client |-> IF c \in cache.fd[f].sockets
                                            THEN [cl[c] EXCEPT !.state = "reading"] ELSE cl[c]]
                 /\ simulation_jobs' = [simulation_jobs EXCEPT ![j] = job2]
  BY DEF SimulatorFileClose
<1>6. ~inRange => /\ cache' = IF Known(cache, f)
                              THEN [onDisk EXCEPT !.fd[f] = setFileUsedBySimulator(@, FALSE)]
                              ELSE onDisk
                  /\ UNCHANGED <<cl, simulation_jobs>>
  BY DEF SimulatorFileClose
<1> HIDE DEF e
<1>7. /\ onDisk \in CacheType /\ onDisk.lru = cache.lru /\ onDisk.waiting = cache.waiting
      /\ onDisk.fd = cache.fd /\ onDisk.disk = [cache.disk EXCEPT ![f] = e]
  BY <1>0, <1>4, SetDisk
<1> HIDE DEF onDisk, job2, sim, inRange
<1>8. sims' \in [JobId -> SimulatorProcess]
  BY <1>0, <1>1, <1>3, TypedSims
<1>9. CASE inRange
  <2>1. /\ IsInjective(onDisk.lru) /\ Cached(onDisk) = Cached(cache)
        /\ Cached(onDisk) \cap onDisk.waiting = {}
        /\ Known(onDisk, f) /\ onDisk.disk[f] = e
        /\ f \in Cached(onDisk) => onDisk.disk[f] # "absent"
    <3>1. Cached(onDisk) = Cached(cache) /\ onDisk.disk[f] = e
      BY <1>0, <1>7 DEF Cached
    <3>2. Known(onDisk, f)
      BY <1>5, <1>7, <1>9, <3>1 DEF Known
    <3>3. QED  BY <1>4, <1>7, <3>1, <3>2 DEF Base, CacheInv
  <2>2. PICK V : CompletedTo(onDisk, completed(onDisk, f), f, V)
    BY <1>7, <2>1, CompletedFields
  <2>3. CompletedTo(onDisk, cache', f, V)
    BY <1>5, <1>9, <2>2
  <2>4. /\ V \subseteq Cached(cache) /\ f \notin V
        /\ \A v \in V : Evictable(cache.fd[v])
        /\ IsInjective(cache'.lru) /\ cache' \in CacheType
        /\ Cached(cache') = (Cached(cache) \ V) \cup
                            (IF f \in cache.waiting /\ cache.disk[f] = "absent" THEN {} ELSE {f})
        /\ cache'.waiting = IF cache.disk[f] = "absent" THEN cache.waiting ELSE cache.waiting \ {f}
        /\ cache'.fd = [g \in File |-> IF g = f THEN Closed(cache.fd[f])
                                       ELSE IF g \in V THEN NoDescriptor ELSE cache.fd[g]]
    BY <1>4, <1>7, <2>1, <2>3 DEF CompletedTo
  <2>5. cache'.disk = [g \in File |-> IF g \in V THEN "absent"
                                     ELSE IF g = f THEN e ELSE cache.disk[g]]
    <3>1. cache'.disk = [g \in File |-> IF g \in V THEN "absent" ELSE onDisk.disk[g]]
      BY <2>3 DEF CompletedTo
    <3>2. \A g \in File : onDisk.disk[g] = IF g = f THEN e ELSE cache.disk[g]
      BY <1>0, <1>7
    <3>3. QED  BY <3>1, <3>2
  <2>6. ClosedInRange(j, f, V)
    BY <1>5, <1>9, <2>4, <2>5 DEF ClosedInRange, e, job2
  <2>7. FileCloseEffect(j, f)
    BY <1>1, <1>2, <1>9, <2>6 DEF FileCloseEffect, sim, inRange
  <2>8. cl' \in [Client -> ClientType]
    <3>1. \A c \in Client : [cl[c] EXCEPT !.state = "reading"] \in ClientType
      <4>1. \A c \in Client : cl[c] \in ClientType
        BY <1>0, TypedFields
      <4>2. QED  BY <4>1 DEF ClientType, ClientState
    <3>2. cl \in [Client -> ClientType]
      BY <1>0, TypedFields
    <3>3. QED  BY <1>5, <1>9, <3>1, <3>2
  <2>9. /\ DOMAIN simulation_jobs' = DOMAIN simulation_jobs
        /\ simulation_jobs' \in [DOMAIN simulation_jobs' -> SimJobType]
    BY <1>0, <1>2, <1>3, <1>5, <1>9, TypedJobs
  <2>10. Typed'
    BY <1>0, <1>1, <1>8, <2>4, <2>8, <2>9 DEF Typed
  <2>11. QED  BY <2>7, <2>10
<1>10. CASE ~inRange
  <2> DEFINE d == setFileUsedBySimulator(cache.fd[f], FALSE)
  <2>1. d \in Descriptor
    BY <1>0, DescriptorOps
  <2>2. ~Known(cache, f) => d = cache.fd[f]
    <3>1. ~Known(cache, f) => cache.fd[f] = NoDescriptor
      BY DEF Base, CacheInv
    <3>2. setFileUsedBySimulator(NoDescriptor, FALSE) = NoDescriptor
      BY DEF setFileUsedBySimulator, NoDescriptor
    <3>3. QED  BY <3>1, <3>2
  <2>3. cache' = IF Known(cache, f) THEN [onDisk EXCEPT !.fd[f] = d] ELSE onDisk
    BY <1>6, <1>7, <1>10
  <2> HIDE DEF d
  <2>4. /\ cache' \in CacheType /\ cache'.lru = cache.lru /\ cache'.waiting = cache.waiting
        /\ cache'.fd = [cache.fd EXCEPT ![f] = d]
        /\ cache'.disk = [cache.disk EXCEPT ![f] = e]
    <3>1. CASE Known(cache, f)
      <4>1. cache' = [onDisk EXCEPT !.fd[f] = d]
        BY <2>3, <3>1
      <4>2. /\ cache' \in CacheType /\ cache'.lru = onDisk.lru /\ cache'.waiting = onDisk.waiting
            /\ cache'.disk = onDisk.disk /\ cache'.fd = [onDisk.fd EXCEPT ![f] = d]
        BY <1>7, <2>1, <4>1, SetDescriptor
      <4>3. QED  BY <1>7, <4>2
    <3>2. CASE ~Known(cache, f)
      BY <1>0, <1>7, <2>2, <2>3, <3>2
    <3>3. QED  BY <3>1, <3>2
  <2>5. ClosedOutOfRange(j, f)
    BY <1>6, <1>10, <2>4 DEF ClosedOutOfRange, e, d
  <2>6. FileCloseEffect(j, f)
    BY <1>1, <1>2, <1>10, <2>5 DEF FileCloseEffect, sim, inRange
  <2>7. Typed'
    BY <1>0, <1>1, <1>6, <1>8, <1>10, <2>4 DEF Typed
  <2>8. QED  BY <2>6, <2>7
<1>11. QED  BY <1>9, <1>10

LEMMA NextJobsProperty ==
    ASSUME Base
    PROVE  /\ \A i \in NextJobs(jobqueue) : sims[i].phase = "none" /\ i <= conncount /\ i \in JobId
           /\ jobqueue.queue = <<>> => NextJobs(jobqueue) = {}
           /\ jobqueue.queue # <<>> => NextJobs(jobqueue) = {jobqueue.queue[1]}
<1>1. jobqueue.queue \in Seq(JobId)
  BY TypedFields DEF Base
<1>2. CASE jobqueue.queue # <<>>
  <2>1. 1 \in DOMAIN jobqueue.queue /\ Head(jobqueue.queue) = jobqueue.queue[1]
        /\ jobqueue.queue[1] \in JobId
    BY <1>1, <1>2
  <2>2. sims[jobqueue.queue[1]].phase = "none" /\ jobqueue.queue[1] <= conncount
    BY <2>1 DEF Base, JobsInv
  <2>3. NextJobs(jobqueue) = {jobqueue.queue[1]}
    BY <1>2, <2>1 DEF NextJobs
  <2>4. QED  BY <1>2, <2>1, <2>2, <2>3
<1>3. CASE jobqueue.queue = <<>>
  BY <1>3 DEF NextJobs
<1>4. QED  BY <1>2, <1>3

LEMMA FinalizeStep ==
    ASSUME Base, NEW j \in JobId, SimulatorFinalize(j)
    PROVE  FinalizeEffect(j) /\ Typed'
<1> DEFINE next == NextJobs(jobqueue)
           s == [sims EXCEPT ![j].phase = "ended"]
<1>0. Typed /\ sims \in [JobId -> SimulatorProcess]
      /\ simulation_jobs \in [DOMAIN simulation_jobs -> SimJobType]
      /\ DOMAIN simulation_jobs \subseteq 1 .. conncount
      /\ jobqueue.current \in Int /\ jobqueue.queue \in Seq(JobId)
      /\ jobqueue = [current |-> jobqueue.current, queue |-> jobqueue.queue]
  BY TypedFields DEF Base
<1>1. /\ sims[j].phase = "running"
      /\ \/ MustTerminate(j)
         \/ /\ sims[j].creating = {} /\ sims[j].open = {}
            /\ \A f \in File : simulation_jobs[j].sim_start <= Nr[f]
                                  /\ Nr[f] <= simulation_jobs[j].sim_stop
                               => f \in sims[j].made
      /\ UNCHANGED <<conncount, cache, cl>>
      /\ jobqueue' = handleJobTermination(jobqueue)
      /\ simulation_jobs' = Restrict(simulation_jobs, DOMAIN simulation_jobs \ {j})
      /\ sims' = Launch(s, next)
  BY DEF SimulatorFinalize
<1>2. j \in DOMAIN simulation_jobs /\ sims[j] \in SimulatorProcess
  BY <1>1, RunningHasJob
<1>3. simulation_jobs' = [i \in DOMAIN simulation_jobs \ {j} |-> simulation_jobs[i]]
  BY <1>1 DEF Restrict
<1>4. /\ DOMAIN simulation_jobs' = DOMAIN simulation_jobs \ {j}
      /\ \A i \in DOMAIN simulation_jobs \ {j} : simulation_jobs'[i] = simulation_jobs[i]
      /\ simulation_jobs' \in [DOMAIN simulation_jobs' -> SimJobType]
  BY <1>0, <1>3
<1>5. \A i \in next : sims[i].phase = "none" /\ i <= conncount /\ i \in JobId
  BY NextJobsProperty
<1>6. j \notin next
  BY <1>1, <1>5
<1>7. /\ s \in [JobId -> SimulatorProcess]
      /\ \A i \in JobId : s[i] = IF i = j THEN [sims[i] EXCEPT !.phase = "ended"] ELSE sims[i]
  <2>1. [sims[j] EXCEPT !.phase = "ended"] \in SimulatorProcess
    BY <1>2 DEF SimulatorProcess
  <2>2. s = [sims EXCEPT ![j] = [sims[j] EXCEPT !.phase = "ended"]]
    BY <1>0
  <2>3. QED  BY <1>0, <2>1, <2>2
<1> HIDE DEF s, next
<1>8. /\ sims' \in [JobId -> SimulatorProcess]
      /\ \A i \in JobId : sims'[i] = IF i \in next THEN [s[i] EXCEPT !.phase = "running"] ELSE s[i]
  BY <1>1, <1>7, LaunchProperty
<1>9. \A i \in JobId :
         sims'[i] = IF i = j THEN [sims[i] EXCEPT !.phase = "ended"]
                    ELSE IF i \in next THEN [sims[i] EXCEPT !.phase = "running"] ELSE sims[i]
  BY <1>6, <1>7, <1>8
<1>10. FinalizeEffect(j)
  BY <1>1, <1>2, <1>4, <1>5, <1>6, <1>9 DEF FinalizeEffect, next
<1>11. jobqueue' \in [current : Int, queue : Seq(JobId)]
  <2>1. CASE jobqueue.queue # <<>>
    <3>1. jobqueue' = [current |-> jobqueue.current, queue |-> Tail(jobqueue.queue)]
      BY <1>0, <1>1, <2>1 DEF handleJobTermination
    <3>2. Tail(jobqueue.queue) \in Seq(JobId)
      BY <1>0, <2>1
    <3>3. QED  BY <1>0, <3>1, <3>2
  <2>2. CASE jobqueue.queue = <<>>
    <3>1. jobqueue' = [current |-> jobqueue.current - 1, queue |-> jobqueue.queue]
      BY <1>0, <1>1, <2>2 DEF handleJobTermination
    <3>2. QED  BY <1>0, <3>1
  <2>3. QED  BY <2>1, <2>2
<1>12. Typed'
  BY <1>0, <1>1, <1>4, <1>8, <1>11 DEF Typed
<1>13. QED  BY <1>10, <1>12

-----------------------------------------------------------------------------
\* Jobs, queue and simulators agree.

LEMMA PhaseFinite ==
    ASSUME NEW P
    PROVE  IsFiniteSet(Phase(P)) /\ Cardinality(Phase(P)) \in Nat
<1>1. IsFiniteSet(JobId)
  BY DVAssumption, FS_Interval DEF JobId
<1>2. Phase(P) \in SUBSET JobId
  BY DEF Phase
<1>3. QED  BY <1>1, <1>2, FS_Subset, FS_CardinalityType

(* A handler that leaves the phases alone keeps jobs and queue in step.    *)
LEMMA PhasesStay ==
    ASSUME Base, UNCHANGED <<conncount, jobqueue>>,
           DOMAIN simulation_jobs' = DOMAIN simulation_jobs,
           NEW j \in JobId, sims[j].phase = "running", sims'[j].phase = "running",
           \A i \in JobId : i # j => sims'[i] = sims[i]
    PROVE  JobsInv'
<1>1. \A i \in JobId : /\ sims'[i].phase = sims[i].phase
                       /\ sims[i].phase = "none" => sims'[i] = sims[i]
  OBVIOUS
<1>2. Occupying' = Occupying
  BY <1>1 DEF Occupying, Phase
<1>3. \A i \in DOMAIN jobqueue.queue : jobqueue.queue[i] \in JobId
  BY TypedFields DEF Base
<1>4. \A i \in DOMAIN jobqueue.queue :
         jobqueue.queue[i] <= conncount /\ sims'[jobqueue.queue[i]].phase = "none"
  BY <1>1, <1>3 DEF Base, JobsInv
<1>5. IsInjective(jobqueue.queue) /\ jobqueue.current = Cardinality(Occupying)
      /\ jobqueue.current <= max_simjobs
  BY DEF Base, JobsInv
<1>6. /\ \A i \in JobId : sims'[i].phase = "none" => sims'[i] = NewSimulator
      /\ \A i \in JobId : i > conncount => sims'[i].phase = "none"
      /\ \A i \in JobId : i \in DOMAIN simulation_jobs <=> i <= conncount /\ sims'[i].phase # "ended"
  BY <1>1 DEF Base, JobsInv
<1>7. QED  BY <1>2, <1>4, <1>5, <1>6 DEF JobsInv

LEMMA JobsInvMiss ==
    ASSUME Base, NEW nr \in Nat, MissEffect(nr), Typed'
    PROVE  JobsInv'
<1> DEFINE j == conncount + 1
           q == jobqueue.queue
<1>0. /\ conncount \in Nat /\ jobqueue.current \in Int /\ q \in Seq(JobId)
      /\ jobqueue = [current |-> jobqueue.current, queue |-> q]
      /\ sims \in [JobId -> SimulatorProcess]
      /\ DOMAIN simulation_jobs \subseteq 1 .. conncount
      /\ JobsInv
  BY TypedFields DEF Base
<1>1. /\ conncount' = j /\ j \in JobId
      /\ DOMAIN simulation_jobs' = DOMAIN simulation_jobs \cup {j}
      /\ jobqueue' = enqueue(jobqueue, j, max_simjobs)
      /\ \A i \in JobId :
            sims'[i] = IF i = j /\ HasFreeSlot(jobqueue, max_simjobs)
                       THEN [sims[i] EXCEPT !.phase = "running"] ELSE sims[i]
  BY DEF MissEffect
<1>2. j > conncount /\ sims[j].phase = "none" /\ \A i \in JobId : i > j => i > conncount
  <2>1. j > conncount /\ \A i \in JobId : i > j => i > conncount
    BY <1>0 DEF JobId
  <2>2. QED  BY <1>0, <1>1, <2>1 DEF JobsInv
<1>3. \A k \in DOMAIN q : q[k] \in JobId /\ q[k] # j /\ sims'[q[k]] = sims[q[k]] /\ q[k] <= j
  <2>0. \A k \in DOMAIN q : q[k] \in JobId /\ q[k] <= conncount
    BY <1>0 DEF JobsInv
  <2>1. \A k \in DOMAIN q : q[k] \in JobId /\ q[k] <= conncount /\ q[k] \in Nat
    BY <2>0 DEF JobId
  <2>2. \A k \in DOMAIN q : q[k] # j /\ q[k] <= j
    BY <1>0, <2>1
  <2>3. QED  BY <1>1, <2>1, <2>2
<1>4. \A i \in JobId : i # j => sims'[i] = sims[i]
  BY <1>1
<1>5. \A i \in JobId : (i <= j <=> i <= conncount \/ i = j)
  BY <1>0 DEF JobId
<1>6. max_simjobs \in Nat
  BY DVAssumption
<1> HIDE DEF j, q
<1>7. sims'[j].phase # "ended"
  BY <1>0, <1>1, <1>2 DEF SimulatorProcess
<1>8. /\ \A i \in JobId : sims'[i].phase = "none" => sims'[i] = NewSimulator
      /\ \A i \in JobId : i > conncount' => sims'[i].phase = "none"
      /\ \A i \in JobId : i \in DOMAIN simulation_jobs' <=> i <= conncount' /\ sims'[i].phase # "ended"
  <2>1. \A i \in JobId : sims'[i].phase = "none" => sims'[i] = NewSimulator
    <3>1. ASSUME NEW i \in JobId, sims'[i].phase = "none" PROVE sims'[i] = NewSimulator
      <4>1. CASE sims'[i] = sims[i]
        BY <1>0, <3>1, <4>1 DEF JobsInv
      <4>2. CASE sims'[i] # sims[i]
        <5>1. sims'[i] = [sims[i] EXCEPT !.phase = "running"] /\ sims[i] \in SimulatorProcess
          BY <1>0, <1>1, <4>2
        <5>2. sims'[i].phase = "running"
          BY <5>1 DEF SimulatorProcess
        <5>3. QED  BY <3>1, <5>2
      <4>3. QED  BY <4>1, <4>2
    <3>2. QED  BY <3>1
  <2>2. \A i \in JobId : i > conncount' => sims'[i].phase = "none"
    <3>1. ASSUME NEW i \in JobId, i > conncount' PROVE sims'[i].phase = "none"
      <4>1. i > j /\ i # j
        BY <1>0, <1>1, <3>1 DEF JobId, j
      <4>2. i > conncount
        BY <1>2, <4>1
      <4>3. QED  BY <1>0, <1>4, <4>1, <4>2 DEF JobsInv
    <3>2. QED  BY <3>1
  <2>3. \A i \in JobId : i \in DOMAIN simulation_jobs' <=> i <= conncount' /\ sims'[i].phase # "ended"
    <3>1. ASSUME NEW i \in JobId
          PROVE  i \in DOMAIN simulation_jobs' <=> i <= conncount' /\ sims'[i].phase # "ended"
      <4>1. CASE i = j
        BY <1>1, <1>5, <1>7, <4>1
      <4>2. CASE i # j
        BY <1>0, <1>1, <1>4, <1>5, <4>2 DEF JobsInv
      <4>3. QED  BY <4>1, <4>2
    <3>2. QED  BY <3>1
  <2>4. QED  BY <2>1, <2>2, <2>3
<1>9. CASE HasFreeSlot(jobqueue, max_simjobs)
  <2>1. jobqueue'.current = jobqueue.current + 1 /\ jobqueue'.queue = q
    BY <1>0, <1>1, <1>9 DEF enqueue
  <2>2. sims'[j].phase = "running"
    BY <1>0, <1>1, <1>9 DEF SimulatorProcess
  <2>3. Occupying' = Occupying \cup {j} /\ j \notin Occupying
    BY <1>1, <1>2, <1>4, <2>2 DEF Occupying, Phase
  <2>4. Cardinality(Occupying') = Cardinality(Occupying) + 1
    BY <2>3, PhaseFinite, FS_AddElement DEF Occupying
  <2>5. jobqueue'.current = Cardinality(Occupying') /\ jobqueue'.current <= max_simjobs
    BY <1>0, <1>6, <1>9, <2>1, <2>4 DEF JobsInv, HasFreeSlot
  <2>6. \A i \in DOMAIN q : q[i] <= conncount' /\ sims'[q[i]].phase = "none"
    BY <1>0, <1>1, <1>3 DEF JobsInv, q
  <2>7. IsInjective(q)
    BY <1>0 DEF JobsInv, q
  <2>8. QED  BY <1>8, <2>1, <2>5, <2>6, <2>7 DEF JobsInv
<1>10. CASE ~HasFreeSlot(jobqueue, max_simjobs)
  <2>1. jobqueue'.current = jobqueue.current /\ jobqueue'.queue = Append(q, j)
    BY <1>0, <1>1, <1>10 DEF enqueue
  <2>2. sims'[j].phase = "none" /\ \A i \in JobId : sims'[i] = sims[i]
    BY <1>1, <1>2, <1>10
  <2>3. Occupying' = Occupying
    BY <2>2 DEF Occupying, Phase
  <2>4. j \notin Range(q) /\ IsInjective(q)
    BY <1>0, <1>3 DEF JobsInv, Range, q
  <2>5. IsInjective(Append(q, j))
    BY <1>0, <1>1, <2>4, AppendKeepsInjective
  <2>6. \A i \in DOMAIN Append(q, j) :
           Append(q, j)[i] <= conncount' /\ sims'[Append(q, j)[i]].phase = "none"
    <3>1. \A i \in DOMAIN Append(q, j) : (i \in DOMAIN q /\ Append(q, j)[i] = q[i]) \/ Append(q, j)[i] = j
      BY <1>0
    <3>2. \A i \in DOMAIN q : q[i] <= conncount' /\ sims'[q[i]].phase = "none"
      BY <1>0, <1>1, <1>3 DEF JobsInv, q
    <3>3. j <= conncount'
      BY <1>1, <1>5
    <3>4. QED  BY <2>2, <3>1, <3>2, <3>3
  <2>7. QED  BY <1>0, <1>8, <2>1, <2>3, <2>5, <2>6 DEF JobsInv
<1>11. QED  BY <1>9, <1>10

LEMMA JobsInvFinalize ==
    ASSUME Base, NEW j \in JobId, FinalizeEffect(j)
    PROVE  JobsInv'
<1> DEFINE q == jobqueue.queue
           next == NextJobs(jobqueue)
<1>0. /\ conncount \in Nat /\ jobqueue.current \in Int /\ q \in Seq(JobId)
      /\ jobqueue = [current |-> jobqueue.current, queue |-> q]
      /\ sims \in [JobId -> SimulatorProcess] /\ JobsInv
  BY TypedFields DEF Base
<1>1. /\ sims[j].phase = "running" /\ j \in DOMAIN simulation_jobs
      /\ conncount' = conncount /\ jobqueue' = handleJobTermination(jobqueue)
      /\ DOMAIN simulation_jobs' = DOMAIN simulation_jobs \ {j}
      /\ j \notin next
      /\ \A i \in next : sims[i].phase = "none" /\ i <= conncount /\ i \in JobId
      /\ \A i \in JobId :
            sims'[i] = IF i = j THEN [sims[i] EXCEPT !.phase = "ended"]
                       ELSE IF i \in next THEN [sims[i] EXCEPT !.phase = "running"] ELSE sims[i]
  BY DEF FinalizeEffect
<1>2. /\ sims'[j].phase = "ended" /\ \A i \in next : sims'[i].phase = "running"
      /\ \A i \in JobId : i # j /\ i \notin next => sims'[i] = sims[i]
  <2> HIDE DEF next
  <2>1. sims'[j] = [sims[j] EXCEPT !.phase = "ended"] /\ sims[j] \in SimulatorProcess
    BY <1>0, <1>1
  <2>2. sims'[j].phase = "ended"
    BY <2>1 DEF SimulatorProcess
  <2>3. ASSUME NEW i \in next PROVE sims'[i].phase = "running"
    <3>1. sims'[i] = [sims[i] EXCEPT !.phase = "running"] /\ sims[i] \in SimulatorProcess
      BY <1>0, <1>1
    <3>2. QED  BY <3>1 DEF SimulatorProcess
  <2>4. QED  BY <1>1, <2>2, <2>3
<1> HIDE DEF q, next
<1>3. /\ \A i \in JobId : sims'[i].phase = "none" => sims'[i] = NewSimulator
      /\ \A i \in JobId : i > conncount' => sims'[i].phase = "none"
      /\ \A i \in JobId : i \in DOMAIN simulation_jobs' <=> i <= conncount' /\ sims'[i].phase # "ended"
  <2>1. \A i \in next \cup {j} : ~(i > conncount) /\ i <= conncount
    BY <1>0, <1>1 DEF JobsInv, JobId
  <2>2. \A i \in JobId : sims'[i].phase = "none" => sims'[i] = NewSimulator
    BY <1>0, <1>2 DEF JobsInv
  <2>3. \A i \in JobId : i > conncount' => sims'[i].phase = "none"
    BY <1>0, <1>1, <1>2, <2>1 DEF JobsInv
  <2>4. \A i \in JobId : i \in DOMAIN simulation_jobs' <=> i <= conncount' /\ sims'[i].phase # "ended"
    <3>1. ASSUME NEW i \in JobId
          PROVE  i \in DOMAIN simulation_jobs' <=> i <= conncount' /\ sims'[i].phase # "ended"
      <4>1. CASE i = j
        BY <1>1, <1>2, <4>1
      <4>2. CASE i \in next
        <5>1. i \in DOMAIN simulation_jobs
          BY <1>0, <1>1, <4>2 DEF JobsInv
        <5>2. QED  BY <1>1, <1>2, <4>2, <5>1
      <4>3. CASE i # j /\ i \notin next
        BY <1>0, <1>1, <1>2, <4>3 DEF JobsInv
      <4>4. QED  BY <4>1, <4>2, <4>3
    <3>2. QED  BY <3>1
  <2>5. QED  BY <2>2, <2>3, <2>4
<1>4. j \in Occupying /\ \A i \in next : i \notin Occupying
  BY <1>1 DEF Occupying, Phase
<1>5. Occupying' = (Occupying \ {j}) \cup next
  BY <1>1, <1>2 DEF Occupying, Phase
<1>6. IsFiniteSet(Occupying) /\ Cardinality(Occupying) \in Nat
  BY PhaseFinite DEF Occupying
<1>7. IsFiniteSet(Occupying \ {j}) /\ Cardinality(Occupying \ {j}) = Cardinality(Occupying) - 1
  BY <1>4, <1>6, FS_RemoveElement
<1>8. max_simjobs \in Nat
  BY DVAssumption
<1>9. CASE q = <<>>
  <2>1. next = {}
    BY <1>9, NextJobsProperty DEF next, q
  <2>2. jobqueue'.current = jobqueue.current - 1 /\ jobqueue'.queue = <<>>
    BY <1>0, <1>1, <1>9 DEF handleJobTermination
  <2>3. jobqueue'.current = Cardinality(Occupying') /\ jobqueue'.current <= max_simjobs
    <3>1. Occupying' = Occupying \ {j}
      BY <1>5, <2>1
    <3>2. QED  BY <1>0, <1>6, <1>7, <1>8, <2>2, <3>1 DEF JobsInv
  <2>4. IsInjective(jobqueue'.queue) /\ DOMAIN jobqueue'.queue = {}
    BY <2>2 DEF IsInjective
  <2>5. QED  BY <1>3, <2>3, <2>4 DEF JobsInv
<1>10. CASE q # <<>>
  <2>1. next = {q[1]} /\ q[1] \in next
    BY <1>10, NextJobsProperty DEF next, q
  <2>2. jobqueue'.current = jobqueue.current /\ jobqueue'.queue = Tail(q)
    BY <1>0, <1>1, <1>10 DEF handleJobTermination
  <2>3. jobqueue'.current = Cardinality(Occupying') /\ jobqueue'.current <= max_simjobs
    <3>1. Occupying' = (Occupying \ {j}) \cup {q[1]} /\ q[1] \notin Occupying \ {j}
      BY <1>4, <1>5, <2>1
    <3>2. Cardinality(Occupying') = Cardinality(Occupying \ {j}) + 1
      BY <1>7, <3>1, FS_AddElement
    <3>3. QED  BY <1>0, <1>6, <1>7, <2>2, <3>2 DEF JobsInv
  <2>4. Len(q) \in Nat /\ DOMAIN q = 1 .. Len(q) /\ Len(q) > 0
        /\ DOMAIN Tail(q) = 1 .. Len(q) - 1
        /\ \A i \in 1 .. Len(q) - 1 : Tail(q)[i] = q[i + 1]
    BY <1>0, <1>10
  <2>5. IsInjective(q) /\ \A i \in DOMAIN q : q[i] <= conncount /\ sims[q[i]].phase = "none" /\ q[i] \in JobId
    BY <1>0 DEF JobsInv, q
  <2>6. \A a, b \in 1 .. Len(q) : q[a] = q[b] => a = b
    BY <2>4, <2>5 DEF IsInjective
  <2>7. IsInjective(Tail(q))
    BY <2>4, <2>6 DEF IsInjective
  <2>8. \A i \in DOMAIN Tail(q) : Tail(q)[i] <= conncount' /\ sims'[Tail(q)[i]].phase = "none"
    <3>1. ASSUME NEW i \in 1 .. Len(q) - 1
          PROVE  q[i + 1] <= conncount' /\ sims'[q[i + 1]].phase = "none"
      <4>1. i + 1 \in 1 .. Len(q) /\ i + 1 # 1 /\ 1 \in 1 .. Len(q)
        BY <2>4
      <4>2. q[i + 1] \notin next
        BY <2>1, <2>6, <4>1
      <4>3. q[i + 1] # j /\ q[i + 1] \in JobId
        BY <1>1, <2>4, <2>5, <4>1
      <4>4. QED  BY <1>1, <1>2, <2>4, <2>5, <4>1, <4>2, <4>3
    <3>2. QED  BY <2>4, <3>1
  <2>9. QED  BY <1>3, <2>2, <2>3, <2>7, <2>8 DEF JobsInv
<1>11. QED  BY <1>9, <1>10

LEMMA JobsInvCrash ==
    ASSUME Base, NEW j \in JobId, CrashEffect(j)
    PROVE  JobsInv'
<1>0. /\ sims \in [JobId -> SimulatorProcess] /\ JobsInv
      /\ \A i \in DOMAIN jobqueue.queue : jobqueue.queue[i] \in JobId
  BY TypedFields DEF Base
<1>1. /\ sims[j].phase = "running" /\ j \in DOMAIN simulation_jobs
      /\ UNCHANGED <<conncount, simulation_jobs, jobqueue, cache, cl>>
      /\ sims' = [sims EXCEPT ![j] = [sims[j] EXCEPT !.phase = "crashed"]]
  BY DEF CrashEffect
<1>2. sims'[j].phase = "crashed" /\ \A i \in JobId : i # j => sims'[i] = sims[i]
  BY <1>0, <1>1 DEF SimulatorProcess
<1>3. Occupying' = Occupying
  BY <1>1, <1>2 DEF Occupying, Phase
<1>4. \A i \in DOMAIN jobqueue.queue :
         jobqueue.queue[i] <= conncount /\ sims'[jobqueue.queue[i]].phase = "none"
  BY <1>0, <1>1, <1>2 DEF JobsInv
<1>5. IsInjective(jobqueue.queue) /\ jobqueue.current = Cardinality(Occupying)
      /\ jobqueue.current <= max_simjobs
  BY <1>0 DEF JobsInv
<1>6. /\ \A i \in JobId : sims'[i].phase = "none" => sims'[i] = NewSimulator
      /\ \A i \in JobId : i > conncount => sims'[i].phase = "none"
      /\ \A i \in JobId : i \in DOMAIN simulation_jobs <=> i <= conncount /\ sims'[i].phase # "ended"
  BY <1>0, <1>1, <1>2 DEF JobsInv
<1>7. QED  BY <1>1, <1>3, <1>4, <1>5, <1>6 DEF JobsInv

-----------------------------------------------------------------------------
\* The structure of the cache.

(* A handler that changes one descriptor of a known file, and keeps it     *)
(* available if it was, keeps the structure.                               *)
LEMMA DescriptorStep ==
    ASSUME Base, NEW f \in File, NEW d,
           cache'.lru = cache.lru, cache'.fd = [cache.fd EXCEPT ![f] = d],
           cache'.waiting = cache.waiting \/ (~Known(cache, f) /\ cache'.waiting = cache.waiting \cup {f}),
           Known(cache', f) \/ d = NoDescriptor,
           cache.fd[f].file_available => d.file_available,
           \A g \in Cached(cache) : cache'.disk[g] # "absent"
    PROVE  CacheInv'
<1>0. cache.fd \in [File -> Descriptor] /\ Cached(cache) \in SUBSET File
      /\ CacheInv
  BY TypedFields DEF Base
<1>1. Cached(cache') = Cached(cache) /\ IsInjective(cache'.lru)
  BY <1>0 DEF Cached, CacheInv
<1>2. \A g \in File : g # f => cache'.fd[g] = cache.fd[g]
  BY <1>0
<1>3. cache'.fd[f] = d
  BY <1>0
<1>4. Cached(cache') \cap cache'.waiting = {}
  BY <1>0, <1>1 DEF CacheInv, Known
<1>5. \A g \in Cached(cache') : cache'.fd[g].file_available /\ cache'.disk[g] # "absent"
  BY <1>0, <1>1, <1>2, <1>3 DEF CacheInv
<1>6. \A g \in File : ~Known(cache', g) => cache'.fd[g] = NoDescriptor
  BY <1>0, <1>1, <1>2, <1>3 DEF CacheInv, Known
<1>7. QED  BY <1>1, <1>4, <1>5, <1>6 DEF CacheInv

LEMMA CacheInvOpen ==
    ASSUME Base, NEW c \in Client, NEW f \in File, OpenEffect(c, f)
    PROVE  CacheInv'
<1> DEFINE d == lock(cache.fd[f])
<1>0. cache.fd[f] \in Descriptor
  BY TypedFields DEF Base
<1>1. /\ cache'.lru = cache.lru /\ cache'.disk = cache.disk
      /\ cache'.waiting = IF Known(cache, f) THEN cache.waiting ELSE cache.waiting \cup {f}
      /\ cache'.fd = [cache.fd EXCEPT ![f] = d]
  BY DEF OpenEffect
<1>2. Known(cache', f)
  BY <1>1 DEF Known, Cached
<1>3. d.file_available = cache.fd[f].file_available
  BY <1>0 DEF lock, Descriptor
<1>4. \A g \in Cached(cache) : cache'.disk[g] # "absent"
  BY <1>1 DEF Base, CacheInv
<1> HIDE DEF d
<1>5. QED  BY <1>1, <1>2, <1>3, <1>4, DescriptorStep

LEMMA CacheInvGet ==
    ASSUME Base, NEW c \in Client, GetEffect(c)
    PROVE  CacheInv'
<1>1. CASE UNCHANGED cache
  <2>1. Cached(cache') = Cached(cache) /\ \A g \in File : Known(cache', g) <=> Known(cache, g)
    BY <1>1 DEF Cached, Known
  <2>2. QED  BY <1>1, <2>1 DEF Base, CacheInv
<1>2. CASE ~UNCHANGED cache
  <2> DEFINE f == cl[c].file
             d == appendNotificationSocket(cache.fd[f], c)
  <2>0. f \in File /\ cache.fd[f] \in Descriptor
    BY TypedFields, ClientFields DEF Base
  <2>1. /\ cache'.lru = cache.lru /\ cache'.disk = cache.disk /\ cache'.waiting = cache.waiting
        /\ cache'.fd = [cache.fd EXCEPT ![f] = d] /\ Known(cache, f)
    BY <1>2 DEF GetEffect
  <2>2. Known(cache', f)
    BY <2>1 DEF Known, Cached
  <2>3. d.file_available = cache.fd[f].file_available
    BY <2>0 DEF appendNotificationSocket, Descriptor
  <2>4. \A g \in Cached(cache) : cache'.disk[g] # "absent"
    BY <2>1 DEF Base, CacheInv
  <2> HIDE DEF d, f
  <2>5. QED  BY <2>0, <2>1, <2>2, <2>3, <2>4, DescriptorStep
<1>3. QED  BY <1>1, <1>2

LEMMA CacheInvClose ==
    ASSUME Base, NEW c \in Client, CloseEffect(c)
    PROVE  CacheInv'
<1> DEFINE f == cl[c].file
           d == unlock(cache.fd[f])
<1>0. f \in File /\ cache.fd[f] \in Descriptor
  BY TypedFields, ClientFields DEF Base
<1>1. /\ cache'.lru = cache.lru /\ cache'.disk = cache.disk /\ cache'.waiting = cache.waiting
      /\ cache'.fd = [cache.fd EXCEPT ![f] = d]
  BY DEF CloseEffect
<1>2. Known(cache', f) \/ d = NoDescriptor
  <2>1. ~Known(cache, f) => cache.fd[f] = NoDescriptor
    BY <1>0 DEF Base, CacheInv
  <2>2. unlock(NoDescriptor) = NoDescriptor
    BY DEF unlock, NoDescriptor
  <2>3. Known(cache, f) => Known(cache', f)
    BY <1>1 DEF Known, Cached
  <2>4. QED  BY <2>1, <2>2, <2>3
<1>3. d.file_available = cache.fd[f].file_available
  BY <1>0 DEF unlock, Descriptor
<1>4. \A g \in Cached(cache) : cache'.disk[g] # "absent"
  BY <1>1 DEF Base, CacheInv
<1> HIDE DEF d, f
<1>5. QED  BY <1>0, <1>1, <1>2, <1>3, <1>4, DescriptorStep

LEMMA CacheInvCreate ==
    ASSUME Base, NEW j \in JobId, NEW f \in File, CreateEffect(j, f)
    PROVE  CacheInv'
<1> DEFINE inRange == nrIsInSimulationRange(simulation_jobs[j], Nr[f])
           d == setFileUsedBySimulator(cache.fd[f], TRUE)
<1>0. cache.fd[f] \in Descriptor
  BY TypedFields DEF Base
<1>1. /\ cache'.lru = cache.lru /\ cache'.disk = cache.disk
      /\ cache'.waiting = IF inRange /\ ~Known(cache, f) THEN cache.waiting \cup {f} ELSE cache.waiting
      /\ cache'.fd = IF inRange \/ Known(cache, f) THEN [cache.fd EXCEPT ![f] = d] ELSE cache.fd
  BY DEF CreateEffect
<1>2. \A g \in Cached(cache) : cache'.disk[g] # "absent"
  BY <1>1 DEF Base, CacheInv
<1>3. d.file_available = cache.fd[f].file_available
  BY <1>0 DEF setFileUsedBySimulator, Descriptor
<1> HIDE DEF d, inRange
<1>4. CASE inRange \/ Known(cache, f)
  <2>1. Known(cache', f)
    BY <1>1, <1>4 DEF Known, Cached
  <2>2. QED  BY <1>1, <1>2, <1>3, <1>4, <2>1, DescriptorStep
<1>5. CASE ~(inRange \/ Known(cache, f))
  <2>1. cache'.waiting = cache.waiting /\ cache'.fd = cache.fd
    BY <1>1, <1>5
  <2>2. Cached(cache') = Cached(cache) /\ \A g \in File : Known(cache', g) <=> Known(cache, g)
    BY <1>1, <2>1 DEF Cached, Known
  <2>3. QED  BY <1>1, <2>1, <2>2 DEF Base, CacheInv
<1>6. QED  BY <1>4, <1>5

LEMMA CacheInvTruncate ==
    ASSUME Base, NEW j \in JobId, TruncateEffect(j)
    PROVE  CacheInv'
<1>1. /\ cache'.lru = cache.lru /\ cache'.waiting = cache.waiting /\ cache'.fd = cache.fd
  BY DEF TruncateEffect
<1>2. Cached(cache') = Cached(cache) /\ \A g \in File : Known(cache', g) <=> Known(cache, g)
  BY <1>1 DEF Cached, Known
<1>3. \A g \in Cached(cache) : cache'.disk[g] # "absent"
  <2>1. cache.disk \in [File -> DiskState] /\ Cached(cache) \in SUBSET File
    BY TypedFields DEF Base
  <2>2. \A g \in Cached(cache) : cache.disk[g] # "absent"
    BY DEF Base, CacheInv
  <2>3. PICK f \in sims[j].creating : cache'.disk = IF f \in sims[j].redirected THEN cache.disk
                                                     ELSE [cache.disk EXCEPT ![f] = "partial"]
    BY DEF TruncateEffect
  <2>4. QED  BY <2>1, <2>2, <2>3
<1>4. QED  BY <1>1, <1>2, <1>3 DEF Base, CacheInv

(* Out of range the close keeps the structure as any change of a           *)
(* descriptor does; in range the file moves into the cache, unless it has  *)
(* lost its name, and its victims leave it.                                *)
LEMMA CacheInvFileClose ==
    ASSUME Base, NEW j \in JobId, NEW f \in File, FileCloseEffect(j, f)
    PROVE  CacheInv'
<1>0. /\ cache.fd \in [File -> Descriptor] /\ cache.disk \in [File -> DiskState]
      /\ cache.waiting \in SUBSET File /\ Cached(cache) \in SUBSET File
  BY TypedFields DEF Base
<1>1. DiskAfterClose(j, f) = "absent" <=> cache.disk[f] = "absent"
  BY DiskAfterCloseType
<1>2. ASSUME NEW V, ClosedInRange(j, f, V) PROVE CacheInv'
  <2>1. /\ Known(cache, f) /\ V \subseteq Cached(cache) /\ f \notin V
        /\ IsInjective(cache'.lru)
        /\ Cached(cache') = (Cached(cache) \ V) \cup
                            (IF f \in cache.waiting /\ cache.disk[f] = "absent" THEN {} ELSE {f})
        /\ cache'.waiting = IF cache.disk[f] = "absent" THEN cache.waiting ELSE cache.waiting \ {f}
        /\ cache'.fd = [g \in File |-> IF g = f THEN Closed(cache.fd[f])
                                       ELSE IF g \in V THEN NoDescriptor ELSE cache.fd[g]]
        /\ cache'.disk = [g \in File |-> IF g \in V THEN "absent"
                                         ELSE IF g = f THEN DiskAfterClose(j, f) ELSE cache.disk[g]]
    BY <1>2 DEF ClosedInRange
  <2>2. Closed(cache.fd[f]).file_available
    BY <1>0 DEF Closed, removeAllNotificationSockets, setFileUsedBySimulator, setFileAvailable, Descriptor
  <2>3. CacheInv
    BY DEF Base
  <2>4. f \in Cached(cache) => cache.disk[f] # "absent"
    BY <2>3 DEF CacheInv
  <2>5. Cached(cache') \cap cache'.waiting = {}
    BY <2>1, <2>3, <2>4 DEF CacheInv, Known
  <2>6. \A g \in Cached(cache') : cache'.fd[g].file_available /\ cache'.disk[g] # "absent"
    <3>1. ASSUME NEW g \in Cached(cache')
          PROVE  cache'.fd[g].file_available /\ cache'.disk[g] # "absent"
      <4>1. CASE g = f
        <5>1. cache.disk[f] # "absent"
          BY <2>1, <2>4, <3>1, <4>1 DEF Known
        <5>2. QED  BY <1>1, <2>1, <2>2, <4>1, <5>1
      <4>2. CASE g # f
        <5>1. g \in Cached(cache) /\ g \notin V /\ g \in File
          BY <1>0, <2>1, <3>1, <4>2
        <5>2. cache'.fd[g] = cache.fd[g] /\ cache'.disk[g] = cache.disk[g]
          BY <2>1, <4>2, <5>1
        <5>3. QED  BY <2>3, <5>1, <5>2 DEF CacheInv
      <4>3. QED  BY <4>1, <4>2
    <3>2. QED  BY <3>1
  <2>7. \A g \in File : ~Known(cache', g) => cache'.fd[g] = NoDescriptor
    <3>1. ASSUME NEW g \in File, ~Known(cache', g)
          PROVE  cache'.fd[g] = NoDescriptor
      <4>1. g # f
        BY <2>1, <2>4, <3>1 DEF Known
      <4>2. CASE g \in V
        BY <2>1, <4>1, <4>2
      <4>3. CASE g \notin V
        <5>1. ~Known(cache, g)
          BY <2>1, <3>1, <4>1, <4>3 DEF Known
        <5>2. cache'.fd[g] = cache.fd[g]
          BY <2>1, <4>1, <4>3
        <5>3. QED  BY <2>3, <5>1, <5>2 DEF CacheInv
      <4>4. QED  BY <4>2, <4>3
    <3>2. QED  BY <3>1
  <2>8. QED  BY <2>1, <2>5, <2>6, <2>7 DEF CacheInv
<1>3. CASE ClosedOutOfRange(j, f)
  <2> DEFINE d == setFileUsedBySimulator(cache.fd[f], FALSE)
  <2>1. /\ cache'.lru = cache.lru /\ cache'.waiting = cache.waiting
        /\ cache'.fd = [cache.fd EXCEPT ![f] = d]
        /\ cache'.disk = [cache.disk EXCEPT ![f] = DiskAfterClose(j, f)]
    BY <1>3 DEF ClosedOutOfRange
  <2>2. d.file_available = cache.fd[f].file_available
    BY <1>0 DEF setFileUsedBySimulator, Descriptor
  <2>3. \A g \in Cached(cache) : cache'.disk[g] # "absent"
    <3>1. \A g \in Cached(cache) : cache.disk[g] # "absent"
      BY DEF Base, CacheInv
    <3>2. QED  BY <1>0, <1>1, <2>1, <3>1
  <2>4. Known(cache', f) \/ d = NoDescriptor
    <3>1. ~Known(cache, f) => cache.fd[f] = NoDescriptor
      BY DEF Base, CacheInv
    <3>2. setFileUsedBySimulator(NoDescriptor, FALSE) = NoDescriptor
      BY DEF setFileUsedBySimulator, NoDescriptor
    <3>3. Known(cache, f) => Known(cache', f)
      BY <2>1 DEF Known, Cached
    <3>4. QED  BY <3>1, <3>2, <3>3
  <2> HIDE DEF d
  <2>5. QED  BY <2>1, <2>2, <2>3, <2>4, DescriptorStep
<1>4. QED  BY <1>2, <1>3 DEF FileCloseEffect

-----------------------------------------------------------------------------
\* The structure holds in every state, and each step is one of the effects.

ClientEffect(c) ==
    \/ \E f \in File : OpenEffect(c, f)
    \/ GetEffect(c)
    \/ CloseEffect(c)
    \/ CloseMetaEffect(c)

SimulatorEffect(j) ==
    \/ \E f \in File : \/ CreateEffect(j, f)
                       \/ CreateKilledEffect(j, f)
                       \/ FileCloseEffect(j, f)
    \/ TruncateEffect(j)
    \/ FinalizeEffect(j)
    \/ CrashEffect(j)

NextEffect ==
    \/ \E c \in Client : ClientEffect(c)
    \/ \E j \in JobId : SimulatorEffect(j)

LEMMA SameCache ==
    ASSUME CacheInv, UNCHANGED cache
    PROVE  CacheInv'
<1>1. Cached(cache') = Cached(cache) /\ \A g \in File : Known(cache', g) <=> Known(cache, g)
  BY DEF Cached, Known
<1>2. QED  BY <1>1 DEF CacheInv

LEMMA SameJobs ==
    ASSUME JobsInv, UNCHANGED <<conncount, jobqueue, sims>>,
           DOMAIN simulation_jobs' = DOMAIN simulation_jobs
    PROVE  JobsInv'
<1>1. Occupying' = Occupying
  BY DEF Occupying, Phase
<1>2. QED  BY <1>1 DEF JobsInv

LEMMA InitBase == Init => Base
<1> SUFFICES ASSUME Init PROVE Base
  OBVIOUS
<1>1. /\ conncount = 0 /\ simulation_jobs = <<>> /\ jobqueue = [current |-> 0, queue |-> <<>>]
      /\ cache = [lru |-> <<>>, waiting |-> {}, fd |-> [f \in File |-> NoDescriptor],
                  disk |-> [f \in File |-> "absent"]]
      /\ sims = [j \in JobId |-> NewSimulator]
      /\ cl = [c \in Client |-> [state |-> "idle", file |-> CHOOSE f \in File : TRUE, opens |-> 0]]
  BY DEF Init, EmptyJobQueue
<1>2. MaxJobs \in Nat /\ max_simjobs \in Nat /\ MaxOpens \in Nat /\ (CHOOSE f \in File : TRUE) \in File
  BY DVAssumption
<1>3. NewSimulator \in SimulatorProcess /\ NewSimulator.phase = "none"
  BY DEF NewSimulator, SimulatorProcess
<1>4. sims \in [JobId -> SimulatorProcess] /\ \A j \in JobId : sims[j] = NewSimulator
  BY <1>1, <1>3
<1>5. cl \in [Client -> ClientType]
  <2>1. [state |-> "idle", file |-> CHOOSE f \in File : TRUE, opens |-> 0] \in ClientType
    BY <1>2 DEF ClientType, ClientState
  <2>2. QED  BY <1>1, <2>1
<1>6. cache \in CacheType
  <2>1. NoDescriptor \in Descriptor /\ "absent" \in DiskState
    BY DEF NoDescriptor, Descriptor, DiskState
  <2>2. /\ [f \in File |-> NoDescriptor] \in [File -> Descriptor]
        /\ [f \in File |-> "absent"] \in [File -> DiskState]
    BY <2>1
  <2>3. <<>> \in Seq(File) /\ {} \in SUBSET File
    OBVIOUS
  <2>4. QED  BY <1>1, <2>2, <2>3 DEF CacheType
<1>7. DOMAIN simulation_jobs = {} /\ simulation_jobs \in [{} -> SimJobType]
  BY <1>1
<1>8. jobqueue \in [current : Int, queue : Seq(JobId)] /\ DOMAIN jobqueue.queue = {}
      /\ IsInjective(jobqueue.queue) /\ jobqueue.current = 0
  BY <1>1 DEF IsInjective
<1>9. Typed
  BY <1>1, <1>2, <1>4, <1>5, <1>6, <1>7, <1>8 DEF Typed
<1>10. JobsInv
  <2>1. Occupying = {}
    BY <1>3, <1>4 DEF Occupying, Phase
  <2>2. jobqueue.current = Cardinality(Occupying) /\ jobqueue.current <= max_simjobs
    BY <1>2, <1>8, <2>1, FS_EmptySet
  <2>3. \A j \in JobId : j > conncount /\ ~(j <= conncount)
    BY <1>1 DEF JobId
  <2>4. QED  BY <1>3, <1>4, <1>7, <1>8, <2>2, <2>3 DEF JobsInv
<1>11. CacheInv
  <2>1. cache.lru = <<>> /\ cache.waiting = {} /\ \A f \in File : cache.fd[f] = NoDescriptor
    BY <1>1
  <2>2. Cached(cache) = {} /\ IsInjective(cache.lru)
    BY <2>1 DEF Cached, Range, IsInjective
  <2>3. QED  BY <2>1, <2>2 DEF CacheInv
<1>12. QED  BY <1>9, <1>10, <1>11 DEF Base

LEMMA NextBase ==
    ASSUME Base, Next
    PROVE  NextEffect /\ Base'
<1>0. /\ sims \in [JobId -> SimulatorProcess]
      /\ \A f \in File : Nr[f] \in Nat
  BY TypedFields DEF Base
<1>1. ASSUME NEW c \in Client, NEW f \in File, ClientFileOpen(c, f) PROVE NextEffect /\ Base'
  <2>1. OpenEffect(c, f) /\ Typed'
    BY <1>1, OpenStep
  <2>2. CacheInv'
    BY <2>1, CacheInvOpen
  <2>3. JobsInv'
    <3>1. CASE MissEffect(Nr[f])
      BY <1>0, <2>1, <3>1, JobsInvMiss
    <3>2. CASE ~MissEffect(Nr[f])
      <4>1. UNCHANGED <<conncount, jobqueue, sims>>
        BY <2>1, <3>2 DEF OpenEffect
      <4>2. DOMAIN simulation_jobs' = DOMAIN simulation_jobs
        BY <2>1, <3>2 DEF OpenEffect
      <4>3. QED  BY <4>1, <4>2, SameJobs DEF Base
    <3>3. QED  BY <3>1, <3>2
  <2>4. QED  BY <2>1, <2>2, <2>3 DEF NextEffect, ClientEffect, Base
<1>2. ASSUME NEW c \in Client, ClientVariableGet(c) PROVE NextEffect /\ Base'
  <2>1. GetEffect(c) /\ Typed'
    BY <1>2, GetStep
  <2>2. CacheInv'
    BY <2>1, CacheInvGet
  <2>3. JobsInv'
    BY <2>1, SameJobs DEF Base, GetEffect
  <2>4. QED  BY <2>1, <2>2, <2>3 DEF NextEffect, ClientEffect, Base
<1>3. ASSUME NEW c \in Client, ClientFileClose(c) PROVE NextEffect /\ Base'
  <2>1. CloseEffect(c) /\ Typed'
    BY <1>3, CloseStep
  <2>2. CacheInv'
    BY <2>1, CacheInvClose
  <2>3. JobsInv'
    BY <2>1, SameJobs DEF Base, CloseEffect
  <2>4. QED  BY <2>1, <2>2, <2>3 DEF NextEffect, ClientEffect, Base
<1>4. ASSUME NEW c \in Client, ClientFileCloseMeta(c) PROVE NextEffect /\ Base'
  <2>1. CloseMetaEffect(c) /\ Typed'
    BY <1>4, CloseMetaStep
  <2>2. CacheInv'
    BY <2>1, SameCache DEF Base, CloseMetaEffect
  <2>3. JobsInv'
    BY <2>1, SameJobs DEF Base, CloseMetaEffect
  <2>4. QED  BY <2>1, <2>2, <2>3 DEF NextEffect, ClientEffect, Base
<1>5. ASSUME NEW j \in JobId, NEW f \in File, SimulatorFileCreate(j, f) PROVE NextEffect /\ Base'
  <2>1. CreateEffect(j, f) /\ Typed'
    BY <1>5, CreateStep
  <2>2. CacheInv'
    BY <2>1, CacheInvCreate
  <2> DEFINE sim == created(sims[j], f, NeedsRedirect(cache, f))
  <2>3. /\ sims[j].phase = "running" /\ UNCHANGED <<conncount, jobqueue>>
        /\ DOMAIN simulation_jobs' = DOMAIN simulation_jobs /\ sims' = [sims EXCEPT ![j] = sim]
    BY <2>1 DEF CreateEffect
  <2>4. sim.phase = "running"
    BY <1>0, <2>3 DEF created, SimulatorProcess
  <2> HIDE DEF sim
  <2>5. sims'[j].phase = "running" /\ \A i \in JobId : i # j => sims'[i] = sims[i]
    BY <1>0, <2>3, <2>4
  <2>6. JobsInv'
    BY <2>3, <2>5, PhasesStay
  <2>7. QED  BY <2>1, <2>2, <2>6 DEF NextEffect, SimulatorEffect, Base
<1>6. ASSUME NEW j \in JobId, NEW f \in File, SimulatorFileCreateKilled(j, f) PROVE NextEffect /\ Base'
  <2>1. CreateKilledEffect(j, f) /\ Typed'
    BY <1>6, CreateKilledStep
  <2>2. CacheInv'
    BY <2>1, SameCache DEF Base, CreateKilledEffect
  <2> DEFINE sim == killed(sims[j], f)
  <2>3. /\ sims[j].phase = "running" /\ UNCHANGED <<conncount, jobqueue>>
        /\ DOMAIN simulation_jobs' = DOMAIN simulation_jobs /\ sims' = [sims EXCEPT ![j] = sim]
    BY <2>1 DEF CreateKilledEffect
  <2>4. sim.phase = "running"
    BY <1>0, <2>3 DEF killed, SimulatorProcess
  <2> HIDE DEF sim
  <2>5. sims'[j].phase = "running" /\ \A i \in JobId : i # j => sims'[i] = sims[i]
    BY <1>0, <2>3, <2>4
  <2>6. JobsInv'
    BY <2>3, <2>5, PhasesStay
  <2>7. QED  BY <2>1, <2>2, <2>6 DEF NextEffect, SimulatorEffect, Base
<1>7. ASSUME NEW j \in JobId, NEW f \in File, SimulatorFileClose(j, f) PROVE NextEffect /\ Base'
  <2>1. FileCloseEffect(j, f) /\ Typed'
    BY <1>7, FileCloseStep
  <2>2. CacheInv'
    BY <2>1, CacheInvFileClose
  <2> DEFINE sim == closedBySimulator(sims[j], f)
  <2>3. /\ sims[j].phase = "running" /\ UNCHANGED <<conncount, jobqueue>>
        /\ sims' = [sims EXCEPT ![j] = sim]
    BY <2>1 DEF FileCloseEffect
  <2>4. DOMAIN simulation_jobs' = DOMAIN simulation_jobs
    BY <2>1 DEF FileCloseEffect, ClosedInRange, ClosedOutOfRange
  <2>5. sim.phase = "running"
    BY <1>0, <2>3 DEF closedBySimulator, SimulatorProcess
  <2> HIDE DEF sim
  <2>6. sims'[j].phase = "running" /\ \A i \in JobId : i # j => sims'[i] = sims[i]
    BY <1>0, <2>3, <2>5
  <2>7. JobsInv'
    BY <2>3, <2>4, <2>6, PhasesStay
  <2>8. QED  BY <2>1, <2>2, <2>7 DEF NextEffect, SimulatorEffect, Base
<1>8. ASSUME NEW j \in JobId, SimulatorTruncate(j) PROVE NextEffect /\ Base'
  <2>1. TruncateEffect(j) /\ Typed'
    BY <1>8, TruncateStep
  <2>2. CacheInv'
    BY <2>1, CacheInvTruncate
  <2> DEFINE sim == [sims[j] EXCEPT !.open = @ \cup sims[j].creating, !.creating = {}]
  <2>3. /\ sims[j].phase = "running" /\ UNCHANGED <<conncount, simulation_jobs, jobqueue>>
        /\ sims' = [sims EXCEPT ![j] = sim]
    BY <2>1 DEF TruncateEffect
  <2>4. sim.phase = "running"
    BY <1>0, <2>3 DEF SimulatorProcess
  <2> HIDE DEF sim
  <2>5. sims'[j].phase = "running" /\ \A i \in JobId : i # j => sims'[i] = sims[i]
    BY <1>0, <2>3, <2>4
  <2>6. JobsInv'
    BY <2>3, <2>5, PhasesStay
  <2>7. QED  BY <2>1, <2>2, <2>6 DEF NextEffect, SimulatorEffect, Base
<1>9. ASSUME NEW j \in JobId, SimulatorFinalize(j) PROVE NextEffect /\ Base'
  <2>1. FinalizeEffect(j) /\ Typed'
    BY <1>9, FinalizeStep
  <2>2. CacheInv'
    BY <2>1, SameCache DEF Base, FinalizeEffect
  <2>3. JobsInv'
    BY <2>1, JobsInvFinalize
  <2>4. QED  BY <2>1, <2>2, <2>3 DEF NextEffect, SimulatorEffect, Base
<1>10. ASSUME NEW j \in JobId, SimulatorCrash(j) PROVE NextEffect /\ Base'
  <2>1. CrashEffect(j) /\ Typed'
    BY <1>10, CrashStep
  <2>2. CacheInv'
    BY <2>1, SameCache DEF Base, CrashEffect
  <2>3. JobsInv'
    BY <2>1, JobsInvCrash
  <2>4. QED  BY <2>1, <2>2, <2>3 DEF NextEffect, SimulatorEffect, Base
<1>11. QED
  BY <1>1, <1>2, <1>3, <1>4, <1>5, <1>6, <1>7, <1>8, <1>9, <1>10
  DEF Next, ClientStep, SimulatorStep

LEMMA SameBase ==
    ASSUME Base, UNCHANGED vars
    PROVE  Base'
<1>1. UNCHANGED <<conncount, simulation_jobs, jobqueue, cache, sims, cl>>
  BY DEF vars
<1>2. Typed'
  BY <1>1 DEF Base, Typed
<1>3. QED  BY <1>1, <1>2, SameCache, SameJobs DEF Base

LEMMA Structure == Spec => []Base
<1>1. Init => Base
  BY InitBase
<1>2. Base /\ [Next]_vars => Base'
  BY NextBase, SameBase
<1>3. QED  BY <1>1, <1>2, PTL DEF Spec

(* The handlers keep every member in its type: a job has an entry and a    *)
(* simulator if it has a rank, and never more than max_simjobs slots are   *)
(* taken, whatever clients and simulators do.                              *)
THEOREM TypeCorrect == Spec => []TypeOK
<1>1. Base => TypeOK
  <2> SUFFICES ASSUME Base PROVE TypeOK
    OBVIOUS
  <2>1. jobqueue.current \in 0 .. max_simjobs
    <3>1. Cardinality(Occupying) \in Nat /\ max_simjobs \in Nat
      BY PhaseFinite, DVAssumption DEF Occupying
    <3>2. QED  BY <3>1 DEF Base, JobsInv
  <2>2. cache.disk \in [File -> {"absent", "partial", "complete", "overshoot"}]
    BY TypedFields DEF Base, DiskState
  <2>3. QED  BY <2>1, <2>2 DEF Base, Typed, TypeOK, ClientType
<1>2. QED  BY <1>1, Structure, PTL

-----------------------------------------------------------------------------
\* The job queue.

Running == {j \in JobId : sims[j].phase = "running"}
Crashed == {j \in JobId : sims[j].phase = "crashed"}
Ranks == [i \in 1 .. conncount |-> i]

(* The history of module JobQueue: the ranks in the order they were given. *)
LEMMA RanksProperty ==
    ASSUME Typed
    PROVE  /\ Ranks \in Seq(Nat) /\ Len(Ranks) = conncount
           /\ \A i \in 1 .. conncount : Ranks[i] = i
           /\ conncount' = conncount + 1 => Ranks' = Append(Ranks, conncount + 1)
<1>1. conncount \in Nat
  BY TypedFields
<1>2. Ranks \in Seq(Nat) /\ Len(Ranks) = conncount /\ \A i \in 1 .. conncount : Ranks[i] = i
  <2>1. \A i \in 1 .. conncount : i \in Nat
    BY <1>1
  <2>2. DOMAIN Ranks = 1 .. conncount /\ Ranks \in [1 .. conncount -> Nat]
    BY <2>1 DEF Ranks
  <2>3. Ranks \in Seq(Nat)
    BY <1>1, <2>2
  <2>4. Len(Ranks) = conncount
    BY <1>1, <2>2, <2>3
  <2>5. QED  BY <2>3, <2>4 DEF Ranks
<1>3. ASSUME conncount' = conncount + 1 PROVE Ranks' = Append(Ranks, conncount + 1)
  <2> DEFINE n == conncount + 1
             r == [i \in 1 .. n |-> i]
             a == Append(Ranks, n)
  <2>1. n \in Nat /\ Ranks' = r
    BY <1>1, <1>3 DEF Ranks
  <2>2. r \in Seq(Nat) /\ Len(r) = n
    <3> HIDE DEF n
    <3>1. \A i \in 1 .. n : i \in Nat
      BY <2>1
    <3>2. DOMAIN r = 1 .. n /\ r \in [1 .. n -> Nat]
      BY <3>1
    <3> HIDE DEF r
    <3>3. r \in Seq(Nat)
      BY <2>1, <3>2
    <3>4. QED  BY <2>1, <3>2, <3>3
  <2>3. /\ a \in Seq(Nat) /\ Len(a) = conncount + 1
        /\ a[conncount + 1] = n /\ \A i \in 1 .. conncount : a[i] = Ranks[i]
    BY <1>1, <1>2, <2>1
  <2>4. \A i \in 1 .. n : r[i] = a[i]
    <3>1. ASSUME NEW i \in 1 .. n PROVE r[i] = a[i]
      <4>1. r[i] = i
        OBVIOUS
      <4>2. i \in 1 .. conncount \/ i = conncount + 1
        BY <1>1
      <4> HIDE DEF r, a
      <4>3. QED  BY <1>2, <2>3, <4>1, <4>2
    <3>2. QED  BY <3>1
  <2> HIDE DEF r, a
  <2>5. r = a
    BY <2>2, <2>3, <2>4, SeqEqual DEF n
  <2>6. QED  BY <2>1, <2>5 DEF a
<1>4. QED  BY <1>2, <1>3

(* A step that leaves queue, jobs and phases alone is none of the queue's. *)
LEMMA QueueStays ==
    ASSUME UNCHANGED <<conncount, jobqueue>>, DOMAIN simulation_jobs' = DOMAIN simulation_jobs,
           \A i \in JobId : sims'[i].phase = sims[i].phase
    PROVE  UNCHANGED Queue!vars
<1>1. Running' = Running /\ Crashed' = Crashed
  BY DEF Running, Crashed
<1>2. Ranks' = Ranks
  BY DEF Ranks
<1>3. /\ {j \in JobId : sims'[j].phase = "running"} = {j \in JobId : sims[j].phase = "running"}
      /\ {j \in JobId : sims'[j].phase = "crashed"} = {j \in JobId : sims[j].phase = "crashed"}
      /\ [i \in 1 .. conncount' |-> i] = [i \in 1 .. conncount |-> i]
  BY <1>1, <1>2 DEF Running, Crashed, Ranks
<1>4. QED  BY <1>3 DEF Queue!vars

LEMMA PhaseAfter ==
    ASSUME Base, NEW j \in JobId, NEW s, sims' = [sims EXCEPT ![j] = s], s.phase = sims[j].phase
    PROVE  \A i \in JobId : sims'[i].phase = sims[i].phase
<1>1. sims \in [JobId -> SimulatorProcess]
  BY TypedFields DEF Base
<1>2. sims'[j] = s /\ \A i \in JobId : i # j => sims'[i] = sims[i]
  BY <1>1
<1>3. QED  BY <1>2

LEMMA QueueMiss ==
    ASSUME Base, NEW nr \in Nat, MissEffect(nr)
    PROVE  Queue!Next
<1> DEFINE j == conncount + 1
           S == IF HasFreeSlot(jobqueue, max_simjobs) THEN {j} ELSE {}
<1>0. /\ Typed /\ conncount \in Nat /\ sims \in [JobId -> SimulatorProcess] /\ JobsInv
  BY TypedFields DEF Base
<1>1. /\ conncount' = j /\ j \in JobId
      /\ DOMAIN simulation_jobs' = DOMAIN simulation_jobs \cup {j}
      /\ jobqueue' = enqueue(jobqueue, j, max_simjobs)
      /\ \A i \in JobId :
            sims'[i] = IF i = j /\ HasFreeSlot(jobqueue, max_simjobs)
                       THEN [sims[i] EXCEPT !.phase = "running"] ELSE sims[i]
  BY DEF MissEffect
<1>2. sims[j].phase = "none"
  BY <1>0, <1>1 DEF JobsInv
<1>3. Running' = Running \cup S /\ Crashed' = Crashed
  <2>1. CASE HasFreeSlot(jobqueue, max_simjobs)
    <3>1. sims'[j] = [sims[j] EXCEPT !.phase = "running"] /\ sims[j] \in SimulatorProcess
      BY <1>0, <1>1, <2>1
    <3>2. sims'[j].phase = "running"
      BY <3>1 DEF SimulatorProcess
    <3>3. \A i \in JobId : i # j => sims'[i] = sims[i]
      BY <1>1
    <3>4. S = {j}
      BY <2>1
    <3> HIDE DEF j, S
    <3>5. QED  BY <1>1, <1>2, <3>2, <3>3, <3>4 DEF Running, Crashed
  <2>2. CASE ~HasFreeSlot(jobqueue, max_simjobs)
    <3>1. \A i \in JobId : sims'[i] = sims[i]
      BY <1>1, <2>2
    <3>2. QED  BY <2>2, <3>1 DEF Running, Crashed
  <2>3. QED  BY <2>1, <2>2
<1>4. Ranks' = Append(Ranks, j) /\ j \notin {Ranks[i] : i \in 1 .. Len(Ranks)}
  <2>1. \A i \in 1 .. conncount : i # j
    BY <1>0
  <2> HIDE DEF j
  <2>2. \A i \in 1 .. Len(Ranks) : Ranks[i] # j
    BY <1>0, <2>1, RanksProperty
  <2>3. QED  BY <1>0, <1>1, <2>2, RanksProperty DEF j
<1>5. Queue!HasFreeSlot(jobqueue, max_simjobs) <=> HasFreeSlot(jobqueue, max_simjobs)
  BY DEF HasFreeSlot, Queue!HasFreeSlot
<1>6. \A i \in JobId : Queue!enqueue(jobqueue, i, max_simjobs) = enqueue(jobqueue, i, max_simjobs)
  BY DEF HasFreeSlot, Queue!HasFreeSlot, enqueue, Queue!enqueue
<1>7. PICK k \in JobId : k = j
  BY <1>1
<1>8. Queue!Launch(IF Queue!HasFreeSlot(jobqueue, max_simjobs) THEN {k} ELSE {})
  <2>1. (IF Queue!HasFreeSlot(jobqueue, max_simjobs) THEN {k} ELSE {}) = S
    BY <1>5, <1>7
  <2> HIDE DEF S, j
  <2>2. QED  BY <1>3, <2>1 DEF Queue!Launch, Running, Crashed
<1> HIDE DEF S, j
<1>9. Queue!enqueueJob(k)
  <2>1. k \notin Queue!Enqueued
    BY <1>4, <1>7 DEF Queue!Enqueued, Ranks
  <2>2. /\ DOMAIN simulation_jobs' = DOMAIN simulation_jobs \cup {k} /\ Ranks' = Append(Ranks, k)
        /\ jobqueue' = Queue!enqueue(jobqueue, k, max_simjobs)
    BY <1>1, <1>4, <1>6, <1>7
  <2>3. QED  BY <1>8, <2>1, <2>2 DEF Queue!enqueueJob, Ranks
<1>10. QED  BY <1>9 DEF Queue!Next

LEMMA QueueFinalize ==
    ASSUME Base, NEW j \in JobId, FinalizeEffect(j)
    PROVE  Queue!Next
<1> DEFINE next == NextJobs(jobqueue)
<1>0. /\ Typed /\ sims \in [JobId -> SimulatorProcess]
  BY TypedFields DEF Base
<1>1. /\ sims[j].phase = "running"
      /\ conncount' = conncount /\ jobqueue' = handleJobTermination(jobqueue)
      /\ DOMAIN simulation_jobs' = DOMAIN simulation_jobs \ {j}
      /\ j \notin next
      /\ \A i \in next : sims[i].phase = "none" /\ i <= conncount /\ i \in JobId
      /\ \A i \in JobId :
            sims'[i] = IF i = j THEN [sims[i] EXCEPT !.phase = "ended"]
                       ELSE IF i \in next THEN [sims[i] EXCEPT !.phase = "running"] ELSE sims[i]
  BY DEF FinalizeEffect
<1>2. next = IF jobqueue.queue = <<>> THEN {} ELSE {Head(jobqueue.queue)}
  BY DEF NextJobs
<1> HIDE DEF next
<1>3. sims'[j].phase = "ended"
  <2>1. sims'[j] = [sims[j] EXCEPT !.phase = "ended"] /\ sims[j] \in SimulatorProcess
    BY <1>0, <1>1
  <2>2. QED  BY <2>1 DEF SimulatorProcess
<1>4. ASSUME NEW i \in next PROVE sims'[i].phase = "running"
  <2>1. sims'[i] = [sims[i] EXCEPT !.phase = "running"] /\ sims[i] \in SimulatorProcess
    BY <1>0, <1>1
  <2>2. QED  BY <2>1 DEF SimulatorProcess
<1>5. Running' = (Running \ {j}) \cup next /\ Crashed' = Crashed
  BY <1>1, <1>3, <1>4 DEF Running, Crashed
<1>6. Queue!handleJobTermination(jobqueue) = handleJobTermination(jobqueue)
  BY DEF handleJobTermination, Queue!handleJobTermination
<1>7. Ranks' = Ranks
  BY <1>1 DEF Ranks
<1>8. Queue!removeJob(j)
  BY <1>1, <1>2, <1>5, <1>6, <1>7 DEF Queue!removeJob, Running, Crashed, Ranks
<1>9. QED  BY <1>8 DEF Queue!Next

LEMMA QueueCrash ==
    ASSUME Base, NEW j \in JobId, CrashEffect(j)
    PROVE  Queue!Next
<1>1. /\ sims[j].phase = "running" /\ Cardinality(Crashed) < MaxCrashes
      /\ UNCHANGED <<conncount, simulation_jobs, jobqueue, cache, cl>>
      /\ sims' = [sims EXCEPT ![j] = [sims[j] EXCEPT !.phase = "crashed"]]
  <2>1. Phase({"crashed"}) = Crashed
    BY DEF Phase, Crashed
  <2>2. QED  BY <2>1 DEF CrashEffect
<1>2. sims'[j].phase = "crashed" /\ \A i \in JobId : i # j => sims'[i] = sims[i]
  <2>1. sims \in [JobId -> SimulatorProcess]
    BY TypedFields DEF Base
  <2>2. QED  BY <1>1, <2>1 DEF SimulatorProcess
<1>3. Running' = Running \ {j} /\ Crashed' = Crashed \cup {j}
  BY <1>1, <1>2 DEF Running, Crashed
<1>4. \A S : Queue!Cardinality(S) = Cardinality(S)
  BY DEF Queue!Cardinality, Cardinality
<1>5. Queue!SimulatorCrash(j)
  BY <1>1, <1>3, <1>4 DEF Queue!SimulatorCrash, Running, Crashed
<1>6. QED  BY <1>5 DEF Queue!Next

LEMMA QueueStep ==
    ASSUME Base, Next
    PROVE  Queue!Next \/ UNCHANGED Queue!vars
<1>0. NextEffect /\ sims \in [JobId -> SimulatorProcess] /\ \A f \in File : Nr[f] \in Nat
  BY NextBase, TypedFields DEF Base
<1>1. ASSUME NEW c \in Client, ClientEffect(c) PROVE Queue!Next \/ UNCHANGED Queue!vars
  <2>1. ASSUME NEW f \in File, OpenEffect(c, f) PROVE Queue!Next \/ UNCHANGED Queue!vars
    <3>1. CASE MissEffect(Nr[f])
      BY <1>0, <3>1, QueueMiss
    <3>2. CASE ~MissEffect(Nr[f])
      <4>1. /\ UNCHANGED <<conncount, jobqueue, sims>>
            /\ DOMAIN simulation_jobs' = DOMAIN simulation_jobs
        BY <2>1, <3>2 DEF OpenEffect
      <4>2. QED  BY <4>1, QueueStays
    <3>3. QED  BY <3>1, <3>2
  <2>2. CASE GetEffect(c) \/ CloseEffect(c) \/ CloseMetaEffect(c)
    <3>1. UNCHANGED <<conncount, simulation_jobs, jobqueue, sims>>
      BY <2>2 DEF GetEffect, CloseEffect, CloseMetaEffect
    <3>2. QED  BY <3>1, QueueStays
  <2>3. QED  BY <1>1, <2>1, <2>2 DEF ClientEffect
<1>2. ASSUME NEW j \in JobId, SimulatorEffect(j) PROVE Queue!Next \/ UNCHANGED Queue!vars
  <2>1. ASSUME NEW f \in File, CreateEffect(j, f) PROVE UNCHANGED Queue!vars
    <3> DEFINE sim == created(sims[j], f, NeedsRedirect(cache, f))
    <3>1. /\ UNCHANGED <<conncount, jobqueue>>
          /\ DOMAIN simulation_jobs' = DOMAIN simulation_jobs /\ sims' = [sims EXCEPT ![j] = sim]
      BY <2>1 DEF CreateEffect
    <3>2. sim.phase = sims[j].phase
      BY <1>0 DEF created, SimulatorProcess
    <3> HIDE DEF sim
    <3>3. QED  BY <3>1, <3>2, PhaseAfter, QueueStays
  <2>2. ASSUME NEW f \in File, CreateKilledEffect(j, f) PROVE UNCHANGED Queue!vars
    <3> DEFINE sim == killed(sims[j], f)
    <3>1. /\ UNCHANGED <<conncount, jobqueue>>
          /\ DOMAIN simulation_jobs' = DOMAIN simulation_jobs /\ sims' = [sims EXCEPT ![j] = sim]
      BY <2>2 DEF CreateKilledEffect
    <3>2. sim.phase = sims[j].phase
      BY <1>0 DEF killed, SimulatorProcess
    <3> HIDE DEF sim
    <3>3. QED  BY <3>1, <3>2, PhaseAfter, QueueStays
  <2>3. ASSUME NEW f \in File, FileCloseEffect(j, f) PROVE UNCHANGED Queue!vars
    <3> DEFINE sim == closedBySimulator(sims[j], f)
    <3>1. UNCHANGED <<conncount, jobqueue>> /\ sims' = [sims EXCEPT ![j] = sim]
      BY <2>3 DEF FileCloseEffect
    <3>2. DOMAIN simulation_jobs' = DOMAIN simulation_jobs
      BY <2>3 DEF FileCloseEffect, ClosedInRange, ClosedOutOfRange
    <3>3. sim.phase = sims[j].phase
      BY <1>0 DEF closedBySimulator, SimulatorProcess
    <3> HIDE DEF sim
    <3>4. QED  BY <3>1, <3>2, <3>3, PhaseAfter, QueueStays
  <2>4. ASSUME TruncateEffect(j) PROVE UNCHANGED Queue!vars
    <3> DEFINE sim == [sims[j] EXCEPT !.open = @ \cup sims[j].creating, !.creating = {}]
    <3>1. UNCHANGED <<conncount, simulation_jobs, jobqueue>> /\ sims' = [sims EXCEPT ![j] = sim]
      BY <2>4 DEF TruncateEffect
    <3>2. sim.phase = sims[j].phase
      BY <1>0 DEF SimulatorProcess
    <3> HIDE DEF sim
    <3>3. QED  BY <3>1, <3>2, PhaseAfter, QueueStays
  <2>5. QED
    BY <1>2, <2>1, <2>2, <2>3, <2>4, QueueFinalize, QueueCrash DEF SimulatorEffect
<1>3. QED  BY <1>0, <1>1, <1>2 DEF NextEffect

LEMMA QueueInit == Init => Queue!Init
<1> SUFFICES ASSUME Init PROVE Queue!Init
  OBVIOUS
<1>1. /\ conncount = 0 /\ DOMAIN simulation_jobs = {} /\ jobqueue = EmptyJobQueue
      /\ sims = [j \in JobId |-> NewSimulator]
  BY DEF Init
<1>2. \A j \in JobId : sims[j].phase = "none"
  BY <1>1 DEF NewSimulator
<1>3. Running = {} /\ Crashed = {}
  BY <1>2 DEF Running, Crashed
<1>4. Ranks = <<>>
  BY <1>1 DEF Ranks
<1>5. EmptyJobQueue = Queue!EmptyJobQueue
  BY DEF EmptyJobQueue, Queue!EmptyJobQueue
<1>6. QED  BY <1>1, <1>3, <1>4, <1>5 DEF Queue!Init, Running, Crashed, Ranks

(* The handlers, composed, use the job queue as module JobQueue says, for  *)
(* any number of slots, jobs and crashes: a miss enqueues the new job, a   *)
(* FINALIZE removes its job and starts the next one, a crash loses one,    *)
(* and no other message touches queue or jobs.  What JobProofs shows       *)
(* of the queue therefore holds in the DV.                                 *)
THEOREM QueueImplemented == Spec => ImplementsJobQueue
<1>1. Init => Queue!Init
  BY QueueInit
<1>2. Base /\ [Next]_vars => [Queue!Next]_(Queue!vars)
  <2>1. ASSUME Base, UNCHANGED vars PROVE UNCHANGED Queue!vars
    BY <2>1, QueueStays DEF vars
  <2>2. QED  BY <2>1, QueueStep
<1>3. QED  BY <1>1, <1>2, Structure, PTL DEF Spec, ImplementsJobQueue, Queue!Spec

-----------------------------------------------------------------------------
\* The clients and the descriptors of their files.

Holders(f) == {c \in Client : cl[c].state # "idle" /\ cl[c].file = f}

Opened == {p \in Client \X (1 .. 2) : p[2] <= cl[p[1]].opens}

Makers(f) == {j \in JobId : f \in sims[j].made}

(* The sockets of a file are those of the clients that wait for it, and    *)
(* there are none once it is available.                                    *)
SocketInv ==
    \A f \in File :
        /\ \A c \in Client : c \in cache.fd[f].sockets <=> cl[c].state = "waiting" /\ cl[c].file = f
        /\ cache.fd[f].sockets # {} => f \in cache.waiting /\ ~cache.fd[f].file_available

(* Every client that has a file open holds a lock on it, and as many locks *)
(* are left behind as metadata files were closed without a message.        *)
LockInv ==
    \A f \in File :
        /\ Cardinality(Holders(f)) <= cache.fd[f].lock_count
        /\ cache.fd[f].lock_count <= Cardinality(Opened)
        /\ ~FakeMeta => cache.fd[f].lock_count = Cardinality(Holders(f))

(* A writer is counted once for each file it makes at most.                *)
UsedInv == \A f \in File : cache.fd[f].used <= Cardinality(Makers(f))

ClientInv == SocketInv /\ LockInv /\ UsedInv

LEMMA DescriptorFields ==
    ASSUME NEW d \in Descriptor
    PROVE  /\ d.file_available \in BOOLEAN /\ d.lock_count \in Nat /\ d.used \in Nat
           /\ d.sockets \in SUBSET Client
           /\ LET e == lock(d)
              IN  /\ e.file_available = d.file_available /\ e.lock_count = d.lock_count + 1
                  /\ e.used = d.used /\ e.sockets = d.sockets
           /\ LET e == unlock(d)
              IN  /\ e.file_available = d.file_available
                  /\ e.lock_count = IF d.lock_count > 0 THEN d.lock_count - 1 ELSE d.lock_count
                  /\ e.used = d.used /\ e.sockets = d.sockets
           /\ LET e == setFileUsedBySimulator(d, TRUE)
              IN  /\ e.file_available = d.file_available /\ e.lock_count = d.lock_count
                  /\ e.used = d.used + 1 /\ e.sockets = d.sockets
           /\ LET e == setFileUsedBySimulator(d, FALSE)
              IN  /\ e.file_available = d.file_available /\ e.lock_count = d.lock_count
                  /\ e.used = IF d.used > 0 THEN d.used - 1 ELSE d.used
                  /\ e.sockets = d.sockets
           /\ \A s : LET e == appendNotificationSocket(d, s)
                     IN  /\ e.file_available = d.file_available /\ e.lock_count = d.lock_count
                         /\ e.used = d.used /\ e.sockets = d.sockets \cup {s}
           /\ LET e == Closed(d)
              IN  /\ e.file_available /\ e.lock_count = d.lock_count
                  /\ e.used = IF d.used > 0 THEN d.used - 1 ELSE d.used
                  /\ e.sockets = {}
<1> USE DEF Descriptor
<1>1. /\ d.file_available \in BOOLEAN /\ d.lock_count \in Nat /\ d.used \in Nat
      /\ d.sockets \in SUBSET Client
  OBVIOUS
<1>2. LET e == lock(d)
      IN  /\ e.file_available = d.file_available /\ e.lock_count = d.lock_count + 1
          /\ e.used = d.used /\ e.sockets = d.sockets
  BY DEF lock
<1>3. LET e == unlock(d)
      IN  /\ e.file_available = d.file_available
          /\ e.lock_count = IF d.lock_count > 0 THEN d.lock_count - 1 ELSE d.lock_count
          /\ e.used = d.used /\ e.sockets = d.sockets
  BY DEF unlock
<1>4. LET e == setFileUsedBySimulator(d, TRUE)
      IN  /\ e.file_available = d.file_available /\ e.lock_count = d.lock_count
          /\ e.used = d.used + 1 /\ e.sockets = d.sockets
  BY DEF setFileUsedBySimulator
<1>5. LET e == setFileUsedBySimulator(d, FALSE)
      IN  /\ e.file_available = d.file_available /\ e.lock_count = d.lock_count
          /\ e.used = IF d.used > 0 THEN d.used - 1 ELSE d.used
          /\ e.sockets = d.sockets
  BY DEF setFileUsedBySimulator
<1>6. ASSUME NEW s
      PROVE  LET e == appendNotificationSocket(d, s)
             IN  /\ e.file_available = d.file_available /\ e.lock_count = d.lock_count
                 /\ e.used = d.used /\ e.sockets = d.sockets \cup {s}
  BY DEF appendNotificationSocket
<1>7. LET e == Closed(d)
      IN  /\ e.file_available /\ e.lock_count = d.lock_count
          /\ e.used = IF d.used > 0 THEN d.used - 1 ELSE d.used
          /\ e.sockets = {}
  BY DEF Closed, removeAllNotificationSockets, setFileUsedBySimulator, setFileAvailable
<1>8. QED  BY <1>1, <1>2, <1>3, <1>4, <1>5, <1>6, <1>7

LEMMA ClientSetsFinite ==
    /\ IsFiniteSet(Client) /\ IsFiniteSet(JobId)
    /\ IsFiniteSet(Client \X (1 .. 2))
    /\ Cardinality(Client \X (1 .. 2)) = 2 * Cardinality(Client)
    /\ Cardinality(Client) \in Nat /\ Cardinality(JobId) = MaxJobs
    /\ \A f : IsFiniteSet(Holders(f)) /\ Cardinality(Holders(f)) \in Nat
    /\ IsFiniteSet(Opened) /\ Cardinality(Opened) \in Nat
    /\ \A f : IsFiniteSet(Makers(f)) /\ Cardinality(Makers(f)) \in Nat
<1>1. IsFiniteSet(Client) /\ Cardinality(Client) \in Nat /\ MaxJobs \in Nat
  BY DVAssumption, FS_CardinalityType
<1>2. IsFiniteSet(JobId) /\ Cardinality(JobId) = MaxJobs
  BY <1>1, FS_Interval DEF JobId
<1>3. IsFiniteSet(1 .. 2) /\ Cardinality(1 .. 2) = 2
  <2>1. 1 \in Int /\ 2 \in Int
    OBVIOUS
  <2>2. IsFiniteSet(1 .. 2) /\ Cardinality(1 .. 2) = IF 1 > 2 THEN 0 ELSE 2 - 1 + 1
    BY <2>1, FS_Interval, Zenon
  <2>3. QED  BY <2>2
<1>4. IsFiniteSet(Client \X (1 .. 2)) /\ Cardinality(Client \X (1 .. 2)) = 2 * Cardinality(Client)
  BY <1>1, <1>3, FS_Product
<1>5. ASSUME NEW f PROVE IsFiniteSet(Holders(f)) /\ Cardinality(Holders(f)) \in Nat
  <2>1. Holders(f) \in SUBSET Client
    BY DEF Holders
  <2>2. QED  BY <1>1, <2>1, FS_Subset, FS_CardinalityType
<1>6. IsFiniteSet(Opened) /\ Cardinality(Opened) \in Nat
  <2>1. Opened \in SUBSET (Client \X (1 .. 2))
    BY DEF Opened
  <2>2. QED  BY <1>4, <2>1, FS_Subset, FS_CardinalityType
<1>7. ASSUME NEW f PROVE IsFiniteSet(Makers(f)) /\ Cardinality(Makers(f)) \in Nat
  <2>1. Makers(f) \in SUBSET JobId
    BY DEF Makers
  <2>2. QED  BY <1>2, <2>1, FS_Subset, FS_CardinalityType
<1>8. QED  BY <1>1, <1>2, <1>4, <1>5, <1>6, <1>7

(* One client more, or less, has the file open.                            *)
LEMMA ClientSetSteps ==
    ASSUME NEW f \in File, NEW c \in Client
    PROVE  /\ Holders(f)' = Holders(f) \cup {c} /\ c \notin Holders(f)
                 => Cardinality(Holders(f)') = Cardinality(Holders(f)) + 1
           /\ Holders(f)' = Holders(f) \ {c} /\ c \in Holders(f)
                 => Cardinality(Holders(f)') = Cardinality(Holders(f)) - 1
           /\ c \in Holders(f) => Cardinality(Holders(f)) > 0
<1>1. IsFiniteSet(Holders(f)) /\ Cardinality(Holders(f)) \in Nat
  BY ClientSetsFinite
<1>2. c \notin Holders(f) => Cardinality(Holders(f) \cup {c}) = Cardinality(Holders(f)) + 1
  BY <1>1, FS_AddElement
<1>3. c \in Holders(f) => Cardinality(Holders(f) \ {c}) = Cardinality(Holders(f)) - 1
  BY <1>1, FS_RemoveElement
<1>4. c \in Holders(f) => Cardinality(Holders(f)) > 0
  <2>1. c \in Holders(f) => Holders(f) # {}
    OBVIOUS
  <2>2. QED  BY <1>1, <2>1, FS_EmptySet
<1>5. QED  BY <1>2, <1>3, <1>4

(* The descriptor of f after a step that changes no other.                 *)
LEMMA OneDescriptorChanges ==
    ASSUME Base, NEW f \in File, NEW d, cache'.fd = [cache.fd EXCEPT ![f] = d]
    PROVE  cache'.fd[f] = d /\ \A g \in File : g # f => cache'.fd[g] = cache.fd[g]
<1>1. cache.fd \in [File -> Descriptor]
  BY TypedFields DEF Base
<1>2. QED  BY <1>1

LEMMA OneClientMoves ==
    ASSUME Base, NEW c \in Client, NEW s, NEW f, NEW n,
           cl' = [cl EXCEPT ![c] = [state |-> s, file |-> f, opens |-> n]]
    PROVE  /\ cl'[c].state = s /\ cl'[c].file = f /\ cl'[c].opens = n
           /\ \A x \in Client : x # c => cl'[x] = cl[x]
<1>1. cl \in [Client -> ClientType]
  BY TypedFields DEF Base
<1>2. QED  BY <1>1

LEMMA ClientInvOpen ==
    ASSUME Base, SocketInv, LockInv, NEW c \in Client, NEW f \in File, OpenEffect(c, f)
    PROVE  SocketInv' /\ LockInv'
<1> DEFINE d == lock(cache.fd[f])
           p == <<c, cl[c].opens + 1>>
<1>0. /\ cache.fd \in [File -> Descriptor] /\ cl[c].opens \in 0 .. MaxOpens /\ MaxOpens \in 1 .. 2
      /\ \A x \in Client : cl[x].opens \in Nat
  BY TypedFields, ClientFields, DVAssumption DEF Base
<1>1. /\ cl[c].state = "idle" /\ cl[c].opens < MaxOpens
      /\ cache'.waiting = IF Known(cache, f) THEN cache.waiting ELSE cache.waiting \cup {f}
      /\ cache'.fd = [cache.fd EXCEPT ![f] = d]
  BY DEF OpenEffect
<1>2. PICK s \in {"sim", "hit"} :
         cl' = [cl EXCEPT ![c] = [state |-> s, file |-> f, opens |-> cl[c].opens + 1]]
  BY DEF OpenEffect
<1>3. /\ cl'[c].state = s /\ cl'[c].file = f /\ cl'[c].opens = cl[c].opens + 1
      /\ \A x \in Client : x # c => cl'[x] = cl[x]
  BY <1>2, OneClientMoves
<1>4. /\ d.lock_count = cache.fd[f].lock_count + 1 /\ d.sockets = cache.fd[f].sockets
      /\ d.file_available = cache.fd[f].file_available
  BY <1>0, DescriptorFields
<1> HIDE DEF d
<1>5. cache'.fd[f] = d /\ \A g \in File : g # f => cache'.fd[g] = cache.fd[g]
  BY <1>1, OneDescriptorChanges
<1>6. SocketInv'
  <2>1. ASSUME NEW g \in File
        PROVE  /\ \A x \in Client :
                     x \in cache'.fd[g].sockets <=> cl'[x].state = "waiting" /\ cl'[x].file = g
               /\ cache'.fd[g].sockets # {} => g \in cache'.waiting /\ ~cache'.fd[g].file_available
    <3>1. /\ cache'.fd[g].sockets = cache.fd[g].sockets
          /\ cache'.fd[g].file_available = cache.fd[g].file_available
      BY <1>4, <1>5
    <3>2. \A x \in Client : cl'[x].state = "waiting" /\ cl'[x].file = g
                            <=> cl[x].state = "waiting" /\ cl[x].file = g
      BY <1>1, <1>3
    <3>3. QED  BY <1>1, <3>1, <3>2 DEF SocketInv
  <2>2. QED  BY <2>1 DEF SocketInv
<1>7. LockInv'
  <2>1. Cardinality(Opened)' = Cardinality(Opened) + 1
    <3>1. Opened' = Opened \cup {p} /\ p \notin Opened
      <4>1. p \in Client \X (1 .. 2)
        BY <1>0, <1>1
      <4>2. ASSUME NEW q \in Client \X (1 .. 2)
            PROVE  q[2] <= cl'[q[1]].opens <=> q[2] <= cl[q[1]].opens \/ q = p
        <5>1. CASE q[1] = c
          <6>1. q = <<c, q[2]>> /\ q[2] \in Int
            BY <5>1
          <6>2. q[2] <= cl[c].opens + 1 <=> q[2] <= cl[c].opens \/ q[2] = cl[c].opens + 1
            BY <1>0, <6>1
          <6>3. q = p <=> q[2] = cl[c].opens + 1
            BY <6>1
          <6>4. QED  BY <1>3, <5>1, <6>2, <6>3
        <5>2. CASE q[1] # c
          BY <1>3, <5>2
        <5>3. QED  BY <5>1, <5>2
      <4>3. ~(p[2] <= cl[p[1]].opens)
        BY <1>0
      <4> HIDE DEF p
      <4>4. QED  BY <4>1, <4>2, <4>3 DEF Opened
    <3> HIDE DEF p
    <3>2. QED  BY <3>1, ClientSetsFinite, FS_AddElement
  <2>2. ASSUME NEW g \in File
        PROVE  /\ Cardinality(Holders(g)') <= cache'.fd[g].lock_count
               /\ cache'.fd[g].lock_count <= Cardinality(Opened)'
               /\ ~FakeMeta => cache'.fd[g].lock_count = Cardinality(Holders(g)')
    <3>0. /\ Cardinality(Holders(g)) \in Nat /\ cache.fd[g].lock_count \in Nat
          /\ Cardinality(Opened) \in Nat
          /\ Cardinality(Holders(g)) <= cache.fd[g].lock_count
          /\ cache.fd[g].lock_count <= Cardinality(Opened)
          /\ ~FakeMeta => cache.fd[g].lock_count = Cardinality(Holders(g))
      BY <1>0, ClientSetsFinite, DescriptorFields DEF LockInv
    <3>1. CASE g = f
      <4>1. Holders(f)' = Holders(f) \cup {c} /\ c \notin Holders(f)
        BY <1>1, <1>3 DEF Holders
      <4>2. Cardinality(Holders(f)') = Cardinality(Holders(f)) + 1
        BY <4>1, ClientSetSteps
      <4>3. cache'.fd[g].lock_count = cache.fd[g].lock_count + 1
        BY <1>4, <1>5, <3>1
      <4>4. QED  BY <2>1, <3>0, <3>1, <4>2, <4>3
    <3>2. CASE g # f
      <4>1. Holders(g)' = Holders(g)
        BY <1>1, <1>3, <3>2 DEF Holders
      <4>2. cache'.fd[g] = cache.fd[g]
        BY <1>5, <3>2
      <4>3. QED  BY <2>1, <3>0, <4>1, <4>2
    <3>3. QED  BY <3>1, <3>2
  <2>3. QED  BY <2>2 DEF LockInv
<1>8. QED  BY <1>6, <1>7

LEMMA ClientInvGet ==
    ASSUME Base, SocketInv, LockInv, NEW c \in Client, GetEffect(c)
    PROVE  SocketInv' /\ LockInv'
<1> PICK f \in File : f = cl[c].file
  BY ClientFields DEF Base
<1> DEFINE d == appendNotificationSocket(cache.fd[f], c)
<1>0. cache.fd \in [File -> Descriptor] /\ f = cl[c].file /\ cl[c].state = "sim" /\ Known(cache, f)
  BY TypedFields, ClientFields DEF Base, GetEffect
<1>1. PICK s \in {"reading", "waiting"} :
         /\ cl' = [cl EXCEPT ![c] = [state |-> s, file |-> f, opens |-> cl[c].opens]]
         /\ s = "reading" => cache' = cache
         /\ s = "waiting" => /\ ~cache.fd[f].file_available /\ cache'.waiting = cache.waiting
                             /\ cache'.fd = [cache.fd EXCEPT ![f] = d]
  BY <1>0 DEF GetEffect
<1>2. /\ cl'[c].state = s /\ cl'[c].file = f /\ cl'[c].opens = cl[c].opens
      /\ \A x \in Client : x # c => cl'[x] = cl[x]
  <2>1. cl' = [cl EXCEPT ![c] = [state |-> s, file |-> f, opens |-> cl[c].opens]]
    BY <1>1
  <2>2. QED  BY <2>1, OneClientMoves, Zenon
<1>3. Opened' = Opened /\ \A g \in File : Holders(g)' = Holders(g)
  <2>1. \A x \in Client : /\ cl'[x].opens = cl[x].opens /\ cl'[x].file = cl[x].file
                          /\ cl'[x].state = "idle" <=> cl[x].state = "idle"
    BY <1>0, <1>2
  <2>2. QED  BY <2>1 DEF Opened, Holders
<1>4. /\ d.lock_count = cache.fd[f].lock_count /\ d.sockets = cache.fd[f].sockets \cup {c}
      /\ d.file_available = cache.fd[f].file_available
  <2>1. cache.fd[f] \in Descriptor
    BY <1>0
  <2>2. QED  BY <2>1 DEF Descriptor, appendNotificationSocket
<1> HIDE DEF d
<1>5. CASE s = "reading"
  <2>1. ASSUME NEW g \in File
        PROVE  \A x \in Client : cl'[x].state = "waiting" /\ cl'[x].file = g
                                 <=> cl[x].state = "waiting" /\ cl[x].file = g
    BY <1>0, <1>2, <1>5
  <2>2. SocketInv'
    BY <1>1, <1>5, <2>1 DEF SocketInv
  <2>3. LockInv'
    BY <1>1, <1>3, <1>5 DEF LockInv
  <2>4. QED  BY <2>2, <2>3
<1>6. CASE s = "waiting"
  <2>1. cache'.fd[f] = d /\ \A g \in File : g # f => cache'.fd[g] = cache.fd[g]
    BY <1>0, <1>1, <1>6, OneDescriptorChanges
  <2>2. f \in cache.waiting
    BY <1>0, <1>1, <1>6 DEF Base, CacheInv, Known
  <2>3. SocketInv'
    <3>1. ASSUME NEW g \in File
          PROVE  /\ \A x \in Client :
                       x \in cache'.fd[g].sockets <=> cl'[x].state = "waiting" /\ cl'[x].file = g
                 /\ cache'.fd[g].sockets # {} => g \in cache'.waiting /\ ~cache'.fd[g].file_available
      <4>1. CASE g = f
        <5>1. cache'.fd[g].sockets = cache.fd[f].sockets \cup {c}
          BY <1>4, <2>1, <4>1
        <5>2. \A x \in Client : x \in cache.fd[f].sockets <=> cl[x].state = "waiting" /\ cl[x].file = f
          BY <1>0 DEF SocketInv
        <5>3. \A x \in Client : x \in cache'.fd[g].sockets <=> cl'[x].state = "waiting" /\ cl'[x].file = g
          BY <1>2, <1>6, <4>1, <5>1, <5>2
        <5>4. QED  BY <1>1, <1>4, <1>6, <2>1, <2>2, <4>1, <5>3
      <4>2. CASE g # f
        <5>1. \A x \in Client : cl'[x].state = "waiting" /\ cl'[x].file = g
                                <=> cl[x].state = "waiting" /\ cl[x].file = g
          BY <1>0, <1>2, <4>2
        <5>2. QED  BY <1>1, <1>6, <2>1, <4>2, <5>1 DEF SocketInv
      <4>3. QED  BY <4>1, <4>2
    <3>2. QED  BY <3>1 DEF SocketInv
  <2>4. LockInv'
    <3>1. \A g \in File : cache'.fd[g].lock_count = cache.fd[g].lock_count
      BY <1>4, <2>1
    <3>2. QED  BY <1>3, <3>1 DEF LockInv
  <2>5. QED  BY <2>3, <2>4
<1>7. QED  BY <1>5, <1>6

(* A client that closes the file gives up its lock, or leaves it behind.   *)
LEMMA ClientInvLeaves ==
    ASSUME Base, SocketInv, LockInv, NEW c \in Client, CloseEffect(c) \/ CloseMetaEffect(c)
    PROVE  SocketInv' /\ LockInv'
<1> PICK f \in File : f = cl[c].file
  BY ClientFields DEF Base
<1> DEFINE d == unlock(cache.fd[f])
<1>0. /\ cache.fd \in [File -> Descriptor] /\ f = cl[c].file
      /\ cl[c].state \in {"hit", "reading", "sim"}
  BY TypedFields, ClientFields DEF Base, CloseEffect, CloseMetaEffect
<1>1. /\ cl' = [cl EXCEPT ![c] = [state |-> "idle", file |-> f, opens |-> cl[c].opens]]
      /\ cache'.waiting = cache.waiting
      /\ \/ cache'.fd = [cache.fd EXCEPT ![f] = d]
         \/ FakeMeta /\ cache'.fd = cache.fd
  BY <1>0 DEF CloseEffect, CloseMetaEffect
<1>2. /\ cl'[c].state = "idle" /\ cl'[c].file = f /\ cl'[c].opens = cl[c].opens
      /\ \A x \in Client : x # c => cl'[x] = cl[x]
  <2>1. cl' = [cl EXCEPT ![c] = [state |-> "idle", file |-> f, opens |-> cl[c].opens]]
    BY <1>1
  <2>2. QED  BY <2>1, OneClientMoves, Zenon
<1>3. Opened' = Opened
  <2>1. \A x \in Client : cl'[x].opens = cl[x].opens
    BY <1>2
  <2>2. QED  BY <2>1 DEF Opened
<1>4. /\ d.lock_count = IF cache.fd[f].lock_count > 0 THEN cache.fd[f].lock_count - 1
                        ELSE cache.fd[f].lock_count
      /\ d.sockets = cache.fd[f].sockets
      /\ d.file_available = cache.fd[f].file_available
  BY <1>0, DescriptorFields
<1>5. Holders(f)' = Holders(f) \ {c} /\ c \in Holders(f)
  BY <1>0, <1>2 DEF Holders
<1>6. \A g \in File : g # f => Holders(g)' = Holders(g)
  BY <1>0, <1>2 DEF Holders
<1> HIDE DEF d
<1>7. /\ \A g \in File : g # f => cache'.fd[g] = cache.fd[g]
      /\ cache'.fd[f] = d \/ (FakeMeta /\ cache'.fd[f] = cache.fd[f])
  BY <1>0, <1>1, OneDescriptorChanges
<1>8. SocketInv'
  <2>1. \A g \in File : /\ cache'.fd[g].sockets = cache.fd[g].sockets
                        /\ cache'.fd[g].file_available = cache.fd[g].file_available
    BY <1>4, <1>7
  <2>2. ASSUME NEW g \in File
        PROVE  \A x \in Client : cl'[x].state = "waiting" /\ cl'[x].file = g
                                 <=> cl[x].state = "waiting" /\ cl[x].file = g
    BY <1>0, <1>2
  <2>3. QED  BY <1>1, <2>1, <2>2 DEF SocketInv
<1>9. LockInv'
  <2>1. ASSUME NEW g \in File
        PROVE  /\ Cardinality(Holders(g)') <= cache'.fd[g].lock_count
               /\ cache'.fd[g].lock_count <= Cardinality(Opened)
               /\ ~FakeMeta => cache'.fd[g].lock_count = Cardinality(Holders(g)')
    <3>0. /\ Cardinality(Holders(g)) \in Nat /\ cache.fd[g].lock_count \in Nat
          /\ Cardinality(Opened) \in Nat
          /\ Cardinality(Holders(g)) <= cache.fd[g].lock_count
          /\ cache.fd[g].lock_count <= Cardinality(Opened)
          /\ ~FakeMeta => cache.fd[g].lock_count = Cardinality(Holders(g))
      BY <1>0, ClientSetsFinite, DescriptorFields DEF LockInv
    <3>1. CASE g = f
      <4>1. /\ Cardinality(Holders(f)') = Cardinality(Holders(f)) - 1
            /\ Cardinality(Holders(f)) > 0
        BY <1>0, <1>5, ClientSetSteps
      <4>2. \/ cache'.fd[g].lock_count = cache.fd[g].lock_count - 1
            \/ FakeMeta /\ cache'.fd[g].lock_count = cache.fd[g].lock_count
        BY <1>4, <1>7, <3>0, <3>1, <4>1
      <4>3. QED  BY <3>0, <3>1, <4>1, <4>2
    <3>2. CASE g # f
      BY <1>6, <1>7, <3>0, <3>2
    <3>3. QED  BY <3>1, <3>2
  <2>2. QED  BY <1>3, <2>1 DEF LockInv
<1>10. QED  BY <1>8, <1>9

(* A step of a simulator that notifies nobody.                             *)
LEMMA ClientInvStays ==
    ASSUME Base, SocketInv, LockInv, cl' = cl,
           \A g \in File : /\ cache'.fd[g].lock_count = cache.fd[g].lock_count
                           /\ cache'.fd[g].sockets = cache.fd[g].sockets
                           /\ cache'.fd[g].file_available = cache.fd[g].file_available
                           /\ g \in cache.waiting => g \in cache'.waiting
    PROVE  SocketInv' /\ LockInv'
<1>1. Opened' = Opened /\ \A g \in File : Holders(g)' = Holders(g)
  BY DEF Opened, Holders
<1>2. SocketInv'
  BY DEF SocketInv
<1>3. LockInv'
  BY <1>1 DEF LockInv
<1>4. QED  BY <1>2, <1>3

(* The close of a file in range notifies the clients that wait for it, and *)
(* the files it evicts have neither locks nor sockets.                     *)
LEMMA ClientInvNotify ==
    ASSUME Base, SocketInv, LockInv, NEW j \in JobId, NEW f \in File, NEW V, ClosedInRange(j, f, V)
    PROVE  SocketInv' /\ LockInv'
<1>0. /\ cache.fd \in [File -> Descriptor] /\ Cached(cache) \in SUBSET File
      /\ cl \in [Client -> ClientType]
  BY TypedFields DEF Base
<1>1. /\ V \subseteq Cached(cache) /\ f \notin V
      /\ \A v \in V : Evictable(cache.fd[v])
      /\ cache'.waiting = IF cache.disk[f] = "absent" THEN cache.waiting ELSE cache.waiting \ {f}
      /\ cache'.fd = [g \in File |-> IF g = f THEN Closed(cache.fd[f])
                                     ELSE IF g \in V THEN NoDescriptor ELSE cache.fd[g]]
      /\ cl' = [c \in Client |-> IF c \in cache.fd[f].sockets
                                 THEN [cl[c] EXCEPT !.state = "reading"] ELSE cl[c]]
  BY DEF ClosedInRange
<1>2. ASSUME NEW c \in Client
      PROVE  /\ cl'[c].file = cl[c].file /\ cl'[c].opens = cl[c].opens
             /\ cl'[c].state = "idle" <=> cl[c].state = "idle"
             /\ cl'[c].state = IF cl[c].state = "waiting" /\ cl[c].file = f THEN "reading"
                               ELSE cl[c].state
  <2>1. cl[c] \in ClientType
    BY <1>0
  <2>2. c \in cache.fd[f].sockets <=> cl[c].state = "waiting" /\ cl[c].file = f
    BY DEF SocketInv
  <2>3. CASE c \in cache.fd[f].sockets
    <3>1. cl'[c] = [cl[c] EXCEPT !.state = "reading"]
      BY <1>1, <2>3
    <3>2. cl'[c].file = cl[c].file /\ cl'[c].opens = cl[c].opens /\ cl'[c].state = "reading"
      BY <2>1, <3>1 DEF ClientType
    <3>3. QED  BY <2>2, <2>3, <3>2
  <2>4. CASE c \notin cache.fd[f].sockets
    <3>1. cl'[c] = cl[c]
      BY <1>1, <2>4
    <3>2. QED  BY <2>2, <2>4, <3>1
  <2>5. QED  BY <2>3, <2>4
<1>3. Opened' = Opened /\ \A g \in File : Holders(g)' = Holders(g)
  BY <1>2 DEF Opened, Holders
<1>4. /\ cache'.fd[f].lock_count = cache.fd[f].lock_count /\ cache'.fd[f].sockets = {}
  <2>1. cache'.fd[f] = Closed(cache.fd[f]) /\ cache.fd[f] \in Descriptor
    BY <1>0, <1>1
  <2>2. Closed(cache.fd[f]).lock_count = cache.fd[f].lock_count /\ Closed(cache.fd[f]).sockets = {}
    BY <2>1, DescriptorFields, Zenon
  <2>3. QED  BY <2>1, <2>2
<1>5. ASSUME NEW g \in V
      PROVE  /\ g \in File /\ cache'.fd[g].lock_count = 0 /\ cache.fd[g].lock_count = 0
             /\ cache'.fd[g].sockets = {} /\ cache.fd[g].sockets = {}
  <2>1. cache'.fd[g] = NoDescriptor /\ g \in File /\ Evictable(cache.fd[g])
    BY <1>0, <1>1
  <2>2. cache.fd[g].file_available
    BY <1>1 DEF Base, CacheInv
  <2>3. QED  BY <2>1, <2>2 DEF NoDescriptor, Evictable, SocketInv
<1>6. \A g \in File : g # f /\ g \notin V => cache'.fd[g] = cache.fd[g]
  BY <1>1
<1>7. SocketInv'
  <2>1. ASSUME NEW g \in File
        PROVE  /\ \A x \in Client :
                     x \in cache'.fd[g].sockets <=> cl'[x].state = "waiting" /\ cl'[x].file = g
               /\ cache'.fd[g].sockets # {} => g \in cache'.waiting /\ ~cache'.fd[g].file_available
    <3>1. CASE g = f
      BY <1>2, <1>4, <3>1
    <3>2. CASE g \in V
      <4>1. \A x \in Client : ~(cl[x].state = "waiting" /\ cl[x].file = g)
        BY <1>5, <3>2 DEF SocketInv
      <4>2. QED  BY <1>2, <1>5, <3>2, <4>1
    <3>3. CASE g # f /\ g \notin V
      <4>1. \A x \in Client : cl'[x].state = "waiting" /\ cl'[x].file = g
                              <=> cl[x].state = "waiting" /\ cl[x].file = g
        BY <1>2, <3>3
      <4>2. g \in cache.waiting => g \in cache'.waiting
        BY <1>1, <3>3
      <4>3. QED  BY <1>6, <3>3, <4>1, <4>2 DEF SocketInv
    <3>4. QED  BY <3>1, <3>2, <3>3
  <2>2. QED  BY <2>1 DEF SocketInv
<1>8. LockInv'
  <2>1. \A g \in File : cache'.fd[g].lock_count = cache.fd[g].lock_count
    BY <1>4, <1>5, <1>6
  <2>2. QED  BY <1>3, <2>1 DEF LockInv
<1>9. QED  BY <1>7, <1>8

LEMMA UsedStays ==
    ASSUME Base, UsedInv, \A i \in JobId : sims[i].made \subseteq sims'[i].made,
           \A g \in File : cache'.fd[g].used \in Int /\ cache'.fd[g].used <= cache.fd[g].used
    PROVE  UsedInv'
<1>1. ASSUME NEW g \in File PROVE cache'.fd[g].used <= Cardinality(Makers(g)')
  <2>0. cache.fd[g].used \in Int
    <3>1. cache.fd[g] \in Descriptor
      BY TypedFields DEF Base
    <3>2. QED  BY <3>1 DEF Descriptor
  <2>1. Makers(g) \subseteq Makers(g)'
    BY DEF Makers
  <2>2. Makers(g)' \in SUBSET JobId
    BY DEF Makers
  <2>3. IsFiniteSet(Makers(g)')
    BY <2>2, ClientSetsFinite, FS_Subset
  <2>4. Cardinality(Makers(g)) <= Cardinality(Makers(g)') /\ Cardinality(Makers(g)') \in Nat
    BY <2>1, <2>3, FS_Subset, FS_CardinalityType
  <2>5. Cardinality(Makers(g)) \in Nat /\ cache.fd[g].used <= Cardinality(Makers(g))
    BY ClientSetsFinite DEF UsedInv
  <2>6. QED  BY <2>0, <2>4, <2>5
<1>2. QED  BY <1>1 DEF UsedInv

(* The job that creates a file has not made it before.                     *)
LEMMA MakersGrow ==
    ASSUME Base, NEW j \in JobId, NEW f \in File, CreateEffect(j, f)
    PROVE  /\ sims'[j].made = sims[j].made \cup {f}
           /\ \A i \in JobId : i # j => sims'[i] = sims[i]
           /\ f \notin sims[j].made
           /\ Cardinality(Makers(f)') = Cardinality(Makers(f)) + 1
           /\ Cardinality(Makers(f)) < MaxJobs
           /\ \A g \in File : g # f => Makers(g)' = Makers(g)
<1>0. sims \in [JobId -> SimulatorProcess]
  BY TypedFields DEF Base
<1> DEFINE r == NeedsRedirect(cache, f)
           s == created(sims[j], f, r)
<1>1. sims' = [sims EXCEPT ![j] = s] /\ f \notin sims[j].made
  BY DEF CreateEffect, MayCreate
<1>2. s.made = sims[j].made \cup {f}
  BY <1>0 DEF created, SimulatorProcess
<1> HIDE DEF s, r
<1>3. /\ sims'[j].made = sims[j].made \cup {f}
      /\ \A i \in JobId : i # j => sims'[i] = sims[i]
  BY <1>0, <1>1, <1>2
<1>4. Makers(f)' = Makers(f) \cup {j} /\ j \notin Makers(f)
  BY <1>1, <1>3 DEF Makers
<1>5. Cardinality(Makers(f)') = Cardinality(Makers(f)) + 1
  BY <1>4, ClientSetsFinite, FS_AddElement
<1>6. Cardinality(Makers(f)) < MaxJobs
  <2>1. Makers(f)' \in SUBSET JobId
    BY DEF Makers
  <2>2. Cardinality(Makers(f)') <= Cardinality(JobId)
    BY <2>1, ClientSetsFinite, FS_Subset
  <2>3. QED  BY <1>5, <2>2, ClientSetsFinite, DVAssumption
<1>7. \A g \in File : g # f => Makers(g)' = Makers(g)
  BY <1>3 DEF Makers
<1>8. QED  BY <1>1, <1>3, <1>5, <1>6, <1>7

LEMMA NextClient ==
    ASSUME Base, ClientInv, Next
    PROVE  ClientInv'
<1>0. /\ NextEffect /\ sims \in [JobId -> SimulatorProcess] /\ \A f \in File : Nr[f] \in Nat
      /\ cache.fd \in [File -> Descriptor] /\ SocketInv /\ LockInv /\ UsedInv
      /\ Cached(cache) \in SUBSET File
  BY NextBase, TypedFields DEF Base, ClientInv
<1>1. \A g \in File : /\ cache.fd[g].file_available \in BOOLEAN /\ cache.fd[g].lock_count \in Nat
                      /\ cache.fd[g].used \in Nat
  BY <1>0 DEF Descriptor
<1>2. ASSUME NEW c \in Client, NEW f \in File, OpenEffect(c, f) PROVE ClientInv'
  <2>1. SocketInv' /\ LockInv'
    BY <1>0, <1>2, ClientInvOpen
  <2>2. \A i \in JobId : sims'[i].made = sims[i].made
    <3>1. CASE UNCHANGED sims
      BY <3>1
    <3>2. CASE ~UNCHANGED sims
      <4>1. MissEffect(Nr[f])
        BY <1>2, <3>2 DEF OpenEffect
      <4>2. \A i \in JobId : sims'[i] = [sims[i] EXCEPT !.phase = "running"] \/ sims'[i] = sims[i]
        BY <4>1 DEF MissEffect
      <4>3. \A i \in JobId : [sims[i] EXCEPT !.phase = "running"].made = sims[i].made
        BY <1>0 DEF SimulatorProcess
      <4>4. QED  BY <4>2, <4>3
    <3>3. QED  BY <3>1, <3>2
  <2>3. \A g \in File : cache'.fd[g].used = cache.fd[g].used
    <3> DEFINE d == lock(cache.fd[f])
    <3>1. d.used = cache.fd[f].used
      BY <1>0 DEF lock, Descriptor
    <3>2. cache'.fd = [cache.fd EXCEPT ![f] = d]
      BY <1>2 DEF OpenEffect
    <3> HIDE DEF d
    <3>3. QED  BY <3>1, <3>2, OneDescriptorChanges
  <2>4. UsedInv'
    BY <1>0, <1>1, <2>2, <2>3, UsedStays
  <2>5. QED  BY <2>1, <2>4 DEF ClientInv
<1>3. ASSUME NEW c \in Client, GetEffect(c) \/ CloseEffect(c) \/ CloseMetaEffect(c) PROVE ClientInv'
  <2>1. SocketInv' /\ LockInv'
    BY <1>0, <1>3, ClientInvGet, ClientInvLeaves
  <2>2. sims' = sims
    BY <1>3 DEF GetEffect, CloseEffect, CloseMetaEffect
  <2>3. PICK f \in File : f = cl[c].file
    BY ClientFields DEF Base
  <2> DEFINE a == appendNotificationSocket(cache.fd[f], c)
             u == unlock(cache.fd[f])
  <2>4. a.used = cache.fd[f].used /\ u.used = cache.fd[f].used
    BY <1>0 DEF appendNotificationSocket, unlock, Descriptor
  <2>5. \/ cache' = cache
        \/ cache'.fd = [cache.fd EXCEPT ![f] = a]
        \/ cache'.fd = [cache.fd EXCEPT ![f] = u]
    BY <1>3, <2>3 DEF GetEffect, CloseEffect, CloseMetaEffect
  <2> HIDE DEF a, u
  <2>6. \A g \in File : cache'.fd[g].used = cache.fd[g].used
    BY <2>4, <2>5, OneDescriptorChanges
  <2>7. UsedInv'
    BY <1>0, <1>1, <2>2, <2>6, UsedStays
  <2>8. QED  BY <2>1, <2>7 DEF ClientInv
<1>4. ASSUME NEW j \in JobId, NEW f \in File, CreateEffect(j, f) PROVE ClientInv'
  <2> DEFINE d == setFileUsedBySimulator(cache.fd[f], TRUE)
  <2>1. /\ cl' = cl
        /\ \A g \in File : g \in cache.waiting => g \in cache'.waiting
        /\ cache'.fd = [cache.fd EXCEPT ![f] = d] \/ cache'.fd = cache.fd
    BY <1>4 DEF CreateEffect
  <2>2. /\ d.lock_count = cache.fd[f].lock_count /\ d.sockets = cache.fd[f].sockets
        /\ d.file_available = cache.fd[f].file_available /\ d.used = cache.fd[f].used + 1
    BY <1>0 DEF setFileUsedBySimulator, Descriptor
  <2> HIDE DEF d
  <2>3. \A g \in File : /\ cache'.fd[g].lock_count = cache.fd[g].lock_count
                        /\ cache'.fd[g].sockets = cache.fd[g].sockets
                        /\ cache'.fd[g].file_available = cache.fd[g].file_available
    BY <2>1, <2>2, OneDescriptorChanges
  <2>4. SocketInv' /\ LockInv'
    BY <1>0, <2>1, <2>3, ClientInvStays
  <2>5. ASSUME NEW g \in File PROVE cache'.fd[g].used <= Cardinality(Makers(g)')
    <3>1. /\ Cardinality(Makers(f)') = Cardinality(Makers(f)) + 1
          /\ \A h \in File : h # f => Makers(h)' = Makers(h)
      BY <1>4, MakersGrow
    <3>2. /\ cache.fd[g].used <= Cardinality(Makers(g)) /\ Cardinality(Makers(g)) \in Nat
          /\ cache.fd[g].used \in Nat
      BY <1>0, <1>1, ClientSetsFinite DEF UsedInv
    <3>3. g = f => cache'.fd[g].used <= cache.fd[g].used + 1 /\ cache'.fd[g].used \in Int
      BY <1>1, <2>1, <2>2, OneDescriptorChanges
    <3>4. g # f => cache'.fd[g].used = cache.fd[g].used
      BY <2>1, OneDescriptorChanges
    <3>5. QED  BY <3>1, <3>2, <3>3, <3>4
  <2>6. UsedInv'
    BY <2>5 DEF UsedInv
  <2>7. QED  BY <2>4, <2>6 DEF ClientInv
<1>5. ASSUME NEW j \in JobId, \/ \E f \in File : CreateKilledEffect(j, f)
                              \/ TruncateEffect(j) \/ FinalizeEffect(j) \/ CrashEffect(j)
      PROVE  ClientInv'
  <2>1. cl' = cl /\ cache'.fd = cache.fd /\ cache'.waiting = cache.waiting
    BY <1>5 DEF CreateKilledEffect, TruncateEffect, FinalizeEffect, CrashEffect
  <2>2. SocketInv' /\ LockInv'
    BY <1>0, <2>1, ClientInvStays
  <2>3. \A i \in JobId : sims[i].made \subseteq sims'[i].made
    <3>1. ASSUME NEW f \in File, CreateKilledEffect(j, f) PROVE \A i \in JobId : sims[i].made \subseteq sims'[i].made
      <4> DEFINE s == killed(sims[j], f)
      <4>1. sims' = [sims EXCEPT ![j] = s]
        BY <3>1 DEF CreateKilledEffect
      <4>2. s.made = sims[j].made \cup {f}
        BY <1>0 DEF killed, SimulatorProcess
      <4> HIDE DEF s
      <4>3. QED  BY <1>0, <4>1, <4>2
    <3>2. CASE TruncateEffect(j) \/ CrashEffect(j)
      <4> DEFINE s == [sims[j] EXCEPT !.open = @ \cup sims[j].creating, !.creating = {}]
                 t == [sims[j] EXCEPT !.phase = "crashed"]
      <4>1. sims' = [sims EXCEPT ![j] = s] \/ sims' = [sims EXCEPT ![j] = t]
        BY <3>2 DEF TruncateEffect, CrashEffect
      <4>2. s.made = sims[j].made /\ t.made = sims[j].made
        BY <1>0 DEF SimulatorProcess
      <4> HIDE DEF s, t
      <4>3. QED  BY <1>0, <4>1, <4>2
    <3>3. CASE FinalizeEffect(j)
      <4>1. \A i \in JobId : \/ sims'[i] = [sims[i] EXCEPT !.phase = "running"]
                             \/ sims'[i] = [sims[i] EXCEPT !.phase = "ended"]
                             \/ sims'[i] = sims[i]
        BY <3>3 DEF FinalizeEffect
      <4>2. \A i \in JobId : /\ [sims[i] EXCEPT !.phase = "running"].made = sims[i].made
                             /\ [sims[i] EXCEPT !.phase = "ended"].made = sims[i].made
        BY <1>0 DEF SimulatorProcess
      <4>3. QED  BY <4>1, <4>2
    <3>4. QED  BY <1>5, <3>1, <3>2, <3>3
  <2>4. UsedInv'
    BY <1>0, <1>1, <2>1, <2>3, UsedStays
  <2>5. QED  BY <2>2, <2>4 DEF ClientInv
<1>6. ASSUME NEW j \in JobId, NEW f \in File, FileCloseEffect(j, f) PROVE ClientInv'
  <2>1. \A i \in JobId : sims[i].made = sims'[i].made
    <3> DEFINE s == closedBySimulator(sims[j], f)
    <3>1. sims' = [sims EXCEPT ![j] = s]
      BY <1>6 DEF FileCloseEffect
    <3>2. s.made = sims[j].made
      BY <1>0 DEF closedBySimulator, SimulatorProcess
    <3> HIDE DEF s
    <3>3. QED  BY <1>0, <3>1, <3>2
  <2>2. ASSUME NEW V, ClosedInRange(j, f, V) PROVE ClientInv'
    <3>1. SocketInv' /\ LockInv'
      BY <1>0, <2>2, ClientInvNotify
    <3>2. cache'.fd = [g \in File |-> IF g = f THEN Closed(cache.fd[f])
                                      ELSE IF g \in V THEN NoDescriptor ELSE cache.fd[g]]
      BY <2>2 DEF ClosedInRange
    <3>3. Closed(cache.fd[f]).used = IF cache.fd[f].used > 0 THEN cache.fd[f].used - 1
                                     ELSE cache.fd[f].used
      <4>1. cache.fd[f] \in Descriptor
        BY <1>0
      <4>2. QED  BY <4>1, DescriptorFields, Zenon
    <3>4. ASSUME NEW g \in File
          PROVE  cache'.fd[g].used \in Int /\ cache'.fd[g].used <= cache.fd[g].used
      <4>1. CASE g = f
        <5>1. cache'.fd[g].used = Closed(cache.fd[f]).used
          BY <3>2, <4>1
        <5>2. QED  BY <1>1, <3>3, <4>1, <5>1
      <4>2. CASE g # f /\ g \in V
        <5>1. cache'.fd[g].used = 0
          BY <3>2, <4>2 DEF NoDescriptor
        <5>2. QED  BY <1>1, <5>1
      <4>3. CASE g # f /\ g \notin V
        <5>1. cache'.fd[g] = cache.fd[g]
          BY <3>2, <4>3
        <5>2. QED  BY <1>1, <5>1
      <4>4. QED  BY <4>1, <4>2, <4>3
    <3>5. UsedInv'
      BY <1>0, <2>1, <3>4, UsedStays
    <3>6. QED  BY <3>1, <3>5 DEF ClientInv
  <2>3. CASE ClosedOutOfRange(j, f)
    <3> DEFINE d == setFileUsedBySimulator(cache.fd[f], FALSE)
    <3>1. cl' = cl /\ cache'.waiting = cache.waiting /\ cache'.fd = [cache.fd EXCEPT ![f] = d]
      BY <2>3 DEF ClosedOutOfRange
    <3>2. /\ d.lock_count = cache.fd[f].lock_count /\ d.sockets = cache.fd[f].sockets
          /\ d.file_available = cache.fd[f].file_available
          /\ d.used \in Int /\ d.used <= cache.fd[f].used
      BY <1>0 DEF setFileUsedBySimulator, Descriptor
    <3> HIDE DEF d
    <3>3. \A g \in File : /\ cache'.fd[g].lock_count = cache.fd[g].lock_count
                          /\ cache'.fd[g].sockets = cache.fd[g].sockets
                          /\ cache'.fd[g].file_available = cache.fd[g].file_available
                          /\ cache'.fd[g].used \in Int /\ cache'.fd[g].used <= cache.fd[g].used
      BY <1>1, <3>1, <3>2, OneDescriptorChanges
    <3>4. SocketInv' /\ LockInv'
      BY <1>0, <3>1, <3>3, ClientInvStays
    <3>5. UsedInv'
      BY <1>0, <2>1, <3>3, UsedStays
    <3>6. QED  BY <3>4, <3>5 DEF ClientInv
  <2>4. QED  BY <1>6, <2>2, <2>3 DEF FileCloseEffect
<1>7. QED
  BY <1>0, <1>2, <1>3, <1>4, <1>5, <1>6 DEF NextEffect, ClientEffect, SimulatorEffect

LEMMA InitClient == Init => ClientInv
<1> SUFFICES ASSUME Init PROVE ClientInv
  OBVIOUS
<1>1. /\ cache.fd = [f \in File |-> NoDescriptor]
      /\ \A c \in Client : cl[c].state = "idle" /\ cl[c].opens = 0
  BY DEF Init
<1>2. \A f \in File : /\ cache.fd[f].lock_count = 0 /\ cache.fd[f].used = 0
                      /\ cache.fd[f].sockets = {}
  BY <1>1 DEF NoDescriptor
<1>3. \A f : Holders(f) = {}
  BY <1>1 DEF Holders
<1>4. SocketInv
  BY <1>1, <1>2 DEF SocketInv
<1>5. LockInv
  <2>1. Cardinality({}) = 0
    BY FS_EmptySet
  <2>2. \A f \in File : Cardinality(Holders(f)) = 0 /\ 0 <= Cardinality(Opened)
    BY <1>3, <2>1, ClientSetsFinite
  <2>3. QED  BY <1>2, <2>2 DEF LockInv
<1>6. UsedInv
  BY <1>2, ClientSetsFinite DEF UsedInv
<1>7. QED  BY <1>4, <1>5, <1>6 DEF ClientInv

LEMMA Clients == Spec => []ClientInv
<1>1. Init => ClientInv
  BY InitClient
<1>2. Base /\ ClientInv /\ [Next]_vars => ClientInv'
  <2>1. ASSUME Base, ClientInv, UNCHANGED vars PROVE ClientInv'
    <3>1. UNCHANGED <<cache, sims, cl>>
      BY <2>1 DEF vars
    <3>2. \A f \in File : Holders(f)' = Holders(f) /\ Makers(f)' = Makers(f)
      BY <3>1 DEF Holders, Makers
    <3>3. Opened' = Opened
      BY <3>1 DEF Opened
    <3>4. QED  BY <2>1, <3>1, <3>2, <3>3 DEF ClientInv, SocketInv, LockInv, UsedInv
  <2>2. QED  BY <2>1, NextClient
<1>3. QED  BY <1>1, <1>2, Structure, PTL DEF Spec

(* Every lock of a file is that of a client that has it open or waits for  *)
(* it, and every such client holds one, if no metadata file stands in for  *)
(* the data: whoever opened it, whichever simulator wrote, wrote again or  *)
(* evicted the file in between.                                            *)
THEOREM LocksMatch ==
    ASSUME ~FakeMeta
    PROVE  Spec => []LocksMatchClients
<1>1. ClientInv => LocksMatchClients
  BY DEF ClientInv, LockInv, LocksMatchClients, Holders
<1>2. QED  BY <1>1, Clients, PTL

-----------------------------------------------------------------------------
\* The file cache of the DV, with what the result directory holds reduced to
\* whether it holds the file.

Present(d) == [f \in File |-> IF d[f] = "absent" THEN "absent" ELSE "present"]

Abs(c) == [c EXCEPT !.disk = [f \in File |-> IF c.disk[f] = "absent" THEN "absent" ELSE "present"]]

LEMMA AbsFields ==
    ASSUME NEW c \in CacheType
    PROVE  /\ Abs(c) = [lru |-> c.lru, waiting |-> c.waiting, fd |-> c.fd, disk |-> Present(c.disk)]
           /\ Abs(c).lru = c.lru /\ Abs(c).waiting = c.waiting /\ Abs(c).fd = c.fd
           /\ Abs(c).disk = Present(c.disk)
           /\ Cached(Abs(c)) = Cached(c)
           /\ \A f \in File : Known(Abs(c), f) <=> Known(c, f)
           /\ \A f \in File : Abs(c).disk[f] = "absent" <=> c.disk[f] = "absent"
<1>1. c = [lru |-> c.lru, waiting |-> c.waiting, fd |-> c.fd, disk |-> c.disk]
  BY CacheFields
<1>2. Abs(c) = [lru |-> c.lru, waiting |-> c.waiting, fd |-> c.fd, disk |-> Present(c.disk)]
  BY <1>1 DEF Abs, Present
<1> HIDE DEF Abs
<1>3. /\ Abs(c).lru = c.lru /\ Abs(c).waiting = c.waiting /\ Abs(c).fd = c.fd
      /\ Abs(c).disk = Present(c.disk)
  BY <1>2
<1>4. Cached(Abs(c)) = Cached(c) /\ \A f \in File : Known(Abs(c), f) <=> Known(c, f)
  BY <1>3 DEF Cached, Known
<1>5. \A f \in File : Abs(c).disk[f] = "absent" <=> c.disk[f] = "absent"
  BY <1>3 DEF Present
<1>6. QED  BY <1>2, <1>3, <1>4, <1>5

LEMMA AbsActualPut ==
    ASSUME NEW c \in CacheType, NEW f \in File
    PROVE  \E l, x, y :
              /\ actualPut(c, f, capacity) = [lru |-> l, waiting |-> c.waiting, fd |-> x, disk |-> y]
              /\ actualPut(Abs(c), f, capacity) = [lru |-> l, waiting |-> c.waiting, fd |-> x,
                                                   disk |-> Present(y)]
<1> DEFINE a == Abs(c)
<1>0. /\ a = [lru |-> c.lru, waiting |-> c.waiting, fd |-> c.fd, disk |-> Present(c.disk)]
      /\ c = [lru |-> c.lru, waiting |-> c.waiting, fd |-> c.fd, disk |-> c.disk]
      /\ a.lru = c.lru /\ a.fd = c.fd
      /\ c.lru \in Seq(File) /\ c.disk \in [File -> DiskState]
  BY AbsFields, CacheFields
<1>1. VictimPositions(a) = VictimPositions(c)
  BY <1>0 DEF VictimPositions
<1>2. ASSUME NEW s
      PROVE  /\ [c EXCEPT !.lru = s] = [lru |-> s, waiting |-> c.waiting, fd |-> c.fd, disk |-> c.disk]
             /\ [a EXCEPT !.lru = s] = [lru |-> s, waiting |-> c.waiting, fd |-> c.fd,
                                        disk |-> Present(c.disk)]
  BY <1>0
<1>4. CASE Len(c.lru) < capacity \/ VictimPositions(c) = {}
  <2>1. actualPut(c, f, capacity) = [c EXCEPT !.lru = Append(c.lru, f)]
    BY <1>4 DEF actualPut
  <2>2. actualPut(a, f, capacity) = [a EXCEPT !.lru = Append(c.lru, f)]
    BY <1>0, <1>1, <1>4 DEF actualPut
  <2> DEFINE s == Append(c.lru, f)
  <2> HIDE DEF s
  <2>3. /\ actualPut(c, f, capacity) = [lru |-> s, waiting |-> c.waiting, fd |-> c.fd, disk |-> c.disk]
        /\ actualPut(a, f, capacity) = [lru |-> s, waiting |-> c.waiting, fd |-> c.fd,
                                        disk |-> Present(c.disk)]
    BY <1>2, <2>1, <2>2 DEF s
  <2>4. QED  BY <2>3
<1>5. CASE ~(Len(c.lru) < capacity \/ VictimPositions(c) = {})
  <2> DEFINE i == findVictim_LRU(c)
             v == c.lru[i]
             s == RemoveAt(c.lru, i)
             d == [c.fd EXCEPT ![v] = NoDescriptor]
             e == [c.disk EXCEPT ![v] = "absent"]
             t == Append(s, f)
  <2>1. v \in File
    <3>1. VictimPositions(c) \in SUBSET Nat /\ VictimPositions(c) # {}
      BY <1>5 DEF VictimPositions
    <3>2. i \in VictimPositions(c)
      BY <3>1, MinProperty DEF findVictim_LRU
    <3>3. i \in 1 .. Len(c.lru)
      BY <1>0, <3>2 DEF VictimPositions
    <3>4. QED  BY <1>0, <3>3
  <2>2. findVictim_LRU(a) = i
    BY <1>1 DEF findVictim_LRU
  <2>3. actualPut(c, f, capacity) = [evict(c, i) EXCEPT !.lru = Append(evict(c, i).lru, f)]
    BY <1>5 DEF actualPut
  <2>4. actualPut(a, f, capacity) = [evict(a, i) EXCEPT !.lru = Append(evict(a, i).lru, f)]
    BY <1>0, <1>1, <1>5, <2>2 DEF actualPut
  <2>5. evict(c, i) = [lru |-> s, waiting |-> c.waiting, fd |-> d, disk |-> e]
    <3>1. evict(c, i) = [c EXCEPT !.lru = s, !.fd[v] = NoDescriptor, !.disk[v] = "absent"]
      BY DEF evict
    <3> HIDE DEF s, v
    <3>2. QED  BY <1>0, <3>1
  <2>6. evict(a, i) = [lru |-> s, waiting |-> c.waiting, fd |-> d,
                       disk |-> [Present(c.disk) EXCEPT ![v] = "absent"]]
    <3>1. evict(a, i) = [a EXCEPT !.lru = s, !.fd[v] = NoDescriptor, !.disk[v] = "absent"]
      BY <1>0 DEF evict
    <3> HIDE DEF s, v, a
    <3>2. QED  BY <1>0, <3>1
  <2>7. [Present(c.disk) EXCEPT ![v] = "absent"] = Present(e)
    BY <1>0, <2>1 DEF Present
  <2> HIDE DEF d, e, s, i, v, a
  <2>8. actualPut(c, f, capacity) = [lru |-> t, waiting |-> c.waiting, fd |-> d, disk |-> e]
    BY <2>3, <2>5
  <2>9. actualPut(a, f, capacity) = [lru |-> t, waiting |-> c.waiting, fd |-> d, disk |-> Present(e)]
    <3>1. evict(a, i) = [lru |-> s, waiting |-> c.waiting, fd |-> d, disk |-> Present(e)]
      BY <2>6, <2>7
    <3>2. ASSUME NEW r, NEW q, r = [lru |-> s, waiting |-> c.waiting, fd |-> d, disk |-> q]
          PROVE  [r EXCEPT !.lru = Append(r.lru, f)]
                    = [lru |-> t, waiting |-> c.waiting, fd |-> d, disk |-> q]
      BY <3>2
    <3> HIDE DEF t
    <3>3. QED  BY <2>4, <3>1, <3>2
  <2>10. QED  BY <2>8, <2>9 DEF a
<1>6. QED  BY <1>4, <1>5

LEMMA AbsCompleted ==
    ASSUME NEW c \in CacheType, NEW f \in File
    PROVE  Abs(completed(c, f)) = completed(Abs(c), f)
<1> DEFINE d == setFileUsedBySimulator(setFileAvailable(c.fd[f]), FALSE)
           x == [c EXCEPT !.fd[f] = d]
           y == [Abs(c) EXCEPT !.fd[f] = d]
<1>0. /\ c = [lru |-> c.lru, waiting |-> c.waiting, fd |-> c.fd, disk |-> c.disk]
      /\ Abs(c) = [lru |-> c.lru, waiting |-> c.waiting, fd |-> c.fd, disk |-> Present(c.disk)]
      /\ c.fd \in [File -> Descriptor]
  BY AbsFields, CacheFields
<1>1. d \in Descriptor /\ d.file_available
  <2>1. setFileAvailable(c.fd[f]) \in Descriptor /\ setFileAvailable(c.fd[f]).file_available
    BY <1>0, DescriptorOps DEF setFileAvailable, Descriptor
  <2>2. QED  BY <2>1, DescriptorOps DEF setFileUsedBySimulator, Descriptor
<1>2. /\ completed(c, f) = [refresh(x, f, capacity) EXCEPT
                               !.fd[f] = removeAllNotificationSockets(refresh(x, f, capacity).fd[f])]
      /\ completed(Abs(c), f) = [refresh(y, f, capacity) EXCEPT
                               !.fd[f] = removeAllNotificationSockets(refresh(y, f, capacity).fd[f])]
  BY <1>0 DEF completed
<1> HIDE DEF d
<1>3. x \in CacheType /\ x.fd[f] = d
  BY <1>0, <1>1, SetDescriptor
<1>4. y = Abs(x)
  BY <1>0 DEF Abs, Present
<1> HIDE DEF x, y
<1>5. \E l, w, e, g : /\ refresh(x, f, capacity) = [lru |-> l, waiting |-> w, fd |-> e, disk |-> g]
                      /\ refresh(y, f, capacity) = [lru |-> l, waiting |-> w, fd |-> e, disk |-> Present(g)]
  <2>0. /\ y = [lru |-> x.lru, waiting |-> x.waiting, fd |-> x.fd, disk |-> Present(x.disk)]
        /\ x = [lru |-> x.lru, waiting |-> x.waiting, fd |-> x.fd, disk |-> x.disk]
        /\ Cached(y) = Cached(x) /\ y.lru = x.lru /\ y.waiting = x.waiting /\ y.fd = x.fd
        /\ y.disk[f] = "absent" <=> x.disk[f] = "absent"
    BY <1>3, <1>4, AbsFields, CacheFields
  <2>1. CASE f \in Cached(x) /\ f \notin x.waiting
    <3> DEFINE i == find(x, f)
               l == Append(RemoveAt(x.lru, i), x.lru[i])
    <3>1. find(y, f) = i
      BY <2>0 DEF find
    <3>2. /\ refresh(x, f, capacity) = refreshAt(x, i)
          /\ refresh(y, f, capacity) = refreshAt(y, i)
      BY <1>1, <1>3, <2>0, <2>1, <3>1 DEF refresh
    <3>3. /\ refreshAt(x, i) = [x EXCEPT !.lru = l]
          /\ refreshAt(y, i) = [y EXCEPT !.lru = l]
      BY <2>0 DEF refreshAt
    <3> HIDE DEF l, i
    <3>4. /\ [x EXCEPT !.lru = l] = [lru |-> l, waiting |-> x.waiting, fd |-> x.fd, disk |-> x.disk]
          /\ [y EXCEPT !.lru = l] = [lru |-> l, waiting |-> x.waiting, fd |-> x.fd,
                                     disk |-> Present(x.disk)]
      BY <2>0
    <3>5. /\ refresh(x, f, capacity) = [lru |-> l, waiting |-> x.waiting, fd |-> x.fd, disk |-> x.disk]
          /\ refresh(y, f, capacity) = [lru |-> l, waiting |-> x.waiting, fd |-> x.fd,
                                        disk |-> Present(x.disk)]
      BY <3>2, <3>3, <3>4
    <3>6. QED  BY <3>5
  <2>2. CASE f \notin Cached(x) /\ f \in x.waiting /\ x.disk[f] # "absent"
    <3>1. /\ refresh(x, f, capacity) = [actualPut(x, f, capacity) EXCEPT
                                           !.waiting = actualPut(x, f, capacity).waiting \ {f}]
          /\ refresh(y, f, capacity) = [actualPut(y, f, capacity) EXCEPT
                                           !.waiting = actualPut(y, f, capacity).waiting \ {f}]
      BY <1>1, <1>3, <2>0, <2>2 DEF refresh
    <3>2. PICK l, e, g :
             /\ actualPut(x, f, capacity) = [lru |-> l, waiting |-> x.waiting, fd |-> e, disk |-> g]
             /\ actualPut(y, f, capacity) = [lru |-> l, waiting |-> x.waiting, fd |-> e,
                                             disk |-> Present(g)]
      BY <1>3, <1>4, AbsActualPut
    <3>3. /\ refresh(x, f, capacity) = [lru |-> l, waiting |-> x.waiting \ {f}, fd |-> e, disk |-> g]
          /\ refresh(y, f, capacity) = [lru |-> l, waiting |-> x.waiting \ {f}, fd |-> e,
                                        disk |-> Present(g)]
      BY <3>1, <3>2
    <3>4. QED  BY <3>3
  <2>3. CASE /\ ~(f \in Cached(x) /\ f \notin x.waiting)
             /\ ~(f \notin Cached(x) /\ f \in x.waiting /\ x.disk[f] # "absent")
    <3>1. refresh(x, f, capacity) = x /\ refresh(y, f, capacity) = y
      BY <2>0, <2>3 DEF refresh
    <3>2. QED  BY <2>0, <3>1
  <2>4. QED  BY <2>1, <2>2, <2>3
<1>6. PICK l, w, e, g : /\ refresh(x, f, capacity) = [lru |-> l, waiting |-> w, fd |-> e, disk |-> g]
                        /\ refresh(y, f, capacity) = [lru |-> l, waiting |-> w, fd |-> e,
                                                      disk |-> Present(g)]
  BY <1>5
<1> DEFINE k == [e EXCEPT ![f] = removeAllNotificationSockets(e[f])]
<1>7. /\ completed(c, f) = [lru |-> l, waiting |-> w, fd |-> k, disk |-> g]
      /\ completed(Abs(c), f) = [lru |-> l, waiting |-> w, fd |-> k, disk |-> Present(g)]
  BY <1>2, <1>6 DEF x, y
<1> HIDE DEF k
<1>8. Abs([lru |-> l, waiting |-> w, fd |-> k, disk |-> g])
         = [lru |-> l, waiting |-> w, fd |-> k, disk |-> Present(g)]
  BY DEF Abs, Present
<1>9. QED  BY <1>7, <1>8

(* The operations of the instance are the DV's.                            *)
LEMMA LRUOps ==
    /\ \A c, f : LRU!Known(c, f) <=> Known(c, f)
    /\ LRU!NoDescriptor = NoDescriptor
    /\ \A d : LRU!lock(d) = lock(d)
    /\ \A d : LRU!unlock(d) = unlock(d)
    /\ \A d, u : LRU!setFileUsedBySimulator(d, u) = setFileUsedBySimulator(d, u)
    /\ \A d : LRU!setFileAvailable(d) = setFileAvailable(d)
    /\ \A d, s : LRU!appendNotificationSocket(d, s) = appendNotificationSocket(d, s)
    /\ \A d : LRU!removeAllNotificationSockets(d) = removeAllNotificationSockets(d)
    /\ \A c, f, d : LRU!put(c, f, d, capacity) = put(c, f, d, capacity)
    /\ \A c, f : LRU!refresh(c, f, capacity) = refresh(c, f, capacity)
<1>1. ASSUME NEW c, NEW f PROVE LRU!Known(c, f) <=> Known(c, f)
  BY DEF LRU!Known, LRU!Cached, LRU!Range, Known, Cached, Range
<1>2. /\ LRU!NoDescriptor = NoDescriptor
      /\ \A d : LRU!lock(d) = lock(d) /\ LRU!unlock(d) = unlock(d)
  BY DEF LRU!lock, LRU!unlock, LRU!NoDescriptor, lock, unlock, NoDescriptor
<1>3. ASSUME NEW d, NEW s
      PROVE  /\ LRU!setFileUsedBySimulator(d, s) = setFileUsedBySimulator(d, s)
             /\ LRU!setFileAvailable(d) = setFileAvailable(d)
             /\ LRU!appendNotificationSocket(d, s) = appendNotificationSocket(d, s)
             /\ LRU!removeAllNotificationSockets(d) = removeAllNotificationSockets(d)
  BY DEF LRU!setFileUsedBySimulator, LRU!setFileAvailable, LRU!appendNotificationSocket,
         LRU!removeAllNotificationSockets, setFileUsedBySimulator, setFileAvailable,
         appendNotificationSocket, removeAllNotificationSockets
<1>4. ASSUME NEW c, NEW f PROVE LRU!refresh(c, f, capacity) = refresh(c, f, capacity)
  BY DEF LRU!refresh, LRU!Cached, LRU!Range, LRU!refreshAt, LRU!find, LRU!actualPut,
         LRU!VictimPositions, LRU!Evictable, LRU!isFileUsedBySimulator, LRU!evict,
         LRU!findVictim_LRU, LRU!NoDescriptor, LRU!RemoveAt, LRU!Min,
         refresh, Cached, Range, refreshAt, find, actualPut, VictimPositions, Evictable,
         isFileUsedBySimulator, evict, findVictim_LRU, NoDescriptor, RemoveAt, Min
<1>5. ASSUME NEW c, NEW f, NEW d PROVE LRU!put(c, f, d, capacity) = put(c, f, d, capacity)
  BY DEF LRU!put, LRU!Known, LRU!Cached, LRU!Range, LRU!actualPut,
         LRU!VictimPositions, LRU!Evictable, LRU!isFileUsedBySimulator, LRU!evict,
         LRU!findVictim_LRU, LRU!NoDescriptor, LRU!RemoveAt, LRU!Min,
         put, Known, Cached, Range, actualPut, VictimPositions, Evictable,
         isFileUsedBySimulator, evict, findVictim_LRU, NoDescriptor, RemoveAt, Min
<1>6. QED  BY <1>1, <1>2, <1>3, <1>4, <1>5

(* The actions of the instance, in the terms of this module.               *)
LEMMA LRUActions ==
    ASSUME NEW f \in File, NEW p, NEW q, p = Abs(cache), q = Abs(cache)'
    PROVE  /\ /\ p.fd[f].lock_count < 2 * Cardinality(Client)
              /\ q = IF Known(p, f) THEN [p EXCEPT !.fd[f] = lock(@)]
                     ELSE put(p, f, lock(NoDescriptor), capacity)
              => LRU!ClientFileOpen(f)
           /\ \A s \in Client :
                 /\ Known(p, f) /\ \A g \in File : s \notin p.fd[g].sockets
                 /\ ~p.fd[f].file_available
                 /\ q = [p EXCEPT !.fd[f] = appendNotificationSocket(@, s)]
                 => LRU!ClientVariableGet(f, s)
           /\ Known(p, f) /\ q = [p EXCEPT !.fd[f] = unlock(@)]
              => LRU!ClientFileClose(f)
           /\ /\ p.fd[f].used < MaxJobs
              /\ q = [put(p, f, NoDescriptor, capacity) EXCEPT
                         !.fd[f] = setFileUsedBySimulator(@, TRUE)]
              => LRU!SimulatorFileCreate(f)
           /\ /\ Known(p, f) /\ p.fd[f].used < MaxJobs
              /\ q = [p EXCEPT !.fd[f] = setFileUsedBySimulator(@, TRUE)]
              => LRU!SimulatorFileCreateOutOfRange(f)
           /\ q = [p EXCEPT !.disk[f] = "present"] => LRU!SimulatorTruncate(f)
           /\ Known(p, f) /\ q = completed(p, f) => LRU!SimulatorFileClose(f)
           /\ Known(p, f) /\ q = [p EXCEPT !.fd[f] = setFileUsedBySimulator(@, FALSE)]
              => LRU!SimulatorFileCloseOutOfRange(f)
<1>0. /\ p = [cache EXCEPT !.disk =
                 [g \in File |-> IF cache.disk[g] = "absent" THEN "absent" ELSE "present"]]
      /\ q = [cache' EXCEPT !.disk =
                 [g \in File |-> IF cache'.disk[g] = "absent" THEN "absent" ELSE "present"]]
  BY DEF Abs
<1>1. /\ p.fd[f].lock_count < 2 * Cardinality(Client)
      /\ q = IF Known(p, f) THEN [p EXCEPT !.fd[f] = lock(@)]
             ELSE put(p, f, lock(NoDescriptor), capacity)
      => LRU!ClientFileOpen(f)
  BY <1>0, LRUOps DEF LRU!ClientFileOpen
<1>2. ASSUME NEW s \in Client,
             Known(p, f) /\ \A g \in File : s \notin p.fd[g].sockets,
             ~p.fd[f].file_available,
             q = [p EXCEPT !.fd[f] = appendNotificationSocket(@, s)]
      PROVE  LRU!ClientVariableGet(f, s)
  BY <1>0, <1>2, LRUOps DEF LRU!ClientVariableGet
<1>3. Known(p, f) /\ q = [p EXCEPT !.fd[f] = unlock(@)]
      => LRU!ClientFileClose(f)
  BY <1>0, LRUOps DEF LRU!ClientFileClose
<1>4. /\ p.fd[f].used < MaxJobs
      /\ q = [put(p, f, NoDescriptor, capacity) EXCEPT !.fd[f] = setFileUsedBySimulator(@, TRUE)]
      => LRU!SimulatorFileCreate(f)
  <2>1. LRU!put(p, f, LRU!NoDescriptor, capacity) = put(p, f, NoDescriptor, capacity)
    BY LRUOps
  <2>2. \A d : LRU!setFileUsedBySimulator(d, TRUE) = setFileUsedBySimulator(d, TRUE)
    BY LRUOps
  <2>3. QED  BY <1>0, <2>1, <2>2 DEF LRU!SimulatorFileCreate
<1>5. /\ Known(p, f) /\ p.fd[f].used < MaxJobs
      /\ q = [p EXCEPT !.fd[f] = setFileUsedBySimulator(@, TRUE)]
      => LRU!SimulatorFileCreateOutOfRange(f)
  BY <1>0, LRUOps DEF LRU!SimulatorFileCreateOutOfRange
<1>6. q = [p EXCEPT !.disk[f] = "present"] => LRU!SimulatorTruncate(f)
  BY <1>0 DEF LRU!SimulatorTruncate
<1>7. Known(p, f) /\ q = completed(p, f) => LRU!SimulatorFileClose(f)
  BY <1>0, LRUOps DEF LRU!SimulatorFileClose, completed
<1>8. Known(p, f) /\ q = [p EXCEPT !.fd[f] = setFileUsedBySimulator(@, FALSE)]
      => LRU!SimulatorFileCloseOutOfRange(f)
  BY <1>0, LRUOps DEF LRU!SimulatorFileCloseOutOfRange
<1>9. QED  BY <1>1, <1>2, <1>3, <1>4, <1>5, <1>6, <1>7, <1>8

LEMMA RecordEdits ==
    ASSUME NEW l, NEW w, NEW x, NEW y, NEW f, NEW d, NEW r,
           r = [lru |-> l, waiting |-> w, fd |-> x, disk |-> y]
    PROVE  /\ [r EXCEPT !.fd[f] = d] = [lru |-> l, waiting |-> w, fd |-> [x EXCEPT ![f] = d], disk |-> y]
           /\ [r EXCEPT !.waiting = @ \cup {f}]
                 = [lru |-> l, waiting |-> w \cup {f}, fd |-> x, disk |-> y]
OBVIOUS

(* The cache the instance sees, before and after a step.                   *)
LEMMA AbsStep ==
    ASSUME Typed, Typed'
    PROVE  LET p == Abs(cache)
               q == Abs(cache)'
           IN  /\ p = [lru |-> cache.lru, waiting |-> cache.waiting, fd |-> cache.fd,
                       disk |-> Present(cache.disk)]
               /\ q = [lru |-> cache'.lru, waiting |-> cache'.waiting, fd |-> cache'.fd,
                       disk |-> Present(cache'.disk)]
               /\ p.lru = cache.lru /\ p.waiting = cache.waiting /\ p.fd = cache.fd
               /\ p.disk = Present(cache.disk)
               /\ \A f \in File : Known(p, f) <=> Known(cache, f)
<1>1. cache \in CacheType /\ cache' \in CacheType
  BY DEF Typed
<1>2. Abs(cache') = [lru |-> cache'.lru, waiting |-> cache'.waiting, fd |-> cache'.fd,
                     disk |-> Present(cache'.disk)]
  BY <1>1, AbsFields
<1>3. Abs(cache)' = Abs(cache')
  BY DEF Abs
<1>4. QED  BY <1>1, <1>2, <1>3, AbsFields

LEMMA LRUHandler ==
    ASSUME NEW f \in File, LRU!Handler(f)
    PROVE  LRU!Next
BY DEF LRU!Next

LEMMA LRUOpen ==
    ASSUME Base, Typed', ClientInv, ClientInv', NEW c \in Client, NEW f \in File, OpenEffect(c, f)
    PROVE  LRU!Next
<1> DEFINE d == lock(cache.fd[f])
<1> PICK p, q : /\ p = Abs(cache) /\ q = Abs(cache)'
                /\ p = [lru |-> cache.lru, waiting |-> cache.waiting, fd |-> cache.fd,
                        disk |-> Present(cache.disk)]
                /\ q = [lru |-> cache'.lru, waiting |-> cache'.waiting, fd |-> cache'.fd,
                        disk |-> Present(cache'.disk)]
                /\ p.fd = cache.fd /\ \A g \in File : Known(p, g) <=> Known(cache, g)
  BY AbsStep DEF Base
<1>0. cache.fd[f] \in Descriptor /\ cache.fd \in [File -> Descriptor]
  BY TypedFields DEF Base
<1>1. /\ cache'.lru = cache.lru /\ cache'.disk = cache.disk
      /\ cache'.waiting = IF Known(cache, f) THEN cache.waiting ELSE cache.waiting \cup {f}
      /\ cache'.fd = [cache.fd EXCEPT ![f] = d]
  BY DEF OpenEffect
<1>2. d.lock_count = cache.fd[f].lock_count + 1 /\ cache.fd[f].lock_count \in Nat
  BY <1>0 DEF lock, Descriptor
<1> HIDE DEF d
<1>3. p.fd[f].lock_count < 2 * Cardinality(Client)
  <2>1. cache'.fd[f].lock_count <= Cardinality(Opened')
    BY DEF ClientInv, LockInv
  <2>2. Cardinality(Opened') <= 2 * Cardinality(Client) /\ Cardinality(Opened') \in Nat
    <3>1. Opened' \in SUBSET (Client \X (1 .. 2))
      BY DEF Opened
    <3>2. IsFiniteSet(Opened') /\ Cardinality(Opened') <= Cardinality(Client \X (1 .. 2))
      BY <3>1, ClientSetsFinite, FS_Subset
    <3>3. QED  BY <3>2, ClientSetsFinite, FS_CardinalityType
  <2>3. cache'.fd[f] = d
    BY <1>0, <1>1
  <2>4. QED  BY <1>2, <2>1, <2>2, <2>3, ClientSetsFinite
<1>4. q = IF Known(p, f) THEN [p EXCEPT !.fd[f] = lock(@)]
          ELSE put(p, f, lock(NoDescriptor), capacity)
  <2>1. CASE Known(cache, f)
    <3>1. [p EXCEPT !.fd[f] = lock(@)] = [lru |-> cache.lru, waiting |-> cache.waiting,
                 fd |-> [cache.fd EXCEPT ![f] = d], disk |-> Present(cache.disk)]
      BY DEF d
    <3>2. QED  BY <1>1, <2>1, <3>1
  <2>2. CASE ~Known(cache, f)
    <3>1. cache.fd[f] = NoDescriptor
      BY <2>2 DEF Base, CacheInv
    <3>2. d = lock(NoDescriptor) /\ ~d.file_available
      BY <1>0, <3>1 DEF d, lock, NoDescriptor
    <3>3. put(p, f, d, capacity)
             = [[p EXCEPT !.fd[f] = d] EXCEPT !.waiting = @ \cup {f}]
      BY <2>2, <3>2 DEF put
    <3>4. put(p, f, d, capacity)
             = [lru |-> cache.lru, waiting |-> cache.waiting \cup {f},
                fd |-> [cache.fd EXCEPT ![f] = d], disk |-> Present(cache.disk)]
      <4> DEFINE r == [p EXCEPT !.fd[f] = d]
      <4>1. r = [lru |-> cache.lru, waiting |-> cache.waiting,
                 fd |-> [cache.fd EXCEPT ![f] = d], disk |-> Present(cache.disk)]
        BY RecordEdits
      <4> HIDE DEF r
      <4>2. [r EXCEPT !.waiting = @ \cup {f}]
               = [lru |-> cache.lru, waiting |-> cache.waiting \cup {f},
                  fd |-> [cache.fd EXCEPT ![f] = d], disk |-> Present(cache.disk)]
        BY <4>1, RecordEdits
      <4>3. QED  BY <3>3, <4>2 DEF r
    <3>5. QED  BY <1>1, <2>2, <3>2, <3>4
  <2>3. QED  BY <2>1, <2>2
<1>5. LRU!ClientFileOpen(f)
  BY <1>3, <1>4, LRUActions
<1>6. QED  BY <1>5, LRUHandler DEF LRU!Handler

LEMMA LRUGet ==
    ASSUME Base, Typed', ClientInv, NEW c \in Client, GetEffect(c)
    PROVE  LRU!Next \/ UNCHANGED cache
<1> PICK f \in File : f = cl[c].file
  BY ClientFields DEF Base
<1> DEFINE d == appendNotificationSocket(cache.fd[f], c)
<1> PICK p, q : /\ p = Abs(cache) /\ q = Abs(cache)'
                /\ p = [lru |-> cache.lru, waiting |-> cache.waiting, fd |-> cache.fd,
                        disk |-> Present(cache.disk)]
                /\ q = [lru |-> cache'.lru, waiting |-> cache'.waiting, fd |-> cache'.fd,
                        disk |-> Present(cache'.disk)]
                /\ p.fd = cache.fd /\ \A g \in File : Known(p, g) <=> Known(cache, g)
  BY AbsStep DEF Base
<1> SUFFICES ASSUME ~UNCHANGED cache PROVE LRU!Next
  OBVIOUS
<1>1. /\ cl[c].state = "sim" /\ Known(cache, f) /\ ~cache.fd[f].file_available
      /\ cache'.lru = cache.lru /\ cache'.disk = cache.disk /\ cache'.waiting = cache.waiting
      /\ cache'.fd = [cache.fd EXCEPT ![f] = d]
  BY DEF GetEffect
<1>2. \A g \in File : c \notin p.fd[g].sockets
  BY <1>1 DEF ClientInv, SocketInv
<1>3. [p EXCEPT !.fd[f] = appendNotificationSocket(@, c)]
         = [lru |-> cache.lru, waiting |-> cache.waiting,
            fd |-> [cache.fd EXCEPT ![f] = d], disk |-> Present(cache.disk)]
  OBVIOUS
<1> HIDE DEF d
<1>4. q = [p EXCEPT !.fd[f] = appendNotificationSocket(@, c)]
  BY <1>1, <1>3
<1>5. LRU!ClientVariableGet(f, c)
  <2>1. Known(p, f) /\ ~p.fd[f].file_available
    BY <1>1
  <2>2. QED  BY <1>2, <1>4, <2>1, LRUActions, Zenon
<1>6. QED  BY <1>5, LRUHandler DEF LRU!Handler

LEMMA LRUClose ==
    ASSUME Base, Typed', NEW c \in Client, CloseEffect(c)
    PROVE  LRU!Next \/ UNCHANGED cache
<1> PICK f \in File : f = cl[c].file
  BY ClientFields DEF Base
<1> DEFINE d == unlock(cache.fd[f])
<1> PICK p, q : /\ p = Abs(cache) /\ q = Abs(cache)'
                /\ p = [lru |-> cache.lru, waiting |-> cache.waiting, fd |-> cache.fd,
                        disk |-> Present(cache.disk)]
                /\ q = [lru |-> cache'.lru, waiting |-> cache'.waiting, fd |-> cache'.fd,
                        disk |-> Present(cache'.disk)]
                /\ p.fd = cache.fd /\ \A g \in File : Known(p, g) <=> Known(cache, g)
  BY AbsStep DEF Base
<1>0. cache \in CacheType /\ cache' \in CacheType /\ cache.fd \in [File -> Descriptor] /\ CacheInv
  BY TypedFields DEF Base, Typed
<1>1. /\ cache'.lru = cache.lru /\ cache'.disk = cache.disk /\ cache'.waiting = cache.waiting
      /\ cache'.fd = [cache.fd EXCEPT ![f] = d]
  BY DEF CloseEffect
<1>2. CASE Known(cache, f)
  <2>1. [p EXCEPT !.fd[f] = unlock(@)]
           = [lru |-> cache.lru, waiting |-> cache.waiting,
              fd |-> [cache.fd EXCEPT ![f] = d], disk |-> Present(cache.disk)]
    OBVIOUS
  <2> HIDE DEF d
  <2>2. q = [p EXCEPT !.fd[f] = unlock(@)]
    BY <1>1, <2>1
  <2>3. LRU!ClientFileClose(f)
    BY <1>2, <2>2, LRUActions
  <2>4. QED  BY <2>3, LRUHandler DEF LRU!Handler
<1>3. CASE ~Known(cache, f)
  <2>1. d = cache.fd[f]
    <3>1. cache.fd[f] = NoDescriptor
      BY <1>0, <1>3 DEF CacheInv
    <3>2. QED  BY <3>1 DEF unlock, NoDescriptor
  <2> HIDE DEF d
  <2>2. cache'.fd = cache.fd
    BY <1>0, <1>1, <2>1
  <2>3. cache' = cache
    BY <1>0, <1>1, <2>2, CacheFields
  <2>4. QED  BY <2>3
<1>4. QED  BY <1>2, <1>3

LEMMA LRUCreate ==
    ASSUME Base, Typed', ClientInv, NEW j \in JobId, NEW f \in File, CreateEffect(j, f)
    PROVE  LRU!Next \/ UNCHANGED cache
<1> DEFINE d == setFileUsedBySimulator(cache.fd[f], TRUE)
           inRange == nrIsInSimulationRange(simulation_jobs[j], Nr[f])
<1> PICK p, q : /\ p = Abs(cache) /\ q = Abs(cache)'
                /\ p = [lru |-> cache.lru, waiting |-> cache.waiting, fd |-> cache.fd,
                        disk |-> Present(cache.disk)]
                /\ q = [lru |-> cache'.lru, waiting |-> cache'.waiting, fd |-> cache'.fd,
                        disk |-> Present(cache'.disk)]
                /\ p.fd = cache.fd /\ \A g \in File : Known(p, g) <=> Known(cache, g)
  BY AbsStep DEF Base
<1>0. /\ cache \in CacheType /\ cache' \in CacheType /\ cache.fd \in [File -> Descriptor] /\ CacheInv
      /\ cache.fd[f].used \in Nat
  <2>1. cache \in CacheType /\ cache' \in CacheType /\ cache.fd \in [File -> Descriptor] /\ CacheInv
    BY TypedFields DEF Base, Typed
  <2>2. QED  BY <2>1 DEF Descriptor
<1>1. /\ cache'.lru = cache.lru /\ cache'.disk = cache.disk
      /\ cache'.waiting = IF inRange /\ ~Known(cache, f) THEN cache.waiting \cup {f} ELSE cache.waiting
      /\ cache'.fd = IF inRange \/ Known(cache, f) THEN [cache.fd EXCEPT ![f] = d] ELSE cache.fd
  BY DEF CreateEffect
<1>2. p.fd[f].used < MaxJobs
  <2>1. Cardinality(Makers(f)) < MaxJobs /\ Cardinality(Makers(f)) \in Nat
    BY MakersGrow, ClientSetsFinite
  <2>2. cache.fd[f].used <= Cardinality(Makers(f))
    BY DEF ClientInv, UsedInv
  <2>3. QED  BY <1>0, <2>1, <2>2, DVAssumption
<1>3. [p EXCEPT !.fd[f] = setFileUsedBySimulator(@, TRUE)]
         = [lru |-> cache.lru, waiting |-> cache.waiting,
            fd |-> [cache.fd EXCEPT ![f] = d], disk |-> Present(cache.disk)]
  <2>1. [p EXCEPT !.fd[f] = setFileUsedBySimulator(@, TRUE)] = [p EXCEPT !.fd[f] = d]
    BY Zenon
  <2> HIDE DEF d
  <2>2. QED  BY <2>1, RecordEdits
<1>4. CASE Known(cache, f)
  <2> HIDE DEF d, inRange
  <2>1. q = [p EXCEPT !.fd[f] = setFileUsedBySimulator(@, TRUE)]
    BY <1>1, <1>3, <1>4
  <2>2. LRU!SimulatorFileCreateOutOfRange(f)
    BY <1>2, <1>4, <2>1, LRUActions
  <2>3. QED  BY <2>2, LRUHandler DEF LRU!Handler
<1>5. CASE ~Known(cache, f) /\ inRange
  <2>1. cache.fd[f] = NoDescriptor
    BY <1>0, <1>5 DEF CacheInv
  <2>2. put(p, f, NoDescriptor, capacity)
           = [[p EXCEPT !.fd[f] = NoDescriptor] EXCEPT !.waiting = @ \cup {f}]
    BY <1>5 DEF put, NoDescriptor
  <2>3. [cache.fd EXCEPT ![f] = NoDescriptor] = cache.fd
    BY <1>0, <2>1
  <2>4. put(p, f, NoDescriptor, capacity)
           = [lru |-> cache.lru, waiting |-> cache.waiting \cup {f}, fd |-> cache.fd,
              disk |-> Present(cache.disk)]
    <3> DEFINE r == [p EXCEPT !.fd[f] = NoDescriptor]
    <3>1. r = [lru |-> cache.lru, waiting |-> cache.waiting, fd |-> cache.fd,
               disk |-> Present(cache.disk)]
      BY <2>3, RecordEdits
    <3> HIDE DEF r
    <3>2. [r EXCEPT !.waiting = @ \cup {f}]
             = [lru |-> cache.lru, waiting |-> cache.waiting \cup {f}, fd |-> cache.fd,
                disk |-> Present(cache.disk)]
      BY <3>1, RecordEdits
    <3>3. QED  BY <2>2, <3>2 DEF r
  <2>5. [put(p, f, NoDescriptor, capacity) EXCEPT !.fd[f] = setFileUsedBySimulator(@, TRUE)]
           = [lru |-> cache.lru, waiting |-> cache.waiting \cup {f},
              fd |-> [cache.fd EXCEPT ![f] = d], disk |-> Present(cache.disk)]
    <3> DEFINE r == put(p, f, NoDescriptor, capacity)
    <3>1. r.fd = cache.fd
      BY <2>4
    <3>2. [r EXCEPT !.fd[f] = setFileUsedBySimulator(@, TRUE)] = [r EXCEPT !.fd[f] = d]
      BY <3>1, Zenon
    <3>3. r = [lru |-> cache.lru, waiting |-> cache.waiting \cup {f}, fd |-> cache.fd,
               disk |-> Present(cache.disk)]
      BY <2>4
    <3> HIDE DEF d, r
    <3>4. [r EXCEPT !.fd[f] = d]
             = [lru |-> cache.lru, waiting |-> cache.waiting \cup {f},
                fd |-> [cache.fd EXCEPT ![f] = d], disk |-> Present(cache.disk)]
      BY <3>3, RecordEdits
    <3>5. QED  BY <3>2, <3>4 DEF r
  <2> HIDE DEF d, inRange
  <2>6. q = [put(p, f, NoDescriptor, capacity) EXCEPT !.fd[f] = setFileUsedBySimulator(@, TRUE)]
    BY <1>1, <1>5, <2>5
  <2>7. LRU!SimulatorFileCreate(f)
    BY <1>2, <2>6, LRUActions
  <2>8. QED  BY <2>7, LRUHandler DEF LRU!Handler
<1>6. CASE ~Known(cache, f) /\ ~inRange
  <2> HIDE DEF d, inRange
  <2>1. cache'.fd = cache.fd /\ cache'.waiting = cache.waiting
    BY <1>1, <1>6
  <2>2. cache' = cache
    BY <1>0, <1>1, <2>1, CacheFields
  <2>3. QED  BY <2>2
<1>7. QED  BY <1>4, <1>5, <1>6

LEMMA LRUTruncate ==
    ASSUME Base, Typed', NEW j \in JobId, TruncateEffect(j)
    PROVE  LRU!Next \/ UNCHANGED cache
<1> PICK p, q : /\ p = Abs(cache) /\ q = Abs(cache)'
                /\ p = [lru |-> cache.lru, waiting |-> cache.waiting, fd |-> cache.fd,
                        disk |-> Present(cache.disk)]
                /\ q = [lru |-> cache'.lru, waiting |-> cache'.waiting, fd |-> cache'.fd,
                        disk |-> Present(cache'.disk)]
  BY AbsStep DEF Base
<1>0. /\ cache \in CacheType /\ cache' \in CacheType /\ cache.disk \in [File -> DiskState]
      /\ sims[j] \in SimulatorProcess
  BY TypedFields DEF Base, Typed
<1>1. /\ cache'.lru = cache.lru /\ cache'.waiting = cache.waiting /\ cache'.fd = cache.fd
  BY DEF TruncateEffect
<1>2. PICK f \in File : cache'.disk = IF f \in sims[j].redirected THEN cache.disk
                                      ELSE [cache.disk EXCEPT ![f] = "partial"]
  <2>1. sims[j].creating \in SUBSET File
    BY <1>0 DEF SimulatorProcess
  <2>2. QED  BY <2>1 DEF TruncateEffect
<1>3. CASE f \in sims[j].redirected
  <2>1. cache' = cache
    BY <1>0, <1>1, <1>2, <1>3, CacheFields
  <2>2. QED  BY <2>1
<1>4. CASE f \notin sims[j].redirected
  <2>1. Present(cache'.disk) = [Present(cache.disk) EXCEPT ![f] = "present"]
    BY <1>0, <1>2, <1>4 DEF Present
  <2>2. q = [p EXCEPT !.disk[f] = "present"]
    BY <1>1, <2>1
  <2>3. LRU!SimulatorTruncate(f)
    BY <2>2, LRUActions
  <2>4. QED  BY <2>3, LRUHandler DEF LRU!Handler
<1>5. QED  BY <1>3, <1>4

LEMMA LRUFileClose ==
    ASSUME Base, Typed', NEW j \in JobId, NEW f \in File, SimulatorFileClose(j, f),
           FileCloseEffect(j, f)
    PROVE  LRU!Next \/ Abs(cache)' = Abs(cache)
<1> PICK p, q : /\ p = Abs(cache) /\ q = Abs(cache)'
                /\ p = [lru |-> cache.lru, waiting |-> cache.waiting, fd |-> cache.fd,
                        disk |-> Present(cache.disk)]
                /\ q = [lru |-> cache'.lru, waiting |-> cache'.waiting, fd |-> cache'.fd,
                        disk |-> Present(cache'.disk)]
                /\ p.fd = cache.fd /\ \A g \in File : Known(p, g) <=> Known(cache, g)
  BY AbsStep DEF Base
<1> DEFINE e == DiskAfterClose(j, f)
           onDisk == [cache EXCEPT !.disk[f] = e]
<1>0. /\ cache \in CacheType /\ cache.fd \in [File -> Descriptor] /\ CacheInv
      /\ cache.disk \in [File -> DiskState]
  BY TypedFields DEF Base
<1>1. e \in DiskState /\ (e = "absent" <=> cache.disk[f] = "absent")
  BY DiskAfterCloseType
<1>2. CASE nrIsInSimulationRange(simulation_jobs[j], Nr[f])
  <2>1. Known(cache, f) /\ cache' = completed(onDisk, f)
    BY <1>2 DEF SimulatorFileClose
  <2> HIDE DEF e
  <2>2. onDisk \in CacheType /\ onDisk.disk = [cache.disk EXCEPT ![f] = e]
        /\ onDisk.lru = cache.lru /\ onDisk.waiting = cache.waiting /\ onDisk.fd = cache.fd
    BY <1>0, <1>1, SetDisk
  <2> HIDE DEF onDisk
  <2>3. Present(onDisk.disk) = Present(cache.disk)
    BY <1>0, <1>1, <2>2 DEF Present
  <2>4. Abs(onDisk) = p
    BY <2>2, <2>3, AbsFields
  <2>5. q = completed(p, f)
    <3>1. Abs(completed(onDisk, f)) = completed(Abs(onDisk), f)
      BY <2>2, AbsCompleted
    <3>2. q = Abs(cache')
      BY DEF Abs
    <3>3. QED  BY <2>1, <2>4, <3>1, <3>2
  <2>6. LRU!SimulatorFileClose(f)
    <3>1. Known(p, f)
      BY <2>1
    <3>2. QED  BY <2>5, <3>1, LRUActions
  <2>7. QED  BY <2>6, LRUHandler DEF LRU!Handler
<1>3. CASE ~nrIsInSimulationRange(simulation_jobs[j], Nr[f])
  <2> DEFINE d == setFileUsedBySimulator(cache.fd[f], FALSE)
  <2>1. /\ cache'.lru = cache.lru /\ cache'.waiting = cache.waiting
        /\ cache'.fd = [cache.fd EXCEPT ![f] = d] /\ cache'.disk = [cache.disk EXCEPT ![f] = e]
    BY <1>3 DEF FileCloseEffect, ClosedOutOfRange
  <2> HIDE DEF e
  <2>2. Present(cache'.disk) = Present(cache.disk)
    BY <1>0, <1>1, <2>1 DEF Present
  <2>3. CASE Known(cache, f)
    <3>1. [p EXCEPT !.fd[f] = setFileUsedBySimulator(@, FALSE)] = [p EXCEPT !.fd[f] = d]
      BY Zenon
    <3> HIDE DEF d
    <3>2. [p EXCEPT !.fd[f] = d]
             = [lru |-> cache.lru, waiting |-> cache.waiting,
                fd |-> [cache.fd EXCEPT ![f] = d], disk |-> Present(cache.disk)]
      BY RecordEdits
    <3>3. q = [p EXCEPT !.fd[f] = setFileUsedBySimulator(@, FALSE)]
      BY <2>1, <2>2, <3>1, <3>2
    <3>4. LRU!SimulatorFileCloseOutOfRange(f)
      BY <2>3, <3>3, LRUActions
    <3>5. QED  BY <3>4, LRUHandler DEF LRU!Handler
  <2>4. CASE ~Known(cache, f)
    <3>1. d = cache.fd[f]
      <4>1. cache.fd[f] = NoDescriptor
        BY <1>0, <2>4 DEF CacheInv
      <4>2. QED  BY <4>1 DEF setFileUsedBySimulator, NoDescriptor
    <3> HIDE DEF d
    <3>2. cache'.fd = cache.fd
      BY <1>0, <2>1, <3>1
    <3>3. q = p
      BY <2>1, <2>2, <3>2
    <3>4. QED  BY <3>3
  <2>5. QED  BY <2>3, <2>4
<1>4. QED  BY <1>2, <1>3

LEMMA LRUStep ==
    ASSUME Base, ClientInv, Next
    PROVE  LRU!Next \/ Abs(cache)' = Abs(cache)
<1>0. NextEffect /\ Base' /\ Typed' /\ ClientInv'
  <2>1. NextEffect /\ Base' /\ ClientInv'
    BY NextBase, NextClient
  <2>2. QED  BY <2>1 DEF Base
<1>1. cache' = cache => Abs(cache)' = Abs(cache)
  BY DEF Abs
<1>2. ASSUME NEW c \in Client, ClientEffect(c) PROVE LRU!Next \/ Abs(cache)' = Abs(cache)
  <2>1. CASE CloseMetaEffect(c)
    BY <1>1, <2>1 DEF CloseMetaEffect
  <2>2. QED
    BY <1>0, <1>1, <1>2, <2>1, LRUOpen, LRUGet, LRUClose DEF ClientEffect
<1>3. ASSUME NEW j \in JobId, NEW f \in File, SimulatorFileClose(j, f)
      PROVE  LRU!Next \/ Abs(cache)' = Abs(cache)
  BY <1>0, <1>3, FileCloseStep, LRUFileClose
<1>4. ASSUME NEW j \in JobId, NEW f \in File, SimulatorFileCreate(j, f)
      PROVE  LRU!Next \/ Abs(cache)' = Abs(cache)
  BY <1>0, <1>1, <1>4, CreateStep, LRUCreate
<1>5. ASSUME NEW j \in JobId, SimulatorTruncate(j)
      PROVE  LRU!Next \/ Abs(cache)' = Abs(cache)
  BY <1>0, <1>1, <1>5, TruncateStep, LRUTruncate
<1>6. ASSUME NEW j \in JobId, \/ \E f \in File : SimulatorFileCreateKilled(j, f)
                              \/ SimulatorFinalize(j) \/ SimulatorCrash(j)
      PROVE  Abs(cache)' = Abs(cache)
  BY <1>1, <1>6 DEF SimulatorFileCreateKilled, SimulatorFinalize, SimulatorCrash
<1>7. ASSUME NEW c \in Client, ClientStep(c) PROVE LRU!Next \/ Abs(cache)' = Abs(cache)
  <2>1. ClientEffect(c)
    BY <1>7, OpenStep, GetStep, CloseStep, CloseMetaStep DEF ClientStep, ClientEffect
  <2>2. QED  BY <1>2, <2>1
<1>8. QED
  BY <1>3, <1>4, <1>5, <1>6, <1>7 DEF Next, SimulatorStep

LEMMA LRUInit == Init => LRU!Init
<1> SUFFICES ASSUME Init PROVE LRU!Init
  OBVIOUS
<1>1. cache.lru = <<>> /\ cache.waiting = {} /\ cache.fd = [f \in File |-> NoDescriptor]
      /\ cache.disk = [f \in File |-> "absent"]
  BY DEF Init
<1>2. Present(cache.disk) = [f \in File |-> IF f \in {} THEN "present" ELSE "absent"]
  BY <1>1 DEF Present
<1>3. cache \in CacheType
  BY InitBase DEF Base, Typed
<1>4. Abs(cache) = [lru |-> cache.lru, waiting |-> cache.waiting, fd |-> cache.fd,
                    disk |-> Present(cache.disk)]
  BY <1>3, AbsFields
<1>5. LRU!NoDescriptor = NoDescriptor
  BY LRUOps
<1>6. [cache EXCEPT !.disk = [f \in File |-> IF cache.disk[f] = "absent" THEN "absent" ELSE "present"]]
         = [lru |-> <<>>, waiting |-> {}, fd |-> [f \in File |-> LRU!NoDescriptor],
            disk |-> [f \in File |-> IF f \in {} THEN "present" ELSE "absent"]]
  BY <1>1, <1>2, <1>4, <1>5, Zenon DEF Abs
<1>7. QED  BY <1>6, Zenon DEF LRU!Init

(* The handlers, composed, use the file cache as module FileCacheLRU says, *)
(* for any files, clients, capacity and simulators, kills and crashes      *)
(* included: a simulator closes a file the cache knows or the close is out *)
(* of range, a client closes and locks what it opened.  What               *)
(* FileCacheLRUProofs shows of the cache, the promise of every file cache  *)
(* included, therefore holds in the DV.                                    *)
THEOREM CacheImplemented == Spec => ImplementsFileCache
<1>1. Init => LRU!Init
  BY LRUInit
<1>2. Base /\ ClientInv /\ [Next]_vars => [LRU!Next]_(LRU!vars)
  <2>1. ASSUME Abs(cache)' = Abs(cache) PROVE UNCHANGED LRU!vars
    BY <2>1 DEF LRU!vars, Abs
  <2>2. ASSUME UNCHANGED vars PROVE Abs(cache)' = Abs(cache)
    BY <2>2 DEF vars, Abs
  <2>3. QED  BY <2>1, <2>2, LRUStep
<1>3. QED  BY <1>1, <1>2, Structure, Clients, PTL DEF Spec, ImplementsFileCache, LRU!Spec

-----------------------------------------------------------------------------
\* The runs of the simulators.

Writing(i) == sims[i].creating \cup sims[i].open

InRun(i, f) ==
    /\ simulation_jobs[i].sim_start <= Nr[f]
    /\ Nr[f] <= simulation_jobs[i].sim_stop + Overshoot

\* A kill finds the simulator with no other file open.
CleanKills == MaxOpenFiles <= 1 \/ sim_kill_threshold = 0

(* A simulator makes the files of its run in order and without a gap; it   *)
(* terminates iff its job is invalid; and where kills are clean it writes  *)
(* nothing once it is told to terminate.                                   *)
RunInv(i) ==
    /\ sims[i].creating \in SUBSET sims[i].made /\ sims[i].open \in SUBSET sims[i].made
    /\ sims[i].creating \cap sims[i].open = {}
    /\ sims[i].creating = {} \/ \E f \in File : sims[i].creating = {f}
    /\ IsFiniteSet(sims[i].open)
    /\ i \in DOMAIN simulation_jobs =>
          /\ \A f \in sims[i].made : InRun(i, f)
          /\ \A g \in sims[i].made, h \in File :
                InRun(i, h) /\ Nr[h] < Nr[g] => h \in sims[i].made
          /\ ~simulation_jobs[i].valid <=> sims[i].to_terminate
    /\ CleanKills /\ sims[i].to_terminate =>
          sims[i].creating = {} /\ sims[i].open = {} /\ sims[i].open_files_count = 0
    /\ MaxOpenFiles <= 1 =>
          \/ sims[i].creating = {} /\ sims[i].open = {} /\ sims[i].open_files_count = 0
          \/ /\ sims[i].open_files_count = 1
             /\ \/ sims[i].creating = {}
                \/ sims[i].open = {}
             /\ \E f \in File : Writing(i) = {f}

RunsInv == \A i \in JobId : RunInv(i)

\* What the steps of others leave alone of a simulator and of its job.
SimStays(i) ==
    /\ sims'[i].made = sims[i].made
    /\ sims'[i].creating = sims[i].creating
    /\ sims'[i].open = sims[i].open
    /\ sims'[i].redirected = sims[i].redirected
    /\ sims'[i].open_files_count = sims[i].open_files_count
    /\ sims'[i].to_terminate = sims[i].to_terminate

JobStays(i) ==
    i \in DOMAIN simulation_jobs' =>
        /\ i \in DOMAIN simulation_jobs
        /\ simulation_jobs'[i].sim_start = simulation_jobs[i].sim_start
        /\ simulation_jobs'[i].sim_stop = simulation_jobs[i].sim_stop
        /\ simulation_jobs'[i].valid = simulation_jobs[i].valid
        /\ simulation_jobs'[i].last_nr = simulation_jobs[i].last_nr
        /\ simulation_jobs'[i].produced = simulation_jobs[i].produced

JobIsNew(i) ==
    /\ i \notin DOMAIN simulation_jobs /\ i = conncount + 1 /\ i = conncount'
    /\ sims[i] = NewSimulator
    /\ \E f \in File : simulation_jobs'[i] = NewJob(Nr[f])

\* The steps in which a simulator makes, creates or closes a file.
Writes(j, f) ==
    CreateEffect(j, f) \/ CreateKilledEffect(j, f) \/ TruncateEffect(j) \/ FileCloseEffect(j, f)

LEMMA SameJob ==
    ASSUME NEW i, DOMAIN simulation_jobs' = DOMAIN simulation_jobs,
           i \in DOMAIN simulation_jobs => simulation_jobs'[i] = simulation_jobs[i]
    PROVE  JobStays(i)
BY DEF JobStays

LEMMA SameSim ==
    ASSUME NEW i, sims'[i] = sims[i]
    PROVE  SimStays(i)
BY DEF SimStays

LEMMA PhaseMoves ==
    ASSUME Typed, NEW i \in JobId, NEW p, sims'[i] = [sims[i] EXCEPT !.phase = p]
    PROVE  SimStays(i) /\ sims'[i].phase = p
<1>1. sims[i] \in SimulatorProcess
  BY TypedFields
<1>2. QED  BY <1>1, SimulatorOpFields DEF SimStays

(* Everything but the simulator that acts stays as it is, up to jobs that  *)
(* are made, prolonged and ended.                                          *)
LEMMA OthersStay ==
    ASSUME Base, NEW j \in JobId, NEW f \in File, Writes(j, f),
           NEW i \in JobId, i # j
    PROVE  SimStays(i) /\ JobStays(i) /\ sims'[i] = sims[i]
           /\ (i \in DOMAIN simulation_jobs => simulation_jobs'[i] = simulation_jobs[i])
           /\ DOMAIN simulation_jobs' = DOMAIN simulation_jobs
<1> DEFINE inRange == nrIsInSimulationRange(simulation_jobs[j], Nr[f])
           c == created(sims[j], f, NeedsRedirect(cache, f))
           k == killed(sims[j], f)
           t == [sims[j] EXCEPT !.open = @ \cup sims[j].creating, !.creating = {}]
           x == closedBySimulator(sims[j], f)
           a == IF inRange THEN handleSimulatorFileCreate(simulation_jobs[j], Nr[f]) ELSE simulation_jobs[j]
           v == invalidateJob(simulation_jobs[j])
           b == handleSimulatorFileClose(simulation_jobs[j])
<1>1. \/ sims' = [sims EXCEPT ![j] = c] \/ sims' = [sims EXCEPT ![j] = k]
      \/ sims' = [sims EXCEPT ![j] = t] \/ sims' = [sims EXCEPT ![j] = x]
  BY DEF Writes, CreateEffect, CreateKilledEffect, TruncateEffect, FileCloseEffect
<1>2. \/ simulation_jobs' = [simulation_jobs EXCEPT ![j] = a]
      \/ simulation_jobs' = [simulation_jobs EXCEPT ![j] = v]
      \/ simulation_jobs' = [simulation_jobs EXCEPT ![j] = b]
      \/ simulation_jobs' = simulation_jobs
  BY DEF Writes, CreateEffect, CreateKilledEffect, TruncateEffect, FileCloseEffect, ClosedInRange, ClosedOutOfRange
<1>3. sims \in [JobId -> SimulatorProcess] /\ simulation_jobs \in [DOMAIN simulation_jobs -> SimJobType]
  BY TypedFields DEF Base
<1> HIDE DEF c, k, t, x, a, v, b
<1>4. sims'[i] = sims[i]
  BY <1>1, <1>3
<1>5. DOMAIN simulation_jobs' = DOMAIN simulation_jobs
  BY <1>2, <1>3
<1>6. i \in DOMAIN simulation_jobs => simulation_jobs'[i] = simulation_jobs[i]
  BY <1>2, <1>3
<1>7. QED  BY <1>4, <1>5, <1>6, SameSim, SameJob

(* The other steps change no simulator's files, and add a job at most.     *)
LEMMA AllStay ==
    ASSUME Base,
           \/ \E c \in Client : ClientEffect(c)
           \/ \E j \in JobId : FinalizeEffect(j) \/ CrashEffect(j),
           NEW i \in JobId
    PROVE  SimStays(i) /\ (JobStays(i) \/ JobIsNew(i))
<1>0. Typed /\ sims \in [JobId -> SimulatorProcess]
      /\ simulation_jobs \in [DOMAIN simulation_jobs -> SimJobType]
  BY TypedFields DEF Base
<1>1. ASSUME NEW c \in Client, GetEffect(c) \/ CloseEffect(c) \/ CloseMetaEffect(c)
      PROVE  SimStays(i) /\ JobStays(i)
  <2>1. sims' = sims /\ simulation_jobs' = simulation_jobs
    BY <1>1 DEF GetEffect, CloseEffect, CloseMetaEffect
  <2>2. QED  BY <2>1, SameSim, SameJob
<1>2. ASSUME NEW c \in Client, NEW f \in File, OpenEffect(c, f)
      PROVE  SimStays(i) /\ (JobStays(i) \/ JobIsNew(i))
  <2>1. CASE MissEffect(Nr[f])
    <3>1. SimStays(i)
      <4>1. sims'[i] = [sims[i] EXCEPT !.phase = "running"] \/ sims'[i] = sims[i]
        BY <2>1 DEF MissEffect
      <4>2. QED  BY <1>0, <4>1, PhaseMoves, SameSim
    <3>2. CASE i = conncount + 1
      <4>1. /\ i \notin DOMAIN simulation_jobs /\ i = conncount' /\ simulation_jobs'[i] = NewJob(Nr[f])
        BY <2>1, <3>2 DEF MissEffect
      <4>2. i > conncount
        BY <3>2, <1>0, TypedFields
      <4>3. sims[i] = NewSimulator
        BY <4>2 DEF Base, JobsInv
      <4>4. QED  BY <3>1, <3>2, <4>1, <4>3 DEF JobIsNew
    <3>3. CASE i # conncount + 1
      <4>1. i \in DOMAIN simulation_jobs' => /\ i \in DOMAIN simulation_jobs
                                             /\ simulation_jobs'[i] = simulation_jobs[i]
        BY <2>1, <3>3 DEF MissEffect
      <4>2. JobStays(i)
        BY <4>1 DEF JobStays
      <4>3. QED  BY <3>1, <4>2
    <3>4. QED  BY <3>2, <3>3
  <2>2. CASE sims' = sims /\ simulation_jobs' = simulation_jobs
    BY <2>2, SameSim, SameJob
  <2>3. ASSUME sims' = sims, NEW j \in Producing(f),
               simulation_jobs' = [simulation_jobs EXCEPT ![j] =
                   handleClientFileOpen(simulation_jobs[j], Nr[f], sim_kill_threshold)]
        PROVE  SimStays(i) /\ JobStays(i)
    <3> DEFINE job == handleClientFileOpen(simulation_jobs[j], Nr[f], sim_kill_threshold)
    <3>1. j \in DOMAIN simulation_jobs
      BY DEF Producing
    <3>2. simulation_jobs[j] \in SimJobType /\ Nr[f] \in Nat
      BY <1>0, <3>1, TypedFields
    <3>3. /\ job.sim_start = simulation_jobs[j].sim_start /\ job.sim_stop = simulation_jobs[j].sim_stop
          /\ job.valid = simulation_jobs[j].valid /\ job.last_nr = simulation_jobs[j].last_nr
          /\ job.produced = simulation_jobs[j].produced
      BY <3>2, JobOpFields
    <3> HIDE DEF job
    <3>4. /\ DOMAIN simulation_jobs' = DOMAIN simulation_jobs /\ simulation_jobs'[j] = job
          /\ \A k \in DOMAIN simulation_jobs : k # j => simulation_jobs'[k] = simulation_jobs[k]
      BY <1>0, <2>3, <3>1 DEF job
    <3>5. JobStays(i)
      BY <3>3, <3>4 DEF JobStays
    <3>6. QED  BY <2>3, <3>5, SameSim
  <2>4. QED  BY <1>2, <2>1, <2>2, <2>3 DEF OpenEffect
<1>3. ASSUME NEW j \in JobId, CrashEffect(j) PROVE SimStays(i) /\ JobStays(i)
  <2> DEFINE s == [sims[j] EXCEPT !.phase = "crashed"]
  <2>1. sims' = [sims EXCEPT ![j] = s] /\ simulation_jobs' = simulation_jobs
    BY <1>3 DEF CrashEffect
  <2>2. i # j => sims'[i] = sims[i]
    BY <1>0, <2>1
  <2>3. i = j => sims'[i] = [sims[i] EXCEPT !.phase = "crashed"]
    BY <1>0, <2>1
  <2>4. QED  BY <1>0, <2>1, <2>2, <2>3, PhaseMoves, SameSim, SameJob
<1>4. ASSUME NEW j \in JobId, FinalizeEffect(j) PROVE SimStays(i) /\ JobStays(i)
  <2>1. \/ sims'[i] = [sims[i] EXCEPT !.phase = "running"]
        \/ sims'[i] = [sims[i] EXCEPT !.phase = "ended"]
        \/ sims'[i] = sims[i]
    BY <1>4 DEF FinalizeEffect
  <2>2. SimStays(i)
    BY <1>0, <2>1, PhaseMoves, SameSim
  <2>3. i \in DOMAIN simulation_jobs' => /\ i \in DOMAIN simulation_jobs
                                         /\ simulation_jobs'[i] = simulation_jobs[i]
    BY <1>4 DEF FinalizeEffect
  <2>4. QED  BY <2>2, <2>3 DEF JobStays
<1>5. QED  BY <1>1, <1>2, <1>3, <1>4 DEF ClientEffect

(* The simulator that acts, field by field.                                *)
LEMMA CreateFields ==
    ASSUME Base, NEW j \in JobId, NEW f \in File, CreateEffect(j, f)
    PROVE  LET s == sims[j]
               t == sims'[j]
               job == simulation_jobs[j]
               new == simulation_jobs'[j]
               inRange == InRange(job, Nr[f])
           IN  /\ s.phase = "running" /\ t.phase = "running" /\ s.creating = {} /\ f \notin s.made
               /\ j \in DOMAIN simulation_jobs
               /\ t.made = s.made \cup {f} /\ t.creating = {f} /\ t.open = s.open
               /\ t.redirected = s.redirected \cup (IF NeedsRedirect(cache, f) THEN {f} ELSE {})
               /\ t.open_files_count = s.open_files_count + 1 /\ t.to_terminate = s.to_terminate
               /\ new.sim_start = job.sim_start /\ new.sim_stop = job.sim_stop
               /\ new.valid = job.valid /\ new.produced = job.produced
               /\ new.min_sim_target = job.min_sim_target
               /\ new.last_nr = IF inRange THEN Nr[f] ELSE job.last_nr
               /\ new.time_to_kill = IF inRange /\ job.time_to_kill > 0 /\ job.min_sim_target < Nr[f]
                                     THEN job.time_to_kill - 1 ELSE job.time_to_kill
<1> DEFINE job == simulation_jobs[j]
           inRange == InRange(job, Nr[f])
           s == created(sims[j], f, NeedsRedirect(cache, f))
           new == IF nrIsInSimulationRange(job, Nr[f]) THEN handleSimulatorFileCreate(job, Nr[f]) ELSE job
           red == NeedsRedirect(cache, f)
<1>0. Typed /\ sims \in [JobId -> SimulatorProcess] /\ sims[j] \in SimulatorProcess /\ Nr[f] \in Nat
      /\ red \in BOOLEAN
  BY TypedFields DEF Base, NeedsRedirect, isFileUsedBySimulator, Descriptor
<1>1. /\ sims[j].phase = "running" /\ sims[j].creating = {} /\ f \notin sims[j].made
      /\ j \in DOMAIN simulation_jobs
      /\ sims' = [sims EXCEPT ![j] = s] /\ simulation_jobs' = [simulation_jobs EXCEPT ![j] = new]
  BY DEF CreateEffect, MayCreate
<1>2. job \in SimJobType
  BY <1>0, <1>1, TypedFields
<1>3. nrIsInSimulationRange(job, Nr[f]) <=> inRange
  BY <1>2, JobFields DEF nrIsInSimulationRange
<1>4. /\ new.sim_start = job.sim_start /\ new.sim_stop = job.sim_stop
      /\ new.valid = job.valid /\ new.produced = job.produced
      /\ new.min_sim_target = job.min_sim_target
      /\ new.last_nr = IF inRange THEN Nr[f] ELSE job.last_nr
      /\ new.time_to_kill = IF inRange /\ job.time_to_kill > 0 /\ job.min_sim_target < Nr[f]
                            THEN job.time_to_kill - 1 ELSE job.time_to_kill
  <2> HIDE DEF job, inRange
  <2>1. CASE inRange
    <3>1. new = handleSimulatorFileCreate(job, Nr[f])
      BY <1>3, <2>1
    <3> HIDE DEF new
    <3>2. QED  BY <1>0, <1>2, <2>1, <3>1, JobOpFields
  <2>2. CASE ~inRange
    <3>1. new = job
      BY <1>3, <2>2
    <3> HIDE DEF new
    <3>2. QED  BY <2>2, <3>1
  <2>3. QED  BY <2>1, <2>2
<1>5. /\ s.phase = sims[j].phase /\ s.open = sims[j].open /\ s.to_terminate = sims[j].to_terminate
      /\ s.made = sims[j].made \cup {f} /\ s.creating = {f}
      /\ s.redirected = sims[j].redirected \cup (IF red THEN {f} ELSE {})
      /\ s.open_files_count = sims[j].open_files_count + 1
  BY <1>0 DEF created, SimulatorProcess
<1> HIDE DEF s, new, job, inRange
<1>6. sims'[j] = s
  BY <1>0, <1>1
<1>7. simulation_jobs'[j] = new
  BY <1>0, <1>1, TypedFields
<1>8. QED  BY <1>1, <1>4, <1>5, <1>6, <1>7 DEF job, inRange

LEMMA KilledFields ==
    ASSUME Base, NEW j \in JobId, NEW f \in File, CreateKilledEffect(j, f)
    PROVE  LET s == sims[j]
               t == sims'[j]
               job == simulation_jobs[j]
               new == simulation_jobs'[j]
           IN  /\ s.phase = "running" /\ t.phase = "running" /\ s.creating = {} /\ f \notin s.made
               /\ j \in DOMAIN simulation_jobs
               /\ t.made = s.made \cup {f} /\ t.open = s.open /\ t.redirected = s.redirected
               /\ t.creating = IF s.open_files_count = 0 THEN {} ELSE {f}
               /\ t.open_files_count = s.open_files_count /\ t.to_terminate
               /\ new.sim_start = job.sim_start /\ new.sim_stop = job.sim_stop /\ ~new.valid
<1> DEFINE job == simulation_jobs[j]
           s == killed(sims[j], f)
           new == invalidateJob(job)
<1>0. Typed /\ sims \in [JobId -> SimulatorProcess] /\ sims[j] \in SimulatorProcess /\ Nr[f] \in Nat
  BY TypedFields DEF Base
<1>1. /\ sims[j].phase = "running" /\ sims[j].creating = {} /\ f \notin sims[j].made
      /\ j \in DOMAIN simulation_jobs
      /\ sims' = [sims EXCEPT ![j] = s] /\ simulation_jobs' = [simulation_jobs EXCEPT ![j] = new]
  BY DEF CreateKilledEffect, MayCreate
<1>2. job \in SimJobType
  BY <1>0, <1>1, TypedFields
<1>3. new.sim_start = job.sim_start /\ new.sim_stop = job.sim_stop /\ ~new.valid
  BY <1>0, <1>2, JobOpFields
<1>4. /\ s.phase = sims[j].phase /\ s.open = sims[j].open /\ s.to_terminate
      /\ s.made = sims[j].made \cup {f} /\ s.redirected = sims[j].redirected
      /\ s.creating = IF sims[j].open_files_count = 0 THEN {} ELSE {f}
      /\ s.open_files_count = sims[j].open_files_count
  BY <1>0 DEF killed, SimulatorProcess
<1> HIDE DEF s, new, job
<1>5. sims'[j] = s /\ simulation_jobs'[j] = new
  BY <1>0, <1>1, TypedFields
<1>6. QED  BY <1>1, <1>3, <1>4, <1>5 DEF job

LEMMA TruncateFields ==
    ASSUME Base, NEW j \in JobId, TruncateEffect(j)
    PROVE  LET s == sims[j]
               t == sims'[j]
           IN  /\ s.phase = "running" /\ t.phase = "running"
               /\ j \in DOMAIN simulation_jobs /\ simulation_jobs' = simulation_jobs
               /\ t.made = s.made /\ t.creating = {} /\ t.open = s.open \cup s.creating
               /\ t.redirected = s.redirected /\ t.open_files_count = s.open_files_count
               /\ t.to_terminate = s.to_terminate
<1> DEFINE s == [sims[j] EXCEPT !.open = @ \cup sims[j].creating, !.creating = {}]
<1>0. Typed /\ sims \in [JobId -> SimulatorProcess] /\ sims[j] \in SimulatorProcess
  BY TypedFields DEF Base
<1>1. /\ sims[j].phase = "running" /\ j \in DOMAIN simulation_jobs
      /\ sims' = [sims EXCEPT ![j] = s] /\ simulation_jobs' = simulation_jobs
  BY DEF TruncateEffect
<1>2. /\ s.phase = sims[j].phase /\ s.to_terminate = sims[j].to_terminate
      /\ s.made = sims[j].made /\ s.creating = {} /\ s.open = sims[j].open \cup sims[j].creating
      /\ s.redirected = sims[j].redirected /\ s.open_files_count = sims[j].open_files_count
  BY <1>0 DEF SimulatorProcess
<1> HIDE DEF s
<1>3. sims'[j] = s
  BY <1>0, <1>1
<1>4. QED  BY <1>1, <1>2, <1>3

LEMMA CloseFields ==
    ASSUME Base, NEW j \in JobId, NEW f \in File, FileCloseEffect(j, f)
    PROVE  LET s == sims[j]
               t == sims'[j]
               job == simulation_jobs[j]
               new == simulation_jobs'[j]
           IN  /\ s.phase = "running" /\ t.phase = "running" /\ f \in s.open
               /\ j \in DOMAIN simulation_jobs
               /\ t.made = s.made /\ t.creating = s.creating /\ t.open = s.open \ {f}
               /\ t.redirected = s.redirected \ {f}
               /\ t.open_files_count = s.open_files_count - 1 /\ t.to_terminate = s.to_terminate
               /\ new.sim_start = job.sim_start /\ new.sim_stop = job.sim_stop
               /\ new.valid = job.valid /\ new.last_nr = job.last_nr
               /\ new.min_sim_target = job.min_sim_target /\ new.time_to_kill = job.time_to_kill
               /\ new.produced = IF InRange(job, Nr[f]) THEN job.produced \cup {job.last_nr}
                                 ELSE job.produced
<1> DEFINE job == simulation_jobs[j]
           s == closedBySimulator(sims[j], f)
           new == handleSimulatorFileClose(job)
           inRange == InRange(job, Nr[f])
<1>0. Typed /\ sims \in [JobId -> SimulatorProcess] /\ sims[j] \in SimulatorProcess /\ Nr[f] \in Nat
  BY TypedFields DEF Base
<1>1. /\ sims[j].phase = "running" /\ f \in sims[j].open /\ j \in DOMAIN simulation_jobs
      /\ sims' = [sims EXCEPT ![j] = s]
      /\ simulation_jobs' = IF nrIsInSimulationRange(job, Nr[f])
                            THEN [simulation_jobs EXCEPT ![j] = new] ELSE simulation_jobs
  BY DEF FileCloseEffect, ClosedInRange, ClosedOutOfRange
<1>2. job \in SimJobType
  BY <1>0, <1>1, TypedFields
<1>3. nrIsInSimulationRange(job, Nr[f]) <=> inRange
  BY <1>2, JobFields DEF nrIsInSimulationRange
<1>4. /\ new.sim_start = job.sim_start /\ new.sim_stop = job.sim_stop
      /\ new.last_nr = job.last_nr /\ new.produced = job.produced \cup {job.last_nr}
      /\ new.valid = job.valid /\ new.time_to_kill = job.time_to_kill
      /\ new.min_sim_target = job.min_sim_target
  BY <1>0, <1>2, JobOpFields
<1>5. /\ s.phase = sims[j].phase /\ s.to_terminate = sims[j].to_terminate
      /\ s.made = sims[j].made /\ s.creating = sims[j].creating
      /\ s.open = sims[j].open \ {f} /\ s.redirected = sims[j].redirected \ {f}
      /\ s.open_files_count = sims[j].open_files_count - 1
  BY <1>0 DEF closedBySimulator, SimulatorProcess
<1> HIDE DEF s, new, job, inRange
<1>6. sims'[j] = s
  BY <1>0, <1>1
<1>7. simulation_jobs'[j] = IF inRange THEN new ELSE job
  BY <1>0, <1>1, <1>3, TypedFields DEF job
<1>8. QED  BY <1>1, <1>4, <1>5, <1>6, <1>7 DEF job, inRange

LEMMA RunStays ==
    ASSUME NEW i \in JobId, RunInv(i), SimStays(i), JobStays(i)
    PROVE  RunInv(i)'
<1>1. Writing(i)' = Writing(i)
  BY DEF Writing, SimStays
<1>2. i \in DOMAIN simulation_jobs' => \A f \in File : InRun(i, f)' <=> InRun(i, f)
  BY DEF InRun, JobStays
<1>3. i \in DOMAIN simulation_jobs' =>
          /\ \A f \in sims'[i].made : InRun(i, f)'
          /\ \A g \in sims'[i].made, h \in File :
                InRun(i, h)' /\ Nr[h] < Nr[g] => h \in sims'[i].made
          /\ ~simulation_jobs'[i].valid <=> sims'[i].to_terminate
  <2> HAVE i \in DOMAIN simulation_jobs'
  <2>1. /\ \A f \in sims[i].made : InRun(i, f)
        /\ \A g \in sims[i].made, h \in File :
                InRun(i, h) /\ Nr[h] < Nr[g] => h \in sims[i].made
        /\ ~simulation_jobs[i].valid <=> sims[i].to_terminate
    BY DEF RunInv, JobStays
  <2>2. \A f : InRun(i, f)' <=> InRun(i, f)
    BY DEF InRun, JobStays
  <2>3. QED  BY <2>1, <2>2 DEF SimStays, JobStays
<1>4. QED  BY <1>1, <1>3, Zenon DEF RunInv, SimStays

LEMMA RunBegins ==
    ASSUME NEW i \in JobId, sims[i] = NewSimulator, SimStays(i), JobIsNew(i)
    PROVE  RunInv(i)'
<1>1. /\ sims'[i].made = {} /\ sims'[i].creating = {} /\ sims'[i].open = {}
      /\ sims'[i].open_files_count = 0 /\ ~sims'[i].to_terminate
  BY DEF SimStays, NewSimulator
<1>2. PICK f \in File : simulation_jobs'[i] = NewJob(Nr[f])
  BY DEF JobIsNew
<1>3. Nr[f] \in Nat
  BY DVAssumption
<1>4. simulation_jobs'[i].valid
  BY <1>2, <1>3, NewJobProperty
<1>5. IsFiniteSet(sims'[i].open)
  BY <1>1, FS_EmptySet
<1>6. QED  BY <1>1, <1>4, <1>5 DEF RunInv

LEMMA RunCreate ==
    ASSUME Base, NEW j \in JobId, NEW f \in File, CreateEffect(j, f), RunInv(j)
    PROVE  RunInv(j)'
<1> DEFINE s == sims[j]
           t == sims'[j]
<1>1. /\ s.creating = {} /\ f \notin s.made /\ j \in DOMAIN simulation_jobs
      /\ t.made = s.made \cup {f} /\ t.creating = {f} /\ t.open = s.open
      /\ t.open_files_count = s.open_files_count + 1 /\ t.to_terminate = s.to_terminate
      /\ simulation_jobs'[j].sim_start = simulation_jobs[j].sim_start
      /\ simulation_jobs'[j].sim_stop = simulation_jobs[j].sim_stop
      /\ simulation_jobs'[j].valid = simulation_jobs[j].valid
  BY CreateFields
<1>2. \A g : InRun(j, g)' <=> InRun(j, g)
  BY <1>1 DEF InRun
<1>3. /\ InRun(j, f) /\ ~MustTerminate(j) /\ Cardinality(s.open) < MaxOpenFiles
      /\ \A g \in File : InRun(j, g) /\ Nr[g] < Nr[f] => g \in s.made
  BY DEF CreateEffect, MayCreate, InRun
<1>4. s.open \in SUBSET s.made /\ IsFiniteSet(s.open)
  BY DEF RunInv
<1>5. t.creating \in SUBSET t.made /\ t.open \in SUBSET t.made /\ t.creating \cap t.open = {}
      /\ IsFiniteSet(t.open) /\ t.creating = {f}
  BY <1>1, <1>4
<1>6. /\ \A g \in t.made : InRun(j, g)'
      /\ \A g \in t.made, h \in File : InRun(j, h)' /\ Nr[h] < Nr[g] => h \in t.made
      /\ ~simulation_jobs'[j].valid <=> t.to_terminate
  <2>1. /\ \A g \in s.made : InRun(j, g)
        /\ \A g \in s.made, h \in File : InRun(j, h) /\ Nr[h] < Nr[g] => h \in s.made
        /\ ~simulation_jobs[j].valid <=> s.to_terminate
    BY <1>1 DEF RunInv
  <2> HIDE DEF s, t
  <2>2. QED  BY <1>1, <1>2, <1>3, <2>1
<1>7. CleanKills => ~t.to_terminate
  BY <1>1, <1>3 DEF RunInv, MustTerminate
<1>8. MaxOpenFiles <= 1 => t.open = {} /\ t.open_files_count = 1
  <2> HAVE MaxOpenFiles <= 1
  <2>1. Cardinality(s.open) = 0
    <3>1. Cardinality(s.open) \in Nat /\ MaxOpenFiles \in Nat
      BY <1>4, FS_CardinalityType, DVAssumption
    <3>2. QED  BY <1>3, <3>1
  <2>2. s.open = {}
    BY <1>4, <2>1, FS_EmptySet
  <2>3. Writing(j) = {}
    BY <1>1, <2>2 DEF Writing
  <2>4. s.open_files_count = 0
    BY <2>3 DEF RunInv
  <2>5. QED  BY <1>1, <2>2, <2>4
<1>9. Writing(j)' = {f} \cup t.open
  BY <1>1 DEF Writing
<1>10. MaxOpenFiles <= 1 => Writing(j)' = {f}
  BY <1>8, <1>9
<1>11. QED  BY <1>5, <1>6, <1>7, <1>8, <1>10 DEF RunInv

LEMMA RunKilled ==
    ASSUME Base, NEW j \in JobId, NEW f \in File, CreateKilledEffect(j, f), RunInv(j)
    PROVE  RunInv(j)'
<1> DEFINE s == sims[j]
           t == sims'[j]
<1>1. /\ s.creating = {} /\ f \notin s.made /\ j \in DOMAIN simulation_jobs
      /\ t.made = s.made \cup {f} /\ t.open = s.open
      /\ t.creating = IF s.open_files_count = 0 THEN {} ELSE {f}
      /\ t.open_files_count = s.open_files_count /\ t.to_terminate
      /\ simulation_jobs'[j].sim_start = simulation_jobs[j].sim_start
      /\ simulation_jobs'[j].sim_stop = simulation_jobs[j].sim_stop
      /\ ~simulation_jobs'[j].valid
  BY KilledFields
<1>2. \A g : InRun(j, g)' <=> InRun(j, g)
  BY <1>1 DEF InRun
<1>3. /\ InRun(j, f) /\ Cardinality(s.open) < MaxOpenFiles /\ sim_kill_threshold > 0
      /\ \A g \in File : InRun(j, g) /\ Nr[g] < Nr[f] => g \in s.made
  BY DEF CreateKilledEffect, MayCreate, InRun, hasToBeKilled
<1>4. s.open \in SUBSET s.made /\ IsFiniteSet(s.open)
  BY DEF RunInv
<1>5. t.creating \in SUBSET t.made /\ t.open \in SUBSET t.made /\ t.creating \cap t.open = {}
      /\ IsFiniteSet(t.open) /\ (t.creating = {} \/ t.creating = {f})
  BY <1>1, <1>4
<1>6. /\ \A g \in t.made : InRun(j, g)'
      /\ \A g \in t.made, h \in File : InRun(j, h)' /\ Nr[h] < Nr[g] => h \in t.made
      /\ ~simulation_jobs'[j].valid <=> t.to_terminate
  <2>1. /\ \A g \in s.made : InRun(j, g)
        /\ \A g \in s.made, h \in File : InRun(j, h) /\ Nr[h] < Nr[g] => h \in s.made
    BY <1>1 DEF RunInv
  <2> HIDE DEF s, t
  <2>2. QED  BY <1>1, <1>2, <1>3, <2>1
<1>7. MaxOpenFiles <= 1 => t.creating = {} /\ t.open = {} /\ t.open_files_count = 0
  <2> HAVE MaxOpenFiles <= 1
  <2>1. Cardinality(s.open) = 0
    <3>1. Cardinality(s.open) \in Nat /\ MaxOpenFiles \in Nat
      BY <1>4, FS_CardinalityType, DVAssumption
    <3>2. QED  BY <1>3, <3>1
  <2>2. s.open = {}
    BY <1>4, <2>1, FS_EmptySet
  <2>3. Writing(j) = {}
    BY <1>1, <2>2 DEF Writing
  <2>4. s.open_files_count = 0
    BY <2>3 DEF RunInv
  <2>5. QED  BY <1>1, <2>2, <2>4
<1>8. CleanKills => t.creating = {} /\ t.open = {} /\ t.open_files_count = 0
  BY <1>3, <1>7, DVAssumption DEF CleanKills
<1>9. QED  BY <1>5, <1>6, <1>7, <1>8 DEF RunInv

LEMMA RunTruncate ==
    ASSUME Base, NEW j \in JobId, TruncateEffect(j), RunInv(j)
    PROVE  RunInv(j)'
<1> DEFINE s == sims[j]
           t == sims'[j]
<1>1. /\ t.made = s.made /\ t.creating = {} /\ t.open = s.open \cup s.creating
      /\ t.open_files_count = s.open_files_count
      /\ t.to_terminate = s.to_terminate /\ simulation_jobs' = simulation_jobs
  BY TruncateFields
<1>2. PICK f \in File : s.creating = {f}
  <2>1. \E g : g \in s.creating
    BY DEF TruncateEffect
  <2>2. QED  BY <2>1 DEF RunInv
<1>3. \A g : InRun(j, g)' <=> InRun(j, g)
  BY <1>1 DEF InRun
<1>4. IsFiniteSet(t.open)
  BY <1>1, <1>2, FS_AddElement DEF RunInv
<1>5. t.open \in SUBSET t.made /\ t.creating = {}
  BY <1>1 DEF RunInv
<1>6. Writing(j)' = Writing(j)
  BY <1>1 DEF Writing
<1>7. j \in DOMAIN simulation_jobs' =>
          /\ \A g \in t.made : InRun(j, g)'
          /\ \A g \in t.made, h \in File : InRun(j, h)' /\ Nr[h] < Nr[g] => h \in t.made
          /\ ~simulation_jobs'[j].valid <=> t.to_terminate
  BY <1>1, <1>3 DEF RunInv
<1>8. CleanKills => ~t.to_terminate
  BY <1>1, <1>2 DEF RunInv
<1>9. MaxOpenFiles <= 1 => t.open_files_count = 1 /\ \E g \in File : Writing(j)' = {g}
  BY <1>1, <1>2, <1>6 DEF RunInv
<1>10. QED  BY <1>4, <1>5, <1>7, <1>8, <1>9 DEF RunInv

LEMMA RunClose ==
    ASSUME Base, NEW j \in JobId, NEW f \in File, FileCloseEffect(j, f), RunInv(j)
    PROVE  RunInv(j)'
<1> DEFINE s == sims[j]
           t == sims'[j]
<1>1. /\ f \in s.open /\ t.made = s.made /\ t.creating = s.creating /\ t.open = s.open \ {f}
      /\ t.open_files_count = s.open_files_count - 1 /\ t.to_terminate = s.to_terminate
      /\ j \in DOMAIN simulation_jobs
      /\ simulation_jobs'[j].sim_start = simulation_jobs[j].sim_start
      /\ simulation_jobs'[j].sim_stop = simulation_jobs[j].sim_stop
      /\ simulation_jobs'[j].valid = simulation_jobs[j].valid
  BY CloseFields
<1>2. \A g : InRun(j, g)' <=> InRun(j, g)
  BY <1>1 DEF InRun
<1>3. IsFiniteSet(t.open)
  BY <1>1, FS_RemoveElement DEF RunInv
<1>4. /\ t.creating \in SUBSET t.made /\ t.open \in SUBSET t.made /\ t.creating \cap t.open = {}
      /\ t.creating = {} \/ \E g \in File : t.creating = {g}
  BY <1>1 DEF RunInv
<1>5. /\ \A g \in t.made : InRun(j, g)'
      /\ \A g \in t.made, h \in File : InRun(j, h)' /\ Nr[h] < Nr[g] => h \in t.made
      /\ ~simulation_jobs'[j].valid <=> t.to_terminate
  BY <1>1, <1>2 DEF RunInv
<1>6. CleanKills => ~t.to_terminate
  BY <1>1 DEF RunInv
<1>7. MaxOpenFiles <= 1 => t.creating = {} /\ t.open = {} /\ t.open_files_count = 0
  <2> HAVE MaxOpenFiles <= 1
  <2>1. s.open_files_count = 1 /\ s.creating = {} /\ \E g \in File : Writing(j) = {g}
    BY <1>1 DEF RunInv
  <2>2. s.open = {f}
    BY <1>1, <2>1 DEF Writing
  <2>3. QED  BY <1>1, <2>1, <2>2
<1>8. QED  BY <1>3, <1>4, <1>5, <1>6, <1>7 DEF RunInv

LEMMA NextRuns ==
    ASSUME Base, NextEffect, RunsInv
    PROVE  RunsInv'
<1>1. ASSUME NEW j \in JobId, NEW f \in File, Writes(j, f) PROVE RunsInv'
  <2>1. RunInv(j)'
    BY <1>1, RunCreate, RunKilled, RunTruncate, RunClose DEF Writes, RunsInv
  <2>2. \A i \in JobId : i # j => RunInv(i)'
    BY <1>1, OthersStay, RunStays DEF RunsInv
  <2>3. QED  BY <2>1, <2>2 DEF RunsInv
<1>2. ASSUME \/ \E c \in Client : ClientEffect(c)
             \/ \E j \in JobId : FinalizeEffect(j) \/ CrashEffect(j)
      PROVE  RunsInv'
  <2>1. ASSUME NEW i \in JobId PROVE RunInv(i)'
    <3>1. SimStays(i) /\ (JobStays(i) \/ JobIsNew(i))
      BY <1>2, AllStay
    <3>2. CASE JobIsNew(i)
      BY <3>1, <3>2, RunBegins DEF JobIsNew
    <3>3. QED  BY <3>1, <3>2, RunStays DEF RunsInv
  <2>2. QED  BY <2>1 DEF RunsInv
<1>3. File # {}
  BY DVAssumption
<1>4. QED
  BY <1>1, <1>2, <1>3 DEF NextEffect, SimulatorEffect, Writes

LEMMA InitRuns == Init => RunsInv
<1> SUFFICES ASSUME Init, NEW i \in JobId PROVE RunInv(i)
  BY DEF RunsInv
<1>1. sims[i] = NewSimulator /\ i \notin DOMAIN simulation_jobs
  BY DEF Init
<1>2. /\ sims[i].made = {} /\ sims[i].creating = {} /\ sims[i].open = {}
      /\ sims[i].open_files_count = 0 /\ ~sims[i].to_terminate
  BY <1>1 DEF NewSimulator
<1>3. IsFiniteSet(sims[i].open)
  BY <1>2, FS_EmptySet
<1>4. QED  BY <1>1, <1>2, <1>3 DEF RunInv

LEMMA Runs == Spec => []RunsInv
<1>1. Init => RunsInv
  BY InitRuns
<1>2. Base /\ RunsInv /\ [Next]_vars => RunsInv'
  <2>1. ASSUME RunsInv, UNCHANGED vars PROVE RunsInv'
    BY <2>1 DEF vars, RunsInv, RunInv, Writing, InRun
  <2>2. QED  BY <2>1, NextRuns, NextBase
<1>3. QED  BY <1>1, <1>2, Structure, PTL DEF Spec
-----------------------------------------------------------------------------
\* The simulators that write a file.

Writers(f) == {j \in JobId : f \in Writing(j)}

(* What clients do leaves data, availability and the simulators' counts    *)
(* alone, and a file the cache knows stays known.                          *)
LEMMA ClientCache ==
    ASSUME Base, NEW c \in Client, ClientEffect(c)
    PROVE  /\ \A g \in File : /\ cache'.fd[g].used = cache.fd[g].used
                              /\ cache'.fd[g].file_available = cache.fd[g].file_available
           /\ cache'.disk = cache.disk /\ cache'.lru = cache.lru
           /\ cache.waiting \subseteq cache'.waiting
<1>1. cache \in CacheType /\ cache.fd \in [File -> Descriptor]
  BY TypedFields DEF Base
<1>2. PICK h \in File : h = cl[c].file
  BY ClientFields DEF Base
<1>3. PICK f \in File :
         \/ cache' = cache
         \/ cache'.fd = [cache.fd EXCEPT ![f] = lock(cache.fd[f])]
         \/ cache'.fd = [cache.fd EXCEPT ![f] = unlock(cache.fd[f])]
         \/ cache'.fd = [cache.fd EXCEPT ![f] = appendNotificationSocket(cache.fd[f], c)]
  <2>1. CASE \E f \in File : OpenEffect(c, f)
    BY <2>1 DEF OpenEffect
  <2>2. CASE GetEffect(c) \/ CloseEffect(c) \/ CloseMetaEffect(c)
    BY <1>2, <2>2 DEF GetEffect, CloseEffect, CloseMetaEffect
  <2>3. QED  BY <2>1, <2>2 DEF ClientEffect
<1>4. cache.fd[f] \in Descriptor
  BY <1>1
<1> DEFINE l == lock(cache.fd[f])
           u == unlock(cache.fd[f])
           a == appendNotificationSocket(cache.fd[f], c)
<1>5. /\ l.used = cache.fd[f].used /\ l.file_available = cache.fd[f].file_available
      /\ u.used = cache.fd[f].used /\ u.file_available = cache.fd[f].file_available
      /\ a.used = cache.fd[f].used /\ a.file_available = cache.fd[f].file_available
  BY <1>4 DEF Descriptor, lock, unlock, appendNotificationSocket
<1> HIDE DEF l, u, a
<1>6. \A g \in File : /\ cache'.fd[g].used = cache.fd[g].used
                      /\ cache'.fd[g].file_available = cache.fd[g].file_available
  BY <1>1, <1>3, <1>5, OneDescriptorChanges DEF l, u, a
<1>7. cache'.disk = cache.disk /\ cache'.lru = cache.lru /\ cache.waiting \subseteq cache'.waiting
  BY DEF ClientEffect, OpenEffect, GetEffect, CloseEffect, CloseMetaEffect
<1>8. QED  BY <1>6, <1>7

LEMMA CreateCache ==
    ASSUME Base, NEW j \in JobId, NEW f \in File, CreateEffect(j, f)
    PROVE  LET counted == InRange(simulation_jobs[j], Nr[f]) \/ Known(cache, f)
           IN  /\ \A g \in File : cache'.fd[g].file_available = cache.fd[g].file_available
               /\ \A g \in File : g # f => cache'.fd[g].used = cache.fd[g].used
               /\ cache'.fd[f].used = IF counted THEN cache.fd[f].used + 1 ELSE cache.fd[f].used
               /\ cache'.disk = cache.disk /\ cache'.lru = cache.lru
               /\ cache.waiting \subseteq cache'.waiting
               /\ InRange(simulation_jobs[j], Nr[f]) => Known(cache', f)
<1> DEFINE d == setFileUsedBySimulator(cache.fd[f], TRUE)
           inRange == InRange(simulation_jobs[j], Nr[f])
           counted == inRange \/ Known(cache, f)
<1>1. cache \in CacheType /\ cache.fd \in [File -> Descriptor] /\ cache.fd[f] \in Descriptor
  BY TypedFields DEF Base
<1>2. nrIsInSimulationRange(simulation_jobs[j], Nr[f]) <=> inRange
  <2>1. simulation_jobs[j] \in SimJobType
    BY TypedFields DEF Base, CreateEffect
  <2>2. QED  BY <2>1, JobFields DEF nrIsInSimulationRange
<1>3. d.used = cache.fd[f].used + 1 /\ d.file_available = cache.fd[f].file_available
  BY <1>1 DEF Descriptor, setFileUsedBySimulator
<1>4. /\ cache'.fd = IF counted THEN [cache.fd EXCEPT ![f] = d] ELSE cache.fd
      /\ cache'.disk = cache.disk /\ cache'.lru = cache.lru
      /\ cache'.waiting = IF inRange /\ ~Known(cache, f) THEN cache.waiting \cup {f} ELSE cache.waiting
  BY <1>2 DEF CreateEffect
<1> HIDE DEF d, inRange
<1>5. \A g \in File : g # f => cache'.fd[g] = cache.fd[g]
  BY <1>1, <1>4
<1>6. cache'.fd[f] = IF counted THEN d ELSE cache.fd[f]
  BY <1>1, <1>4
<1>7. inRange => Known(cache', f)
  BY <1>4 DEF Known, Cached
<1>8. QED  BY <1>3, <1>4, <1>5, <1>6, <1>7 DEF inRange

LEMMA CloseCache ==
    ASSUME Base, NEW j \in JobId, NEW f \in File, FileCloseEffect(j, f)
    PROVE  /\ \A g \in File : g # f => /\ cache'.fd[g].used = cache.fd[g].used
                                       /\ \/ cache'.fd[g] = cache.fd[g] /\ cache'.disk[g] = cache.disk[g]
                                          \/ cache'.fd[g] = NoDescriptor /\ cache'.disk[g] = "absent"
                                             /\ g \in Cached(cache) /\ Evictable(cache.fd[g])
           /\ cache'.fd[f].used = IF cache.fd[f].used > 0 THEN cache.fd[f].used - 1 ELSE 0
           /\ cache'.disk[f] = DiskAfterClose(j, f)
           /\ cache'.fd[f].file_available =
                 (cache.fd[f].file_available \/ InRange(simulation_jobs[j], Nr[f]))
<1> DEFINE inRange == InRange(simulation_jobs[j], Nr[f])
<1>1. cache \in CacheType /\ cache.fd \in [File -> Descriptor] /\ cache.fd[f] \in Descriptor
      /\ cache.disk \in [File -> DiskState] /\ \A g \in File : cache.fd[g].used \in Nat
  BY TypedFields DEF Base, Descriptor
<1>2. nrIsInSimulationRange(simulation_jobs[j], Nr[f]) <=> inRange
  <2>1. simulation_jobs[j] \in SimJobType
    BY TypedFields DEF Base, FileCloseEffect
  <2>2. QED  BY <2>1, JobFields DEF nrIsInSimulationRange
<1>3. ASSUME NEW V, ClosedInRange(j, f, V), inRange
      PROVE  /\ \A g \in File : g # f => /\ cache'.fd[g].used = cache.fd[g].used
                                         /\ \/ cache'.fd[g] = cache.fd[g] /\ cache'.disk[g] = cache.disk[g]
                                            \/ cache'.fd[g] = NoDescriptor /\ cache'.disk[g] = "absent"
                                               /\ g \in Cached(cache) /\ Evictable(cache.fd[g])
             /\ cache'.fd[f].used = IF cache.fd[f].used > 0 THEN cache.fd[f].used - 1 ELSE 0
             /\ cache'.disk[f] = DiskAfterClose(j, f)
             /\ cache'.fd[f].file_available
  <2>1. /\ V \subseteq Cached(cache) /\ f \notin V
        /\ \A v \in V : Evictable(cache.fd[v])
        /\ cache'.fd = [g \in File |-> IF g = f THEN Closed(cache.fd[f])
                                       ELSE IF g \in V THEN NoDescriptor ELSE cache.fd[g]]
        /\ cache'.disk = [g \in File |-> IF g \in V THEN "absent"
                                         ELSE IF g = f THEN DiskAfterClose(j, f) ELSE cache.disk[g]]
    BY <1>3 DEF ClosedInRange
  <2>2. /\ cache'.fd[f] = Closed(cache.fd[f]) /\ cache'.disk[f] = DiskAfterClose(j, f)
        /\ \A g \in File : g # f =>
              \/ g \notin V /\ cache'.fd[g] = cache.fd[g] /\ cache'.disk[g] = cache.disk[g]
              \/ g \in V /\ cache'.fd[g] = NoDescriptor /\ cache'.disk[g] = "absent"
    BY <2>1
  <2>3. \A v \in V : v \in Cached(cache) /\ Evictable(cache.fd[v])
    BY <2>1
  <2>4. ASSUME NEW g \in V, g \in File PROVE cache.fd[g].used = 0
    BY <1>1, <2>3, <2>4 DEF Evictable, isFileUsedBySimulator
  <2>5. NoDescriptor.used = 0
    BY DEF NoDescriptor
  <2>6. /\ Closed(cache.fd[f]).used = IF cache.fd[f].used > 0 THEN cache.fd[f].used - 1
                                      ELSE cache.fd[f].used
        /\ Closed(cache.fd[f]).file_available
    BY <1>1 DEF Closed, Descriptor, removeAllNotificationSockets, setFileUsedBySimulator, setFileAvailable
  <2>7. Closed(cache.fd[f]).used = IF cache.fd[f].used > 0 THEN cache.fd[f].used - 1 ELSE 0
    BY <1>1, <2>6
  <2>8. QED  BY <2>2, <2>3, <2>4, <2>5, <2>6, <2>7
<1>4. ASSUME ClosedOutOfRange(j, f), ~inRange
      PROVE  /\ \A g \in File : g # f => cache'.fd[g] = cache.fd[g] /\ cache'.disk[g] = cache.disk[g]
             /\ cache'.fd[f].used = IF cache.fd[f].used > 0 THEN cache.fd[f].used - 1 ELSE 0
             /\ cache'.disk[f] = DiskAfterClose(j, f)
             /\ cache'.fd[f].file_available = cache.fd[f].file_available
  <2> DEFINE d == setFileUsedBySimulator(cache.fd[f], FALSE)
  <2>1. cache'.fd = [cache.fd EXCEPT ![f] = d]
        /\ cache'.disk = [cache.disk EXCEPT ![f] = DiskAfterClose(j, f)]
    BY <1>4 DEF ClosedOutOfRange
  <2>2. /\ d.used = IF cache.fd[f].used > 0 THEN cache.fd[f].used - 1 ELSE cache.fd[f].used
        /\ d.file_available = cache.fd[f].file_available
    BY <1>1 DEF Descriptor, setFileUsedBySimulator
  <2> HIDE DEF d
  <2>3. /\ cache'.fd[f] = d /\ cache'.disk[f] = DiskAfterClose(j, f)
        /\ \A g \in File : g # f => cache'.fd[g] = cache.fd[g] /\ cache'.disk[g] = cache.disk[g]
    BY <1>1, <2>1
  <2>4. d.used = IF cache.fd[f].used > 0 THEN cache.fd[f].used - 1 ELSE 0
    BY <1>1, <2>2
  <2>5. QED  BY <2>2, <2>3, <2>4
<1> HIDE DEF inRange
<1>5. \/ inRange /\ \E V : ClosedInRange(j, f, V)
      \/ ~inRange /\ ClosedOutOfRange(j, f)
  BY <1>2, Zenon DEF FileCloseEffect
<1>6. cache.fd[f].file_available \in BOOLEAN
  BY <1>1 DEF Descriptor
<1>7. CASE inRange /\ \E V : ClosedInRange(j, f, V)
  BY <1>3, <1>6, <1>7 DEF inRange
<1>8. CASE ~inRange /\ ClosedOutOfRange(j, f)
  BY <1>4, <1>6, <1>8 DEF inRange
<1>9. QED  BY <1>5, <1>7, <1>8

(* A file's count is the number of simulators that write it, where no      *)
(* simulator writes past its range or after a kill.                        *)
CountInv ==
    Overshoot = 0 /\ CleanKills =>
        \A f \in File : cache.fd[f].used = Cardinality(Writers(f))

LEMMA WritersFinite ==
    /\ \A f : IsFiniteSet(Writers(f)) /\ Cardinality(Writers(f)) \in Nat
    /\ \A f : IsFiniteSet(Writers(f)') /\ Cardinality(Writers(f)') \in Nat
<1>1. \A f : Writers(f) \in SUBSET JobId /\ Writers(f)' \in SUBSET JobId
  BY DEF Writers
<1>2. QED  BY <1>1, ClientSetsFinite, FS_Subset, FS_CardinalityType

LEMMA SameWriters ==
    ASSUME \A i \in JobId : sims'[i].creating \cup sims'[i].open = Writing(i)
    PROVE  \A f : Writers(f)' = Writers(f)
BY DEF Writers, Writing

(* Where kills are clean a simulator that makes a file has a valid job.    *)
LEMMA CreatesForValidJob ==
    ASSUME Base, RunsInv, CleanKills, NEW j \in JobId, NEW f \in File, CreateEffect(j, f)
    PROVE  simulation_jobs[j].valid /\ ~sims[j].to_terminate
<1>1. ~MustTerminate(j) /\ j \in DOMAIN simulation_jobs
  BY DEF CreateEffect
<1>2. simulation_jobs[j].valid \in BOOLEAN /\ sims[j].to_terminate \in BOOLEAN
  BY <1>1, TypedFields, JobFields DEF Base, SimulatorProcess
<1>3. QED  BY <1>1, <1>2 DEF RunsInv, RunInv, MustTerminate

LEMMA KilledWritesNothing ==
    ASSUME Base, RunsInv, CleanKills, NEW j \in JobId, NEW f \in File, CreateKilledEffect(j, f)
    PROVE  sims[j].creating \cup sims[j].open = {} /\ sims'[j].creating \cup sims'[j].open = {}
<1>1. RunInv(j)'
  BY RunKilled DEF RunsInv
<1>2. sims'[j].to_terminate /\ sims'[j].open = sims[j].open /\ sims[j].creating = {}
  BY KilledFields
<1>3. QED  BY <1>1, <1>2 DEF RunInv

LEMMA NextCount ==
    ASSUME Base, RunsInv, CountInv, NextEffect
    PROVE  CountInv'
<1> SUFFICES ASSUME Overshoot = 0, CleanKills
             PROVE  \A g \in File : cache'.fd[g].used = Cardinality(Writers(g)')
  BY DEF CountInv
<1>0. \A g \in File : cache.fd[g].used = Cardinality(Writers(g))
  BY DEF CountInv
<1>1. ASSUME NEW j \in JobId, NEW f \in File, CreateEffect(j, f)
      PROVE  \A g \in File : cache'.fd[g].used = Cardinality(Writers(g)')
  <2>1. \A i \in JobId : i # j => sims'[i] = sims[i]
    BY <1>1, OthersStay DEF Writes
  <2>2. /\ f \notin sims[j].made /\ sims[j].creating = {}
        /\ sims'[j].creating = {f} /\ sims'[j].open = sims[j].open
    BY <1>1, CreateFields
  <2>3. f \notin Writing(j) /\ Writing(j)' = Writing(j) \cup {f}
    BY <2>2 DEF RunsInv, RunInv, Writing
  <2>4. /\ Writers(f)' = Writers(f) \cup {j} /\ j \notin Writers(f)
        /\ \A g \in File : g # f => Writers(g)' = Writers(g)
    BY <2>1, <2>3 DEF Writers, Writing
  <2>5. Cardinality(Writers(f)') = Cardinality(Writers(f)) + 1
    BY <2>4, WritersFinite, FS_AddElement
  <2>6. InRange(simulation_jobs[j], Nr[f])
    <3>1. simulation_jobs[j] \in SimJobType /\ Nr[f] \in Nat
      BY <1>1, TypedFields DEF Base, CreateEffect
    <3>2. /\ simulation_jobs[j].sim_start <= Nr[f]
          /\ Nr[f] <= simulation_jobs[j].sim_stop + Overshoot
      BY <1>1 DEF CreateEffect, MayCreate
    <3>3. simulation_jobs[j].valid
      BY <1>1, CreatesForValidJob
    <3>4. simulation_jobs[j].sim_stop \in Nat
      BY <3>1 DEF SimJobType
    <3>5. Nr[f] <= simulation_jobs[j].sim_stop
      BY <3>2, <3>4
    <3>6. QED  BY <3>2, <3>3, <3>5 DEF InRange
  <2>7. /\ cache'.fd[f].used = cache.fd[f].used + 1
        /\ \A g \in File : g # f => cache'.fd[g].used = cache.fd[g].used
    BY <1>1, <2>6, CreateCache
  <2>8. QED  BY <1>0, <2>4, <2>5, <2>7
<1>2. ASSUME NEW j \in JobId, NEW f \in File, CreateKilledEffect(j, f)
      PROVE  \A g \in File : cache'.fd[g].used = Cardinality(Writers(g)')
  <2>1. \A i \in JobId : i # j => sims'[i] = sims[i]
    BY <1>2, OthersStay DEF Writes
  <2>2. sims[j].creating \cup sims[j].open = {} /\ sims'[j].creating \cup sims'[j].open = {}
    BY <1>2, KilledWritesNothing
  <2>3. \A g : Writers(g)' = Writers(g)
    BY <2>1, <2>2, SameWriters DEF Writing
  <2>4. cache' = cache
    BY <1>2 DEF CreateKilledEffect
  <2>5. QED  BY <1>0, <2>3, <2>4
<1>3. ASSUME NEW j \in JobId, TruncateEffect(j)
      PROVE  \A g \in File : cache'.fd[g].used = Cardinality(Writers(g)')
  <2>1. \A i \in JobId : i # j => sims'[i] = sims[i]
    BY <1>3, OthersStay, DVAssumption DEF Writes
  <2>2. sims'[j].creating = {} /\ sims'[j].open = sims[j].open \cup sims[j].creating
    BY <1>3, TruncateFields
  <2>3. \A g : Writers(g)' = Writers(g)
    BY <2>1, <2>2, SameWriters DEF Writing
  <2>4. cache'.fd = cache.fd
    BY <1>3 DEF TruncateEffect
  <2>5. QED  BY <1>0, <2>3, <2>4
<1>4. ASSUME NEW j \in JobId, NEW f \in File, FileCloseEffect(j, f)
      PROVE  \A g \in File : cache'.fd[g].used = Cardinality(Writers(g)')
  <2>1. \A i \in JobId : i # j => sims'[i] = sims[i]
    BY <1>4, OthersStay DEF Writes
  <2>2. f \in sims[j].open /\ sims'[j].creating = sims[j].creating /\ sims'[j].open = sims[j].open \ {f}
    BY <1>4, CloseFields
  <2>3. f \in Writing(j) /\ Writing(j)' = Writing(j) \ {f}
    BY <2>2 DEF RunsInv, RunInv, Writing
  <2>4. /\ Writers(f)' = Writers(f) \ {j} /\ j \in Writers(f)
        /\ \A g \in File : g # f => Writers(g)' = Writers(g)
    BY <2>1, <2>3 DEF Writers, Writing
  <2>5. Cardinality(Writers(f)') = Cardinality(Writers(f)) - 1
    BY <2>4, WritersFinite, FS_RemoveElement
  <2>6. /\ cache'.fd[f].used = IF cache.fd[f].used > 0 THEN cache.fd[f].used - 1 ELSE 0
        /\ \A g \in File : g # f => cache'.fd[g].used = cache.fd[g].used
    BY <1>4, CloseCache
  <2>7. Cardinality(Writers(f)') \in Nat /\ Cardinality(Writers(f)) \in Nat
    BY WritersFinite
  <2>8. QED  BY <1>0, <2>4, <2>5, <2>6, <2>7
<1>5. ASSUME \/ \E c \in Client : ClientEffect(c)
             \/ \E j \in JobId : FinalizeEffect(j) \/ CrashEffect(j)
      PROVE  \A g \in File : cache'.fd[g].used = Cardinality(Writers(g)')
  <2>1. \A g : Writers(g)' = Writers(g)
    BY <1>5, AllStay, SameWriters DEF SimStays, Writing
  <2>2. \A g \in File : cache'.fd[g].used = cache.fd[g].used
    BY <1>5, ClientCache DEF FinalizeEffect, CrashEffect
  <2>3. QED  BY <1>0, <2>1, <2>2
<1>6. QED
  BY <1>1, <1>2, <1>3, <1>4, <1>5 DEF NextEffect, SimulatorEffect

LEMMA Counts == Spec => []CountInv
<1>1. Init => CountInv
  <2> SUFFICES ASSUME Init, NEW f \in File PROVE cache.fd[f].used = Cardinality(Writers(f))
    BY DEF CountInv
  <2>1. cache.fd[f] = NoDescriptor /\ \A i \in JobId : sims[i] = NewSimulator
    BY DEF Init
  <2>2. Writers(f) = {}
    BY <2>1 DEF Writers, Writing, NewSimulator
  <2>3. QED  BY <2>1, <2>2, FS_EmptySet DEF NoDescriptor
<1>2. Base /\ RunsInv /\ CountInv /\ [Next]_vars => CountInv'
  <2>1. ASSUME CountInv, UNCHANGED vars PROVE CountInv'
    BY <2>1 DEF vars, CountInv, Writers, Writing
  <2>2. QED  BY <2>1, NextCount, NextBase
<1>3. QED  BY <1>1, <1>2, Structure, Runs, PTL DEF Spec

(* The assertion of the close handler never fails: every file a simulator  *)
(* closes has a descriptor, however clients, evictions, other simulators,  *)
(* kills and crashes come in between, if no simulator writes past its      *)
(* range and none is killed with a file open.  In the other cases a close  *)
(* that was not counted takes the count of another simulator's file away.  *)
THEOREM ClosedFilesKnown ==
    ASSUME Overshoot = 0, CleanKills
    PROVE  Spec => []ClosedFilesAreKnown
<1>1. Base /\ CountInv => ClosedFilesAreKnown
  <2> SUFFICES ASSUME Base, CountInv, NEW j \in DOMAIN simulation_jobs, NEW f \in sims[j].open
               PROVE  Known(cache, f)
    BY DEF ClosedFilesAreKnown
  <2>1. j \in JobId /\ f \in File
    <3>1. j \in JobId /\ sims[j] \in SimulatorProcess
      BY TypedFields DEF Base
    <3>2. QED  BY <3>1 DEF SimulatorProcess
  <2>2. j \in Writers(f)
    BY <2>1 DEF Writers, Writing
  <2>3. cache.fd[f].used # 0
    BY <2>1, <2>2, WritersFinite, FS_EmptySet DEF CountInv
  <2>4. QED  BY <2>1, <2>3 DEF Base, CacheInv, NoDescriptor
<1>2. QED  BY <1>1, Structure, Counts, PTL
-----------------------------------------------------------------------------
\* What is waited for is being made.

\* Simulator j has f open, or will make it before it can be killed.
Serves(j, f) ==
    /\ j \in DOMAIN simulation_jobs /\ InRange(simulation_jobs[j], Nr[f])
    /\ sims[j].phase \in {"none", "running"}
    /\ \/ f \in Writing(j)
       \/ f \notin sims[j].made /\ Nr[f] <= simulation_jobs[j].min_sim_target

(* The count down of a job has begun only when it is past its target; and  *)
(* the steps it has made and is not writing are recorded as produced.      *)
PromiseInv(j) ==
    j \in DOMAIN simulation_jobs /\ simulation_jobs[j].valid =>
        /\ simulation_jobs[j].time_to_kill < sim_kill_threshold =>
              /\ simulation_jobs[j].min_sim_target < simulation_jobs[j].last_nr
              /\ \E g \in sims[j].made : Nr[g] = simulation_jobs[j].last_nr
        /\ \A f \in sims[j].made : InRange(simulation_jobs[j], Nr[f]) =>
              IF f \in Writing(j) THEN simulation_jobs[j].last_nr = Nr[f]
              ELSE Nr[f] \in simulation_jobs[j].produced

Reliable == MaxOpenFiles <= 1 /\ MaxCrashes = 0

NoCrash == \A j \in JobId : sims[j].phase # "crashed"

ServedInv ==
    \A f \in cache.waiting : cache.fd[f].file_available \/ \E j \in JobId : Serves(j, f)

WaitInv == Reliable => NoCrash /\ (\A j \in JobId : PromiseInv(j)) /\ ServedInv

(* What the steps of clients, and the end of a job, do to the targets.     *)
LEMMA Targets ==
    ASSUME Base,
           \/ \E c \in Client : ClientEffect(c)
           \/ \E j \in JobId : FinalizeEffect(j) \/ CrashEffect(j),
           NEW i \in JobId, i \in DOMAIN simulation_jobs'
    PROVE  \/ JobIsNew(i)
           \/ /\ i \in DOMAIN simulation_jobs
              /\ simulation_jobs[i].min_sim_target <= simulation_jobs'[i].min_sim_target
              /\ \/ /\ simulation_jobs'[i].time_to_kill = simulation_jobs[i].time_to_kill
                    /\ simulation_jobs'[i].min_sim_target = simulation_jobs[i].min_sim_target
                 \/ simulation_jobs'[i].time_to_kill = sim_kill_threshold
<1>0. Typed /\ simulation_jobs \in [DOMAIN simulation_jobs -> SimJobType]
  BY TypedFields DEF Base
<1> DEFINE Kept == /\ i \in DOMAIN simulation_jobs
                   /\ simulation_jobs[i].min_sim_target <= simulation_jobs'[i].min_sim_target
                   /\ \/ /\ simulation_jobs'[i].time_to_kill = simulation_jobs[i].time_to_kill
                         /\ simulation_jobs'[i].min_sim_target = simulation_jobs[i].min_sim_target
                      \/ simulation_jobs'[i].time_to_kill = sim_kill_threshold
<1>1. ASSUME i \in DOMAIN simulation_jobs, simulation_jobs'[i] = simulation_jobs[i] PROVE Kept
  <2>1. simulation_jobs[i].min_sim_target \in Int
    BY <1>0, <1>1 DEF SimJobType
  <2>2. QED  BY <1>1, <2>1
<1>2. ASSUME NEW c \in Client, GetEffect(c) \/ CloseEffect(c) \/ CloseMetaEffect(c) PROVE Kept
  <2>1. simulation_jobs' = simulation_jobs
    BY <1>2 DEF GetEffect, CloseEffect, CloseMetaEffect
  <2>2. QED  BY <1>1, <2>1
<1>3. ASSUME NEW c \in Client, NEW f \in File, OpenEffect(c, f) PROVE JobIsNew(i) \/ Kept
  <2>1. CASE MissEffect(Nr[f])
    <3>1. CASE i = conncount + 1
      <4>1. /\ i \notin DOMAIN simulation_jobs /\ i = conncount' /\ simulation_jobs'[i] = NewJob(Nr[f])
        BY <2>1, <3>1 DEF MissEffect
      <4>2. i > conncount
        BY <3>1, <1>0, TypedFields
      <4>3. sims[i] = NewSimulator
        BY <4>2 DEF Base, JobsInv
      <4>4. QED  BY <3>1, <4>1, <4>3 DEF JobIsNew
    <3>2. CASE i # conncount + 1
      <4>1. i \in DOMAIN simulation_jobs /\ simulation_jobs'[i] = simulation_jobs[i]
        BY <2>1, <3>2 DEF MissEffect
      <4>2. QED  BY <1>1, <4>1
    <3>3. QED  BY <3>1, <3>2
  <2>2. CASE simulation_jobs' = simulation_jobs
    BY <1>1, <2>2
  <2>3. ASSUME NEW j \in Producing(f),
               simulation_jobs' = [simulation_jobs EXCEPT ![j] =
                   handleClientFileOpen(simulation_jobs[j], Nr[f], sim_kill_threshold)]
        PROVE  Kept
    <3> DEFINE job == handleClientFileOpen(simulation_jobs[j], Nr[f], sim_kill_threshold)
    <3>1. j \in DOMAIN simulation_jobs
      BY DEF Producing
    <3>2. simulation_jobs[j] \in SimJobType /\ Nr[f] \in Nat
      BY <1>0, <3>1, TypedFields
    <3>3. /\ job.time_to_kill = sim_kill_threshold
          /\ job.min_sim_target = IntMax(simulation_jobs[j].min_sim_target, Nr[f])
      BY <3>2 DEF handleClientFileOpen, SimJobType
    <3>4. simulation_jobs[j].min_sim_target \in Int
      BY <3>2 DEF SimJobType
    <3>5. simulation_jobs[j].min_sim_target <= job.min_sim_target
      BY <3>2, <3>3, <3>4 DEF IntMax
    <3> HIDE DEF job
    <3>6. /\ DOMAIN simulation_jobs' = DOMAIN simulation_jobs /\ simulation_jobs'[j] = job
          /\ \A k \in DOMAIN simulation_jobs : k # j => simulation_jobs'[k] = simulation_jobs[k]
      BY <1>0, <2>3, <3>1 DEF job
    <3>7. CASE i = j
      BY <3>1, <3>3, <3>5, <3>6, <3>7
    <3>8. CASE i # j
      BY <1>1, <3>6, <3>8
    <3>9. QED  BY <3>7, <3>8
  <2>4. QED  BY <1>3, <2>1, <2>2, <2>3 DEF OpenEffect
<1>4. ASSUME NEW j \in JobId, CrashEffect(j) PROVE Kept
  <2>1. simulation_jobs' = simulation_jobs
    BY <1>4 DEF CrashEffect
  <2>2. QED  BY <1>1, <2>1
<1>5. ASSUME NEW j \in JobId, FinalizeEffect(j) PROVE Kept
  <2>1. i \in DOMAIN simulation_jobs /\ simulation_jobs'[i] = simulation_jobs[i]
    BY <1>5 DEF FinalizeEffect
  <2>2. QED  BY <1>1, <2>1
<1> HIDE DEF Kept
<1>6. JobIsNew(i) \/ Kept
  BY <1>2, <1>3, <1>4, <1>5 DEF ClientEffect
<1>7. QED  BY <1>6 DEF Kept

LEMMA PromiseStays ==
    ASSUME Base, NEW i \in JobId, PromiseInv(i), SimStays(i), JobStays(i),
           i \in DOMAIN simulation_jobs' =>
              \/ /\ simulation_jobs'[i].time_to_kill = simulation_jobs[i].time_to_kill
                 /\ simulation_jobs'[i].min_sim_target = simulation_jobs[i].min_sim_target
              \/ simulation_jobs'[i].time_to_kill = sim_kill_threshold
    PROVE  PromiseInv(i)'
<1> SUFFICES ASSUME i \in DOMAIN simulation_jobs', simulation_jobs'[i].valid
             PROVE  /\ simulation_jobs'[i].time_to_kill < sim_kill_threshold =>
                          /\ simulation_jobs'[i].min_sim_target < simulation_jobs'[i].last_nr
                          /\ \E g \in sims'[i].made : Nr[g] = simulation_jobs'[i].last_nr
                    /\ \A f \in sims'[i].made : InRange(simulation_jobs'[i], Nr[f]) =>
                          IF f \in Writing(i)' THEN simulation_jobs'[i].last_nr = Nr[f]
                          ELSE Nr[f] \in simulation_jobs'[i].produced
  BY DEF PromiseInv
<1>1. /\ i \in DOMAIN simulation_jobs /\ simulation_jobs[i].valid
      /\ simulation_jobs'[i].last_nr = simulation_jobs[i].last_nr
      /\ simulation_jobs'[i].produced = simulation_jobs[i].produced
  BY DEF JobStays
<1>2. \A nr : InRange(simulation_jobs'[i], nr) <=> InRange(simulation_jobs[i], nr)
  BY DEF InRange, JobStays
<1>3. Writing(i)' = Writing(i) /\ sims'[i].made = sims[i].made
  BY DEF Writing, SimStays
<1>4. sim_kill_threshold \in Nat
  BY DVAssumption
<1>5. /\ simulation_jobs[i].time_to_kill < sim_kill_threshold =>
            /\ simulation_jobs[i].min_sim_target < simulation_jobs[i].last_nr
            /\ \E g \in sims[i].made : Nr[g] = simulation_jobs[i].last_nr
      /\ \A f \in sims[i].made : InRange(simulation_jobs[i], Nr[f]) =>
            IF f \in Writing(i) THEN simulation_jobs[i].last_nr = Nr[f]
            ELSE Nr[f] \in simulation_jobs[i].produced
  BY <1>1 DEF PromiseInv
<1>6. simulation_jobs'[i].time_to_kill < sim_kill_threshold =>
          simulation_jobs[i].time_to_kill < sim_kill_threshold
          /\ simulation_jobs'[i].min_sim_target = simulation_jobs[i].min_sim_target
  BY <1>4
<1>7. QED  BY <1>1, <1>2, <1>3, <1>5, <1>6

LEMMA PromiseBegins ==
    ASSUME NEW i \in JobId, SimStays(i), JobIsNew(i)
    PROVE  PromiseInv(i)'
<1>1. sims'[i].made = {}
  BY DEF SimStays, JobIsNew, NewSimulator
<1>2. simulation_jobs'[i].time_to_kill = sim_kill_threshold
  <2>1. PICK f \in File : simulation_jobs'[i] = NewJob(Nr[f])
    BY DEF JobIsNew
  <2>2. QED  BY <2>1, NewJobProperty, DVAssumption
<1>3. sim_kill_threshold \in Nat
  BY DVAssumption
<1>4. QED  BY <1>1, <1>2, <1>3 DEF PromiseInv

LEMMA PromiseCreate ==
    ASSUME Base, RunsInv, MaxOpenFiles <= 1, NEW j \in JobId, NEW f \in File,
           CreateEffect(j, f), PromiseInv(j)
    PROVE  PromiseInv(j)'
<1> DEFINE job == simulation_jobs[j]
           new == simulation_jobs'[j]
           s == sims[j]
<1>1. /\ f \notin s.made /\ s.creating = {} /\ j \in DOMAIN simulation_jobs
      /\ sims'[j].made = s.made \cup {f}
      /\ sims'[j].open_files_count = s.open_files_count + 1
      /\ new.sim_start = job.sim_start /\ new.sim_stop = job.sim_stop
      /\ new.valid = job.valid /\ new.produced = job.produced
      /\ new.min_sim_target = job.min_sim_target
      /\ new.last_nr = IF InRange(job, Nr[f]) THEN Nr[f] ELSE job.last_nr
      /\ new.time_to_kill = IF InRange(job, Nr[f]) /\ job.time_to_kill > 0 /\ job.min_sim_target < Nr[f]
                            THEN job.time_to_kill - 1 ELSE job.time_to_kill
      /\ sims'[j].creating = {f} /\ sims'[j].open = s.open
  BY CreateFields
<1>2. job \in SimJobType /\ Nr \in [File -> Nat] /\ s \in SimulatorProcess
  BY <1>1, TypedFields DEF Base
<1>3. job.valid
  BY CreatesForValidJob DEF CleanKills
<1>4. RunInv(j) /\ RunInv(j)'
  BY RunCreate DEF RunsInv
<1>5. Writing(j) = {} /\ Writing(j)' = {f}
  <2>1. \E g \in File : Writing(j)' = {g}
    BY <1>1, <1>4 DEF RunInv
  <2>2. f \in Writing(j)' /\ Writing(j)' = {f} \cup s.open
    BY <1>1 DEF Writing
  <2>3. Writing(j)' = {f}
    BY <2>1, <2>2
  <2>4. s.open = {}
    BY <1>1, <1>4, <2>2, <2>3 DEF RunInv
  <2>5. QED  BY <1>1, <2>3, <2>4 DEF Writing
<1>6. /\ job.time_to_kill < sim_kill_threshold =>
            /\ job.min_sim_target < job.last_nr
            /\ \E g \in s.made : Nr[g] = job.last_nr
      /\ \A g \in s.made : InRange(job, Nr[g]) => Nr[g] \in job.produced
  BY <1>1, <1>3, <1>5 DEF PromiseInv
<1>7. \A nr : InRange(new, nr) <=> InRange(job, nr)
  BY <1>1 DEF InRange
<1>8. /\ InRun(j, f)
      /\ \A g \in s.made, h \in File : InRun(j, h) /\ Nr[h] < Nr[g] => h \in s.made
  BY <1>1, <1>4 DEF CreateEffect, MayCreate, InRun, RunInv
<1>9. \A g \in s.made : g \in File /\ Nr[g] \in Nat /\ Nr[g] <= Nr[f]
  <2>1. \A g \in s.made : g \in File
    BY <1>2 DEF SimulatorProcess
  <2>2. QED  BY <1>1, <1>2, <1>8, <2>1
<1>10. Nr[f] \in Nat /\ job.min_sim_target \in Int /\ job.time_to_kill \in Int
       /\ sim_kill_threshold \in Nat
  BY <1>2, DVAssumption DEF SimJobType
<1> HIDE DEF job, new, s
<1>11. new.time_to_kill < sim_kill_threshold =>
          /\ new.min_sim_target < new.last_nr
          /\ \E g \in sims'[j].made : Nr[g] = new.last_nr
  <2> HAVE new.time_to_kill < sim_kill_threshold
  <2>1. CASE InRange(job, Nr[f])
    <3>1. new.last_nr = Nr[f] /\ f \in sims'[j].made
      BY <1>1, <2>1
    <3>2. CASE job.min_sim_target < Nr[f]
      BY <1>1, <3>1, <3>2
    <3>3. CASE ~(job.min_sim_target < Nr[f])
      <4>1. new.time_to_kill = job.time_to_kill
        BY <1>1, <3>3
      <4>2. PICK g \in s.made : Nr[g] = job.last_nr /\ job.min_sim_target < job.last_nr
        BY <1>6, <4>1
      <4>3. Nr[g] <= Nr[f] /\ Nr[g] \in Nat
        BY <1>9
      <4>4. QED  BY <1>10, <3>3, <4>2, <4>3
    <3>4. QED  BY <3>2, <3>3
  <2>2. CASE ~InRange(job, Nr[f])
    <3>1. new.time_to_kill = job.time_to_kill /\ new.last_nr = job.last_nr
      BY <1>1, <2>2
    <3>2. QED  BY <1>1, <1>6, <3>1
  <2>3. QED  BY <2>1, <2>2
<1>12. \A g \in sims'[j].made : InRange(new, Nr[g]) =>
          IF g \in Writing(j)' THEN new.last_nr = Nr[g] ELSE Nr[g] \in new.produced
  BY <1>1, <1>5, <1>6, <1>7
<1>13. QED  BY <1>11, <1>12 DEF PromiseInv, new

LEMMA PromiseClose ==
    ASSUME Base, RunsInv, MaxOpenFiles <= 1, NEW j \in JobId, NEW f \in File,
           FileCloseEffect(j, f), PromiseInv(j)
    PROVE  PromiseInv(j)'
<1> DEFINE job == simulation_jobs[j]
           new == simulation_jobs'[j]
           s == sims[j]
<1>1. /\ f \in s.open /\ j \in DOMAIN simulation_jobs
      /\ sims'[j].made = s.made /\ sims'[j].creating = s.creating /\ sims'[j].open = s.open \ {f}
      /\ new.sim_start = job.sim_start /\ new.sim_stop = job.sim_stop
      /\ new.valid = job.valid /\ new.last_nr = job.last_nr
      /\ new.min_sim_target = job.min_sim_target /\ new.time_to_kill = job.time_to_kill
      /\ new.produced = IF InRange(job, Nr[f]) THEN job.produced \cup {job.last_nr} ELSE job.produced
  BY CloseFields
<1>2. Writing(j) = {f} /\ f \in s.made
  BY <1>1 DEF RunsInv, RunInv, Writing
<1>3. f \notin Writing(j)' /\ \A g : g # f => (g \in Writing(j)' <=> g \in Writing(j))
  BY <1>1, <1>2 DEF RunsInv, RunInv, Writing
<1>4. \A nr : InRange(new, nr) <=> InRange(job, nr)
  BY <1>1 DEF InRange
<1> SUFFICES ASSUME new.valid
             PROVE  /\ new.time_to_kill < sim_kill_threshold =>
                          /\ new.min_sim_target < new.last_nr
                          /\ \E g \in sims'[j].made : Nr[g] = new.last_nr
                    /\ \A g \in sims'[j].made : InRange(new, Nr[g]) =>
                          IF g \in Writing(j)' THEN new.last_nr = Nr[g] ELSE Nr[g] \in new.produced
  BY DEF PromiseInv
<1>5. /\ job.time_to_kill < sim_kill_threshold =>
            /\ job.min_sim_target < job.last_nr
            /\ \E g \in s.made : Nr[g] = job.last_nr
      /\ \A g \in s.made : InRange(job, Nr[g]) =>
            IF g \in Writing(j) THEN job.last_nr = Nr[g] ELSE Nr[g] \in job.produced
  BY <1>1 DEF PromiseInv
<1> HIDE DEF job, new, s
<1>6. QED  BY <1>1, <1>2, <1>3, <1>4, <1>5

LEMMA PromiseKilled ==
    ASSUME Base, NEW j \in JobId, NEW f \in File, CreateKilledEffect(j, f)
    PROVE  PromiseInv(j)'
BY KilledFields DEF PromiseInv

LEMMA PromiseTruncate ==
    ASSUME Base, NEW j \in JobId, TruncateEffect(j), PromiseInv(j)
    PROVE  PromiseInv(j)'
<1>1. sims'[j].made = sims[j].made /\ simulation_jobs' = simulation_jobs
      /\ sims'[j].creating = {} /\ sims'[j].open = sims[j].open \cup sims[j].creating
  BY TruncateFields
<1>2. Writing(j)' = Writing(j)
  BY <1>1 DEF Writing
<1>3. QED  BY <1>1, <1>2 DEF PromiseInv

LEMMA NextPromise ==
    ASSUME Base, RunsInv, MaxOpenFiles <= 1, NextEffect, \A j \in JobId : PromiseInv(j)
    PROVE  \A j \in JobId : PromiseInv(j)'
<1>1. ASSUME NEW j \in JobId, NEW f \in File, Writes(j, f), NEW i \in JobId PROVE PromiseInv(i)'
  <2>1. CASE i = j
    BY <1>1, <2>1, PromiseCreate, PromiseKilled, PromiseTruncate, PromiseClose DEF Writes
  <2>2. CASE i # j
    <3>1. /\ SimStays(i) /\ JobStays(i)
          /\ i \in DOMAIN simulation_jobs => simulation_jobs'[i] = simulation_jobs[i]
          /\ DOMAIN simulation_jobs' = DOMAIN simulation_jobs
      BY <1>1, <2>2, OthersStay
    <3>2. QED  BY <3>1, PromiseStays
  <2>3. QED  BY <2>1, <2>2
<1>2. ASSUME \/ \E c \in Client : ClientEffect(c)
             \/ \E j \in JobId : FinalizeEffect(j) \/ CrashEffect(j),
             NEW i \in JobId
      PROVE  PromiseInv(i)'
  <2>1. SimStays(i) /\ (JobStays(i) \/ JobIsNew(i))
    BY <1>2, AllStay
  <2>2. CASE JobIsNew(i)
    BY <2>1, <2>2, PromiseBegins
  <2>3. CASE ~JobIsNew(i)
    <3>1. JobStays(i)
      BY <2>1, <2>3
    <3>2. i \in DOMAIN simulation_jobs' =>
              \/ /\ simulation_jobs'[i].time_to_kill = simulation_jobs[i].time_to_kill
                 /\ simulation_jobs'[i].min_sim_target = simulation_jobs[i].min_sim_target
              \/ simulation_jobs'[i].time_to_kill = sim_kill_threshold
      BY <1>2, <2>3, Targets
    <3>3. QED  BY <2>1, <3>1, <3>2, PromiseStays
  <2>4. QED  BY <2>2, <2>3
<1>3. File # {}
  BY DVAssumption
<1>4. QED
  BY <1>1, <1>2, <1>3 DEF NextEffect, SimulatorEffect, Writes

LEMMA ServesStays ==
    ASSUME Base, NEW i \in JobId, NEW f \in File, Serves(i, f), SimStays(i), JobStays(i),
           i \in DOMAIN simulation_jobs',
           simulation_jobs[i].min_sim_target <= simulation_jobs'[i].min_sim_target,
           simulation_jobs'[i].min_sim_target \in Int,
           sims'[i].phase \in {"none", "running"}
    PROVE  Serves(i, f)'
<1>1. Writing(i)' = Writing(i) /\ sims'[i].made = sims[i].made
  BY DEF Writing, SimStays
<1>2. InRange(simulation_jobs'[i], Nr[f])
  BY DEF Serves, InRange, JobStays
<1>3. simulation_jobs[i].min_sim_target \in Int /\ Nr[f] \in Int
  <2>1. i \in DOMAIN simulation_jobs /\ Nr[f] \in Nat
    BY TypedFields DEF Base, Serves
  <2>2. simulation_jobs[i] \in SimJobType
    BY <2>1, TypedFields DEF Base
  <2>3. QED  BY <2>1, <2>2 DEF SimJobType
<1>4. Nr[f] <= simulation_jobs[i].min_sim_target => Nr[f] <= simulation_jobs'[i].min_sim_target
  BY <1>3
<1>5. QED  BY <1>1, <1>2, <1>4 DEF Serves

(* Where every step that waits has a simulation, the next step of another  *)
(* simulator leaves it one.                                                *)
LEMMA ServesOthers ==
    ASSUME Base, NEW j \in JobId, NEW f \in File, Writes(j, f),
           NEW i \in JobId, i # j, NEW g \in File, Serves(i, g)
    PROVE  Serves(i, g)'
<1>1. /\ sims'[i] = sims[i] /\ DOMAIN simulation_jobs' = DOMAIN simulation_jobs
      /\ i \in DOMAIN simulation_jobs => simulation_jobs'[i] = simulation_jobs[i]
  BY OthersStay
<1>2. QED  BY <1>1 DEF Serves, Writing

LEMMA ServesCreate ==
    ASSUME Base, NEW j \in JobId, NEW f \in File, CreateEffect(j, f),
           NEW g \in File, Serves(j, g) \/ (g = f /\ InRange(simulation_jobs[j], Nr[f]))
    PROVE  Serves(j, g)'
<1>1. /\ sims'[j].phase = "running" /\ j \in DOMAIN simulation_jobs /\ j \in DOMAIN simulation_jobs'
      /\ sims'[j].made = sims[j].made \cup {f} /\ sims'[j].creating = {f}
      /\ sims'[j].open = sims[j].open /\ sims[j].creating = {}
      /\ simulation_jobs'[j].sim_start = simulation_jobs[j].sim_start
      /\ simulation_jobs'[j].sim_stop = simulation_jobs[j].sim_stop
      /\ simulation_jobs'[j].valid = simulation_jobs[j].valid
      /\ simulation_jobs'[j].min_sim_target = simulation_jobs[j].min_sim_target
  <2>1. j \in DOMAIN simulation_jobs'
    <3>1. simulation_jobs \in [DOMAIN simulation_jobs -> SimJobType]
      BY TypedFields DEF Base
    <3>2. QED  BY <3>1 DEF CreateEffect
  <2>2. QED  BY <2>1, CreateFields
<1>2. \A nr : InRange(simulation_jobs'[j], nr) <=> InRange(simulation_jobs[j], nr)
  BY <1>1 DEF InRange
<1>3. g = f \/ (g \in Writing(j) => g \in Writing(j)')
  BY <1>1 DEF Writing
<1>4. f \in Writing(j)'
  BY <1>1 DEF Writing
<1>5. QED  BY <1>1, <1>2, <1>3, <1>4 DEF Serves

LEMMA ServesTruncate ==
    ASSUME Base, NEW j \in JobId, TruncateEffect(j), NEW g \in File, Serves(j, g)
    PROVE  Serves(j, g)'
<1>1. /\ sims'[j].made = sims[j].made /\ simulation_jobs' = simulation_jobs
      /\ sims'[j].creating = {} /\ sims'[j].open = sims[j].open \cup sims[j].creating
      /\ sims'[j].phase = "running"
  BY TruncateFields
<1>2. Writing(j)' = Writing(j)
  BY <1>1 DEF Writing
<1>3. QED  BY <1>1, <1>2 DEF Serves

LEMMA ServesClose ==
    ASSUME Base, NEW j \in JobId, NEW f \in File, FileCloseEffect(j, f),
           NEW g \in File, g # f, Serves(j, g)
    PROVE  Serves(j, g)'
<1>1. /\ sims'[j].phase = "running" /\ j \in DOMAIN simulation_jobs
      /\ sims'[j].made = sims[j].made /\ sims'[j].creating = sims[j].creating
      /\ sims'[j].open = sims[j].open \ {f}
      /\ simulation_jobs'[j].sim_start = simulation_jobs[j].sim_start
      /\ simulation_jobs'[j].sim_stop = simulation_jobs[j].sim_stop
      /\ simulation_jobs'[j].valid = simulation_jobs[j].valid
      /\ simulation_jobs'[j].min_sim_target = simulation_jobs[j].min_sim_target
  BY CloseFields
<1>2. j \in DOMAIN simulation_jobs'
  <2>1. simulation_jobs \in [DOMAIN simulation_jobs -> SimJobType]
    BY TypedFields DEF Base
  <2>2. QED  BY <1>1, <2>1 DEF FileCloseEffect, ClosedInRange, ClosedOutOfRange
<1>3. InRange(simulation_jobs'[j], Nr[g]) <=> InRange(simulation_jobs[j], Nr[g])
  BY <1>1 DEF InRange
<1>4. g \in Writing(j) => g \in Writing(j)'
  BY <1>1 DEF Writing
<1>5. QED  BY <1>1, <1>2, <1>3, <1>4 DEF Serves

(* A simulator that is killed serves nobody: it is past its target.        *)
LEMMA KilledServesNothing ==
    ASSUME Base, RunsInv, MaxOpenFiles <= 1, NEW j \in JobId, NEW f \in File,
           CreateKilledEffect(j, f), PromiseInv(j), NEW g \in File
    PROVE  ~Serves(j, g)
<1> SUFFICES ASSUME Serves(j, g) PROVE FALSE
  OBVIOUS
<1> DEFINE job == simulation_jobs[j]
<1>1. InRange(job, Nr[g]) /\ job.valid /\ job.sim_start <= Nr[g] /\ Nr[g] <= job.sim_stop
      /\ j \in DOMAIN simulation_jobs
  BY DEF Serves, InRange
<1>2. job \in SimJobType /\ Nr \in [File -> Nat] /\ sims[j] \in SimulatorProcess
  BY <1>1, TypedFields DEF Base
<1>3. Writing(j) = {}
  BY KilledWritesNothing DEF Writing, CleanKills
<1>4. g \notin sims[j].made /\ Nr[g] <= job.min_sim_target
  BY <1>3 DEF Serves
<1>5. sim_kill_threshold > 0 /\ job.time_to_kill <= 0
  BY DEF CreateKilledEffect, hasToBeKilled
<1>6. job.time_to_kill \in Int /\ job.min_sim_target \in Int /\ job.sim_stop \in Nat
      /\ sim_kill_threshold \in Nat /\ Overshoot \in Nat
  BY <1>2, DVAssumption DEF SimJobType
<1>7. job.time_to_kill < sim_kill_threshold
  BY <1>5, <1>6
<1>8. PICK h \in sims[j].made : Nr[h] = job.last_nr /\ job.min_sim_target < job.last_nr
  BY <1>1, <1>7 DEF PromiseInv
<1>9. h \in File /\ Nr[h] \in Nat /\ Nr[g] \in Nat
  BY <1>2 DEF SimulatorProcess
<1>10. Nr[g] < Nr[h]
  BY <1>4, <1>6, <1>8, <1>9
<1>11. InRun(j, g)
  <2>1. Nr[g] <= job.sim_stop + Overshoot
    BY <1>1, <1>6, <1>9
  <2>2. QED  BY <1>1, <2>1 DEF InRun
<1>12. g \in sims[j].made
  BY <1>1, <1>8, <1>10, <1>11 DEF RunsInv, RunInv
<1>13. QED  BY <1>4, <1>12

(* So does one that ends.                                                  *)
LEMMA EndedServesNothing ==
    ASSUME Base, RunsInv, MaxOpenFiles <= 1, NEW j \in JobId, FinalizeEffect(j), NEW g \in File
    PROVE  ~Serves(j, g)
<1> SUFFICES ASSUME Serves(j, g) PROVE FALSE
  OBVIOUS
<1>1. /\ simulation_jobs[j].valid /\ j \in DOMAIN simulation_jobs
      /\ simulation_jobs[j].sim_start <= Nr[g] /\ Nr[g] <= simulation_jobs[j].sim_stop
  BY DEF Serves, InRange
<1>2. ~sims[j].to_terminate
  BY <1>1 DEF RunsInv, RunInv
<1>3. /\ sims[j].creating = {} /\ sims[j].open = {} /\ g \in sims[j].made
  BY <1>1, <1>2 DEF FinalizeEffect, MustTerminate
<1>4. QED  BY <1>3 DEF Serves, Writing

(* The phases a step of a client, or the end of a job, can change.         *)
LEMMA PhaseSteps ==
    ASSUME Base,
           \/ \E c \in Client : ClientEffect(c)
           \/ \E j \in JobId : FinalizeEffect(j),
           NEW i \in JobId
    PROVE  \/ sims'[i] = sims[i]
           \/ sims[i].phase = "none" /\ sims'[i].phase = "running"
           \/ /\ FinalizeEffect(i) /\ sims'[i].phase = "ended"
              /\ i \notin DOMAIN simulation_jobs'
<1>0. Typed
  BY DEF Base
<1>1. ASSUME NEW c \in Client, GetEffect(c) \/ CloseEffect(c) \/ CloseMetaEffect(c)
      PROVE  sims'[i] = sims[i]
  BY <1>1 DEF GetEffect, CloseEffect, CloseMetaEffect
<1>2. ASSUME NEW c \in Client, NEW f \in File, OpenEffect(c, f)
      PROVE  sims'[i] = sims[i] \/ (sims[i].phase = "none" /\ sims'[i].phase = "running")
  <2>1. CASE MissEffect(Nr[f])
    <3>1. CASE i = conncount + 1
      <4>1. i > conncount
        BY <3>1, <1>0, TypedFields
      <4>2. sims[i].phase = "none"
        BY <4>1 DEF Base, JobsInv
      <4>3. sims'[i] = [sims[i] EXCEPT !.phase = "running"] \/ sims'[i] = sims[i]
        BY <2>1 DEF MissEffect
      <4>4. QED  BY <1>0, <4>2, <4>3, PhaseMoves
    <3>2. CASE i # conncount + 1
      BY <2>1, <3>2 DEF MissEffect
    <3>3. QED  BY <3>1, <3>2
  <2>2. CASE sims' = sims
    BY <2>2
  <2>3. QED  BY <1>2, <2>1, <2>2 DEF OpenEffect
<1>3. ASSUME NEW j \in JobId, FinalizeEffect(j)
      PROVE  \/ sims'[i] = sims[i]
             \/ sims[i].phase = "none" /\ sims'[i].phase = "running"
             \/ /\ FinalizeEffect(i) /\ sims'[i].phase = "ended"
                /\ i \notin DOMAIN simulation_jobs'
  <2>1. CASE i = j
    <3>1. sims'[i] = [sims[i] EXCEPT !.phase = "ended"] /\ i \notin DOMAIN simulation_jobs'
      BY <1>3, <2>1 DEF FinalizeEffect
    <3>2. QED  BY <1>0, <1>3, <2>1, <3>1, PhaseMoves
  <2>2. CASE i # j /\ i \in NextJobs(jobqueue)
    <3>1. sims'[i] = [sims[i] EXCEPT !.phase = "running"] /\ sims[i].phase = "none"
      BY <1>3, <2>2 DEF FinalizeEffect
    <3>2. QED  BY <1>0, <3>1, PhaseMoves
  <2>3. CASE i # j /\ i \notin NextJobs(jobqueue)
    BY <1>3, <2>3 DEF FinalizeEffect
  <2>4. QED  BY <2>1, <2>2, <2>3
<1>4. QED  BY <1>1, <1>2, <1>3 DEF ClientEffect

LEMMA NoCrashes ==
    ASSUME Base, MaxCrashes = 0, NEW j \in JobId
    PROVE  ~CrashEffect(j)
<1>1. Cardinality(Phase({"crashed"})) \in Nat
  <2>1. Phase({"crashed"}) \in SUBSET JobId
    BY DEF Phase
  <2>2. QED  BY <2>1, ClientSetsFinite, FS_Subset, FS_CardinalityType
<1>2. QED  BY <1>1 DEF CrashEffect

LEMMA NextNoCrash ==
    ASSUME Base, MaxCrashes = 0, NextEffect, NoCrash
    PROVE  NoCrash'
<1>1. ASSUME NEW j \in JobId, NEW f \in File, Writes(j, f), NEW i \in JobId
      PROVE  sims'[i].phase # "crashed"
  <2>1. CASE i = j
    BY <1>1, <2>1, CreateFields, KilledFields, TruncateFields, CloseFields DEF Writes
  <2>2. CASE i # j
    <3>1. sims'[i] = sims[i]
      BY <1>1, <2>2, OthersStay
    <3>2. QED  BY <3>1 DEF NoCrash
  <2>3. QED  BY <2>1, <2>2
<1>2. ASSUME \/ \E c \in Client : ClientEffect(c)
             \/ \E j \in JobId : FinalizeEffect(j),
             NEW i \in JobId
      PROVE  sims'[i].phase # "crashed"
  BY <1>2, PhaseSteps DEF NoCrash
<1>3. File # {}
  BY DVAssumption
<1>4. QED
  BY <1>1, <1>2, <1>3, NoCrashes DEF NextEffect, SimulatorEffect, Writes, NoCrash

(* A file is opened for the first time: the job it finds, or the new one,  *)
(* will make it.                                                           *)
LEMMA OpenServes ==
    ASSUME Base, NoCrash, \A j \in JobId : PromiseInv(j),
           NEW c \in Client, NEW f \in File, OpenEffect(c, f), ~Known(cache, f)
    PROVE  \E j \in JobId : Serves(j, f)'
<1>0. Typed /\ Nr[f] \in Nat /\ simulation_jobs \in [DOMAIN simulation_jobs -> SimJobType]
      /\ sims \in [JobId -> SimulatorProcess] /\ conncount \in Nat
  BY TypedFields DEF Base
<1>1. CASE MissEffect(Nr[f])
  <2>1. PICK j \in JobId : j = conncount + 1
    BY <1>1 DEF MissEffect
  <2>2. /\ j \in DOMAIN simulation_jobs' /\ simulation_jobs'[j] = NewJob(Nr[f])
        /\ sims'[j] = sims[j] \/ sims'[j] = [sims[j] EXCEPT !.phase = "running"]
    BY <1>1, <2>1 DEF MissEffect
  <2>3. sims[j].phase = "none" /\ sims[j] = NewSimulator
    <3>1. j > conncount
      BY <1>0, <2>1
    <3>2. QED  BY <3>1 DEF Base, JobsInv
  <2>4. f \notin sims'[j].made /\ sims'[j].phase \in {"none", "running"}
    <3>1. SimStays(j) /\ sims'[j].phase \in {"none", "running"}
      BY <1>0, <2>2, <2>3, PhaseMoves, SameSim
    <3>2. QED  BY <2>3, <3>1 DEF SimStays, NewSimulator
  <2>5. /\ InRange(simulation_jobs'[j], Nr[f]) /\ simulation_jobs'[j].min_sim_target = Nr[f]
    BY <1>0, <2>2, NewJobProperty DEF InRange
  <2>6. Serves(j, f)'
    BY <1>0, <2>2, <2>4, <2>5 DEF Serves
  <2>7. QED  BY <2>6
<1>2. ASSUME sims' = sims, NEW j \in Producing(f),
             simulation_jobs' = [simulation_jobs EXCEPT ![j] =
                 handleClientFileOpen(simulation_jobs[j], Nr[f], sim_kill_threshold)]
      PROVE  \E i \in JobId : Serves(i, f)'
  <2> DEFINE job == handleClientFileOpen(simulation_jobs[j], Nr[f], sim_kill_threshold)
  <2>1. j \in DOMAIN simulation_jobs /\ willProduceNr(simulation_jobs[j], Nr[f])
    BY DEF Producing
  <2>2. simulation_jobs[j] \in SimJobType /\ j \in JobId
    BY <1>0, <2>1, TypedFields
  <2>3. Nr[f] \notin simulation_jobs[j].produced /\ InRange(simulation_jobs[j], Nr[f])
    BY <2>1, <2>2, JobFields DEF willProduceNr
  <2>4. /\ job.sim_start = simulation_jobs[j].sim_start /\ job.sim_stop = simulation_jobs[j].sim_stop
        /\ job.valid = simulation_jobs[j].valid
        /\ job.min_sim_target = IntMax(simulation_jobs[j].min_sim_target, Nr[f])
    BY <2>2 DEF handleClientFileOpen, SimJobType
  <2>5. simulation_jobs[j].min_sim_target \in Int
    BY <2>2 DEF SimJobType
  <2>6. Nr[f] <= job.min_sim_target
    BY <1>0, <2>4, <2>5 DEF IntMax
  <2> HIDE DEF job
  <2>7. DOMAIN simulation_jobs' = DOMAIN simulation_jobs /\ simulation_jobs'[j] = job
    BY <1>0, <1>2, <2>1 DEF job
  <2>8. InRange(simulation_jobs'[j], Nr[f])
    BY <2>3, <2>4, <2>7 DEF InRange
  <2>9. sims[j].phase \in {"none", "running"}
    <3>1. sims[j] \in SimulatorProcess
      BY <1>0, <2>2
    <3>2. sims[j].phase # "ended" /\ sims[j].phase # "crashed"
      BY <2>1, <2>2 DEF Base, JobsInv, NoCrash
    <3>3. QED  BY <3>1, <3>2 DEF SimulatorProcess
  <2>10. f \in sims[j].made => f \in Writing(j)
    BY <2>1, <2>2, <2>3 DEF PromiseInv, InRange
  <2>11. Serves(j, f)'
    BY <1>2, <2>1, <2>6, <2>7, <2>8, <2>9, <2>10 DEF Serves, Writing
  <2>12. QED  BY <2>2, <2>11
<1>3. QED  BY <1>1, <1>2 DEF OpenEffect

LEMMA NextServed ==
    ASSUME Base, RunsInv, Reliable, NoCrash, \A j \in JobId : PromiseInv(j), ServedInv, NextEffect,
           Base'
    PROVE  ServedInv'
<1> USE DEF Reliable
<1>0. \A g \in File : cache.fd[g].file_available \in BOOLEAN
  BY TypedFields DEF Base, Descriptor
<1>1. ASSUME NEW j \in JobId, NEW f \in File, CreateEffect(j, f), NEW g \in cache'.waiting
      PROVE  cache'.fd[g].file_available \/ \E i \in JobId : Serves(i, g)'
  <2>0. cache.waiting \in SUBSET File
    BY TypedFields DEF Base
  <2>1. g \in cache.waiting \/ (g = f /\ InRange(simulation_jobs[j], Nr[f]))
    <3>1. simulation_jobs[j] \in SimJobType
      BY <1>1, TypedFields DEF Base, CreateEffect
    <3>2. nrIsInSimulationRange(simulation_jobs[j], Nr[f]) <=> InRange(simulation_jobs[j], Nr[f])
      BY <3>1, JobFields DEF nrIsInSimulationRange
    <3>3. cache'.waiting = IF nrIsInSimulationRange(simulation_jobs[j], Nr[f]) /\ ~Known(cache, f)
                           THEN cache.waiting \cup {f} ELSE cache.waiting
      BY <1>1 DEF CreateEffect
    <3>4. QED  BY <3>2, <3>3
  <2>2. CASE g = f /\ InRange(simulation_jobs[j], Nr[f])
    <3>1. Serves(j, g)'
      BY <1>1, <2>2, ServesCreate
    <3>2. QED  BY <3>1
  <2>3. CASE g \in cache.waiting
    <3>1. g \in File
      BY <2>0, <2>3
    <3>2. CASE cache.fd[g].file_available
      BY <1>1, <3>1, <3>2, CreateCache
    <3>3. ASSUME NEW i \in JobId, Serves(i, g) PROVE Serves(i, g)'
      BY <1>1, <3>1, <3>3, ServesCreate, ServesOthers DEF Writes
    <3>4. QED  BY <2>3, <3>2, <3>3 DEF ServedInv
  <2>4. QED  BY <2>1, <2>2, <2>3
<1>2. ASSUME NEW j \in JobId, NEW f \in File, CreateKilledEffect(j, f), NEW g \in cache'.waiting
      PROVE  cache'.fd[g].file_available \/ \E i \in JobId : Serves(i, g)'
  <2>1. cache' = cache
    BY <1>2 DEF CreateKilledEffect
  <2>2. g \in cache.waiting /\ g \in File
    BY <1>2, <2>1, TypedFields DEF Base
  <2>3. ASSUME NEW i \in JobId, Serves(i, g) PROVE Serves(i, g)'
    BY <1>2, <2>2, <2>3, KilledServesNothing, ServesOthers DEF Writes
  <2>4. QED  BY <2>1, <2>2, <2>3 DEF ServedInv
<1>3. ASSUME NEW j \in JobId, TruncateEffect(j), NEW g \in cache'.waiting
      PROVE  cache'.fd[g].file_available \/ \E i \in JobId : Serves(i, g)'
  <2>1. cache'.waiting = cache.waiting /\ cache'.fd = cache.fd
    BY <1>3 DEF TruncateEffect
  <2>2. g \in cache.waiting /\ g \in File
    BY <1>3, <2>1, TypedFields DEF Base
  <2>3. ASSUME NEW i \in JobId, Serves(i, g) PROVE Serves(i, g)'
    BY <1>3, <2>2, <2>3, ServesTruncate, ServesOthers DEF Writes
  <2>4. QED  BY <2>1, <2>2, <2>3 DEF ServedInv
<1>4. ASSUME NEW j \in JobId, NEW f \in File, FileCloseEffect(j, f), NEW g \in cache'.waiting
      PROVE  cache'.fd[g].file_available \/ \E i \in JobId : Serves(i, g)'
  <2>1. g \in cache.waiting /\ g \in File
    <3>1. cache'.waiting \subseteq cache.waiting
      BY <1>4 DEF FileCloseEffect, ClosedInRange, ClosedOutOfRange
    <3>2. QED  BY <1>4, <3>1, TypedFields DEF Base
  <2>2. CASE cache.fd[g].file_available
    <3>1. g \notin Cached(cache)
      BY <2>1 DEF Base, CacheInv
    <3>2. QED  BY <1>4, <2>1, <2>2, <3>1, CloseCache
  <2>3. ASSUME NEW i \in JobId, Serves(i, g)
        PROVE  cache'.fd[g].file_available \/ Serves(i, g)'
    <3>1. CASE i = j /\ g = f
      <4>1. InRange(simulation_jobs[j], Nr[f])
        BY <2>3, <3>1 DEF Serves
      <4>2. QED  BY <1>4, <3>1, <4>1, CloseCache
    <3>2. CASE i = j /\ g # f
      BY <1>4, <2>1, <2>3, <3>2, ServesClose
    <3>3. CASE i # j
      BY <1>4, <2>1, <2>3, <3>3, ServesOthers DEF Writes
    <3>4. QED  BY <3>1, <3>2, <3>3
  <2>4. QED  BY <2>1, <2>2, <2>3 DEF ServedInv
<1>5. ASSUME \/ \E c \in Client : ClientEffect(c)
             \/ \E j \in JobId : FinalizeEffect(j),
             NEW i \in JobId, NEW g \in File, Serves(i, g)
      PROVE  Serves(i, g)'
  <2>1. ~FinalizeEffect(i)
    BY <1>5, EndedServesNothing
  <2>2. i \in DOMAIN simulation_jobs /\ sims[i].phase \in {"none", "running"}
    BY <1>5 DEF Serves
  <2>3. sims'[i].phase \in {"none", "running"}
    BY <1>5, <2>1, <2>2, PhaseSteps
  <2>4. i \in DOMAIN simulation_jobs'
    <3>1. ASSUME NEW j \in JobId, FinalizeEffect(j) PROVE i \in DOMAIN simulation_jobs'
      BY <2>1, <2>2, <3>1 DEF FinalizeEffect
    <3>2. ASSUME NEW c \in Client, ClientEffect(c) PROVE i \in DOMAIN simulation_jobs'
      <4>1. DOMAIN simulation_jobs \subseteq DOMAIN simulation_jobs'
        <5>1. simulation_jobs \in [DOMAIN simulation_jobs -> SimJobType]
          BY TypedFields DEF Base
        <5>2. QED
          BY <3>2, <5>1 DEF ClientEffect, OpenEffect, GetEffect, CloseEffect, CloseMetaEffect, MissEffect
      <4>2. QED  BY <2>2, <4>1
    <3>3. QED  BY <1>5, <3>1, <3>2
  <2>5. SimStays(i) /\ ~JobIsNew(i) /\ JobStays(i)
    BY <1>5, <2>2, AllStay DEF JobIsNew
  <2>6. simulation_jobs[i].min_sim_target <= simulation_jobs'[i].min_sim_target
    BY <1>5, <2>4, <2>5, Targets
  <2>7. simulation_jobs'[i].min_sim_target \in Int
    <3>1. simulation_jobs'[i] \in SimJobType
      BY <2>4 DEF Base, Typed
    <3>2. QED  BY <3>1 DEF SimJobType
  <2>8. QED  BY <1>5, <2>3, <2>4, <2>5, <2>6, <2>7, ServesStays
<1>6. ASSUME NEW c \in Client, ClientEffect(c), NEW g \in cache'.waiting
      PROVE  cache'.fd[g].file_available \/ \E i \in JobId : Serves(i, g)'
  <2>1. CASE g \in cache.waiting
    <3>1. g \in File
      BY <2>1, TypedFields DEF Base
    <3>2. QED  BY <1>5, <1>6, <2>1, <3>1, ClientCache DEF ServedInv
  <2>2. CASE g \notin cache.waiting
    <3>1. PICK f \in File : OpenEffect(c, f)
      BY <1>6, <2>2 DEF ClientEffect, GetEffect, CloseEffect, CloseMetaEffect
    <3>2. g = f /\ ~Known(cache, f)
      BY <1>6, <2>2, <3>1 DEF OpenEffect
    <3>3. QED  BY <3>1, <3>2, OpenServes
  <2>3. QED  BY <2>1, <2>2
<1>7. ASSUME NEW j \in JobId, FinalizeEffect(j), NEW g \in cache'.waiting
      PROVE  cache'.fd[g].file_available \/ \E i \in JobId : Serves(i, g)'
  <2>1. cache' = cache
    BY <1>7 DEF FinalizeEffect
  <2>2. g \in cache.waiting /\ g \in File
    BY <1>7, <2>1, TypedFields DEF Base
  <2>3. QED  BY <1>5, <1>7, <2>1, <2>2 DEF ServedInv
<1>8. QED
  BY <1>1, <1>2, <1>3, <1>4, <1>6, <1>7, NoCrashes DEF NextEffect, SimulatorEffect, ServedInv

LEMMA Waits == Spec => []WaitInv
<1>1. Init => WaitInv
  <2> SUFFICES ASSUME Init PROVE NoCrash /\ (\A j \in JobId : PromiseInv(j)) /\ ServedInv
    BY DEF WaitInv
  <2>1. /\ \A j \in JobId : sims[j] = NewSimulator /\ j \notin DOMAIN simulation_jobs
        /\ cache.waiting = {}
    BY DEF Init
  <2>2. QED  BY <2>1 DEF NoCrash, NewSimulator, PromiseInv, ServedInv
<1>2. Base /\ RunsInv /\ WaitInv /\ [Next]_vars => WaitInv'
  <2>1. ASSUME WaitInv, UNCHANGED vars PROVE WaitInv'
    BY <2>1 DEF vars, WaitInv, NoCrash, PromiseInv, ServedInv, Serves, Writing
  <2>2. ASSUME Base, RunsInv, WaitInv, NextEffect, Base' PROVE WaitInv'
    BY <2>2, NextNoCrash, NextPromise, NextServed DEF WaitInv, Reliable
  <2>3. QED  BY <2>1, <2>2, NextBase
<1>3. QED  BY <1>1, <1>2, Structure, Runs, PTL DEF Spec

(* A client that is told to wait is not told so in vain: while it waits,   *)
(* its socket is with the file's descriptor, and a simulation that has the *)
(* file open, or is to make it before it can be killed, runs or waits for  *)
(* a slot; for any number of clients, files and parallel simulators, if    *)
(* simulators hold one file open at a time and do not crash.  A crashed    *)
(* job is never removed, and with several files open a job can be killed   *)
(* while it still writes a file that is waited for.                        *)
THEOREM WaitersServed ==
    ASSUME MaxOpenFiles <= 1, MaxCrashes = 0
    PROVE  Spec => []WaitersHaveASimulation
<1>1. Base /\ ClientInv /\ WaitInv => WaitersHaveASimulation
  <2> SUFFICES ASSUME Base, ClientInv, WaitInv, NEW c \in Client, cl[c].state = "waiting"
               PROVE  /\ c \in cache.fd[cl[c].file].sockets
                      /\ \E j \in DOMAIN simulation_jobs :
                           /\ sims[j].phase \in {"none", "running"}
                           /\ nrIsInSimulationRange(simulation_jobs[j], Nr[cl[c].file])
                           /\ \/ cl[c].file \notin sims[j].made
                              \/ cl[c].file \in sims[j].creating \cup sims[j].open
    BY DEF WaitersHaveASimulation
  <2>1. PICK f \in File : f = cl[c].file
    BY ClientFields DEF Base
  <2>2. c \in cache.fd[f].sockets /\ f \in cache.waiting /\ ~cache.fd[f].file_available
    BY <2>1 DEF ClientInv, SocketInv
  <2>3. PICK j \in JobId : Serves(j, f)
    BY <2>2 DEF WaitInv, Reliable, ServedInv
  <2>4. QED  BY <2>1, <2>2, <2>3 DEF Serves, Writing, nrIsInSimulationRange
<1>2. QED  BY <1>1, Structure, Clients, Waits, PTL
-----------------------------------------------------------------------------
\* The data that clients read, where simulations run one after the other.

OneAtATime == max_simjobs <= 1 /\ CleanKills

(* What the simulator j that writes f has made of it: the copy in the      *)
(* result directory is that of a file which is not available, the copy in  *)
(* the redirect folder that of one which is.                               *)
CopyInv(j, f) ==
    /\ InRange(simulation_jobs[j], Nr[f]) =>
          /\ cache.fd[f].used = 1
          /\ f \in sims[j].redirected => cache.fd[f].file_available
    /\ f \notin sims[j].redirected => ~cache.fd[f].file_available
    /\ f \in sims[j].open /\ f \notin sims[j].redirected => cache.disk[f] # "absent"

CopiesInv ==
    /\ \A j \in JobId : sims[j].redirected \subseteq Writing(j)
    /\ \A j \in JobId : sims[j].phase \in {"none", "ended"} => Writing(j) = {}
    /\ \A j \in JobId : \A f \in Writing(j) : CopyInv(j, f)

\* What is available is complete, and only what is written is counted.
AvailableInv ==
    \A f \in File :
        /\ cache.fd[f].file_available => cache.disk[f] = "complete"
        /\ cache.fd[f].used <= 1
        /\ (\A j \in JobId : f \notin Writing(j)) => cache.fd[f].used = 0

ReadersInv == \A c \in Client : cl[c].state = "reading" => cache.fd[cl[c].file].file_available

DataInv == OneAtATime => CopiesInv /\ AvailableInv /\ ReadersInv

LEMMA OneOccupant ==
    ASSUME Base, max_simjobs <= 1, NEW i \in JobId, NEW j \in JobId,
           sims[i].phase \in {"running", "crashed"}, sims[j].phase \in {"running", "crashed"}
    PROVE  i = j
<1> SUFFICES ASSUME i # j PROVE FALSE
  OBVIOUS
<1>1. i \in Occupying /\ j \in Occupying /\ IsFiniteSet(Occupying) /\ Cardinality(Occupying) \in Nat
  BY PhaseFinite DEF Occupying, Phase
<1>2. Cardinality(Occupying \ {i}) = Cardinality(Occupying) - 1 /\ IsFiniteSet(Occupying \ {i})
  BY <1>1, FS_RemoveElement
<1>3. Cardinality(Occupying \ {i}) \in Nat /\ j \in Occupying \ {i}
  BY <1>1, <1>2, FS_CardinalityType
<1>4. Cardinality(Occupying \ {i}) # 0
  BY <1>2, <1>3, FS_EmptySet
<1>5. Cardinality(Occupying) <= 1
  <2>1. Cardinality(Occupying) <= max_simjobs /\ max_simjobs \in Nat
    BY DVAssumption DEF Base, JobsInv
  <2>2. QED  BY <1>1, <2>1
<1>6. QED  BY <1>1, <1>2, <1>3, <1>4, <1>5

(* Nobody else writes while a simulator runs.                              *)
LEMMA OneWriter ==
    ASSUME Base, OneAtATime, CopiesInv, NEW j \in JobId, sims[j].phase = "running",
           NEW i \in JobId, i # j
    PROVE  Writing(i) = {}
<1>1. sims[i].phase \notin {"running", "crashed"}
  BY OneOccupant DEF OneAtATime
<1>2. sims[i] \in SimulatorProcess
  BY TypedFields DEF Base
<1>3. sims[i].phase \in {"none", "ended"}
  BY <1>1, <1>2 DEF SimulatorProcess
<1>4. QED  BY <1>3 DEF CopiesInv

LEMMA CopyStays ==
    ASSUME NEW j \in JobId, NEW f \in File, CopyInv(j, f), SimStays(j),
           InRange(simulation_jobs'[j], Nr[f]) => InRange(simulation_jobs[j], Nr[f]),
           cache'.fd[f].used = cache.fd[f].used,
           cache'.fd[f].file_available = cache.fd[f].file_available,
           cache'.disk[f] = cache.disk[f]
    PROVE  CopyInv(j, f)'
BY DEF CopyInv, SimStays

LEMMA DataCreate ==
    ASSUME Base, RunsInv, OneAtATime, CopiesInv, AvailableInv, ReadersInv,
           NEW j \in JobId, NEW f \in File, CreateEffect(j, f)
    PROVE  CopiesInv' /\ AvailableInv' /\ ReadersInv'
<1>1. /\ sims[j].phase = "running" /\ sims'[j].phase = "running" /\ sims[j].creating = {}
      /\ f \notin sims[j].made /\ j \in DOMAIN simulation_jobs
      /\ sims'[j].creating = {f} /\ sims'[j].open = sims[j].open
      /\ sims'[j].redirected = sims[j].redirected \cup (IF NeedsRedirect(cache, f) THEN {f} ELSE {})
      /\ simulation_jobs'[j].sim_start = simulation_jobs[j].sim_start
      /\ simulation_jobs'[j].sim_stop = simulation_jobs[j].sim_stop
      /\ simulation_jobs'[j].valid = simulation_jobs[j].valid
  BY CreateFields
<1>2. /\ \A i \in JobId : i # j => sims'[i] = sims[i] /\ Writing(i) = {}
      /\ cl' = cl
  BY <1>1, OthersStay, OneWriter DEF Writes, CreateEffect
<1>3. /\ \A g \in File : cache'.fd[g].file_available = cache.fd[g].file_available
      /\ \A g \in File : g # f => cache'.fd[g].used = cache.fd[g].used
      /\ InRange(simulation_jobs[j], Nr[f]) => cache'.fd[f].used = cache.fd[f].used + 1
      /\ cache'.fd[f].used = cache.fd[f].used + 1 \/ cache'.fd[f].used = cache.fd[f].used
      /\ cache'.disk = cache.disk
  BY CreateCache
<1>4. f \notin Writing(j) /\ Writing(j)' = Writing(j) \cup {f}
  BY <1>1 DEF RunsInv, RunInv, Writing
<1>5. \A i \in JobId : f \notin Writing(i)
  BY <1>2, <1>4
<1>6. cache.fd[f].used = 0
  BY <1>5 DEF AvailableInv
<1>7. NeedsRedirect(cache, f) <=> cache.fd[f].file_available
  <2>1. ~Known(cache, f) => ~cache.fd[f].file_available
    BY DEF Base, CacheInv, NoDescriptor
  <2>2. QED  BY <1>6, <2>1 DEF NeedsRedirect, isFileUsedBySimulator
<1>8. f \in sims'[j].redirected <=> cache.fd[f].file_available
  BY <1>1, <1>5, <1>7 DEF CopiesInv
<1>9. \A nr : InRange(simulation_jobs'[j], nr) <=> InRange(simulation_jobs[j], nr)
  BY <1>1 DEF InRange
<1>10. \A i \in JobId : i # j => Writing(i)' = {}
  BY <1>2 DEF Writing
<1>11. CopyInv(j, f)'
  BY <1>1, <1>3, <1>4, <1>6, <1>8, <1>9 DEF CopyInv, Writing
<1>12. ASSUME NEW g \in Writing(j) PROVE CopyInv(j, g)'
  <2>1. g # f /\ g \in File /\ CopyInv(j, g)
    <3>1. sims[j] \in SimulatorProcess
      BY TypedFields DEF Base
    <3>2. QED  BY <1>4, <3>1 DEF Writing, SimulatorProcess, CopiesInv
  <2>2. g \in sims'[j].redirected <=> g \in sims[j].redirected
    BY <1>1, <2>1
  <2>3. QED  BY <1>1, <1>3, <1>9, <2>1, <2>2 DEF CopyInv
<1>13. CopiesInv'
  <2>1. \A i \in JobId : sims'[i].redirected \subseteq Writing(i)'
    <3>1. sims'[j].redirected \subseteq Writing(j)'
      BY <1>1, <1>4 DEF CopiesInv
    <3>2. \A i \in JobId : i # j => sims'[i].redirected \subseteq Writing(i)'
      BY <1>2, <1>10 DEF CopiesInv
    <3>3. QED  BY <3>1, <3>2
  <2>2. \A i \in JobId : sims'[i].phase \in {"none", "ended"} => Writing(i)' = {}
    BY <1>1, <1>10
  <2>3. \A i \in JobId : \A g \in Writing(i)' : CopyInv(i, g)'
    BY <1>4, <1>10, <1>11, <1>12
  <2>4. QED  BY <2>1, <2>2, <2>3 DEF CopiesInv
<1>14. AvailableInv'
  <2>1. ASSUME NEW g \in File
        PROVE  /\ cache'.fd[g].file_available => cache'.disk[g] = "complete"
               /\ cache'.fd[g].used <= 1
               /\ (\A i \in JobId : g \notin Writing(i)') => cache'.fd[g].used = 0
    <3>1. cache'.fd[g].file_available => cache'.disk[g] = "complete"
      BY <1>3 DEF AvailableInv
    <3>2. CASE g = f
      BY <1>3, <1>4, <1>6, <3>1, <3>2
    <3>3. CASE g # f
      <4>1. \A i \in JobId : g \in Writing(i) => g \in Writing(i)'
        BY <1>2, <1>4
      <4>2. cache'.fd[g].used = cache.fd[g].used
        BY <1>3, <3>3
      <4>3. QED  BY <3>1, <4>1, <4>2 DEF AvailableInv
    <3>4. QED  BY <3>2, <3>3
  <2>2. QED  BY <2>1 DEF AvailableInv
<1>15. ReadersInv'
  <2>1. \A c \in Client : cl[c].file \in File
    BY ClientFields DEF Base
  <2>2. QED  BY <1>2, <1>3, <2>1 DEF ReadersInv
<1>16. QED  BY <1>13, <1>14, <1>15

LEMMA DataKilled ==
    ASSUME Base, RunsInv, OneAtATime, CopiesInv, AvailableInv, ReadersInv,
           NEW j \in JobId, NEW f \in File, CreateKilledEffect(j, f)
    PROVE  CopiesInv' /\ AvailableInv' /\ ReadersInv'
<1>1. /\ sims[j].phase = "running" /\ sims'[j].phase = "running"
      /\ sims'[j].redirected = sims[j].redirected
  BY KilledFields
<1>2. /\ \A i \in JobId : i # j => sims'[i] = sims[i] /\ Writing(i) = {}
      /\ cl' = cl /\ cache' = cache
  BY <1>1, OthersStay, OneWriter DEF Writes, CreateKilledEffect
<1>3. Writing(j) = {} /\ Writing(j)' = {}
  BY KilledWritesNothing DEF Writing, OneAtATime
<1>4. \A i \in JobId : Writing(i) = {} /\ Writing(i)' = {} /\ sims'[i].redirected = sims[i].redirected
  BY <1>1, <1>2, <1>3 DEF Writing
<1>5. CopiesInv'
  BY <1>4 DEF CopiesInv
<1>6. AvailableInv' /\ ReadersInv'
  BY <1>2, <1>4 DEF AvailableInv, ReadersInv
<1>7. QED  BY <1>5, <1>6

LEMMA DataTruncate ==
    ASSUME Base, RunsInv, OneAtATime, CopiesInv, AvailableInv, ReadersInv,
           NEW j \in JobId, TruncateEffect(j)
    PROVE  CopiesInv' /\ AvailableInv' /\ ReadersInv'
<1>1. /\ sims[j].phase = "running" /\ sims'[j].phase = "running"
      /\ j \in DOMAIN simulation_jobs /\ simulation_jobs' = simulation_jobs
      /\ sims'[j].creating = {} /\ sims'[j].open = sims[j].open \cup sims[j].creating
      /\ sims'[j].redirected = sims[j].redirected
  BY TruncateFields
<1>2. cache'.fd = cache.fd /\ cl' = cl
  BY DEF TruncateEffect
<1>3. \A i \in JobId : i # j => sims'[i] = sims[i] /\ Writing(i) = {} /\ Writing(i)' = {}
  <2>1. \A i \in JobId : i # j => sims'[i] = sims[i]
    BY OthersStay, DVAssumption DEF Writes
  <2>2. QED  BY <1>1, <2>1, OneWriter DEF Writing
<1>4. PICK f \in File :
         /\ sims[j].creating = {f}
         /\ cache'.disk = IF f \in sims[j].redirected THEN cache.disk
                          ELSE [cache.disk EXCEPT ![f] = "partial"]
  <2>1. PICK f \in sims[j].creating :
           cache'.disk = IF f \in sims[j].redirected THEN cache.disk
                         ELSE [cache.disk EXCEPT ![f] = "partial"]
    BY DEF TruncateEffect
  <2>2. PICK g \in File : sims[j].creating = {g}
    BY <2>1 DEF RunsInv, RunInv
  <2>3. QED  BY <2>1, <2>2
<1>5. Writing(j)' = Writing(j) /\ f \in Writing(j) /\ CopyInv(j, f)
  BY <1>1, <1>4 DEF Writing, CopiesInv
<1>6. \A g \in File : g # f => cache'.disk[g] = cache.disk[g]
  <2>1. cache.disk \in [File -> DiskState]
    BY TypedFields DEF Base
  <2>2. QED  BY <1>4, <2>1
<1>7. f \notin sims[j].redirected => cache'.disk[f] = "partial" /\ ~cache.fd[f].file_available
  <2>1. cache.disk \in [File -> DiskState]
    BY TypedFields DEF Base
  <2>2. QED  BY <1>4, <1>5, <2>1 DEF CopyInv
<1>8. f \in sims[j].redirected => cache'.disk[f] = cache.disk[f]
  BY <1>4
<1>9. ASSUME NEW g \in Writing(j) PROVE CopyInv(j, g)'
  <2>1. CopyInv(j, g) /\ g \in File
    <3>1. sims[j] \in SimulatorProcess
      BY TypedFields DEF Base
    <3>2. QED  BY <3>1 DEF Writing, SimulatorProcess, CopiesInv
  <2>2. g \in sims[j].open /\ g \notin sims[j].redirected => cache.disk[g] # "absent"
    BY <2>1 DEF CopyInv
  <2>3. g \in sims'[j].open /\ g \notin sims'[j].redirected => cache'.disk[g] # "absent"
    BY <1>1, <1>4, <1>6, <1>7, <2>1, <2>2
  <2>4. QED  BY <1>1, <1>2, <2>1, <2>3 DEF CopyInv
<1>10. CopiesInv'
  <2>1. \A i \in JobId : sims'[i].redirected \subseteq Writing(i)'
    BY <1>1, <1>3, <1>5 DEF CopiesInv
  <2>2. \A i \in JobId : sims'[i].phase \in {"none", "ended"} => Writing(i)' = {}
    BY <1>1, <1>3
  <2>3. \A i \in JobId : \A g \in Writing(i)' : CopyInv(i, g)'
    BY <1>3, <1>5, <1>9
  <2>4. QED  BY <2>1, <2>2, <2>3 DEF CopiesInv
<1>11. AvailableInv'
  <2>1. \A i \in JobId : Writing(i)' = Writing(i)
    BY <1>3, <1>5
  <2>2. \A g \in File : cache'.fd[g].file_available => cache'.disk[g] = "complete"
    BY <1>2, <1>6, <1>7, <1>8 DEF AvailableInv
  <2>3. QED  BY <1>2, <2>1, <2>2 DEF AvailableInv
<1>12. ReadersInv'
  BY <1>2 DEF ReadersInv
<1>13. QED  BY <1>10, <1>11, <1>12

(* A file that a client reads, and one that is written in range, is not    *)
(* evicted.                                                                *)
LEMMA KeptByClose ==
    ASSUME Base, LockInv, NEW j \in JobId, NEW f \in File, FileCloseEffect(j, f),
           NEW g \in File, g # f,
           cache.fd[g].used = 1 \/ Holders(g) # {}
    PROVE  cache'.fd[g] = cache.fd[g] /\ cache'.disk[g] = cache.disk[g]
<1>1. cache.fd[g] \in Descriptor
  BY TypedFields DEF Base
<1>2. Holders(g) # {} => Cardinality(Holders(g)) # 0
  BY ClientSetsFinite, FS_EmptySet
<1>3. Cardinality(Holders(g)) \in Nat /\ Cardinality(Holders(g)) <= cache.fd[g].lock_count
  BY ClientSetsFinite DEF LockInv
<1>4. cache.fd[g].lock_count \in Nat /\ cache.fd[g].used \in Nat
  BY <1>1, DescriptorFields
<1>5. ~Evictable(cache.fd[g])
  BY <1>2, <1>3, <1>4 DEF Evictable, isFileUsedBySimulator
<1>6. QED  BY <1>5, CloseCache

LEMMA DataClose ==
    ASSUME Base, ClientInv, RunsInv, OneAtATime, CopiesInv, AvailableInv, ReadersInv,
           NEW j \in JobId, NEW f \in File, FileCloseEffect(j, f)
    PROVE  CopiesInv' /\ AvailableInv' /\ ReadersInv'
<1>1. /\ sims[j].phase = "running" /\ sims'[j].phase = "running" /\ f \in sims[j].open
      /\ j \in DOMAIN simulation_jobs
      /\ sims'[j].creating = sims[j].creating /\ sims'[j].open = sims[j].open \ {f}
      /\ sims'[j].redirected = sims[j].redirected \ {f}
      /\ simulation_jobs'[j].sim_start = simulation_jobs[j].sim_start
      /\ simulation_jobs'[j].sim_stop = simulation_jobs[j].sim_stop
      /\ simulation_jobs'[j].valid = simulation_jobs[j].valid
  BY CloseFields
<1>2. \A i \in JobId : i # j => sims'[i] = sims[i] /\ Writing(i) = {} /\ Writing(i)' = {}
  <2>1. \A i \in JobId : i # j => sims'[i] = sims[i]
    BY OthersStay DEF Writes
  <2>2. QED  BY <1>1, <2>1, OneWriter DEF Writing
<1>3. f \in Writing(j) /\ Writing(j)' = Writing(j) \ {f} /\ CopyInv(j, f)
  <2>1. f \in Writing(j) /\ CopyInv(j, f)
    BY <1>1 DEF Writing, CopiesInv
  <2>2. f \notin sims[j].creating
    BY <1>1 DEF RunsInv, RunInv
  <2>3. Writing(j)' = sims[j].creating \cup (sims[j].open \ {f})
    BY <1>1 DEF Writing
  <2>4. QED  BY <2>1, <2>2, <2>3 DEF Writing
<1>4. /\ \A g \in File : g # f => /\ cache'.fd[g].used = cache.fd[g].used
                                  /\ \/ cache'.fd[g] = cache.fd[g] /\ cache'.disk[g] = cache.disk[g]
                                     \/ cache'.fd[g] = NoDescriptor /\ cache'.disk[g] = "absent"
                                        /\ g \in Cached(cache) /\ Evictable(cache.fd[g])
      /\ cache'.fd[f].used = IF cache.fd[f].used > 0 THEN cache.fd[f].used - 1 ELSE 0
      /\ cache'.disk[f] = DiskAfterClose(j, f)
      /\ cache'.fd[f].file_available =
            (cache.fd[f].file_available \/ InRange(simulation_jobs[j], Nr[f]))
  BY CloseCache
<1>5. \A nr : InRange(simulation_jobs'[j], nr) <=> InRange(simulation_jobs[j], nr)
  BY <1>1 DEF InRange
<1>6. cache.fd[f].used \in Nat /\ cache.fd[f].used <= 1 /\ cache'.fd[f].used = 0
  <2>1. cache.fd[f] \in Descriptor
    BY TypedFields DEF Base
  <2>2. cache.fd[f].used \in Nat /\ cache.fd[f].used <= 1
    BY <2>1 DEF Descriptor, AvailableInv
  <2>3. QED  BY <1>4, <2>2
<1>7. cache'.fd[f].file_available => cache'.disk[f] = "complete"
  <2>1. CASE f \in sims[j].redirected
    <3>1. cache'.disk[f] = cache.disk[f]
      BY <1>4, <2>1 DEF DiskAfterClose
    <3>2. cache'.fd[f].file_available => cache.fd[f].file_available
      BY <1>3, <1>4, <2>1 DEF CopyInv
    <3>3. QED  BY <3>1, <3>2 DEF AvailableInv
  <2>2. CASE f \notin sims[j].redirected
    <3>1. cache.disk[f] # "absent" /\ ~cache.fd[f].file_available
      BY <1>1, <1>3, <2>2 DEF CopyInv
    <3>2. \A i \in JobId \ {j} : f \notin sims[i].open
      BY <1>2 DEF Writing
    <3>3. InRange(simulation_jobs[j], Nr[f]) => Nr[f] <= simulation_jobs[j].sim_stop
      BY DEF InRange
    <3>4. cache'.disk[f] = IF Nr[f] <= simulation_jobs[j].sim_stop THEN "complete" ELSE "overshoot"
      BY <1>4, <2>2, <3>1, <3>2 DEF DiskAfterClose
    <3>5. QED  BY <1>4, <3>1, <3>3, <3>4
  <2>3. QED  BY <2>1, <2>2
<1>8. \A g \in File : g # f /\ cache'.fd[g].file_available =>
          cache'.disk[g] = "complete" /\ cache'.fd[g] = cache.fd[g]
  BY <1>4 DEF NoDescriptor, AvailableInv
<1>9. ASSUME NEW g \in Writing(j), g # f PROVE CopyInv(j, g)'
  <2>1. CopyInv(j, g) /\ g \in File
    <3>1. sims[j] \in SimulatorProcess
      BY TypedFields DEF Base
    <3>2. QED  BY <3>1 DEF Writing, SimulatorProcess, CopiesInv
  <2>2. /\ g \in sims'[j].redirected <=> g \in sims[j].redirected
        /\ g \in sims'[j].open <=> g \in sims[j].open
    BY <1>1, <1>9
  <2>3. CASE cache'.fd[g] = cache.fd[g] /\ cache'.disk[g] = cache.disk[g]
    BY <1>5, <2>1, <2>2, <2>3 DEF CopyInv
  <2>4. CASE cache'.fd[g] = NoDescriptor /\ g \in Cached(cache) /\ Evictable(cache.fd[g])
    <3>1. cache.fd[g].file_available
      BY <2>4 DEF Base, CacheInv
    <3>2. g \in sims[j].redirected
      BY <2>1, <3>1 DEF CopyInv
    <3>3. cache.fd[g].used # 1
      BY <2>4 DEF Evictable, isFileUsedBySimulator
    <3>4. ~InRange(simulation_jobs[j], Nr[g])
      BY <2>1, <3>3 DEF CopyInv
    <3>5. QED  BY <1>5, <2>2, <3>2, <3>4 DEF CopyInv
  <2>5. QED  BY <1>4, <1>9, <2>1, <2>3, <2>4
<1>10. CopiesInv'
  <2>1. \A i \in JobId : sims'[i].redirected \subseteq Writing(i)'
    BY <1>1, <1>2, <1>3 DEF CopiesInv
  <2>2. \A i \in JobId : sims'[i].phase \in {"none", "ended"} => Writing(i)' = {}
    BY <1>1, <1>2
  <2>3. \A i \in JobId : \A g \in Writing(i)' : CopyInv(i, g)'
    BY <1>2, <1>3, <1>9
  <2>4. QED  BY <2>1, <2>2, <2>3 DEF CopiesInv
<1>11. AvailableInv'
  <2>1. ASSUME NEW g \in File
        PROVE  /\ cache'.fd[g].file_available => cache'.disk[g] = "complete"
               /\ cache'.fd[g].used <= 1
               /\ (\A i \in JobId : g \notin Writing(i)') => cache'.fd[g].used = 0
    <3>1. CASE g = f
      BY <1>6, <1>7, <3>1
    <3>2. CASE g # f
      <4>1. \A i \in JobId : g \in Writing(i) => g \in Writing(i)'
        BY <1>2, <1>3, <3>2
      <4>2. cache'.fd[g].used = cache.fd[g].used
        BY <1>4, <3>2
      <4>3. QED  BY <1>8, <3>2, <4>1, <4>2 DEF AvailableInv
    <3>3. QED  BY <3>1, <3>2
  <2>2. QED  BY <2>1 DEF AvailableInv
<1>12. ReadersInv'
  <2> SUFFICES ASSUME NEW c \in Client, cl'[c].state = "reading"
               PROVE  cache'.fd[cl'[c].file].file_available
    BY DEF ReadersInv
  <2>1. PICK g \in File : g = cl[c].file
    BY ClientFields DEF Base
  <2>2. CASE cl' = cl
    <3>1. c \in Holders(g) /\ cache.fd[g].file_available
      BY <2>1, <2>2 DEF Holders, ReadersInv
    <3>2. CASE g = f
      BY <1>4, <2>1, <2>2, <3>1, <3>2
    <3>3. CASE g # f
      <4>1. cache'.fd[g] = cache.fd[g]
        BY <3>1, <3>3, KeptByClose DEF ClientInv
      <4>2. QED  BY <2>1, <2>2, <3>1, <4>1
    <3>4. QED  BY <3>2, <3>3
  <2>3. ASSUME NEW V, ClosedInRange(j, f, V), InRange(simulation_jobs[j], Nr[f])
        PROVE  cache'.fd[cl'[c].file].file_available
    <3>1. cl[c] = [state |-> cl[c].state, file |-> cl[c].file, opens |-> cl[c].opens]
      BY ClientFields DEF Base
    <3>2. cl'[c] = IF c \in cache.fd[f].sockets THEN [cl[c] EXCEPT !.state = "reading"] ELSE cl[c]
      BY <2>3 DEF ClosedInRange
    <3>3. cl'[c].file = cl[c].file
      BY <3>1, <3>2
    <3>4. CASE g = f
      BY <1>4, <2>1, <2>3, <3>3, <3>4
    <3>5. CASE g # f
      <4>1. c \notin cache.fd[f].sockets
        BY <2>1, <3>5 DEF ClientInv, SocketInv
      <4>2. cl[c].state = "reading"
        BY <3>2, <4>1
      <4>3. c \in Holders(g) /\ cache.fd[g].file_available
        BY <2>1, <4>2 DEF Holders, ReadersInv
      <4>4. cache'.fd[g] = cache.fd[g]
        BY <3>5, <4>3, KeptByClose DEF ClientInv
      <4>5. QED  BY <2>1, <3>3, <4>3, <4>4
    <3>6. QED  BY <3>4, <3>5
  <2>4. cl' = cl \/ (InRange(simulation_jobs[j], Nr[f]) /\ \E V : ClosedInRange(j, f, V))
    <3>1. simulation_jobs[j] \in SimJobType
      BY <1>1, TypedFields DEF Base
    <3>2. nrIsInSimulationRange(simulation_jobs[j], Nr[f]) <=> InRange(simulation_jobs[j], Nr[f])
      BY <3>1, JobFields DEF nrIsInSimulationRange
    <3>3. QED  BY <3>2 DEF FileCloseEffect, ClosedOutOfRange
  <2>5. QED  BY <2>2, <2>3, <2>4
<1>13. QED  BY <1>10, <1>11, <1>12

(* A simulator ends with every file it has created closed.                 *)
LEMMA EndWritesNothing ==
    ASSUME Base, RunsInv, CleanKills, NEW j \in JobId, FinalizeEffect(j)
    PROVE  Writing(j) = {}
<1>1. \/ MustTerminate(j)
      \/ sims[j].creating = {} /\ sims[j].open = {}
  BY DEF FinalizeEffect
<1>2. QED  BY <1>1 DEF MustTerminate, RunsInv, RunInv, Writing

(* The steps of clients, and the end or crash of a simulator.              *)
LEMMA DataOthers ==
    ASSUME Base, RunsInv, OneAtATime, CopiesInv, AvailableInv, ReadersInv,
           \/ \E c \in Client : ClientEffect(c)
           \/ \E j \in JobId : FinalizeEffect(j) \/ CrashEffect(j)
    PROVE  CopiesInv' /\ AvailableInv' /\ ReadersInv'
<1>1. \A i \in JobId : SimStays(i) /\ (JobStays(i) \/ JobIsNew(i))
  BY AllStay
<1>2. \A i \in JobId : Writing(i)' = Writing(i)
  BY <1>1 DEF SimStays, Writing
<1>3. /\ \A g \in File : /\ cache'.fd[g].used = cache.fd[g].used
                         /\ cache'.fd[g].file_available = cache.fd[g].file_available
      /\ cache'.disk = cache.disk
  <2>1. ASSUME NEW j \in JobId, FinalizeEffect(j) \/ CrashEffect(j) PROVE cache' = cache
    BY <2>1 DEF FinalizeEffect, CrashEffect
  <2>2. QED  BY <2>1, ClientCache
<1>4. ASSUME NEW i \in JobId, NEW f \in Writing(i) PROVE CopyInv(i, f)'
  <2>1. f \in File /\ CopyInv(i, f) /\ sims[i].phase \notin {"none", "ended"}
    <3>1. sims[i] \in SimulatorProcess
      BY TypedFields DEF Base
    <3>2. QED  BY <3>1 DEF Writing, SimulatorProcess, CopiesInv
  <2>2. i \in DOMAIN simulation_jobs
    BY <2>1, RunningHasJob
  <2>3. SimStays(i) /\ JobStays(i)
    BY <1>1, <2>2 DEF JobIsNew
  <2>4. CASE i \in DOMAIN simulation_jobs'
    <3>1. InRange(simulation_jobs'[i], Nr[f]) => InRange(simulation_jobs[i], Nr[f])
      BY <2>3, <2>4 DEF JobStays, InRange
    <3>2. QED  BY <1>3, <2>1, <2>3, <3>1, CopyStays
  <2>5. CASE i \notin DOMAIN simulation_jobs'
    <3>1. FinalizeEffect(i)
      <4>1. ASSUME NEW j \in JobId, FinalizeEffect(j), j # i PROVE FALSE
        BY <2>2, <2>5, <4>1 DEF FinalizeEffect
      <4>2. ASSUME NEW j \in JobId, CrashEffect(j) PROVE FALSE
        BY <2>2, <2>5, <4>2 DEF CrashEffect
      <4>3. ASSUME NEW c \in Client, ClientEffect(c) PROVE FALSE
        <5>1. simulation_jobs \in [DOMAIN simulation_jobs -> SimJobType]
          BY TypedFields DEF Base
        <5>2. DOMAIN simulation_jobs \subseteq DOMAIN simulation_jobs'
          BY <4>3, <5>1 DEF ClientEffect, OpenEffect, GetEffect, CloseEffect, CloseMetaEffect, MissEffect
        <5>3. QED  BY <2>2, <2>5, <5>2
      <4>4. QED  BY <4>1, <4>2, <4>3
    <3>2. Writing(i) = {}
      BY <3>1, EndWritesNothing DEF OneAtATime
    <3>3. QED  BY <3>2
  <2>6. QED  BY <2>4, <2>5
<1>5. CopiesInv'
  <2>1. \A i \in JobId : sims'[i].redirected \subseteq Writing(i)'
    BY <1>1, <1>2 DEF SimStays, CopiesInv
  <2>2. ASSUME NEW i \in JobId, sims'[i].phase \in {"none", "ended"} PROVE Writing(i)' = {}
    <3>1. CASE sims'[i] = sims[i]
      BY <1>2, <2>2, <3>1 DEF CopiesInv
    <3>2. CASE FinalizeEffect(i)
      BY <1>2, <3>2, EndWritesNothing DEF OneAtATime
    <3>3. CASE CrashEffect(i)
      BY <2>2, <3>3, PhaseMoves DEF CrashEffect, Base, Typed
    <3>4. CASE \E j \in JobId : CrashEffect(j) /\ i # j
      <4>1. sims \in [JobId -> SimulatorProcess]
        BY TypedFields DEF Base
      <4>2. sims'[i] = sims[i]
        BY <3>4, <4>1 DEF CrashEffect
      <4>3. QED  BY <3>1, <4>2
    <3>5. CASE \/ \E c \in Client : ClientEffect(c)
               \/ \E j \in JobId : FinalizeEffect(j)
      BY <2>2, <3>1, <3>2, <3>5, PhaseSteps
    <3>6. QED  BY <3>3, <3>4, <3>5
  <2>3. \A i \in JobId : \A g \in Writing(i)' : CopyInv(i, g)'
    BY <1>2, <1>4
  <2>4. QED  BY <2>1, <2>2, <2>3 DEF CopiesInv
<1>6. AvailableInv'
  BY <1>2, <1>3 DEF AvailableInv
<1>7. ASSUME NEW c \in Client, cl'[c].state = "reading"
      PROVE  cache'.fd[cl'[c].file].file_available
  <2>1. PICK g \in File : g = cl[c].file
    BY ClientFields DEF Base
  <2>2. CASE cl'[c] = cl[c]
    BY <1>3, <1>7, <2>1, <2>2 DEF ReadersInv
  <2>3. CASE GetEffect(c)
    <3>1. \/ cache.fd[g].file_available
          \/ cl' = [cl EXCEPT ![c] = [state |-> "waiting", file |-> g, opens |-> cl[c].opens]]
      BY <2>1, <2>3 DEF GetEffect
    <3>2. \/ cl' = [cl EXCEPT ![c] = [state |-> "reading", file |-> g, opens |-> cl[c].opens]]
          \/ cl' = [cl EXCEPT ![c] = [state |-> "waiting", file |-> g, opens |-> cl[c].opens]]
      BY <2>1, <2>3 DEF GetEffect
    <3>3. cl'[c].state # "waiting" /\ cl'[c].file = g
      BY <1>7, <3>2, OneClientMoves
    <3>4. cache.fd[g].file_available
      BY <3>1, <3>3, OneClientMoves
    <3>5. QED  BY <1>3, <3>3, <3>4
  <2>4. CASE \E f \in File : OpenEffect(c, f)
    <3>1. PICK f \in File, s \in {"sim", "hit"} :
             cl' = [cl EXCEPT ![c] = [state |-> s, file |-> f, opens |-> cl[c].opens + 1]]
      BY <2>4 DEF OpenEffect
    <3>2. QED  BY <1>7, <3>1, OneClientMoves
  <2>5. CASE CloseEffect(c) \/ CloseMetaEffect(c)
    <3>1. cl' = [cl EXCEPT ![c] = [state |-> "idle", file |-> g, opens |-> cl[c].opens]]
      BY <2>1, <2>5 DEF CloseEffect, CloseMetaEffect
    <3>2. QED  BY <1>7, <3>1, OneClientMoves
  <2>6. ASSUME NEW x \in Client, ClientEffect(x), x # c PROVE cl'[c] = cl[c]
    <3>1. PICK r : cl' = [cl EXCEPT ![x] = r]
      BY <2>6 DEF ClientEffect, OpenEffect, GetEffect, CloseEffect, CloseMetaEffect
    <3>2. cl \in [Client -> ClientType]
      BY TypedFields DEF Base
    <3>3. QED  BY <2>6, <3>1, <3>2
  <2>7. CASE \E j \in JobId : FinalizeEffect(j) \/ CrashEffect(j)
    <3>1. cl' = cl
      BY <2>7 DEF FinalizeEffect, CrashEffect
    <3>2. QED  BY <2>2, <3>1
  <2>8. QED  BY <2>2, <2>3, <2>4, <2>5, <2>6, <2>7 DEF ClientEffect
<1>8. QED  BY <1>5, <1>6, <1>7 DEF ReadersInv

LEMMA NextData ==
    ASSUME Base, ClientInv, RunsInv, DataInv, NextEffect
    PROVE  DataInv'
<1> SUFFICES ASSUME OneAtATime, CopiesInv, AvailableInv, ReadersInv
             PROVE  CopiesInv' /\ AvailableInv' /\ ReadersInv'
  BY DEF DataInv, OneAtATime, CleanKills
<1>1. QED
  BY DataCreate, DataKilled, DataTruncate, DataClose, DataOthers DEF NextEffect, SimulatorEffect

LEMMA Data == Spec => []DataInv
<1>1. Init => DataInv
  <2> SUFFICES ASSUME Init PROVE CopiesInv /\ AvailableInv /\ ReadersInv
    BY DEF DataInv
  <2>1. /\ \A j \in JobId : sims[j] = NewSimulator
        /\ \A f \in File : cache.fd[f] = NoDescriptor
        /\ \A c \in Client : cl[c].state = "idle"
    BY DEF Init
  <2>2. \A j \in JobId : Writing(j) = {} /\ sims[j].redirected = {}
    BY <2>1 DEF Writing, NewSimulator
  <2>3. QED  BY <2>1, <2>2 DEF CopiesInv, AvailableInv, ReadersInv, NoDescriptor
<1>2. Base /\ ClientInv /\ RunsInv /\ DataInv /\ [Next]_vars => DataInv'
  <2>1. ASSUME DataInv, UNCHANGED vars PROVE DataInv'
    BY <2>1 DEF vars, DataInv, OneAtATime, CleanKills, CopiesInv, CopyInv, AvailableInv,
                ReadersInv, Writing
  <2>2. QED  BY <2>1, NextData, NextBase
<1>3. QED  BY <1>1, <1>2, Structure, Clients, Runs, PTL DEF Spec

(* Who has been told that a file is there reads complete data for as long  *)
(* as the file stays open, for any clients, files and options, if          *)
(* simulations run one after the other and none is killed with a file      *)
(* open: the notification is not early, and in between the file is neither *)
(* evicted nor written again in its place.  With a second slot it is       *)
(* false: of two simulators that write a file, the one in the redirect     *)
(* folder may be the first to close it.                                    *)
THEOREM WaitersHaveData ==
    ASSUME max_simjobs <= 1, CleanKills
    PROVE  Spec => []WaitersHaveTheData
<1>1. Base /\ DataInv => WaitersHaveTheData
  <2>1. ASSUME Base, DataInv, NEW c \in Client, cl[c].state = "reading"
        PROVE  cache.disk[cl[c].file] = "complete"
    <3>1. cl[c].file \in File
      BY <2>1, ClientFields DEF Base
    <3>2. QED  BY <2>1, <3>1 DEF DataInv, OneAtATime, AvailableInv, ReadersInv
  <2>2. QED  BY <2>1 DEF WaitersHaveTheData
<1>2. QED  BY <1>1, Structure, Data, PTL

(* What is complete and in the cache is never truncated, under the same    *)
(* conditions: a simulator that makes such a file is redirected, whatever  *)
(* was opened, evicted and simulated again before.                         *)
THEOREM NotOverwritten ==
    ASSUME max_simjobs <= 1, CleanKills
    PROVE  Spec => NeverOverwritten
<1>1. ASSUME Base, ClientInv, RunsInv, DataInv, NextEffect, NEW f \in Cached(cache),
             cache.disk[f] = "complete"
      PROVE  cache'.disk[f] # "partial"
  <2>0. OneAtATime /\ CopiesInv /\ AvailableInv /\ ReadersInv
    BY <1>1 DEF DataInv, OneAtATime
  <2>1. CopiesInv' /\ AvailableInv' /\ ReadersInv'
    BY <1>1, NextData, <2>0 DEF DataInv, OneAtATime, CleanKills
  <2>2. f \in File /\ cache.fd[f].file_available
    BY <1>1, TypedFields DEF Base, CacheInv
  <2>3. CASE cache'.fd[f].file_available
    BY <2>1, <2>2, <2>3 DEF AvailableInv
  <2>4. CASE ~cache'.fd[f].file_available
    <3>1. ASSUME NEW j \in JobId, NEW g \in File, FileCloseEffect(j, g)
          PROVE  cache'.disk[f] # "partial"
      <4>1. /\ \A h \in File : h # g =>
                  cache'.disk[h] = cache.disk[h] \/ cache'.disk[h] = "absent"
            /\ cache'.fd[g].file_available =
                  (cache.fd[g].file_available \/ InRange(simulation_jobs[j], Nr[g]))
        BY <1>1, <3>1, CloseCache
      <4>2. f # g
        BY <2>2, <2>4, <4>1
      <4>3. QED  BY <1>1, <2>2, <4>1, <4>2
    <3>2. ASSUME NEW j \in JobId, NEW g \in File, CreateEffect(j, g) PROVE FALSE
      BY <1>1, <2>2, <2>4, <3>2, CreateCache
    <3>3. ASSUME NEW j \in JobId, TruncateEffect(j) PROVE FALSE
      BY <2>2, <2>4, <3>3 DEF TruncateEffect
    <3>4. ASSUME NEW c \in Client, ClientEffect(c) PROVE FALSE
      BY <1>1, <2>2, <2>4, <3>4, ClientCache
    <3>5. ASSUME NEW j \in JobId, NEW g \in File,
                 CreateKilledEffect(j, g) \/ FinalizeEffect(j) \/ CrashEffect(j)
          PROVE  FALSE
      BY <2>2, <2>4, <3>5 DEF CreateKilledEffect, FinalizeEffect, CrashEffect
    <3>6. QED
      BY <1>1, <2>2, <3>1, <3>2, <3>3, <3>4, <3>5 DEF NextEffect, SimulatorEffect
  <2>5. QED  BY <2>3, <2>4
<1>2. Base /\ ClientInv /\ RunsInv /\ DataInv /\ [Next]_vars
        => [\A f \in Cached(cache) :
               cache.disk[f] = "complete" => cache'.disk[f] # "partial"]_vars
  BY <1>1, NextBase
<1>3. QED  BY <1>2, Structure, Clients, Runs, Data, PTL DEF Spec, NeverOverwritten
=============================================================================
