---------------------------- MODULE FileCacheOps ----------------------------
(***************************************************************************)
(* FileDescriptor and FileCacheLRU as operators on values.  A cache c is a *)
(* record of                                                               *)
(*    lru      the cached files from the LRU to the MRU position           *)
(*             (the LinkedMap cache_),                                     *)
(*    waiting  the files of the waiting list,                              *)
(*    fd       the descriptor of every file in one of the two,             *)
(*    disk     what the result directory holds under each file's name.     *)
(***************************************************************************)
EXTENDS Integers, Functions, SequencesExt

-----------------------------------------------------------------------------
\* FileDescriptor

NoDescriptor == [file_available |-> FALSE, lock_count |-> 0, used |-> 0, sockets |-> {}]

setFileAvailable(fd) == [fd EXCEPT !.file_available = TRUE]

\* Defect: a flag where a count is needed.
lock_Flag(fd) == [fd EXCEPT !.lock_count = 1]

lock(fd) == [fd EXCEPT !.lock_count = @ + 1]

unlock(fd) == [fd EXCEPT !.lock_count = IF @ > 0 THEN @ - 1 ELSE @]

isFileUsedBySimulator(fd) == fd.used > 0

setFileUsedBySimulator(fd, use) ==
    [fd EXCEPT !.used = IF use THEN @ + 1 ELSE IF @ > 0 THEN @ - 1 ELSE @]

appendNotificationSocket(fd, s) == [fd EXCEPT !.sockets = @ \cup {s}]

\* Defect: the notified sockets stay registered.
removeAllNotificationSockets_Kept(fd) == fd

removeAllNotificationSockets(fd) == [fd EXCEPT !.sockets = {}]

-----------------------------------------------------------------------------
\* FileCacheLRU

Cached(c) == Range(c.lru)

\* internal_lookup_get (and get, whose access trace is left out) finds a descriptor.
Known(c, f) == f \in Cached(c) \/ f \in c.waiting

Evictable(fd) == fd.lock_count = 0 /\ ~isFileUsedBySimulator(fd)

\* Defect: the victim may be a file a client has open.
VictimPositions_Locked(c) ==
    {i \in 1 .. Len(c.lru) - 1 : ~isFileUsedBySimulator(c.fd[c.lru[i]])}

\* Defect: the victim may be a file that is being written again.
VictimPositions_Used(c) == {i \in 1 .. Len(c.lru) - 1 : c.fd[c.lru[i]].lock_count = 0}

\* The positions findVictim_LRU searches: all but the MRU's, of files that are
\* neither locked by a client nor used by a simulator.
VictimPositions(c) == {i \in 1 .. Len(c.lru) - 1 : Evictable(c.fd[c.lru[i]])}

findVictim_LRU(c) == Min(VictimPositions(c))

\* evict and the replace of actualPut: the victim's file is removed, its entry
\* and its descriptor replaced.
evict(c, i) ==
    [c EXCEPT !.lru = RemoveAt(@, i),
              !.fd[c.lru[i]] = NoDescriptor,
              !.disk[c.lru[i]] = "absent"]

\* Insertion at the MRU position.  Without a victim the capacity is exceeded.
actualPut(c, f, capacity) ==
    IF Len(c.lru) < capacity \/ VictimPositions(c) = {}
    THEN [c EXCEPT !.lru = Append(@, f)]
    ELSE [evict(c, findVictim_LRU(c)) EXCEPT !.lru = Append(@, f)]

put(c, f, fd, capacity) ==
    IF Known(c, f) THEN c
    ELSE LET d == [c EXCEPT !.fd[f] = fd]
         IN  IF fd.file_available THEN actualPut(d, f, capacity)
             ELSE [d EXCEPT !.waiting = @ \cup {f}]

\* The entry of a cached file moves to the MRU position.
refreshAt(c, i) == [c EXCEPT !.lru = Append(RemoveAt(@, i), c.lru[i])]

find(c, f) == CHOOSE i \in DOMAIN c.lru : c.lru[i] = f

\* Defect: the file is cached, its entry in the waiting list left behind.
refresh_KeepWaiting(c, f, capacity) ==
    CASE f \in Cached(c) /\ f \notin c.waiting /\ c.fd[f].file_available ->
             refreshAt(c, find(c, f))
      [] f \notin Cached(c) /\ f \in c.waiting /\ c.fd[f].file_available
             /\ c.disk[f] # "absent" -> actualPut(c, f, capacity)
      [] OTHER -> c

\* Defect: the result directory is not looked at.
refresh_Unchecked(c, f, capacity) ==
    CASE f \in Cached(c) /\ f \notin c.waiting /\ c.fd[f].file_available ->
             refreshAt(c, find(c, f))
      [] f \notin Cached(c) /\ f \in c.waiting /\ c.fd[f].file_available ->
             [actualPut(c, f, capacity) EXCEPT !.waiting = @ \ {f}]
      [] OTHER -> c

\* A cached file becomes the MRU; a waiting one that is available, and is found
\* in the result directory, moves into the cache; anything else is an error or
\* nothing to do, and changes nothing.
refresh(c, f, capacity) ==
    CASE f \in Cached(c) /\ f \notin c.waiting /\ c.fd[f].file_available ->
             refreshAt(c, find(c, f))
      [] f \notin Cached(c) /\ f \in c.waiting /\ c.fd[f].file_available
             /\ c.disk[f] # "absent" ->
             [actualPut(c, f, capacity) EXCEPT !.waiting = @ \ {f}]
      [] OTHER -> c

-----------------------------------------------------------------------------
\* Defect: any file that has a descriptor is taken to exist.
NeedsRedirect_Known(c, f) == Known(c, f)

\* Defect: an available file is written again.
NeedsRedirect_Used(c, f) == Known(c, f) /\ isFileUsedBySimulator(c.fd[f])

\* The redirect decision of the create handler: an available file, and one a
\* simulator is writing, must not be overwritten.
NeedsRedirect(c, f) ==
    Known(c, f) /\ (c.fd[f].file_available \/ isFileUsedBySimulator(c.fd[f]))
=============================================================================
