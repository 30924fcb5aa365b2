--------------------------- MODULE FileCacheFifo ---------------------------
(***************************************************************************)
(* The FileCacheFifoWrapper in front of a cache based on LRU.  Files that  *)
(* no client has requested yet are in the queue, the others in the wrapped *)
(* cache; the waiting list is the wrapper's (only available files are put  *)
(* into the wrapped cache, whose own waiting list stays empty).            *)
(***************************************************************************)
EXTENDS FileCacheCost

Cached_Fifo(c) == Cached(c) \cup Range(c.fifo.queue)

fifoQueueAdd(c, f) ==
    LET queue == c.fifo.queue
        i == Victim(c, queue)
    IN  CASE Len(queue) < c.fifo.capacity -> [c EXCEPT !.fifo.queue = Append(@, f)]
          [] Len(queue) >= c.fifo.capacity /\ i = 0 ->
                 [c EXCEPT !.fifo.queue = Append(@, f), !.fifo.capacity = @ + 1]
          [] OTHER -> [removeFile(c, queue[i]) EXCEPT !.fifo.queue = Append(RemoveAt(@, i), f)]

\* embedded_cache_->put of a file taken from the queue or the waiting list.
moveToCache(c, f) ==
    [actualPut_LRUBased(c, f) EXCEPT !.fifo.queue = without(@, f)]

place(c, f) == IF f \in c.requested THEN moveToCache(c, f) ELSE fifoQueueAdd(c, f)

put_Fifo(c, f, fd) ==
    IF f \in Cached_Fifo(c) \cup c.waiting THEN c
    ELSE IF fd.file_available THEN place(describe(c, f, fd), f)
         ELSE [describe(c, f, fd) EXCEPT !.waiting = @ \cup {f}]

\* The wrapped cache refreshes its own files.  The others have to be found in
\* the result directory; a file of the queue moves once it has been requested.
refresh_Fifo(c, f) ==
    CASE f \in Cached(c) -> refresh_LRUBased(c, f)
      [] f \in Range(c.fifo.queue) /\ c.disk[f] # "absent" ->
             IF f \in c.requested THEN moveToCache(c, f)
             ELSE [c EXCEPT !.fifo.queue = ToMru(@, f)]
      [] f \in c.waiting /\ c.fd[f].file_available /\ c.disk[f] # "absent" ->
             [place(c, f) EXCEPT !.waiting = @ \ {f}]
      [] OTHER -> c
=============================================================================
