---------------------------- MODULE JobQueueOps ----------------------------
(***************************************************************************)
(* The JobQueue class as operators on a record of its members: current,    *)
(* the number of slots taken, and queue, the jobs that wait for one.       *)
(* What an operation launches is stated with it.                           *)
(***************************************************************************)
EXTENDS Integers, Sequences

EmptyJobQueue == [current |-> 0, queue |-> <<>>]

\* Defect: one job more than allowed.
HasFreeSlot_OffByOne(q, max_simjobs) == q.current <= max_simjobs

HasFreeSlot(q, max_simjobs) == q.current < max_simjobs

\* The job itself is launched iff HasFreeSlot.
enqueue(q, j, max_simjobs) ==
    IF HasFreeSlot(q, max_simjobs)
    THEN [q EXCEPT !.current = @ + 1]
    ELSE [q EXCEPT !.queue = Append(@, j)]

\* Defect: the slot is given back although the next job takes it over.
handleJobTermination_SlotReturned(q) ==
    [current |-> q.current - 1,
     queue   |-> IF q.queue = <<>> THEN <<>> ELSE Tail(q.queue)]

\* Defect: the front of the queue is launched and stays in it.
handleJobTermination_NoPop(q) ==
    IF q.queue # <<>> THEN q ELSE [q EXCEPT !.current = @ - 1]

\* The front of a nonempty queue is launched in the slot of the ended job.
handleJobTermination(q) ==
    IF q.queue # <<>>
    THEN [q EXCEPT !.queue = Tail(@)]
    ELSE [q EXCEPT !.current = @ - 1]
=============================================================================
