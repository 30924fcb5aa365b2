------------------------------ MODULE JobProofs ------------------------------
(***************************************************************************)
(* Proofs about the DV's simulation jobs.  JobQueue, for every finite set  *)
(* of jobs, number of slots and number of losses.  SimJob: its types for   *)
(* every value of the constants, and that a job of a simulator that writes *)
(* one file at a time, started without a backward stride, is killed only   *)
(* when all who wait are served.                                           *)
(***************************************************************************)
EXTENDS JobQueue, SimJob, OperatorProofs

-----------------------------------------------------------------------------
\* JobQueue.

occupied == running \cup lost

\* The number of jobs that were launched.
launched == Len(enqueued) - Len(jobqueue.queue)

(* The queue is the end of the sequence of enqueued jobs.                  *)
QueueIsSuffix ==
    /\ launched \in Nat
    /\ \A i \in 1 .. Len(jobqueue.queue) : jobqueue.queue[i] = enqueued[launched + i]

(* A job is enqueued once, and occupies a slot only when it has left the   *)
(* queue.                                                                  *)
EnqueuedOnce ==
    \A i, k \in 1 .. Len(enqueued) : enqueued[i] = enqueued[k] => i = k

OccupiedWereLaunched ==
    \A x \in occupied : \E i \in 1 .. launched : enqueued[i] = x

JobsAreKnown == simulation_jobs = Queued \cup occupied

(* The inductive invariant.  SlotsMatchJobs needs the last three of the    *)
(* first four: the job that takes over a slot must be a new one.           *)
IInv ==
    /\ TypeOK
    /\ QueueIsSuffix
    /\ EnqueuedOnce
    /\ OccupiedWereLaunched
    /\ JobsAreKnown
    /\ SlotsMatchJobs
    /\ NoIdleSlot

-----------------------------------------------------------------------------
\* A set of jobs that has no slot yet, launched or lost, has one afterwards.
LEMMA LaunchOccupies ==
    ASSUME NEW S, Launch(S), running \cap lost = {}, S \cap occupied = {}
    PROVE  occupied' = occupied \cup S /\ running' \cap lost' = {}
BY DEF Launch, occupied

LEMMA OccupiedFinite ==
    ASSUME TypeOK
    PROVE  /\ IsFiniteSet(occupied) /\ Cardinality(occupied) \in Nat
           /\ occupied \subseteq Job
<1>1. occupied \subseteq Job
    BY DEF TypeOK, occupied
<1>2. IsFiniteSet(occupied)
    BY <1>1, JobQueueAssumption, FS_Subset
<1> QED
    BY <1>1, <1>2, FS_CardinalityType

LEMMA InitIInv == Init => IInv
<1> SUFFICES ASSUME Init PROVE IInv
    OBVIOUS
<1> USE DEF Init, EmptyJobQueue, occupied, launched
<1>1. TypeOK
    BY JobQueueAssumption DEF TypeOK
<1>2. QueueIsSuffix /\ EnqueuedOnce /\ OccupiedWereLaunched
    BY DEF QueueIsSuffix, EnqueuedOnce, OccupiedWereLaunched
<1>3. JobsAreKnown
    BY DEF JobsAreKnown, Queued
<1>4. SlotsMatchJobs
    BY FS_EmptySet DEF SlotsMatchJobs
<1>5. NoIdleSlot
    BY DEF NoIdleSlot
<1> QED
    BY <1>1, <1>2, <1>3, <1>4, <1>5 DEF IInv

LEMMA EnqueueIInv ==
    ASSUME IInv, NEW j \in Job, enqueueJob(j)
    PROVE  IInv'
<1> USE JobQueueAssumption
<1>1. /\ jobqueue.current \in 0 .. max_simjobs /\ jobqueue.queue \in Seq(Job)
      /\ jobqueue = [current |-> jobqueue.current, queue |-> jobqueue.queue]
      /\ enqueued \in Seq(Job)
    BY DEF IInv, TypeOK
<1>2. /\ enqueued' \in Seq(Job) /\ Len(enqueued') = Len(enqueued) + 1
      /\ \A i \in 1 .. Len(enqueued) : enqueued'[i] = enqueued[i]
      /\ enqueued'[Len(enqueued) + 1] = j
    BY <1>1 DEF enqueueJob
<1>3. \A i \in 1 .. Len(enqueued) : enqueued[i] # j
    BY DEF enqueueJob, Enqueued
<1>4. j \notin occupied
    <2>1. launched \in 0 .. Len(enqueued)
        BY <1>1 DEF IInv, QueueIsSuffix, launched
    <2> QED
        BY <1>1, <1>3, <2>1 DEF IInv, OccupiedWereLaunched
<1>5. EnqueuedOnce'
    <2> SUFFICES ASSUME NEW i \in 1 .. Len(enqueued'), NEW k \in 1 .. Len(enqueued'),
                        enqueued'[i] = enqueued'[k]
                 PROVE  i = k
        BY DEF EnqueuedOnce
    <2>1. i \in 1 .. Len(enqueued) \/ i = Len(enqueued) + 1
        BY <1>1, <1>2
    <2>2. k \in 1 .. Len(enqueued) \/ k = Len(enqueued) + 1
        BY <1>1, <1>2
    <2> QED
        BY <1>2, <1>3, <2>1, <2>2 DEF IInv, EnqueuedOnce
<1>6. CASE HasFreeSlot(jobqueue, max_simjobs)
    <2>1. jobqueue' = [current |-> jobqueue.current + 1, queue |-> jobqueue.queue]
        BY <1>1, <1>6 DEF enqueueJob, enqueue
    <2>2. jobqueue.queue = <<>> /\ jobqueue.current + 1 \in 0 .. max_simjobs
        BY <1>1, <1>6 DEF HasFreeSlot, IInv, NoIdleSlot
    <2>3. occupied' = occupied \cup {j} /\ running' \cap lost' = {}
        BY <1>4, <1>6, LaunchOccupies DEF enqueueJob, IInv, SlotsMatchJobs
    <2>4. TypeOK'
        <3>1. running' \subseteq Job /\ lost' \subseteq Job
            BY <2>3, OccupiedFinite DEF occupied, IInv
        <3> QED
            BY <1>1, <1>2, <2>1, <2>2, <3>1 DEF TypeOK, IInv, enqueueJob
    <2>5. QueueIsSuffix'
        BY <1>1, <1>2, <2>1, <2>2 DEF QueueIsSuffix, launched
    <2>6. OccupiedWereLaunched'
        <3>1. launched = Len(enqueued) /\ launched' = Len(enqueued) + 1
            BY <1>1, <1>2, <2>1, <2>2 DEF launched
        <3> QED
            BY <1>1, <1>2, <2>3, <3>1 DEF OccupiedWereLaunched, IInv
    <2>7. JobsAreKnown'
        BY <2>1, <2>3 DEF JobsAreKnown, IInv, enqueueJob, Queued
    <2>8. SlotsMatchJobs'
        <3>1. Cardinality(occupied') = Cardinality(occupied) + 1
            BY <1>4, <2>3, OccupiedFinite, FS_AddElement DEF IInv
        <3> QED
            BY <1>1, <2>1, <2>3, <3>1 DEF SlotsMatchJobs, IInv, occupied
    <2>9. NoIdleSlot'
        BY <2>1, <2>2 DEF NoIdleSlot
    <2> QED
        BY <1>5, <2>4, <2>5, <2>6, <2>7, <2>8, <2>9 DEF IInv
<1>7. CASE ~HasFreeSlot(jobqueue, max_simjobs)
    <2>1. jobqueue' = [current |-> jobqueue.current, queue |-> Append(jobqueue.queue, j)]
        BY <1>1, <1>7 DEF enqueueJob, enqueue
    <2>2. /\ jobqueue'.queue \in Seq(Job)
          /\ Len(jobqueue'.queue) = Len(jobqueue.queue) + 1
          /\ \A i \in 1 .. Len(jobqueue.queue) : jobqueue'.queue[i] = jobqueue.queue[i]
          /\ jobqueue'.queue[Len(jobqueue.queue) + 1] = j
        BY <1>1, <2>1
    <2>3. running' = running /\ lost' = lost
        BY <1>7 DEF enqueueJob, Launch
    <2>4. TypeOK'
        BY <1>1, <1>2, <2>1, <2>2, <2>3 DEF TypeOK, IInv, enqueueJob
    <2>5. launched' = launched /\ launched \in Nat
        BY <1>1, <1>2, <2>2 DEF launched, IInv, QueueIsSuffix
    <2>6. QueueIsSuffix'
        <3> SUFFICES ASSUME NEW i \in 1 .. Len(jobqueue'.queue)
                     PROVE  jobqueue'.queue[i] = enqueued'[launched + i]
            BY <2>5 DEF QueueIsSuffix
        <3>1. CASE i \in 1 .. Len(jobqueue.queue)
            <4>1. launched + i \in 1 .. Len(enqueued)
                BY <1>1, <2>5, <3>1 DEF launched
            <4> QED
                BY <1>2, <2>2, <3>1, <4>1 DEF IInv, QueueIsSuffix
        <3>2. CASE i = Len(jobqueue.queue) + 1
            BY <1>1, <1>2, <2>2, <3>2 DEF launched
        <3> QED
            BY <1>1, <2>2, <3>1, <3>2
    <2>7. OccupiedWereLaunched'
        <3>1. \A i \in 1 .. launched : i \in 1 .. Len(enqueued)
            BY <1>1, <2>5 DEF launched
        <3> QED
            BY <1>2, <2>3, <2>5, <3>1 DEF OccupiedWereLaunched, occupied, IInv
    <2>8. JobsAreKnown'
        <3>1. Queued' = Queued \cup {j}
            <4>1. ASSUME NEW x \in Queued' PROVE x \in Queued \cup {j}
                <5>1. PICK i \in 1 .. Len(jobqueue'.queue) : x = jobqueue'.queue[i]
                    BY <4>1 DEF Queued
                <5>2. i \in 1 .. Len(jobqueue.queue) \/ i = Len(jobqueue.queue) + 1
                    BY <1>1, <2>2
                <5> QED
                    BY <2>2, <5>1, <5>2 DEF Queued
            <4>2. ASSUME NEW x \in Queued PROVE x \in Queued'
                <5>1. PICK i \in 1 .. Len(jobqueue.queue) : x = jobqueue.queue[i]
                    BY <4>2 DEF Queued
                <5>2. i \in 1 .. Len(jobqueue'.queue)
                    BY <1>1, <2>2
                <5> QED
                    BY <2>2, <5>1, <5>2 DEF Queued
            <4>3. Len(jobqueue.queue) + 1 \in 1 .. Len(jobqueue'.queue)
                BY <1>1, <2>2
            <4>4. j \in Queued'
                BY <2>2, <4>3 DEF Queued
            <4> QED
                BY <4>1, <4>2, <4>4
        <3> QED
            BY <2>3, <3>1 DEF JobsAreKnown, IInv, enqueueJob, occupied
    <2>9. SlotsMatchJobs'
        BY <2>1, <2>3 DEF SlotsMatchJobs, IInv
    <2>10. NoIdleSlot'
        BY <1>1, <1>7, <2>1 DEF NoIdleSlot, HasFreeSlot
    <2> QED
        BY <1>5, <2>4, <2>6, <2>7, <2>8, <2>9, <2>10 DEF IInv
<1> QED
    BY <1>6, <1>7

LEMMA RemoveIInv ==
    ASSUME IInv, NEW j \in Job, removeJob(j)
    PROVE  IInv'
<1> USE JobQueueAssumption
<1>1. /\ jobqueue.current \in 0 .. max_simjobs /\ jobqueue.queue \in Seq(Job)
      /\ jobqueue = [current |-> jobqueue.current, queue |-> jobqueue.queue]
      /\ enqueued \in Seq(Job) /\ enqueued' = enqueued
    BY DEF IInv, TypeOK, removeJob
<1>2. launched \in 0 .. Len(enqueued) /\ Len(jobqueue.queue) = Len(enqueued) - launched
    BY <1>1 DEF IInv, QueueIsSuffix, launched
<1>3. j \in running /\ j \in occupied /\ running \cap lost = {}
    BY DEF removeJob, occupied, IInv, SlotsMatchJobs
<1>4. ASSUME NEW i \in 1 .. Len(jobqueue.queue) PROVE jobqueue.queue[i] \notin occupied
    <2>1. launched + i \in 1 .. Len(enqueued) /\ launched + i \notin 1 .. launched
        BY <1>1, <1>2
    <2>2. jobqueue.queue[i] = enqueued[launched + i]
        BY DEF IInv, QueueIsSuffix
    <2>3. ASSUME NEW k \in 1 .. launched PROVE enqueued[k] # jobqueue.queue[i]
        <3>1. k \in 1 .. Len(enqueued) /\ k # launched + i
            BY <1>1, <1>2, <2>1
        <3> QED
            BY <2>1, <2>2, <3>1 DEF IInv, EnqueuedOnce
    <2> QED
        BY <2>3 DEF IInv, OccupiedWereLaunched
<1>5. j \notin Queued
    BY <1>3, <1>4 DEF Queued
<1>6. EnqueuedOnce'
    BY <1>1 DEF IInv, EnqueuedOnce
<1>7. CASE jobqueue.queue = <<>>
    <2>1. jobqueue' = [current |-> jobqueue.current - 1, queue |-> jobqueue.queue]
        BY <1>1, <1>7 DEF removeJob, handleJobTermination
    <2>2. running' = running \ {j} /\ lost' = lost
        BY <1>7 DEF removeJob
    <2>3. occupied' = occupied \ {j}
        BY <1>3, <2>2 DEF occupied
    <2>4. Cardinality(occupied') = Cardinality(occupied) - 1 /\ Cardinality(occupied') \in Nat
        BY <1>3, <2>3, OccupiedFinite, FS_RemoveElement, FS_CardinalityType DEF IInv
    <2>5. jobqueue.current = Cardinality(occupied)
        BY DEF IInv, SlotsMatchJobs, occupied
    <2>6. TypeOK'
        BY <1>1, <2>1, <2>2, <2>4, <2>5, OccupiedFinite DEF TypeOK, IInv, removeJob
    <2>7. launched' = launched
        BY <1>1, <2>1 DEF launched
    <2>8. QueueIsSuffix'
        BY <1>1, <2>1, <2>7 DEF QueueIsSuffix, IInv
    <2>9. OccupiedWereLaunched'
        BY <1>1, <2>3, <2>7 DEF OccupiedWereLaunched, IInv
    <2>10. JobsAreKnown'
        BY <1>5, <2>1, <2>3 DEF JobsAreKnown, IInv, removeJob, Queued
    <2>11. SlotsMatchJobs'
        <3>1. jobqueue'.current = Cardinality(occupied')
            BY <2>1, <2>4, <2>5
        <3> QED
            BY <1>3, <2>2, <3>1 DEF SlotsMatchJobs, occupied
    <2>12. NoIdleSlot'
        BY <1>7, <2>1 DEF NoIdleSlot
    <2> QED
        BY <1>6, <2>6, <2>8, <2>9, <2>10, <2>11, <2>12 DEF IInv
<1>8. CASE jobqueue.queue # <<>>
    <2> DEFINE h == Head(jobqueue.queue)
    <2>1. jobqueue' = [current |-> jobqueue.current, queue |-> Tail(jobqueue.queue)]
        BY <1>1, <1>8 DEF removeJob, handleJobTermination
    <2>2. /\ h \in Job /\ h = jobqueue.queue[1] /\ 1 \in 1 .. Len(jobqueue.queue)
          /\ jobqueue'.queue \in Seq(Job)
          /\ Len(jobqueue'.queue) = Len(jobqueue.queue) - 1
          /\ \A i \in 1 .. Len(jobqueue'.queue) : jobqueue'.queue[i] = jobqueue.queue[i + 1]
        BY <1>1, <1>8, <2>1
    <2>3. h \notin occupied
        BY <1>4, <2>2
    <2>4. \/ running' = (running \ {j}) \cup {h} /\ lost' = lost
          \/ running' = running \ {j} /\ lost' = lost \cup {h}
        BY <1>8 DEF removeJob
    <2>5. occupied' = (occupied \ {j}) \cup {h} /\ running' \cap lost' = {}
        BY <1>3, <2>3, <2>4 DEF occupied
    <2>6. Cardinality(occupied') = Cardinality(occupied)
        <3>1. /\ IsFiniteSet(occupied \ {j})
              /\ Cardinality(occupied \ {j}) = Cardinality(occupied) - 1
              /\ Cardinality(occupied) \in Nat
            BY <1>3, OccupiedFinite, FS_RemoveElement DEF IInv
        <3>2. Cardinality(occupied') = Cardinality(occupied \ {j}) + 1
            BY <2>3, <2>5, <3>1, FS_AddElement
        <3> QED
            BY <3>1, <3>2
    <2>7. TypeOK'
        <3>1. occupied' \subseteq Job
            BY <2>2, <2>5, OccupiedFinite DEF IInv
        <3> QED
            BY <1>1, <2>1, <2>2, <3>1 DEF TypeOK, IInv, removeJob, occupied
    <2>8. launched' = launched + 1
        BY <1>1, <1>2, <2>2 DEF launched
    <2>9. QueueIsSuffix'
        <3> SUFFICES ASSUME NEW i \in 1 .. Len(jobqueue'.queue)
                     PROVE  jobqueue'.queue[i] = enqueued[launched + 1 + i]
            BY <1>1, <1>2, <2>8 DEF QueueIsSuffix
        <3>1. Len(jobqueue.queue) \in Nat
            BY <1>1
        <3>2. i + 1 \in 1 .. Len(jobqueue.queue)
            BY <2>2, <3>1
        <3>3. launched + 1 + i = launched + (i + 1)
            BY <1>2
        <3>4. jobqueue.queue[i + 1] = enqueued[launched + (i + 1)]
            BY <3>2 DEF QueueIsSuffix, IInv
        <3> QED
            BY <2>2, <3>3, <3>4
    <2>10. OccupiedWereLaunched'
        <3> SUFFICES ASSUME NEW x \in occupied'
                     PROVE  \E i \in 1 .. launched + 1 : enqueued[i] = x
            BY <1>1, <2>8 DEF OccupiedWereLaunched
        <3>1. CASE x \in occupied
            BY <1>2, <3>1 DEF OccupiedWereLaunched, IInv
        <3>2. CASE x = h
            BY <1>2, <2>2, <3>2 DEF QueueIsSuffix, IInv
        <3> QED
            BY <2>5, <3>1, <3>2
    <2>11. JobsAreKnown'
        <3>1. ASSUME NEW x \in Queued PROVE x = h \/ x \in Queued'
            <4>1. PICK i \in 1 .. Len(jobqueue.queue) : x = jobqueue.queue[i]
                BY <3>1 DEF Queued
            <4>2. CASE i = 1
                BY <2>2, <4>1, <4>2
            <4>3. CASE i # 1
                <5>1. i - 1 \in 1 .. Len(jobqueue'.queue) /\ (i - 1) + 1 = i
                    BY <1>1, <2>2, <4>3
                <5> QED
                    BY <2>2, <4>1, <5>1 DEF Queued
            <4> QED
                BY <4>2, <4>3
        <3>2. ASSUME NEW x \in Queued' PROVE x \in Queued
            <4>1. PICK i \in 1 .. Len(jobqueue'.queue) : x = jobqueue'.queue[i]
                BY <3>2 DEF Queued
            <4>2. i + 1 \in 1 .. Len(jobqueue.queue)
                BY <1>1, <2>2
            <4> QED
                BY <2>2, <4>1, <4>2 DEF Queued
        <3>3. h \in Queued
            BY <2>2 DEF Queued
        <3>4. simulation_jobs = Queued \cup occupied /\ simulation_jobs' = simulation_jobs \ {j}
            BY DEF JobsAreKnown, IInv, removeJob
        <3> QED
            BY <1>5, <2>5, <3>1, <3>2, <3>3, <3>4 DEF JobsAreKnown
    <2>12. SlotsMatchJobs'
        BY <2>1, <2>5, <2>6 DEF SlotsMatchJobs, IInv, occupied
    <2>13. NoIdleSlot'
        BY <1>8, <2>1 DEF NoIdleSlot, IInv
    <2> QED
        BY <1>6, <2>7, <2>9, <2>10, <2>11, <2>12, <2>13 DEF IInv
<1> QED
    BY <1>7, <1>8

LEMMA CrashIInv ==
    ASSUME IInv, NEW j \in Job, SimulatorCrash(j)
    PROVE  IInv'
<1>1. occupied' = occupied /\ running' \cap lost' = {}
    BY DEF SimulatorCrash, occupied, IInv, SlotsMatchJobs
<1>2. UNCHANGED <<jobqueue, simulation_jobs, enqueued>>
    BY DEF SimulatorCrash
<1>3. TypeOK'
    BY <1>2 DEF TypeOK, IInv, SimulatorCrash
<1>4. launched' = launched /\ Queued' = Queued
    BY <1>2 DEF launched, Queued
<1>5. QueueIsSuffix'
    BY <1>2, <1>4 DEF IInv, QueueIsSuffix
<1>6. EnqueuedOnce'
    BY <1>2 DEF IInv, EnqueuedOnce
<1>7. OccupiedWereLaunched'
    BY <1>1, <1>2, <1>4 DEF IInv, OccupiedWereLaunched
<1>8. JobsAreKnown'
    BY <1>1, <1>2, <1>4 DEF IInv, JobsAreKnown
<1>9. SlotsMatchJobs'
    BY <1>1, <1>2 DEF IInv, SlotsMatchJobs, occupied
<1>10. NoIdleSlot'
    BY <1>2 DEF IInv, NoIdleSlot
<1> QED
    BY <1>3, <1>5, <1>6, <1>7, <1>8, <1>9, <1>10 DEF IInv

LEMMA StutterIInv ==
    ASSUME IInv, UNCHANGED vars
    PROVE  IInv'
<1>1. UNCHANGED <<jobqueue, simulation_jobs, running, lost, enqueued>>
    BY DEF vars
<1>2. TypeOK' /\ SlotsMatchJobs' /\ NoIdleSlot' /\ EnqueuedOnce'
    BY <1>1 DEF IInv, TypeOK, SlotsMatchJobs, NoIdleSlot, EnqueuedOnce
<1>3. launched' = launched /\ Queued' = Queued /\ occupied' = occupied
    BY <1>1 DEF launched, Queued, occupied
<1>4. QueueIsSuffix'
    BY <1>1, <1>3 DEF IInv, QueueIsSuffix
<1>5. OccupiedWereLaunched'
    BY <1>1, <1>3 DEF IInv, OccupiedWereLaunched
<1>6. JobsAreKnown'
    BY <1>1, <1>3 DEF IInv, JobsAreKnown
<1> QED
    BY <1>2, <1>4, <1>5, <1>6 DEF IInv

LEMMA NextIInv == IInv /\ [Next]_vars => IInv'
<1> SUFFICES ASSUME IInv, [Next]_vars PROVE IInv'
    OBVIOUS
<1>1. ASSUME NEW j \in Job, enqueueJob(j) PROVE IInv'
    BY <1>1, EnqueueIInv
<1>2. ASSUME NEW j \in Job, removeJob(j) PROVE IInv'
    BY <1>2, RemoveIInv
<1>3. ASSUME NEW j \in Job, SimulatorCrash(j) PROVE IInv'
    BY <1>3, CrashIInv
<1>4. CASE UNCHANGED vars
    BY <1>4, StutterIInv
<1> QED
    BY <1>1, <1>2, <1>3, <1>4 DEF Next

\* The inductive invariant is stronger than the property the runs check.
LEMMA IInvFIFO == IInv => FirstInFirstOut
<1> SUFFICES ASSUME IInv PROVE FirstInFirstOut
    OBVIOUS
<1>1. /\ jobqueue.queue \in Seq(Job) /\ enqueued \in Seq(Job)
      /\ launched \in 0 .. Len(enqueued) /\ Len(jobqueue.queue) = Len(enqueued) - launched
    BY DEF IInv, TypeOK, QueueIsSuffix, launched
<1>2. jobqueue.queue = SubSeq(enqueued, launched + 1, Len(enqueued))
    <2> DEFINE rest == SubSeq(enqueued, launched + 1, Len(enqueued))
    <2>1. /\ rest \in Seq(Job) /\ Len(rest) = Len(enqueued) - launched
          /\ \A i \in 1 .. Len(rest) : rest[i] = enqueued[launched + i]
        BY <1>1
    <2>2. \A i \in 1 .. Len(jobqueue.queue) : jobqueue.queue[i] = rest[i]
        BY <1>1, <2>1 DEF IInv, QueueIsSuffix
    <2> HIDE DEF rest
    <2> QED
        BY <1>1, <2>1, <2>2, SeqEqual DEF rest
<1>3. ASSUME NEW i \in 1 .. Len(enqueued), enqueued[i] \in running \cup lost
      PROVE  i <= launched
    <2>1. PICK k \in 1 .. launched : enqueued[k] = enqueued[i]
        BY <1>3 DEF IInv, OccupiedWereLaunched, occupied
    <2>2. k \in 1 .. Len(enqueued)
        BY <1>1
    <2> QED
        BY <1>1, <2>1, <2>2 DEF IInv, EnqueuedOnce
<1>4. simulation_jobs = Queued \cup running \cup lost
    BY DEF IInv, JobsAreKnown, occupied
<1> QED
    BY <1>1, <1>2, <1>3, <1>4 DEF FirstInFirstOut

-----------------------------------------------------------------------------
LEMMA Invariance == Spec => []IInv
<1>1. Init => IInv
    BY InitIInv
<1>2. IInv /\ [Next]_vars => IInv'
    BY NextIInv
<1> QED
    BY <1>1, <1>2, PTL DEF Spec

(* The queue and the sets of jobs have their types; never more than        *)
(* max_simjobs slots are taken (JobQueue::enqueue).                        *)
THEOREM TypeCorrect == Spec => []TypeOK
<1>1. IInv => TypeOK
    BY DEF IInv
<1> QED
    BY <1>1, Invariance, PTL

(* The slots taken are the jobs launched and not removed, whatever         *)
(* launches fail and simulators die.                                       *)
THEOREM SlotsAlwaysMatchJobs == Spec => []SlotsMatchJobs
<1>1. IInv => SlotsMatchJobs
    BY DEF IInv
<1> QED
    BY <1>1, Invariance, PTL

(* A job waits in the queue only while every slot is taken.                *)
THEOREM NeverAnIdleSlot == Spec => []NoIdleSlot
<1>1. IInv => NoIdleSlot
    BY DEF IInv
<1> QED
    BY <1>1, Invariance, PTL

(* Jobs are launched in the order in which they were enqueued, each once,  *)
(* and the DV knows exactly those that are queued or launched.             *)
THEOREM AlwaysFirstInFirstOut == Spec => []FirstInFirstOut
<1>1. IInv => FirstInFirstOut
    BY IInvFIFO
<1> QED
    BY <1>1, Invariance, PTL

-----------------------------------------------------------------------------
\* SimJob.

(* The types of the job's members need one fact more: last_nr_ is a step   *)
(* while a file is open, so that a close records a step.                   *)
SimJobTInv == SimJobTypeOK /\ (open # {} => job.last_nr \in Step)

\* newSimulation gives a job of the right type for each first step.
LEMMA NewSimulation ==
    ASSUME NEW R \in SUBSET Step, NEW target \in Step, NEW extend_left \in 0 .. target,
           NEW j, j = newSimulation(R, target, extend_left)
    PROVE  /\ j \in JobType
           /\ j.valid /\ j.produced = {} /\ j.time_to_kill = sim_kill_threshold
           /\ j.min_sim_target = target - extend_left
           /\ j.sim_start <= target - extend_left /\ target - extend_left <= j.sim_stop
<1> USE SimJobAssumption
<1> DEFINE first == target - extend_left
           range(a) == generateSimJobForRange(R, a, target, FALSE, MaxNr)
           wide == range(first)
<1>1. first \in Step /\ first <= target
  BY DEF Step
<1>2. ASSUME NEW a \in Step, a <= target
      PROVE  /\ range(a).sim_start \in Step /\ range(a).sim_stop \in Step
             /\ range(a).sim_start <= a /\ target <= range(a).sim_stop
  <2>1. /\ a \in Int /\ target \in Nat /\ target <= MaxNr /\ a \in Nat
        /\ R \in SUBSET (0 .. MaxNr) /\ FALSE \in BOOLEAN
    BY <1>2 DEF Step
  <2>2. /\ range(a).sim_start \in 0 .. MaxNr
        /\ range(a).sim_start = 0 \/ range(a).sim_start <= a
        /\ range(a).sim_stop \in target .. MaxNr
    BY <2>1, RangeProperty
  <2> HIDE DEF range
  <2>3. QED
    BY <2>1, <2>2 DEF Step
<1>3. j = [sim_start |-> wide.sim_start, sim_stop |-> wide.sim_stop, last_nr |-> NoNr,
           min_sim_target |-> IntMax(first, first), time_to_kill |-> sim_kill_threshold,
           produced |-> {}, valid |-> TRUE, is_passive |-> FALSE]
  BY DEF newSimulation, newSimJob, handleClientFileOpen
<1>4. IntMax(first, first) = first
  BY DEF IntMax
<1> HIDE DEF range
<1>5. /\ wide.sim_start \in Step /\ wide.sim_stop \in Step
      /\ wide.sim_start <= first /\ target <= wide.sim_stop
  BY <1>1, <1>2
<1> HIDE DEF wide, first
<1>6. j \in JobType
  BY <1>1, <1>3, <1>4, <1>5 DEF JobType
<1>7. first <= wide.sim_stop
  BY <1>1, <1>5 DEF Step
<1> QED
  BY <1>3, <1>4, <1>5, <1>6, <1>7 DEF first

LEMMA SimJobInitTInv == SimJobInit => SimJobTInv
<1> SUFFICES ASSUME SimJobInit PROVE SimJobTInv
  OBVIOUS
<1> USE SimJobAssumption
<1>1. PICK R \in SUBSET Step, target \in Step :
        \E extend_left \in 0 .. (IF MaxExtendLeft < target THEN MaxExtendLeft ELSE target) :
            job = newSimulation(R, target, extend_left) /\ requested = {target}
  BY DEF SimJobInit
<1> PICK extend_left \in 0 .. (IF MaxExtendLeft < target THEN MaxExtendLeft ELSE target) :
        job = newSimulation(R, target, extend_left) /\ requested = {target}
  BY <1>1
<1>2. extend_left \in 0 .. target
  BY <1>1 DEF Step
<1>3. job \in JobType
  BY <1>1, <1>2, NewSimulation
<1>4. next_nr = job.sim_start /\ job.sim_start \in Step
  BY <1>3 DEF SimJobInit, JobType
<1>5. next_nr \in 0 .. (MaxNr + 1)
  BY <1>4 DEF Step
<1> QED
  BY <1>1, <1>3, <1>5 DEF SimJobInit, SimJobTInv, SimJobTypeOK

\* Each operation of the class keeps the types of its members.
LEMMA OperationTypes ==
    ASSUME NEW j \in JobType, NEW nr \in Step
    PROVE  /\ invalidateJob(j) \in JobType
           /\ handleClientFileOpen(j, nr, sim_kill_threshold) \in JobType
           /\ handleSimulatorFileCreate(j, nr) \in JobType
           /\ handleSimulatorFileCreate(j, nr).last_nr = nr
           /\ j.last_nr \in Step => handleSimulatorFileClose(j) \in JobType
           /\ handleSimulatorFileClose(j).last_nr = j.last_nr
<1> USE SimJobAssumption DEF JobType
<1>1. invalidateJob(j) \in JobType
  BY DEF invalidateJob
<1>2. handleClientFileOpen(j, nr, sim_kill_threshold) \in JobType
  <2>1. IntMax(j.min_sim_target, nr) \in Step
    BY DEF IntMax
  <2>2. ASSUME NEW t \in 0 .. sim_kill_threshold, NEW m \in Step
        PROVE  [j EXCEPT !.time_to_kill = t, !.min_sim_target = m] \in JobType
    OBVIOUS
  <2>3. sim_kill_threshold \in 0 .. sim_kill_threshold
    OBVIOUS
  <2> QED
    BY <2>1, <2>2, <2>3 DEF handleClientFileOpen
<1>3. handleSimulatorFileCreate(j, nr) \in JobType /\ handleSimulatorFileCreate(j, nr).last_nr = nr
  <2> DEFINE ttk == IF j.time_to_kill > 0 /\ j.min_sim_target < nr
                    THEN j.time_to_kill - 1 ELSE j.time_to_kill
  <2>1. ttk \in 0 .. sim_kill_threshold
    BY DEF Step
  <2>2. handleSimulatorFileCreate(j, nr) = [j EXCEPT !.last_nr = nr, !.time_to_kill = ttk]
    BY DEF handleSimulatorFileCreate
  <2> HIDE DEF ttk
  <2> QED
    BY <2>1, <2>2
<1>4. /\ j.last_nr \in Step => handleSimulatorFileClose(j) \in JobType
      /\ handleSimulatorFileClose(j).last_nr = j.last_nr
  BY DEF handleSimulatorFileClose
<1> QED
  BY <1>1, <1>2, <1>3, <1>4

LEMMA SimJobNextTInv == SimJobTInv /\ [SimJobNext]_simjob_vars => SimJobTInv'
<1> SUFFICES ASSUME SimJobTInv, [SimJobNext]_simjob_vars PROVE SimJobTInv'
  OBVIOUS
<1> USE SimJobAssumption
<1>1. job \in JobType /\ next_nr \in 0 .. (MaxNr + 1)
  BY DEF SimJobTInv, SimJobTypeOK
<1>2. ASSUME NEW nr \in Step, ClientFileOpen(nr) PROVE SimJobTInv'
  <2>1. job' \in JobType
    BY <1>1, <1>2, OperationTypes DEF ClientFileOpen
  <2>2. job'.last_nr = job.last_nr
    BY <1>1, <1>2 DEF ClientFileOpen, handleClientFileOpen, JobType
  <2> QED
    BY <1>2, <2>1, <2>2 DEF ClientFileOpen, SimJobTInv, SimJobTypeOK
<1>3. CASE SimulatorFileCreate
  <2>1. next_nr \in Step /\ next_nr' \in 0 .. (MaxNr + 1)
    BY <1>1, <1>3 DEF SimulatorFileCreate, JobType, Step
  <2>2. job' \in JobType /\ job'.last_nr \in Step
    BY <1>1, <1>3, <2>1, OperationTypes DEF SimulatorFileCreate
  <2> QED
    BY <1>3, <2>1, <2>2 DEF SimulatorFileCreate, SimJobTInv, SimJobTypeOK
<1>4. CASE SimulatorKill
  <2>1. next_nr' \in 0 .. (MaxNr + 1)
    BY <1>1, <1>4 DEF SimulatorKill, JobType, Step
  <2>2. job' \in JobType /\ job'.last_nr = job.last_nr
    BY <1>1, <1>4 DEF SimulatorKill, invalidateJob, JobType
  <2> QED
    BY <1>4, <2>1, <2>2 DEF SimulatorKill, SimJobTInv, SimJobTypeOK
<1>5. CASE SimulatorCheckpointCreate
  <2>1. job' \in JobType /\ job'.last_nr = job.last_nr
    BY <1>1, <1>5 DEF SimulatorCheckpointCreate, invalidateJob, JobType
  <2> QED
    BY <1>5, <2>1 DEF SimulatorCheckpointCreate, SimJobTInv, SimJobTypeOK
<1>6. ASSUME NEW nr \in Step, SimulatorFileClose(nr) PROVE SimJobTInv'
  <2>1. job.last_nr \in Step
    BY <1>6 DEF SimulatorFileClose, SimJobTInv
  <2>2. job' \in JobType /\ job'.last_nr = job.last_nr
    BY <1>1, <1>6, <2>1, OperationTypes DEF SimulatorFileClose
  <2> QED
    BY <1>6, <2>1, <2>2 DEF SimulatorFileClose, SimJobTInv, SimJobTypeOK
<1>7. CASE SimulatorFinalize
  BY <1>7 DEF SimulatorFinalize, SimJobTInv, SimJobTypeOK
<1>8. CASE UNCHANGED simjob_vars
  BY <1>8 DEF simjob_vars, SimJobTInv, SimJobTypeOK
<1> QED
  BY <1>2, <1>3, <1>4, <1>5, <1>6, <1>7, <1>8 DEF SimJobNext, SimulatorStep

LEMMA SimJobTypeInvariance == SimJobSpec => []SimJobTInv
<1>1. SimJobInit => SimJobTInv
  BY SimJobInitTInv
<1>2. SimJobTInv /\ [SimJobNext]_simjob_vars => SimJobTInv'
  BY SimJobNextTInv
<1> QED
  BY <1>1, <1>2, PTL DEF SimJobSpec

(* The members of the job have their types with any stride and any number  *)
(* of open files; the countdown never leaves 0 .. sim_kill_threshold.      *)
THEOREM SimJobTypeCorrect == SimJobSpec => []SimJobTypeOK
<1>1. SimJobTInv => SimJobTypeOK
  BY DEF SimJobTInv
<1> QED
  BY <1>1, SimJobTypeInvariance, PTL

-----------------------------------------------------------------------------
(* The simulator works through its range: what it has started it has       *)
(* closed, but for the step created last, and produced_ records the same.  *)
Progress ==
    job.valid =>
        /\ job.sim_start <= next_nr /\ next_nr <= job.sim_stop + 1
        /\ open \cup closed = job.sim_start .. (next_nr - 1)
        /\ open \subseteq {job.last_nr}
        /\ job.produced = closed

(* No step before the range or beyond the job's target is waited for.      *)
TargetIsLast ==
    \A nr \in requested : job.sim_start <= nr /\ nr <= job.min_sim_target

(* Once the countdown has started, everybody is served.                    *)
CountdownMeansServed ==
    ~job.valid \/ job.time_to_kill < sim_kill_threshold => requested \subseteq closed

(* The inductive invariant for a simulator with one open file and a job    *)
(* that was started with the step that was missed.                         *)
SimJobIInv == SimJobTInv /\ Progress /\ TargetIsLast /\ CountdownMeansServed

LEMMA SimJobInitIInv == ASSUME MaxExtendLeft = 0, SimJobInit PROVE SimJobIInv
<1> USE SimJobAssumption
<1>1. PICK R \in SUBSET Step, target \in Step :
        \E extend_left \in 0 .. (IF MaxExtendLeft < target THEN MaxExtendLeft ELSE target) :
            job = newSimulation(R, target, extend_left) /\ requested = {target}
  BY DEF SimJobInit
<1> PICK extend_left \in 0 .. (IF MaxExtendLeft < target THEN MaxExtendLeft ELSE target) :
        job = newSimulation(R, target, extend_left) /\ requested = {target}
  BY <1>1
<1>2. extend_left \in 0 .. target
  BY DEF Step
<1>3. /\ job \in JobType
      /\ job.valid /\ job.produced = {} /\ job.time_to_kill = sim_kill_threshold
      /\ job.min_sim_target = target
      /\ job.sim_start <= target /\ target <= job.sim_stop
  <2>1. /\ job \in JobType
        /\ job.valid /\ job.produced = {} /\ job.time_to_kill = sim_kill_threshold
        /\ job.min_sim_target = target - extend_left
        /\ job.sim_start <= target - extend_left /\ target - extend_left <= job.sim_stop
    BY <1>2, NewSimulation
  <2>2. target - extend_left = target
    BY DEF Step
  <2> QED
    BY <2>1, <2>2
<1>4. Progress
  <2>1. next_nr = job.sim_start /\ open = {} /\ closed = {}
    BY DEF SimJobInit
  <2>2. job.sim_start .. (job.sim_start - 1) = {} /\ job.sim_start <= job.sim_stop + 1
    BY <1>3 DEF JobType, Step
  <2> QED
    BY <1>3, <2>1, <2>2 DEF Progress, JobType, Step
<1>5. TargetIsLast
  BY <1>1, <1>3 DEF TargetIsLast, JobType, Step
<1>6. CountdownMeansServed
  BY <1>3 DEF CountdownMeansServed
<1> QED
  BY <1>4, <1>5, <1>6, SimJobInitTInv DEF SimJobIInv

\* With MaxOpen = 1 a create finds no file open.
LEMMA NothingOpen ==
    ASSUME SimJobTInv, MaxOpen = 1, Cardinality(open) < MaxOpen
    PROVE  open = {}
<1>1. open \subseteq 0 .. MaxNr /\ IsFiniteSet(open)
  <2>1. IsFiniteSet(0 .. MaxNr)
    BY SimJobAssumption, FS_Interval
  <2> QED
    BY <2>1, FS_Subset DEF SimJobTInv, SimJobTypeOK, Step
<1>2. Cardinality(open) \in Nat
  BY <1>1, FS_CardinalityType
<1> QED
  BY <1>1, <1>2, FS_EmptySet

\* A client's open moves the target and resets the countdown.
LEMMA OpenIInv ==
    ASSUME SimJobIInv, NEW nr \in Step, ClientFileOpen(nr)
    PROVE  Progress' /\ TargetIsLast' /\ CountdownMeansServed'
<1> USE SimJobAssumption
<1>1. /\ job \in JobType /\ requested \subseteq Step
      /\ job.valid /\ job.sim_start <= nr
      /\ requested' = requested \cup {nr}
      /\ UNCHANGED <<next_nr, open, closed, done>>
  BY DEF SimJobIInv, SimJobTInv, SimJobTypeOK, ClientFileOpen, willProduceNr, InRange, JobType
<1>2. /\ job'.sim_start = job.sim_start /\ job'.sim_stop = job.sim_stop
      /\ job'.valid = job.valid /\ job'.produced = job.produced
      /\ job'.last_nr = job.last_nr
      /\ job'.time_to_kill = sim_kill_threshold
      /\ job'.min_sim_target = IntMax(job.min_sim_target, nr)
  BY <1>1 DEF ClientFileOpen, handleClientFileOpen, JobType
<1>3. Progress'
  BY <1>1, <1>2 DEF SimJobIInv, Progress
<1>4. TargetIsLast'
  BY <1>1, <1>2 DEF SimJobIInv, TargetIsLast, IntMax, JobType, Step
<1>5. CountdownMeansServed'
  BY <1>1, <1>2 DEF CountdownMeansServed
<1> QED
  BY <1>3, <1>4, <1>5

\* The countdown moves only at the create of a step behind the target, when
\* every step up to the target is closed.
LEMMA CreateIInv ==
    ASSUME SimJobIInv, MaxOpen = 1, SimulatorFileCreate
    PROVE  Progress' /\ TargetIsLast' /\ CountdownMeansServed'
<1> USE SimJobAssumption
<1>1. /\ job \in JobType /\ requested \subseteq Step /\ next_nr \in Nat
      /\ job.valid /\ next_nr <= job.sim_stop
      /\ next_nr' = next_nr + 1 /\ open' = open \cup {next_nr}
      /\ UNCHANGED <<requested, closed, done>>
  BY DEF SimJobIInv, SimJobTInv, SimJobTypeOK, SimulatorFileCreate
<1>2. open = {}
  BY NothingOpen DEF SimJobIInv, SimulatorFileCreate
<1>3. /\ job'.sim_start = job.sim_start /\ job'.sim_stop = job.sim_stop
      /\ job'.valid = job.valid /\ job'.produced = job.produced
      /\ job'.min_sim_target = job.min_sim_target
      /\ job'.last_nr = next_nr
      /\ job'.time_to_kill = job.time_to_kill \/ job.min_sim_target < next_nr
  BY <1>1 DEF SimulatorFileCreate, handleSimulatorFileCreate, JobType
<1>4. /\ job.sim_start <= next_nr /\ job.produced = closed
      /\ closed = job.sim_start .. (next_nr - 1)
  BY <1>1, <1>2 DEF SimJobIInv, Progress
<1>5. Progress'
  <2>1. open' \cup closed' = job.sim_start .. (next_nr' - 1)
    BY <1>1, <1>2, <1>4 DEF JobType, Step
  <2>2. job.sim_start <= next_nr' /\ next_nr' <= job.sim_stop + 1
    BY <1>1, <1>4 DEF JobType, Step
  <2> QED
    BY <1>1, <1>2, <1>3, <1>4, <2>1, <2>2 DEF Progress
<1>6. TargetIsLast'
  BY <1>1, <1>3 DEF SimJobIInv, TargetIsLast
<1>7. CountdownMeansServed'
  <2>1. CASE job'.time_to_kill = job.time_to_kill
    BY <1>1, <1>3, <2>1 DEF SimJobIInv, CountdownMeansServed
  <2>2. CASE job.min_sim_target < next_nr
    <3>1. \A nr \in requested : nr \in closed
      BY <1>1, <1>4, <2>2 DEF SimJobIInv, TargetIsLast, JobType, Step
    <3> QED
      BY <1>1, <3>1 DEF CountdownMeansServed
  <2> QED
    BY <1>3, <2>1, <2>2
<1> QED
  BY <1>5, <1>6, <1>7

\* A kill needs the countdown at zero.
LEMMA KillIInv ==
    ASSUME SimJobIInv, SimulatorKill \/ SimulatorCheckpointCreate
    PROVE  Progress' /\ TargetIsLast' /\ CountdownMeansServed'
<1> USE SimJobAssumption
<1>1. /\ job \in JobType /\ hasToBeKilled(job, sim_kill_threshold)
      /\ job' = invalidateJob(job) /\ UNCHANGED <<requested, closed>>
  BY DEF SimJobIInv, SimJobTInv, SimJobTypeOK, SimulatorKill, SimulatorCheckpointCreate
<1>2. ~job'.valid /\ job'.sim_start = job.sim_start /\ job'.min_sim_target = job.min_sim_target
  BY <1>1 DEF invalidateJob, JobType
<1>3. job.time_to_kill < sim_kill_threshold
  BY <1>1 DEF hasToBeKilled, JobType
<1> QED
  BY <1>1, <1>2, <1>3 DEF SimJobIInv, Progress, TargetIsLast, CountdownMeansServed

\* The file closed is the one created last, so that the right step is recorded.
LEMMA CloseIInv ==
    ASSUME SimJobIInv, NEW nr \in Step, SimulatorFileClose(nr)
    PROVE  Progress' /\ TargetIsLast' /\ CountdownMeansServed'
<1> USE SimJobAssumption
<1>1. /\ job \in JobType /\ next_nr \in Nat /\ nr \in open
      /\ open' = open \ {nr} /\ closed' = closed \cup {nr}
      /\ UNCHANGED <<requested, next_nr, done>>
  BY DEF SimJobIInv, SimJobTInv, SimJobTypeOK, SimulatorFileClose
<1>2. /\ job'.sim_start = job.sim_start /\ job'.sim_stop = job.sim_stop
      /\ job'.valid = job.valid /\ job'.min_sim_target = job.min_sim_target
      /\ job'.last_nr = job.last_nr /\ job'.time_to_kill = job.time_to_kill
  BY <1>1 DEF SimulatorFileClose, handleSimulatorFileClose, JobType
<1>3. Progress'
  <2> SUFFICES ASSUME job.valid PROVE Progress'
    BY <1>2 DEF Progress
  <2>1. /\ job.sim_start <= next_nr /\ next_nr <= job.sim_stop + 1
        /\ open \cup closed = job.sim_start .. (next_nr - 1)
        /\ open \subseteq {job.last_nr} /\ job.produced = closed
    BY DEF SimJobIInv, Progress
  <2>2. nr = job.last_nr /\ job.sim_start <= nr /\ nr <= job.sim_stop
    BY <1>1, <2>1 DEF JobType, Step
  <2>3. job' = handleSimulatorFileClose(job)
    BY <2>2 DEF SimulatorFileClose, nrIsInSimulationRange, InRange
  <2>4. job'.produced = closed'
    BY <1>1, <2>1, <2>2, <2>3 DEF handleSimulatorFileClose, JobType
  <2>5. open' \cup closed' = open \cup closed /\ open' \subseteq {job.last_nr}
    BY <1>1, <2>1
  <2> QED
    BY <1>1, <1>2, <2>1, <2>4, <2>5 DEF Progress
<1>4. TargetIsLast'
  BY <1>1, <1>2 DEF SimJobIInv, TargetIsLast
<1>5. CountdownMeansServed'
  BY <1>1, <1>2 DEF SimJobIInv, CountdownMeansServed
<1> QED
  BY <1>3, <1>4, <1>5

LEMMA SimJobNextIInv == ASSUME MaxOpen = 1, SimJobIInv, [SimJobNext]_simjob_vars PROVE SimJobIInv'
<1>1. SimJobTInv'
  BY SimJobNextTInv DEF SimJobIInv
<1>2. Progress' /\ TargetIsLast' /\ CountdownMeansServed'
  <2>1. ASSUME NEW nr \in Step, ClientFileOpen(nr) PROVE Progress' /\ TargetIsLast' /\ CountdownMeansServed'
    BY <2>1, OpenIInv
  <2>2. CASE SimulatorFinalize
    BY <2>2 DEF SimulatorFinalize, SimJobIInv, Progress, TargetIsLast, CountdownMeansServed
  <2>3. CASE UNCHANGED simjob_vars
    BY <2>3 DEF simjob_vars, SimJobIInv, Progress, TargetIsLast, CountdownMeansServed
  <2> QED
    BY <2>1, <2>2, <2>3, CreateIInv, KillIInv, CloseIInv DEF SimJobNext, SimulatorStep
<1> QED
  BY <1>1, <1>2 DEF SimJobIInv

LEMMA SimJobInvariance == ASSUME MaxExtendLeft = 0, MaxOpen = 1 PROVE SimJobSpec => []SimJobIInv
<1>1. SimJobInit => SimJobIInv
  BY SimJobInitIInv
<1>2. SimJobIInv /\ [SimJobNext]_simjob_vars => SimJobIInv'
  BY SimJobNextIInv
<1> QED
  BY <1>1, <1>2, PTL DEF SimJobSpec

(* A job that is killed has served everybody who waits for one of its      *)
(* steps, for every threshold and every set of restart files.              *)
THEOREM NeverKilledTooEarly ==
    ASSUME MaxExtendLeft = 0, MaxOpen = 1
    PROVE  SimJobSpec => []KilledOnlyWhenServed
<1>1. SimJobIInv => KilledOnlyWhenServed
  BY DEF SimJobIInv, CountdownMeansServed, KilledOnlyWhenServed
<1> QED
  BY <1>1, SimJobInvariance, PTL

(* A running job answers for exactly the steps it has left, so that a miss *)
(* neither starts a second simulation nor waits for a step already past.   *)
THEOREM AlwaysProducesWhatIsLeft ==
    ASSUME MaxExtendLeft = 0, MaxOpen = 1
    PROVE  SimJobSpec => []ProducesWhatIsLeft
<1>1. SimJobIInv => ProducesWhatIsLeft
  <2> SUFFICES ASSUME SimJobIInv, job.valid, NEW nr \in job.sim_start .. job.sim_stop
               PROVE  willProduceNr(job, nr) <=> nr \notin closed
    BY DEF ProducesWhatIsLeft
  <2>1. job \in JobType /\ job.produced = closed
    BY DEF SimJobIInv, SimJobTInv, SimJobTypeOK, Progress
  <2>2. job.is_passive = FALSE
    BY <2>1 DEF JobType
  <2>3. job.sim_start <= nr /\ nr <= job.sim_stop
    BY <2>1, SimJobAssumption DEF JobType, Step
  <2>4. InRange(job, nr)
    BY <2>3 DEF InRange
  <2> QED
    BY <2>1, <2>2, <2>4 DEF willProduceNr
<1> QED
  BY <1>1, SimJobInvariance, PTL
=============================================================================
