-------------------------- MODULE PrefetchContext --------------------------
(***************************************************************************)
(* The prefetch context of one client: it follows the steps the client     *)
(* opens, starts the simulation of a missing one, and starts simulations   *)
(* ahead of a client that goes forward with a constant stride.  An action  *)
(* is one open.  The cost estimates (alpha, tau) that decide when and how  *)
(* far ahead are free choices within bounds.                               *)
(***************************************************************************)
EXTENDS Simulator, Sequences

CONSTANTS
    MaxParsims,   \* dv_max_vertical_prefetching_intervals_
    MaxLead,      \* bound: strides that one prefetched simulation covers
    MaxAccesses   \* bound: opens

ASSUME PrefetchAssumption == MaxParsims \in Nat /\ MaxLead \in Nat /\ MaxAccesses \in Nat

VARIABLES
    context,      \* state_, stride_, last_access_, last_nr_, parsims_
    accesses,     \* history: the steps opened
    prefetched    \* history: the jobs started ahead, each with the last_nr_ it
                  \* was started behind

prefetch_vars == <<restarts, issued, context, accesses, prefetched>>

NoNr == -1

\* last_access_ is not initialised.
PrefetchInit ==
    /\ Init
    /\ \E any \in Step \cup {NoNr} :
           context = [state |-> "DISABLED", stride |-> 0, last_access |-> any,
                      last_nr |-> NoNr, parsims |-> 1]
    /\ accesses = <<>> /\ prefetched = {}

getStride(c) == IF c.state = "STEADY" THEN c.stride ELSE 0

\* Defect: the next access is taken for the second of a trajectory.
reset_Transient(c) == [c EXCEPT !.stride = 0, !.state = "TRANSIENT", !.last_nr = NoNr,
                                !.last_access = NoNr, !.parsims = 1]

reset(c) == [c EXCEPT !.stride = 0, !.state = "DISABLED", !.last_nr = NoNr,
                      !.last_access = NoNr, !.parsims = 1]

-----------------------------------------------------------------------------
\* The operators below return what becomes of the context and the jobs started
\* ahead, one or several possible results.
Nothing(c) == [context |-> c, ahead |-> {}]

\* Defect: the restart behind the end of the range is taken for its begin.
start_from_Beyond(nr, simlen) == getNextCheckpointNr(restarts, nr + simlen)

start_from(nr, simlen) == getNextCheckpointNr(restarts, nr)

\* c.parsims_ simulations, each from the restart behind the last step of the one
\* before it; a range may be empty.
StartAhead(c, simlen) ==
    LET Ahead(nr) == newSimulation(start_from(nr, simlen), nr + simlen)
        last[i \in 0 .. c.parsims] == IF i = 0 THEN c.last_nr ELSE Ahead(last[i - 1]).sim_stop
    IN  [context |-> [c EXCEPT !.last_nr = last[c.parsims]],
         ahead |-> {[after |-> last[i], job |-> Ahead(last[i])] : i \in 0 .. c.parsims - 1}]

\* From the critical step on: the last stride of what is covered, or earlier by
\* what starting a simulation takes, which is free here.
forward_prefetch(c0, nr) ==
    LET c == IF c0.last_nr = NoNr \/ nr > c0.last_nr
             THEN [c0 EXCEPT !.last_nr = getNextCheckpointNr(restarts, nr)] ELSE c0
        Parsims(optimal) == IF c.parsims < optimal THEN Min({c.parsims * 2, optimal}) ELSE optimal
    IN  (IF nr <= (c.last_nr \div c.stride) * c.stride THEN {Nothing(c)} ELSE {})
        \cup {[StartAhead(c, lead * c.stride) EXCEPT !.context.parsims = Parsims(optimal)] :
                  lead \in 0 .. MaxLead, optimal \in 0 .. MaxParsims}

\* backward_prefetch is empty.
check_for_prefetch(c0, nr) ==
    LET newstride == nr - c0.last_access
        c == [c0 EXCEPT !.last_access = nr]
    IN  CASE c.state = "DISABLED" -> {Nothing([c EXCEPT !.state = "TRANSIENT"])}
          [] c.state = "TRANSIENT" ->
                 {Nothing([c EXCEPT !.stride = newstride, !.state = "STEADY"])}
          [] c.state = "STEADY" /\ c.stride # newstride -> {Nothing(reset(c))}
          [] c.state = "STEADY" /\ c.stride = newstride /\ c.stride > 0 -> forward_prefetch(c, nr)
          [] OTHER -> {Nothing(c)}

LastNr(c, job) == IF getStride(c) >= 0 THEN job.sim_stop ELSE job.sim_start

MissJob(c, nr) == newSimulation(nr - Max({0, - getStride(c)}), nr + Max({0, getStride(c)}))

-----------------------------------------------------------------------------
Opened(nr, result, jobs) ==
    /\ Len(accesses) < MaxAccesses
    /\ context' = result.context
    /\ prefetched' = prefetched \cup result.ahead
    /\ issued' = issued \cup jobs \cup {a.job : a \in result.ahead}
    /\ accesses' = Append(accesses, nr)
    /\ UNCHANGED restarts

handleHit(nr) ==
    \E result \in check_for_prefetch(context, nr) : Opened(nr, result, {})

\* The context keeps what it knows: the trajectory may go on behind the miss.
handleMiss(nr) ==
    LET c == [context EXCEPT !.parsims = 1]
        job == MissJob(c, nr)
    IN  \E result \in check_for_prefetch([c EXCEPT !.last_nr = LastNr(c, job)], nr) :
            Opened(nr, result, {job})

\* Whether an open misses is up to the cache and the jobs of other clients.
PrefetchNext == \E nr \in Step : handleHit(nr) \/ handleMiss(nr)

PrefetchSpec == PrefetchInit /\ [][PrefetchNext]_prefetch_vars

-----------------------------------------------------------------------------
(* Simulations are started ahead only for a client that goes forward with  *)
(* a constant stride: its last three opens are equidistant, whatever it    *)
(* opened before, in whatever state a reset or the uninitialised           *)
(* last_access_ has left the context.                                      *)
PrefetchFollowsTrajectory ==
    [][prefetched' # prefetched =>
           LET n == Len(accesses')
           IN  /\ n >= 3 /\ accesses'[n] > accesses'[n - 1]
               /\ accesses'[n] - accesses'[n - 1] = accesses'[n - 1] - accesses'[n - 2]
      ]_prefetch_vars

(* Simulations started ahead leave out no step: each begins where the one  *)
(* before it, or the simulation of the client's own miss, ends or earlier, *)
(* and does not end before it.  (A range that is empty ends there.)        *)
PrefetchLeavesNoGap ==
    \A a \in prefetched : a.job.sim_start <= a.after + 1 /\ a.after <= a.job.sim_stop
=============================================================================
