-------------------------- MODULE SimulatorProofs --------------------------
(***************************************************************************)
(* The properties of the Simulator, for every number of steps and every    *)
(* set of restart files, and those of the prefetch context of a client.    *)
(*                                                                         *)
(* The invariant of the Simulator says that every job issued is what       *)
(* generateSimJobForRange returns for its targets (AsAsked).  The one of   *)
(* the prefetch context adds that last_nr_, behind which simulations are   *)
(* started, lies right before a restart or has none behind it (Behind),    *)
(* unless the client goes backwards, and that the context knows the last   *)
(* two opens whenever it holds a stride.                                   *)
(***************************************************************************)
EXTENDS PrefetchContext, OperatorProofs

(* A job is what generateSimJobForRange returns for its targets.           *)
AsAsked(j) ==
    /\ j \in Job
    /\ \A nr \in Step : j.target_start <= nr /\ nr <= j.target_stop
                       => j.sim_start <= nr /\ nr <= j.sim_stop
    /\ ~Everything =>
         /\ j.target_stop <= j.sim_stop
         /\ j.sim_start \in restarts \cup {0}
         /\ \A r \in restarts : ~(j.sim_start < r /\ r <= j.target_start)
         /\ \A r \in restarts : r > j.target_stop => j.sim_stop < r

IInv == restarts \in SUBSET Step /\ \A j \in issued : AsAsked(j)

LEMMA NewJobAsAsked ==
    ASSUME restarts \in SUBSET Step, NEW ts \in Int, NEW te \in Nat
    PROVE  AsAsked(newSimulation(ts, te))
<1> DEFINE range == generateSimJobForRange(restarts, ts, te, Everything, MaxNr)
           job == newSimulation(ts, te)
<1>1. job = [target_start |-> ts, target_stop |-> te,
             sim_start |-> range.sim_start, sim_stop |-> range.sim_stop]
  BY DEF newSimulation
<1>2. /\ range.sim_start \in Step /\ range.sim_stop \in Nat
      /\ range.sim_start = 0 \/ range.sim_start <= ts
      /\ ~Everything =>
           /\ te <= range.sim_stop
           /\ range.sim_start \in restarts \cup {0}
           /\ \A r \in restarts : ~(range.sim_start < r /\ r <= ts)
           /\ \A r \in restarts : r > te => range.sim_stop < r
  <2>1. restarts \in SUBSET (0 .. MaxNr) /\ MaxNr \in Nat /\ Everything \in BOOLEAN
    BY SimulatorAssumption DEF Step
  <2> HIDE DEF job
  <2>2. CASE Everything
    BY <2>1, <2>2 DEF Step, generateSimJobForRange
  <2>3. CASE ~Everything
    <3> DEFINE bounded == generateSimJobForRange(restarts, ts, te, FALSE, MaxNr)
    <3>1. range = bounded
      BY <2>3 DEF generateSimJobForRange
    <3>2. /\ bounded.sim_start \in 0 .. MaxNr /\ bounded.sim_stop \in Nat
          /\ bounded.sim_start = 0 \/ bounded.sim_start <= ts
      BY <2>1, RangeProperty
    <3>3. /\ te <= bounded.sim_stop
          /\ bounded.sim_start \in restarts \cup {0}
          /\ \A r \in restarts : ~(bounded.sim_start < r /\ r <= ts)
          /\ \A r \in restarts : r > te => bounded.sim_stop < r
      BY <2>1, RangeProperty
    <3> HIDE DEF range, bounded
    <3>4. QED
      BY <3>1, <3>2, <3>3 DEF Step
  <2>4. QED
    BY <2>1, <2>2, <2>3
<1>3. Everything => range.sim_stop = MaxNr
  BY DEF generateSimJobForRange
<1> HIDE DEF range, job
<1>4. job \in Job
  BY <1>1, <1>2 DEF Job
<1>5. ASSUME NEW nr \in Step, ts <= nr, nr <= te
      PROVE  range.sim_start <= nr /\ nr <= range.sim_stop
  <2>1. nr \in Nat /\ nr <= MaxNr /\ MaxNr \in Nat
    BY SimulatorAssumption DEF Step
  <2>2. range.sim_start <= nr
    BY <1>2, <1>5, <2>1 DEF Step
  <2>3. nr <= range.sim_stop
    <3>1. CASE Everything
      BY <1>3, <2>1, <3>1
    <3>2. CASE ~Everything
      BY <1>2, <1>5, <2>1, <3>2
    <3>3. QED
      BY <3>1, <3>2
  <2>4. QED
    BY <2>2, <2>3
<1>6. AsAsked(job)
  BY <1>1, <1>2, <1>4, <1>5 DEF AsAsked
<1>7. QED
  BY <1>6 DEF job

LEMMA NewJobsKeepInvariant ==
    ASSUME IInv, restarts' = restarts, NEW jobs, issued' = issued \cup jobs,
           \A j \in jobs : AsAsked(j)
    PROVE  IInv'
BY DEF IInv, AsAsked

LEMMA Invariance == Spec => []IInv
<1>1. Init => IInv
  BY DEF Init, IInv
<1>2. IInv /\ [Next]_vars => IInv'
  <2> SUFFICES ASSUME IInv, [Next]_vars PROVE IInv'
    OBVIOUS
  <2>1. ASSUME NEW ts \in Int, NEW te \in Nat, GenerateSimJob(ts, te) PROVE IInv'
    <3>1. issued' = issued \cup {newSimulation(ts, te)} /\ restarts' = restarts
      BY <2>1 DEF GenerateSimJob
    <3>2. AsAsked(newSimulation(ts, te))
      BY NewJobAsAsked DEF IInv
    <3> DEFINE jobs == {newSimulation(ts, te)}
    <3>3. issued' = issued \cup jobs /\ \A j \in jobs : AsAsked(j)
      BY <3>1, <3>2
    <3> HIDE DEF jobs
    <3>4. QED
      BY <3>1, <3>3, NewJobsKeepInvariant
  <2>2. CASE UNCHANGED vars
    BY <2>2 DEF IInv, AsAsked, vars
  <2>3. QED
    BY <2>1, <2>2 DEF Next
<1>3. QED
  BY <1>1, <1>2, PTL DEF Spec

(* What the invariant says of the jobs issued.                             *)
LEMMA JobsAsAsked ==
    IInv => TypeOK /\ TargetsCovered /\ StopsBeforeNextRestart /\ PartitionsDisjoint
<1> SUFFICES ASSUME IInv
             PROVE  TypeOK /\ TargetsCovered /\ StopsBeforeNextRestart /\ PartitionsDisjoint
  OBVIOUS
<1>1. TypeOK
  BY DEF IInv, AsAsked, TypeOK
<1>2. TargetsCovered
  BY DEF IInv, AsAsked, TargetsCovered
<1>3. StopsBeforeNextRestart
  BY DEF IInv, AsAsked, StopsBeforeNextRestart
<1>4. PartitionsDisjoint
  <2> SUFFICES ASSUME ~Everything, NEW i \in issued, NEW j \in issued,
                      i.target_start = i.target_stop, i.sim_start < j.sim_start
               PROVE  i.sim_stop < j.sim_start
    BY DEF PartitionsDisjoint
  <2>1. i \in Job /\ j \in Job
    BY <1>1 DEF TypeOK
  <2>2. j.sim_start \in restarts
    BY <1>3, <2>1, SimulatorAssumption DEF StopsBeforeNextRestart, Job, Step
  <2>3. j.sim_start > i.target_stop
    BY <1>3, <2>1, <2>2, SimulatorAssumption DEF StopsBeforeNextRestart, Job, Step
  <2>4. QED
    BY <1>3, <2>2, <2>3 DEF StopsBeforeNextRestart
<1>5. QED
  BY <1>1, <1>2, <1>3, <1>4

(* generateSimJobForRange returns a range of steps of the simulation.      *)
THEOREM TypeCorrect == Spec => []TypeOK
  BY Invariance, JobsAsAsked, PTL

(* Every job simulates the steps it was asked for, with any restart files. *)
THEOREM TargetsAlwaysCovered == Spec => []TargetsCovered
  BY Invariance, JobsAsAsked, PTL

(* No job starts before the restart it should start from, none reaches the *)
(* restart behind its last target.                                         *)
THEOREM JobsStopBeforeNextRestart == Spec => []StopsBeforeNextRestart
  BY Invariance, JobsAsAsked, PTL

(* Two single-file jobs never overlap unless they start from the same      *)
(* restart: the later one's start is a restart behind the earlier one's    *)
(* target, where the earlier one stops.                                    *)
THEOREM PartitionsAlwaysDisjoint == Spec => []PartitionsDisjoint
  BY Invariance, JobsAsAsked, PTL

-----------------------------------------------------------------------------
\* The prefetch context.

LEMMA MaxOfTwo ==
    ASSUME NEW a \in Int, NEW b \in Int
    PROVE  Max({a, b}) = IF a < b THEN b ELSE a
BY DEF Max

LEMMA MinOfTwo ==
    ASSUME NEW a \in Int, NEW b \in Int
    PROVE  Min({a, b}) = IF a < b THEN a ELSE b
BY DEF Min

(* A simulation started behind step x leaves no step out: nothing has to   *)
(* be simulated behind x, or the next restart is at x or right behind it.  *)
Behind(x) ==
    /\ x \in Nat
    /\ AtOrAbove(restarts, x) = {} \/ x \in restarts \/ x + 1 \in restarts
    /\ Everything => x <= MaxNr

(* The restart at or after a step, or the step itself.                     *)
LEMMA NextCheckpointProperty ==
    ASSUME restarts \in SUBSET Step, NEW x \in Nat
    PROVE  LET r == getNextCheckpointNr(restarts, x)
           IN  /\ r \in Nat /\ x <= r
               /\ IF AtOrAbove(restarts, x) = {} THEN r = x ELSE r \in restarts
               /\ \A y \in restarts : x <= y => r <= y
<1> DEFINE S == AtOrAbove(restarts, x)
<1>1. S \in SUBSET Nat /\ restarts \in SUBSET Nat
  <2>1. restarts \in SUBSET Nat
    BY SimulatorAssumption DEF Step
  <2>2. QED  BY <2>1 DEF AtOrAbove
<1>2. CASE S = {}
  BY <1>1, <1>2 DEF getNextCheckpointNr, AtOrAbove
<1>3. CASE S # {}
  <2>1. Min(S) \in S /\ \A y \in S : Min(S) <= y
    BY <1>1, <1>3, MinProperty
  <2>2. getNextCheckpointNr(restarts, x) = Min(S)
    BY <1>3 DEF getNextCheckpointNr
  <2>3. QED  BY <1>1, <1>3, <2>1, <2>2 DEF AtOrAbove
<1>4. QED  BY <1>2, <1>3

LEMMA NextCheckpointBehind ==
    ASSUME restarts \in SUBSET Step, NEW nr \in Step
    PROVE  Behind(getNextCheckpointNr(restarts, nr))
<1> DEFINE r == getNextCheckpointNr(restarts, nr)
<1>1. nr \in Nat /\ nr <= MaxNr /\ MaxNr \in Nat /\ restarts \in SUBSET Nat /\ \A y \in restarts : y <= MaxNr
  BY SimulatorAssumption DEF Step
<1>2. /\ r \in Nat /\ nr <= r
      /\ IF AtOrAbove(restarts, nr) = {} THEN r = nr ELSE r \in restarts
  BY <1>1, NextCheckpointProperty
<1> HIDE DEF r
<1>3. Behind(r)
  BY <1>1, <1>2 DEF Behind
<1>4. QED  BY <1>3 DEF r

(* A job ends right before a restart, or has none behind it.               *)
LEMMA JobEndsBehind ==
    ASSUME restarts \in SUBSET Step, NEW ts \in Int, NEW te \in Nat
    PROVE  Behind(newSimulation(ts, te).sim_stop)
<1> DEFINE stop == newSimulation(ts, te).sim_stop
<1>1. restarts \in SUBSET Nat /\ MaxNr \in Nat /\ \A y \in restarts : y <= MaxNr
  BY SimulatorAssumption DEF Step
<1>2. CASE Everything
  <2>1. stop = MaxNr
    BY <1>2 DEF newSimulation, generateSimJobForRange
  <2>2. AtOrAbove(restarts, MaxNr) = {} \/ MaxNr \in restarts
    <3>1. \A y \in restarts : y >= MaxNr => y = MaxNr
      BY <1>1
    <3>2. QED  BY <3>1 DEF AtOrAbove
  <2> HIDE DEF stop
  <2>3. Behind(stop)
    BY <1>1, <2>1, <2>2 DEF Behind
  <2>4. QED  BY <2>3 DEF stop
<1>3. CASE ~Everything
  <2> DEFINE S == Above(restarts, te)
  <2>1. stop = JobStop(restarts, te)
    BY <1>3 DEF newSimulation, generateSimJobForRange
  <2> HIDE DEF stop
  <2>2. CASE S = {}
    <3>1. stop = te
      BY <2>1, <2>2 DEF JobStop
    <3>2. AtOrAbove(restarts, te) = {} \/ te \in restarts
      <4>1. \A y \in restarts : ~(y > te)
        BY <2>2 DEF Above
      <4>2. \A y \in restarts : y >= te => y = te
        BY <1>1, <4>1
      <4>3. QED  BY <4>2 DEF AtOrAbove
    <3>3. QED  BY <1>3, <3>1, <3>2 DEF Behind, stop
  <2>3. CASE S # {}
    <3>1. S \in SUBSET Nat
      BY <1>1 DEF Above
    <3>2. Min(S) \in S
      BY <2>3, <3>1, MinProperty
    <3>3. Min(S) \in restarts /\ Min(S) > te /\ Min(S) \in Nat
      BY <3>1, <3>2 DEF Above
    <3>4. stop = Min(S) - 1
      BY <2>1, <2>3, <3>3 DEF JobStop
    <3>5. stop \in Nat /\ stop + 1 \in restarts
      BY <3>3, <3>4
    <3>6. Behind(stop)
      BY <1>3, <3>5 DEF Behind
    <3>7. QED  BY <3>6 DEF stop
  <2>4. QED  BY <2>2, <2>3
<1>4. QED  BY <1>2, <1>3

NoGap(a) == a.job.sim_start <= a.after + 1 /\ a.after <= a.job.sim_stop

(* What StartAhead starts behind x.                                        *)
Ahead(x, simlen) == newSimulation(start_from(x, simlen), x + simlen)

LEMMA AheadLeavesNoGap ==
    ASSUME restarts \in SUBSET Step, NEW x, Behind(x), NEW simlen \in Nat
    PROVE  /\ Behind(Ahead(x, simlen).sim_stop) /\ AsAsked(Ahead(x, simlen))
           /\ NoGap([after |-> x, job |-> Ahead(x, simlen)])
<1> DEFINE ts == start_from(x, simlen)
           job == Ahead(x, simlen)
<1>1. /\ x \in Nat /\ restarts \in SUBSET Nat /\ x + simlen \in Nat
      /\ AtOrAbove(restarts, x) = {} \/ x \in restarts \/ x + 1 \in restarts
  BY SimulatorAssumption DEF Step, Behind
<1>2. /\ ts \in Nat /\ x <= ts
      /\ IF AtOrAbove(restarts, x) = {} THEN ts = x ELSE ts \in restarts
      /\ \A y \in restarts : x <= y => ts <= y
  BY <1>1, NextCheckpointProperty DEF start_from
<1>3. ts <= x + 1
  BY <1>1, <1>2
<1>4. /\ job.target_start = ts /\ job.target_stop = x + simlen
      /\ job.sim_start = generateSimJobForRange(restarts, ts, x + simlen, Everything, MaxNr).sim_start
      /\ Everything => job.sim_start = 0 /\ job.sim_stop = MaxNr
      /\ ~Everything => job.sim_start = getCheckpointNr(restarts, ts)
  BY DEF Ahead, newSimulation, generateSimJobForRange
<1>5. AsAsked(job)
  <2> HIDE DEF ts
  <2>1. AsAsked(newSimulation(ts, x + simlen))
    BY <1>1, <1>2, NewJobAsAsked
  <2>2. QED  BY <2>1 DEF Ahead, ts
<1>6. Behind(job.sim_stop)
  <2> HIDE DEF ts
  <2>1. Behind(newSimulation(ts, x + simlen).sim_stop)
    BY <1>1, <1>2, JobEndsBehind
  <2>2. QED  BY <2>1 DEF Ahead, ts
<1>7. job.sim_start <= x + 1 /\ x <= job.sim_stop
  <2>1. CASE Everything
    <3>1. job.sim_start = 0 /\ job.sim_stop = MaxNr /\ x <= MaxNr
      BY <1>4, <2>1 DEF Behind
    <3> HIDE DEF job
    <3>2. QED  BY <1>1, <3>1
  <2>2. CASE ~Everything
    <3>1. job.sim_start = 0 \/ job.sim_start <= ts
      BY <1>1, <1>2, <1>4, <2>2, CheckpointProperty
    <3>2. job.sim_start \in Nat /\ job.sim_stop \in Nat /\ x + simlen <= job.sim_stop
      BY <1>4, <1>5, <2>2, SimulatorAssumption DEF AsAsked, Job, Step
    <3> HIDE DEF job, ts
    <3>3. QED  BY <1>1, <1>2, <1>3, <3>1, <3>2
  <2>3. QED  BY <2>1, <2>2
<1> HIDE DEF job
<1>8. NoGap([after |-> x, job |-> job])
  BY <1>7 DEF NoGap
<1>9. QED  BY <1>5, <1>6, <1>8 DEF job

-----------------------------------------------------------------------------
ContextType ==
    [state : {"DISABLED", "TRANSIENT", "STEADY"}, stride : Int, last_access : Int,
     last_nr : Nat \cup {NoNr}, parsims : Nat]

(* A simulation may be started behind last_nr_; going backwards, where no  *)
(* simulation is started ahead, last_nr_ is the begin of a job.            *)
LeadsOn(c) ==
    \/ c.last_nr = NoNr
    \/ c.state = "STEADY" /\ c.stride < 0
    \/ Behind(c.last_nr)

LEMMA StartAheadLeavesNoGap ==
    ASSUME restarts \in SUBSET Step, NEW c \in ContextType, Behind(c.last_nr), NEW simlen \in Nat
    PROVE  /\ \E last \in Nat : /\ Behind(last)
                                /\ StartAhead(c, simlen).context = [c EXCEPT !.last_nr = last]
           /\ \A a \in StartAhead(c, simlen).ahead : NoGap(a) /\ AsAsked(a.job)
<1> DEFINE n == c.parsims
           Stop(x) == Ahead(x, simlen).sim_stop
           Solves(f, m) == f = [i \in 0 .. m |-> IF i = 0 THEN c.last_nr ELSE Stop(f[i - 1])]
           last == CHOOSE f : Solves(f, n)
<1>1. n \in Nat
  BY DEF ContextType
<1>2. /\ StartAhead(c, simlen).context = [c EXCEPT !.last_nr = last[n]]
      /\ StartAhead(c, simlen).ahead =
            {[after |-> last[i], job |-> Ahead(last[i], simlen)] : i \in 0 .. n - 1}
  BY DEF StartAhead, Ahead
<1> HIDE DEF n, Stop
<1>3. \A m \in Nat : \E f : Solves(f, m)
  <2> DEFINE Bad == {m \in Nat : ~\E f : Solves(f, m)}
  <2>1. Bad = {}
    <3>1. SUFFICES ASSUME Bad # {} PROVE FALSE
      OBVIOUS
    <3> DEFINE m == Min(Bad)
    <3> HIDE DEF Solves
    <3>2. m \in Bad /\ \A y \in Bad : m <= y
      <4>1. Bad \in SUBSET Nat
        OBVIOUS
      <4> HIDE DEF Bad
      <4>2. QED  BY <3>1, <4>1, MinProperty
    <3> HIDE DEF m
    <3>3. m \in Nat /\ ~\E f : Solves(f, m)
      BY <3>2
    <3>4. CASE m = 0
      <4> DEFINE f == [i \in 0 .. 0 |-> c.last_nr]
      <4>1. f = [i \in 0 .. 0 |-> IF i = 0 THEN c.last_nr ELSE Stop(f[i - 1])]
        OBVIOUS
      <4>2. Solves(f, 0)
        BY <4>1 DEF Solves
      <4>3. QED  BY <3>3, <3>4, <4>2
    <3>5. CASE m # 0
      <4>1. m - 1 \in Nat /\ ~(m <= m - 1)
        BY <3>3, <3>5
      <4>2. PICK f : Solves(f, m - 1)
        BY <3>2, <4>1
      <4> DEFINE g == [i \in 0 .. m |-> IF i = m THEN Stop(f[m - 1]) ELSE f[i]]
      <4>3. \A i \in 0 .. m - 1 : f[i] = IF i = 0 THEN c.last_nr ELSE Stop(f[i - 1])
        BY <4>2 DEF Solves
      <4>4. \A i \in 0 .. m : g[i] = IF i = 0 THEN c.last_nr ELSE Stop(g[i - 1])
        <5> TAKE i \in 0 .. m
        <5>1. CASE i = 0
          BY <3>3, <3>5, <4>3, <5>1
        <5>2. CASE i # 0
          <6>1. i - 1 \in 0 .. m - 1 /\ i - 1 \in 0 .. m /\ i - 1 # m
            BY <3>3, <5>2
          <6>2. g[i - 1] = f[i - 1]
            BY <6>1
          <6>3. g[i] = Stop(f[i - 1])
            BY <3>3, <4>3, <5>2
          <6> HIDE DEF g
          <6>4. QED  BY <5>2, <6>2, <6>3
        <5>3. QED  BY <5>1, <5>2
      <4>5. g = [i \in 0 .. m |-> g[i]]
        OBVIOUS
      <4> HIDE DEF g
      <4>6. Solves(g, m)
        BY <4>4, <4>5 DEF Solves
      <4>7. QED  BY <3>3, <4>6
    <3>6. QED  BY <3>4, <3>5
  <2>2. QED  BY <2>1
<1>4. Solves(last, n)
  <2> HIDE DEF Solves
  <2>1. \E f : Solves(f, n)
    BY <1>1, <1>3
  <2>2. QED  BY <2>1
<1> HIDE DEF last
<1>5. \A i \in 0 .. n : last[i] = IF i = 0 THEN c.last_nr ELSE Stop(last[i - 1])
  BY <1>4
<1> HIDE DEF Solves
<1>6. \A i \in 0 .. n : Behind(last[i])
  <2> DEFINE Bad == {i \in 0 .. n : ~Behind(last[i])}
  <2>1. Bad = {}
    <3>1. SUFFICES ASSUME Bad # {} PROVE FALSE
      OBVIOUS
    <3> DEFINE m == Min(Bad)
    <3>2. m \in Bad /\ \A y \in Bad : m <= y
      <4>1. Bad \in SUBSET Nat
        BY <1>1
      <4> HIDE DEF Bad
      <4>2. QED  BY <3>1, <4>1, MinProperty
    <3> HIDE DEF m
    <3>3. m \in 0 .. n /\ ~Behind(last[m])
      BY <3>2
    <3>4. m # 0
      BY <1>1, <1>5, <3>3
    <3>5. m - 1 \in 0 .. n /\ ~(m <= m - 1)
      BY <1>1, <3>3, <3>4
    <3>6. Behind(last[m - 1])
      BY <3>2, <3>5
    <3>7. Behind(Stop(last[m - 1]))
      BY <3>6, AheadLeavesNoGap DEF Stop
    <3>8. QED  BY <1>5, <3>3, <3>4, <3>7
  <2>2. QED  BY <2>1
<1>7. Behind(last[n]) /\ last[n] \in Nat
  BY <1>1, <1>6 DEF Behind
<1>8. ASSUME NEW i \in 0 .. n - 1
      PROVE  /\ NoGap([after |-> last[i], job |-> Ahead(last[i], simlen)])
             /\ AsAsked(Ahead(last[i], simlen))
  <2>1. Behind(last[i])
    BY <1>1, <1>6
  <2>2. QED  BY <2>1, AheadLeavesNoGap
<1>9. \A a \in StartAhead(c, simlen).ahead : NoGap(a) /\ AsAsked(a.job)
  BY <1>2, <1>8
<1>10. QED  BY <1>2, <1>7, <1>9

(* What an open makes of the context: it differs from c in last_nr_ and    *)
(* parsims_, and what is started ahead leaves no step out.                 *)
Follows(result, c) ==
    /\ result.context \in ContextType
    /\ result.context.state = c.state /\ result.context.stride = c.stride
    /\ result.context.last_access = c.last_access
    /\ LeadsOn(result.context)
    /\ \A a \in result.ahead : NoGap(a) /\ AsAsked(a.job)

LEMMA ForwardFollows ==
    ASSUME restarts \in SUBSET Step, NEW c0 \in ContextType, NEW nr \in Step,
           c0.state = "STEADY", c0.stride > 0, LeadsOn(c0),
           NEW result \in forward_prefetch(c0, nr)
    PROVE  Follows(result, c0)
<1> DEFINE next == getNextCheckpointNr(restarts, nr)
           c == IF c0.last_nr = NoNr \/ nr > c0.last_nr THEN [c0 EXCEPT !.last_nr = next] ELSE c0
           Parsims(optimal) == IF c.parsims < optimal THEN Min({c.parsims * 2, optimal}) ELSE optimal
<1>1. /\ c0.stride \in Nat /\ ~(c0.stride < 0) /\ c0.last_nr \in Nat \cup {NoNr} /\ c0.parsims \in Nat
      /\ c0.state \in {"DISABLED", "TRANSIENT", "STEADY"} /\ c0.last_access \in Int
  BY DEF ContextType
<1>2. next \in Nat /\ Behind(next)
  BY NextCheckpointBehind DEF Behind
<1> HIDE DEF next
<1>3. /\ c \in ContextType /\ Behind(c.last_nr)
      /\ c.state = c0.state /\ c.stride = c0.stride /\ c.last_access = c0.last_access
  <2>1. CASE c0.last_nr = NoNr \/ nr > c0.last_nr
    <3>1. c = [c0 EXCEPT !.last_nr = next]
      BY <2>1
    <3> HIDE DEF c
    <3>2. QED  BY <1>2, <3>1 DEF ContextType
  <2>2. CASE ~(c0.last_nr = NoNr \/ nr > c0.last_nr)
    BY <1>1, <2>2 DEF LeadsOn
  <2>3. QED  BY <2>1, <2>2
<1>4. \/ result = Nothing(c)
      \/ \E lead \in 0 .. MaxLead, optimal \in 0 .. MaxParsims :
            result = [StartAhead(c, lead * c.stride) EXCEPT !.context.parsims = Parsims(optimal)]
  <2> DEFINE F(lead, optimal) ==
                [StartAhead(c, lead * c.stride) EXCEPT !.context.parsims = Parsims(optimal)]
             nothing == IF nr <= (c.last_nr \div c.stride) * c.stride THEN {Nothing(c)} ELSE {}
             some == {F(lead, optimal) : lead \in 0 .. MaxLead, optimal \in 0 .. MaxParsims}
  <2>1. forward_prefetch(c0, nr) = nothing \cup some
    BY DEF forward_prefetch, next
  <2>2. \A x \in nothing : x = Nothing(c)
    OBVIOUS
  <2> HIDE DEF F, nothing, c
  <2>3. \A x \in some : \E lead \in 0 .. MaxLead, optimal \in 0 .. MaxParsims : x = F(lead, optimal)
    OBVIOUS
  <2> HIDE DEF some
  <2>4. result \in nothing \/ result \in some
    BY <2>1
  <2>5. result = Nothing(c) \/ \E lead \in 0 .. MaxLead, optimal \in 0 .. MaxParsims :
                                   result = F(lead, optimal)
    BY <2>2, <2>3, <2>4
  <2>6. QED  BY <2>5 DEF F
<1> HIDE DEF c
<1>5. CASE result = Nothing(c)
  <2>1. result.context = c /\ result.ahead = {}
    BY <1>5 DEF Nothing
  <2>2. QED  BY <1>3, <2>1 DEF Follows, LeadsOn
<1>6. CASE \E lead \in 0 .. MaxLead, optimal \in 0 .. MaxParsims :
              result = [StartAhead(c, lead * c.stride) EXCEPT !.context.parsims = Parsims(optimal)]
  <2>1. PICK lead \in 0 .. MaxLead, optimal \in 0 .. MaxParsims :
              result = [StartAhead(c, lead * c.stride) EXCEPT !.context.parsims = Parsims(optimal)]
    BY <1>6
  <2>2. Parsims(optimal) \in Nat
    <3>1. c.parsims \in Nat /\ c.parsims * 2 \in Nat /\ optimal \in Nat
      BY <1>3, PrefetchAssumption DEF ContextType
    <3>2. Min({c.parsims * 2, optimal}) \in Nat
      BY <3>1, MinOfTwo
    <3>3. QED  BY <3>1, <3>2
  <2> DEFINE parsims == Parsims(optimal)
             simlen == lead * c.stride
             ahead == StartAhead(c, simlen)
  <2>3. simlen \in Nat
    <3>1. lead \in Nat /\ c.stride \in Nat
      BY <1>1, <1>3, PrefetchAssumption
    <3>2. QED  BY <3>1
  <2>4. result = [ahead EXCEPT !.context.parsims = parsims]
    BY <2>1
  <2>5. parsims \in Nat
    BY <2>2
  <2>6. ahead = [context |-> ahead.context, ahead |-> ahead.ahead]
    BY DEF StartAhead
  <2> HIDE DEF parsims, simlen, ahead
  <2>7. PICK last \in Nat : Behind(last) /\ ahead.context = [c EXCEPT !.last_nr = last]
    BY <1>3, <2>3, StartAheadLeavesNoGap DEF ahead
  <2>8. \A a \in ahead.ahead : NoGap(a) /\ AsAsked(a.job)
    BY <1>3, <2>3, StartAheadLeavesNoGap DEF ahead
  <2>9. ahead.context \in ContextType
    BY <1>3, <2>7 DEF ContextType
  <2>10. result.ahead = ahead.ahead /\ result.context = [ahead.context EXCEPT !.parsims = parsims]
    BY <2>4, <2>6
  <2>11. /\ result.context \in ContextType /\ result.context.last_nr = last
         /\ result.context.state = c.state /\ result.context.stride = c.stride
         /\ result.context.last_access = c.last_access
    BY <1>3, <2>5, <2>7, <2>9, <2>10 DEF ContextType
  <2>12. QED  BY <1>3, <2>7, <2>8, <2>10, <2>11 DEF Follows, LeadsOn
<1>7. QED  BY <1>4, <1>5, <1>6

(* The next state of the context, and when simulations are started ahead.  *)
Trajectory(c, nr, result) ==
    LET newstride == nr - c.last_access
        d == result.context
    IN  /\ CASE c.state = "DISABLED" -> d.state = "TRANSIENT" /\ d.last_access = nr
             [] c.state = "TRANSIENT" ->
                    d.state = "STEADY" /\ d.stride = newstride /\ d.last_access = nr
             [] c.state = "STEADY" /\ c.stride # newstride -> d.state = "DISABLED"
             [] OTHER -> d.state = "STEADY" /\ d.stride = newstride /\ d.last_access = nr
        /\ result.ahead # {} => c.state = "STEADY" /\ c.stride = newstride /\ newstride > 0

LEMMA CheckFollows ==
    ASSUME restarts \in SUBSET Step, NEW c0 \in ContextType, NEW nr \in Step, LeadsOn(c0),
           NEW result \in check_for_prefetch(c0, nr)
    PROVE  /\ result.context \in ContextType /\ LeadsOn(result.context)
           /\ \A a \in result.ahead : NoGap(a) /\ AsAsked(a.job)
           /\ Trajectory(c0, nr, result)
<1> DEFINE newstride == nr - c0.last_access
           c == [c0 EXCEPT !.last_access = nr]
<1>1. /\ c0.stride \in Int /\ c0.last_nr \in Nat \cup {NoNr} /\ c0.parsims \in Nat
      /\ c0.state \in {"DISABLED", "TRANSIENT", "STEADY"} /\ c0.last_access \in Int
      /\ nr \in Nat /\ newstride \in Int
  BY SimulatorAssumption DEF ContextType, Step
<1>2. /\ c \in ContextType /\ c.state = c0.state /\ c.stride = c0.stride /\ c.last_nr = c0.last_nr
      /\ c.last_access = nr
  BY <1>1 DEF ContextType
<1>3. result \in CASE c.state = "DISABLED" -> {Nothing([c EXCEPT !.state = "TRANSIENT"])}
          [] c.state = "TRANSIENT" ->
                 {Nothing([c EXCEPT !.stride = newstride, !.state = "STEADY"])}
          [] c.state = "STEADY" /\ c.stride # newstride -> {Nothing(reset(c))}
          [] c.state = "STEADY" /\ c.stride = newstride /\ c.stride > 0 -> forward_prefetch(c, nr)
          [] OTHER -> {Nothing(c)}
  BY DEF check_for_prefetch
<1>4. LeadsOn(c)
  BY <1>2 DEF LeadsOn
<1> HIDE DEF c, newstride
<1>5. CASE c.state = "DISABLED"
  <2>1. result = Nothing([c EXCEPT !.state = "TRANSIENT"])
    BY <1>3, <1>5
  <2>2. result.context = [c EXCEPT !.state = "TRANSIENT"] /\ result.ahead = {}
    BY <2>1 DEF Nothing
  <2>3. /\ result.context \in ContextType /\ result.context.last_nr = c.last_nr
        /\ result.context.state = "TRANSIENT" /\ result.context.last_access = nr
    BY <1>2, <2>2 DEF ContextType
  <2>4. LeadsOn(result.context)
    BY <1>4, <1>5, <2>3 DEF LeadsOn
  <2>5. Trajectory(c0, nr, result)
    BY <1>2, <1>5, <2>2, <2>3 DEF Trajectory
  <2>6. QED  BY <2>2, <2>3, <2>4, <2>5
<1>6. CASE c.state = "TRANSIENT"
  <2>1. result = Nothing([c EXCEPT !.stride = newstride, !.state = "STEADY"])
    BY <1>3, <1>6
  <2>2. result.context = [c EXCEPT !.stride = newstride, !.state = "STEADY"] /\ result.ahead = {}
    BY <2>1 DEF Nothing
  <2>3. /\ result.context \in ContextType /\ result.context.last_nr = c.last_nr
        /\ result.context.state = "STEADY" /\ result.context.last_access = nr
        /\ result.context.stride = newstride
    BY <1>1, <1>2, <2>2 DEF ContextType
  <2>4. LeadsOn(result.context)
    BY <1>4, <1>6, <2>3 DEF LeadsOn
  <2>5. Trajectory(c0, nr, result)
    BY <1>2, <1>6, <2>2, <2>3 DEF Trajectory, newstride
  <2>6. QED  BY <2>2, <2>3, <2>4, <2>5
<1>7. CASE c.state = "STEADY" /\ c.stride # newstride
  <2>1. result = Nothing(reset(c))
    BY <1>3, <1>7
  <2>2. result.context = reset(c) /\ result.ahead = {}
    BY <2>1 DEF Nothing
  <2>3. /\ result.context \in ContextType /\ result.context.last_nr = NoNr
        /\ result.context.state = "DISABLED"
    <3>1. result.context = [c EXCEPT !.stride = 0, !.state = "DISABLED", !.last_nr = NoNr,
                                     !.last_access = NoNr, !.parsims = 1]
      BY <2>2 DEF reset
    <3>2. c = [state |-> c.state, stride |-> c.stride, last_access |-> c.last_access,
               last_nr |-> c.last_nr, parsims |-> c.parsims]
      BY <1>2 DEF ContextType
    <3>3. result.context = [state |-> "DISABLED", stride |-> 0, last_access |-> NoNr,
                            last_nr |-> NoNr, parsims |-> 1]
      BY <3>1, <3>2
    <3>4. NoNr \in Int
      BY DEF NoNr
    <3>5. QED  BY <3>3, <3>4 DEF ContextType
  <2>4. LeadsOn(result.context)
    BY <2>3 DEF LeadsOn
  <2>5. Trajectory(c0, nr, result)
    BY <1>2, <1>7, <2>2, <2>3 DEF Trajectory, newstride
  <2>6. QED  BY <2>2, <2>3, <2>4, <2>5
<1>8. CASE c.state = "STEADY" /\ c.stride = newstride /\ c.stride > 0
  <2>1. result \in forward_prefetch(c, nr)
    BY <1>3, <1>8
  <2>2. Follows(result, c)
    BY <1>2, <1>4, <1>8, <2>1, ForwardFollows
  <2>3. Trajectory(c0, nr, result)
    BY <1>2, <1>8, <2>2 DEF Trajectory, newstride, Follows
  <2>4. QED  BY <2>2, <2>3 DEF Follows
<1>9. CASE c.state = "STEADY" /\ c.stride = newstride /\ ~(c.stride > 0)
  <2>1. result = Nothing(c)
    BY <1>3, <1>9
  <2>2. result.context = c /\ result.ahead = {}
    BY <2>1 DEF Nothing
  <2>3. Trajectory(c0, nr, result)
    BY <1>2, <1>9, <2>2 DEF Trajectory, newstride
  <2>4. QED  BY <1>2, <1>4, <2>2, <2>3
<1>10. QED
  BY <1>1, <1>2, <1>5, <1>6, <1>7, <1>8, <1>9

-----------------------------------------------------------------------------
(* The context knows the last opens: the last two in the state STEADY.     *)
FollowsOpens(c, opens) ==
    LET n == Len(opens)
    IN  /\ c.state = "TRANSIENT" => n >= 1 /\ c.last_access = opens[n]
        /\ c.state = "STEADY" => /\ n >= 2 /\ c.last_access = opens[n]
                                 /\ c.stride = opens[n] - opens[n - 1]

PrefetchInv ==
    /\ IInv
    /\ accesses \in Seq(Step)
    /\ context \in ContextType /\ LeadsOn(context)
    /\ FollowsOpens(context, accesses)
    /\ PrefetchLeavesNoGap

LEMMA PrefetchInitHolds == PrefetchInit => PrefetchInv
<1> SUFFICES ASSUME PrefetchInit PROVE PrefetchInv
  OBVIOUS
<1>1. PICK any \in Step \cup {NoNr} :
        context = [state |-> "DISABLED", stride |-> 0, last_access |-> any,
                   last_nr |-> NoNr, parsims |-> 1]
  BY DEF PrefetchInit
<1>2. any \in Int
  BY SimulatorAssumption DEF Step, NoNr
<1>3. context \in ContextType /\ context.last_nr = NoNr /\ context.state = "DISABLED"
  BY <1>1, <1>2 DEF ContextType
<1>4. IInv
  BY DEF PrefetchInit, Init, IInv
<1>5. accesses \in Seq(Step) /\ PrefetchLeavesNoGap
  BY DEF PrefetchInit, PrefetchLeavesNoGap
<1>6. QED  BY <1>3, <1>4, <1>5 DEF PrefetchInv, LeadsOn, FollowsOpens

(* One open, from a context that may have been changed by a miss.          *)
LEMMA OpenFollows ==
    ASSUME PrefetchInv, NEW nr \in Step, NEW c \in ContextType, LeadsOn(c),
           c.state = context.state, c.stride = context.stride,
           c.last_access = context.last_access,
           NEW result \in check_for_prefetch(c, nr),
           NEW jobs, \A j \in jobs : AsAsked(j), Opened(nr, result, jobs)
    PROVE  /\ PrefetchInv'
           /\ prefetched' # prefetched =>
                 LET n == Len(accesses')
                 IN  /\ n >= 3 /\ accesses'[n] > accesses'[n - 1]
                     /\ accesses'[n] - accesses'[n - 1] = accesses'[n - 1] - accesses'[n - 2]
<1> DEFINE n == Len(accesses)
           d == result.context
           asked == jobs \cup {a.job : a \in result.ahead}
<1>1. /\ IInv /\ accesses \in Seq(Step) /\ n \in Nat /\ FollowsOpens(c, accesses)
      /\ restarts \in SUBSET Step /\ PrefetchLeavesNoGap
      /\ \A i \in 1 .. n : accesses[i] \in Int
  <2>1. IInv /\ accesses \in Seq(Step) /\ restarts \in SUBSET Step /\ PrefetchLeavesNoGap
    BY DEF PrefetchInv, IInv
  <2>2. FollowsOpens(c, accesses)
    BY DEF PrefetchInv, FollowsOpens
  <2>3. n \in Nat /\ \A i \in 1 .. n : accesses[i] \in Int
    <3>1. Step \subseteq Int
      BY DEF Step
    <3>2. n \in Nat /\ \A i \in 1 .. n : accesses[i] \in Step
      BY <2>1
    <3>3. QED  BY <3>1, <3>2
  <2>4. QED  BY <2>1, <2>2, <2>3
<1>2. /\ d \in ContextType /\ LeadsOn(d)
      /\ \A a \in result.ahead : NoGap(a) /\ AsAsked(a.job)
      /\ Trajectory(c, nr, result)
  BY <1>1, CheckFollows
<1>3. /\ context' = d /\ prefetched' = prefetched \cup result.ahead
      /\ issued' = issued \cup asked
      /\ accesses' = Append(accesses, nr) /\ restarts' = restarts
  BY DEF Opened
<1>4. /\ accesses' \in Seq(Step) /\ Len(accesses') = n + 1 /\ accesses'[n + 1] = nr
      /\ \A i \in 1 .. n : accesses'[i] = accesses[i]
  BY <1>1, <1>3
<1>5. IInv'
  <2>1. \A j \in asked : AsAsked(j)
    BY <1>2
  <2> HIDE DEF asked
  <2>2. QED  BY <1>1, <1>3, <2>1, NewJobsKeepInvariant
<1>6. nr \in Int /\ c.last_access \in Int /\ c.stride \in Int
      /\ c.state \in {"DISABLED", "TRANSIENT", "STEADY"}
  BY DEF Step, ContextType
<1> HIDE DEF n, d
<1>7. FollowsOpens(context', accesses')
  <2>1. Len(accesses') >= 1 /\ accesses'[Len(accesses')] = nr
    BY <1>1, <1>4
  <2>2. CASE c.state = "DISABLED"
    <3>1. d.state = "TRANSIENT" /\ d.last_access = nr
      BY <1>2, <2>2 DEF Trajectory, d
    <3>2. QED  BY <1>3, <2>1, <3>1 DEF FollowsOpens
  <2>3. CASE c.state = "TRANSIENT"
    <3>1. d.state = "STEADY" /\ d.stride = nr - c.last_access /\ d.last_access = nr
      BY <1>2, <2>3 DEF Trajectory, d
    <3>2. n >= 1 /\ c.last_access = accesses[n]
      BY <1>1, <2>3 DEF FollowsOpens, n
    <3>3. Len(accesses') >= 2 /\ accesses'[Len(accesses') - 1] = c.last_access
      BY <1>1, <1>4, <3>2
    <3>4. QED  BY <1>3, <2>1, <3>1, <3>3 DEF FollowsOpens
  <2>4. CASE c.state = "STEADY" /\ c.stride # nr - c.last_access
    <3>1. d.state = "DISABLED"
      BY <1>2, <2>4 DEF Trajectory, d
    <3>2. QED  BY <1>3, <3>1 DEF FollowsOpens
  <2>5. CASE c.state = "STEADY" /\ c.stride = nr - c.last_access
    <3>1. d.state = "STEADY" /\ d.stride = nr - c.last_access /\ d.last_access = nr
      BY <1>2, <2>5 DEF Trajectory, d
    <3>2. n >= 2 /\ c.last_access = accesses[n]
      BY <1>1, <2>5 DEF FollowsOpens, n
    <3>3. Len(accesses') >= 2 /\ accesses'[Len(accesses') - 1] = c.last_access
      BY <1>1, <1>4, <3>2
    <3>4. QED  BY <1>3, <2>1, <3>1, <3>3 DEF FollowsOpens
  <2>6. QED  BY <1>6, <2>2, <2>3, <2>4, <2>5
<1>8. PrefetchLeavesNoGap'
  BY <1>1, <1>2, <1>3 DEF PrefetchLeavesNoGap, NoGap
<1>9. PrefetchInv'
  <2>1. ContextType' = ContextType
    BY DEF ContextType
  <2>2. LeadsOn(context)'
    BY <1>2, <1>3 DEF LeadsOn, Behind
  <2>3. (context \in ContextType)' /\ (accesses \in Seq(Step))' /\ FollowsOpens(context, accesses)'
    BY <1>2, <1>3, <1>4, <1>7 DEF ContextType, FollowsOpens
  <2>4. QED  BY <1>5, <1>8, <2>2, <2>3 DEF PrefetchInv
<1>10. ASSUME prefetched' # prefetched
       PROVE  LET m == Len(accesses')
              IN  /\ m >= 3 /\ accesses'[m] > accesses'[m - 1]
                  /\ accesses'[m] - accesses'[m - 1] = accesses'[m - 1] - accesses'[m - 2]
  <2>1. result.ahead # {}
    BY <1>3, <1>10
  <2>2. c.state = "STEADY" /\ c.stride = nr - c.last_access /\ nr - c.last_access > 0
    BY <1>2, <2>1 DEF Trajectory
  <2>3. n >= 2 /\ c.last_access = accesses[n] /\ c.stride = accesses[n] - accesses[n - 1]
    BY <1>1, <2>2 DEF FollowsOpens, n
  <2>4. /\ accesses'[n + 1] = nr /\ accesses'[n] = accesses[n] /\ accesses'[n - 1] = accesses[n - 1]
        /\ accesses[n] \in Int /\ accesses[n - 1] \in Int
        /\ (n + 1) - 1 = n /\ (n + 1) - 2 = n - 1 /\ n + 1 >= 3
    BY <1>1, <1>4, <2>3
  <2>5. nr > accesses[n] /\ nr - accesses[n] = accesses[n] - accesses[n - 1]
    BY <1>6, <2>2, <2>3, <2>4
  <2>6. QED  BY <1>4, <2>4, <2>5
<1>11. QED  BY <1>9, <1>10

LEMMA HitFollows ==
    ASSUME PrefetchInv, NEW nr \in Step, handleHit(nr)
    PROVE  /\ PrefetchInv'
           /\ prefetched' # prefetched =>
                 LET n == Len(accesses')
                 IN  /\ n >= 3 /\ accesses'[n] > accesses'[n - 1]
                     /\ accesses'[n] - accesses'[n - 1] = accesses'[n - 1] - accesses'[n - 2]
<1>1. PICK result \in check_for_prefetch(context, nr) : Opened(nr, result, {})
  BY DEF handleHit
<1>2. context \in ContextType /\ LeadsOn(context)
  BY DEF PrefetchInv
<1> DEFINE jobs == {}
<1>3. Opened(nr, result, jobs) /\ \A j \in jobs : AsAsked(j)
  BY <1>1
<1> HIDE DEF jobs
<1>4. QED  BY <1>1, <1>2, <1>3, OpenFollows

LEMMA MissFollows ==
    ASSUME PrefetchInv, NEW nr \in Step, handleMiss(nr)
    PROVE  /\ PrefetchInv'
           /\ prefetched' # prefetched =>
                 LET n == Len(accesses')
                 IN  /\ n >= 3 /\ accesses'[n] > accesses'[n - 1]
                     /\ accesses'[n] - accesses'[n - 1] = accesses'[n - 1] - accesses'[n - 2]
<1> DEFINE c1 == [context EXCEPT !.parsims = 1]
           job == MissJob(c1, nr)
           c == [c1 EXCEPT !.last_nr = LastNr(c1, job)]
           jobs == {job}
<1>1. PICK result \in check_for_prefetch(c, nr) : Opened(nr, result, jobs)
  BY DEF handleMiss
<1>2. context \in ContextType /\ LeadsOn(context) /\ restarts \in SUBSET Step
  BY DEF PrefetchInv, IInv
<1>3. /\ c1 \in ContextType /\ c1.state = context.state /\ c1.stride = context.stride
      /\ c1.last_access = context.last_access /\ c1.stride \in Int
      /\ c1.last_nr = context.last_nr
  BY <1>2 DEF ContextType
<1> DEFINE stride == getStride(c1)
<1>4. stride \in Int
  BY <1>3 DEF getStride
<1> HIDE DEF c1, stride
<1> DEFINE ts == nr - Max({0, - stride})
           te == nr + Max({0, stride})
<1>5. job = newSimulation(ts, te) /\ ts \in Int /\ te \in Nat
  <2>1. nr \in Nat /\ - stride \in Int
    BY <1>4, SimulatorAssumption DEF Step
  <2>2. Max({0, - stride}) \in Int /\ Max({0, stride}) \in Nat
    <3>1. 0 \in Int
      OBVIOUS
    <3>2. /\ Max({0, - stride}) = IF 0 < - stride THEN - stride ELSE 0
          /\ Max({0, stride}) = IF 0 < stride THEN stride ELSE 0
      BY <1>4, <2>1, <3>1, MaxOfTwo
    <3>3. QED  BY <1>4, <3>2
  <2>3. job = newSimulation(ts, te)
    BY DEF MissJob, stride
  <2> HIDE DEF job
  <2>4. QED  BY <2>1, <2>2, <2>3
<1> HIDE DEF ts, te
<1>6. AsAsked(job) /\ Behind(job.sim_stop)
  BY <1>2, <1>5, NewJobAsAsked, JobEndsBehind
<1> HIDE DEF job
<1>7. job.sim_start \in Nat /\ job.sim_stop \in Nat
  BY <1>6, SimulatorAssumption DEF AsAsked, Job, Step
<1>8. LastNr(c1, job) = IF stride >= 0 THEN job.sim_stop ELSE job.sim_start
  BY DEF LastNr, stride
<1> DEFINE last == LastNr(c1, job)
<1> HIDE DEF last
<1>9. last \in Nat /\ (stride >= 0 => Behind(last))
  BY <1>6, <1>7, <1>8 DEF last
<1>10. c = [c1 EXCEPT !.last_nr = last]
  BY DEF last
<1> HIDE DEF c
<1>11. /\ c \in ContextType /\ c.state = context.state /\ c.stride = context.stride
       /\ c.last_access = context.last_access /\ c.last_nr = last
  BY <1>3, <1>9, <1>10 DEF ContextType
<1>12. LeadsOn(c)
  <2>1. CASE stride >= 0
    BY <1>9, <1>11, <2>1 DEF LeadsOn
  <2>2. CASE ~(stride >= 0)
    <3>1. c1.state = "STEADY" /\ c1.stride < 0
      BY <1>3, <2>2 DEF getStride, stride
    <3>2. QED  BY <1>3, <1>11, <3>1 DEF LeadsOn
  <2>3. QED  BY <2>1, <2>2
<1>13. \A j \in jobs : AsAsked(j)
  BY <1>6
<1> HIDE DEF jobs
<1>14. QED  BY <1>1, <1>11, <1>12, <1>13, OpenFollows

LEMMA PrefetchStep ==
    PrefetchInv /\ [PrefetchNext]_prefetch_vars =>
       /\ PrefetchInv'
       /\ prefetched' # prefetched =>
             LET n == Len(accesses')
             IN  /\ n >= 3 /\ accesses'[n] > accesses'[n - 1]
                 /\ accesses'[n] - accesses'[n - 1] = accesses'[n - 1] - accesses'[n - 2]
<1>1. CASE UNCHANGED prefetch_vars
  BY <1>1 DEF prefetch_vars, PrefetchInv, IInv, AsAsked, ContextType, LeadsOn, Behind, FollowsOpens,
              PrefetchLeavesNoGap
<1>2. QED  BY <1>1, HitFollows, MissFollows DEF PrefetchNext

LEMMA PrefetchInvariance == PrefetchSpec => []PrefetchInv
BY PrefetchInitHolds, PrefetchStep, PTL DEF PrefetchSpec

(* Also the ranges the prefetcher asks for, which may begin below 0 or end *)
(* behind the last step, are covered by the jobs, and no job is started    *)
(* before or runs beyond its restart interval.                             *)
THEOREM PrefetchedRangesCovered ==
    PrefetchSpec => [](TargetsCovered /\ StopsBeforeNextRestart /\ PartitionsDisjoint)
<1>1. PrefetchInv => TargetsCovered /\ StopsBeforeNextRestart /\ PartitionsDisjoint
  BY JobsAsAsked DEF PrefetchInv
<1>2. QED  BY <1>1, PrefetchInvariance, PTL

(* Whatever a client opens, and however far ahead the cost estimates let   *)
(* the context go (PrefetchContext.cpp, forward_prefetch), no step is left *)
(* out between two simulations started ahead.                              *)
THEOREM NoGapAhead == PrefetchSpec => []PrefetchLeavesNoGap
<1>1. PrefetchInv => PrefetchLeavesNoGap
  BY DEF PrefetchInv
<1>2. QED  BY <1>1, PrefetchInvariance, PTL

(* Only three equidistant opens in forward direction make the context      *)
(* start simulations ahead, whatever value last_access_ had at first.      *)
THEOREM TrajectoryFollowed == PrefetchSpec => PrefetchFollowsTrajectory
<1>1. PrefetchInv /\ [PrefetchNext]_prefetch_vars =>
         [prefetched' # prefetched =>
             LET n == Len(accesses')
             IN  /\ n >= 3 /\ accesses'[n] > accesses'[n - 1]
                 /\ accesses'[n] - accesses'[n - 1] = accesses'[n - 1] - accesses'[n - 2]
         ]_prefetch_vars
  BY PrefetchStep
<1>2. QED  BY <1>1, PrefetchInvariance, PTL DEF PrefetchSpec, PrefetchFollowsTrajectory

=============================================================================
