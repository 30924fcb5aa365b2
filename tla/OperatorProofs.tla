--------------------------- MODULE OperatorProofs ---------------------------
(***************************************************************************)
(* What the operators return that the models are built from: the least and *)
(* the greatest of a set of steps, lists without repetitions, and the      *)
(* restart arithmetic, for every set of restart files and every range of   *)
(* steps.  The proofs of the components rest on these facts.               *)
(***************************************************************************)
EXTENDS Restarts, SequencesExt, FiniteSetTheorems, SequenceTheorems, TLAPS

(* The order on the naturals, as the relation the well-foundedness         *)
(* theorems speak of.                                                      *)
LEMMA LessThanRelation ==
    \A x, y \in Nat : <<x, y>> \in OpToRel(<, Nat) <=> x < y
  BY Zenon DEF OpToRel

(* A nonempty set of naturals has a least element and Min finds it         *)
(* (upper_bound and lower_bound of the ascending set restarts_ceil_).      *)
LEMMA MinProperty ==
    ASSUME NEW S \in SUBSET Nat, S # {}
    PROVE  Min(S) \in S /\ \A y \in S : Min(S) <= y
<1>1. PICK x \in S : \A y \in S : <<y, x>> \notin OpToRel(<, Nat)
  BY NatLessThanWellFounded, WFMin
<1>2. \A y \in S : x <= y
  <2>1. \A y \in S : ~(y < x)
    BY <1>1, LessThanRelation, Zenon
  <2>2. QED
    BY <2>1
<1>3. QED
  BY <1>2 DEF Min

(* A nonempty bounded set of naturals has a greatest element and Max finds *)
(* it (lower_bound of the descending set restarts_): it is the least bound *)
(* of the set.                                                             *)
LEMMA MaxProperty ==
    ASSUME NEW S \in SUBSET Nat, S # {}, NEW n \in Nat, \A s \in S : s <= n
    PROVE  Max(S) \in S /\ \A y \in S : y <= Max(S)
<1> DEFINE B == {b \in Nat : \A s \in S : s <= b}
<1>1. B \in SUBSET Nat /\ B # {}
  OBVIOUS
<1>2. PICK b \in B : \A y \in B : b <= y
  BY <1>1, MinProperty
<1>3. b \in S
  <2>1. SUFFICES ASSUME b \notin S PROVE FALSE
    OBVIOUS
  <2>2. \A s \in S : s < b
    BY <1>2, <2>1
  <2>3. b - 1 \in B
    <3> PICK s0 \in S : TRUE
      OBVIOUS
    <3>1. b - 1 \in Nat
      <4>1. s0 \in Nat /\ b \in Nat /\ s0 < b
        BY <2>2
      <4>2. QED
        BY <4>1
    <3>2. \A s \in S : s <= b - 1
      BY <2>2
    <3>3. QED
      BY <3>1, <3>2
  <2>4. QED
    BY <1>2, <2>3
<1>4. \A y \in S : y <= b
  BY <1>2
<1>5. QED
  BY <1>3, <1>4 DEF Max

-----------------------------------------------------------------------------
\* Sequences without repetitions.

LEMMA RemoveAtProperties ==
    ASSUME NEW S, NEW s \in Seq(S), NEW i \in 1 .. Len(s)
    PROVE  /\ RemoveAt(s, i) \in Seq(S)
           /\ Len(RemoveAt(s, i)) = Len(s) - 1
           /\ \A j \in 1 .. Len(s) - 1 :
                 RemoveAt(s, i)[j] = IF j < i THEN s[j] ELSE s[j + 1]
<1> DEFINE l == SubSeq(s, 1, i - 1)
           r == SubSeq(s, i + 1, Len(s))
<1>1. Len(s) \in Nat /\ \A j \in 1 .. Len(s) : s[j] \in S
  OBVIOUS
<1>2. l \in Seq(S) /\ Len(l) = i - 1 /\ \A j \in 1 .. i - 1 : l[j] = s[j]
  <2>1. \A j \in 1 .. i - 1 : s[j] \in S
    BY <1>1
  <2>2. QED  BY <1>1, <2>1, SubSeqProperties
<1>3. r \in Seq(S) /\ Len(r) = Len(s) - i /\ \A j \in 1 .. Len(s) - i : r[j] = s[i + j]
  <2>1. \A j \in i + 1 .. Len(s) : s[j] \in S
    BY <1>1
  <2>2. r \in Seq(S) /\ Len(r) = Len(s) - i
    BY <1>1, <2>1, SubSeqProperties
  <2>3. \A j \in 1 .. Len(s) - (i + 1) + 1 : r[j] = s[(i + 1) + j - 1]
    BY <1>1, <2>1, SubSeqProperties
  <2>4. QED  BY <1>1, <2>2, <2>3
<1> HIDE DEF l, r
<1>4. /\ l \o r \in Seq(S) /\ Len(l \o r) = Len(l) + Len(r)
      /\ \A j \in 1 .. Len(l) + Len(r) : (l \o r)[j] = IF j <= Len(l) THEN l[j] ELSE r[j - Len(l)]
  BY <1>2, <1>3, ConcatProperties
<1>5. \A j \in 1 .. Len(s) - 1 : (l \o r)[j] = IF j < i THEN s[j] ELSE s[j + 1]
  <2>1. SUFFICES ASSUME NEW j \in 1 .. Len(s) - 1
                 PROVE  (l \o r)[j] = IF j < i THEN s[j] ELSE s[j + 1]
    OBVIOUS
  <2>2. (l \o r)[j] = IF j <= Len(l) THEN l[j] ELSE r[j - Len(l)]
    <3>1. j \in 1 .. Len(l) + Len(r)
      BY <1>1, <1>2, <1>3
    <3>2. QED  BY <1>4, <3>1
  <2>3. CASE j < i
    <3>1. j <= Len(l) /\ j \in 1 .. i - 1
      BY <1>2, <2>3
    <3>2. l[j] = s[j]
      BY <1>2, <3>1
    <3>3. QED  BY <2>2, <2>3, <3>1, <3>2
  <2>4. CASE ~(j < i)
    <3>1. ~(j <= Len(l)) /\ j - Len(l) \in 1 .. Len(s) - i /\ i + (j - Len(l)) = j + 1
      BY <1>1, <1>2, <2>4
    <3>2. r[j - Len(l)] = s[j + 1]
      BY <1>3, <3>1
    <3>3. QED  BY <2>2, <2>4, <3>1, <3>2
  <2>5. QED  BY <2>3, <2>4
<1>6. RemoveAt(s, i) = l \o r
  BY DEF RemoveAt, l, r
<1>7. Len(l \o r) = Len(s) - 1
  BY <1>1, <1>2, <1>3, <1>4
<1>8. QED  BY <1>4, <1>5, <1>6, <1>7

LEMMA RemoveAtInjective ==
    ASSUME NEW S, NEW s \in Seq(S), NEW i \in 1 .. Len(s), IsInjective(s)
    PROVE  /\ IsInjective(RemoveAt(s, i))
           /\ Range(RemoveAt(s, i)) = Range(s) \ {s[i]}
<1> DEFINE r == RemoveAt(s, i)
<1> HIDE DEF r
<1>1. /\ r \in Seq(S) /\ Len(r) = Len(s) - 1 /\ Len(s) \in Nat
      /\ \A j \in 1 .. Len(s) - 1 : r[j] = IF j < i THEN s[j] ELSE s[j + 1]
  <2>1. r \in Seq(S) /\ Len(r) = Len(s) - 1
    BY RemoveAtProperties DEF r
  <2>2. \A j \in 1 .. Len(s) - 1 : r[j] = IF j < i THEN s[j] ELSE s[j + 1]
    BY RemoveAtProperties DEF r
  <2>3. QED  BY <2>1, <2>2
<1>2. \A a, b \in 1 .. Len(s) : s[a] = s[b] => a = b
  BY DEF IsInjective
<1>3. DOMAIN r = 1 .. Len(s) - 1 /\ DOMAIN s = 1 .. Len(s)
  BY <1>1
<1>4. IsInjective(r)
  BY <1>1, <1>2, <1>3 DEF IsInjective
<1>5. \A j \in DOMAIN r : r[j] \in Range(s) \ {s[i]}
  BY <1>1, <1>2, <1>3 DEF Range
<1>6. ASSUME NEW j \in DOMAIN s, j # i PROVE s[j] \in Range(r)
  <2>1. CASE j < i
    <3>1. j \in DOMAIN r /\ r[j] = s[j]
      BY <1>1, <1>3, <2>1
    <3>2. QED  BY <3>1 DEF Range
  <2>2. CASE j > i
    <3>1. j - 1 \in DOMAIN r /\ r[j - 1] = s[j]
      BY <1>1, <1>3, <2>2
    <3>2. QED  BY <3>1 DEF Range
  <2>3. QED  BY <1>3, <1>6, <2>1, <2>2
<1>7. Range(r) = Range(s) \ {s[i]}
  BY <1>5, <1>6 DEF Range
<1>8. QED  BY <1>4, <1>7 DEF r

LEMMA AppendKeepsInjective ==
    ASSUME NEW S, NEW s \in Seq(S), NEW e \in S, e \notin Range(s), IsInjective(s)
    PROVE  /\ Append(s, e) \in Seq(S)
           /\ IsInjective(Append(s, e))
           /\ Range(Append(s, e)) = Range(s) \cup {e}
<1> DEFINE r == Append(s, e)
<1>1. /\ r \in Seq(S) /\ Len(s) \in Nat
      /\ DOMAIN s = 1 .. Len(s) /\ DOMAIN r = 1 .. Len(s) + 1
      /\ r[Len(s) + 1] = e /\ \A j \in 1 .. Len(s) : r[j] = s[j]
  OBVIOUS
<1> HIDE DEF r
<1>2. \A j \in DOMAIN s : s[j] # e
  BY DEF Range
<1>3. IsInjective(r)
  BY <1>1, <1>2 DEF IsInjective
<1>4. Range(r) = Range(s) \cup {e}
  BY <1>1 DEF Range
<1>5. QED  BY <1>1, <1>3, <1>4 DEF r

-----------------------------------------------------------------------------
(* What generateSimJobForRange returns, for any restarts and any range.    *)
LEMMA CheckpointProperty ==
    ASSUME NEW R \in SUBSET Nat, NEW nr \in Int
    PROVE  /\ getCheckpointNr(R, nr) \in R \cup {0}
           /\ getCheckpointNr(R, nr) = 0 \/ getCheckpointNr(R, nr) <= nr
           /\ \A r \in R : ~(getCheckpointNr(R, nr) < r /\ r <= nr)
<1> DEFINE S == AtOrBelow(R, nr)
<1>1. CASE S = {}
  BY <1>1 DEF getCheckpointNr, AtOrBelow
<1>2. CASE S # {}
  <2>1. S \in SUBSET Nat /\ \A s \in S : s <= nr
    BY DEF AtOrBelow
  <2>2. nr \in Nat
    BY <1>2, <2>1
  <2>3. Max(S) \in S /\ \A y \in S : y <= Max(S)
    BY <1>2, <2>1, <2>2, MaxProperty
  <2>4. getCheckpointNr(R, nr) = Max(S)
    BY <1>2 DEF getCheckpointNr
  <2>5. QED
    BY <2>1, <2>2, <2>3, <2>4 DEF AtOrBelow
<1>3. QED
  BY <1>1, <1>2

LEMMA JobStopProperty ==
    ASSUME NEW R \in SUBSET Nat, NEW te \in Nat
    PROVE  /\ JobStop(R, te) \in Nat
           /\ te <= JobStop(R, te)
           /\ \A r \in R : r > te => JobStop(R, te) < r
           /\ JobStop(R, te) = te \/ \E r \in R : JobStop(R, te) < r
<1> DEFINE S == Above(R, te)
<1>1. CASE S = {}
  BY <1>1 DEF JobStop, Above
<1>2. CASE S # {}
  <2>1. S \in SUBSET Nat
    BY DEF Above
  <2>2. Min(S) \in S /\ \A y \in S : Min(S) <= y
    BY <1>2, <2>1, MinProperty
  <2>3. Min(S) \in R /\ Min(S) > te /\ Min(S) \in Nat
    BY <2>1, <2>2 DEF Above
  <2>4. JobStop(R, te) = Min(S) - 1
    BY <1>2, <2>3 DEF JobStop
  <2>5. \A r \in R : r > te => Min(S) <= r
    BY <2>2 DEF Above
  <2>6. QED
    BY <2>3, <2>4, <2>5
<1>3. QED
  BY <1>1, <1>2

(* A job's range covers the steps it was asked for, as far as they are     *)
(* steps of the simulation; it starts at the restart its first target      *)
(* falls behind and stops before the restart behind its last.              *)
LEMMA RangeProperty ==
    ASSUME NEW max_nr \in Nat, NEW R \in SUBSET (0 .. max_nr), NEW everything \in BOOLEAN,
           NEW ts \in Int, NEW te \in Nat
    PROVE  LET range == generateSimJobForRange(R, ts, te, everything, max_nr)
           IN  /\ range = [sim_start |-> range.sim_start, sim_stop |-> range.sim_stop]
               /\ range.sim_start \in 0 .. max_nr /\ range.sim_stop \in Nat
               /\ range.sim_start = 0 \/ range.sim_start <= ts
               /\ te <= max_nr => range.sim_stop \in te .. max_nr
               /\ ~everything =>
                    /\ te <= range.sim_stop
                    /\ range.sim_start \in R \cup {0}
                    /\ \A r \in R : ~(range.sim_start < r /\ r <= ts)
                    /\ \A r \in R : r > te => range.sim_stop < r
<1> R \in SUBSET Nat
  OBVIOUS
<1>1. CASE everything
  BY <1>1 DEF generateSimJobForRange
<1>2. CASE ~everything
  <2>1. /\ getCheckpointNr(R, ts) \in R \cup {0}
        /\ getCheckpointNr(R, ts) = 0 \/ getCheckpointNr(R, ts) <= ts
        /\ \A r \in R : ~(getCheckpointNr(R, ts) < r /\ r <= ts)
    BY CheckpointProperty
  <2>2. /\ JobStop(R, te) \in Nat
        /\ te <= JobStop(R, te)
        /\ \A r \in R : r > te => JobStop(R, te) < r
        /\ JobStop(R, te) = te \/ \E r \in R : JobStop(R, te) < r
    BY JobStopProperty
  <2>3. /\ getCheckpointNr(R, ts) \in 0 .. max_nr
        /\ te <= max_nr => JobStop(R, te) \in te .. max_nr
    <3>1. getCheckpointNr(R, ts) \in 0 .. max_nr
      <4>1. \A r \in R \cup {0} : r \in 0 .. max_nr
        OBVIOUS
      <4>2. QED
        BY <2>1, <4>1
    <3>2. te <= max_nr => JobStop(R, te) \in te .. max_nr
      BY <2>2
    <3>3. QED
      BY <3>1, <3>2
  <2>4. generateSimJobForRange(R, ts, te, everything, max_nr)
          = [sim_start |-> getCheckpointNr(R, ts), sim_stop |-> JobStop(R, te)]
    BY <1>2 DEF generateSimJobForRange
  <2>5. QED
    BY <1>2, <2>1, <2>2, <2>3, <2>4
<1>3. QED
  BY <1>1, <1>2
=============================================================================
