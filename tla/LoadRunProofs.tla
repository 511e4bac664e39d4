--------------------------- MODULE LoadRunProofs ---------------------------
(***************************************************************************)
(* Proofs about LoadRun for every stage table: the type invariant, and    *)
(* that the run refines StageProgress, i.e. tick() never sends the run    *)
(* back to an earlier stage and the run stops only past the last one.     *)
(***************************************************************************)
EXTENDS LoadRun, FiniteSetTheorems, TLAPS

LEMMA NIsNat == N \in Nat
BY StagesAssumption DEF N

\* Every entry of the table is a stage record.
LEMMA StageType == \A i \in 1..N : Stages[i] \in Stage
BY StagesAssumption DEF N

\* The skipped prefix is a finite subset of 1..N, so StageIndex(t) is a
\* stage number or N + 1.
LEMMA StageIndexRange ==
    ASSUME NEW t \in Nat
    PROVE  /\ IsFiniteSet(Passed(t))
           /\ StageIndex(t) \in 1..N + 1
<1>1. IsFiniteSet(1..N) /\ Cardinality(1..N) = N
  BY NIsNat, FS_Interval
<1>2. Passed(t) \in SUBSET (1..N)
  BY DEF Passed
<1>3. IsFiniteSet(Passed(t)) /\ Cardinality(Passed(t)) <= N
  BY <1>1, <1>2, FS_Subset
<1>4. Cardinality(Passed(t)) \in Nat
  BY <1>3, FS_CardinalityType
<1>. QED
  BY <1>3, <1>4, NIsNat DEF StageIndex

\* A later time has skipped at least the stages an earlier time skipped.
LEMMA StageIndexMonotone ==
    ASSUME NEW t1 \in Nat, NEW t2 \in Nat, t1 <= t2
    PROVE  StageIndex(t1) <= StageIndex(t2)
<1>1. Passed(t1) \subseteq Passed(t2)
  <2> SUFFICES ASSUME NEW i \in Passed(t1) PROVE i \in Passed(t2)
    OBVIOUS
  <2>1. i \in 1..N /\ \A j \in 1..i : ~(t1 < Stages[j].duration)
    BY DEF Passed
  <2>2. ASSUME NEW j \in 1..i PROVE ~(t2 < Stages[j].duration)
    <3>1. Stages[j].duration \in Nat
      BY <2>1, NIsNat, StageType DEF Stage
    <3>. QED
      BY <2>1, <3>1
  <2>. QED
    BY <2>1, <2>2 DEF Passed
<1>2. IsFiniteSet(Passed(t2))
  BY StageIndexRange
<1>3. Cardinality(Passed(t1)) <= Cardinality(Passed(t2))
  BY <1>1, <1>2, FS_Subset
<1>. QED
  BY <1>3, <1>2, <1>1, FS_Subset, FS_CardinalityType DEF StageIndex

\* tick() returns None exactly past the last stage, and a stage's pair
\* otherwise.
LEMMA TickValue ==
    ASSUME NEW t \in Nat
    PROVE  /\ tick(t) = None <=> StageIndex(t) = N + 1
           /\ tick(t) # None => tick(t) \in Pair
<1>1. StageIndex(t) \in 1..N + 1
  BY StageIndexRange
<1>2. CASE StageIndex(t) \in 1..N
  <2>1. Stages[StageIndex(t)] \in Stage
    BY <1>2, StageType
  <2>2. tick(t) \in Pair
    BY <1>2, <2>1, NIsNat DEF tick, Stage, Pair
  <2>. QED
    <3>1. None \notin Pair
      BY NoneAssumption DEF Pair
    <3>. QED
      BY <1>2, <2>2, <3>1, NIsNat
<1>3. CASE StageIndex(t) = N + 1
  BY <1>3, NIsNat DEF tick
<1>. QED
  BY <1>1, <1>2, <1>3, NIsNat

-----------------------------------------------------------------------------
\* The inductive invariant: the type, and Elapse only ever approaches a
\* stage's pair, because the harness polls tick() before every second.
IInv == /\ TypeOK
        /\ polled => target # None

LEMMA IInvInit == Init => IInv
<1> SUFFICES ASSUME Init PROVE IInv
  OBVIOUS
<1>1. target \in TargetValue
  BY DEF Init, TargetValue, Pair
<1>. QED
  BY <1>1 DEF Init, IInv, TypeOK

LEMMA IInvStep == IInv /\ [Next]_vars => IInv'
<1> SUFFICES ASSUME IInv, [Next]_vars PROVE IInv'
  OBVIOUS
<1>. USE DEF IInv, TypeOK, TargetValue, Pair
<1>1. CASE ShapeStop
  BY <1>1 DEF ShapeStop
<1>2. CASE ShapeApply
  <2>1. tick(runTime) \in Pair
    BY <1>2, TickValue DEF ShapeApply
  <2>. QED
    BY <1>2, <2>1 DEF ShapeApply
<1>3. CASE Elapse
  <2>1. target \in Pair
    BY <1>3 DEF Elapse
  <2>2. userCount' \in Nat
    BY <1>3, <2>1 DEF Elapse, Approach
  <2>3. runTime' \in Nat /\ polled' = FALSE
    BY <1>3 DEF Elapse
  <2>4. target' = target /\ running' = running
    BY <1>3 DEF Elapse
  <2>. QED
    BY <2>2, <2>3, <2>4
<1>4. CASE UNCHANGED vars
  BY <1>4 DEF vars
<1>. QED
  BY <1>1, <1>2, <1>3, <1>4 DEF Next

\* The harness keeps its state well typed at every second of the run.
THEOREM TypeCorrect == Spec => []TypeOK
<1>1. IInv => TypeOK
  BY DEF IInv
<1>. QED
  BY IInvInit, IInvStep, <1>1, PTL DEF Spec

\* Every step of the run is a StageProgress step or leaves tick()'s stage
\* and the stopped flag alone: the run never returns to an earlier stage,
\* and it stops only after tick() has fallen through every stage.
THEOREM Refinement == Spec => ImplementsStageProgress
<1>1. Init => Abstract!Init
  <2>1. StageIndex(0) \in 1..N + 1
    BY StageIndexRange
  <2>. QED
    BY <2>1 DEF Init, Abstract!Init
<1>2. IInv /\ [Next]_vars => [Abstract!Next]_Abstract!vars
  <2> SUFFICES ASSUME IInv, [Next]_vars
               PROVE  [Abstract!Next]_Abstract!vars
    OBVIOUS
  <2>. USE DEF IInv, TypeOK, TargetValue, Pair
  <2>1. CASE ShapeStop
    <3>1. StageIndex(runTime) = N + 1
      BY <2>1, TickValue DEF ShapeStop
    <3>. QED
      BY <2>1, <3>1 DEF ShapeStop, Abstract!Next, Abstract!Stop, Abstract!vars
  <2>2. CASE ShapeApply
    BY <2>2 DEF ShapeApply, Abstract!vars
  <2>3. CASE Elapse
    <3>1. StageIndex(runTime) <= StageIndex(runTime + 1)
      BY StageIndexMonotone
    <3>2. StageIndex(runTime + 1) \in 1..N + 1 /\ StageIndex(runTime) \in 1..N + 1
      BY StageIndexRange
    <3>3. CASE StageIndex(runTime + 1) = StageIndex(runTime)
      BY <2>3, <3>3 DEF Elapse, Abstract!vars
    <3>4. CASE StageIndex(runTime + 1) # StageIndex(runTime)
      <4>1. StageIndex(runTime + 1) \in StageIndex(runTime) + 1..N + 1
        BY <3>1, <3>2, <3>4
      <4>. QED
        BY <2>3, <4>1 DEF Elapse, Abstract!Next, Abstract!Advance
    <3>. QED
      BY <3>3, <3>4
  <2>4. CASE UNCHANGED vars
    BY <2>4 DEF vars, Abstract!vars
  <2>. QED
    BY <2>1, <2>2, <2>3, <2>4 DEF Next
<1>. QED
  BY <1>1, <1>2, IInvInit, IInvStep, PTL DEF Spec, ImplementsStageProgress, Abstract!Spec

=============================================================================
