------------------------------ MODULE LoadRun ------------------------------
(***************************************************************************)
(* One load run driven by WaveShape.  The harness (locust's shape worker, *)
(* an external collaborator, spec sections 2 and 5) polls tick() once a   *)
(* second: None stops the run, a (users, spawn_rate) pair becomes the     *)
(* population target, which the harness then approaches by at most       *)
(* spawn_rate users during the following second.  Only tick() and the     *)
(* stage table are code of this repository; the harness is modelled from *)
(* the spec.                                                              *)
(***************************************************************************)
EXTENDS WaveShape

CONSTANT MaxRunTime   \* bound on the clock, above the last stage boundary

ASSUME MaxRunTimeAssumption == MaxRunTime \in Nat

VARIABLES
    runTime,    \* seconds elapsed, what get_run_time() returns
    running,    \* the runner has not been stopped
    polled,     \* tick() has been called during the current second
    target,     \* the last (users, spawn_rate) pair tick() returned, or None
    userCount   \* virtual users alive

vars == <<runTime, running, polled, target, userCount>>

\* What tick() can return: a (users, spawn_rate) pair or None.
Pair == {p \in [1..2 -> Nat] : p[2] # 0}
TargetValue == {None} \cup Pair

TypeOK == /\ runTime \in Nat
          /\ running \in BOOLEAN
          /\ polled \in BOOLEAN
          /\ target \in TargetValue
          /\ userCount \in Nat

Init == /\ runTime = 0
        /\ running = TRUE
        /\ polled = FALSE
        /\ target = None
        /\ userCount = 0

\* tick() returned None: the harness stops the run.
ShapeStop == /\ running
              /\ ~polled
              /\ tick(runTime) = None
              /\ running' = FALSE
              /\ UNCHANGED <<runTime, polled, target, userCount>>

\* tick() returned a stage: it becomes the population target.
ShapeApply == /\ running
               /\ ~polled
               /\ tick(runTime) # None
               /\ target' = tick(runTime)
               /\ polled' = TRUE
               /\ UNCHANGED <<runTime, running, userCount>>

\* The population after one second of spawning or stopping towards t.
Approach(c, t) == IF c < t[1] THEN IF c + t[2] < t[1] THEN c + t[2] ELSE t[1]
                  ELSE IF t[1] + t[2] < c THEN c - t[2] ELSE t[1]

\* One second passes while the harness adjusts the population.
Elapse == /\ running
          /\ polled
          /\ runTime < MaxRunTime
          /\ runTime' = runTime + 1
          /\ userCount' = Approach(userCount, target)
          /\ polled' = FALSE
          /\ UNCHANGED <<running, target>>

Next == ShapeStop \/ ShapeApply \/ Elapse

\* The shape worker sleeps one second and polls again, so it never stalls.
Spec == Init /\ [][Next]_vars /\ WF_vars(Next)

-----------------------------------------------------------------------------
(***************************************************************************)
(* Properties.                                                             *)
(***************************************************************************)

\* Every stage of the table gets the population to its "users" before its
\* boundary passes: when one second moves tick() from stage i to a later
\* stage, the users alive at the end of that second are stage i's target.
\* It is about the numbers in WaveShape.stages and tick()'s pair order.
TargetReachedBeforeStageEnds ==
    [][ Elapse /\ StageIndex(runTime') # StageIndex(runTime)
          => userCount' = Stages[StageIndex(runTime)].users ]_vars

\* The run ends: tick() eventually returns None and the harness stops.
RunEnds == <>(~running)

\* WaveShape's run is a staged progression in the sense of StageProgress,
\* with tick()'s current stage as the abstract stage.
Abstract == INSTANCE StageProgress
              WITH NStages <- N, stage <- StageIndex(runTime), stopped <- ~running

ImplementsStageProgress == Abstract!Spec

=============================================================================
