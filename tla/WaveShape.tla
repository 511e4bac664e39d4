----------------------------- MODULE WaveShape -----------------------------
(***************************************************************************)
(* The load shape of src/tests/load/locustfile.py, class WaveShape: a     *)
(* table of stages and tick(), which maps the elapsed run time to the     *)
(* (users, spawn_rate) pair of the first stage whose "duration" is still  *)
(* above it, or to None once every boundary has been passed.              *)
(***************************************************************************)
EXTENDS Naturals, Sequences, FiniteSets

CONSTANTS
    Stages,     \* the stage table, a sequence of stage records
    None        \* the value tick() returns when the run should stop

Stage == [duration : Nat, users : Nat, spawn_rate : Nat \ {0}]

\* The table is a finite sequence of stages with a positive spawn rate.
ASSUME StagesAssumption == Stages \in Seq(Stage)

ASSUME NoneAssumption == None \notin Nat \X Nat

N == Len(Stages)

\* WaveShape.stages: the table the code ships with.
WaveStages ==
    << [duration |-> 60,  users |-> 100,  spawn_rate |-> 10],
       [duration |-> 120, users |-> 500,  spawn_rate |-> 20],
       [duration |-> 180, users |-> 1000, spawn_rate |-> 50],
       [duration |-> 240, users |-> 2000, spawn_rate |-> 100],
       [duration |-> 300, users |-> 500,  spawn_rate |-> 50] >>

(***************************************************************************)
(* The loop "for stage in self.stages: if run_time < stage['duration']:   *)
(* return ..." skips exactly the leading stages whose boundary run_time   *)
(* has reached.  Passed(t) is that prefix; the stage tick() returns is    *)
(* the one just after it, and StageIndex(t) = N + 1 means the loop fell   *)
(* through to "return None".                                              *)
(***************************************************************************)
Passed(t) == {i \in 1..N : \A j \in 1..i : ~(t < Stages[j].duration)}

StageIndex(t) == Cardinality(Passed(t)) + 1

(***************************************************************************)
(* Mutants of tick(), each a plausible slip in its seven lines.           *)
(***************************************************************************)
\* The pair returned as (spawn_rate, users).
tickSwapped(t) ==
    IF StageIndex(t) > N
    THEN None
    ELSE <<Stages[StageIndex(t)].spawn_rate, Stages[StageIndex(t)].users>>

\* Past the last boundary the last stage is kept instead of None.
tickKeepsLast(t) ==
    IF StageIndex(t) > N
    THEN <<Stages[N].users, Stages[N].spawn_rate>>
    ELSE <<Stages[StageIndex(t)].users, Stages[StageIndex(t)].spawn_rate>>

\* "return None" indented into the loop's else branch: only stage 1 is tried.
tickStopsEarly(t) ==
    IF N > 0 /\ t < Stages[1].duration
    THEN <<Stages[1].users, Stages[1].spawn_rate>>
    ELSE None

\* The stage dictionary returned instead of the tuple.
tickReturnsStage(t) ==
    IF StageIndex(t) > N THEN None ELSE Stages[StageIndex(t)]

tick(t) ==
    IF StageIndex(t) > N
    THEN None
    ELSE <<Stages[StageIndex(t)].users, Stages[StageIndex(t)].spawn_rate>>

=============================================================================
