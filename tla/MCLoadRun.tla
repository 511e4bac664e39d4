----------------------------- MODULE MCLoadRun -----------------------------
EXTENDS LoadRun

\* The stage table of the code, and a clock bound one second past its end.
MCStages == WaveStages
MCMaxRunTime == 301

(***************************************************************************)
(* The loop of tick() written literally, as a reference for the prefix    *)
(* definition StageIndex: the first i with t < duration, else N + 1.      *)
(***************************************************************************)
RECURSIVE ScanFrom(_, _)
ScanFrom(t, i) == IF i > N THEN N + 1
                  ELSE IF t < Stages[i].duration THEN i ELSE ScanFrom(t, i + 1)

\* StageIndex agrees with the literal loop at every second of the run.
ASSUME TickMatchesLoop == \A t \in 0..MCMaxRunTime : StageIndex(t) = ScanFrom(t, 1)

=============================================================================
