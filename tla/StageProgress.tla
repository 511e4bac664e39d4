--------------------------- MODULE StageProgress ---------------------------
(***************************************************************************)
(* What a staged load shape promises its harness (spec section 4.2): the  *)
(* run moves through stages 1..NStages in order, possibly skipping some,  *)
(* never going back, and it stops only once it is past the last stage.    *)
(* Stage NStages + 1 stands for "tick() returned None".                   *)
(***************************************************************************)
EXTENDS Naturals

CONSTANT NStages

VARIABLES stage, stopped

vars == <<stage, stopped>>

Init == /\ stage \in 1..NStages + 1
        /\ stopped = FALSE

\* The run moves on to a later stage.
Advance == /\ ~stopped
           /\ stage' \in stage + 1..NStages + 1
           /\ UNCHANGED stopped

\* The run stops, which it may only do past the last stage.
Stop == /\ ~stopped
        /\ stage = NStages + 1
        /\ stopped' = TRUE
        /\ UNCHANGED stage

Next == Advance \/ Stop

Spec == Init /\ [][Next]_vars

=============================================================================
