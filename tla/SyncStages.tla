----------------------------- MODULE SyncStages -----------------------------
(***************************************************************************)
(* What the staged bootstrap of a node promises (spec section 4.7): the    *)
(* stages are taken strictly in the order INITIAL, SPORKS, LIST, MNW       *)
(* (payment winners), BUDGET, FINISHED; LIST and MNW may end in FAILED;    *)
(* nothing moves backwards except a full reset, which starts over at       *)
(* INITIAL and may immediately begin the SPORKS stage again.               *)
(***************************************************************************)
EXTENDS Naturals, TLC

INITIAL == 0
SPORKS == 1
LIST == 2
MNW == 3
BUDGET == 4
FAILED == 998
FINISHED == 999

Stages == {INITIAL, SPORKS, LIST, MNW, BUDGET, FAILED, FINISHED}

\* The stage that follows each working stage.
Successor == (INITIAL :> SPORKS) @@ (SPORKS :> LIST) @@ (LIST :> MNW)
             @@ (MNW :> BUDGET) @@ (BUDGET :> FINISHED)

VARIABLE stage

Init == stage = INITIAL

Advance == stage \in DOMAIN Successor /\ stage' = Successor[stage]

Fail == stage \in {LIST, MNW} /\ stage' = FAILED

Restart == stage' \in {INITIAL, SPORKS}

Next == Advance \/ Fail \/ Restart

Spec == Init /\ [][Next]_stage
=============================================================================
