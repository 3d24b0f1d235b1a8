----------------------------- MODULE SyncRounds -----------------------------
(***************************************************************************)
(* What a synchronous FL course promises, without messages: in every round *)
(* a cohort of SampleNum workers is chosen, each of them returns its       *)
(* update of that round once, and the round ends with the last of them.    *)
(* After TotalRounds rounds the model is evaluated and the course is over; *)
(* an early stop may end it before.                                        *)
(***************************************************************************)
EXTENDS Integers, FiniteSets

CONSTANTS Workers, SampleNum, TotalRounds

VARIABLES
  phase,    \* "joining", "training", "evaluating" or "over"
  round,    \* rounds completed
  pending   \* the workers of the cohort whose update is still out

vars == <<phase, round, pending>>

Cohorts == {S \in SUBSET Workers : Cardinality(S) = SampleNum}

Init == phase = "joining" /\ round = 0 /\ pending = {}

Start ==
  /\ phase = "joining"
  /\ phase' = "training"
  /\ pending' \in Cohorts
  /\ UNCHANGED round

Return(w) ==
  /\ phase = "training"
  /\ w \in pending
  /\ pending # {w}
  /\ pending' = pending \ {w}
  /\ UNCHANGED <<phase, round>>

\* The last update of a round; the next cohort is chosen, unless it was the last.
EndRound ==
  /\ phase = "training"
  /\ Cardinality(pending) = 1
  /\ round' = round + 1
  /\ IF round' < TotalRounds
       THEN pending' \in Cohorts /\ UNCHANGED phase
       ELSE pending' = {} /\ phase' = "evaluating"

\* The final evaluation is merged, or the early stopper speaks.
End ==
  /\ phase \in {"training", "evaluating"}
  /\ phase' = "over"
  /\ round' = TotalRounds + 1
  /\ pending' = {}

Next == Start \/ (\E w \in Workers : Return(w)) \/ EndRound \/ End

Spec == Init /\ [][Next]_vars
=============================================================================
