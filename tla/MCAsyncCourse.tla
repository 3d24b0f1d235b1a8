---------------------------- MODULE MCAsyncCourse ----------------------------
(* One course in both modes of evaluation: as the configuration says (by the  *)
(* server), or by the workers, who then train and evaluate at a time.         *)
EXTENDS MCFedCourse

VARIABLE byWorkers

Asking == INSTANCE FedCourse WITH GlobalEval <- FALSE

EitherInit == Init /\ byWorkers \in BOOLEAN

EitherNext ==
  \/ ~byWorkers /\ Next /\ UNCHANGED byWorkers
  \/ byWorkers /\ Asking!Next /\ UNCHANGED byWorkers

EitherSpec == EitherInit /\ [][EitherNext]_<<vars, byWorkers>>
=============================================================================
