------------------------------ MODULE MCHetLora ------------------------------
(* HetLora with three workers.                                              *)
EXTENDS HetLora, TLC

CONSTANTS c1, c2, c3

\* Like a fleet of devices: none alike, two alike, and one that does not fit.
Fleets == {c1 :> 6 @@ c2 :> 4 @@ c3 :> 3, c1 :> 5 @@ c2 :> 5 @@ c3 :> 2,
           c1 :> 7 @@ c2 :> 3 @@ c3 :> 3}
=============================================================================
