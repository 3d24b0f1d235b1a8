---------------------------- MODULE MCSimulation ----------------------------
(* Simulation with three workers: a fast one, one whose training time      *)
(* varies widely, and a slow one.                                          *)
EXTENDS Simulation, TLC

CONSTANTS c1, c2, c3

Costs == (c1 :> {1, 2}) @@ (c2 :> {1, 3}) @@ (c3 :> {4, 5})
=============================================================================
