----------------------------- MODULE MCAdaSparse -----------------------------
(* AdaSparse with two workers and two layers.                               *)
EXTENDS AdaSparse, TLC

CONSTANTS c1, c2, a, b

Ranks == (c1 :> (a :> 2 @@ b :> 1)) @@ (c2 :> (a :> 2 @@ b :> 2))

Costs == (a :> 2) @@ (b :> 1)

Uplinks == (c1 :> 3) @@ (c2 :> 4)

Downlinks4 == (c1 :> Unlimited) @@ (c2 :> 4)
=============================================================================
