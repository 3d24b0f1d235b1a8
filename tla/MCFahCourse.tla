---------------------------- MODULE MCFahCourse -----------------------------
(* FahCourse with three workers, of which two have caps of their own.       *)
EXTENDS FahCourse

CONSTANTS c1, c2, c3

Caps == (c1 :> 2) @@ (c2 :> 4) @@ (c3 :> RMax)
=============================================================================
