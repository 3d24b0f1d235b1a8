----------------------------- MODULE MCDeployment -----------------------------
EXTENDS Deployment

\* Two devices of the manifest with one container each.
Two == {"w1", "w2"}

Boards == {"d1", "d2"}

Manifested == [c \in Two |-> IF c = "w1" THEN "d1" ELSE "d2"]
=============================================================================
