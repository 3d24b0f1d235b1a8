----------------------------- MODULE MCFedCourse -----------------------------
(* FedCourse on a small course: the workers' names and their symmetry.      *)
EXTENDS FedCourse, TLC

CONSTANTS c1, c2, c3, c4

\* Workers that nothing distinguishes may be exchanged.
Alike == Permutations(Clients \ Unseen)
=============================================================================
