------------------------------ MODULE MCJobEdit ------------------------------
(* JobEdit with a few racing requests and a short clock. *)
EXTENDS JobEdit, TLC

CONSTANTS r1, r2, r3

\* Requests are only names. Used in the runs without liveness.
Symmetric == Permutations(Requests)
=============================================================================
