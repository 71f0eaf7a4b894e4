------------------------------ MODULE MCRecords ------------------------------
(* Records with two clients and a few requests. *)
EXTENDS Records, TLC

CONSTANTS r1, r2, c1, c2

\* Requests and seeds are only names.
Symmetric == Permutations(Requests) \cup Permutations(Seeds)
=============================================================================
