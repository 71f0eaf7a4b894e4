------------------------------- MODULE MCAccess -------------------------------
(* Access with one seeded employee and two requests of two browsers. *)
EXTENDS Access, TLC

CONSTANTS r1, r2, e1, b1, b2, m1, m2, w1, w2

MCLevels == {"EMPLOYEE", "REVOKED"}

\* Requests are not among the symmetric sets: they name the accounts they add.
Symmetric == Permutations(Emails) \cup Permutations(Passwords)
=============================================================================
