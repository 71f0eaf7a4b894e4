------------------------------- MODULE MCServer -------------------------------
(* Server with a few handlers: an insert, a transaction, a login. *)
EXTENDS Server, TLC

CONSTANTS r1, r2

MCPages == Pay \cup JobAdd \cup Login
=============================================================================
