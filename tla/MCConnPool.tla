------------------------------ MODULE MCConnPool ------------------------------
(* ConnPool with the handlers that make the longest sequences of calls of each  *)
(* kind; those of the others are parts of theirs.                               *)
EXTENDS ConnPool, TLC

CONSTANTS r1, r2

MCPages == GoodEdit \cup JobEdit \cup JobAdd \cup JobList \cup OrderAdd \cup Login
=============================================================================
