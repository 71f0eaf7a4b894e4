------------------------------- MODULE MCForms -------------------------------
(* Forms with two users. An order has two addresses to choose from; which one a  *)
(* browser takes for the first is fixed, so that they are not symmetric.         *)
EXTENDS Forms

CONSTANTS u1, u2, home, work
=============================================================================
