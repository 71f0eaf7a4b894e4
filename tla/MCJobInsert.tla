----------------------------- MODULE MCJobInsert -----------------------------
(* JobInsert on small sets of requests, orders and prices. *)
EXTENDS JobInsert

CONSTANTS a1, a2, a3, o1

MCPrices == {-1, 2}
=============================================================================
