---------------------------- MODULE MCListQueries ----------------------------
(* ListQueries over every small table and every query string. *)
EXTENDS ListQueries, TLC

CONSTANTS c1, c2, p1, p2, k1, k2, r1, r2

\* Nothing orders clients, parents or rows.
Symmetric == Permutations(Clients) \cup Permutations(Parents) \cup Permutations(Rows)
=============================================================================
