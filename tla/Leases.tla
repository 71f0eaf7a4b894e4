-------------------------------- MODULE Leases --------------------------------
(***************************************************************************)
(* What the requests of the server are to the database: each borrows a few *)
(* connections and gives all of them back; some connections are lost, and  *)
(* come back one day. There is a limit to the connections that are out.    *)
(***************************************************************************)
EXTENDS Integers, Functions

CONSTANTS Requests, Limit, Peak

VARIABLES
  lease,  \* connections that a request has borrowed
  lost    \* connections that nobody will give back

Out == SumFunction(lease) + lost

Init == lease = [r \in Requests |-> 0] /\ lost = 0

Borrow(r) ==
  /\ Out < Limit /\ lease[r] < Peak
  /\ lease' = [lease EXCEPT ![r] = @ + 1]
  /\ UNCHANGED lost

Return(r) ==
  /\ lease[r] > 0
  /\ lease' = [lease EXCEPT ![r] = @ - 1]
  /\ UNCHANGED lost

Lose(r) ==
  /\ lease[r] > 0
  /\ lease' = [lease EXCEPT ![r] = @ - 1]
  /\ lost' = lost + 1

Recover ==
  /\ lost > 0
  /\ lost' = lost - 1
  /\ UNCHANGED lease

Next == (\E r \in Requests : Borrow(r) \/ Return(r) \/ Lose(r)) \/ Recover

\* A request is never in debt for ever.
Settles == \A r \in Requests : []<>(lease[r] = 0)

Safety == Init /\ [][Next]_<<lease, lost>>

Spec == Safety /\ Settles
=============================================================================
