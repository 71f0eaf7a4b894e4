----------------------------- MODULE PriceLedger -----------------------------
(***************************************************************************)
(* What adding a job promises of the database: the new row of table job    *)
(* and the new price_total of its order appear in one indivisible step.    *)
(* Transactions, locks, deadlines and crashes are not visible here; module *)
(* JobInsert shows that jobs.Insert implements this specification.         *)
(***************************************************************************)
EXTENDS Integers, FiniteSets, Functions

CONSTANTS
  Adders,     \* requests that add a job; each draws one uuid, so it names its row
  Orders,     \* primary keys of table order
  Prices,     \* values of the form field price
  MaxBigint,  \* largest value of a bigint(20) column
  NoJob       \* there is no row with this uid

ASSUME LedgerAssumption ==
  /\ Prices \subseteq Int
  /\ MaxBigint \in Nat
  /\ NoJob \notin [order : Orders, price : Prices]

\* The server that is modelled gets finitely many requests.
ASSUME AddersAssumption == IsFiniteSet(Adders)

VARIABLES
  jobs,       \* table job: uid -> the columns order_id and price, or NoJob
  priceTotal  \* table order: order_id -> the column price_total

ledgerVars == <<jobs, priceTotal>>

Bigint == -MaxBigint - 1 .. MaxBigint

Init ==
  /\ jobs = [a \in Adders |-> NoJob]
  /\ priceTotal = [o \in Orders |-> 0]

AddJob(a, o, p) ==
  /\ jobs[a] = NoJob
  /\ priceTotal[o] + p \in Bigint
  /\ jobs' = [jobs EXCEPT ![a] = [order |-> o, price |-> p]]
  /\ priceTotal' = [priceTotal EXCEPT ![o] = @ + p]

Next == \E a \in Adders, o \in Orders, p \in Prices : AddJob(a, o, p)

Spec == Init /\ [][Next]_ledgerVars

JobsOf(o) == {a \in Adders : jobs[a] # NoJob /\ jobs[a].order = o}

(* The total shown for an order is the sum of the prices of its jobs, the *)
(* cancelled ones included: nothing ever subtracts a price.               *)
TotalIsSum ==
  \A o \in Orders :
    priceTotal[o] = SumFunction([a \in JobsOf(o) |-> jobs[a].price])
=============================================================================
