------------------------------- MODULE ConnPool -------------------------------
(***************************************************************************)
(* The connections to MySQL that the handlers take and give back through   *)
(* database/sql. A handler is a sequence of calls. A call prepares a       *)
(* statement on a connection, which it gives back, and then takes one      *)
(* again to run the statement. Get never closes its rows: they keep their  *)
(* connection until the context of the request ends, so that a request     *)
(* holds several; the rows of a login belong to no request and keep theirs *)
(* until MySQL closes it. The pool has no limit, MySQL has: at the limit   *)
(* a call fails, it does not wait.                                         *)
(***************************************************************************)
EXTENDS Integers, Sequences, FiniteSets, Functions

CONSTANTS
  Requests,  \* requests served at once; each may come again when it is over
  Limit,     \* max_connections of MySQL, as far as this server may use them
  Pages      \* the handlers that are asked for

ASSUME ConnPoolAssumption == Limit \in Nat \ {0} /\ IsFiniteSet(Requests)

VARIABLES
  todo,    \* the calls that are left to the handler, the one under way first
  stage,   \* idle, handling, preparing, prepared, running
  held,    \* connections kept by rows that were left open
  gone,    \* the browser has gone away: the context of the request is done
  answer,  \* none yet, given (a page, a redirect or an error), starved, cut
  kept     \* connections kept by the rows of logins

pool == <<todo, stage, held, gone, answer, kept>>

---------------------------------------------------------------------------
(* The handlers. "page": the form is refused or, for a GET, the page shown, *)
(* or the handler goes on. The calls in the brackets of a list depend on   *)
(* the query string.                                                       *)

JobEdit == {<<"get", "get", "list", "page", "get", "update">>}
JobAdd == {<<"get", "get", "list", "page", "tx">>}
JobList == {<<"list", "list">>, <<"list", "get", "list">>, <<"list", "get", "get", "list">>}
OrderEdit == {<<"get", "get", "list", "page", "update">>}
OrderAdd == {<<"list", "page", "get", "list", "page", "insert">>}
OrderList == {<<"list", "list">>, <<"list", "get", "list">>}
GoodEdit == {<<"get", "get", "get", "get", "list", "page", "update">>}
GoodAdd == {<<"get", "get", "list", "page", "insert">>}
GoodList == {<<"list", "list">>, <<"list", "get", "list">>, <<"list", "get", "get", "list">>}
Pay == {<<"get", "get", "page", "insert">>}
PaymentList == {<<"list", "list">>, <<"list", "get", "list">>, <<"list", "get", "get", "list">>}
ClientPages == {<<"list">>, <<"page", "insert">>, <<"get", "page", "update">>}
AddressEdit == {<<"get", "get", "page", "update">>}
AddressAdd == {<<"get", "page", "insert">>}
AddressList == {<<"get", "list">>}
AssetEdit == {<<"get", "get", "page", "update">>}
AssetAdd == {<<"get", "page", "insert">>}
AssetList == {<<"get", "list">>}
AssetFinder == {<<"list">>}
EmployeePages == {<<"list">>, <<"page", "update">>, <<"get", "page", "update">>}
Login == {<<"page", "login", "page">>}

Scripts ==
  JobEdit \cup JobAdd \cup JobList \cup OrderEdit \cup OrderAdd \cup OrderList
  \cup GoodEdit \cup GoodAdd \cup GoodList \cup Pay \cup PaymentList \cup ClientPages
  \cup AddressEdit \cup AddressAdd \cup AddressList \cup AssetEdit \cup AssetAdd
  \cup AssetList \cup AssetFinder \cup EmployeePages \cup Login

\* Calls that are given context.Background(): they go on without the browser.
Detached == {"insert", "tx", "login"}

\* The most that a handler has out at once: four rows left open, and a call.
Peak == 5

Gets(s) == Cardinality({i \in DOMAIN s : s[i] = "get"})

ASSUME PagesAssumption == Pages \subseteq Scripts

---------------------------------------------------------------------------
Call(r) == Head(todo[r])
Active(r) == stage[r] # "idle"
Busy(r) == IF stage[r] \in {"preparing", "running"} THEN 1 ELSE 0
Leased(r) == held[r] + Busy(r)
InUse == SumFunction([r \in Requests |-> Leased(r)]) + kept

Suffixes == {SubSeq(s, i, Len(s)) : s \in Scripts, i \in 1..8}

PoolTypeOK ==
  /\ todo \in [Requests -> Suffixes]
  /\ stage \in [Requests -> {"idle", "handling", "preparing", "prepared", "running"}]
  /\ held \in [Requests -> 0..Peak]
  /\ gone \in [Requests -> BOOLEAN]
  /\ answer \in [Requests -> {"none", "given", "starved", "cut"}]
  /\ kept \in 0..Limit

PoolInit ==
  /\ todo = [r \in Requests |-> <<>>]
  /\ stage = [r \in Requests |-> "idle"]
  /\ held = [r \in Requests |-> 0]
  /\ gone = [r \in Requests |-> FALSE]
  /\ answer = [r \in Requests |-> "none"]
  /\ kept = 0

Accept(r) ==
  /\ stage[r] = "idle" /\ held[r] = 0
  /\ \E s \in Pages : todo' = [todo EXCEPT ![r] = s]
  /\ stage' = [stage EXCEPT ![r] = "handling"]
  /\ answer' = [answer EXCEPT ![r] = "none"]
  /\ UNCHANGED <<held, gone, kept>>

\* The handler returns: whatever connection it was using goes back, and net/http
\* ends the context of the request.
Return(r, a) ==
  /\ stage' = [stage EXCEPT ![r] = "idle"]
  /\ answer' = [answer EXCEPT ![r] = a]
  /\ todo' = [todo EXCEPT ![r] = <<>>]
  /\ gone' = [gone EXCEPT ![r] = FALSE]

Goes(r, to) ==
  /\ stage' = [stage EXCEPT ![r] = to]
  /\ UNCHANGED <<todo, gone, answer>>

\* The call is over, the handler goes on to the next.
Advance(r) ==
  /\ stage' = [stage EXCEPT ![r] = "handling"]
  /\ todo' = [todo EXCEPT ![r] = Tail(@)]
  /\ UNCHANGED <<gone, answer>>

Respond(r) ==
  /\ stage[r] = "handling"
  /\ \/ todo[r] = <<>> /\ Return(r, "given")
     \/ todo[r] # <<>> /\ Call(r) = "page" /\ (Return(r, "given") \/ Advance(r))
  /\ UNCHANGED <<held, kept>>

\* About to take a connection, to prepare a statement (or begin a transaction),
\* or to run the statement.
Wants(r) ==
  \/ stage[r] = "handling" /\ todo[r] # <<>> /\ Call(r) # "page"
  \/ stage[r] = "prepared"

Cancelled(r) == gone[r] /\ Call(r) \notin Detached

Prepare(r) ==
  /\ stage[r] = "handling" /\ Wants(r) /\ ~Cancelled(r)
  /\ InUse < Limit
  /\ Goes(r, IF Call(r) = "tx" THEN "running" ELSE "preparing")
  /\ UNCHANGED <<held, kept>>

Prepared(r) ==
  /\ stage[r] = "preparing"
  /\ Goes(r, "prepared") \/ Return(r, "given")
  /\ UNCHANGED <<held, kept>>

Query(r) ==
  /\ stage[r] = "prepared" /\ ~Cancelled(r)
  /\ InUse < Limit
  /\ Goes(r, "running")
  /\ UNCHANGED <<held, kept>>

\* Variant: a pool with a maximum of open connections, where calls wait.
StarveWaits(r) == FALSE

\* MySQL refuses the connection ("Too many connections").
Starve(r) ==
  /\ Wants(r) /\ ~Cancelled(r)
  /\ InUse >= Limit
  /\ Return(r, "starved")
  /\ UNCHANGED <<held, kept>>

\* database/sql looks at the context before it takes a connection.
GiveUp(r) ==
  /\ Wants(r) /\ Cancelled(r)
  /\ Return(r, "given")
  /\ UNCHANGED <<held, kept>>

\* Variant: a list does not end its rows either.
OneRowKeepsAll(r) ==
  /\ stage[r] = "running" /\ Call(r) \in {"get", "list"}
  /\ Advance(r)
  /\ held' = [held EXCEPT ![r] = @ + 1]
  /\ UNCHANGED kept

\* rows.Next found a row, and nobody closes the rows.
OneRow(r) ==
  /\ stage[r] = "running" /\ Call(r) = "get"
  /\ Advance(r)
  /\ held' = [held EXCEPT ![r] = @ + 1]
  /\ UNCHANGED kept

\* As OneRow, in no context that ends.
LoginRow(r) ==
  /\ stage[r] = "running" /\ Call(r) = "login"
  /\ Advance(r)
  /\ kept' = kept + 1
  /\ UNCHANGED held

\* The rows were read to their end, or the statement has no rows.
Ends(r) ==
  /\ stage[r] = "running" /\ Call(r) \notin {"get", "login"}
  /\ Advance(r)
  /\ UNCHANGED <<held, kept>>

\* No row, or an error of MySQL: the connection goes back and the handler returns.
Fails(r) ==
  /\ stage[r] = "running"
  /\ Return(r, "given")
  /\ UNCHANGED <<held, kept>>

\* A row that cannot be scanned leaves the rows open and the handler returns.
ScanFails(r) ==
  /\ stage[r] = "running" /\ Call(r) \in {"get", "list"}
  /\ Return(r, "given")
  /\ held' = [held EXCEPT ![r] = @ + 1]
  /\ UNCHANGED kept

LoginScanFails(r) ==
  /\ stage[r] = "running" /\ Call(r) = "login"
  /\ Return(r, "given")
  /\ kept' = kept + 1
  /\ UNCHANGED held

\* The browser closes its connection: net/http ends the context.
Leave(r) ==
  /\ Active(r) /\ ~gone[r]
  /\ gone' = [gone EXCEPT ![r] = TRUE]
  /\ UNCHANGED <<todo, stage, held, answer, kept>>

\* Variant: the context of the request is not the one of its queries; only a
\* browser that leaves closes rows.
CloseRowsOnLeave(r) ==
  /\ held[r] > 0 /\ gone[r]
  /\ held' = [held EXCEPT ![r] = @ - 1]
  /\ UNCHANGED <<todo, stage, gone, answer, kept>>

\* Variant: rows are closed again that were closed already.
CloseRowsTwice(r) ==
  /\ ~Active(r) \/ gone[r]
  /\ held' = [held EXCEPT ![r] = @ - 1]
  /\ UNCHANGED <<todo, stage, gone, answer, kept>>

\* A goroutine of database/sql closes rows whose context is done.
CloseRows(r) ==
  /\ held[r] > 0 /\ (~Active(r) \/ gone[r])
  /\ held' = [held EXCEPT ![r] = @ - 1]
  /\ UNCHANGED <<todo, stage, gone, answer, kept>>

\* MySQL closes a connection that was left idle (wait_timeout).
WaitTimeout ==
  /\ kept > 0
  /\ kept' = kept - 1
  /\ UNCHANGED <<todo, stage, held, gone, answer>>

\* A handler does not stop by itself, and MySQL answers every statement.
Step(r) ==
  \/ Respond(r) \/ Prepare(r) \/ Prepared(r) \/ Query(r) \/ Starve(r) \/ GiveUp(r)
  \/ OneRow(r) \/ LoginRow(r) \/ Ends(r) \/ Fails(r) \/ ScanFails(r) \/ LoginScanFails(r)

PoolNext ==
  \/ \E r \in Requests : Accept(r) \/ Step(r) \/ Leave(r) \/ CloseRows(r)
  \/ WaitTimeout

PoolFairness == \A r \in Requests : WF_pool(Step(r)) /\ WF_pool(CloseRows(r))

PoolSpec == PoolInit /\ [][PoolNext]_pool /\ PoolFairness

---------------------------------------------------------------------------
(* Properties *)

\* Every request that is accepted is answered: no handler waits for a connection
\* that another one holds, although a request holds up to four while it asks
\* for the next (jobs.go:241).
Answered == \A r \in Requests : Active(r) ~> ~Active(r)

\* One handler never takes more than Peak connections: a request finds none left
\* only if others, or the rows of logins (auth.go:33), can have taken them.
StarvedOnlyWhenCrowded ==
  [][\A r \in Requests : answer[r] = "none" /\ answer'[r] = "starved" =>
       Limit < Peak * Cardinality({q \in Requests : Leased(q) > 0 \/ q = r}) + kept]_pool

\* To the database, requests are borrowers that settle their debts; only the
\* rows of logins are lost.
Abstract == INSTANCE Leases WITH lease <- [r \in Requests |-> Leased(r)], lost <- kept
ImplementsLeases == Abstract!Spec

---------------------------------------------------------------------------
(* The inductive invariant *)

\* A handler has so few connections that it can still take those of the calls
\* that are left to it.
Frugal(r) ==
  /\ Active(r) => held[r] + Gets(todo[r]) < Peak
  /\ stage[r] \in {"preparing", "prepared", "running"} => todo[r] # <<>>

PoolInv ==
  /\ PoolTypeOK
  /\ InUse <= Limit
  /\ \A r \in Requests : Frugal(r)

---------------------------------------------------------------------------
\* The process dies: its connections end with it.
Die ==
  /\ todo' = [r \in Requests |-> <<>>]
  /\ stage' = [r \in Requests |-> "idle"]
  /\ held' = [r \in Requests |-> 0]
  /\ answer' = [r \in Requests |-> IF Active(r) THEN "cut" ELSE answer[r]]
  /\ kept' = 0
  /\ gone' = [r \in Requests |-> FALSE]
=============================================================================
