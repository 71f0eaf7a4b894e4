------------------------------- MODULE Records -------------------------------
(***************************************************************************)
(* The book-keeping of the store: clients, their addresses and assets, the *)
(* orders, jobs, payments and goods that refer to them, and the POST       *)
(* requests that add and edit them. Every handler first reads what it      *)
(* refers to, then sends one statement that writes; requests interleave    *)
(* between the two.                                                        *)
(*                                                                         *)
(* The reads of one handler are one step: the columns that tie rows        *)
(* together never change and no row is ever deleted, so that only the      *)
(* reads of statuses, one per handler, can be overtaken by a write.        *)
(* Adding a job is one write here: JobInsert shows that its transaction is *)
(* atomic. The status of a job is in JobEdit.                              *)
(***************************************************************************)

CONSTANTS
  Requests,  \* each request that adds a row draws the uuid it stands for
  Seeds,     \* clients there are at the start, each with an asset
  Old,       \* those of them that have an order, with a job and a good
  NoRow

VARIABLES
  clients, addresses, assets, orders, jobs, payments, goods,  \* the tables
  pc,        \* idle, read (about to write), done
  req,       \* what the handler holds when it is about to write
  answer,    \* the first header that was written
  trouble,   \* history: the database failed the request, or lost its reply
  raced      \* history: an address or asset was edited since the request read

tables == <<clients, addresses, assets, orders, jobs, payments, goods>>
vars == <<tables, pc, req, answer, trouble, raced>>

Ids == Requests \cup Seeds

\* The enums, as MySQL stores them; it takes the lower case of the forms, too.
Status == {"ACTIVE", "ARCHIVED"}
\* Two of the seven statuses of an order, by their values in the form.
Stored == [open |-> "OPEN", done |-> "DONE"]
\* Two of the five statuses of a good: in the enum and on the page, and in the
\* switch of goodPostEditHandler, which misspells one.
GoodStatus == {"in_use", "decommissioned"}
GoodSwitch == {"in_use", "decomissioned"}

OwnedRow == [client : Ids, status : Status]          \* of address and asset
OrderRow == [client : Ids, address : Ids,
             status : {Stored[s] : s \in DOMAIN Stored},
             closed : Ids]   \* close_time: the request that stamped it
JobRow == [order : Ids, client : Ids, asset : Ids]
PaymentRow == [order : Ids, client : Ids]
GoodRow == [job : Ids, owner : Ids, status : GoodStatus]

ASSUME RecordsAssumption ==
  /\ Requests \cap Seeds = {} /\ Old \subseteq Seeds
  /\ NoRow \notin Ids \cup Status \cup OwnedRow \cup OrderRow \cup JobRow \cup PaymentRow \cup GoodRow

Adds == {"addClient", "addAddress", "addAsset", "addOrder", "addJob", "pay", "addGood"}
Edits == {"editClient", "editAddress", "editAsset", "editOrder", "editGood"}
Held == [kind : Adds \cup Edits \cup {"none"}, row : Ids \cup {NoRow}, client : Ids \cup {NoRow},
         ref : Ids \cup {NoRow}, status : Status \cup DOMAIN Stored \cup GoodStatus \cup GoodSwitch \cup {""}]
Nothing == [kind |-> "none", row |-> NoRow, client |-> NoRow, ref |-> NoRow, status |-> ""]

TypeOK ==
  /\ clients \in [Ids -> Status \cup {NoRow}]
  /\ addresses \in [Ids -> OwnedRow \cup {NoRow}]
  /\ assets \in [Ids -> OwnedRow \cup {NoRow}]
  /\ orders \in [Ids -> OrderRow \cup {NoRow}]
  /\ jobs \in [Ids -> JobRow \cup {NoRow}]
  /\ payments \in [Ids -> PaymentRow \cup {NoRow}]
  /\ goods \in [Ids -> GoodRow \cup {NoRow}]
  /\ pc \in [Requests -> {"idle", "read", "done"}]
  /\ req \in [Requests -> Held]
  /\ answer \in [Requests -> {"none", "redirect", "refused", "failed"}]
  /\ trouble \in [Requests -> {"none", "failed", "lost"}]
  /\ raced \in [Requests -> BOOLEAN]

\* The keys of different tables may be equal. The foreign key of table address
\* only admits addresses with the key of a client: they were entered by hand,
\* for any of the clients.
Init ==
  /\ clients = [i \in Ids |-> IF i \in Seeds THEN "ACTIVE" ELSE NoRow]
  /\ addresses \in [Ids -> [client : Seeds, status : {"ACTIVE"}] \cup {NoRow}]
  /\ \A i \in Ids : addresses[i] # NoRow <=> i \in Seeds
  /\ assets = [i \in Ids |-> IF i \in Seeds THEN [client |-> i, status |-> "ACTIVE"] ELSE NoRow]
  /\ orders \in [Ids -> [client : Old, address : Seeds, status : {"OPEN"}, closed : Old] \cup {NoRow}]
  /\ \A i \in Ids : orders[i] # NoRow <=> i \in Old
  /\ \A i \in Old : /\ orders[i].client = i /\ orders[i].closed = i
                    /\ addresses[orders[i].address].client = i
  /\ jobs = [i \in Ids |-> IF i \in Old THEN [order |-> i, client |-> i, asset |-> i] ELSE NoRow]
  /\ goods = [i \in Ids |-> IF i \in Old THEN [job |-> i, owner |-> i, status |-> "in_use"] ELSE NoRow]
  /\ payments = [i \in Ids |-> NoRow]
  /\ pc = [r \in Requests |-> "idle"]
  /\ req = [r \in Requests |-> Nothing]
  /\ answer = [r \in Requests |-> "none"]
  /\ trouble = [r \in Requests |-> "none"]
  /\ raced = [r \in Requests |-> FALSE]

---------------------------------------------------------------------------
(* What the handlers read *)

\* The handler has read what it needs; header is what it has answered already.
Take(r, held, header) ==
  /\ pc[r] = "idle"
  /\ pc' = [pc EXCEPT ![r] = "read"]
  /\ req' = [req EXCEPT ![r] = held]
  /\ answer' = [answer EXCEPT ![r] = header]
  /\ UNCHANGED <<tables, trouble, raced>>

\* Variants: the lists show archived rows, or the rows of every client.
ListedArchived(table, c) == {i \in Ids : table[i] # NoRow /\ table[i].client = c}
ListedOfAll(table, c) == {i \in Ids : table[i] # NoRow /\ table[i].status # "ARCHIVED"}

\* address.List and asset.List for one client, without the archived rows.
Listed(table, c) ==
  {i \in Ids : table[i] # NoRow /\ table[i].client = c /\ table[i].status # "ARCHIVED"}

Exists(table, i) == i \in Ids /\ table[i] # NoRow

AddClient(r) == Take(r, [Nothing EXCEPT !.kind = "addClient"], "none")

\* A form that does not parse is answered 500 and the handler goes on with the
\* fields it has.
EditClient(r) ==
  \E c \in Ids, s \in Status, header \in {"none", "failed"} :
    /\ Exists(clients, c)
    /\ Take(r, [Nothing EXCEPT !.kind = "editClient", !.row = c, !.status = s], header)

AddAddress(r) ==
  \E c \in Ids :
    /\ Exists(clients, c)
    /\ Take(r, [Nothing EXCEPT !.kind = "addAddress", !.client = c], "none")

EditAddress(r) ==
  \E a \in Ids, s \in Status :
    /\ Exists(addresses, a) /\ Exists(clients, addresses[a].client)
    /\ Take(r, [Nothing EXCEPT !.kind = "editAddress", !.row = a, !.status = s], "none")

AddAsset(r) ==
  \E c \in Ids :
    /\ Exists(clients, c)
    /\ Take(r, [Nothing EXCEPT !.kind = "addAsset", !.client = c], "none")

EditAsset(r) ==
  \E a \in Ids, s \in Status :
    /\ Exists(assets, a) /\ Exists(clients, assets[a].client)
    /\ Take(r, [Nothing EXCEPT !.kind = "editAsset", !.row = a, !.status = s], "none")

\* The first listed address of the client; without one, the order is refused.
AddOrder(r) ==
  \E c, a \in Ids :
    /\ Exists(clients, c) /\ a \in Listed(addresses, c)
    /\ Take(r, [Nothing EXCEPT !.kind = "addOrder", !.client = c, !.ref = a], "none")

\* The page offers addresses of the client, but the handler hands on whatever
\* address is posted, of another client or of none, without looking at it.
EditOrder(r) ==
  \E o \in Ids, s \in DOMAIN Stored, a \in Ids \cup {NoRow} :
    /\ Exists(orders, o) /\ Exists(clients, orders[o].client)
    /\ Take(r, [Nothing EXCEPT !.kind = "editOrder", !.row = o, !.ref = a, !.status = s], "none")

\* The asset has to be on the list; the status of the order is not looked at.
AddJob(r) ==
  \E o, a \in Ids :
    /\ Exists(orders, o) /\ Exists(clients, orders[o].client)
    /\ a \in Listed(assets, orders[o].client)
    /\ Take(r, [Nothing EXCEPT !.kind = "addJob", !.row = o, !.client = orders[o].client,
                               !.ref = a], "none")

Pay(r) ==
  \E o \in Ids :
    /\ Exists(orders, o) /\ Exists(clients, orders[o].client)
    /\ Take(r, [Nothing EXCEPT !.kind = "pay", !.row = o, !.client = orders[o].client], "none")

AddGood(r) ==
  \E j \in Ids, s \in GoodStatus :
    /\ Exists(jobs, j) /\ Exists(clients, jobs[j].client)
    /\ Take(r, [Nothing EXCEPT !.kind = "addGood", !.row = j, !.client = jobs[j].client,
                               !.status = s], "none")

\* Only the posted status is used. The page offers GoodStatus; a status that
\* is not in the switch is answered 400.
EditGood(r) ==
  \E g \in Ids, s \in GoodStatus \cup GoodSwitch :
    LET held == [Nothing EXCEPT !.kind = "editGood", !.row = g, !.status = s] IN
    /\ Exists(goods, g)
    /\ IF s \in GoodSwitch
       THEN Take(r, held, "none")
       ELSE /\ pc[r] = "idle"
            /\ pc' = [pc EXCEPT ![r] = "done"]
            /\ req' = [req EXCEPT ![r] = held]
            /\ answer' = [answer EXCEPT ![r] = "refused"]
            /\ UNCHANGED <<tables, trouble, raced>>

\* A form that is not accepted, a row that does not exist or is not the
\* client's, or a client without an address.
Refuse(r) ==
  /\ pc[r] = "idle"
  /\ pc' = [pc EXCEPT ![r] = "done"]
  /\ answer' = [answer EXCEPT ![r] = "refused"]
  /\ UNCHANGED <<tables, req, trouble, raced>>

---------------------------------------------------------------------------
(* What they write *)

Reply(r, a) ==
  /\ pc' = [pc EXCEPT ![r] = "done"]
  /\ answer' = [answer EXCEPT ![r] = IF @ = "none" THEN a ELSE @]

\* The statement was executed. Its reply may be lost with the connection.
Saved(r) ==
  \/ Reply(r, "redirect") /\ UNCHANGED trouble
  \/ Reply(r, "failed") /\ trouble' = [trouble EXCEPT ![r] = "lost"]

Writes(r, kind) == pc[r] = "read" /\ req[r].kind = kind /\ UNCHANGED req

Overtakes(r) == raced' = [q \in Requests |-> raced[q] \/ (q # r /\ pc[q] = "read")]

InsertClient(r) ==
  /\ Writes(r, "addClient")
  /\ clients' = [clients EXCEPT ![r] = "ACTIVE"]
  /\ Saved(r)
  /\ UNCHANGED <<addresses, assets, orders, jobs, payments, goods, raced>>

UpdateClient(r) ==
  /\ Writes(r, "editClient")
  /\ clients' = [clients EXCEPT ![req[r].row] = req[r].status]
  /\ Saved(r)
  /\ UNCHANGED <<addresses, assets, orders, jobs, payments, goods, raced>>

\* The foreign key address_fk_clients_client_id is on the column address_id.
InsertAddress(r) ==
  /\ Writes(r, "addAddress")
  /\ IF Exists(clients, r)
     THEN /\ addresses' = [addresses EXCEPT ![r] = [client |-> req[r].client, status |-> "ACTIVE"]]
          /\ Saved(r)
     ELSE Reply(r, "failed") /\ UNCHANGED <<addresses, trouble>>
  /\ UNCHANGED <<clients, assets, orders, jobs, payments, goods, raced>>

UpdateAddress(r) ==
  /\ Writes(r, "editAddress")
  /\ addresses' = [addresses EXCEPT ![req[r].row].status = req[r].status]
  /\ Saved(r)
  /\ Overtakes(r)
  /\ UNCHANGED <<clients, assets, orders, jobs, payments, goods>>

InsertAsset(r) ==
  /\ Writes(r, "addAsset")
  /\ assets' = [assets EXCEPT ![r] = [client |-> req[r].client, status |-> "ACTIVE"]]
  /\ Saved(r)
  /\ UNCHANGED <<clients, addresses, orders, jobs, payments, goods, raced>>

UpdateAsset(r) ==
  /\ Writes(r, "editAsset")
  /\ assets' = [assets EXCEPT ![req[r].row].status = req[r].status]
  /\ Saved(r)
  /\ Overtakes(r)
  /\ UNCHANGED <<clients, addresses, orders, jobs, payments, goods>>

\* close_time is stamped when the order is opened, too.
InsertOrder(r) ==
  /\ Writes(r, "addOrder")
  /\ orders' = [orders EXCEPT ![r] = [client |-> req[r].client, address |-> req[r].ref,
                                      status |-> "OPEN", closed |-> r]]
  /\ Saved(r)
  /\ UNCHANGED <<clients, addresses, assets, jobs, payments, goods, raced>>

\* Variant: the posted status is compared with the one in the enum.
StampsUpper(r) == req[r].status = "DONE"

\* order.Status # newStatus holds always, one is upper case and one lower case:
\* every edit to done stamps close_time.
Stamps(r) == req[r].status = "done"

\* An address that is not there (none was offered) violates the foreign key.
UpdateOrder(r) ==
  /\ Writes(r, "editOrder")
  /\ IF Exists(addresses, req[r].ref)
     THEN /\ orders' = [orders EXCEPT
                          ![req[r].row].status = Stored[req[r].status],
                          ![req[r].row].address = req[r].ref,
                          ![req[r].row].closed = IF Stamps(r) THEN r ELSE @]
          /\ Saved(r)
     ELSE Reply(r, "failed") /\ UNCHANGED <<orders, trouble>>
  /\ UNCHANGED <<clients, addresses, assets, jobs, payments, goods, raced>>

InsertJob(r) ==
  /\ Writes(r, "addJob")
  /\ jobs' = [jobs EXCEPT ![r] = [order |-> req[r].row, client |-> req[r].client,
                                  asset |-> req[r].ref]]
  /\ Saved(r)
  /\ UNCHANGED <<clients, addresses, assets, orders, payments, goods, raced>>

\* Variant: an error of the INSERT is not looked at.
InsertPaymentUnchecked(r) ==
  /\ Writes(r, "pay")
  /\ payments' \in {payments, [payments EXCEPT ![r] = [order |-> req[r].row, client |-> req[r].client]]}
  /\ Saved(r)
  /\ UNCHANGED <<clients, addresses, assets, orders, jobs, goods, raced>>

InsertPayment(r) ==
  /\ Writes(r, "pay")
  /\ payments' = [payments EXCEPT ![r] = [order |-> req[r].row, client |-> req[r].client]]
  /\ Saved(r)
  /\ UNCHANGED <<clients, addresses, assets, orders, jobs, goods, raced>>

InsertGood(r) ==
  /\ Writes(r, "addGood")
  /\ goods' = [goods EXCEPT ![r] = [job |-> req[r].row, owner |-> req[r].client,
                                    status |-> req[r].status]]
  /\ Saved(r)
  /\ UNCHANGED <<clients, addresses, assets, orders, jobs, payments, raced>>

\* A status that is not in the enum is an error of MySQL (in its strict mode).
UpdateGood(r) ==
  /\ Writes(r, "editGood")
  /\ IF req[r].status \in GoodStatus
     THEN goods' = [goods EXCEPT ![req[r].row].status = req[r].status] /\ Saved(r)
     ELSE Reply(r, "failed") /\ UNCHANGED <<goods, trouble>>
  /\ UNCHANGED <<clients, addresses, assets, orders, jobs, payments, raced>>

\* The database fails before the statement is executed, the browser of an edit
\* has gone away, or the server dies.
Fail(r) ==
  /\ pc[r] = "read"
  /\ Reply(r, "failed")
  /\ trouble' = [trouble EXCEPT ![r] = "failed"]
  /\ UNCHANGED <<tables, req, raced>>

Read(r) ==
  \/ AddClient(r) \/ EditClient(r) \/ AddAddress(r) \/ EditAddress(r)
  \/ AddAsset(r) \/ EditAsset(r) \/ AddOrder(r) \/ EditOrder(r)
  \/ AddJob(r) \/ Pay(r) \/ AddGood(r) \/ EditGood(r) \/ Refuse(r)

Write(r) ==
  \/ InsertClient(r) \/ UpdateClient(r) \/ InsertAddress(r) \/ UpdateAddress(r)
  \/ InsertAsset(r) \/ UpdateAsset(r) \/ InsertOrder(r) \/ UpdateOrder(r)
  \/ InsertJob(r) \/ InsertPayment(r) \/ InsertGood(r) \/ UpdateGood(r)

AllDone == (\A r \in Requests : pc[r] = "done") /\ UNCHANGED vars

Next == (\E r \in Requests : Read(r) \/ Write(r) \/ Fail(r)) \/ AllDone

Spec == Init /\ [][Next]_vars

---------------------------------------------------------------------------
(* Properties *)

Added(r) ==
  \/ req[r].kind = "addClient" /\ clients[r] # NoRow
  \/ req[r].kind = "addAddress" /\ addresses[r] # NoRow
  \/ req[r].kind = "addAsset" /\ assets[r] # NoRow
  \/ req[r].kind = "addOrder" /\ orders[r] # NoRow
  \/ req[r].kind = "addJob" /\ jobs[r] # NoRow
  \/ req[r].kind = "pay" /\ payments[r] # NoRow
  \/ req[r].kind = "addGood" /\ goods[r] # NoRow

\* Whoever is redirected finds the row that was added; whoever is refused or
\* told of a failure has added nothing, unless the reply of MySQL was lost.
AnswersAreTrue ==
  \A r \in Requests :
    /\ req[r].kind \in Adds /\ answer[r] = "redirect" => Added(r)
    /\ req[r].kind \in Adds /\ answer[r] \in {"failed", "refused"} /\ Added(r) => trouble[r] = "lost"

\* An edit of order o that was answered posted address a.
Posted(o, a) ==
  \E r \in Requests :
    pc[r] = "done" /\ req[r].kind = "editOrder" /\ req[r].row = o /\ req[r].ref = a

OrdersAgree ==
  \A o \in Ids : orders[o] # NoRow =>
    /\ Exists(clients, orders[o].client)
    /\ Exists(addresses, orders[o].address)
    /\ \/ addresses[orders[o].address].client = orders[o].client
       \/ Posted(o, orders[o].address)

JobsAgree ==
  \A j \in Ids : jobs[j] # NoRow =>
    /\ Exists(orders, jobs[j].order) /\ orders[jobs[j].order].client = jobs[j].client
    /\ Exists(assets, jobs[j].asset) /\ assets[jobs[j].asset].client = jobs[j].client

PaymentsAgree ==
  \A p \in Ids : payments[p] # NoRow =>
    Exists(orders, payments[p].order) /\ orders[payments[p].order].client = payments[p].client

GoodsAgree ==
  \A g \in Ids : goods[g] # NoRow =>
    Exists(jobs, goods[g].job) /\ jobs[goods[g].job].client = goods[g].owner

\* The payments and jobs of an order, and the assets and goods of its jobs, belong
\* to its client, whatever is posted. The filters of the lists rely on it
\* (jobs.go:53, payment.go:44, goods.go:50), and no foreign key says it. Its
\* address does, too, unless an edit of that order posted another client's.
OneClient == OrdersAgree /\ JobsAgree /\ PaymentsAgree /\ GoodsAgree

\* The tables as one ledger of things that belong to clients.
Tables == [address |-> addresses, asset |-> assets, order |-> orders, job |-> jobs,
           payment |-> payments, good |-> goods]
Things == {"address", "asset", "order", "job", "payment", "good"} \X Ids
RowOf(t) == Tables[t[1]][t[2]]

Owner(t) ==
  IF RowOf(t) = NoRow THEN NoRow ELSE IF t[1] = "good" THEN RowOf(t).owner ELSE RowOf(t).client

Refers(t) ==
  IF RowOf(t) = NoRow THEN {}
  ELSE CASE t[1] = "order" -> {<<"address", RowOf(t).address>>}
         [] t[1] = "job" -> {<<"order", RowOf(t).order>>, <<"asset", RowOf(t).asset>>}
         [] t[1] = "payment" -> {<<"order", RowOf(t).order>>}
         [] t[1] = "good" -> {<<"job", RowOf(t).job>>}
         [] OTHER -> {}

\* Nothing leaves the tables or changes hands, and what is added refers to what
\* its client has already: the handlers read, and write later, without any lock,
\* and MySQL only checks that what is referred to is there. Only an order is
\* edited to refer to something else: to one address that is there.
Ledger == INSTANCE Books
  WITH Clients <- Ids, Nobody <- NoRow, Orders <- {"order"} \X Ids, Places <- {"address"} \X Ids,
       known <- {c \in Ids : clients[c] # NoRow},
       owner <- [t \in Things |-> Owner(t)],
       refers <- [t \in Things |-> Refers(t)]
ImplementsBooks == Ledger!Spec

\* An order that is done has the close time of an edit that made it done, not
\* the one it was opened with (orders.go:98), whatever other edits raced.
ClosedByDone ==
  \A o \in Ids : orders[o] # NoRow /\ orders[o].status = "DONE" =>
    \E r \in Requests :
      /\ orders[o].closed = r
      /\ req[r].kind = "editOrder" /\ req[r].row = o /\ req[r].status = "done"

\* A job is only added with an asset, and an order opened with an address, that
\* is archived if the archiving overtook the request (handles/jobs.go:183,
\* handles/orders.go:150).
SoloAddsAreCurrent ==
  [][\A r \in Requests : ~raced[r] =>
       /\ jobs[r] = NoRow /\ jobs'[r] # NoRow => assets[jobs'[r].asset].status = "ACTIVE"
       /\ orders[r] = NoRow /\ orders'[r] # NoRow => addresses[orders'[r].address].status = "ACTIVE"
    ]_vars

\* orders/handles/orders.go:161 tells a client without an address "Please add
\* one before creating an order": with nothing in trouble, it can be added.
AddressCanBeAdded ==
  \A r \in Requests :
    req[r].kind = "addAddress" /\ trouble[r] = "none" => answer[r] # "failed"

---------------------------------------------------------------------------
(* The inductive invariant: what a handler read still holds when it writes, *)
(* except for statuses.                                                     *)

NoRowOf(r) ==
  /\ clients[r] = NoRow /\ addresses[r] = NoRow /\ assets[r] = NoRow
  /\ orders[r] = NoRow /\ jobs[r] = NoRow /\ payments[r] = NoRow /\ goods[r] = NoRow

Fresh ==
  \A r \in Requests :
    /\ pc[r] = "idle" => req[r] = Nothing
    /\ pc[r] # "done" => NoRowOf(r)

OwnedBy(table, i, c) == Exists(table, i) /\ table[i].client = c

Grounded(h) ==
  /\ h.kind # "none"
  /\ h.kind \in {"addAddress", "addAsset", "addOrder"} => Exists(clients, h.client)
  /\ h.kind = "addOrder" => OwnedBy(addresses, h.ref, h.client)
  /\ h.kind \in {"addJob", "pay"} => OwnedBy(orders, h.row, h.client)
  /\ h.kind = "addJob" => OwnedBy(assets, h.ref, h.client)
  /\ h.kind = "addGood" => OwnedBy(jobs, h.row, h.client) /\ h.status \in GoodStatus
  /\ h.kind = "editClient" => Exists(clients, h.row) /\ h.status \in Status
  /\ h.kind = "editAddress" => Exists(addresses, h.row) /\ h.status \in Status
  /\ h.kind = "editAsset" => Exists(assets, h.row) /\ h.status \in Status
  /\ h.kind = "editOrder" => Exists(orders, h.row) /\ h.status \in DOMAIN Stored
  /\ h.kind = "editGood" => Exists(goods, h.row)

HeldHolds ==
  \A r \in Requests : pc[r] = "read" =>
    Grounded(req[r]) /\ (req[r].kind \in Adds => answer[r] = "none")

\* Statuses may change under a handler, but then it is raced.
UpToDate(h) ==
  /\ h.kind = "addJob" => assets[h.ref].status = "ACTIVE"
  /\ h.kind = "addOrder" => addresses[h.ref].status = "ACTIVE"

Current == \A r \in Requests : pc[r] = "read" /\ ~raced[r] => UpToDate(req[r])

IInv == TypeOK /\ Fresh /\ HeldHolds /\ Current /\ OneClient /\ AnswersAreTrue /\ ClosedByDone
=============================================================================
