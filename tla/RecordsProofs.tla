---------------------------- MODULE RecordsProofs ----------------------------
(***************************************************************************)
(* Proofs about Records: its inductive invariant, what follows from it, and *)
(* that the tables implement the ledger of Books.                          *)
(***************************************************************************)
EXTENDS Records, TLAPS

(* What every write of request r leaves as it is. *)

\* No row goes away or changes its client.
TiesStay ==
  \A i \in Ids :
    /\ clients[i] # NoRow => clients'[i] # NoRow
    /\ addresses[i] # NoRow => addresses'[i] # NoRow /\ addresses'[i].client = addresses[i].client
    /\ assets[i] # NoRow => assets'[i] # NoRow /\ assets'[i].client = assets[i].client
    /\ orders[i] # NoRow => orders'[i] # NoRow /\ orders'[i].client = orders[i].client
    /\ jobs[i] # NoRow => jobs'[i] # NoRow /\ jobs'[i].client = jobs[i].client
    /\ goods[i] # NoRow => goods'[i] # NoRow

\* No row of another request appears.
OthersStay(r) ==
  \A q \in Requests \ {r} :
    /\ clients'[q] # NoRow <=> clients[q] # NoRow
    /\ addresses'[q] # NoRow <=> addresses[q] # NoRow
    /\ assets'[q] # NoRow <=> assets[q] # NoRow
    /\ orders'[q] # NoRow <=> orders[q] # NoRow
    /\ jobs'[q] # NoRow <=> jobs[q] # NoRow
    /\ payments'[q] # NoRow <=> payments[q] # NoRow
    /\ goods'[q] # NoRow <=> goods[q] # NoRow

\* r has been answered, and no other request.
OnlyAnswers(r) ==
  /\ pc[r] = "read"
  /\ pc' = [pc EXCEPT ![r] = "done"]
  /\ req' = req
  /\ answer' \in [Requests -> {"none", "redirect", "refused", "failed"}]
  /\ trouble' \in [Requests -> {"none", "failed", "lost"}]
  /\ \A q \in Requests \ {r} : answer'[q] = answer[q] /\ trouble'[q] = trouble[q]

\* The answer to r is true.
AnswerIsTrue(r) ==
  /\ req[r].kind \in Adds /\ answer[r] = "redirect" => Added(r)
  /\ req[r].kind \in Adds /\ answer[r] \in {"failed", "refused"} /\ Added(r) => trouble[r] = "lost"

\* A table u is table t with a row put at k.
IsPut(t, u, Row, k, row) ==
  /\ u \in [Ids -> Row \cup {NoRow}]
  /\ u[k] = row
  /\ \A i \in Ids \ {k} : u[i] = t[i]

LEMMA PutRow ==
  ASSUME NEW Row, NEW t \in [Ids -> Row \cup {NoRow}], NEW k \in Ids, NEW row \in Row
  PROVE  IsPut(t, [t EXCEPT ![k] = row], Row, k, row)
  BY DEF IsPut

(* How requests are answered. *)

LEMMA SavedAnswers ==
  ASSUME TypeOK, NEW r \in Requests, pc[r] = "read", UNCHANGED req, Saved(r)
  PROVE  /\ OnlyAnswers(r)
         /\ answer[r] = "none" => answer'[r] = "redirect" \/ (answer'[r] = "failed" /\ trouble'[r] = "lost")
  BY DEF TypeOK, Saved, Reply, OnlyAnswers

LEMMA FailureAnswers ==
  ASSUME TypeOK, NEW r \in Requests, pc[r] = "read", UNCHANGED req, Reply(r, "failed"),
         \/ UNCHANGED trouble
         \/ trouble' = [trouble EXCEPT ![r] = "failed"]
  PROVE  /\ OnlyAnswers(r)
         /\ answer[r] = "none" => answer'[r] = "failed"
  BY DEF TypeOK, Reply, OnlyAnswers

---------------------------------------------------------------------------
(* What a write keeps when no row goes away or changes its client. *)

LEMMA HeldStays ==
  ASSUME HeldHolds, TypeOK, NEW r \in Requests, OnlyAnswers(r), TiesStay
  PROVE  HeldHolds'
<1> SUFFICES ASSUME NEW q \in Requests, pc'[q] = "read"
             PROVE  Grounded(req[q])' /\ (req[q].kind \in Adds => answer'[q] = "none")
  BY DEF HeldHolds, OnlyAnswers
<1>1. q # r /\ pc[q] = "read" /\ answer'[q] = answer[q] /\ req'[q] = req[q]
  BY DEF OnlyAnswers, TypeOK
<1>2. Grounded(req[q]) /\ (req[q].kind \in Adds => answer[q] = "none")
  BY <1>1 DEF HeldHolds
<1>3. Grounded(req[q])'
  BY <1>1, <1>2 DEF Grounded, OwnedBy, Exists, TiesStay
<1> QED
  BY <1>1, <1>2, <1>3

LEMMA PostedStays ==
  ASSUME TypeOK, NEW r \in Requests, OnlyAnswers(r), NEW o, NEW a, Posted(o, a)
  PROVE  Posted(o, a)'
  BY DEF Posted, OnlyAnswers, TypeOK

LEMMA OrdersAgreeStays ==
  ASSUME OrdersAgree, UNCHANGED orders, TiesStay, TypeOK, NEW r \in Requests, OnlyAnswers(r)
  PROVE  OrdersAgree'
<1> SUFFICES ASSUME NEW o \in Ids, orders[o] # NoRow
             PROVE  /\ Exists(clients, orders[o].client)'
                    /\ Exists(addresses, orders[o].address)'
                    /\ \/ addresses'[orders[o].address].client = orders[o].client
                       \/ Posted(o, orders[o].address)'
  BY DEF OrdersAgree
<1>1. /\ Exists(clients, orders[o].client) /\ Exists(addresses, orders[o].address)
      /\ \/ addresses[orders[o].address].client = orders[o].client
         \/ Posted(o, orders[o].address)
  BY DEF OrdersAgree
<1> QED
  BY <1>1, PostedStays DEF TiesStay, Exists

\* An order is put at k, with an address of its client or one that was posted.
LEMMA PutOrderAgrees ==
  ASSUME OrdersAgree, TypeOK, NEW r \in Requests, OnlyAnswers(r), UNCHANGED <<clients, addresses>>,
         NEW k \in Ids, NEW row \in OrderRow, IsPut(orders, orders', OrderRow, k, row),
         Exists(clients, row.client), Exists(addresses, row.address),
         \/ addresses[row.address].client = row.client
         \/ req[r].kind = "editOrder" /\ req[r].row = k /\ req[r].ref = row.address
  PROVE  OrdersAgree'
<1> SUFFICES ASSUME NEW o \in Ids, NEW new, new = orders'[o], new # NoRow
             PROVE  /\ Exists(clients, new.client)
                    /\ Exists(addresses, new.address)
                    /\ \/ addresses[new.address].client = new.client
                       \/ \E q \in Requests : /\ pc'[q] = "done" /\ req[q].kind = "editOrder"
                                              /\ req[q].row = o /\ req[q].ref = new.address
  BY DEF OrdersAgree, Exists, Posted, OnlyAnswers
<1>1. CASE o = k
  <2>1. new = row /\ pc'[r] = "done"
    BY <1>1 DEF IsPut, OnlyAnswers, TypeOK
  <2> QED
    BY <1>1, <2>1
<1>2. CASE o # k
  <2>1. new = orders[o]
    BY <1>2 DEF IsPut
  <2>2. \A q \in Requests : pc[q] = "done" => pc'[q] = "done"
    BY DEF OnlyAnswers, TypeOK
  <2> QED
    BY <2>1, <2>2 DEF OrdersAgree, Posted
<1> QED
  BY <1>1, <1>2

LEMMA JobsAgreeStays ==
  ASSUME JobsAgree, UNCHANGED jobs, TiesStay
  PROVE  JobsAgree'
  BY DEF JobsAgree, TiesStay, Exists

LEMMA PaymentsAgreeStays ==
  ASSUME PaymentsAgree, UNCHANGED payments, TiesStay
  PROVE  PaymentsAgree'
  BY DEF PaymentsAgree, TiesStay, Exists

LEMMA GoodsAgreeStays ==
  ASSUME GoodsAgree, UNCHANGED goods, TiesStay
  PROVE  GoodsAgree'
  BY DEF GoodsAgree, TiesStay, Exists

LEMMA ClosedStays ==
  ASSUME ClosedByDone, UNCHANGED <<orders, req>>
  PROVE  ClosedByDone'
  BY DEF ClosedByDone

\* What was not archived when it was read still is not, or the request is raced.
LEMMA CurrentStays ==
  ASSUME IInv, NEW r \in Requests, OnlyAnswers(r), UNCHANGED raced,
         \A i \in Ids : addresses[i] # NoRow => addresses'[i] = addresses[i],
         \A i \in Ids : assets[i] # NoRow => assets'[i] = assets[i]
  PROVE  Current'
<1> SUFFICES ASSUME NEW q \in Requests, pc'[q] = "read", ~raced'[q]
             PROVE  UpToDate(req[q])'
  BY DEF Current
<1>1. q # r /\ pc[q] = "read" /\ ~raced[q] /\ req'[q] = req[q]
  BY DEF OnlyAnswers, IInv, TypeOK
<1>2. UpToDate(req[q]) /\ Grounded(req[q])
  BY <1>1 DEF IInv, Current, HeldHolds
<1> QED
  BY <1>1, <1>2 DEF UpToDate, Grounded, OwnedBy, Exists, Adds

LEMMA OvertakenAreRaced ==
  ASSUME NEW r \in Requests, OnlyAnswers(r), TypeOK, Overtakes(r)
  PROVE  Current'
<1> SUFFICES ASSUME NEW q \in Requests, pc'[q] = "read"
             PROVE  raced'[q]
  BY DEF Current
<1>1. q # r /\ pc[q] = "read"
  BY DEF OnlyAnswers, TypeOK
<1> QED
  BY <1>1 DEF Overtakes

\* Each write is left with: types, its own table, and its own answer.
LEMMA WriteIInv ==
  ASSUME IInv, NEW r \in Requests, OnlyAnswers(r), TiesStay, OthersStay(r),
         TypeOK', Current', OneClient', ClosedByDone', AnswerIsTrue(r)'
  PROVE  IInv'
<1>1. HeldHolds'
  BY HeldStays DEF IInv
<1>2. Fresh'
  <2> SUFFICES ASSUME NEW q \in Requests
               PROVE  /\ pc'[q] = "idle" => req'[q] = Nothing
                      /\ pc'[q] # "done" => NoRowOf(q)'
    BY DEF Fresh
  <2>1. CASE q = r
    BY <2>1 DEF OnlyAnswers, IInv, TypeOK
  <2>2. CASE q # r
    <3>1. pc'[q] = pc[q] /\ req'[q] = req[q]
      BY <2>2 DEF OnlyAnswers, IInv, TypeOK
    <3>2. NoRowOf(q) => NoRowOf(q)'
      BY <2>2 DEF OthersStay, NoRowOf
    <3> QED
      BY <3>1, <3>2 DEF IInv, Fresh
  <2> QED
    BY <2>1, <2>2
<1>3. AnswersAreTrue'
  <2> SUFFICES ASSUME NEW q \in Requests \ {r}
               PROVE  AnswerIsTrue(q)'
    BY DEF AnswersAreTrue, AnswerIsTrue
  <2>1. AnswerIsTrue(q)
    BY DEF IInv, AnswersAreTrue, AnswerIsTrue
  <2>2. req' = req /\ answer'[q] = answer[q] /\ trouble'[q] = trouble[q]
    BY DEF OnlyAnswers
  <2>3. Added(q)' <=> Added(q)
    BY <2>2 DEF OthersStay, Added
  <2> QED
    BY <2>1, <2>2, <2>3 DEF AnswerIsTrue
<1> QED
  BY <1>1, <1>2, <1>3 DEF IInv

\* A write that fails before it is executed.
LEMMA NothingWritten ==
  ASSUME IInv, NEW r \in Requests, pc[r] = "read", UNCHANGED <<tables, req, raced>>,
         Reply(r, "failed"),
         \/ UNCHANGED trouble
         \/ trouble' = [trouble EXCEPT ![r] = "failed"]
  PROVE  IInv'
<1>1. /\ Grounded(req[r]) /\ NoRowOf(r)
      /\ req[r].kind \in Adds => answer[r] = "none"
  BY DEF IInv, Fresh, HeldHolds
<1>2. OnlyAnswers(r) /\ (answer[r] = "none" => answer'[r] = "failed")
  BY FailureAnswers DEF IInv
<1>3. TypeOK'
  BY <1>2 DEF IInv, TypeOK, tables, OnlyAnswers
<1>4. TiesStay
  BY DEF TiesStay, tables
<1>5. OthersStay(r)
  BY DEF OthersStay, tables
<1>6. OneClient'
  BY <1>2, <1>4, OrdersAgreeStays, JobsAgreeStays, PaymentsAgreeStays, GoodsAgreeStays DEF IInv, OneClient, tables
<1>7. ClosedByDone'
  BY ClosedStays DEF IInv, tables
<1>8. AnswerIsTrue(r)'
  BY <1>1, <1>2 DEF AnswerIsTrue, Added, NoRowOf, tables
<1>9. Current'
  BY <1>2, CurrentStays DEF tables
<1> QED
  BY <1>2, <1>3, <1>4, <1>5, <1>6, <1>7, <1>8, <1>9, WriteIInv

---------------------------------------------------------------------------
(* Every write puts one row at one key. *)

LEMMA InsertClientIInv ==
  ASSUME IInv, NEW r \in Requests, InsertClient(r)
  PROVE  IInv'
<1> DEFINE key == r
<1> DEFINE row == "ACTIVE"
<1>1. /\ r \in Ids /\ pc[r] = "read" /\ req[r].kind = "addClient" /\ Grounded(req[r])
      /\ NoRowOf(r) /\ UNCHANGED req /\ Saved(r)
      /\ answer[r] = "none"
  BY DEF InsertClient, Writes, IInv, Fresh, HeldHolds, Ids, Adds
<1>2. /\ OnlyAnswers(r)
      /\ answer[r] = "none" => answer'[r] = "redirect" \/ (answer'[r] = "failed" /\ trouble'[r] = "lost")
  BY <1>1, SavedAnswers DEF IInv
<1>3. key \in Ids /\ row \in Status /\ NoRow \notin Ids \cup Status
  <2>1. req[r] \in Held
    BY DEF IInv, TypeOK
  <2> QED
    BY <1>1, <2>1, RecordsAssumption DEF Held, Grounded, OwnedBy, Exists, Status
<1>4. IsPut(clients, clients', Status, key, row)
  BY <1>3, PutRow DEF InsertClient, IInv, TypeOK
<1>5. TypeOK'
  BY <1>2, <1>4 DEF InsertClient, IInv, TypeOK, IsPut, OnlyAnswers
<1>6. TiesStay /\ OthersStay(r)
  BY <1>1, <1>3, <1>4 DEF InsertClient, NoRowOf, TiesStay, OthersStay, IsPut, Ids
<1>7. OneClient'
  <2>1. OrdersAgree'
    BY <1>2, <1>6, OrdersAgreeStays DEF InsertClient, IInv, OneClient
  <2>2. JobsAgree'
    BY <1>6, JobsAgreeStays DEF InsertClient, IInv, OneClient
  <2>3. PaymentsAgree'
    BY <1>6, PaymentsAgreeStays DEF InsertClient, IInv, OneClient
  <2>4. GoodsAgree'
    BY <1>6, GoodsAgreeStays DEF InsertClient, IInv, OneClient
  <2> QED
    BY <2>1, <2>2, <2>3, <2>4 DEF OneClient
<1>8. ClosedByDone'
  BY <1>1, ClosedStays DEF InsertClient, IInv
<1>9. AnswerIsTrue(r)'
  <2>1. clients'[r] # NoRow
    BY <1>3, <1>4 DEF IsPut
  <2> QED
    BY <1>1, <1>2, <2>1 DEF AnswerIsTrue, Added
<1>10. Current'
  BY <1>2, CurrentStays DEF InsertClient
<1> QED
  BY <1>2, <1>5, <1>6, <1>7, <1>8, <1>9, <1>10, WriteIInv

LEMMA InsertAddressIInv ==
  ASSUME IInv, NEW r \in Requests, InsertAddress(r)
  PROVE  IInv'
<1>0. CASE ~(Exists(clients, r))
  BY <1>0, NothingWritten DEF InsertAddress, Writes, tables
<1> SUFFICES ASSUME Exists(clients, r) PROVE IInv'
  BY <1>0
<1> DEFINE key == r
<1> DEFINE row == [client |-> req[r].client, status |-> "ACTIVE"]
<1>1. /\ r \in Ids /\ pc[r] = "read" /\ req[r].kind = "addAddress" /\ Grounded(req[r])
      /\ NoRowOf(r) /\ UNCHANGED req /\ Saved(r)
      /\ answer[r] = "none"
  BY DEF InsertAddress, Writes, IInv, Fresh, HeldHolds, Ids, Adds
<1>2. /\ OnlyAnswers(r)
      /\ answer[r] = "none" => answer'[r] = "redirect" \/ (answer'[r] = "failed" /\ trouble'[r] = "lost")
  BY <1>1, SavedAnswers DEF IInv
<1>3. key \in Ids /\ row \in OwnedRow /\ NoRow \notin Ids \cup OwnedRow
  <2>1. req[r] \in Held
    BY DEF IInv, TypeOK
  <2> QED
    BY <1>1, <2>1, RecordsAssumption DEF Held, Grounded, OwnedBy, Exists, OwnedRow, Status
<1>4. IsPut(addresses, addresses', OwnedRow, key, row)
  BY <1>3, PutRow DEF InsertAddress, IInv, TypeOK
<1>5. TypeOK'
  BY <1>2, <1>4 DEF InsertAddress, IInv, TypeOK, IsPut, OnlyAnswers
<1>6. TiesStay /\ OthersStay(r)
  BY <1>1, <1>3, <1>4 DEF InsertAddress, NoRowOf, TiesStay, OthersStay, IsPut, Ids
<1>7. OneClient'
  <2>1. OrdersAgree'
    BY <1>2, <1>6, OrdersAgreeStays DEF InsertAddress, IInv, OneClient
  <2>2. JobsAgree'
    BY <1>6, JobsAgreeStays DEF InsertAddress, IInv, OneClient
  <2>3. PaymentsAgree'
    BY <1>6, PaymentsAgreeStays DEF InsertAddress, IInv, OneClient
  <2>4. GoodsAgree'
    BY <1>6, GoodsAgreeStays DEF InsertAddress, IInv, OneClient
  <2> QED
    BY <2>1, <2>2, <2>3, <2>4 DEF OneClient
<1>8. ClosedByDone'
  BY <1>1, ClosedStays DEF InsertAddress, IInv
<1>9. AnswerIsTrue(r)'
  <2>1. addresses'[r] # NoRow
    BY <1>3, <1>4 DEF IsPut
  <2> QED
    BY <1>1, <1>2, <2>1 DEF AnswerIsTrue, Added
<1>10. Current'
  BY <1>1, <1>2, <1>4, CurrentStays DEF InsertAddress, IsPut, NoRowOf
<1> QED
  BY <1>2, <1>5, <1>6, <1>7, <1>8, <1>9, <1>10, WriteIInv

LEMMA InsertAssetIInv ==
  ASSUME IInv, NEW r \in Requests, InsertAsset(r)
  PROVE  IInv'
<1> DEFINE key == r
<1> DEFINE row == [client |-> req[r].client, status |-> "ACTIVE"]
<1>1. /\ r \in Ids /\ pc[r] = "read" /\ req[r].kind = "addAsset" /\ Grounded(req[r])
      /\ NoRowOf(r) /\ UNCHANGED req /\ Saved(r)
      /\ answer[r] = "none"
  BY DEF InsertAsset, Writes, IInv, Fresh, HeldHolds, Ids, Adds
<1>2. /\ OnlyAnswers(r)
      /\ answer[r] = "none" => answer'[r] = "redirect" \/ (answer'[r] = "failed" /\ trouble'[r] = "lost")
  BY <1>1, SavedAnswers DEF IInv
<1>3. key \in Ids /\ row \in OwnedRow /\ NoRow \notin Ids \cup OwnedRow
  <2>1. req[r] \in Held
    BY DEF IInv, TypeOK
  <2> QED
    BY <1>1, <2>1, RecordsAssumption DEF Held, Grounded, OwnedBy, Exists, OwnedRow, Status
<1>4. IsPut(assets, assets', OwnedRow, key, row)
  BY <1>3, PutRow DEF InsertAsset, IInv, TypeOK
<1>5. TypeOK'
  BY <1>2, <1>4 DEF InsertAsset, IInv, TypeOK, IsPut, OnlyAnswers
<1>6. TiesStay /\ OthersStay(r)
  BY <1>1, <1>3, <1>4 DEF InsertAsset, NoRowOf, TiesStay, OthersStay, IsPut, Ids
<1>7. OneClient'
  <2>1. OrdersAgree'
    BY <1>2, <1>6, OrdersAgreeStays DEF InsertAsset, IInv, OneClient
  <2>2. JobsAgree'
    BY <1>6, JobsAgreeStays DEF InsertAsset, IInv, OneClient
  <2>3. PaymentsAgree'
    BY <1>6, PaymentsAgreeStays DEF InsertAsset, IInv, OneClient
  <2>4. GoodsAgree'
    BY <1>6, GoodsAgreeStays DEF InsertAsset, IInv, OneClient
  <2> QED
    BY <2>1, <2>2, <2>3, <2>4 DEF OneClient
<1>8. ClosedByDone'
  BY <1>1, ClosedStays DEF InsertAsset, IInv
<1>9. AnswerIsTrue(r)'
  <2>1. assets'[r] # NoRow
    BY <1>3, <1>4 DEF IsPut
  <2> QED
    BY <1>1, <1>2, <2>1 DEF AnswerIsTrue, Added
<1>10. Current'
  BY <1>1, <1>2, <1>4, CurrentStays DEF InsertAsset, IsPut, NoRowOf
<1> QED
  BY <1>2, <1>5, <1>6, <1>7, <1>8, <1>9, <1>10, WriteIInv

LEMMA InsertOrderIInv ==
  ASSUME IInv, NEW r \in Requests, InsertOrder(r)
  PROVE  IInv'
<1> DEFINE key == r
<1> DEFINE row == [client |-> req[r].client, address |-> req[r].ref,
                        status |-> "OPEN", closed |-> r]
<1>1. /\ r \in Ids /\ pc[r] = "read" /\ req[r].kind = "addOrder" /\ Grounded(req[r])
      /\ NoRowOf(r) /\ UNCHANGED req /\ Saved(r)
      /\ answer[r] = "none"
  BY DEF InsertOrder, Writes, IInv, Fresh, HeldHolds, Ids, Adds
<1>2. /\ OnlyAnswers(r)
      /\ answer[r] = "none" => answer'[r] = "redirect" \/ (answer'[r] = "failed" /\ trouble'[r] = "lost")
  BY <1>1, SavedAnswers DEF IInv
<1>3. key \in Ids /\ row \in OrderRow /\ NoRow \notin Ids \cup OrderRow
  <2>1. req[r] \in Held
    BY DEF IInv, TypeOK
  <2> QED
    BY <1>1, <2>1, RecordsAssumption DEF Held, Grounded, OwnedBy, Exists, OrderRow, Stored
<1>4. IsPut(orders, orders', OrderRow, key, row)
  BY <1>3, PutRow DEF InsertOrder, IInv, TypeOK
<1>5. TypeOK'
  BY <1>2, <1>4 DEF InsertOrder, IInv, TypeOK, IsPut, OnlyAnswers
<1>6. TiesStay /\ OthersStay(r)
  BY <1>1, <1>3, <1>4 DEF InsertOrder, NoRowOf, TiesStay, OthersStay, IsPut, Ids
<1>7. OneClient'
  <2>1. OrdersAgree'
    <3>1. addresses[row.address].client = row.client /\ Exists(clients, row.client) /\ Exists(addresses, row.address)
      BY <1>1 DEF Grounded, OwnedBy
    <3>2. UNCHANGED <<clients, addresses>>
      BY DEF InsertOrder
    <3> QED
      BY <1>2, <1>3, <1>4, <3>1, <3>2, PutOrderAgrees DEF IInv, OneClient
  <2>2. JobsAgree'
    BY <1>6, JobsAgreeStays DEF InsertOrder, IInv, OneClient
  <2>3. PaymentsAgree'
    BY <1>6, PaymentsAgreeStays DEF InsertOrder, IInv, OneClient
  <2>4. GoodsAgree'
    BY <1>6, GoodsAgreeStays DEF InsertOrder, IInv, OneClient
  <2> QED
    BY <2>1, <2>2, <2>3, <2>4 DEF OneClient
<1>8. ClosedByDone'
  BY <1>1, <1>3, <1>4 DEF IInv, ClosedByDone, IsPut, Grounded, Exists, Stored, Stamps
<1>9. AnswerIsTrue(r)'
  <2>1. orders'[r] # NoRow
    BY <1>3, <1>4 DEF IsPut
  <2> QED
    BY <1>1, <1>2, <2>1 DEF AnswerIsTrue, Added
<1>10. Current'
  BY <1>2, CurrentStays DEF InsertOrder
<1> QED
  BY <1>2, <1>5, <1>6, <1>7, <1>8, <1>9, <1>10, WriteIInv

LEMMA InsertJobIInv ==
  ASSUME IInv, NEW r \in Requests, InsertJob(r)
  PROVE  IInv'
<1> DEFINE key == r
<1> DEFINE row == [order |-> req[r].row, client |-> req[r].client, asset |-> req[r].ref]
<1>1. /\ r \in Ids /\ pc[r] = "read" /\ req[r].kind = "addJob" /\ Grounded(req[r])
      /\ NoRowOf(r) /\ UNCHANGED req /\ Saved(r)
      /\ answer[r] = "none"
  BY DEF InsertJob, Writes, IInv, Fresh, HeldHolds, Ids, Adds
<1>2. /\ OnlyAnswers(r)
      /\ answer[r] = "none" => answer'[r] = "redirect" \/ (answer'[r] = "failed" /\ trouble'[r] = "lost")
  BY <1>1, SavedAnswers DEF IInv
<1>3. key \in Ids /\ row \in JobRow /\ NoRow \notin Ids \cup JobRow
  <2>1. req[r] \in Held
    BY DEF IInv, TypeOK
  <2>2. req[r].row \in Ids /\ req[r].client \in Ids
    <3>1. OwnedBy(orders, req[r].row, req[r].client)
      BY <1>1 DEF Grounded
    <3>2. req[r].row \in Ids /\ orders[req[r].row] \in OrderRow
      BY <3>1 DEF IInv, TypeOK, OwnedBy, Exists
    <3> QED
      BY <3>1, <3>2 DEF OwnedBy, OrderRow
  <2> QED
    BY <1>1, <2>1, <2>2, RecordsAssumption DEF Held, Grounded, OwnedBy, Exists, JobRow
<1>4. IsPut(jobs, jobs', JobRow, key, row)
  BY <1>3, PutRow DEF InsertJob, IInv, TypeOK
<1>5. TypeOK'
  BY <1>2, <1>4 DEF InsertJob, IInv, TypeOK, IsPut, OnlyAnswers
<1>6. TiesStay /\ OthersStay(r)
  BY <1>1, <1>3, <1>4 DEF InsertJob, NoRowOf, TiesStay, OthersStay, IsPut, Ids
<1>7. OneClient'
  <2>1. OrdersAgree'
    BY <1>2, <1>6, OrdersAgreeStays DEF InsertJob, IInv, OneClient
  <2>2. JobsAgree'
    BY <1>1, <1>3, <1>4, <1>6 DEF InsertJob, IInv, OneClient, JobsAgree, Grounded, OwnedBy, Exists, IsPut, TiesStay
  <2>3. PaymentsAgree'
    BY <1>6, PaymentsAgreeStays DEF InsertJob, IInv, OneClient
  <2>4. GoodsAgree'
    BY <1>6, GoodsAgreeStays DEF InsertJob, IInv, OneClient
  <2> QED
    BY <2>1, <2>2, <2>3, <2>4 DEF OneClient
<1>8. ClosedByDone'
  BY <1>1, ClosedStays DEF InsertJob, IInv
<1>9. AnswerIsTrue(r)'
  <2>1. jobs'[r] # NoRow
    BY <1>3, <1>4 DEF IsPut
  <2> QED
    BY <1>1, <1>2, <2>1 DEF AnswerIsTrue, Added
<1>10. Current'
  BY <1>2, CurrentStays DEF InsertJob
<1> QED
  BY <1>2, <1>5, <1>6, <1>7, <1>8, <1>9, <1>10, WriteIInv

LEMMA InsertPaymentIInv ==
  ASSUME IInv, NEW r \in Requests, InsertPayment(r)
  PROVE  IInv'
<1> DEFINE key == r
<1> DEFINE row == [order |-> req[r].row, client |-> req[r].client]
<1>1. /\ r \in Ids /\ pc[r] = "read" /\ req[r].kind = "pay" /\ Grounded(req[r])
      /\ NoRowOf(r) /\ UNCHANGED req /\ Saved(r)
      /\ answer[r] = "none"
  BY DEF InsertPayment, Writes, IInv, Fresh, HeldHolds, Ids, Adds
<1>2. /\ OnlyAnswers(r)
      /\ answer[r] = "none" => answer'[r] = "redirect" \/ (answer'[r] = "failed" /\ trouble'[r] = "lost")
  BY <1>1, SavedAnswers DEF IInv
<1>3. key \in Ids /\ row \in PaymentRow /\ NoRow \notin Ids \cup PaymentRow
  <2>1. req[r] \in Held
    BY DEF IInv, TypeOK
  <2>2. req[r].row \in Ids /\ req[r].client \in Ids
    <3>1. OwnedBy(orders, req[r].row, req[r].client)
      BY <1>1 DEF Grounded
    <3>2. req[r].row \in Ids /\ orders[req[r].row] \in OrderRow
      BY <3>1 DEF IInv, TypeOK, OwnedBy, Exists
    <3> QED
      BY <3>1, <3>2 DEF OwnedBy, OrderRow
  <2> QED
    BY <1>1, <2>1, <2>2, RecordsAssumption DEF Held, Grounded, OwnedBy, Exists, PaymentRow
<1>4. IsPut(payments, payments', PaymentRow, key, row)
  BY <1>3, PutRow DEF InsertPayment, IInv, TypeOK
<1>5. TypeOK'
  BY <1>2, <1>4 DEF InsertPayment, IInv, TypeOK, IsPut, OnlyAnswers
<1>6. TiesStay /\ OthersStay(r)
  BY <1>1, <1>3, <1>4 DEF InsertPayment, NoRowOf, TiesStay, OthersStay, IsPut, Ids
<1>7. OneClient'
  <2>1. OrdersAgree'
    BY <1>2, <1>6, OrdersAgreeStays DEF InsertPayment, IInv, OneClient
  <2>2. JobsAgree'
    BY <1>6, JobsAgreeStays DEF InsertPayment, IInv, OneClient
  <2>3. PaymentsAgree'
    BY <1>1, <1>3, <1>4, <1>6 DEF InsertPayment, IInv, OneClient, PaymentsAgree, Grounded, OwnedBy, Exists, IsPut, TiesStay
  <2>4. GoodsAgree'
    BY <1>6, GoodsAgreeStays DEF InsertPayment, IInv, OneClient
  <2> QED
    BY <2>1, <2>2, <2>3, <2>4 DEF OneClient
<1>8. ClosedByDone'
  BY <1>1, ClosedStays DEF InsertPayment, IInv
<1>9. AnswerIsTrue(r)'
  <2>1. payments'[r] # NoRow
    BY <1>3, <1>4 DEF IsPut
  <2> QED
    BY <1>1, <1>2, <2>1 DEF AnswerIsTrue, Added
<1>10. Current'
  BY <1>2, CurrentStays DEF InsertPayment
<1> QED
  BY <1>2, <1>5, <1>6, <1>7, <1>8, <1>9, <1>10, WriteIInv

LEMMA InsertGoodIInv ==
  ASSUME IInv, NEW r \in Requests, InsertGood(r)
  PROVE  IInv'
<1> DEFINE key == r
<1> DEFINE row == [job |-> req[r].row, owner |-> req[r].client, status |-> req[r].status]
<1>1. /\ r \in Ids /\ pc[r] = "read" /\ req[r].kind = "addGood" /\ Grounded(req[r])
      /\ NoRowOf(r) /\ UNCHANGED req /\ Saved(r)
      /\ answer[r] = "none"
  BY DEF InsertGood, Writes, IInv, Fresh, HeldHolds, Ids, Adds
<1>2. /\ OnlyAnswers(r)
      /\ answer[r] = "none" => answer'[r] = "redirect" \/ (answer'[r] = "failed" /\ trouble'[r] = "lost")
  BY <1>1, SavedAnswers DEF IInv
<1>3. key \in Ids /\ row \in GoodRow /\ NoRow \notin Ids \cup GoodRow
  <2>1. req[r] \in Held
    BY DEF IInv, TypeOK
  <2>2. req[r].row \in Ids /\ req[r].client \in Ids
    <3>1. OwnedBy(jobs, req[r].row, req[r].client)
      BY <1>1 DEF Grounded
    <3>2. req[r].row \in Ids /\ jobs[req[r].row] \in JobRow
      BY <3>1 DEF IInv, TypeOK, OwnedBy, Exists
    <3> QED
      BY <3>1, <3>2 DEF OwnedBy, JobRow
  <2> QED
    BY <1>1, <2>1, <2>2, RecordsAssumption DEF Held, Grounded, OwnedBy, Exists, GoodRow, GoodStatus
<1>4. IsPut(goods, goods', GoodRow, key, row)
  BY <1>3, PutRow DEF InsertGood, IInv, TypeOK
<1>5. TypeOK'
  BY <1>2, <1>4 DEF InsertGood, IInv, TypeOK, IsPut, OnlyAnswers
<1>6. TiesStay /\ OthersStay(r)
  BY <1>1, <1>3, <1>4 DEF InsertGood, NoRowOf, TiesStay, OthersStay, IsPut, Ids
<1>7. OneClient'
  <2>1. OrdersAgree'
    BY <1>2, <1>6, OrdersAgreeStays DEF InsertGood, IInv, OneClient
  <2>2. JobsAgree'
    BY <1>6, JobsAgreeStays DEF InsertGood, IInv, OneClient
  <2>3. PaymentsAgree'
    BY <1>6, PaymentsAgreeStays DEF InsertGood, IInv, OneClient
  <2>4. GoodsAgree'
    BY <1>1, <1>3, <1>4, <1>6 DEF InsertGood, IInv, OneClient, GoodsAgree, Grounded, OwnedBy, Exists, IsPut, TiesStay
  <2> QED
    BY <2>1, <2>2, <2>3, <2>4 DEF OneClient
<1>8. ClosedByDone'
  BY <1>1, ClosedStays DEF InsertGood, IInv
<1>9. AnswerIsTrue(r)'
  <2>1. goods'[r] # NoRow
    BY <1>3, <1>4 DEF IsPut
  <2> QED
    BY <1>1, <1>2, <2>1 DEF AnswerIsTrue, Added
<1>10. Current'
  BY <1>2, CurrentStays DEF InsertGood
<1> QED
  BY <1>2, <1>5, <1>6, <1>7, <1>8, <1>9, <1>10, WriteIInv

LEMMA UpdateClientIInv ==
  ASSUME IInv, NEW r \in Requests, UpdateClient(r)
  PROVE  IInv'
<1> DEFINE key == req[r].row
<1> DEFINE row == req[r].status
<1>1. /\ r \in Ids /\ pc[r] = "read" /\ req[r].kind = "editClient" /\ Grounded(req[r])
      /\ NoRowOf(r) /\ UNCHANGED req /\ Saved(r)
  BY DEF UpdateClient, Writes, IInv, Fresh, HeldHolds, Ids, Adds
<1>2. /\ OnlyAnswers(r)
      /\ answer[r] = "none" => answer'[r] = "redirect" \/ (answer'[r] = "failed" /\ trouble'[r] = "lost")
  BY <1>1, SavedAnswers DEF IInv
<1>3. key \in Ids /\ row \in Status /\ NoRow \notin Ids \cup Status
  <2>1. req[r] \in Held
    BY DEF IInv, TypeOK
  <2>2. key \in Ids /\ clients[key] # NoRow /\ clients[key] \in Status
    BY <1>1 DEF IInv, TypeOK, Grounded, Exists
  <2> QED
    BY <1>1, <2>1, <2>2, RecordsAssumption DEF Held, Grounded, OwnedBy, Exists, Status
<1>4. IsPut(clients, clients', Status, key, row)
  BY <1>3, PutRow DEF UpdateClient, IInv, TypeOK
<1>5. TypeOK'
  BY <1>2, <1>4 DEF UpdateClient, IInv, TypeOK, IsPut, OnlyAnswers
<1>6. TiesStay /\ OthersStay(r)
  <2>1. clients[key] # NoRow
    BY <1>1 DEF Grounded, Exists
  <2> QED
    BY <2>1, <1>3, <1>4 DEF UpdateClient, TiesStay, OthersStay, IsPut, Ids
<1>7. OneClient'
  <2>1. OrdersAgree'
    BY <1>2, <1>6, OrdersAgreeStays DEF UpdateClient, IInv, OneClient
  <2>2. JobsAgree'
    BY <1>6, JobsAgreeStays DEF UpdateClient, IInv, OneClient
  <2>3. PaymentsAgree'
    BY <1>6, PaymentsAgreeStays DEF UpdateClient, IInv, OneClient
  <2>4. GoodsAgree'
    BY <1>6, GoodsAgreeStays DEF UpdateClient, IInv, OneClient
  <2> QED
    BY <2>1, <2>2, <2>3, <2>4 DEF OneClient
<1>8. ClosedByDone'
  BY <1>1, ClosedStays DEF UpdateClient, IInv
<1>9. AnswerIsTrue(r)'
  BY <1>1 DEF AnswerIsTrue, Adds
<1>10. Current'
  BY <1>2, CurrentStays DEF UpdateClient
<1> QED
  BY <1>2, <1>5, <1>6, <1>7, <1>8, <1>9, <1>10, WriteIInv

LEMMA UpdateAddressIInv ==
  ASSUME IInv, NEW r \in Requests, UpdateAddress(r)
  PROVE  IInv'
<1> DEFINE key == req[r].row
<1> DEFINE row == [client |-> addresses[key].client, status |-> req[r].status]
<1>1. /\ r \in Ids /\ pc[r] = "read" /\ req[r].kind = "editAddress" /\ Grounded(req[r])
      /\ NoRowOf(r) /\ UNCHANGED req /\ Saved(r)
  BY DEF UpdateAddress, Writes, IInv, Fresh, HeldHolds, Ids, Adds
<1>2. /\ OnlyAnswers(r)
      /\ answer[r] = "none" => answer'[r] = "redirect" \/ (answer'[r] = "failed" /\ trouble'[r] = "lost")
  BY <1>1, SavedAnswers DEF IInv
<1>3. key \in Ids /\ row \in OwnedRow /\ NoRow \notin Ids \cup OwnedRow
  <2>1. req[r] \in Held
    BY DEF IInv, TypeOK
  <2>2. key \in Ids /\ addresses[key] # NoRow /\ addresses[key] \in OwnedRow
    BY <1>1 DEF IInv, TypeOK, Grounded, Exists
  <2> QED
    BY <1>1, <2>1, <2>2, RecordsAssumption DEF Held, Grounded, OwnedBy, Exists, OwnedRow, Status
<1>4. IsPut(addresses, addresses', OwnedRow, key, row)
  <2>1. addresses \in [Ids -> OwnedRow \cup {NoRow}] /\ addresses[key] \in OwnedRow
    BY <1>1 DEF IInv, TypeOK, Grounded, Exists
  <2>2. addresses' = [addresses EXCEPT ![key] = row]
    <3>1. [addresses[key] EXCEPT !.status = req[r].status] = row
      BY <2>1 DEF OwnedRow
    <3>2. addresses' = [addresses EXCEPT ![key] = [addresses[key] EXCEPT !.status = req[r].status]]
      BY DEF UpdateAddress
    <3> QED
      BY <3>1, <3>2
  <2> QED
    BY <1>3, <2>1, <2>2, PutRow
<1>5. TypeOK'
  BY <1>2, <1>4 DEF UpdateAddress, IInv, TypeOK, IsPut, OnlyAnswers, Overtakes
<1>6. TiesStay /\ OthersStay(r)
  <2>1. addresses[key] # NoRow
    BY <1>1 DEF Grounded, Exists
  <2> QED
    BY <2>1, <1>3, <1>4 DEF UpdateAddress, TiesStay, OthersStay, IsPut, Ids
<1>7. OneClient'
  <2>1. OrdersAgree'
    BY <1>2, <1>6, OrdersAgreeStays DEF UpdateAddress, IInv, OneClient
  <2>2. JobsAgree'
    BY <1>6, JobsAgreeStays DEF UpdateAddress, IInv, OneClient
  <2>3. PaymentsAgree'
    BY <1>6, PaymentsAgreeStays DEF UpdateAddress, IInv, OneClient
  <2>4. GoodsAgree'
    BY <1>6, GoodsAgreeStays DEF UpdateAddress, IInv, OneClient
  <2> QED
    BY <2>1, <2>2, <2>3, <2>4 DEF OneClient
<1>8. ClosedByDone'
  BY <1>1, ClosedStays DEF UpdateAddress, IInv
<1>9. AnswerIsTrue(r)'
  BY <1>1 DEF AnswerIsTrue, Adds
<1>10. Current'
  BY <1>2, OvertakenAreRaced DEF UpdateAddress, IInv
<1> QED
  BY <1>2, <1>5, <1>6, <1>7, <1>8, <1>9, <1>10, WriteIInv

LEMMA UpdateAssetIInv ==
  ASSUME IInv, NEW r \in Requests, UpdateAsset(r)
  PROVE  IInv'
<1> DEFINE key == req[r].row
<1> DEFINE row == [client |-> assets[key].client, status |-> req[r].status]
<1>1. /\ r \in Ids /\ pc[r] = "read" /\ req[r].kind = "editAsset" /\ Grounded(req[r])
      /\ NoRowOf(r) /\ UNCHANGED req /\ Saved(r)
  BY DEF UpdateAsset, Writes, IInv, Fresh, HeldHolds, Ids, Adds
<1>2. /\ OnlyAnswers(r)
      /\ answer[r] = "none" => answer'[r] = "redirect" \/ (answer'[r] = "failed" /\ trouble'[r] = "lost")
  BY <1>1, SavedAnswers DEF IInv
<1>3. key \in Ids /\ row \in OwnedRow /\ NoRow \notin Ids \cup OwnedRow
  <2>1. req[r] \in Held
    BY DEF IInv, TypeOK
  <2>2. key \in Ids /\ assets[key] # NoRow /\ assets[key] \in OwnedRow
    BY <1>1 DEF IInv, TypeOK, Grounded, Exists
  <2> QED
    BY <1>1, <2>1, <2>2, RecordsAssumption DEF Held, Grounded, OwnedBy, Exists, OwnedRow, Status
<1>4. IsPut(assets, assets', OwnedRow, key, row)
  <2>1. assets \in [Ids -> OwnedRow \cup {NoRow}] /\ assets[key] \in OwnedRow
    BY <1>1 DEF IInv, TypeOK, Grounded, Exists
  <2>2. assets' = [assets EXCEPT ![key] = row]
    <3>1. [assets[key] EXCEPT !.status = req[r].status] = row
      BY <2>1 DEF OwnedRow
    <3>2. assets' = [assets EXCEPT ![key] = [assets[key] EXCEPT !.status = req[r].status]]
      BY DEF UpdateAsset
    <3> QED
      BY <3>1, <3>2
  <2> QED
    BY <1>3, <2>1, <2>2, PutRow
<1>5. TypeOK'
  BY <1>2, <1>4 DEF UpdateAsset, IInv, TypeOK, IsPut, OnlyAnswers, Overtakes
<1>6. TiesStay /\ OthersStay(r)
  <2>1. assets[key] # NoRow
    BY <1>1 DEF Grounded, Exists
  <2> QED
    BY <2>1, <1>3, <1>4 DEF UpdateAsset, TiesStay, OthersStay, IsPut, Ids
<1>7. OneClient'
  <2>1. OrdersAgree'
    BY <1>2, <1>6, OrdersAgreeStays DEF UpdateAsset, IInv, OneClient
  <2>2. JobsAgree'
    BY <1>6, JobsAgreeStays DEF UpdateAsset, IInv, OneClient
  <2>3. PaymentsAgree'
    BY <1>6, PaymentsAgreeStays DEF UpdateAsset, IInv, OneClient
  <2>4. GoodsAgree'
    BY <1>6, GoodsAgreeStays DEF UpdateAsset, IInv, OneClient
  <2> QED
    BY <2>1, <2>2, <2>3, <2>4 DEF OneClient
<1>8. ClosedByDone'
  BY <1>1, ClosedStays DEF UpdateAsset, IInv
<1>9. AnswerIsTrue(r)'
  BY <1>1 DEF AnswerIsTrue, Adds
<1>10. Current'
  BY <1>2, OvertakenAreRaced DEF UpdateAsset, IInv
<1> QED
  BY <1>2, <1>5, <1>6, <1>7, <1>8, <1>9, <1>10, WriteIInv

LEMMA UpdateOrderIInv ==
  ASSUME IInv, NEW r \in Requests, UpdateOrder(r)
  PROVE  IInv'
<1>0. CASE ~(Exists(addresses, req[r].ref))
  BY <1>0, NothingWritten DEF UpdateOrder, Writes, tables
<1> SUFFICES ASSUME Exists(addresses, req[r].ref) PROVE IInv'
  BY <1>0
<1> DEFINE key == req[r].row
<1> DEFINE row == [client |-> orders[key].client, address |-> req[r].ref,
                        status |-> Stored[req[r].status],
                        closed |-> IF Stamps(r) THEN r ELSE orders[key].closed]
<1>1. /\ r \in Ids /\ pc[r] = "read" /\ req[r].kind = "editOrder" /\ Grounded(req[r])
      /\ NoRowOf(r) /\ UNCHANGED req /\ Saved(r)
  BY DEF UpdateOrder, Writes, IInv, Fresh, HeldHolds, Ids, Adds
<1>2. /\ OnlyAnswers(r)
      /\ answer[r] = "none" => answer'[r] = "redirect" \/ (answer'[r] = "failed" /\ trouble'[r] = "lost")
  BY <1>1, SavedAnswers DEF IInv
<1>3. key \in Ids /\ row \in OrderRow /\ NoRow \notin Ids \cup OrderRow
  <2>1. req[r] \in Held
    BY DEF IInv, TypeOK
  <2>2. key \in Ids /\ orders[key] # NoRow /\ orders[key] \in OrderRow
    BY <1>1 DEF IInv, TypeOK, Grounded, Exists
  <2> QED
    BY <1>1, <2>1, <2>2, RecordsAssumption DEF Held, Grounded, OwnedBy, Exists, OrderRow, Stored, Stamps
<1>4. IsPut(orders, orders', OrderRow, key, row)
  <2>1. orders \in [Ids -> OrderRow \cup {NoRow}] /\ orders[key] \in OrderRow
    BY <1>1 DEF IInv, TypeOK, Grounded, Exists
  <2>2. orders' = [orders EXCEPT ![key] = row]
    BY <2>1, <1>3 DEF UpdateOrder, OrderRow
  <2> QED
    BY <1>3, <2>1, <2>2, PutRow
<1>5. TypeOK'
  BY <1>2, <1>4 DEF UpdateOrder, IInv, TypeOK, IsPut, OnlyAnswers
<1>6. TiesStay /\ OthersStay(r)
  <2>1. orders[key] # NoRow
    BY <1>1 DEF Grounded, Exists
  <2> QED
    BY <2>1, <1>3, <1>4 DEF UpdateOrder, TiesStay, OthersStay, IsPut, Ids
<1>7. OneClient'
  <2>1. OrdersAgree'
    <3>1. Exists(clients, row.client) /\ Exists(addresses, row.address)
      BY <1>1 DEF Grounded, Exists, IInv, OneClient, OrdersAgree
    <3>2. UNCHANGED <<clients, addresses>>
      BY DEF UpdateOrder
    <3> QED
      BY <1>1, <1>2, <1>3, <1>4, <3>1, <3>2, PutOrderAgrees DEF IInv, OneClient
  <2>2. JobsAgree'
    BY <1>6, JobsAgreeStays DEF UpdateOrder, IInv, OneClient
  <2>3. PaymentsAgree'
    BY <1>6, PaymentsAgreeStays DEF UpdateOrder, IInv, OneClient
  <2>4. GoodsAgree'
    BY <1>6, GoodsAgreeStays DEF UpdateOrder, IInv, OneClient
  <2> QED
    BY <2>1, <2>2, <2>3, <2>4 DEF OneClient
<1>8. ClosedByDone'
  BY <1>1, <1>3, <1>4 DEF IInv, ClosedByDone, IsPut, Grounded, Exists, Stored, Stamps
<1>9. AnswerIsTrue(r)'
  BY <1>1 DEF AnswerIsTrue, Adds
<1>10. Current'
  BY <1>2, CurrentStays DEF UpdateOrder
<1> QED
  BY <1>2, <1>5, <1>6, <1>7, <1>8, <1>9, <1>10, WriteIInv

LEMMA UpdateGoodIInv ==
  ASSUME IInv, NEW r \in Requests, UpdateGood(r)
  PROVE  IInv'
<1>0. CASE ~(req[r].status \in GoodStatus)
  BY <1>0, NothingWritten DEF UpdateGood, Writes, tables
<1> SUFFICES ASSUME req[r].status \in GoodStatus PROVE IInv'
  BY <1>0
<1> DEFINE key == req[r].row
<1> DEFINE row == [job |-> goods[key].job, owner |-> goods[key].owner, status |-> req[r].status]
<1>1. /\ r \in Ids /\ pc[r] = "read" /\ req[r].kind = "editGood" /\ Grounded(req[r])
      /\ NoRowOf(r) /\ UNCHANGED req /\ Saved(r)
  BY DEF UpdateGood, Writes, IInv, Fresh, HeldHolds, Ids, Adds
<1>2. /\ OnlyAnswers(r)
      /\ answer[r] = "none" => answer'[r] = "redirect" \/ (answer'[r] = "failed" /\ trouble'[r] = "lost")
  BY <1>1, SavedAnswers DEF IInv
<1>3. key \in Ids /\ row \in GoodRow /\ NoRow \notin Ids \cup GoodRow
  <2>1. req[r] \in Held
    BY DEF IInv, TypeOK
  <2>2. key \in Ids /\ goods[key] # NoRow /\ goods[key] \in GoodRow
    BY <1>1 DEF IInv, TypeOK, Grounded, Exists
  <2> QED
    BY <1>1, <2>1, <2>2, RecordsAssumption DEF Held, Grounded, OwnedBy, Exists, GoodRow, GoodStatus
<1>4. IsPut(goods, goods', GoodRow, key, row)
  <2>1. goods \in [Ids -> GoodRow \cup {NoRow}] /\ goods[key] \in GoodRow
    BY <1>1 DEF IInv, TypeOK, Grounded, Exists
  <2>2. goods' = [goods EXCEPT ![key] = row]
    BY <2>1, <1>3 DEF UpdateGood, GoodRow
  <2> QED
    BY <1>3, <2>1, <2>2, PutRow
<1>5. TypeOK'
  BY <1>2, <1>4 DEF UpdateGood, IInv, TypeOK, IsPut, OnlyAnswers
<1>6. TiesStay /\ OthersStay(r)
  <2>1. goods[key] # NoRow
    BY <1>1 DEF Grounded, Exists
  <2> QED
    BY <2>1, <1>3, <1>4 DEF UpdateGood, TiesStay, OthersStay, IsPut, Ids
<1>7. OneClient'
  <2>1. OrdersAgree'
    BY <1>2, <1>6, OrdersAgreeStays DEF UpdateGood, IInv, OneClient
  <2>2. JobsAgree'
    BY <1>6, JobsAgreeStays DEF UpdateGood, IInv, OneClient
  <2>3. PaymentsAgree'
    BY <1>6, PaymentsAgreeStays DEF UpdateGood, IInv, OneClient
  <2>4. GoodsAgree'
    BY <1>1, <1>3, <1>4, <1>6 DEF UpdateGood, IInv, OneClient, GoodsAgree, Grounded, OwnedBy, Exists, IsPut, TiesStay
  <2> QED
    BY <2>1, <2>2, <2>3, <2>4 DEF OneClient
<1>8. ClosedByDone'
  BY <1>1, ClosedStays DEF UpdateGood, IInv
<1>9. AnswerIsTrue(r)'
  BY <1>1 DEF AnswerIsTrue, Adds
<1>10. Current'
  BY <1>2, CurrentStays DEF UpdateGood
<1> QED
  BY <1>2, <1>5, <1>6, <1>7, <1>8, <1>9, <1>10, WriteIInv

---------------------------------------------------------------------------
\* A handler has read what it needs, and goes on or has answered.
LEMMA ReadIInv ==
  ASSUME IInv, NEW r \in Requests, pc[r] = "idle",
         NEW held \in Held, NEW header \in {"none", "refused", "failed"}, NEW next \in {"read", "done"},
         pc' = [pc EXCEPT ![r] = next],
         req' = [req EXCEPT ![r] = held],
         answer' = [answer EXCEPT ![r] = header],
         UNCHANGED <<tables, trouble, raced>>,
         next = "read" => Grounded(held) /\ UpToDate(held) /\ (held.kind \in Adds => header = "none")
  PROVE  IInv'
<1>1. req[r] = Nothing /\ NoRowOf(r)
  BY DEF IInv, Fresh
<1>2. \A q \in Requests \ {r} : pc'[q] = pc[q] /\ req'[q] = req[q] /\ answer'[q] = answer[q]
  BY DEF IInv, TypeOK
<1>3. pc'[r] = next /\ req'[r] = held /\ answer'[r] = header
  BY DEF IInv, TypeOK
<1>4. TypeOK'
  BY DEF IInv, TypeOK, tables
<1>5. Fresh'
  BY <1>1, <1>2, <1>3 DEF IInv, Fresh, NoRowOf, tables
<1>6. HeldHolds'
  <2> SUFFICES ASSUME NEW q \in Requests, pc'[q] = "read"
               PROVE  Grounded(req[q])' /\ (req'[q].kind \in Adds => answer'[q] = "none")
    BY DEF HeldHolds
  <2>1. Grounded(req'[q]) /\ (req'[q].kind \in Adds => answer'[q] = "none")
    BY <1>2, <1>3 DEF IInv, HeldHolds
  <2> QED
    BY <2>1 DEF Grounded, OwnedBy, Exists, tables
<1>7. OneClient'
  <2>1. \A o, a : Posted(o, a) => Posted(o, a)'
    <3>1. Nothing.kind = "none"
      BY DEF Nothing
    <3>2. req[r].kind # "editOrder"
      BY <1>1, <3>1
    <3> QED
      BY <1>2, <3>2 DEF Posted
  <2>2. OrdersAgree'
    BY <2>1 DEF IInv, OneClient, OrdersAgree, Exists, tables
  <2> QED
    BY <2>2 DEF IInv, OneClient, JobsAgree, PaymentsAgree, GoodsAgree, Exists, tables
<1>8. AnswersAreTrue'
  <2> SUFFICES ASSUME NEW q \in Requests
               PROVE  AnswerIsTrue(q)'
    BY DEF AnswersAreTrue, AnswerIsTrue
  <2>1. CASE q = r
    BY <2>1, <1>1, <1>3 DEF AnswerIsTrue, Added, NoRowOf, tables
  <2>2. CASE q # r
    BY <2>2, <1>2 DEF IInv, AnswersAreTrue, AnswerIsTrue, Added, tables
  <2> QED
    BY <2>1, <2>2
<1>9. ClosedByDone'
  <2> SUFFICES ASSUME NEW o \in Ids, orders[o] # NoRow, orders[o].status = "DONE"
               PROVE  \E q \in Requests : /\ orders[o].closed = q
                                          /\ req'[q].kind = "editOrder" /\ req'[q].row = o
                                          /\ req'[q].status = "done"
    BY DEF ClosedByDone, tables
  <2>1. PICK q \in Requests : /\ orders[o].closed = q
                              /\ req[q].kind = "editOrder" /\ req[q].row = o
                              /\ req[q].status = "done"
    BY DEF IInv, ClosedByDone
  <2>2. q # r
    <3>1. Nothing.kind = "none"
      BY DEF Nothing
    <3>2. req[r].kind # "editOrder"
      BY <1>1, <3>1
    <3> QED
      BY <2>1, <3>2
  <2> QED
    BY <1>2, <2>1, <2>2
<1>10. Current'
  <2> SUFFICES ASSUME NEW q \in Requests, pc'[q] = "read", ~raced'[q]
               PROVE  UpToDate(req[q])'
    BY DEF Current
  <2>1. UpToDate(req'[q])
    BY <1>2, <1>3 DEF IInv, Current
  <2> QED
    BY <2>1 DEF UpToDate, tables
<1> QED
  BY <1>4, <1>5, <1>6, <1>7, <1>8, <1>9, <1>10 DEF IInv

LEMMA TakeIInv ==
  ASSUME IInv, NEW r \in Requests, NEW held \in Held, NEW header \in {"none", "failed"},
         Grounded(held), UpToDate(held), held.kind \in Adds => header = "none", Take(r, held, header)
  PROVE  IInv'
  BY ReadIInv DEF Take

LEMMA ReadStep ==
  ASSUME IInv, NEW r \in Requests, Read(r)
  PROVE  IInv'
<1> USE DEF Exists
<1>1. CASE AddClient(r)
  <2> DEFINE held == [Nothing EXCEPT !.kind = "addClient"]
  <2>1. held \in Held /\ held.kind = "addClient"
    BY DEF Held, Nothing, Adds
  <2>2. Grounded(held) /\ UpToDate(held)
    BY <2>1 DEF Grounded, UpToDate
  <2> QED
    BY <1>1, <2>1, <2>2, TakeIInv DEF AddClient
<1>2. CASE EditClient(r)
  <2>1. PICK c \in Ids, s \in Status, header \in {"none", "failed"} :
          /\ Exists(clients, c)
          /\ Take(r, [Nothing EXCEPT !.kind = "editClient", !.row = c, !.status = s], header)
    BY <1>2 DEF EditClient
  <2> DEFINE held == [Nothing EXCEPT !.kind = "editClient", !.row = c, !.status = s]
  <2>2. held \in Held /\ held.kind = "editClient" /\ held.row = c /\ held.status = s
    BY DEF Held, Nothing, Edits
  <2>3. Grounded(held) /\ UpToDate(held) /\ held.kind \notin Adds
    BY <2>1, <2>2 DEF Grounded, UpToDate, Adds
  <2> QED
    BY <2>1, <2>2, <2>3, TakeIInv
<1>3. CASE AddAddress(r)
  <2>1. PICK c \in Ids :
          /\ Exists(clients, c)
          /\ Take(r, [Nothing EXCEPT !.kind = "addAddress", !.client = c], "none")
    BY <1>3 DEF AddAddress
  <2> DEFINE held == [Nothing EXCEPT !.kind = "addAddress", !.client = c]
  <2>2. held \in Held /\ held.kind = "addAddress" /\ held.client = c
    BY DEF Held, Nothing, Adds
  <2>3. Grounded(held) /\ UpToDate(held)
    BY <2>1, <2>2 DEF Grounded, UpToDate
  <2> QED
    BY <2>1, <2>2, <2>3, TakeIInv
<1>4. CASE EditAddress(r)
  <2>1. PICK a \in Ids, s \in Status :
          /\ Exists(addresses, a)
          /\ Take(r, [Nothing EXCEPT !.kind = "editAddress", !.row = a, !.status = s], "none")
    BY <1>4 DEF EditAddress
  <2> DEFINE held == [Nothing EXCEPT !.kind = "editAddress", !.row = a, !.status = s]
  <2>2. held \in Held /\ held.kind = "editAddress" /\ held.row = a /\ held.status = s
    BY DEF Held, Nothing, Edits
  <2>3. Grounded(held) /\ UpToDate(held)
    BY <2>1, <2>2 DEF Grounded, UpToDate
  <2> QED
    BY <2>1, <2>2, <2>3, TakeIInv
<1>5. CASE AddAsset(r)
  <2>1. PICK c \in Ids :
          /\ Exists(clients, c)
          /\ Take(r, [Nothing EXCEPT !.kind = "addAsset", !.client = c], "none")
    BY <1>5 DEF AddAsset
  <2> DEFINE held == [Nothing EXCEPT !.kind = "addAsset", !.client = c]
  <2>2. held \in Held /\ held.kind = "addAsset" /\ held.client = c
    BY DEF Held, Nothing, Adds
  <2>3. Grounded(held) /\ UpToDate(held)
    BY <2>1, <2>2 DEF Grounded, UpToDate
  <2> QED
    BY <2>1, <2>2, <2>3, TakeIInv
<1>6. CASE EditAsset(r)
  <2>1. PICK a \in Ids, s \in Status :
          /\ Exists(assets, a)
          /\ Take(r, [Nothing EXCEPT !.kind = "editAsset", !.row = a, !.status = s], "none")
    BY <1>6 DEF EditAsset
  <2> DEFINE held == [Nothing EXCEPT !.kind = "editAsset", !.row = a, !.status = s]
  <2>2. held \in Held /\ held.kind = "editAsset" /\ held.row = a /\ held.status = s
    BY DEF Held, Nothing, Edits
  <2>3. Grounded(held) /\ UpToDate(held)
    BY <2>1, <2>2 DEF Grounded, UpToDate
  <2> QED
    BY <2>1, <2>2, <2>3, TakeIInv
<1>7. CASE AddOrder(r)
  <2>1. PICK c \in Ids, a \in Ids :
          /\ Exists(clients, c) /\ a \in Listed(addresses, c)
          /\ Take(r, [Nothing EXCEPT !.kind = "addOrder", !.client = c, !.ref = a], "none")
    BY <1>7 DEF AddOrder
  <2> DEFINE held == [Nothing EXCEPT !.kind = "addOrder", !.client = c, !.ref = a]
  <2>2. held \in Held /\ held.kind = "addOrder" /\ held.client = c /\ held.ref = a
    BY DEF Held, Nothing, Adds
  <2>3. Grounded(held)
    BY <2>1, <2>2 DEF Grounded, OwnedBy, Listed
  <2>4. UpToDate(held)
    <3>1. addresses[a] \in OwnedRow /\ addresses[a].status # "ARCHIVED"
      BY <2>1 DEF Listed, IInv, TypeOK
    <3> QED
      BY <2>2, <3>1 DEF UpToDate, OwnedRow, Status
  <2> QED
    BY <2>1, <2>2, <2>3, <2>4, TakeIInv
<1>8. CASE EditOrder(r)
  <2>1. PICK o \in Ids, s \in DOMAIN Stored, a \in Ids \cup {NoRow} :
          /\ Exists(orders, o)
          /\ Take(r, [Nothing EXCEPT !.kind = "editOrder", !.row = o, !.ref = a, !.status = s], "none")
    BY <1>8 DEF EditOrder
  <2> DEFINE held == [Nothing EXCEPT !.kind = "editOrder", !.row = o, !.ref = a, !.status = s]
  <2>2. held \in Held /\ held.kind = "editOrder" /\ held.row = o /\ held.ref = a /\ held.status = s
    BY DEF Held, Nothing, Edits
  <2>3. Grounded(held) /\ UpToDate(held)
    BY <2>1, <2>2 DEF Grounded, UpToDate, OwnedBy
  <2> QED
    BY <2>1, <2>2, <2>3, TakeIInv
<1>9. CASE AddJob(r)
  <2>1. PICK o \in Ids, a \in Ids :
          /\ Exists(orders, o) /\ a \in Listed(assets, orders[o].client)
          /\ Take(r, [Nothing EXCEPT !.kind = "addJob", !.row = o, !.client = orders[o].client,
                                     !.ref = a], "none")
    BY <1>9 DEF AddJob
  <2> DEFINE held == [Nothing EXCEPT !.kind = "addJob", !.row = o, !.client = orders[o].client,
                                     !.ref = a]
  <2>2. orders[o].client \in Ids
    BY <2>1 DEF IInv, TypeOK, OrderRow
  <2>3. held \in Held /\ held.kind = "addJob" /\ held.row = o /\ held.client = orders[o].client /\ held.ref = a
    BY <2>2 DEF Held, Nothing, Adds
  <2>4. Grounded(held)
    BY <2>1, <2>3 DEF Grounded, OwnedBy, Listed
  <2>5. UpToDate(held)
    <3>1. assets[a] \in OwnedRow /\ assets[a].status # "ARCHIVED"
      BY <2>1 DEF Listed, IInv, TypeOK
    <3> QED
      BY <2>3, <3>1 DEF UpToDate, OwnedRow, Status
  <2> QED
    BY <2>1, <2>3, <2>4, <2>5, TakeIInv
<1>10. CASE Pay(r)
  <2>1. PICK o \in Ids :
          /\ Exists(orders, o)
          /\ Take(r, [Nothing EXCEPT !.kind = "pay", !.row = o, !.client = orders[o].client], "none")
    BY <1>10 DEF Pay
  <2> DEFINE held == [Nothing EXCEPT !.kind = "pay", !.row = o, !.client = orders[o].client]
  <2>2. orders[o].client \in Ids
    BY <2>1 DEF IInv, TypeOK, OrderRow
  <2>3. held \in Held /\ held.kind = "pay" /\ held.row = o /\ held.client = orders[o].client
    BY <2>2 DEF Held, Nothing, Adds
  <2>4. Grounded(held) /\ UpToDate(held)
    BY <2>1, <2>3 DEF Grounded, UpToDate, OwnedBy
  <2> QED
    BY <2>1, <2>3, <2>4, TakeIInv
<1>11. CASE AddGood(r)
  <2>1. PICK j \in Ids, s \in GoodStatus :
          /\ Exists(jobs, j)
          /\ Take(r, [Nothing EXCEPT !.kind = "addGood", !.row = j, !.client = jobs[j].client,
                                     !.status = s], "none")
    BY <1>11 DEF AddGood
  <2> DEFINE held == [Nothing EXCEPT !.kind = "addGood", !.row = j, !.client = jobs[j].client,
                                     !.status = s]
  <2>2. jobs[j].client \in Ids
    BY <2>1 DEF IInv, TypeOK, JobRow
  <2>3. held \in Held /\ held.kind = "addGood" /\ held.row = j /\ held.client = jobs[j].client /\ held.status = s
    BY <2>2 DEF Held, Nothing, Adds
  <2>4. Grounded(held) /\ UpToDate(held)
    BY <2>1, <2>3 DEF Grounded, UpToDate, OwnedBy
  <2> QED
    BY <2>1, <2>3, <2>4, TakeIInv
<1>12. CASE EditGood(r)
  <2>1. PICK g \in Ids, s \in GoodStatus \cup GoodSwitch :
          LET held == [Nothing EXCEPT !.kind = "editGood", !.row = g, !.status = s] IN
          /\ Exists(goods, g)
          /\ \/ Take(r, held, "none")
             \/ /\ pc[r] = "idle"
                /\ pc' = [pc EXCEPT ![r] = "done"]
                /\ req' = [req EXCEPT ![r] = held]
                /\ answer' = [answer EXCEPT ![r] = "refused"]
                /\ UNCHANGED <<tables, trouble, raced>>
    BY <1>12 DEF EditGood
  <2> DEFINE held == [Nothing EXCEPT !.kind = "editGood", !.row = g, !.status = s]
  <2>2. held \in Held /\ held.kind = "editGood" /\ held.row = g
    BY DEF Held, Nothing, Edits
  <2>3. Grounded(held) /\ UpToDate(held) /\ held.kind \notin Adds
    BY <2>1, <2>2 DEF Grounded, UpToDate, Adds
  <2>4. CASE Take(r, held, "none")
    BY <2>2, <2>3, <2>4, TakeIInv
  <2>5. CASE ~Take(r, held, "none")
    BY <2>1, <2>2, <2>5, ReadIInv
  <2> QED
    BY <2>4, <2>5
<1>13. CASE Refuse(r)
  <2>1. req[r] = Nothing /\ pc[r] = "idle"
    BY <1>13 DEF Refuse, IInv, Fresh
  <2>2. Nothing \in Held
    BY DEF Held, Nothing
  <2>3. req' = [req EXCEPT ![r] = Nothing]
    BY <1>13, <2>1 DEF Refuse, IInv, TypeOK
  <2> QED
    BY <1>13, <2>1, <2>2, <2>3, ReadIInv DEF Refuse
<1> QED
  BY <1>1, <1>2, <1>3, <1>4, <1>5, <1>6, <1>7, <1>8, <1>9, <1>10, <1>11, <1>12, <1>13 DEF Read

---------------------------------------------------------------------------
LEMMA InitIInv ==
  ASSUME Init
  PROVE  IInv
<1>1. TypeOK
  <2>1. Seeds \subseteq Ids /\ Old \subseteq Ids /\ "ACTIVE" \in Status /\ "in_use" \in GoodStatus
    BY RecordsAssumption DEF Ids, Status, GoodStatus
  <2>2. clients \in [Ids -> Status \cup {NoRow}]
    BY <2>1 DEF Init
  <2>3. addresses \in [Ids -> OwnedRow \cup {NoRow}]
    BY <2>1 DEF Init, OwnedRow
  <2>4. assets \in [Ids -> OwnedRow \cup {NoRow}]
    BY <2>1 DEF Init, OwnedRow
  <2>5. orders \in [Ids -> OrderRow \cup {NoRow}]
    <3>1. "OPEN" \in {Stored[s] : s \in DOMAIN Stored}
      BY DEF Stored
    <3> QED
      BY <2>1, <3>1 DEF Init, OrderRow
  <2>6. jobs \in [Ids -> JobRow \cup {NoRow}]
    BY <2>1 DEF Init, JobRow
  <2>7. payments \in [Ids -> PaymentRow \cup {NoRow}]
    BY DEF Init
  <2>8. goods \in [Ids -> GoodRow \cup {NoRow}]
    BY <2>1 DEF Init, GoodRow
  <2>9. req \in [Requests -> Held]
    BY DEF Init, Held, Nothing
  <2> QED
    BY <2>2, <2>3, <2>4, <2>5, <2>6, <2>7, <2>8, <2>9 DEF Init, TypeOK
<1>2. Fresh
  BY RecordsAssumption DEF Init, Fresh, NoRowOf, Ids
<1>3. HeldHolds
  BY DEF Init, HeldHolds
<1>4. OneClient
  <2>1. \A o \in Ids : orders[o] # NoRow =>
          /\ o \in Old /\ orders[o].client = o /\ orders[o].address \in Seeds
          /\ addresses[orders[o].address].client = o
    <3> SUFFICES ASSUME NEW o \in Ids, orders[o] # NoRow
                 PROVE  /\ o \in Old /\ orders[o].client = o /\ orders[o].address \in Seeds
                        /\ addresses[orders[o].address].client = o
      OBVIOUS
    <3>1. orders[o] \in [client : Old, address : Seeds, status : {"OPEN"}, closed : Old]
      BY DEF Init
    <3> QED
      BY <3>1 DEF Init
  <2>2. Seeds \subseteq Ids /\ Old \subseteq Seeds /\ NoRow \notin Ids \cup Status \cup OwnedRow \cup OrderRow \cup JobRow
    BY RecordsAssumption DEF Ids
  <2>3. \A c \in Seeds : Exists(clients, c) /\ Exists(addresses, c) /\ Exists(assets, c) /\ assets[c].client = c
    BY <2>2 DEF Init, Exists, Status, OwnedRow
  <2>4. \A o \in Old : Exists(orders, o) /\ orders[o].client = o
    BY <2>2 DEF Init, Exists
  <2>5. \A j \in Old : Exists(jobs, j) /\ jobs[j].client = j
    BY <2>2 DEF Init, Exists, JobRow
  <2>6. OrdersAgree
    BY <2>1, <2>2, <2>3 DEF OrdersAgree
  <2>7. JobsAgree
    BY <2>2, <2>3, <2>4 DEF Init, JobsAgree
  <2>8. PaymentsAgree
    BY DEF Init, PaymentsAgree
  <2>9. GoodsAgree
    BY <2>2, <2>5 DEF Init, GoodsAgree
  <2> QED
    BY <2>6, <2>7, <2>8, <2>9 DEF OneClient
<1>5. AnswersAreTrue
  BY DEF Init, AnswersAreTrue
<1>6. ClosedByDone
  BY DEF Init, ClosedByDone
<1>7. Current
  BY DEF Init, Current
<1> QED
  BY <1>1, <1>2, <1>3, <1>4, <1>5, <1>6, <1>7 DEF IInv

LEMMA StepIInv ==
  ASSUME IInv, [Next]_vars
  PROVE  IInv'
<1>1. CASE UNCHANGED vars
  BY <1>1 DEF vars, tables, IInv, TypeOK, Fresh, NoRowOf, HeldHolds, Grounded, OwnedBy, Current, UpToDate, OneClient,
              OrdersAgree, Posted, JobsAgree, PaymentsAgree, GoodsAgree, AnswersAreTrue, Added,
              ClosedByDone, Exists
<1>2. ASSUME NEW r \in Requests, Write(r)
      PROVE  IInv'
  BY <1>2, InsertClientIInv, UpdateClientIInv, InsertAddressIInv, UpdateAddressIInv,
     InsertAssetIInv, UpdateAssetIInv, InsertOrderIInv, UpdateOrderIInv, InsertJobIInv,
     InsertPaymentIInv, InsertGoodIInv, UpdateGoodIInv DEF Write
<1>3. ASSUME NEW r \in Requests, Fail(r)
      PROVE  IInv'
  BY <1>3, NothingWritten DEF Fail
<1> QED
  BY <1>1, <1>2, <1>3, ReadStep DEF Next, AllDone

\* For any number of requests and clients, what the handlers read and the rows
\* they write keep together.
THEOREM Invariance == Spec => []IInv
<1> QED
  BY InitIInv, StepIInv, PTL DEF Spec

\* The tables and what the handlers hold keep their types.
THEOREM TypeCorrect == Spec => []TypeOK
<1>1. IInv => TypeOK
  BY DEF IInv
<1> QED
  BY <1>1, Invariance, PTL

\* The payments and jobs of an order, and the assets and goods of its jobs, belong
\* to its client, although no foreign key says so (handles/jobs.go:183), whatever
\* is posted. Its address does unless an edit of that order posted another one's
\* (handles/orders.go:202).
THEOREM OneClientAlways == Spec => []OneClient
<1>1. IInv => OneClient
  BY DEF IInv
<1> QED
  BY <1>1, Invariance, PTL

\* Whoever is redirected finds the row; whoever is told of a failure has added
\* nothing, unless a reply was lost.
THEOREM AnswersAreTrueAlways == Spec => []AnswersAreTrue
<1>1. IInv => AnswersAreTrue
  BY DEF IInv
<1> QED
  BY <1>1, Invariance, PTL

\* A done order was closed by an edit to done, in any interleaving of edits.
THEOREM ClosedByDoneAlways == Spec => []ClosedByDone
<1>1. IInv => ClosedByDone
  BY DEF IInv
<1> QED
  BY <1>1, Invariance, PTL

\* A job or an order is added with something archived only if the archiving
\* overtook the request (handles/jobs.go:183, handles/orders.go:150).
THEOREM SoloAdds == Spec => SoloAddsAreCurrent
<1> DEFINE Solo(r) ==
      ~raced[r] =>
        /\ jobs[r] = NoRow /\ jobs'[r] # NoRow => assets[jobs'[r].asset].status = "ACTIVE"
        /\ orders[r] = NoRow /\ orders'[r] # NoRow => addresses[orders'[r].address].status = "ACTIVE"
<1>1. ASSUME IInv, NEW r \in Requests, NEW q \in Requests, Read(q) \/ Write(q) \/ Fail(q)
      PROVE  Solo(r)
  <2>1. r \in Ids /\ q \in Ids
    BY DEF Ids
  <2>2. CASE InsertJob(q)
    <3>1. pc[q] = "read" /\ req[q].kind = "addJob"
      BY <2>2 DEF InsertJob, Writes
    <3>2. ~raced[q] => assets[req[q].ref].status = "ACTIVE"
      BY <1>1, <3>1 DEF IInv, Current, UpToDate
    <3>3. /\ jobs'[q].asset = req[q].ref
          /\ r # q => jobs'[r] = jobs[r]
          /\ orders' = orders
      BY <1>1, <2>1, <2>2 DEF InsertJob, IInv, TypeOK
    <3> QED
      BY <3>2, <3>3
  <2>3. CASE InsertOrder(q)
    <3>1. pc[q] = "read" /\ req[q].kind = "addOrder"
      BY <2>3 DEF InsertOrder, Writes
    <3>2. ~raced[q] => addresses[req[q].ref].status = "ACTIVE"
      BY <1>1, <3>1 DEF IInv, Current, UpToDate
    <3>3. /\ orders'[q].address = req[q].ref
          /\ r # q => orders'[r] = orders[r]
          /\ jobs' = jobs
      BY <1>1, <2>1, <2>3 DEF InsertOrder, IInv, TypeOK
    <3> QED
      BY <3>2, <3>3
  <2>4. CASE UpdateOrder(q)
    <3>1. orders[req[q].row] # NoRow
      BY <1>1, <2>4 DEF UpdateOrder, Writes, IInv, HeldHolds, Grounded, Exists
    <3>2. orders[r] = NoRow => orders'[r] = NoRow
      BY <1>1, <2>1, <2>4, <3>1 DEF UpdateOrder, IInv, TypeOK
    <3> QED
      BY <2>4, <3>2 DEF UpdateOrder
  <2>5. CASE Read(q)
    BY <2>5 DEF Read, AddClient, EditClient, AddAddress, EditAddress, AddAsset, EditAsset, AddOrder,
                EditOrder, AddJob, Pay, AddGood, EditGood, Refuse, Take, tables
  <2>6. CASE Fail(q)
    BY <2>6 DEF Fail, tables
  <2>7. ASSUME Write(q), ~InsertJob(q), ~InsertOrder(q), ~UpdateOrder(q)
        PROVE  UNCHANGED <<orders, jobs>>
    BY <2>7 DEF Write, InsertClient, UpdateClient, InsertAddress, UpdateAddress, InsertAsset,
                UpdateAsset, InsertPayment, InsertGood, UpdateGood
  <2> QED
    BY <1>1, <2>2, <2>3, <2>4, <2>5, <2>6, <2>7
<1>2. ASSUME UNCHANGED vars, NEW r \in Requests
      PROVE  Solo(r)
  BY <1>2 DEF vars, tables
<1>3. IInv /\ [Next]_vars => [\A r \in Requests : Solo(r)]_vars
  BY <1>1, <1>2 DEF Next, AllDone
<1> QED
  BY <1>3, Invariance, PTL DEF Spec, SoloAddsAreCurrent

---------------------------------------------------------------------------
(* The tables implement the ledger of Books: nothing that is entered leaves or *)
(* changes hands, and what is entered refers to its client's things.         *)

(* What the ledger says of each table, in this state. *)

ClientOf(table, i) == IF table[i] = NoRow THEN NoRow ELSE table[i].client

OwnersAre ==
  \A i \in Ids :
    /\ Owner(<<"address", i>>) = ClientOf(addresses, i)
    /\ Owner(<<"asset", i>>) = ClientOf(assets, i)
    /\ Owner(<<"order", i>>) = ClientOf(orders, i)
    /\ Owner(<<"job", i>>) = ClientOf(jobs, i)
    /\ Owner(<<"payment", i>>) = ClientOf(payments, i)
    /\ Owner(<<"good", i>>) = IF goods[i] = NoRow THEN NoRow ELSE goods[i].owner

RefersAre ==
  \A i \in Ids :
    /\ Refers(<<"address", i>>) = {}
    /\ Refers(<<"asset", i>>) = {}
    /\ Refers(<<"order", i>>) =
         IF orders[i] = NoRow THEN {} ELSE {<<"address", orders[i].address>>}
    /\ Refers(<<"job", i>>) =
         IF jobs[i] = NoRow THEN {} ELSE {<<"order", jobs[i].order>>, <<"asset", jobs[i].asset>>}
    /\ Refers(<<"payment", i>>) =
         IF payments[i] = NoRow THEN {} ELSE {<<"order", payments[i].order>>}
    /\ Refers(<<"good", i>>) = IF goods[i] = NoRow THEN {} ELSE {<<"job", goods[i].job>>}

\* Owner and Refers of both states, table by table.
LEMMA Views == OwnersAre /\ RefersAre /\ OwnersAre' /\ RefersAre'
<1>1. OwnersAre
  BY DEF OwnersAre, Owner, RowOf, Tables, ClientOf
<1>2. RefersAre
  BY DEF RefersAre, Refers, RowOf, Tables
<1>3. OwnersAre'
  BY DEF OwnersAre, Owner, RowOf, Tables, ClientOf
<1>4. RefersAre'
  BY DEF RefersAre, Refers, RowOf, Tables
<1> QED BY <1>1, <1>2, <1>3, <1>4

(* The steps of the ledger, told by owners and references. *)

SameClients == \A i \in Ids : clients'[i] # NoRow <=> clients[i] # NoRow

SameThing(t) == Owner(t)' = Owner(t) /\ Refers(t)' = Refers(t)

Belongs(c) == {t \in Things : Owner(t) = c}

LEMMA Stutters ==
  ASSUME SameClients, \A t \in Things : SameThing(t)
  PROVE  UNCHANGED <<{c \in Ids : clients[c] # NoRow}, [t \in Things |-> Owner(t)],
                     [t \in Things |-> Refers(t)]>>
  BY DEF SameClients, SameThing

LEMMA Enters ==
  ASSUME NEW t \in Things, NEW c \in Ids, SameClients,
         \A u \in Things \ {t} : SameThing(u),
         clients[c] # NoRow, Owner(t) = NoRow, Owner(t)' = c, Refers(t)' \subseteq Belongs(c)
  PROVE  Ledger!Next
<1>1. Ledger!Belongings(c) = Belongs(c)
  BY DEF Ledger!Belongings, Belongs
<1>2. [u \in Things |-> Owner(u)]' = [[u \in Things |-> Owner(u)] EXCEPT ![t] = c]
  BY DEF SameThing
<1>3. [u \in Things |-> Refers(u)]' = [[u \in Things |-> Refers(u)] EXCEPT ![t] = Refers(t)']
  BY DEF SameThing
<1>4. {i \in Ids : clients[i] # NoRow}' = {i \in Ids : clients[i] # NoRow}
  BY DEF SameClients
<1>6. [u \in Things |-> Owner(u)][t] = NoRow
  OBVIOUS
<1>7. c \in {i \in Ids : clients[i] # NoRow}
  OBVIOUS
<1>8. Refers(t)' \in SUBSET Ledger!Belongings(c)
  BY <1>1
<1>9. Ledger!Enter(t, c)
  BY <1>2, <1>3, <1>4, <1>6, <1>7, <1>8, Zenon DEF Ledger!Enter
<1> QED BY <1>9 DEF Ledger!Next

LEMMA Redirects ==
  ASSUME NEW o \in Ids, NEW c \in Ids, SameClients,
         \A u \in Things \ {<<"order", o>>} : SameThing(u),
         Owner(<<"order", o>>) = c, Owner(<<"order", o>>)' = c,
         c # NoRow, NEW a \in Ids, Owner(<<"address", a>>) # NoRow,
         Refers(<<"order", o>>)' = {<<"address", a>>}
  PROVE  Ledger!Next
<1> DEFINE t == <<"order", o>>
<1> DEFINE p == <<"address", a>>
<1>0. /\ t \in Things /\ t \in {"order"} \X Ids
      /\ p \in Things /\ p \in {"address"} \X Ids
  BY DEF Things
<1>2. [u \in Things |-> Owner(u)]' = [u \in Things |-> Owner(u)]
  BY DEF SameThing
<1>3. [u \in Things |-> Refers(u)]' = [[u \in Things |-> Refers(u)] EXCEPT ![t] = {p}]
  BY <1>0 DEF SameThing
<1>4. {i \in Ids : clients[i] # NoRow}' = {i \in Ids : clients[i] # NoRow}
  BY DEF SameClients
<1>6. [u \in Things |-> Owner(u)][t] = c
  BY <1>0
<1>8. [u \in Things |-> Owner(u)][p] # NoRow
  BY <1>0
<1>5. Ledger!Redirect(t)
  BY <1>0, <1>2, <1>3, <1>4, <1>6, <1>8, Zenon DEF Ledger!Redirect
<1> QED BY <1>0, <1>5 DEF Ledger!Next

---------------------------------------------------------------------------
(* What a write leaves of the ledger, read from the tables. *)

SameHolder(row, new) == new = row \/ (row # NoRow /\ new # NoRow /\ new.client = row.client)

SameGood(row, new) ==
  new = row \/ (row # NoRow /\ new # NoRow /\ new.owner = row.owner /\ new.job = row.job)

\* All rows but those of the things in T keep what the ledger says of them.
RowsStay(T) ==
  \A i \in Ids :
    /\ <<"address", i>> \in T \/ SameHolder(addresses[i], addresses'[i])
    /\ <<"asset", i>> \in T \/ SameHolder(assets[i], assets'[i])
    /\ <<"order", i>> \in T \/ orders'[i] = orders[i]
    /\ <<"job", i>> \in T \/ jobs'[i] = jobs[i]
    /\ <<"payment", i>> \in T \/ payments'[i] = payments[i]
    /\ <<"good", i>> \in T \/ SameGood(goods[i], goods'[i])

\* What the ledger says of a thing only depends on its row.
LEMMA ThingsStay ==
  ASSUME NEW T, RowsStay(T)
  PROVE  \A u \in Things \ T : SameThing(u)
<1> SUFFICES ASSUME NEW k \in {"address", "asset", "order", "job", "payment", "good"},
                    NEW i \in Ids, <<k, i>> \notin T
             PROVE  SameThing(<<k, i>>)
  <2>1. \A u \in Things : \E k \in {"address", "asset", "order", "job", "payment", "good"}, i \in Ids :
          u = <<k, i>>
    BY DEF Things
  <2> QED
    BY <2>1
<1>1. CASE k = "address"
  BY <1>1, Views DEF SameThing, RowsStay, SameHolder, SameGood, OwnersAre, RefersAre, ClientOf
<1>2. CASE k = "asset"
  BY <1>2, Views DEF SameThing, RowsStay, SameHolder, SameGood, OwnersAre, RefersAre, ClientOf
<1>3. CASE k = "order"
  BY <1>3, Views DEF SameThing, RowsStay, OwnersAre, RefersAre, ClientOf
<1>4. CASE k = "job"
  BY <1>4, Views DEF SameThing, RowsStay, OwnersAre, RefersAre, ClientOf
<1>5. CASE k = "payment"
  BY <1>5, Views DEF SameThing, RowsStay, OwnersAre, RefersAre, ClientOf
<1>6. CASE k = "good"
  <2>1. SameGood(goods[i], goods'[i])
    BY <1>6 DEF RowsStay
  <2>2. Owner(<<"good", i>>)' = Owner(<<"good", i>>)
    BY <2>1, Views DEF SameGood, OwnersAre
  <2>3. Refers(<<"good", i>>)' = Refers(<<"good", i>>)
    BY <2>1, Views DEF SameGood, RefersAre
  <2> QED
    BY <1>6, <2>2, <2>3 DEF SameThing
<1> QED
  BY <1>1, <1>2, <1>3, <1>4, <1>5, <1>6

LedgerStays ==
  UNCHANGED <<{c \in Ids : clients[c] # NoRow}, [t \in Things |-> Owner(t)],
              [t \in Things |-> Refers(t)]>>

LEMMA NothingEntered ==
  ASSUME SameClients, RowsStay({})
  PROVE  LedgerStays
<1>1. \A u \in Things : SameThing(u)
  BY ThingsStay
<1> QED
  BY <1>1, Stutters DEF LedgerStays

LEMMA TablesUnchanged ==
  ASSUME UNCHANGED tables
  PROVE  LedgerStays
  BY NothingEntered DEF tables, SameClients, RowsStay, SameHolder, SameGood

---------------------------------------------------------------------------
(* Every insert enters one thing. *)

LEMMA InsertClientMeets ==
  ASSUME IInv, NEW r \in Requests, InsertClient(r)
  PROVE  Ledger!Next
<1>1. r \in Ids /\ NoRow \notin Status /\ "ACTIVE" \in Status
  BY RecordsAssumption DEF Ids, Status
<1>2. {c \in Ids : clients[c] # NoRow}' = {c \in Ids : clients[c] # NoRow} \cup {r}
  BY <1>1 DEF InsertClient, IInv, TypeOK
<1>3. \A u \in Things : SameThing(u)
  <2>1. RowsStay({})
    BY DEF InsertClient, RowsStay, SameHolder, SameGood
  <2> QED
    BY <2>1, ThingsStay
<1>4. UNCHANGED <<[t \in Things |-> Owner(t)], [t \in Things |-> Refers(t)]>>
  BY <1>3 DEF SameThing
<1>5. Ledger!Meet(r)
  BY <1>2, <1>4 DEF Ledger!Meet
<1> QED
  BY <1>1, <1>5 DEF Ledger!Next

\* What an insert of r finds: its row is not there, what it read still is.
LEMMA AboutToInsert ==
  ASSUME IInv, NEW r \in Requests, NEW k \in Adds \ {"addClient"}, Writes(r, k)
  PROVE  /\ r \in Ids /\ NoRowOf(r) /\ Grounded(req[r])
         /\ req[r].client \in Ids /\ clients[req[r].client] # NoRow
         /\ req[r].kind = k
<1>1. r \in Ids /\ NoRowOf(r) /\ Grounded(req[r]) /\ req[r].kind = k
  BY DEF Writes, IInv, Fresh, HeldHolds, Ids
<1>2. Exists(clients, req[r].client)
  <2>1. CASE k \in {"addAddress", "addAsset", "addOrder"}
    BY <1>1, <2>1 DEF Grounded
  <2>2. CASE k \in {"addJob", "pay"}
    BY <1>1, <2>2 DEF Grounded, OwnedBy, Exists, IInv, OneClient, OrdersAgree
  <2>3. CASE k = "addGood"
    BY <1>1, <2>3 DEF Grounded, OwnedBy, Exists, IInv, OneClient, OrdersAgree, JobsAgree
  <2> QED
    BY <2>1, <2>2, <2>3 DEF Adds
<1> QED
  BY <1>1, <1>2 DEF Exists

LEMMA InsertAddressEnters ==
  ASSUME IInv, NEW r \in Requests, InsertAddress(r), Exists(clients, r)
  PROVE  Ledger!Next
<1> DEFINE c == req[r].client
<1> DEFINE row == [client |-> req[r].client, status |-> "ACTIVE"]
<1>1. /\ r \in Ids /\ NoRowOf(r) /\ Grounded(req[r])
      /\ c \in Ids /\ clients[c] # NoRow /\ req[r].kind = "addAddress"
  BY AboutToInsert DEF InsertAddress, Adds
<1>2. /\ addresses'[r] = row /\ row # NoRow /\ addresses[r] = NoRow
      /\ \A i \in Ids : i # r => addresses'[i] = addresses[i]
  <2>1. req[r] \in Held
    BY DEF IInv, TypeOK
  <2>2. row \in OwnedRow
    BY <1>1, <2>1 DEF Held, Grounded, OwnedBy, Exists, OwnedRow, Status, Stored
  <2>3. addresses'[r] = row /\ \A i \in Ids : i # r => addresses'[i] = addresses[i]
    BY <1>1 DEF InsertAddress, IInv, TypeOK
  <2> QED
    BY <1>1, <2>2, <2>3, RecordsAssumption DEF NoRowOf
<1>3. <<"address", r>> \in Things /\ SameClients
  BY <1>1 DEF InsertAddress, Things, SameClients
<1>4. \A u \in Things \ {<<"address", r>>} : SameThing(u)
  <2>1. RowsStay({<<"address", r>>})
    BY <1>2 DEF InsertAddress, RowsStay, SameHolder, SameGood
  <2> QED
    BY <2>1, ThingsStay
<1>5. Owner(<<"address", r>>) = NoRow /\ Owner(<<"address", r>>)' = c
  <2>1. Owner(<<"address", r>>) = ClientOf(addresses, r) /\ Owner(<<"address", r>>)' = ClientOf(addresses, r)'
    BY <1>1, Views DEF OwnersAre
  <2>2. ClientOf(addresses, r) = NoRow /\ ClientOf(addresses, r)' = c
    BY <1>2 DEF ClientOf
  <2> QED
    BY <2>1, <2>2
<1>6. Refers(<<"address", r>>)' \subseteq Belongs(c)
  BY <1>1, Views DEF RefersAre
<1> QED
  BY <1>1, <1>3, <1>4, <1>5, <1>6, Enters

LEMMA InsertAssetEnters ==
  ASSUME IInv, NEW r \in Requests, InsertAsset(r)
  PROVE  Ledger!Next
<1> DEFINE c == req[r].client
<1> DEFINE row == [client |-> req[r].client, status |-> "ACTIVE"]
<1>1. /\ r \in Ids /\ NoRowOf(r) /\ Grounded(req[r])
      /\ c \in Ids /\ clients[c] # NoRow /\ req[r].kind = "addAsset"
  BY AboutToInsert DEF InsertAsset, Adds
<1>2. /\ assets'[r] = row /\ row # NoRow /\ assets[r] = NoRow
      /\ \A i \in Ids : i # r => assets'[i] = assets[i]
  <2>1. req[r] \in Held
    BY DEF IInv, TypeOK
  <2>2. row \in OwnedRow
    BY <1>1, <2>1 DEF Held, Grounded, OwnedBy, Exists, OwnedRow, Status, Stored
  <2>3. assets'[r] = row /\ \A i \in Ids : i # r => assets'[i] = assets[i]
    BY <1>1 DEF InsertAsset, IInv, TypeOK
  <2> QED
    BY <1>1, <2>2, <2>3, RecordsAssumption DEF NoRowOf
<1>3. <<"asset", r>> \in Things /\ SameClients
  BY <1>1 DEF InsertAsset, Things, SameClients
<1>4. \A u \in Things \ {<<"asset", r>>} : SameThing(u)
  <2>1. RowsStay({<<"asset", r>>})
    BY <1>2 DEF InsertAsset, RowsStay, SameHolder, SameGood
  <2> QED
    BY <2>1, ThingsStay
<1>5. Owner(<<"asset", r>>) = NoRow /\ Owner(<<"asset", r>>)' = c
  <2>1. Owner(<<"asset", r>>) = ClientOf(assets, r) /\ Owner(<<"asset", r>>)' = ClientOf(assets, r)'
    BY <1>1, Views DEF OwnersAre
  <2>2. ClientOf(assets, r) = NoRow /\ ClientOf(assets, r)' = c
    BY <1>2 DEF ClientOf
  <2> QED
    BY <2>1, <2>2
<1>6. Refers(<<"asset", r>>)' \subseteq Belongs(c)
  BY <1>1, Views DEF RefersAre
<1> QED
  BY <1>1, <1>3, <1>4, <1>5, <1>6, Enters

LEMMA InsertOrderEnters ==
  ASSUME IInv, NEW r \in Requests, InsertOrder(r)
  PROVE  Ledger!Next
<1> DEFINE c == req[r].client
<1> DEFINE row == [client |-> req[r].client, address |-> req[r].ref,
                  status |-> "OPEN", closed |-> r]
<1>1. /\ r \in Ids /\ NoRowOf(r) /\ Grounded(req[r])
      /\ c \in Ids /\ clients[c] # NoRow /\ req[r].kind = "addOrder"
  BY AboutToInsert DEF InsertOrder, Adds
<1>2. /\ orders'[r] = row /\ row # NoRow /\ orders[r] = NoRow
      /\ \A i \in Ids : i # r => orders'[i] = orders[i]
  <2>1. req[r] \in Held
    BY DEF IInv, TypeOK
  <2>2. row \in OrderRow
    BY <1>1, <2>1 DEF Held, Grounded, OwnedBy, Exists, OrderRow, Status, Stored
  <2>3. orders'[r] = row /\ \A i \in Ids : i # r => orders'[i] = orders[i]
    BY <1>1 DEF InsertOrder, IInv, TypeOK
  <2> QED
    BY <1>1, <2>2, <2>3, RecordsAssumption DEF NoRowOf
<1>3. <<"order", r>> \in Things /\ SameClients
  BY <1>1 DEF InsertOrder, Things, SameClients
<1>4. \A u \in Things \ {<<"order", r>>} : SameThing(u)
  <2>1. RowsStay({<<"order", r>>})
    BY <1>2 DEF InsertOrder, RowsStay, SameHolder, SameGood
  <2> QED
    BY <2>1, ThingsStay
<1>5. Owner(<<"order", r>>) = NoRow /\ Owner(<<"order", r>>)' = c
  <2>1. Owner(<<"order", r>>) = ClientOf(orders, r) /\ Owner(<<"order", r>>)' = ClientOf(orders, r)'
    BY <1>1, Views DEF OwnersAre
  <2>2. ClientOf(orders, r) = NoRow /\ ClientOf(orders, r)' = c
    BY <1>2 DEF ClientOf
  <2> QED
    BY <2>1, <2>2
<1>6. Refers(<<"order", r>>)' \subseteq Belongs(c)
  <2>1. Refers(<<"order", r>>)' = {<<"address", req[r].ref>>}
    <3>1. Refers(<<"order", r>>)' = IF orders'[r] = NoRow THEN {} ELSE {<<"address", orders'[r].address>>}
      BY <1>1, Views DEF RefersAre
    <3> QED
      BY <1>2, <3>1
  <2>2. <<"address", req[r].ref>> \in Belongs(c)
    <3>1. req[r].ref \in Ids /\ addresses[req[r].ref] # NoRow /\ addresses[req[r].ref].client = c
      BY <1>1 DEF Grounded, OwnedBy, Exists
    <3> QED
      BY <3>1, Views DEF OwnersAre, ClientOf, Belongs, Things
  <2> QED
    BY <2>1, <2>2
<1> QED
  BY <1>1, <1>3, <1>4, <1>5, <1>6, Enters

LEMMA InsertJobEnters ==
  ASSUME IInv, NEW r \in Requests, InsertJob(r)
  PROVE  Ledger!Next
<1> DEFINE c == req[r].client
<1> DEFINE row == [order |-> req[r].row, client |-> req[r].client, asset |-> req[r].ref]
<1>1. /\ r \in Ids /\ NoRowOf(r) /\ Grounded(req[r])
      /\ c \in Ids /\ clients[c] # NoRow /\ req[r].kind = "addJob"
  BY AboutToInsert DEF InsertJob, Adds
<1>2. /\ jobs'[r] = row /\ row # NoRow /\ jobs[r] = NoRow
      /\ \A i \in Ids : i # r => jobs'[i] = jobs[i]
  <2>1. req[r] \in Held
    BY DEF IInv, TypeOK
  <2>2. row \in JobRow
    BY <1>1, <2>1 DEF Held, Grounded, OwnedBy, Exists, JobRow, Status, Stored
  <2>3. jobs'[r] = row /\ \A i \in Ids : i # r => jobs'[i] = jobs[i]
    BY <1>1 DEF InsertJob, IInv, TypeOK
  <2> QED
    BY <1>1, <2>2, <2>3, RecordsAssumption DEF NoRowOf
<1>3. <<"job", r>> \in Things /\ SameClients
  BY <1>1 DEF InsertJob, Things, SameClients
<1>4. \A u \in Things \ {<<"job", r>>} : SameThing(u)
  <2>1. RowsStay({<<"job", r>>})
    BY <1>2 DEF InsertJob, RowsStay, SameHolder, SameGood
  <2> QED
    BY <2>1, ThingsStay
<1>5. Owner(<<"job", r>>) = NoRow /\ Owner(<<"job", r>>)' = c
  <2>1. Owner(<<"job", r>>) = ClientOf(jobs, r) /\ Owner(<<"job", r>>)' = ClientOf(jobs, r)'
    BY <1>1, Views DEF OwnersAre
  <2>2. ClientOf(jobs, r) = NoRow /\ ClientOf(jobs, r)' = c
    BY <1>2 DEF ClientOf
  <2> QED
    BY <2>1, <2>2
<1>6. Refers(<<"job", r>>)' \subseteq Belongs(c)
  <2>1. Refers(<<"job", r>>)' = {<<"order", req[r].row>>, <<"asset", req[r].ref>>}
    <3>1. Refers(<<"job", r>>)' = IF jobs'[r] = NoRow THEN {} ELSE {<<"order", jobs'[r].order>>, <<"asset", jobs'[r].asset>>}
      BY <1>1, Views DEF RefersAre
    <3> QED
      BY <1>2, <3>1
  <2>2. <<"order", req[r].row>> \in Belongs(c)
    <3>1. req[r].row \in Ids /\ orders[req[r].row] # NoRow /\ orders[req[r].row].client = c
      BY <1>1 DEF Grounded, OwnedBy, Exists
    <3> QED
      BY <3>1, Views DEF OwnersAre, ClientOf, Belongs, Things
  <2>3. <<"asset", req[r].ref>> \in Belongs(c)
    <3>1. req[r].ref \in Ids /\ assets[req[r].ref] # NoRow /\ assets[req[r].ref].client = c
      BY <1>1 DEF Grounded, OwnedBy, Exists
    <3> QED
      BY <3>1, Views DEF OwnersAre, ClientOf, Belongs, Things
  <2> QED
    BY <2>1, <2>2, <2>3
<1> QED
  BY <1>1, <1>3, <1>4, <1>5, <1>6, Enters

LEMMA InsertPaymentEnters ==
  ASSUME IInv, NEW r \in Requests, InsertPayment(r)
  PROVE  Ledger!Next
<1> DEFINE c == req[r].client
<1> DEFINE row == [order |-> req[r].row, client |-> req[r].client]
<1>1. /\ r \in Ids /\ NoRowOf(r) /\ Grounded(req[r])
      /\ c \in Ids /\ clients[c] # NoRow /\ req[r].kind = "pay"
  BY AboutToInsert DEF InsertPayment, Adds
<1>2. /\ payments'[r] = row /\ row # NoRow /\ payments[r] = NoRow
      /\ \A i \in Ids : i # r => payments'[i] = payments[i]
  <2>1. req[r] \in Held
    BY DEF IInv, TypeOK
  <2>2. row \in PaymentRow
    BY <1>1, <2>1 DEF Held, Grounded, OwnedBy, Exists, PaymentRow, Status, Stored
  <2>3. payments'[r] = row /\ \A i \in Ids : i # r => payments'[i] = payments[i]
    BY <1>1 DEF InsertPayment, IInv, TypeOK
  <2> QED
    BY <1>1, <2>2, <2>3, RecordsAssumption DEF NoRowOf
<1>3. <<"payment", r>> \in Things /\ SameClients
  BY <1>1 DEF InsertPayment, Things, SameClients
<1>4. \A u \in Things \ {<<"payment", r>>} : SameThing(u)
  <2>1. RowsStay({<<"payment", r>>})
    BY <1>2 DEF InsertPayment, RowsStay, SameHolder, SameGood
  <2> QED
    BY <2>1, ThingsStay
<1>5. Owner(<<"payment", r>>) = NoRow /\ Owner(<<"payment", r>>)' = c
  <2>1. Owner(<<"payment", r>>) = ClientOf(payments, r) /\ Owner(<<"payment", r>>)' = ClientOf(payments, r)'
    BY <1>1, Views DEF OwnersAre
  <2>2. ClientOf(payments, r) = NoRow /\ ClientOf(payments, r)' = c
    BY <1>2 DEF ClientOf
  <2> QED
    BY <2>1, <2>2
<1>6. Refers(<<"payment", r>>)' \subseteq Belongs(c)
  <2>1. Refers(<<"payment", r>>)' = {<<"order", req[r].row>>}
    <3>1. Refers(<<"payment", r>>)' = IF payments'[r] = NoRow THEN {} ELSE {<<"order", payments'[r].order>>}
      BY <1>1, Views DEF RefersAre
    <3> QED
      BY <1>2, <3>1
  <2>2. <<"order", req[r].row>> \in Belongs(c)
    <3>1. req[r].row \in Ids /\ orders[req[r].row] # NoRow /\ orders[req[r].row].client = c
      BY <1>1 DEF Grounded, OwnedBy, Exists
    <3> QED
      BY <3>1, Views DEF OwnersAre, ClientOf, Belongs, Things
  <2> QED
    BY <2>1, <2>2
<1> QED
  BY <1>1, <1>3, <1>4, <1>5, <1>6, Enters

LEMMA InsertGoodEnters ==
  ASSUME IInv, NEW r \in Requests, InsertGood(r)
  PROVE  Ledger!Next
<1> DEFINE c == req[r].client
<1> DEFINE row == [job |-> req[r].row, owner |-> req[r].client, status |-> req[r].status]
<1>1. /\ r \in Ids /\ NoRowOf(r) /\ Grounded(req[r])
      /\ c \in Ids /\ clients[c] # NoRow /\ req[r].kind = "addGood"
  BY AboutToInsert DEF InsertGood, Adds
<1>2. /\ goods'[r] = row /\ row # NoRow /\ goods[r] = NoRow
      /\ \A i \in Ids : i # r => goods'[i] = goods[i]
  <2>1. req[r] \in Held
    BY DEF IInv, TypeOK
  <2>2. row \in GoodRow
    BY <1>1, <2>1 DEF Held, Grounded, OwnedBy, Exists, GoodRow, Status, Stored
  <2>3. goods'[r] = row /\ \A i \in Ids : i # r => goods'[i] = goods[i]
    BY <1>1 DEF InsertGood, IInv, TypeOK
  <2> QED
    BY <1>1, <2>2, <2>3, RecordsAssumption DEF NoRowOf
<1>3. <<"good", r>> \in Things /\ SameClients
  BY <1>1 DEF InsertGood, Things, SameClients
<1>4. \A u \in Things \ {<<"good", r>>} : SameThing(u)
  <2>1. RowsStay({<<"good", r>>})
    BY <1>2 DEF InsertGood, RowsStay, SameHolder, SameGood
  <2> QED
    BY <2>1, ThingsStay
<1>5. Owner(<<"good", r>>) = NoRow /\ Owner(<<"good", r>>)' = c
  <2>1. Owner(<<"good", r>>) = IF goods[r] = NoRow THEN NoRow ELSE goods[r].owner
    BY <1>1, Views DEF OwnersAre
  <2>2. Owner(<<"good", r>>)' = IF goods'[r] = NoRow THEN NoRow ELSE goods'[r].owner
    BY <1>1, Views DEF OwnersAre
  <2> QED
    BY <1>2, <2>1, <2>2
<1>6. Refers(<<"good", r>>)' \subseteq Belongs(c)
  <2>1. Refers(<<"good", r>>)' = {<<"job", req[r].row>>}
    <3>1. Refers(<<"good", r>>)' = IF goods'[r] = NoRow THEN {} ELSE {<<"job", goods'[r].job>>}
      BY <1>1, Views DEF RefersAre
    <3> QED
      BY <1>2, <3>1
  <2>2. <<"job", req[r].row>> \in Belongs(c)
    <3>1. req[r].row \in Ids /\ jobs[req[r].row] # NoRow /\ jobs[req[r].row].client = c
      BY <1>1 DEF Grounded, OwnedBy, Exists
    <3> QED
      BY <3>1, Views DEF OwnersAre, ClientOf, Belongs, Things
  <2> QED
    BY <2>1, <2>2
<1> QED
  BY <1>1, <1>3, <1>4, <1>5, <1>6, Enters

---------------------------------------------------------------------------
(* An update leaves the ledger as it is, or redirects an order. *)

LEMMA UpdateClientStays ==
  ASSUME IInv, NEW r \in Requests, UpdateClient(r)
  PROVE  LedgerStays
<1>1. /\ req[r].row \in Ids /\ clients[req[r].row] # NoRow
      /\ req[r].status \in Status /\ NoRow \notin Status
  BY RecordsAssumption DEF UpdateClient, Writes, IInv, HeldHolds, Grounded, Exists
<1>2. SameClients
  BY <1>1 DEF UpdateClient, SameClients, IInv, TypeOK
<1>3. RowsStay({})
  BY DEF UpdateClient, RowsStay, SameHolder, SameGood
<1> QED
  BY <1>2, <1>3, NothingEntered

LEMMA UpdateAddressStays ==
  ASSUME IInv, NEW r \in Requests, UpdateAddress(r)
  PROVE  LedgerStays
<1> DEFINE a == req[r].row
<1>1. a \in Ids /\ addresses[a] # NoRow /\ req[r].status \in Status
  BY DEF UpdateAddress, Writes, IInv, HeldHolds, Grounded, Exists
<1>2. addresses[a] \in OwnedRow
  BY <1>1 DEF IInv, TypeOK
<1>3. /\ addresses'[a] = [addresses[a] EXCEPT !.status = req[r].status]
      /\ \A i \in Ids : i # a => addresses'[i] = addresses[i]
  BY <1>1 DEF UpdateAddress, IInv, TypeOK
<1>4. addresses'[a] \in OwnedRow /\ addresses'[a].client = addresses[a].client
  BY <1>1, <1>2, <1>3 DEF OwnedRow
<1>5. \A i \in Ids : SameHolder(addresses[i], addresses'[i])
  BY <1>1, <1>3, <1>4, RecordsAssumption DEF SameHolder
<1>6. RowsStay({})
  BY <1>5 DEF UpdateAddress, RowsStay, SameHolder, SameGood
<1>7. SameClients
  BY DEF UpdateAddress, SameClients
<1> QED
  BY <1>6, <1>7, NothingEntered

LEMMA UpdateAssetStays ==
  ASSUME IInv, NEW r \in Requests, UpdateAsset(r)
  PROVE  LedgerStays
<1> DEFINE a == req[r].row
<1>1. a \in Ids /\ assets[a] # NoRow /\ req[r].status \in Status
  BY DEF UpdateAsset, Writes, IInv, HeldHolds, Grounded, Exists
<1>2. assets[a] \in OwnedRow
  BY <1>1 DEF IInv, TypeOK
<1>3. /\ assets'[a] = [assets[a] EXCEPT !.status = req[r].status]
      /\ \A i \in Ids : i # a => assets'[i] = assets[i]
  BY <1>1 DEF UpdateAsset, IInv, TypeOK
<1>4. assets'[a] \in OwnedRow /\ assets'[a].client = assets[a].client
  BY <1>1, <1>2, <1>3 DEF OwnedRow
<1>5. \A i \in Ids : SameHolder(assets[i], assets'[i])
  BY <1>1, <1>3, <1>4, RecordsAssumption DEF SameHolder
<1>6. RowsStay({})
  BY <1>5 DEF UpdateAsset, RowsStay, SameHolder, SameGood
<1>7. SameClients
  BY DEF UpdateAsset, SameClients
<1> QED
  BY <1>6, <1>7, NothingEntered

LEMMA UpdateGoodStays ==
  ASSUME IInv, NEW r \in Requests, UpdateGood(r)
  PROVE  LedgerStays
<1> DEFINE g == req[r].row
<1>1. g \in Ids /\ goods[g] # NoRow
  BY DEF UpdateGood, Writes, IInv, HeldHolds, Grounded, Exists
<1>2. goods[g] \in GoodRow
  BY <1>1 DEF IInv, TypeOK
<1>3. CASE req[r].status \in GoodStatus
  <2>1. /\ goods'[g] = [goods[g] EXCEPT !.status = req[r].status]
        /\ \A i \in Ids : i # g => goods'[i] = goods[i]
    BY <1>1, <1>3 DEF UpdateGood, IInv, TypeOK
  <2>2. goods'[g] \in GoodRow /\ goods'[g].owner = goods[g].owner /\ goods'[g].job = goods[g].job
    BY <1>2, <1>3, <2>1 DEF GoodRow
  <2>3. \A i \in Ids : SameGood(goods[i], goods'[i])
    BY <1>1, <2>1, <2>2, RecordsAssumption DEF SameGood
  <2>4. RowsStay({}) /\ SameClients
    BY <2>3 DEF UpdateGood, RowsStay, SameHolder, SameClients
  <2> QED
    BY <2>4, NothingEntered
<1>4. CASE req[r].status \notin GoodStatus
  BY <1>4, TablesUnchanged DEF UpdateGood, tables
<1> QED
  BY <1>3, <1>4

LEMMA UpdateOrderRedirects ==
  ASSUME IInv, NEW r \in Requests, UpdateOrder(r)
  PROVE  Ledger!Next \/ LedgerStays
<1> SUFFICES ASSUME NEW o, o = req[r].row,
                    NEW a, a = req[r].ref,
                    NEW c, c = orders[o].client
             PROVE  Ledger!Next \/ LedgerStays
  OBVIOUS
<1>1. CASE ~Exists(addresses, a)
  BY <1>1, TablesUnchanged DEF UpdateOrder, tables
<1>2. CASE Exists(addresses, a)
  <2>1. o \in Ids /\ orders[o] # NoRow /\ req[r].status \in DOMAIN Stored
    BY DEF UpdateOrder, Writes, IInv, HeldHolds, Grounded, Exists
  <2>2. a \in Ids /\ addresses[a] # NoRow
    BY <1>2 DEF Exists
  <2>3. orders[o] \in OrderRow /\ c \in Ids /\ c # NoRow
    BY <2>1, RecordsAssumption DEF IInv, TypeOK, OrderRow
  <2>4. /\ orders'[o] = [orders[o] EXCEPT !.status = Stored[req[r].status], !.address = a,
                                         !.closed = IF Stamps(r) THEN r ELSE @]
        /\ \A i \in Ids : i # o => orders'[i] = orders[i]
    BY <1>2, <2>1, <2>3 DEF UpdateOrder, IInv, TypeOK, OrderRow
  <2>5. orders'[o] # NoRow /\ orders'[o].client = c /\ orders'[o].address = a
    <3>1. r \in Ids /\ Stored[req[r].status] \in {Stored[s] : s \in DOMAIN Stored}
      BY <2>1 DEF Ids
    <3>2. orders'[o] \in OrderRow /\ orders'[o].client = c /\ orders'[o].address = a
      BY <2>2, <2>3, <2>4, <3>1 DEF OrderRow
    <3> QED
      BY <3>2, RecordsAssumption
  <2>6. SameClients /\ \A u \in Things \ {<<"order", o>>} : SameThing(u)
    <3>1. SameClients /\ RowsStay({<<"order", o>>})
      BY <2>4 DEF UpdateOrder, SameClients, RowsStay, SameHolder, SameGood
    <3> QED
      BY <3>1, ThingsStay
  <2>7. Owner(<<"order", o>>) = c /\ Owner(<<"order", o>>)' = c
    <3>1. Owner(<<"order", o>>) = ClientOf(orders, o)
      BY <2>1, Views DEF OwnersAre
    <3>2. Owner(<<"order", o>>)' = ClientOf(orders, o)'
      BY <2>1, Views DEF OwnersAre
    <3> QED
      BY <2>1, <2>5, <3>1, <3>2 DEF ClientOf
  <2>8. Refers(<<"order", o>>)' = {<<"address", a>>}
    BY <2>1, <2>5, Views DEF RefersAre
  <2>9. Owner(<<"address", a>>) # NoRow
    <3>1. addresses[a].client \in Ids
      BY <2>2 DEF IInv, TypeOK, OwnedRow
    <3>2. NoRow \notin Ids
      BY RecordsAssumption
    <3>3. Owner(<<"address", a>>) = addresses[a].client
      BY <2>2, Views DEF OwnersAre, ClientOf
    <3> QED
      BY <3>1, <3>2, <3>3
  <2> QED
    BY <2>1, <2>2, <2>3, <2>6, <2>7, <2>8, <2>9, Redirects
<1> QED
  BY <1>1, <1>2

---------------------------------------------------------------------------
(* The refinement *)

LEMMA InitOpensBooks ==
  ASSUME Init
  PROVE  Ledger!Init
<1> DEFINE known == {c \in Ids : clients[c] # NoRow}
<1>1. TypeOK /\ OneClient
  BY InitIInv DEF IInv
<1>2. /\ \A i \in Ids : addresses[i] # NoRow => addresses[i].client \in known
      /\ \A i \in Ids : assets[i] # NoRow => assets[i].client \in known
  BY RecordsAssumption DEF Init, Ids, Status
<1>3. \A i \in Ids : orders[i] # NoRow => orders[i].client \in known
  BY <1>1 DEF OneClient, OrdersAgree, Exists
<1>4. \A i \in Ids : jobs[i] # NoRow => jobs[i].client \in known
  BY <1>1, <1>3 DEF OneClient, JobsAgree, Exists
<1>5. \A i \in Ids : payments[i] # NoRow => payments[i].client \in known
  BY <1>1, <1>3 DEF OneClient, PaymentsAgree, Exists
<1>6. \A i \in Ids : goods[i] # NoRow => goods[i].owner \in known
  BY <1>1, <1>4 DEF OneClient, GoodsAgree, Exists
<1>7. ASSUME NEW k \in {"address", "asset", "order", "job", "payment", "good"}, NEW i \in Ids
      PROVE  /\ Owner(<<k, i>>) \in known \cup {NoRow}
             /\ Owner(<<k, i>>) = NoRow => Refers(<<k, i>>) = {}
             /\ Refers(<<k, i>>) \subseteq Belongs(Owner(<<k, i>>))
  <2>0. NoRow \notin Ids
    BY RecordsAssumption
  <2>1. CASE k = "address"
    BY <2>1, <1>2, Views DEF OwnersAre, RefersAre, ClientOf
  <2>2. CASE k = "asset"
    BY <2>2, <1>2, Views DEF OwnersAre, RefersAre, ClientOf
  <2>3. CASE k = "order" /\ orders[i] # NoRow
    <3> DEFINE a == orders[i].address
    <3>1. a \in Ids /\ addresses[a] # NoRow /\ addresses[a].client = orders[i].client
      <4>1. ~Posted(i, a)
        BY DEF Init, Posted
      <4> QED
        BY <1>1, <2>3, <4>1 DEF OneClient, OrdersAgree, Exists
    <3>2. Owner(<<"order", i>>) = orders[i].client /\ Owner(<<"address", a>>) = orders[i].client
      BY <2>3, <3>1, Views DEF OwnersAre, ClientOf
    <3>3. Refers(<<"order", i>>) = {<<"address", a>>}
      BY <2>3, Views DEF RefersAre
    <3> QED
      BY <2>0, <2>3, <1>3, <3>1, <3>2, <3>3 DEF Belongs, Things
  <2>4. CASE k = "job" /\ jobs[i] # NoRow
    <3> DEFINE o == jobs[i].order
    <3> DEFINE a == jobs[i].asset
    <3>1. /\ o \in Ids /\ orders[o] # NoRow /\ orders[o].client = jobs[i].client
          /\ a \in Ids /\ assets[a] # NoRow /\ assets[a].client = jobs[i].client
      BY <1>1, <2>4 DEF OneClient, JobsAgree, Exists
    <3>2. /\ Owner(<<"job", i>>) = jobs[i].client /\ Owner(<<"order", o>>) = jobs[i].client
          /\ Owner(<<"asset", a>>) = jobs[i].client
      BY <2>4, <3>1, Views DEF OwnersAre, ClientOf
    <3>3. Refers(<<"job", i>>) = {<<"order", o>>, <<"asset", a>>}
      BY <2>4, Views DEF RefersAre
    <3> QED
      BY <2>0, <2>4, <1>4, <3>1, <3>2, <3>3 DEF Belongs, Things
  <2>5. CASE k = "payment" /\ payments[i] # NoRow
    <3> DEFINE o == payments[i].order
    <3>1. o \in Ids /\ orders[o] # NoRow /\ orders[o].client = payments[i].client
      BY <1>1, <2>5 DEF OneClient, PaymentsAgree, Exists
    <3>2. Owner(<<"payment", i>>) = payments[i].client /\ Owner(<<"order", o>>) = payments[i].client
      BY <2>5, <3>1, Views DEF OwnersAre, ClientOf
    <3>3. Refers(<<"payment", i>>) = {<<"order", o>>}
      BY <2>5, Views DEF RefersAre
    <3> QED
      BY <2>0, <2>5, <1>5, <3>1, <3>2, <3>3 DEF Belongs, Things
  <2>6. CASE k = "good" /\ goods[i] # NoRow
    <3> DEFINE j == goods[i].job
    <3>1. j \in Ids /\ jobs[j] # NoRow /\ jobs[j].client = goods[i].owner
      BY <1>1, <2>6 DEF OneClient, GoodsAgree, Exists
    <3>2. Owner(<<"good", i>>) = goods[i].owner /\ Owner(<<"job", j>>) = goods[i].owner
      BY <2>6, <3>1, Views DEF OwnersAre, ClientOf
    <3>3. Refers(<<"good", i>>) = {<<"job", j>>}
      BY <2>6, Views DEF RefersAre
    <3> QED
      BY <2>0, <2>6, <1>6, <3>1, <3>2, <3>3 DEF Belongs, Things
  <2>7. CASE \/ k = "order" /\ orders[i] = NoRow
             \/ k = "job" /\ jobs[i] = NoRow
             \/ k = "payment" /\ payments[i] = NoRow
             \/ k = "good" /\ goods[i] = NoRow
    <3>1. Owner(<<k, i>>) = NoRow /\ Refers(<<k, i>>) = {}
      BY <2>7, Views DEF OwnersAre, RefersAre, ClientOf
    <3> QED
      BY <3>1
  <2> QED
    BY <2>1, <2>2, <2>3, <2>4, <2>5, <2>6, <2>7
<1>8. \A t \in Things : /\ Owner(t) \in known \cup {NoRow}
                        /\ Owner(t) = NoRow => Refers(t) = {}
                        /\ Refers(t) \subseteq Belongs(Owner(t))
  <2>1. \A t \in Things : \E k \in {"address", "asset", "order", "job", "payment", "good"}, i \in Ids :
          t = <<k, i>>
    BY DEF Things
  <2> QED
    BY <1>7, <2>1
<1>9. \A c : Ledger!Belongings(c) = Belongs(c) /\ Belongs(c) \subseteq Things
  BY DEF Ledger!Belongings, Belongs
<1> QED
  BY <1>8, <1>9 DEF Ledger!Init

LEMMA StepKeepsBooks ==
  ASSUME IInv, [Next]_vars
  PROVE  Ledger!Next \/ LedgerStays
<1>1. CASE UNCHANGED vars
  BY <1>1, TablesUnchanged DEF vars
<1>2. ASSUME NEW r \in Requests, Read(r) \/ Fail(r)
      PROVE  LedgerStays
  BY <1>2, TablesUnchanged
     DEF Read, Fail, Take, AddClient, EditClient, AddAddress, EditAddress, AddAsset, EditAsset,
         AddOrder, EditOrder, AddJob, Pay, AddGood, EditGood, Refuse
<1>3. ASSUME NEW r \in Requests, InsertAddress(r)
      PROVE  Ledger!Next \/ LedgerStays
  <2>1. CASE Exists(clients, r)
    BY <1>3, <2>1, InsertAddressEnters
  <2>2. CASE ~Exists(clients, r)
    BY <1>3, <2>2, TablesUnchanged DEF InsertAddress, tables
  <2> QED
    BY <2>1, <2>2
<1>4. ASSUME NEW r \in Requests, Write(r)
      PROVE  Ledger!Next \/ LedgerStays
  BY <1>3, <1>4, InsertClientMeets, InsertAssetEnters, InsertOrderEnters, InsertJobEnters,
     InsertPaymentEnters, InsertGoodEnters, UpdateClientStays, UpdateAddressStays,
     UpdateAssetStays, UpdateOrderRedirects, UpdateGoodStays DEF Write
<1> QED
  BY <1>1, <1>2, <1>4 DEF Next, AllDone

\* For any number of requests and clients, the tables are a ledger: whatever is
\* added is added once, for a client that is there, refers to what is that
\* client's, and stays; only an edit of an order points it at another address, of
\* whichever client, that was added before. The handlers read before they write and hold no lock
\* (handles/orders.go:150, handles/jobs.go:183).
THEOREM Refinement == Spec => ImplementsBooks
<1>1. Init => Ledger!Init
  BY InitOpensBooks
<1>2. IInv /\ [Next]_vars =>
        [Ledger!Next]_<<{c \in Ids : clients[c] # NoRow}, [t \in Things |-> Owner(t)],
                        [t \in Things |-> Refers(t)]>>
  BY StepKeepsBooks DEF LedgerStays
<1> QED
  BY <1>1, <1>2, Invariance, PTL DEF Spec, ImplementsBooks, Ledger!Spec
=============================================================================
