# A verification of embroidery

embroidery is the back office of an embroidery store: a Go web server over
MySQL with pages for clients, their addresses and assets, orders, the jobs of an
order, payments, goods, and the employees who may sign in. The repository has
no tests. This directory holds TLA+ models of its logic, the TLC configurations
that check them, and TLAPS proofs about every module.

Sources are quoted relative to the root of the repository.

## 1. Inventory

There are three layers. `*/handles/*.go` are the HTTP handlers; `jobs/`,
`orders/`, `payment/`, `goods/`, `clients/`, `address/`, `asset/`, `employees/`
and `auth/` turn a call into SQL; `server/` starts everything. Nothing is kept
in memory between requests: state is the MySQL database (`embroidery.sql`) and
the cookies of the browsers. net/http serves each request in a goroutine of its
own, so any two handlers interleave between two statements.

| component | state | operations | what must hold |
|---|---|---|---|
| jobs, adding (`jobs/jobs.go:103-186`, `jobs/handles/jobs.go:100-219`) | tables `job`, `order.price_total`; a transaction with a one-second deadline | insert the job, add its price to the order, commit or roll back, answer | the total is the sum of the jobs; answers are true; nothing stays locked; every request is answered |
| jobs, editing (`jobs/jobs.go:189-228`, `jobs/handles/jobs.go:40-98`, `:221-246`) | `status`, `start_time`, `end_time` | read, read again, UPDATE | times agree with the status and with each other, whatever races |
| orders (`orders/`) | table `order` | open with the first address of the client, edit status and address | what hangs on an order is its client's; close time is that of the edit that closed |
| clients, addresses, assets (`clients/`, `address/`, `asset/`) | tables of the same names | add, edit, archive, list | rows refer to rows of the same client; archived ones are not offered |
| payments, goods (`payment/`, `goods/`) | tables of the same names | add, edit the status of a good, list | client of the order, owner of the job |
| lists (`List` of jobs, orders, payments, goods, addresses, assets and their handlers) | none | query string, filters, WHERE clause, row loop, page | only what was asked; all of it; with the names of the clients; every sensible filter works |
| auth, employees (`auth/`, `employees/`, `handles/handles.go`) | table `authentication`, session cookies | login, logout, add and edit an employee, the guard of every page | sessions are earned; an edit keeps what it was not given |
| edit pages (`gui/*/client-*.html`, `gui/clients/edit.html`) | the page in the browser | filled from a row, changed by a user, posted | what is offered is taken; an edit changes what its user changed |
| server life cycle (`server/server.go`, `main.go`) | listener, context, wait group | start, serve, shut down | no request is cut before the context ends; the process ends when it is told to |
| connections (`*sql.DB` in `server/server.go`) | pool of MySQL connections | taken by every query, given back when rows are closed | connections come back; requests do not wait for each other |
| templates, route tables, password tool (`sitetemplate/`, `gui/`, `modules/`, `setup/`) | none | rendering, `init`, a one-shot command | not state machines |

How they interact. Handlers call the packages directly; packages share nothing
but tables. An order refers to an address and a client, a job to an order, an
asset and a client, a payment to an order, a good to a job, each reference
checked by a foreign key, but no key says that they are of *one* client: that is
the handlers' doing, from rows they read before. Handlers that add use
`context.Background()`, handlers that edit use `r.Context()`, which ends when
the browser goes away.

What is hard here, and hard to test:

- a transaction that takes a shared lock (foreign key) and then an exclusive one
  on the same row, under a deadline that database/sql enforces from another
  goroutine;
- read, then write without a transaction everywhere else: what was read may be
  old when it is used;
- answers that are not true: replies of MySQL get lost, rows stop early
  (`rows.Err` is never asked), and several handlers go on after an error page
  because a `return` is missing;
- WHERE clauses put together by hand in six places;
- rows that nobody closes: every `Get` keeps its connection until the context of its
  request ends, and that of a login never does;
- pages that are posted long after they were filled, some of which show something
  else than the row they are about;
- a shutdown that does not wait for the requests in flight, and none at all under `Start`;
- sessions that live in cookies only, with responses that arrive in any order.

`PROJECT.json` lists every such place with its line ("hazards") and the
properties that watch it.

## 2. Modules

| module | what it is |
|---|---|
| `PriceLedger` | abstract: adding a job stores it and adds its price in one step |
| `JobInsert` | `POST` of a new job: handler, transaction, InnoDB locks, deadline, failures; extends and refines `PriceLedger` |
| `SumLemmas` | what the proofs need of sums over finite sets, proved by induction over subsets |
| `JobInsertProofs` | the total of the ledger, and the invariants, the waiting and the refinement of `JobInsert`, proved |
| `JobEdit` | `POST` of a job's status: two reads and one write of racing requests |
| `JobEditProofs` | its invariants and the behaviour of an edit alone, proved |
| `Books` | abstract: things are entered once for a client, refer to what is that client's, and stay |
| `Records` | clients, addresses, assets, orders, jobs, payments and goods, and the twelve kinds of requests that add or edit them; refines `Books` |
| `RecordsProofs` | its invariants, the behaviour of an add alone and the refinement of `Books`, proved |
| `ListQueries` | the four filtered lists and those of addresses and assets: filters, SQL text, rows, the names of clients |
| `ListQueriesProofs` | what its clauses select, its invariants, proved |
| `Forms` | the six pages that edit a row, as round trips of a GET and a POST |
| `FormsProofs` | what its pages offer and its edits mean, proved |
| `Access` | accounts, cookies, login, logout, the employee forms |
| `AccessProofs` | its invariants and the behaviour of an edit alone, proved |
| `Leases` | abstract: requests borrow connections and settle their debts |
| `ConnPool` | every handler as a sequence of calls, and the connections they hold; refines `Leases` |
| `Server` | the life of the process around the handlers of `ConnPool`, which it extends |
| `ServerProofs` | what `ConnPool` has in use, whom it starves, that it implements the steps of `Leases`, and who cuts requests short, proved |
| `MC*` | each of them on small sets, with its symmetry where it has one |

`Records` treats adding a job as one write, which is sound because `JobInsert`
implements `PriceLedger`. `Forms` takes the POST of `Records` and `JobEdit` for one
row and adds the page that was filled before. `Server` composes with `ConnPool` by extending it: when the process
dies, `Die` ends every request and connection; what that does to a transaction is
`Crash` of `JobInsert`. `Records` leaves the status of a job to `JobEdit` and
`price_total` to `JobInsert`. `ListQueries` starts from tables in which a row
has the client of its parent; that is `OneClient` of `Records`, proved (of the jobs,
payments and goods it holds whatever address an edit of the order posts).

Definitions that start with the comment "Variant" are plausible mistakes. No
specification uses them: they show that each property notices a mistake.

### 2.1 JobInsert

| code | model |
|---|---|
| `jobAddHandler` and `jobPostAddHandler` up to `jobs.Insert` | `JobPost`, `JobPostRejected` |
| `db().BeginTx` (`jobs/jobs.go:124`) | `BeginTx`, `BeginTxFails` |
| sending the INSERT and the UPDATE; their execution at MySQL | `SendInsert`, `SendUpdate`; `ExecInsert`, `ExecUpdate` |
| `tx.Commit` | `Commit`, `CommitTooLate`, `CommitReplyLost` |
| deferred `tx.Rollback`, answer 500 | `Fail` |
| the deadline and the goroutine of database/sql that rolls back | `Deadline`, `ExpiredRollback` |
| InnoDB locks and deadlock detection | `CanShare`, `CanExclude`, `DeadlockedWith`, `DeadlockVictim`, `Release` |
| a statement that fails; a lost connection; the death of the server | `StatementFails`; `ConnectionLost`; `Crash` |

`BeginTxFails` ends with a dropped connection, not with an error page: the
rollback is deferred before the error is looked at (`jobs/jobs.go:125`), so it
panics on a nil transaction and net/http recovers.
`price_total` keeps the width of `bigint(20)` as `-MaxBigint .. MaxBigint`;
a sum that leaves it is error 1690 of MySQL (`Fits`).
A statement that fails leaves the transaction its locks until the handler rolls it back
(InnoDB's own lock wait timeout of 50 s is an instance, and so is a foreign key); a connection that is lost takes
the transaction with it. An `UPDATE` of the same order by the page of the order delays or fails these
statements, no more, and is covered in the same way.

### 2.2 JobEdit

`HandlerGet` is the read of `jobEditHandler` with the check of the form,
`UpdateGet` the second read at the start of `UpdateStatus`, `Write` the one
UPDATE it puts together: `Changes`, `Ends` and `Starts` are its three conditions.
`Starts` uses the first read and `Changes` the second. `Fail` and
`WriteReplyLost` are errors before and after the UPDATE took effect. `Tick` is
the clock of MySQL, taken to be monotonic (`DATETIME` has no zone: the hour that
summer time repeats is left out). `asset_id` is rewritten with what was read and
never changes.

### 2.3 Records

A handler reads in one step (`AddClient` ... `EditGood`, all made of `Take`) and
writes in one step (`InsertClient` ... `UpdateGood`). Reads of one handler may be
one step because the columns that tie rows together never change and no row is
ever deleted; only statuses can be overtaken, and a handler reads at most one list
of those. `Refuse` is every answer before the write (bad form, no such row, another
client's row, no address); `Fail` is a statement that is not executed; `Saved`
includes the reply of MySQL that gets lost. A request that adds stands for the
uuid it draws.

`Listed` is `address.List` and `asset.List` of one client without archived rows.
`Stamps` keeps a detail of `orders.Update`: it compares the stored status (upper
case) with the posted one (lower case), which differ always, so that posting
`done` again stamps `close_time` again. `InsertOrder` stamps it already when the order is opened
(`orders/orders.go:98`). `InsertAddress` keeps the foreign key of
`embroidery.sql:24`, which is on the wrong column; the addresses at the start were
entered by hand, with the key of a client. `GoodSwitch` keeps the misspelling of
`goods/handles/goods.go:232`.

`Ledger` sees the six tables with an owner as one: a thing is a pair of a table and a key,
its owner the client in its row (`owner_id` of a good), and it refers to the rows that
its foreign keys name. `Books` lets a thing be entered only for a client that is there and only
with references to what that client has; only an order may be redirected, to one address that is there. The
addresses, the orders, and so on of the start are those of `Init`.

`EditOrder` posts any address, of whatever client, or none: the page offers those of the client, and
`orders/handles/orders.go:187-202` hands on what comes without a look at it. `OneClient` therefore says of the
address of an order that it is its client's unless an edit of that order posted it (`Posted`); of its payments and jobs,
and of their assets and goods, it says so without a condition.

Left out: names, e-mails, prices and other data; five of seven statuses of an
order and three of five of a good, which the code treats alike; MySQL without strict mode.

### 2.4 ListQueries

`Where` and the five `...Where` operators are the text of the WHERE clause as a
sequence of words, `Parses` what MySQL accepts, `Result` what it selects.
`CheckKind`, `ResolveParent` and `ResolveClient` are the handlers' checks in their order, with
the missing `return` after an unknown status (`WriteHeader` keeps the first
header). `ReadClients` is `clients.List`, for the names on the page, before the rows are
selected. `Scan`, `EndOfRows` and `RowsBreak` are the loops over rows; a row that cannot be scanned ends
its loop with an error (`StatementFails`), a connection that breaks without one. `Others` are requests
that add or archive a client, or add a row, while the page is served: a client that moves twice is
not told apart from one that moves once, so that one moves, once. Rows are not edited meanwhile: the
SELECT is one statement, and what it returned is what was true then.

`OnlyAsked` and `WholeList` are about the filters that a page applies (`Applied`). On the page of
payments the provider is not one of them: it is validated
(`payment/handles/payment.go:137-139`), shown as the current one and never put into the
`ListFilter`, although `payment/payment.go:25-30` has a field for it. Every provider is listed.

### 2.5 Access

`Open` reads the cookie; `LookUp` and `CheckPassword` are the login, apart because
bcrypt takes its time (`MayLogIn` is the query, which leaves revoked accounts out); `EditRead`, `EditCheck` and `EditSave` are the edit of an
employee; `Arrive` brings a response to its browser, in any order. The login of
a browser that is signed in is answered 409 and runs on, as in the code
(`auth/handles/auth.go:48-50`). `raced` remembers that another request wrote to the accounts since this one
read. A login that was raced may be let into an account that has just been revoked, or with a password that has just been
replaced; `SoloLoginIsCurrent` says that no other one is. bcrypt is taken to be injective, cookies to be
authentic (their key is the server's). A GET of `/login` redirects
to `/gui/login`, which has no route; nothing is changed by it.

### 2.6 Forms

`Show` and `Render` are the two reads of a GET, `Post` the read and the checks of a POST, `Write` its
UPDATE. Between them lies the user, who may take any time; `stale` remembers that
something was written since the page was read. `Page` is what the browser shows: three of the six
pages do not show the row. `gui/address/client-address.html:35` has two `value` attributes, of
which the first counts; the page of a good selects its status and amount by its *job*
(`gui/goods/client-good.html:25,32`), so that no option is selected and the first is sent; the page of an
order only offers addresses that are not archived (`orders/handles/orders.go:60`), and fewer when the connection breaks
while they are read, for nobody asks `rows.Err` (`address/address.go:76-88`, `Listings`); when the
order's own is not among them the first that is there is sent. `Misled` names these cases, and the property
about an edit alone excludes them and no more. Of a good's page only the status is read by the
handler; what is typed into the other fields is lost.

A text field stands for all of the page, and `""` for contents that are refused: no name, or, of a client, an e-mail
without an `@` (`clients/handles/clients.go:200-204`). Of an address the zip code stands for them. It is typed as a text,
loses its dashes in the handler (`address/handles/address.go:215`) and what is no part of a number in its column
(`embroidery.sql:19`); `Kept` is what remains, `Unstorable` what MySQL does not take.

### 2.7 ConnPool

A handler is a sequence of calls (`JobEdit` ... `Login`), taken from the source in the order in
which it makes them; a GET or a form that is refused ends at `"page"`. A call prepares
its statement on a connection, gives it back, and takes one again to run it (each call
prepares its statement anew; nothing is cached). `OneRow` is a `Get` that found its row and returned without closing the
rows: the connection is held until `CloseRows`, the goroutine of database/sql that waits for the
context of the request. `LoginRow` is `GetAuthenticationByEmail` under `context.Background()`: its connection is
`kept` until MySQL closes it (`wait_timeout`). A call that is `Detached` runs under
`context.Background()` and does not notice a browser that leaves. The pool has no limit of its own
(`sql.Open` sets none); at the limit of MySQL a connection is refused at once (`Starve`). Idle
connections of the pool are left out: they are used before a new one is opened.

### 2.8 Server

`OpenDB` and `Listen` are the start, `Shutdown` is `waitServer`, `Exit` the return to `main`.
`Shutdown` is called with the context that has just ended: it closes the listener, looks once
whether requests are in flight, and returns; then the process ends with them. It is an error, and exit
status 1, only if the context ended by a deadline (`context.Canceled` is not reported).
`ListenerFails` leaves the process `deaf`: `serve` waits for `waitServer`, which waits for the
context. Browsers that keep their connections open are still served (`Serves`). `Start` replaces the context it is given by one that never ends
(`server/server.go:47`), so that under `main` such a process hangs (`Hangs`) and never exits;
and nothing in `main` shuts the server down but a signal, which is `Crash` to the other modules. Under an exported `Serve` with a context that
can end, it is stopped. `Serve` after `Shutdown` returns `ErrServerClosed` at once, as net/http says.

## 3. What is checked

| run | bounds | shows |
|---|---|---|
| `job_insert` | 3 requests, 1 order, prices -1 and 2, totals in -4..3, with fairness | `TotalIsSum`, `RedirectedIsStored`, `FailedIsNotStored`, `AnsweredHoldsNoLock`, `NoStandstill` (whoever waits for a row waits for somebody who can go on or is rolled back) and the inductive invariant through every deadline, deadlock, failure and crash; `Answered`; the transaction implements `PriceLedger` |
| `job_insert_calm` | 2 requests, no failures | refutes a comment: finding 1 |
| `job_edit` | 3 requests, clock 0..2 | `TimesFollowStatus`, `DoneAfterStart`, `SoloEditKeepsTimes`, `RedirectMeansStatus` and the inductive invariant |
| `lists` | 2 clients, parents, kinds and rows, all tables, all query strings; a client and both rows may move or come while the page is served | `OnlyAsked`, `WholeList`, `RowsAreNamed`, `SensibleIsListed` |
| `list_owner` | the same | finding 2 |
| `records` | 2 requests of any kind, 2 clients with an order, a job and a good each | `OneClient`, `AnswersAreTrue`, `ClosedByDone`, `SoloAddsAreCurrent` and the inductive invariant; the tables implement `Books` |
| `records_address` | the same | finding 4 |
| `access` | 2 requests, 2 browsers, 1 seeded employee, 2 e-mails and passwords, 2 levels | `SessionsAreProven`, `ConflictKeepsSession`, `SoloLoginIsCurrent`, `SoloEditKeepsPassword` |
| `access_password` | the same | finding 3 |
| `forms` | 2 users, one row of each of the 6 kinds, 2 texts, 5 things to type for a zip code, 2 addresses in a list that may be cut short | `OfferedIsTaken`, `RowIsSomebodysForm`, `SoloEditMeansIt` |
| `conn_pool` | 2 requests at a time, again and again, 5 connections, the 9 scripts of 6 handlers | `Answered`, `StarvedOnlyWhenCrowded` and the inductive invariant, with never more than the limit in use; the handlers implement `Leases` |
| `server` | 2 requests at a time, 3 connections, a payment, a job, a login | `CutOnlyWhenDone`, `Stops` |

Why the bounds are enough. Three requests on one order contain every pair that
shares its row, with a third that waits behind them; 2 + 2 leaves
the range of the totals. Requests for different orders share nothing but the clock, and the
proofs are for any number of orders. Three edits contain a race of two with a third that
changes what both saw; three instants tell before, same and after apart. The WHERE
clause depends on which filters are given and on nothing else, and two values
of each tell a matching row from one that does not. In `Records` a hazard takes one
request that reads and one that writes in between; the theorems cover more. Two pages of one row make every pair of
a page that is out of date and one that is not. Five connections are the most that one request can have
out (`Peak`, from the scripts; that it is enough for each is a lemma, `FewGets`): a request alone fits, and two do not, so that each
is starved at each of its calls; the scripts that are left out are no longer and have no
other call in them. `Server` needs requests in flight, detached and not, and a login; three
connections starve them, too. In
`Access` a password is lost with two edits; a login can race an edit or a logout.
Requests are never used twice: a browser that posts again is another request.

Deadlock is checked in every run: when all requests are answered the model stutters
explicitly (`AllDone`, `Finished`), and `Server` when the process has exited or hangs.

**Fairness.** `JobInsert` needs weak fairness of each request's
handler and of the rollback that database/sql starts. It is justified by the
goroutine that net/http gives each request and by InnoDB, which grants a free lock and
breaks a cycle. Nothing is assumed of browsers, deadlines, failures or crashes.
`ConnPool` and `Server` assume that a handler does not stop by itself, that MySQL answers every
statement, and that database/sql closes rows whose context is done (a goroutine of its own); `Server`
also that the goroutines of `main` and `waitServer` run. A browser that leaves, a listener that fails, a
context that ends and `wait_timeout` are never assumed to happen.
`Access` states the same fairness for its handlers; a response need not arrive.

## 4. What is proved

For every number of requests, orders, clients and every price:

- **`JobInsertProofs`.** `IInv` is `TypeOK`, `Position` (what the program counter
  says of the form and the transaction), `Protected` (uncommitted writes are held by
  a lock, a total that waits to be committed fits), `Exclusion` (an exclusive lock is
  alone), `StoredIsConfirmed`, `RedirectedIsStored` and `AnsweredHoldsNoLock`. Why it is
  needed: that a new total fits is decided when the UPDATE runs and used when the
  transaction commits, and only exclusion keeps the total unchanged in between. From
  it: `TypeCorrect`, `RedirectIsTruthful`, `FailureIsTruthful`, `NothingLeftLocked`, and
  `Implementation`, the refinement of `PriceLedger` (`Install` is its step, everything
  else stutters).
  `TotalIsTheSum` is proved of the ledger alone (`LedgerTotal`: a new row is one more summand of the
  total of its order, and of no other) and carried over by `Implementation`.
  `NobodyWaitsInVain` needs one more invariant, `Holding`: a lock is shared until the total is updated and
  exclusive from then on. Then the holder of an exclusive lock waits for nobody, and two who share a row and both
  wait are a deadlock, which InnoDB breaks. `OneAttempt` counts the steps a request has left. The two are what
  `Answered` rests on beside fairness.
- **`SumLemmas`.** `SumFunctionOnSet` of the community modules adds the values of a set up in an order nobody
  knows, by a recursive function. The lemmas show that the function exists (`SumsExist`), that it
  does not matter for which other sets it is defined (`SumsAgree`), that any element can be taken out
  (`SumWithout`) or put in (`SumWith`), that the sum depends on the values only (`SumOfSame`), and how it is
  bounded (`SumIsBounded`). Induction is over the subsets of a finite set, from the minimal
  element of a well-founded relation (`SubsetInduction`), with a set in the place of a predicate.
- **`JobEditProofs`.** `IInv` is `TypeOK`, `ReadsAreOld`, `NotInTheFuture`,
  `TimesFollowStatus` and `DoneAfterStart`. The key is `ReadsAreOld`: a read may be stale,
  but a start time that was seen stays set, so that `Starts` never leaves a job in progress
  without one; and an end time is stamped from a clock that no start time is
  ahead of. From it: `TimesAreSet`, `Chronology`, `SoloEdits`, `Redirects`.
- **`RecordsProofs`.** `IInv` is `TypeOK`, `Fresh` (a request that has not written owns
  no row), `HeldHolds` (what a handler read still holds, statuses aside), `Current` (and
  statuses, too, unless the request was overtaken), `OneClient`, `AnswersAreTrue` and
  `ClosedByDone`. `OneClient` alone is not inductive: the row a request writes is built from
  what it read. Every write puts one row at one key (`IsPut`), so no row goes away or
  changes its client (`TiesStay`), and from that the other conjuncts follow in
  one lemma (`WriteIInv`). From it: `TypeCorrect`, `OneClientAlways`,
  `AnswersAreTrueAlways`, `ClosedByDoneAlways`, `SoloAdds`. The address of an order is where an edit may put another
client's: what was posted by then stays posted (`PostedStays`), which is all that the exception of `OneClient` needs.
  `Refinement`: the seven tables implement `Books`. The mapping keeps, of
  every row, its client and what it refers to. A write puts one row at one key (`IsPut`): a
  new client is `Meet`, any other new row `Enter`, because what the handler read is still there and
  of the same client (`HeldHolds`); an edit changes what `Books` does not see, or the
  address of an order, which is `Redirect`. Every read, answer and failure stutters.
- **`ListQueriesProofs`.** The proof has two halves. What the text of a clause selects: for each way to
  put a clause together, which words come out (`WhereIs`, `OrdersWhereIs`,
  `BelongingsWhereIs`), whether they parse and what they select (`ClausesSay`, `WordsSay`); the one case that does not parse
  is the owner alone on the page of goods. And how far a page is: `IInv` adds to the properties
  `StoreAgrees` (what was there before and who moved), `PageAgrees`, `FilterAgrees` (the filter is the query
  string, with the client of the parent once it is read), `RowsAgree`
  (read and unread rows are those asked for), `NamesAgree` and `StatusAgrees`. From it:
  `TypeCorrect`, `OnlyAskedRows`, `WholeLists`, `NamedRows`, `SensibleLists`.
- **`AccessProofs`.** `IInv` is `TypeOK`, `SessionsAreProven`, `ConflictKeepsSession`, `CookiesAreProven` (a cookie on its
  way names an employee whose password the browser gave, which is what a late response
  relies on), `ReadsAreProven` (so does the handler before it sets one) and `ReadsHold` (what a login or an edit has read
  is still there if nobody overlapped it, and a login has read an account that may log in). From it: `TypeCorrect`, `Sessions`,
  `Conflicts`, `SoloLogins`, `SoloEdits`.
- **`ServerProofs`.** `PoolInv` of `ConnPool` is `PoolTypeOK`, the limit on what is in use, and `Frugal`: a
  handler has so few connections that it can still take those of the calls that are left to it; without it,
  what a single request holds is not bounded, as `held` grows with each `Get`. The scripts are finite data: that
  none makes more than seven calls and four gets is read off them (`ScriptsAreShort`, `FewGets`),
  and what a call takes away from the rest is a lemma (`TailIsSuffix`, `GetsOfTail`). Every step of a
  request is shown once to be a move (`Moves`): one lease goes up by one, below the limit, or
  down by one, and no other changes (`StepMoves`). From the moves follow the invariant and the step of
  `Leases` at once (`MovesLease`), with one change in a sum. From it: `PoolInvariance`, `PoolTypeCorrect`, `PoolLeases` (the
  part of `ImplementsLeases` that is about steps, `Safety` of `Leases`) and `Starvation`, a count of who holds what when the limit is
  met. `HandlersEnd` counts the steps that a handler has left, 29 at the most. Of the server: `ServerInvariance`, `ServerTypeCorrect`,
  `ServerStarvation` and `ServerHandlersEnd`, for the pool moves while the server runs and is empty when the process has ended.
  `SInv` says that a process that has closed has a context that is done, for
  only then is Shutdown called. Each action of `ConnPool`, which gives every other answer, is
  shown never to answer "cut" (`PoolGives`). From it: `Cuts`.
- **`FormsProofs`.** `IInv` is `TypeOK`, `ReadsAreFaithful` and `PagesAreFaithful` (until somebody writes, the row a handler
  read and the row a page shows are the row), `FormsArePossible` (what was posted could be
  filled in) and `EachHasOne`. `UserByUser` turns it into a conjunction over users, so that a step
  disturbs its own user and leaves the others as sound as they were, or out of date
  (`OthersStaySound`). From it: `TypeCorrect`, `NoMixture`, `Taken`, and `SoloEdits`, by `MeantIsWritten`: one
  case per kind of page, and `Misled` is what is left where the case fails.

The assumptions are those of the modules on their constants (`LedgerAssumption`,
`AddersAssumption`, `EditAssumption`, `RecordsAssumption`, `ListAssumption`, `AccessAssumption`, `FormsAssumption`,
`ConnPoolAssumption`, `PagesAssumption`): prices are integers,
sets of names are disjoint, the values that stand for nothing are not among the others, there are finitely many
requests, and the limit of connections is a positive number.

Only model-checked: liveness under fairness (`Answered` of `JobInsert` and of `ConnPool`, `Stops`, and the
part of `ImplementsLeases` that debts are settled), which takes ENABLED and is out of reach of the
prover; the theorems that bound the steps of a handler, and the one about waiting, are
as near as it gets. And the findings, which are counterexamples.

## 5. Findings

Each is a run that TLC ends with a counterexample.

1. `job_insert_calm`: two jobs added to one order at once deadlock, because the
   INSERT shares the row of the order (foreign key) before the UPDATE wants it alone. One
   user gets 500 at once with nothing wrong. The comment at `jobs/jobs.go:119-121`
   takes a failure for "a bigger problem". Updating first would remove it.
2. `list_owner`: goods of one owner and no other filter: `goods/goods.go:50` tests
   the filter it has just used instead of the next one and leaves a dangling `AND`; 500.
3. `access_password`: an edit with an empty password writes back the hash it read; a
   password changed meanwhile is undone, against `gui/employees/edit.html:14`.
4. `records_address`: the foreign key of table `address` is on `address_id`
   (`embroidery.sql:24`): with this schema no address can be added, and an order needs one.

Met while modelling, and carved out of properties that hold otherwise, where the definitions name them:
the provider that no list applies (2.4, `Applied`), the address of another client that an edit of an order may post (2.3, `Posted`), the misspelt status of a good
(`goods/handles/goods.go:232`; `OfferedIsTaken`), the three pages that do not show their row (2.6,
`Misled`), the process that hangs (2.8, `Hangs`).

## 6. What is not modelled, and the plan

Not modelled on purpose: templates and static files, route tables, the password
tool, vendored libraries (modelled as far as the code relies on them: database/sql, the
MySQL driver, InnoDB, net/http, gorilla/sessions), and the list of employees, which has no filter.
The driver may repeat a statement on a connection that was dead before it was sent; nothing
was executed then, so that it is left out.
`gui/order/client-order.html:13-19` offers a new job for an open order only and a payment unless it is done or
canceled; the handlers do not look at the status, and a page that was open before still posts. `AddJob` and `Pay` of
`Records` do as the handlers do, and no property claims that a closed order takes no more.
`embroidery.sql:3-8` says that things of the store itself are "resolved at application level"; nothing in the
code does, so there is nothing to model.

Done, in order of importance: the transaction, the edits of a job, the lists, access, the
books and their ledger, the connections, the server, the edit pages, and the proofs about them. Every
safety property that a passing run checks is a theorem, and so are the refinements, but for the liveness
of `Leases`. What is left is liveness, for which the prover lacks ENABLED, and what the code does not
bound: the connections that the rows of logins keep come back by `wait_timeout` only, at any rate of
logins, so that there is no number to prove.
