----------------------------- MODULE ListQueries -----------------------------
(***************************************************************************)
(* GET /jobs, /orders, /payments and /goods with their filters, and the    *)
(* addresses and assets of a client: how the handlers resolve the query    *)
(* string, how each List puts its WHERE clause together, and how the rows  *)
(* and the names of their clients, two reads, reach the page. Clients and  *)
(* rows may be added, and clients archived, while a page is served; what   *)
(* was inserted stays as it is here.                                       *)
(*                                                                         *)
(* The three columns have one name here: client is client_id or owner_id,  *)
(* parent is order_id or, for goods, job_id, kind is status or provider.   *)
(* Addresses and assets have no parent.                                    *)
(***************************************************************************)
EXTENDS Integers, Sequences

CONSTANTS
  Clients, Parents, Kinds,
  Archived,  \* the kind of an address or asset that is archived
  Rows,      \* rows of the listed table
  Empty,     \* the empty string: no filter
  NoSuch     \* a value of the query string that nothing has

ASSUME ListAssumption ==
  {Empty, NoSuch} \cap (Clients \cup Parents \cup Kinds) = {} /\ Archived \in Kinds

VARIABLES
  clients,   \* table clients: active, archived, or none yet
  owner,     \* client_id of every order or job that may be a parent
  table,     \* the listed table: client, parent and kind of each row
  there,     \* rows that were inserted already
  pc,        \* idle, opened, names, parent, client, select, rows, done
  url,       \* page and query string
  names,     \* clients that the page can name
  filter,    \* the ListFilter being filled in
  left,      \* rows of the result set that are still to be scanned
  shown,     \* rows scanned into the slice
  status,    \* the HTTP status: the first one written stays
  listed,    \* the list was rendered
  broke,     \* history: the database failed while it served the page
  before,    \* history: the clients and rows there were when it was opened
  moved      \* history: clients added, archived or taken back since then

store == <<clients, owner, table, there>>
vars == <<store, pc, url, names, filter, left, shown, status, listed, broke, before, moved>>

Columns == {"client", "parent", "kind"}
Filters == [client : Clients \cup {Empty, NoSuch}, parent : Parents \cup {Empty, NoSuch},
            kind : Kinds \cup {Empty, NoSuch}]
Belongings == {"addresses", "assets"}
Pages == {"jobs", "orders", "payments", "goods"} \cup Belongings
NoFilter == [client |-> Empty, parent |-> Empty, kind |-> Empty]

Met == {c \in Clients : clients[c] # "none"}

TypeOK ==
  /\ clients \in [Clients -> {"active", "archived", "none"}]
  /\ owner \in [Parents -> Clients]
  /\ table \in [Rows -> [client : Clients, parent : Parents, kind : Kinds]]
  /\ there \subseteq Rows
  /\ pc \in {"idle", "opened", "names", "parent", "client", "select", "rows", "done"}
  /\ url \in [page : Pages, asked : Filters, showArchived : BOOLEAN]
  /\ filter \in Filters
  /\ names \subseteq Clients /\ left \subseteq Rows /\ shown \subseteq Rows
  /\ status \in {"none", "ok", "badRequest", "notFound", "forbidden", "error"}
  /\ listed \in BOOLEAN /\ broke \in BOOLEAN
  /\ before \in [clients : SUBSET Clients, rows : SUBSET Rows]
  /\ moved \subseteq Clients

\* A job, a payment and a good are inserted with the client of their parent.
Init ==
  /\ clients \in [Clients -> {"active", "archived", "none"}]
  /\ owner \in [Parents -> Clients]
  /\ table \in [Rows -> [client : Clients, parent : Parents, kind : Kinds]]
  /\ \A r \in Rows : table[r].client = owner[table[r].parent]
  /\ there \in SUBSET {r \in Rows : table[r].client \in Met}
  /\ pc = "idle"
  /\ url = [page |-> "jobs", asked |-> NoFilter, showArchived |-> TRUE]
  /\ filter = NoFilter
  /\ names = {} /\ left = {} /\ shown = {}
  /\ status = "none"
  /\ listed = FALSE /\ broke = FALSE
  /\ before = [clients |-> {}, rows |-> {}]
  /\ moved = {}

---------------------------------------------------------------------------
(* The WHERE clause, as the sequence of its words *)

Given(x) == x # Empty
When(c, words) == IF c THEN words ELSE <<>>

\* afterClient: whether the code puts an AND after the condition on the client.
Where(f, afterClient) ==
  When(\E c \in Columns : Given(f[c]), <<"WHERE">>)
  \o When(Given(f.client), <<"client">> \o When(afterClient, <<"AND">>))
  \o When(Given(f.kind), <<"kind">>)
  \o When(Given(f.parent) /\ Given(f.kind), <<"AND">>)
  \o When(Given(f.parent), <<"parent">>)

\* Variants: the condition on the order is lost, or AND depends on the client.
JobsWhereNoParent(f) == Where([f EXCEPT !.parent = Empty], Given(f.kind))
JobsWhereSloppy(f) == Where(f, Given(f.client) \/ Given(f.kind))
JobsWhere(f) == Where(f, Given(f.parent) \/ Given(f.kind))
PaymentsWhere(f) == Where(f, Given(f.parent) \/ Given(f.kind))
GoodsWhere(f) == Where(f, Given(f.client) \/ Given(f.kind))
OrdersWhere(f) ==
  When(Given(f.client) \/ Given(f.kind), <<"WHERE">>)
  \o When(Given(f.kind), <<"kind">>)
  \o When(Given(f.client) /\ Given(f.kind), <<"AND">>)
  \o When(Given(f.client), <<"client">>)

BelongingsWhere(f) ==
  When(Given(f.client) \/ ~url.showArchived, <<"WHERE">>)
  \o When(~url.showArchived, <<"unarchived">>)
  \o When(Given(f.client) /\ ~url.showArchived, <<"AND">>)
  \o When(Given(f.client), <<"client">>)

Words == CASE url.page = "jobs" -> JobsWhere(filter)
           [] url.page = "orders" -> OrdersWhere(filter)
           [] url.page = "payments" -> PaymentsWhere(filter)
           [] url.page = "goods" -> GoodsWhere(filter)
           [] url.page \in Belongings -> BelongingsWhere(filter)

\* What MySQL accepts between FROM and ORDER BY.
Parses(words) ==
  words = <<>> \/
  /\ Len(words) % 2 = 0
  /\ words[1] = "WHERE"
  /\ \A i \in 2 .. Len(words) : IF i % 2 = 0 THEN words[i] \in Columns \cup {"unarchived"} ELSE words[i] = "AND"

\* The placeholders are bound in the order of the conditions.
Holds(r, word) ==
  IF word = "unarchived" THEN table[r].kind # Archived ELSE table[r][word] = filter[word]

Result(words) ==
  {r \in there : \A i \in DOMAIN words : words[i] \in {"WHERE", "AND"} \/ Holds(r, words[i])}

---------------------------------------------------------------------------
(* The handlers *)

\* The header is sent once, whatever is written after it.
WriteHeader(s) == status' = IF status = "none" THEN s ELSE status

Stop(s) ==
  /\ pc' = "done"
  /\ WriteHeader(s)
  /\ UNCHANGED <<url, names, filter, left, shown, listed>>

\* The addresses and assets of a client are at a path, with or without the
\* archived ones. They need no names and no parent.
Open ==
  /\ pc = "idle"
  /\ url' \in [page : Pages, asked : Filters, showArchived : BOOLEAN]
  /\ IF url'.page \in Belongings
     THEN /\ url'.asked.parent = Empty /\ url'.asked.kind = Empty /\ Given(url'.asked.client)
          /\ pc' = "client" /\ filter' = url'.asked
     ELSE /\ url'.page = "orders" => url'.asked.parent = Empty
          /\ url'.showArchived
          /\ pc' = "opened" /\ UNCHANGED filter
  /\ before' = [clients |-> Met, rows |-> there]
  /\ UNCHANGED <<names, left, shown, status, listed, moved>>

\* An unknown status is answered with 400 and the handler does not return.
\* paymentsHandler looks at the provider here and nowhere else.
CheckKind ==
  /\ pc = "opened"
  /\ IF url.asked.kind = NoSuch THEN WriteHeader("badRequest") ELSE UNCHANGED status
  /\ filter' = IF url.page = "payments" THEN [url.asked EXCEPT !.kind = Empty] ELSE url.asked
  /\ pc' = "names"
  /\ UNCHANGED <<url, names, left, shown, listed>>

Named(ns) ==
  /\ pc = "names"
  /\ pc' = "parent"
  /\ names' = ns
  /\ UNCHANGED <<url, filter, left, shown, status, listed>>

\* Variant: the page asks for the archived clients.
ReadClientsArchived == Named({c \in Clients : clients[c] = "archived"})

\* clients.List, without the archived ones, for the names on the page.
ReadClients == Named({c \in Clients : clients[c] = "active"})

\* Variant: the client is taken from the wrong column of the order.
ResolveParentByOrderID ==
  /\ pc = "parent"
  /\ pc' = "client"
  /\ filter' = [filter EXCEPT !.client = IF Given(filter.parent) THEN filter.parent ELSE @]
  /\ UNCHANGED <<url, names, left, shown, status, listed>>

\* The order or the job that is asked for decides the client. It is there if its
\* client is.
ResolveParent ==
  /\ pc = "parent"
  /\ IF ~Given(filter.parent)
     THEN pc' = "client" /\ UNCHANGED <<url, names, filter, left, shown, status, listed>>
     ELSE IF filter.parent = NoSuch \/ owner[filter.parent] \notin Met THEN Stop("notFound")
     ELSE IF filter.client \notin {Empty, owner[filter.parent]} THEN Stop("forbidden")
     ELSE /\ pc' = "client"
          /\ filter' = [filter EXCEPT !.client = owner[filter.parent]]
          /\ UNCHANGED <<url, names, left, shown, status, listed>>

\* An archived client is found, too. The pages of its addresses and assets do
\* not tell a client that is not there from a failure.
ResolveClient ==
  /\ pc = "client"
  /\ IF filter.client \in Met \cup {Empty}
     THEN pc' = "select" /\ UNCHANGED <<url, names, filter, left, shown, status, listed>>
     ELSE Stop(IF url.page \in Belongings THEN "error" ELSE "notFound")

Select ==
  /\ pc = "select"
  /\ IF Parses(Words)
     THEN /\ left' = Result(Words)
          /\ pc' = "rows"
          /\ UNCHANGED <<url, names, filter, shown, status, listed>>
     ELSE Stop("error")

Scan(r) ==
  /\ pc = "rows"
  /\ r \in left
  /\ left' = left \ {r}
  /\ shown' = shown \cup {r}
  /\ UNCHANGED <<pc, url, names, filter, status, listed>>

Render ==
  /\ pc' = "done"
  /\ listed' = TRUE
  /\ WriteHeader("ok")
  /\ UNCHANGED <<url, names, filter, left, shown>>

\* Variant: the loop is left after a row.
EndAfterRow == pc = "rows" /\ (left = {} \/ shown # {}) /\ Render
EndOfRows == pc = "rows" /\ left = {} /\ Render

\* rows.Next() is false when the connection breaks or the context is done, too;
\* nobody asks rows.Err(), and what was scanned is the list, also that of names.
RowsBreak ==
  \/ pc = "rows" /\ left # {} /\ Render
  \/ \E ns \in SUBSET Clients : ns \subseteq {c \in Clients : clients[c] = "active"} /\ Named(ns)

\* A statement fails before it has rows, or a row does not fit into its struct:
\* the loop ends with an error. A Get cannot tell: it says not found when its
\* only row does not arrive.
StatementFails ==
  \/ pc \in {"names", "parent", "client", "select"} /\ Stop("error")
  \/ pc = "rows" /\ left # {} /\ Stop("error")
  \/ pc = "parent" /\ Given(filter.parent) /\ Stop("notFound")
  \/ pc = "client" /\ Given(filter.client) /\ url.page \notin Belongings /\ Stop("notFound")

---------------------------------------------------------------------------
(* What other requests do meanwhile *)

Serving == pc \in {"opened", "names", "parent", "client", "select"}

\* A client is added, archived, or taken back: one, once, while a page is served.
MoveClient(c) ==
  /\ moved = {}
  /\ clients' = [clients EXCEPT ![c] = IF @ = "active" THEN "archived" ELSE "active"]
  /\ moved' = {c}
  /\ UNCHANGED <<owner, table, there>>

AddRow(r) ==
  /\ r \notin there /\ table[r].client \in Met
  /\ there' = there \cup {r}
  /\ UNCHANGED <<clients, owner, table, moved>>

Others ==
  /\ Serving
  /\ (\E c \in Clients : MoveClient(c)) \/ (\E r \in Rows : AddRow(r))
  /\ UNCHANGED <<pc, url, names, filter, left, shown, status, listed, broke, before>>

Finished == pc = "done" /\ UNCHANGED vars

Handler ==
  \/ CheckKind \/ ReadClients \/ ResolveParent \/ ResolveClient \/ Select \/ EndOfRows
  \/ \E r \in Rows : Scan(r)

Step ==
  \/ Open /\ UNCHANGED <<store, broke>>
  \/ Handler /\ UNCHANGED <<store, broke, before, moved>>

Fault == (RowsBreak \/ StatementFails) /\ broke' = TRUE /\ UNCHANGED <<store, before, moved>>

Spec == Init /\ [][Step \/ Fault \/ Others \/ Finished]_vars

---------------------------------------------------------------------------
(* Properties *)

Meets(r, columns) == \A c \in columns : url.asked[c] \in {Empty, table[r][c]}

\* The filters a page applies: paymentsHandler drops the provider, although
\* payment.go:25 has it in ListFilter and gui/payments/list-client.html:14 presents
\* it as the current one.
Applied == IF url.page = "payments" THEN {"client", "parent"} ELSE Columns

Asked(r) == Meets(r, Applied) /\ (url.showArchived \/ table[r].kind # Archived)

\* No list shows a row that the query string excludes, a row of another client
\* or order among them, nor an archived address or asset that is not asked for;
\* a connection that breaks can only shorten it. A page whose status was refused
\* goes on with its list (handles/jobs.go:254), and that list is empty.
OnlyAsked == listed => \A r \in shown : Asked(r)

\* Without failures a list has every row that was there before the page was asked
\* for (jobs.go:88-100: the loop stops at the end).
WholeList == listed /\ ~broke => {r \in before.rows : Asked(r)} \subseteq shown

\* Every row of a list is shown with the name of its client, although names and
\* rows are two reads (handles/jobs.go:260, 309): a row has none if its client is
\* archived, or has moved while the page was served.
RowsAreNamed ==
  listed /\ ~broke /\ url.page \notin Belongings =>
    \A r \in shown : LET c == table[r].client IN
      c \in names \/ clients[c] = "archived" \/ c \in moved

\* Clients that exist and agree with the parent: a page has to come.
Sensible ==
  /\ NoSuch \notin {url.asked.client, url.asked.parent, url.asked.kind}
  /\ url.asked.client \in {Empty} \cup before.clients
  /\ Given(url.asked.parent) =>
       /\ owner[url.asked.parent] \in before.clients
       /\ url.asked.client \in {Empty, owner[url.asked.parent]}

\* The one filter whose SQL is not valid: the owner alone, on the goods page.
OwnerAlone ==
  url.page = "goods" /\ Given(url.asked.client) /\ ~Given(url.asked.parent) /\ ~Given(url.asked.kind)

\* Without failures every other sensible filter is answered with its list: the
\* pieces of the WHERE clause always fit together.
SensibleIsListed ==
  pc = "done" /\ ~broke /\ Sensible /\ ~OwnerAlone => listed /\ status = "ok"

\* goods.go:29 "ListFilter sets the filter settings", OwnerID the first of them:
\* asking for the goods of one owner lists them.
OwnerFilterWorks ==
  pc = "done" /\ ~broke /\ Sensible /\ url.page = "goods" => listed

---------------------------------------------------------------------------
(* The inductive invariant: how far the page is tells what the filter, the    *)
(* names and the rows have to do with the query string.                       *)

\* Rows, clients and what there was when the page was opened.
StoreAgrees ==
  /\ \A r \in Rows : table[r].client = owner[table[r].parent]
  /\ \A r \in there : table[r].client \in Met
  /\ before.clients \subseteq Met /\ before.rows \subseteq there

\* The query string of a page is one that its handler can be asked.
PageAgrees ==
  pc # "idle" =>
    IF url.page \in Belongings
    THEN url.asked.parent = Empty /\ url.asked.kind = Empty /\ Given(url.asked.client)
    ELSE url.showArchived /\ (url.page = "orders" => url.asked.parent = Empty)

Resolved == pc \in {"client", "select", "rows"}

\* The filter is the query string, with the client of the parent once it is read.
FilterAgrees ==
  /\ pc \in {"names", "parent"} => filter.client = url.asked.client
  /\ pc \in {"names", "parent"} \/ Resolved =>
       /\ filter.parent = url.asked.parent
       /\ filter.kind = IF url.page = "payments" THEN Empty ELSE url.asked.kind
  /\ Resolved =>
       IF Given(url.asked.parent)
       THEN /\ url.asked.parent \in Parents /\ filter.client = owner[url.asked.parent]
            /\ url.asked.client \in {Empty, owner[url.asked.parent]}
       ELSE filter.client = url.asked.client

RowsAgree ==
  /\ pc \notin {"rows", "done"} => left \cup shown = {}
  /\ left \cup shown \subseteq there
  /\ \A r \in left \cup shown : Asked(r)
  /\ pc = "rows" => {r \in before.rows : Asked(r)} \subseteq left \cup shown
  /\ listed => pc = "done"

NamesAgree ==
  (pc \in {"parent", "client", "select", "rows"} \/ listed) /\ ~broke /\ url.page \notin Belongings =>
    \A c \in Met : c \in names \/ clients[c] = "archived" \/ c \in moved

StatusAgrees == pc = "idle" \/ (pc # "done" /\ ~broke /\ Sensible) => status = "none"

IInv ==
  TypeOK /\ StoreAgrees /\ PageAgrees /\ FilterAgrees /\ RowsAgree /\ NamesAgree /\ StatusAgrees
  /\ WholeList /\ SensibleIsListed
=============================================================================
