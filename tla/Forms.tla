-------------------------------- MODULE Forms --------------------------------
(***************************************************************************)
(* The pages that edit a row, as round trips: a GET fills the page from    *)
(* the row, the user changes some of its fields, maybe much later, and a   *)
(* POST reads the row again and writes it. The page does not say from      *)
(* which row it was filled, and the POST does not ask.                     *)
(*                                                                         *)
(* One row, of any of the six kinds with such a page. "text" stands for    *)
(* the text fields of the page, and "" for contents that the handler does  *)
(* not take: no name, or the e-mail of a client without an "@". For an     *)
(* address its zip code stands for them, which changes on its way. Columns *)
(* that no page offers are left out; jobs have their times in JobEdit. A   *)
(* page that is posted again (with the back button) is the page of another *)
(* user here.                                                              *)
(***************************************************************************)

CONSTANTS
  Users,      \* browsers that edit the row
  Texts,      \* contents of the text fields that are taken
  Addresses,  \* addresses of the client of an order
  Nothing     \* no row, page or form

VARIABLES
  kind,      \* of the row: it never changes
  row,
  archived,  \* the addresses that are archived
  page,      \* the fields as the page shows them
  offer,     \* the addresses that the page of an order offers
  form,      \* the fields as they were posted
  seen,      \* the row as the handler read it
  pc,        \* away, shown, page, read
  stale,     \* history: something was written since the page was read
  answer     \* the last one: none, redirect, refused, failed, lost (in trouble)

vars == <<kind, row, archived, page, offer, form, seen, pc, stale, answer>>

Fields ==
  [client |-> {"text", "status"}, address |-> {"zip", "country", "status"},
   asset |-> {"text", "status"}, order |-> {"status", "address"},
   job |-> {"status"}, good |-> {"text", "status"}]

Kinds == DOMAIN Fields

\* The options of the pages, in the order in which they are shown; of the seven
\* statuses of an order and the five of a job and a good, those that differ.
Options ==
  [client |-> <<"active", "archived">>, address |-> <<"active", "archived">>,
   asset |-> <<"active", "archived">>, order |-> <<"done", "open">>,
   job |-> <<"created", "done", "in_progress">>,
   good |-> <<"acquired", "decommissioned", "in_use">>]

Offered(k) == {Options[k][i] : i \in DOMAIN Options[k]}

\* What the switches of the handlers accept. That of a good misspells one.
Accepted ==
  [client |-> {"active", "archived"}, address |-> {"active", "archived"},
   asset |-> {"active", "archived"}, order |-> {"done", "open"},
   job |-> {"created", "done", "in_progress"},
   good |-> {"acquired", "decomissioned", "in_use"}]

Countries == {"Brasil", "elsewhere"}
NoAddress == "none"  \* nothing was offered

\* The zip code of an address is a number in its column. It is typed as a text;
\* "-" is what the handler does not take: no digits, or an address without a name.
Zips == {"1310", "22041"}
TypedZips == Zips \cup {"01-310", "-", "centro"}

Values(k, x) ==
  CASE x = "text" -> Texts
    [] x = "zip" -> Zips
    [] x = "country" -> Countries
    [] x = "status" -> Offered(k)
    [] x = "address" -> Addresses

Rows(k) == {r \in [Fields[k] -> UNION {Values(k, x) : x \in Fields[k]}] :
              \A x \in Fields[k] : r[x] \in Values(k, x)}

ASSUME FormsAssumption == NoAddress \notin Addresses /\ "" \notin Texts

TypeOK ==
  /\ kind \in Kinds
  /\ row \in Rows(kind)
  /\ archived \subseteq Addresses
  /\ \A u \in Users :
       /\ page[u] # Nothing => DOMAIN page[u] = Fields[kind]
       /\ form[u] # Nothing => DOMAIN form[u] = Fields[kind]
       /\ seen[u] \in Rows(kind) \cup {Nothing}
  /\ offer \in [Users -> SUBSET Addresses]
  /\ pc \in [Users -> {"away", "shown", "page", "read"}]
  /\ stale \in [Users -> BOOLEAN]
  /\ answer \in [Users -> {"none", "redirect", "refused", "failed", "lost"}]

Init ==
  /\ kind \in Kinds
  /\ row \in Rows(kind)
  /\ archived = {}
  /\ page = [u \in Users |-> Nothing]
  /\ offer = [u \in Users |-> {}]
  /\ form = [u \in Users |-> Nothing]
  /\ seen = [u \in Users |-> Nothing]
  /\ pc = [u \in Users |-> "away"]
  /\ stale = [u \in Users |-> FALSE]
  /\ answer = [u \in Users |-> "none"]

---------------------------------------------------------------------------
(* The page *)

\* value="Brasil" comes before the value of the row, and the first one counts.
AddressPage(r) == [r EXCEPT !["country"] = "Brasil"]

\* The first of a list of addresses, in the order of their names.
First(listed) == CHOOSE a \in listed : TRUE

\* Variant: no address is selected.
OrderPageFirst(r, listed) ==
  [r EXCEPT !["address"] = IF listed = {} THEN NoAddress ELSE First(listed)]

\* The current address is selected if it is offered, otherwise the browser
\* selects the first option, if there is one.
OrderPage(r, listed) ==
  [r EXCEPT !["address"] =
     IF @ \in listed THEN @ ELSE IF listed = {} THEN NoAddress ELSE First(listed)]

\* The status is compared with the one of the job: no option is selected, and
\* the browser selects the first. The amount is the one of the job, too.
GoodPage(r, t) == [r EXCEPT !["status"] = Options["good"][1], !["text"] = t]

\* What the page of the row shows; t is the amount of the job of a good.
Page(r, listed, t) ==
  CASE kind = "address" -> AddressPage(r)
    [] kind = "order" -> OrderPage(r, listed)
    [] kind = "good" -> GoodPage(r, t)
    [] OTHER -> r

\* GET: the row is read.
Show(u) ==
  /\ pc[u] \in {"away", "page"}
  /\ seen' = [seen EXCEPT ![u] = row]
  /\ stale' = [stale EXCEPT ![u] = FALSE]
  /\ pc' = [pc EXCEPT ![u] = "shown"]
  /\ page' = [page EXCEPT ![u] = Nothing]
  /\ offer' = [offer EXCEPT ![u] = {}]
  /\ form' = [form EXCEPT ![u] = Nothing]
  /\ answer' = [answer EXCEPT ![u] = "none"]
  /\ UNCHANGED <<kind, row, archived>>

\* What address.List returns: the addresses that are not archived, or, when the
\* connection breaks, those that came before; rows.Err is not asked.
Listings ==
  LET open == Addresses \ archived
  IN  IF kind = "order" THEN {l \in SUBSET open : l = {} \/ First(l) = First(open)} ELSE {{}}

\* Then the addresses (the page of an order offers them).
Render(u) ==
  /\ pc[u] = "shown"
  /\ \E t \in Texts, listed \in Listings :
       /\ page' = [page EXCEPT ![u] = Page(seen[u], listed, t)]
       /\ offer' = [offer EXCEPT ![u] = listed]
  /\ seen' = [seen EXCEPT ![u] = Nothing]
  /\ pc' = [pc EXCEPT ![u] = "page"]
  /\ UNCHANGED <<kind, row, archived, form, stale, answer>>

---------------------------------------------------------------------------
(* The form *)

\* What the user may make of field x: anything in a text field, even nothing.
Fillable(u, x) ==
  {page[u][x]} \cup
    CASE x = "text" -> Texts \cup {""}
      [] x = "zip" -> TypedZips
      [] x = "address" -> offer[u]
      [] OTHER -> Values(kind, x)

Filled(u) ==
  {f \in [Fields[kind] -> UNION {Fillable(u, x) : x \in Fields[kind]}] :
     \A x \in Fields[kind] : f[x] \in Fillable(u, x)}

\* Variants: the form is not looked at; a case of a switch is missing.
AcceptAll(f) == TRUE
AcceptNoArchived(f) ==
  /\ f["status"] \in Accepted[kind] \ {"archived"}
  /\ kind \in {"client", "asset"} => f["text"] # ""
  /\ kind = "address" => f["zip"] # "-"

\* A handler refuses a status that is not in its switch and, but for goods, of
\* which it only reads the status, a text that it does not take.
Acceptable(f) ==
  /\ f["status"] \in Accepted[kind]
  /\ kind \in {"client", "asset"} => f["text"] # ""
  /\ kind = "address" => f["zip"] # "-"

\* The page is gone, whatever it led to.
Reply(u, a) ==
  /\ answer' = [answer EXCEPT ![u] = a]
  /\ pc' = [pc EXCEPT ![u] = "away"]
  /\ page' = [page EXCEPT ![u] = Nothing]
  /\ seen' = [seen EXCEPT ![u] = Nothing]
  /\ offer' = [offer EXCEPT ![u] = {}]

\* POST: the row is read and the form checked.
Post(u) ==
  /\ pc[u] = "page"
  /\ \E f \in Filled(u) :
       /\ form' = [form EXCEPT ![u] = f]
       /\ IF Acceptable(f)
          THEN /\ pc' = [pc EXCEPT ![u] = "read"]
               /\ seen' = [seen EXCEPT ![u] = row]
               /\ UNCHANGED <<page, offer, answer>>
          ELSE Reply(u, "refused")
  /\ UNCHANGED <<kind, row, archived, stale>>

\* What the column of field x keeps of v: the zip code loses its dashes in the
\* handler and the zeros it begins with in its column.
Kept(x, v) == IF x = "zip" /\ v = "01-310" THEN "1310" ELSE v

\* Client, address and asset.
NewPlain(u) == [x \in Fields[kind] |-> Kept(x, form[u][x])]

\* Variant: the posted status is compared, in one case, with the one that the
\* handler read, and only written if it differs.
NewOrderIfChanged(u) ==
  [row EXCEPT !["address"] = form[u]["address"],
              !["status"] = IF form[u]["status"] # seen[u]["status"] THEN form[u]["status"] ELSE @]

\* The status is always written: the stored one is in upper case, the posted one
\* in lower case, and they are compared as they are.
NewOrder(u) == form[u]

\* The status of a job is compared in upper case.
NewJob(u) == IF form[u]["status"] # seen[u]["status"] THEN form[u] ELSE row

\* Only the status is taken from the form, the other columns as they were read.
NewGood(u) == [seen[u] EXCEPT !["status"] = form[u]["status"]]

NewRow(u) ==
  CASE kind = "order" -> NewOrder(u)
    [] kind = "job" -> NewJob(u)
    [] kind = "good" -> NewGood(u)
    [] OTHER -> NewPlain(u)

\* Every other page that is open is out of date now.
Outdate(u) == stale' = [v \in Users |-> v # u /\ pc[v] # "away"]

\* What MySQL does not store: an order without an address violates its foreign
\* key, and a zip code has to be a number.
Unstorable(f) ==
  \/ kind = "order" /\ f["address"] = NoAddress
  \/ kind = "address" /\ f["zip"] = "centro"

\* The UPDATE. Its reply may be lost.
Write(u) ==
  /\ pc[u] = "read"
  /\ IF Unstorable(form[u])
     THEN Reply(u, "failed") /\ UNCHANGED <<row, stale>>
     ELSE row' = NewRow(u) /\ Outdate(u) /\ (Reply(u, "redirect") \/ Reply(u, "lost"))
  /\ UNCHANGED <<kind, archived, form>>

\* The database fails, or the browser goes away.
Fail(u) ==
  /\ pc[u] = "read"
  /\ Reply(u, "lost")
  /\ UNCHANGED <<kind, row, archived, form, stale>>

\* Somebody archives, or takes back, an address of the client of the order.
ArchiveAddress(a) ==
  /\ kind = "order"
  /\ archived' = IF a \in archived THEN archived \ {a} ELSE archived \cup {a}
  /\ stale' = [v \in Users |-> pc[v] # "away"]
  /\ UNCHANGED <<kind, row, page, offer, form, seen, pc, answer>>

Next ==
  \/ \E u \in Users : Show(u) \/ Render(u) \/ Post(u) \/ Write(u) \/ Fail(u)
  \/ \E a \in Addresses : ArchiveAddress(a)

Spec == Init /\ [][Next]_vars

---------------------------------------------------------------------------
(* Properties *)

\* The columns that an edit is meant to change.
Editable == IF kind = "good" THEN {"status"} ELSE Fields[kind]

\* A row is never a mixture of two forms: whoever writes leaves it as one user
\* posted it, however reads, writes and other pages interleave
\* (orders/orders.go:130).
RowIsSomebodysForm ==
  [][row' # row =>
       \E u \in Users :
         pc[u] = "read" /\ \A x \in Editable : row'[x] = Kept(x, form[u][x])]_vars

Changed(u) == {x \in Fields[kind] : form[u][x] # page[u][x]}

\* The pages that show something else than the row: a country that is not
\* Brasil (gui/address/client-address.html:35), an address that is archived
\* (orders/handles/orders.go:60) or that the list lost with the connection
\* (address/address.go:76), the status of a good (gui/goods/client-good.html:25)
\* and its other fields, which are not written.
Misled(u) ==
  \/ kind = "address" /\ row["country"] # "Brasil" /\ "country" \notin Changed(u)
  \/ kind = "order" /\ row["address"] \notin offer[u] /\ "address" \notin Changed(u)
  \/ kind = "good" /\ row["status"] # Options["good"][1] /\ "status" \notin Changed(u)
  \/ kind = "good" /\ "text" \in Changed(u)

\* An edit that nothing overlapped, from the moment its page was read, changes
\* what the user changed and nothing else, but for the pages that mislead.
SoloEditMeansIt ==
  [][\A u \in Users :
       pc[u] = "read" /\ answer'[u] = "redirect" /\ ~stale[u] /\ ~Misled(u) =>
         row' = [x \in Fields[kind] |->
                   IF x \in Changed(u) THEN Kept(x, form[u][x]) ELSE row[x]]]_vars

\* What a page offers can be posted: the statuses of every page but one
\* (goods/handles/goods.go:232), any zip code with a number in it, and an address,
\* unless the page has none to offer (gui/order/client-order.html:33).
OfferedIsTaken ==
  [][\A u \in Users :
       /\ pc[u] = "page" /\ answer'[u] = "refused" =>
            \/ "text" \in Fields[kind] /\ form'[u]["text"] = ""
            \/ kind = "address" /\ form'[u]["zip"] = "-"
            \/ kind = "good" /\ form'[u]["status"] = "decommissioned"
       /\ pc[u] = "read" /\ answer'[u] = "failed" =>
            \/ kind = "order" /\ offer[u] = {}
            \/ kind = "address" /\ form[u]["zip"] = "centro"]_vars

---------------------------------------------------------------------------
(* The inductive invariant: a page, its form and what the handler read are   *)
(* those of the row until somebody writes.                                   *)
ReadsAreFaithful ==
  \A u \in Users :
    pc[u] \in {"shown", "read"} => seen[u] \in Rows(kind) /\ (~stale[u] => seen[u] = row)

PagesAreFaithful ==
  \A u \in Users :
    pc[u] \in {"page", "read"} =>
      /\ \E r \in Rows(kind), t \in Texts :
           page[u] = Page(r, offer[u], t) /\ (~stale[u] => r = row)
      /\ ~stale[u] => offer[u] \subseteq Addresses \ archived

FormsArePossible ==
  \A u \in Users : pc[u] = "read" => form[u] \in Filled(u) /\ Acceptable(form[u])

\* Every user has one page, form and read row, and no answer under way.
EachHasOne ==
  /\ page = [u \in Users |-> page[u]]
  /\ form = [u \in Users |-> form[u]]
  /\ seen = [u \in Users |-> seen[u]]
  /\ \A u \in Users : pc[u] # "away" => answer[u] = "none"

IInv == TypeOK /\ EachHasOne /\ ReadsAreFaithful /\ PagesAreFaithful /\ FormsArePossible
=============================================================================
