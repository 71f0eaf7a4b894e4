------------------------------ MODULE FormsProofs ------------------------------
(***************************************************************************)
(* Proofs about Forms, for any number of users, texts and addresses: what  *)
(* a page offers is taken, a row is always somebody's form, and an edit    *)
(* that nothing overlaps means what its user did, but where the page       *)
(* misleads.                                                               *)
(***************************************************************************)
EXTENDS Forms, TLAPS

---------------------------------------------------------------------------
(* The tables of Forms, kind by kind *)

LEMMA KindsAre == Kinds = {"client", "address", "asset", "order", "job", "good"}
  BY DEF Kinds, Fields

LEMMA FieldsAre ==
  /\ Fields["client"] = {"text", "status"}
  /\ Fields["address"] = {"zip", "country", "status"}
  /\ Fields["asset"] = {"text", "status"}
  /\ Fields["order"] = {"status", "address"}
  /\ Fields["job"] = {"status"}
  /\ Fields["good"] = {"text", "status"}
  BY DEF Fields

LEMMA OfferedIs ==
  /\ Offered("client") = {"active", "archived"}
  /\ Offered("address") = {"active", "archived"}
  /\ Offered("asset") = {"active", "archived"}
  /\ Offered("order") = {"done", "open"}
  /\ Offered("job") = {"created", "done", "in_progress"}
  /\ Offered("good") = {"acquired", "decommissioned", "in_use"}
  /\ Options["good"][1] = "acquired"
<1>1. /\ Options["client"] = <<"active", "archived">>
      /\ Options["address"] = <<"active", "archived">>
      /\ Options["asset"] = <<"active", "archived">>
      /\ Options["order"] = <<"done", "open">>
      /\ Options["job"] = <<"created", "done", "in_progress">>
      /\ Options["good"] = <<"acquired", "decommissioned", "in_use">>
  BY DEF Options
<1>2. \A a, b : {<<a, b>>[i] : i \in DOMAIN <<a, b>>} = {a, b}
  <2> TAKE a, b
  <2>1. DOMAIN <<a, b>> = {1, 2} /\ <<a, b>>[1] = a /\ <<a, b>>[2] = b
    OBVIOUS
  <2> QED
    BY <2>1
<1>3. \A a, b, c : {<<a, b, c>>[i] : i \in DOMAIN <<a, b, c>>} = {a, b, c}
  <2> TAKE a, b, c
  <2>1. /\ DOMAIN <<a, b, c>> = {1, 2, 3}
        /\ <<a, b, c>>[1] = a /\ <<a, b, c>>[2] = b /\ <<a, b, c>>[3] = c
    OBVIOUS
  <2> QED
    BY <2>1
<1>4. Options["good"][1] = "acquired"
  BY <1>1
<1> QED
  BY <1>1, <1>2, <1>3, <1>4 DEF Offered

LEMMA AcceptedIs ==
  /\ \A k \in Kinds : k # "good" => Accepted[k] = Offered(k)
  /\ Accepted["good"] = {"acquired", "decomissioned", "in_use"}
  BY KindsAre, OfferedIs DEF Accepted

\* A row is the function of its fields whose values fit.
LEMMA RowIs ==
  ASSUME NEW k, NEW r
  PROVE  r \in Rows(k) <=>
           r = [x \in Fields[k] |-> r[x]] /\ \A x \in Fields[k] : r[x] \in Values(k, x)
  BY DEF Rows

LEMMA FilledIs ==
  ASSUME NEW u, NEW f
  PROVE  f \in Filled(u) <=>
           f = [x \in Fields[kind] |-> f[x]] /\ \A x \in Fields[kind] : f[x] \in Fillable(u, x)
  BY DEF Filled

---------------------------------------------------------------------------
(* What a page shows *)

\* A browser selects an option if there is one.
LEMMA FirstIs ==
  ASSUME NEW now, NEW none, NEW S
  PROVE  LET a == IF now \in S THEN now ELSE IF S = {} THEN none ELSE First(S)
         IN  a \in S \/ (S = {} /\ a = none)
<1>1. CASE now \in S
  BY <1>1
<1>2. CASE now \notin S /\ S = {}
  BY <1>2
<1>3. CASE now \notin S /\ S # {}
  <2>1. First(S) \in S
    BY <1>3 DEF First
  <2> QED
    BY <1>3, <2>1
<1> QED
  BY <1>1, <1>2, <1>3

\* A page shows every field, with values that fit; an address if it has one to offer.
LEMMA PageFits ==
  ASSUME kind \in Kinds, NEW r \in Rows(kind), NEW t \in Texts, NEW listed \in SUBSET Addresses
  PROVE  LET p == Page(r, listed, t) IN
         /\ p = [x \in Fields[kind] |-> p[x]]
         /\ \A x \in Fields[kind] \ {"address"} : p[x] \in Values(kind, x)
         /\ kind = "order" => p["address"] \in listed \/ (listed = {} /\ p["address"] = NoAddress)
<1>1. r = [x \in Fields[kind] |-> r[x]] /\ \A x \in Fields[kind] : r[x] \in Values(kind, x)
  BY RowIs
<1>2. CASE kind = "address"
  <2>1. Page(r, listed, t) = [r EXCEPT !["country"] = "Brasil"]
    BY <1>2 DEF Page, AddressPage
  <2> QED
    BY <1>1, <1>2, <2>1, FieldsAre DEF Values, Countries
<1>3. CASE kind = "order"
  <2> DEFINE a == IF r["address"] \in listed THEN r["address"]
                  ELSE IF listed = {} THEN NoAddress ELSE First(listed)
  <2>1. Page(r, listed, t) = [r EXCEPT !["address"] = a]
    BY <1>1, <1>3, FieldsAre DEF Page, OrderPage
  <2>2. a \in listed \/ (listed = {} /\ a = NoAddress)
    BY FirstIs
  <2> HIDE DEF a
  <2> QED
    BY <1>1, <1>3, <2>1, <2>2, FieldsAre DEF Values
<1>4. CASE kind = "good"
  <2>1. Page(r, listed, t) = [r EXCEPT !["status"] = "acquired", !["text"] = t]
    BY <1>4, OfferedIs DEF Page, GoodPage
  <2> QED
    BY <1>1, <1>4, <2>1, FieldsAre, OfferedIs DEF Values
<1>5. CASE kind \in {"client", "asset", "job"}
  <2>1. Page(r, listed, t) = r
    BY <1>5 DEF Page
  <2> QED
    BY <1>1, <1>5, <2>1
<1> QED
  BY <1>2, <1>3, <1>4, <1>5, KindsAre

\* What can be posted from a page that is open.
LEMMA FormFits ==
  ASSUME TypeOK, PagesAreFaithful, NEW u \in Users, pc[u] \in {"page", "read"},
         NEW f \in Filled(u)
  PROVE  /\ f = [x \in Fields[kind] |-> f[x]]
         /\ f["status"] \in Offered(kind)
         /\ "text" \in Fields[kind] => f["text"] \in Texts \cup {""}
         /\ "zip" \in Fields[kind] => f["zip"] \in TypedZips
         /\ "country" \in Fields[kind] => f["country"] \in Countries
         /\ kind = "order" => f["address"] \in Addresses \/ (offer[u] = {} /\ f["address"] = NoAddress)
<1>1. PICK r \in Rows(kind), t \in Texts : page[u] = Page(r, offer[u], t)
  BY DEF PagesAreFaithful
<1>2. kind \in Kinds /\ offer[u] \in SUBSET Addresses
  BY DEF TypeOK
<1>3. /\ \A x \in Fields[kind] \ {"address"} : page[u][x] \in Values(kind, x)
      /\ kind = "order" =>
           page[u]["address"] \in offer[u] \/ (offer[u] = {} /\ page[u]["address"] = NoAddress)
  BY <1>1, <1>2, PageFits
<1>4. f = [x \in Fields[kind] |-> f[x]] /\ \A x \in Fields[kind] : f[x] \in Fillable(u, x)
  BY FilledIs
<1>5. "status" \in Fields[kind]
  BY <1>2, KindsAre, FieldsAre
<1>6. f["status"] \in Offered(kind)
  BY <1>3, <1>4, <1>5 DEF Fillable, Values
<1>7. "text" \in Fields[kind] => f["text"] \in Texts \cup {""}
  BY <1>3, <1>4 DEF Fillable, Values
<1>8. "country" \in Fields[kind] => f["country"] \in Countries
  BY <1>3, <1>4 DEF Fillable, Values
<1>10. "zip" \in Fields[kind] => f["zip"] \in TypedZips
  BY <1>3, <1>4 DEF Fillable, Values, TypedZips
<1>9. kind = "order" => f["address"] \in Addresses \/ (offer[u] = {} /\ f["address"] = NoAddress)
  <2>1. Fillable(u, "address") = {page[u]["address"]} \cup offer[u]
    BY DEF Fillable
  <2>2. kind = "order" => f["address"] \in Fillable(u, "address")
    BY <1>4, FieldsAre
  <2>3. ASSUME kind = "order", f["address"] \in offer[u] PROVE f["address"] \in Addresses
    BY <1>2, <2>3
  <2>4. ASSUME kind = "order"
        PROVE  f["address"] \in offer[u] \/ (offer[u] = {} /\ f["address"] = NoAddress)
    <3>1. page[u]["address"] \in offer[u] \/ (offer[u] = {} /\ page[u]["address"] = NoAddress)
      BY <1>3, <2>4
    <3>2. f["address"] = page[u]["address"] \/ f["address"] \in offer[u]
      BY <2>1, <2>2, <2>4
    <3> QED
      BY <3>1, <3>2
  <2> QED
    BY <2>3, <2>4
<1> QED
  BY <1>4, <1>6, <1>7, <1>8, <1>9, <1>10

\* The column of a zip code keeps a number.
LEMMA ZipFits ==
  ASSUME NEW z \in TypedZips, z \notin {"-", "centro"}
  PROVE  Kept("zip", z) \in Zips
  BY DEF TypedZips, Zips, Kept

LEMMA OthersAreKept ==
  ASSUME NEW x, x # "zip", NEW v
  PROVE  Kept(x, v) = v
  BY DEF Kept

LEMMA ShownZipIsKept ==
  ASSUME NEW z \in Zips
  PROVE  Kept("zip", z) = z
  BY DEF Zips, Kept

\* What is written is a row again.
LEMMA NewRowFits ==
  ASSUME IInv, NEW u \in Users, pc[u] = "read",
         ~Unstorable(form[u])
  PROVE  NewRow(u) \in Rows(kind)
<1>1. kind \in Kinds /\ row \in Rows(kind) /\ seen[u] \in Rows(kind)
  BY DEF IInv, TypeOK, ReadsAreFaithful
<1>2. /\ form[u] = [x \in Fields[kind] |-> form[u][x]]
      /\ form[u]["status"] \in Offered(kind)
      /\ "text" \in Fields[kind] => form[u]["text"] \in Texts \cup {""}
      /\ "zip" \in Fields[kind] => form[u]["zip"] \in TypedZips
      /\ "country" \in Fields[kind] => form[u]["country"] \in Countries
      /\ kind = "order" => form[u]["address"] \in Addresses
  BY FormFits DEF IInv, FormsArePossible, Unstorable
<1>3. /\ kind \in {"client", "asset"} => form[u]["text"] # ""
      /\ kind = "address" => form[u]["zip"] \notin {"-", "centro"}
  BY DEF IInv, FormsArePossible, Acceptable, Unstorable
<1>4. CASE kind = "good"
  <2>1. NewRow(u) = [seen[u] EXCEPT !["status"] = form[u]["status"]]
    BY <1>4 DEF NewRow, NewGood
  <2>2. /\ seen[u] = [x \in Fields[kind] |-> seen[u][x]]
        /\ \A x \in Fields[kind] : seen[u][x] \in Values(kind, x)
    BY <1>1, RowIs
  <2>3. NewRow(u) = [x \in Fields[kind] |-> NewRow(u)[x]]
    BY <2>1, <2>2
  <2>4. \A x \in Fields[kind] : NewRow(u)[x] \in Values(kind, x)
    BY <1>2, <1>4, <2>1, <2>2, FieldsAre DEF Values
  <2> QED
    BY <2>3, <2>4, RowIs
<1>5. CASE kind \in {"order", "job"}
  <2>1. \A x \in Fields[kind] : form[u][x] \in Values(kind, x)
    BY <1>1, <1>2, <1>5, FieldsAre DEF Values
  <2>2. form[u] \in Rows(kind)
    BY <1>2, <2>1, RowIs
  <2>3. NewRow(u) \in {form[u], row}
    BY <1>5 DEF NewRow, NewOrder, NewJob
  <2> QED
    BY <1>1, <2>2, <2>3
<1>6. CASE kind \in {"client", "address", "asset"}
  <2>1. NewRow(u) = [x \in Fields[kind] |-> Kept(x, form[u][x])]
    BY <1>6 DEF NewRow, NewPlain
  <2>2. \A x \in Fields[kind] : Kept(x, form[u][x]) \in Values(kind, x)
    <3>1. CASE kind = "address"
      <4>1. Kept("zip", form[u]["zip"]) \in Values(kind, "zip")
        BY <1>2, <1>3, <3>1, ZipFits, FieldsAre DEF Values
      <4>2. /\ Kept("country", form[u]["country"]) \in Values(kind, "country")
            /\ Kept("status", form[u]["status"]) \in Values(kind, "status")
        BY <1>2, <3>1, OthersAreKept, FieldsAre DEF Values
      <4> QED
        BY <3>1, <4>1, <4>2, FieldsAre
    <3>2. CASE kind \in {"client", "asset"}
      <4>1. \A x \in Fields[kind] : Kept(x, form[u][x]) = form[u][x]
        BY <3>2, OthersAreKept, FieldsAre
      <4>2. form[u]["text"] \in Texts /\ form[u]["status"] \in Offered(kind)
        BY <1>2, <1>3, <3>2, FieldsAre
      <4>3. Fields[kind] = {"text", "status"}
        BY <3>2, FieldsAre
      <4>4. Values(kind, "text") = Texts /\ Values(kind, "status") = Offered(kind)
        BY DEF Values
      <4> QED
        BY <4>1, <4>2, <4>3, <4>4
    <3> QED
      BY <1>6, <3>1, <3>2
  <2> QED
    BY <2>1, <2>2, RowIs
<1> QED
  BY <1>1, <1>4, <1>5, <1>6, KindsAre

---------------------------------------------------------------------------
(* The invariant, user by user *)

Whole == /\ page = [v \in Users |-> page[v]]
         /\ form = [v \in Users |-> form[v]]
         /\ seen = [v \in Users |-> seen[v]]

ReadOf(v) ==
  pc[v] \in {"shown", "read"} => seen[v] \in Rows(kind) /\ (~stale[v] => seen[v] = row)
PageOf(v) ==
  pc[v] \in {"page", "read"} =>
    /\ \E r \in Rows(kind), t \in Texts :
         page[v] = Page(r, offer[v], t) /\ (~stale[v] => r = row)
    /\ ~stale[v] => offer[v] \subseteq Addresses \ archived
FormOf(v) ==
  pc[v] = "read" => form[v] \in Filled(v) /\ Acceptable(form[v])
NotAnswered(v) == pc[v] # "away" => answer[v] = "none"

Sound(v) == ReadOf(v) /\ PageOf(v) /\ FormOf(v) /\ NotAnswered(v)

LEMMA UserByUser == IInv <=> TypeOK /\ Whole /\ \A v \in Users : Sound(v)
  BY DEF IInv, EachHasOne, ReadsAreFaithful, PagesAreFaithful, FormsArePossible, Whole,
         Sound, ReadOf, PageOf, FormOf, NotAnswered

LEMMA UserByUserNext ==
  ASSUME TypeOK', Whole', \A v \in Users : Sound(v)'
  PROVE  IInv'
  BY DEF IInv, EachHasOne, ReadsAreFaithful, PagesAreFaithful, FormsArePossible, Whole,
         Sound, ReadOf, PageOf, FormOf, NotAnswered

LEMMA SameForms ==
  ASSUME NEW v, kind' = kind, page'[v] = page[v], offer'[v] = offer[v]
  PROVE  Filled(v)' = Filled(v)
  BY DEF Filled, Fillable

LEMMA SamePage ==
  ASSUME NEW v, PageOf(v), kind' = kind, page'[v] = page[v], offer'[v] = offer[v],
         pc[v] \in {"page", "read"},
         row' = row /\ archived' = archived /\ stale'[v] = stale[v]
  PROVE  PageOf(v)'
  BY DEF PageOf, Page, AddressPage, OrderPage, GoodPage

\* A step of somebody else leaves a user's page as sound as it was, provided it
\* marks the page as out of date if it changes what the page shows.
LEMMA OthersStaySound ==
  ASSUME NEW v, Sound(v), kind' = kind,
         pc'[v] = pc[v], page'[v] = page[v], form'[v] = form[v],
         seen'[v] = seen[v], offer'[v] = offer[v], answer'[v] = answer[v],
         \/ row' = row /\ archived' = archived /\ stale'[v] = stale[v]
         \/ stale'[v]
         \/ pc[v] = "away"
  PROVE  Sound(v)'
<1>1. ReadOf(v)'
  BY DEF Sound, ReadOf
<1>2. PageOf(v)'
  BY DEF Sound, PageOf, Page, AddressPage, OrderPage, GoodPage
<1>3. FormOf(v)'
  <2>1. Filled(v)' = Filled(v)
    BY SameForms
  <2>2. Acceptable(form[v])' <=> Acceptable(form[v])
    BY DEF Acceptable
  <2> QED
    BY <2>1, <2>2 DEF Sound, FormOf
<1>4. NotAnswered(v)'
  BY DEF Sound, NotAnswered
<1> QED
  BY <1>1, <1>2, <1>3, <1>4 DEF Sound

\* A user whose page is gone.
LEMMA AwayIsSound ==
  ASSUME NEW v, pc'[v] = "away"
  PROVE  Sound(v)'
  BY DEF Sound, ReadOf, PageOf, FormOf, NotAnswered

---------------------------------------------------------------------------
(* One lemma per action *)

LEMMA ReplyIs ==
  ASSUME IInv, NEW u \in Users, NEW a \in {"redirect", "refused", "failed", "lost"}, Reply(u, a)
  PROVE  /\ pc' \in [Users -> {"away", "shown", "page", "read"}]
         /\ pc'[u] = "away" /\ answer'[u] = a
         /\ answer' \in [Users -> {"none", "redirect", "refused", "failed", "lost"}]
         /\ offer' \in [Users -> SUBSET Addresses]
         /\ page' = [v \in Users |-> page'[v]] /\ seen' = [v \in Users |-> seen'[v]]
         /\ page'[u] = Nothing /\ seen'[u] = Nothing
         /\ \A v \in Users \ {u} :
              /\ pc'[v] = pc[v] /\ answer'[v] = answer[v] /\ page'[v] = page[v]
              /\ seen'[v] = seen[v] /\ offer'[v] = offer[v]
<1>1. TypeOK /\ Whole
  BY UserByUser
<1> QED
  BY <1>1 DEF Reply, TypeOK, Whole

LEMMA ShowIInv ==
  ASSUME IInv, NEW u \in Users, Show(u)
  PROVE  IInv'
<1>1. TypeOK /\ Whole /\ \A v \in Users : Sound(v)
  BY UserByUser
<1>2. /\ pc'[u] = "shown" /\ seen'[u] = row /\ page'[u] = Nothing /\ form'[u] = Nothing
      /\ answer'[u] = "none" /\ UNCHANGED <<kind, row, archived>>
  BY <1>1 DEF Show, TypeOK, Whole
<1>3. \A v \in Users \ {u} :
        /\ pc'[v] = pc[v] /\ answer'[v] = answer[v] /\ page'[v] = page[v] /\ form'[v] = form[v]
        /\ seen'[v] = seen[v] /\ offer'[v] = offer[v] /\ stale'[v] = stale[v]
  BY <1>1 DEF Show, TypeOK, Whole
<1>4. Whole'
  BY <1>1 DEF Show, Whole
<1>5. TypeOK'
  <2>1. /\ offer' \in [Users -> SUBSET Addresses] /\ stale' \in [Users -> BOOLEAN]
        /\ pc' \in [Users -> {"away", "shown", "page", "read"}]
        /\ answer' \in [Users -> {"none", "redirect", "refused", "failed", "lost"}]
    BY <1>1 DEF Show, TypeOK
  <2>2. \A v \in Users :
          /\ page'[v] # Nothing => DOMAIN page'[v] = Fields[kind]
          /\ form'[v] # Nothing => DOMAIN form'[v] = Fields[kind]
          /\ seen'[v] \in Rows(kind) \cup {Nothing}
    BY <1>1, <1>2, <1>3 DEF TypeOK
  <2> QED
    BY <1>1, <1>2, <2>1, <2>2 DEF TypeOK
<1>6. Sound(u)'
  BY <1>1, <1>2 DEF Sound, ReadOf, PageOf, FormOf, NotAnswered, TypeOK
<1>7. \A v \in Users \ {u} : Sound(v)'
  BY <1>1, <1>2, <1>3, OthersStaySound
<1>8. \A v \in Users : Sound(v)'
  BY <1>6, <1>7
<1> QED
  BY <1>4, <1>5, <1>8, UserByUserNext

LEMMA RenderIInv ==
  ASSUME IInv, NEW u \in Users, Render(u)
  PROVE  IInv'
<1>1. TypeOK /\ Whole /\ \A v \in Users : Sound(v)
  BY UserByUser
<1>2. PICK t \in Texts, listed \in Listings : /\ page' = [page EXCEPT ![u] = Page(seen[u], listed, t)]
                                              /\ offer' = [offer EXCEPT ![u] = listed]
  BY DEF Render
<1>4. listed \subseteq Addresses \ archived
  BY DEF Listings
<1>3. seen[u] \in Rows(kind) /\ (~stale[u] => seen[u] = row) /\ answer[u] = "none"
  BY <1>1 DEF Sound, ReadOf, NotAnswered, Render
<1>5. /\ pc'[u] = "page" /\ seen'[u] = Nothing /\ page'[u] = Page(seen[u], listed, t)
      /\ offer'[u] = listed /\ UNCHANGED <<kind, row, archived, form, stale, answer>>
  BY <1>1, <1>2 DEF Render, TypeOK, Whole
<1>6. \A v \in Users \ {u} :
        /\ pc'[v] = pc[v] /\ answer'[v] = answer[v] /\ page'[v] = page[v] /\ form'[v] = form[v]
        /\ seen'[v] = seen[v] /\ offer'[v] = offer[v] /\ stale'[v] = stale[v]
  BY <1>1, <1>2 DEF Render, TypeOK, Whole
<1>7. Whole'
  BY <1>1, <1>2 DEF Render, Whole
<1>8. TypeOK'
  <2>1. /\ offer' \in [Users -> SUBSET Addresses] /\ stale' \in [Users -> BOOLEAN]
        /\ pc' \in [Users -> {"away", "shown", "page", "read"}]
        /\ answer' \in [Users -> {"none", "redirect", "refused", "failed", "lost"}]
    BY <1>1, <1>2, <1>4 DEF Render, TypeOK
  <2>2. listed \in SUBSET Addresses /\ kind \in Kinds
    BY <1>1, <1>4 DEF TypeOK
  <2>3. DOMAIN page'[u] = Fields[kind]
    BY <1>3, <1>5, <2>2, PageFits
  <2>4. \A v \in Users :
          /\ page'[v] # Nothing => DOMAIN page'[v] = Fields[kind]
          /\ form'[v] # Nothing => DOMAIN form'[v] = Fields[kind]
          /\ seen'[v] \in Rows(kind) \cup {Nothing}
    BY <1>1, <1>5, <1>6, <2>3 DEF TypeOK
  <2> QED
    BY <1>1, <1>5, <2>1, <2>4 DEF TypeOK
<1>9. Sound(u)'
  <2>1. PageOf(u)'
    BY <1>3, <1>4, <1>5 DEF PageOf, Page, AddressPage, OrderPage, GoodPage
  <2> QED
    BY <1>3, <1>5, <2>1 DEF Sound, ReadOf, FormOf, NotAnswered
<1>10. \A v \in Users \ {u} : Sound(v)'
  BY <1>1, <1>5, <1>6, OthersStaySound
<1>11. \A v \in Users : Sound(v)'
  BY <1>9, <1>10
<1> QED
  BY <1>7, <1>8, <1>11, UserByUserNext

\* A reply leaves everything else as it was, or out of date.
LEMMA ReplyIInv ==
  ASSUME IInv, NEW u \in Users, NEW a \in {"redirect", "refused", "failed", "lost"}, Reply(u, a),
         kind' = kind, archived' = archived, row' \in Rows(kind),
         \/ row' = row /\ stale' = stale
         \/ stale' = [v \in Users |-> v # u /\ pc[v] # "away"],
         form' = [v \in Users |-> form'[v]],
         \A v \in Users \ {u} : form'[v] = form[v],
         form'[u] # Nothing => DOMAIN form'[u] = Fields[kind]
  PROVE  IInv'
<1>1. TypeOK /\ Whole /\ \A v \in Users : Sound(v)
  BY UserByUser
<1>2. /\ pc'[u] = "away" /\ page'[u] = Nothing /\ seen'[u] = Nothing
      /\ \A v \in Users \ {u} :
           /\ pc'[v] = pc[v] /\ answer'[v] = answer[v] /\ page'[v] = page[v]
           /\ seen'[v] = seen[v] /\ offer'[v] = offer[v]
  BY ReplyIs
<1>3. Whole'
  BY ReplyIs DEF Whole
<1>4. TypeOK'
  <2>1. stale' \in [Users -> BOOLEAN]
    BY <1>1 DEF TypeOK
  <2>2. \A v \in Users :
          /\ page'[v] # Nothing => DOMAIN page'[v] = Fields[kind]
          /\ form'[v] # Nothing => DOMAIN form'[v] = Fields[kind]
          /\ seen'[v] \in Rows(kind) \cup {Nothing}
    BY <1>1, <1>2 DEF TypeOK
  <2>3. /\ pc' \in [Users -> {"away", "shown", "page", "read"}]
        /\ answer' \in [Users -> {"none", "redirect", "refused", "failed", "lost"}]
        /\ offer' \in [Users -> SUBSET Addresses]
    BY ReplyIs
  <2> QED
    BY <1>1, <2>1, <2>2, <2>3 DEF TypeOK
<1>5. Sound(u)'
  BY <1>2, AwayIsSound
<1>6. ASSUME NEW v \in Users \ {u} PROVE Sound(v)'
  <2>1. \/ row' = row /\ archived' = archived /\ stale'[v] = stale[v]
        \/ stale'[v]
        \/ pc[v] = "away"
    BY <1>6
  <2> QED
    BY <1>1, <1>2, <1>6, <2>1, OthersStaySound
<1>7. \A v \in Users : Sound(v)'
  BY <1>5, <1>6
<1> QED
  BY <1>3, <1>4, <1>7, UserByUserNext

LEMMA PostIInv ==
  ASSUME IInv, NEW u \in Users, Post(u)
  PROVE  IInv'
<1>1. TypeOK /\ Whole /\ \A v \in Users : Sound(v)
  BY UserByUser
<1>2. PICK f \in Filled(u) :
        /\ form' = [form EXCEPT ![u] = f]
        /\ IF Acceptable(f)
           THEN /\ pc' = [pc EXCEPT ![u] = "read"]
                /\ seen' = [seen EXCEPT ![u] = row]
                /\ UNCHANGED <<page, offer, answer>>
           ELSE Reply(u, "refused")
  BY DEF Post
<1>3. pc[u] = "page" /\ UNCHANGED <<kind, row, archived, stale>>
  BY DEF Post
<1>4. /\ form' = [v \in Users |-> form'[v]] /\ form'[u] = f
      /\ \A v \in Users \ {u} : form'[v] = form[v]
  BY <1>1, <1>2 DEF Whole
<1>5. DOMAIN f = Fields[kind]
  BY FilledIs
<1>6. row \in Rows(kind)
  BY <1>1 DEF TypeOK
<1>7. CASE ~Acceptable(f)
  BY <1>2, <1>3, <1>4, <1>5, <1>6, <1>7, ReplyIInv
<1>8. CASE Acceptable(f)
  <2>1. /\ pc'[u] = "read" /\ seen'[u] = row /\ UNCHANGED <<page, offer, answer>>
        /\ \A v \in Users \ {u} : pc'[v] = pc[v] /\ seen'[v] = seen[v]
    BY <1>1, <1>2, <1>8 DEF TypeOK, Whole
  <2>2. Whole'
    BY <1>1, <1>2, <1>4, <1>8 DEF Whole
  <2>3. TypeOK'
    <3>1. pc' \in [Users -> {"away", "shown", "page", "read"}]
      BY <1>1, <1>2, <1>8 DEF TypeOK
    <3>2. \A v \in Users :
            /\ page'[v] # Nothing => DOMAIN page'[v] = Fields[kind]
            /\ form'[v] # Nothing => DOMAIN form'[v] = Fields[kind]
            /\ seen'[v] \in Rows(kind) \cup {Nothing}
      BY <1>1, <1>4, <1>5, <2>1 DEF TypeOK
    <3> QED
      BY <1>1, <1>3, <2>1, <3>1, <3>2 DEF TypeOK
  <2>4. Sound(u)'
    <3>1. Sound(u)
      BY <1>1
    <3> kind' = kind /\ row' = row /\ archived' = archived /\ stale'[u] = stale[u]
      BY <1>3
    <3> pc[u] = "page" /\ pc'[u] = "read" /\ page'[u] = page[u] /\ offer'[u] = offer[u]
      BY <1>3, <2>1
    <3>2. ReadOf(u)' /\ NotAnswered(u)'
      BY <1>3, <1>6, <2>1, <3>1 DEF Sound, ReadOf, NotAnswered
    <3>3. PageOf(u)'
      BY <3>1, SamePage DEF Sound
    <3>4. FormOf(u)'
      <4>1. Filled(u)' = Filled(u)
        BY SameForms
      <4>2. Acceptable(form[u])' <=> Acceptable(f)
        BY <1>3, <1>4 DEF Acceptable
      <4> QED
        BY <1>4, <1>8, <4>1, <4>2 DEF FormOf
    <3> QED
      BY <3>2, <3>3, <3>4 DEF Sound
  <2>5. \A v \in Users \ {u} : Sound(v)'
    BY <1>1, <1>3, <1>4, <2>1, OthersStaySound
  <2>6. \A v \in Users : Sound(v)'
    BY <2>4, <2>5
  <2> QED
    BY <2>2, <2>3, <2>6, UserByUserNext
<1> QED
  BY <1>7, <1>8

LEMMA WriteIInv ==
  ASSUME IInv, NEW u \in Users, Write(u) \/ Fail(u)
  PROVE  IInv'
<1>1. TypeOK /\ Whole /\ UNCHANGED <<kind, archived, form>>
  BY UserByUser DEF Write, Fail
<1>2. /\ form' = [v \in Users |-> form'[v]]
      /\ \A v \in Users : form'[v] = form[v] /\ (form'[v] # Nothing => DOMAIN form'[v] = Fields[kind])
  BY <1>1 DEF TypeOK, Whole
<1>3. CASE \/ Fail(u)
           \/ Write(u) /\ Unstorable(form[u])
  <2>1. PICK a \in {"failed", "lost"} : Reply(u, a) /\ row' = row /\ stale' = stale
    BY <1>3 DEF Fail, Write
  <2>2. row' \in Rows(kind)
    BY <1>1, <2>1 DEF TypeOK
  <2> QED
    BY <1>1, <1>2, <2>1, <2>2, ReplyIInv
<1>4. CASE Write(u) /\ ~Unstorable(form[u])
  <2>1. PICK a \in {"redirect", "lost"} : Reply(u, a) /\ row' = NewRow(u) /\ Outdate(u)
    BY <1>4 DEF Write
  <2>2. row' \in Rows(kind)
    BY <1>4, <2>1, NewRowFits DEF Write
  <2> QED
    BY <1>1, <1>2, <2>1, <2>2, ReplyIInv DEF Outdate
<1> QED
  BY <1>3, <1>4

LEMMA ArchiveIInv ==
  ASSUME IInv, NEW a \in Addresses, ArchiveAddress(a)
  PROVE  IInv'
<1>1. TypeOK /\ Whole /\ \A v \in Users : Sound(v)
  BY UserByUser
<1>2. /\ UNCHANGED <<kind, row, page, offer, form, seen, pc, answer>>
      /\ stale' = [v \in Users |-> pc[v] # "away"] /\ archived' \subseteq Addresses
  BY <1>1 DEF ArchiveAddress, TypeOK
<1>3. TypeOK' /\ Whole'
  BY <1>1, <1>2 DEF TypeOK, Whole
<1>4. ASSUME NEW v \in Users PROVE Sound(v)'
  <2>1. stale'[v] \/ pc[v] = "away"
    BY <1>2
  <2> QED
    BY <1>1, <1>2, <2>1, OthersStaySound
<1> QED
  BY <1>3, <1>4, UserByUserNext

---------------------------------------------------------------------------

LEMMA InitIInv ==
  ASSUME Init
  PROVE  IInv
<1>1. TypeOK /\ Whole
  BY DEF Init, TypeOK, Whole
<1>2. \A v \in Users : Sound(v)
  BY DEF Init, Sound, ReadOf, PageOf, FormOf, NotAnswered
<1> QED
  BY <1>1, <1>2, UserByUser

LEMMA NextIInv ==
  ASSUME IInv, [Next]_vars
  PROVE  IInv'
<1>1. CASE UNCHANGED vars
  <2>1. TypeOK /\ Whole /\ \A v \in Users : Sound(v)
    BY UserByUser
  <2>2. TypeOK' /\ Whole'
    BY <1>1, <2>1 DEF vars, TypeOK, Whole
  <2>3. \A v \in Users : Sound(v)'
    BY <1>1, <2>1, OthersStaySound DEF vars
  <2> QED
    BY <2>2, <2>3, UserByUserNext
<1> QED
  BY <1>1, ShowIInv, RenderIInv, PostIInv, WriteIInv, ArchiveIInv DEF Next

\* A page, its form and what the handler read are those of the row until somebody writes.
THEOREM Invariance == Spec => []IInv
<1> QED
  BY InitIInv, NextIInv, PTL DEF Spec

\* The row, the pages and the forms keep their types: what is written is a row again.
THEOREM TypeCorrect == Spec => []TypeOK
<1>1. IInv => TypeOK
  BY DEF IInv
<1> QED
  BY <1>1, Invariance, PTL

\* A user whose page is open is only answered by the handler of that page.
LEMMA OnlyTheHandlerAnswers ==
  ASSUME IInv, [Next]_vars, NEW u \in Users, pc[u] # "away", answer'[u] # "none"
  PROVE  Post(u) \/ Write(u) \/ Fail(u)
<1>1. TypeOK /\ answer[u] = "none"
  BY UserByUser DEF Sound, NotAnswered
<1>2. ASSUME NEW v \in Users, v # u, Show(v) \/ Render(v) \/ Post(v) \/ Write(v) \/ Fail(v)
      PROVE  answer'[u] = answer[u]
  BY <1>1, <1>2 DEF TypeOK, Show, Render, Post, Write, Fail, Reply
<1>3. Show(u) \/ Render(u) => answer'[u] = "none"
  BY <1>1 DEF TypeOK, Show, Render
<1>4. ASSUME NEW a \in Addresses, ArchiveAddress(a) PROVE answer'[u] = answer[u]
  BY <1>4 DEF ArchiveAddress
<1>5. UNCHANGED vars => answer'[u] = answer[u]
  BY DEF vars
<1> QED
  BY <1>1, <1>2, <1>3, <1>4, <1>5 DEF Next

\* However reads, writes and pages interleave, the row that is written is one
\* user's form (orders/orders.go:130): never half of one and half of another.
THEOREM NoMixture == Spec => RowIsSomebodysForm
<1> DEFINE Somebodys == row' # row =>
             \E u \in Users : pc[u] = "read" /\ \A x \in Editable : row'[x] = Kept(x, form[u][x])
<1>1. IInv /\ [Next]_vars => Somebodys
  <2> SUFFICES ASSUME IInv, [Next]_vars, row' # row
               PROVE  \E u \in Users : pc[u] = "read" /\ \A x \in Editable : row'[x] = Kept(x, form[u][x])
    OBVIOUS
  <2>1. PICK u \in Users : Write(u) /\ row' = NewRow(u)
    BY DEF Next, vars, Show, Render, Post, Fail, ArchiveAddress, Write
  <2>2. seen[u] \in Rows(kind)
    BY <2>1 DEF Write, IInv, ReadsAreFaithful
  <2>3. CASE kind = "good"
    <3>1. row' = [seen[u] EXCEPT !["status"] = form[u]["status"]] /\ Editable = {"status"}
      BY <2>1, <2>3 DEF NewRow, NewGood, Editable
    <3>2. "status" \in DOMAIN seen[u]
      BY <2>2, <2>3, RowIs, FieldsAre
    <3> QED
      BY <2>1, <3>1, <3>2, OthersAreKept DEF Write
  <2>4. CASE kind \in {"order", "job"}
    <3>1. row' = form[u] /\ Editable = Fields[kind] /\ pc[u] = "read"
      BY <2>1, <2>4 DEF NewRow, NewOrder, NewJob, Write, Editable
    <3>2. \A x \in Fields[kind] : Kept(x, form[u][x]) = form[u][x]
      BY <2>4, OthersAreKept, FieldsAre
    <3> QED
      BY <3>1, <3>2
  <2>5. CASE kind \in {"client", "address", "asset"}
    BY <2>1, <2>5 DEF NewRow, NewPlain, Write, Editable
  <2>6. kind \in Kinds
    BY DEF IInv, TypeOK
  <2> QED
    BY <2>3, <2>4, <2>5, <2>6, KindsAre
<1> QED
  BY <1>1, Invariance, PTL DEF Spec, RowIsSomebodysForm

\* Of what a page offers nothing is refused, but for one misspelt status
\* (goods/handles/goods.go:232), and nothing fails but a zip code that is not a
\* number, and an order whose page had no address to offer
\* (gui/order/client-order.html:33).
THEOREM Taken == Spec => OfferedIsTaken
<1> DEFINE Refused(u) == pc[u] = "page" /\ answer'[u] = "refused" =>
             \/ "text" \in Fields[kind] /\ form'[u]["text"] = ""
             \/ kind = "address" /\ form'[u]["zip"] = "-"
             \/ kind = "good" /\ form'[u]["status"] = "decommissioned"
           Failed(u) == pc[u] = "read" /\ answer'[u] = "failed" =>
             \/ kind = "order" /\ offer[u] = {}
             \/ kind = "address" /\ form[u]["zip"] = "centro"
<1>1. IInv /\ [Next]_vars => \A u \in Users : Refused(u) /\ Failed(u)
  <2> SUFFICES ASSUME IInv, [Next]_vars, NEW u \in Users
               PROVE  Refused(u) /\ Failed(u)
    OBVIOUS
  <2>1. TypeOK /\ Whole /\ Sound(u)
    BY UserByUser
  <2>2. pc[u] # "away" /\ answer'[u] # "none" => Post(u) \/ Write(u) \/ Fail(u)
    BY OnlyTheHandlerAnswers
  <2>3. Refused(u)
    <3> SUFFICES ASSUME pc[u] = "page", answer'[u] = "refused"
                 PROVE  \/ "text" \in Fields[kind] /\ form'[u]["text"] = ""
                        \/ kind = "address" /\ form'[u]["zip"] = "-"
                        \/ kind = "good" /\ form'[u]["status"] = "decommissioned"
      OBVIOUS
    <3>1. Post(u)
      BY <2>2 DEF Write, Fail
    <3>2. PICK f \in Filled(u) : form' = [form EXCEPT ![u] = f] /\ ~Acceptable(f)
      BY <2>1, <3>1 DEF Post, Sound, NotAnswered
    <3>3. form'[u] = f
      BY <2>1, <3>2 DEF Whole
    <3>4. f["status"] \in Offered(kind) /\ kind \in Kinds
      BY <2>1, FormFits DEF IInv, TypeOK
    <3>5. kind # "good" => f["status"] \in Accepted[kind]
      BY <3>4, AcceptedIs
    <3>6. kind = "good" /\ f["status"] # "decommissioned" => f["status"] \in Accepted[kind]
      BY <3>4, AcceptedIs, OfferedIs
    <3> QED
      BY <3>2, <3>3, <3>5, <3>6, FieldsAre DEF Acceptable
  <2>4. Failed(u)
    <3> SUFFICES ASSUME pc[u] = "read", answer'[u] = "failed"
                 PROVE  \/ kind = "order" /\ offer[u] = {}
                        \/ kind = "address" /\ form[u]["zip"] = "centro"
      OBVIOUS
    <3>1. Write(u) \/ Fail(u)
      BY <2>2 DEF Post
    <3>2. ASSUME NEW a \in {"redirect", "lost"}, Reply(u, a) PROVE FALSE
      BY <3>2, ReplyIs
    <3>3. Unstorable(form[u])
      BY <3>1, <3>2 DEF Write, Fail
    <3>4. form[u] \in Filled(u)
      BY <2>1 DEF Sound, FormOf
    <3>5. kind = "order" =>
            form[u]["address"] \in Addresses \/ (offer[u] = {} /\ form[u]["address"] = NoAddress)
      BY <2>1, <3>4, FormFits DEF IInv
    <3> QED
      BY <3>3, <3>5, FormsAssumption DEF Unstorable
  <2> QED
    BY <2>3, <2>4
<1>2. (\A u \in Users : Refused(u) /\ Failed(u)) =>
        \A u \in Users :
          /\ pc[u] = "page" /\ answer'[u] = "refused" =>
               \/ "text" \in Fields[kind] /\ form'[u]["text"] = ""
               \/ kind = "address" /\ form'[u]["zip"] = "-"
               \/ kind = "good" /\ form'[u]["status"] = "decommissioned"
          /\ pc[u] = "read" /\ answer'[u] = "failed" =>
               \/ kind = "order" /\ offer[u] = {}
               \/ kind = "address" /\ form[u]["zip"] = "centro"
  OBVIOUS
<1> QED
  BY <1>1, <1>2, Invariance, PTL DEF Spec, OfferedIsTaken

\* What the user did to a page that shows the row, laid over the row.
LEMMA MeantIsWritten ==
  ASSUME IInv, NEW u \in Users, pc[u] = "read", ~stale[u], ~Misled(u)
  PROVE  NewRow(u) = [x \in Fields[kind] |-> IF x \in Changed(u) THEN Kept(x, form[u][x]) ELSE row[x]]
<1> DEFINE Meant == [x \in Fields[kind] |-> IF x \in Changed(u) THEN Kept(x, form[u][x]) ELSE row[x]]
<1>1. TypeOK /\ ReadOf(u) /\ PageOf(u) /\ FormOf(u)
  BY UserByUser DEF Sound
<1>2. kind \in Kinds /\ row \in Rows(kind) /\ seen[u] = row
  BY <1>1 DEF TypeOK, ReadOf
<1>3. PICK t \in Texts : page[u] = Page(row, offer[u], t)
  BY <1>1 DEF PageOf
<1>4. row = [x \in Fields[kind] |-> row[x]] /\ \A x \in Fields[kind] : row[x] \in Values(kind, x)
  BY <1>2, RowIs
<1>5. form[u] = [x \in Fields[kind] |-> form[u][x]]
  BY <1>1, FilledIs DEF FormOf
<1>6. \A x : x \in Changed(u) <=> x \in Fields[kind] /\ form[u][x] # page[u][x]
  BY DEF Changed
\* Where the page shows the row, or the user has changed it, the form says what is meant.
<1>7. ASSUME \A x \in Fields[kind] : x \in Changed(u) \/ page[u][x] = row[x]
      PROVE  [x \in Fields[kind] |-> Kept(x, form[u][x])] = Meant
  <2>1. \A x \in Fields[kind] : Kept(x, row[x]) = row[x]
    BY <1>4, OthersAreKept, ShownZipIsKept DEF Values
  <2>2. \A x \in Fields[kind] : Kept(x, form[u][x]) = Meant[x]
    BY <1>6, <1>7, <2>1
  <2> QED
    BY <2>2
<1>12. ASSUME "zip" \notin Fields[kind]
       PROVE  form[u] = [x \in Fields[kind] |-> Kept(x, form[u][x])]
  <2>1. \A x \in Fields[kind] : Kept(x, form[u][x]) = form[u][x]
    BY <1>12, OthersAreKept
  <2> QED
    BY <1>5, <2>1
<1>8. CASE kind = "good"
  <2>1. NewRow(u) = [row EXCEPT !["status"] = form[u]["status"]]
    BY <1>2, <1>8 DEF NewRow, NewGood
  <2>2. page[u] = [row EXCEPT !["status"] = "acquired", !["text"] = t]
    BY <1>3, <1>8, OfferedIs DEF Page, GoodPage
  <2>3. /\ "text" \notin Changed(u)
        /\ row["status"] = "acquired" \/ "status" \in Changed(u)
    BY <1>8, OfferedIs DEF Misled
  <2>4. "status" \notin Changed(u) => form[u]["status"] = row["status"]
    BY <1>4, <1>6, <1>8, <2>2, <2>3, FieldsAre
  <2>5. NewRow(u) = [x \in Fields[kind] |-> NewRow(u)[x]]
    BY <1>4, <2>1
  <2>6. \A x \in Fields[kind] : NewRow(u)[x] = Meant[x]
    BY <1>4, <1>8, <2>1, <2>3, <2>4, FieldsAre, OthersAreKept
  <2> QED
    BY <2>5, <2>6
<1>9. CASE kind = "address"
  <2>1. page[u] = [row EXCEPT !["country"] = "Brasil"]
    BY <1>3, <1>9 DEF Page, AddressPage
  <2>2. row["country"] = "Brasil" \/ "country" \in Changed(u)
    BY <1>9 DEF Misled
  <2>3. \A x \in Fields[kind] : x \in Changed(u) \/ page[u][x] = row[x]
    BY <1>4, <2>1, <2>2
  <2> QED
    BY <1>7, <1>9, <2>3 DEF NewRow, NewPlain
<1>10. CASE kind = "order"
  <2>3. "address" \in Changed(u) \/ row["address"] \in offer[u]
    BY <1>10 DEF Misled
  <2>4. \A x \in Fields[kind] \ {"address"} : page[u][x] = row[x]
    BY <1>3, <1>4, <1>10 DEF Page, OrderPage
  <2>5. row["address"] \in offer[u] => page[u]["address"] = row["address"]
    BY <1>3, <1>4, <1>10, FieldsAre DEF Page, OrderPage
  <2>6. \A x \in Fields[kind] : x \in Changed(u) \/ page[u][x] = row[x]
    BY <2>3, <2>4, <2>5
  <2> QED
    BY <1>7, <1>10, <1>12, <2>6, FieldsAre DEF NewRow, NewOrder
<1>11. CASE kind \in {"client", "asset", "job"}
  <2>1. page[u] = row
    BY <1>3, <1>11 DEF Page
  <2>2. form[u] = Meant
    BY <1>7, <1>11, <1>12, <2>1, FieldsAre
  <2>3. CASE kind = "job" /\ form[u]["status"] = seen[u]["status"]
    <3>1. NewRow(u) = row
      BY <2>3 DEF NewRow, NewJob
    <3>2. \A x \in Fields[kind] : row[x] = form[u][x]
      BY <1>2, <2>3, FieldsAre
    <3> QED
      BY <1>4, <1>5, <2>2, <3>1, <3>2
  <2>4. CASE kind = "job" /\ form[u]["status"] # seen[u]["status"]
    BY <2>2, <2>4 DEF NewRow, NewJob
  <2>5. CASE kind # "job"
    BY <1>7, <1>11, <2>1, <2>5 DEF NewRow, NewPlain
  <2> QED
    BY <2>3, <2>4, <2>5
<1> QED
  BY <1>2, <1>8, <1>9, <1>10, <1>11, KindsAre

\* An edit that nothing overlaps changes what its user changed on the page and
\* nothing else (the six handlers that edit, and the templates of their pages),
\* unless the page shows something else than the row.
THEOREM SoloEdits == Spec => SoloEditMeansIt
<1> DEFINE Solo == \A u \in Users :
             pc[u] = "read" /\ answer'[u] = "redirect" /\ ~stale[u] /\ ~Misled(u) =>
               row' = [x \in Fields[kind] |-> IF x \in Changed(u) THEN Kept(x, form[u][x]) ELSE row[x]]
<1>1. IInv /\ [Next]_vars => Solo
  <2> SUFFICES ASSUME IInv, [Next]_vars, NEW u \in Users,
                      pc[u] = "read", answer'[u] = "redirect", ~stale[u], ~Misled(u)
               PROVE  row' = [x \in Fields[kind] |-> IF x \in Changed(u) THEN Kept(x, form[u][x]) ELSE row[x]]
    OBVIOUS
  <2>1. TypeOK /\ answer[u] = "none"
    BY UserByUser DEF Sound, NotAnswered
  <2>2. Write(u) \/ Fail(u)
    BY <2>1, OnlyTheHandlerAnswers DEF Post
  <2>3. ASSUME NEW a \in {"failed", "lost"}, Reply(u, a) PROVE FALSE
    BY <2>3, ReplyIs
  <2>4. row' = NewRow(u)
    BY <2>2, <2>3 DEF Write, Fail
  <2> QED
    BY <2>4, MeantIsWritten
<1> QED
  BY <1>1, Invariance, PTL DEF Spec, SoloEditMeansIt

=============================================================================
