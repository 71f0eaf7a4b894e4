-------------------------- MODULE ListQueriesProofs --------------------------
(* Proofs about ListQueries, for any number of clients, parents, kinds and rows. *)
EXTENDS ListQueries, SequenceTheorems, TLAPS

(* Words put together *)

LEMMA OneMore ==
  ASSUME NEW S, NEW s \in Seq(S), NEW x \in S, NEW t \in Seq(S), Len(t) = Len(s) + 1,
         \A i \in 1 .. Len(s) : t[i] = s[i], t[Len(s) + 1] = x
  PROVE  s \o <<x>> = t
<1>1. <<x>> \in Seq(S) /\ Len(<<x>>) = 1 /\ <<x>>[1] = x
  OBVIOUS
<1>2. /\ s \o <<x>> \in Seq(S) /\ Len(s \o <<x>>) = Len(s) + 1
      /\ \A i \in 1 .. Len(s) + 1 : (s \o <<x>>)[i] = IF i <= Len(s) THEN s[i] ELSE <<x>>[i - Len(s)]
  BY <1>1, ConcatProperties
<1>3. Len(s) \in Nat
  BY LenProperties
<1>4. ASSUME NEW i \in 1 .. Len(t)
      PROVE  t[i] = (s \o <<x>>)[i]
  <2>1. CASE i <= Len(s)
    BY <1>2, <1>3, <2>1
  <2>2. CASE i = Len(s) + 1
    BY <1>1, <1>2, <1>3, <2>2
  <2> QED
    BY <1>3, <2>1, <2>2
<1> QED
  BY <1>2, <1>4, SeqEqual

LEMMA Words1 ==
  ASSUME NEW a, NEW x
  PROVE  <<a>> \o <<x>> = <<a, x>>
<1> DEFINE S == {a, x}
<1> DEFINE s == <<a>>
<1> DEFINE t == <<a, x>>
<1>1. s \in Seq(S) /\ t \in Seq(S) /\ x \in S /\ Len(s) = 1 /\ Len(t) = 2 /\ t[2] = x
  OBVIOUS
<1>2. \A i \in 1 .. 1 : t[i] = s[i]
  OBVIOUS
<1> HIDE DEF S, s, t
<1>3. Len(t) = Len(s) + 1 /\ t[Len(s) + 1] = x /\ \A i \in 1 .. Len(s) : t[i] = s[i]
  BY <1>1, <1>2
<1>4. s \o <<x>> = t
  BY <1>1, <1>3, OneMore, Zenon
<1> QED
  BY <1>4 DEF s, t

LEMMA Words2 ==
  ASSUME NEW a, NEW b, NEW x
  PROVE  <<a, b>> \o <<x>> = <<a, b, x>>
<1> DEFINE S == {a, b, x}
<1> DEFINE s == <<a, b>>
<1> DEFINE t == <<a, b, x>>
<1>1. s \in Seq(S) /\ t \in Seq(S) /\ x \in S /\ Len(s) = 2 /\ Len(t) = 3 /\ t[3] = x
  OBVIOUS
<1>2. \A i \in 1 .. 2 : t[i] = s[i]
  OBVIOUS
<1> HIDE DEF S, s, t
<1>3. Len(t) = Len(s) + 1 /\ t[Len(s) + 1] = x /\ \A i \in 1 .. Len(s) : t[i] = s[i]
  BY <1>1, <1>2
<1>4. s \o <<x>> = t
  BY <1>1, <1>3, OneMore, Zenon
<1> QED
  BY <1>4 DEF s, t

LEMMA Words3 ==
  ASSUME NEW a, NEW b, NEW c, NEW x
  PROVE  <<a, b, c>> \o <<x>> = <<a, b, c, x>>
<1> DEFINE S == {a, b, c, x}
<1> DEFINE s == <<a, b, c>>
<1> DEFINE t == <<a, b, c, x>>
<1>1. s \in Seq(S) /\ t \in Seq(S) /\ x \in S /\ Len(s) = 3 /\ Len(t) = 4 /\ t[4] = x
  OBVIOUS
<1>2. \A i \in 1 .. 3 : t[i] = s[i]
  OBVIOUS
<1> HIDE DEF S, s, t
<1>3. Len(t) = Len(s) + 1 /\ t[Len(s) + 1] = x /\ \A i \in 1 .. Len(s) : t[i] = s[i]
  BY <1>1, <1>2
<1>4. s \o <<x>> = t
  BY <1>1, <1>3, OneMore, Zenon
<1> QED
  BY <1>4 DEF s, t

LEMMA Words4 ==
  ASSUME NEW a, NEW b, NEW c, NEW d, NEW x
  PROVE  <<a, b, c, d>> \o <<x>> = <<a, b, c, d, x>>
<1> DEFINE S == {a, b, c, d, x}
<1> DEFINE s == <<a, b, c, d>>
<1> DEFINE t == <<a, b, c, d, x>>
<1>1. s \in Seq(S) /\ t \in Seq(S) /\ x \in S /\ Len(s) = 4 /\ Len(t) = 5 /\ t[5] = x
  OBVIOUS
<1>2. \A i \in 1 .. 4 : t[i] = s[i]
  OBVIOUS
<1> HIDE DEF S, s, t
<1>3. Len(t) = Len(s) + 1 /\ t[Len(s) + 1] = x /\ \A i \in 1 .. Len(s) : t[i] = s[i]
  BY <1>1, <1>2
<1>4. s \o <<x>> = t
  BY <1>1, <1>3, OneMore, Zenon
<1> QED
  BY <1>4 DEF s, t

LEMMA Words5 ==
  ASSUME NEW a, NEW b, NEW c, NEW d, NEW e, NEW x
  PROVE  <<a, b, c, d, e>> \o <<x>> = <<a, b, c, d, e, x>>
<1> DEFINE S == {a, b, c, d, e, x}
<1> DEFINE s == <<a, b, c, d, e>>
<1> DEFINE t == <<a, b, c, d, e, x>>
<1>1. s \in Seq(S) /\ t \in Seq(S) /\ x \in S /\ Len(s) = 5 /\ Len(t) = 6 /\ t[6] = x
  OBVIOUS
<1>2. \A i \in 1 .. 5 : t[i] = s[i]
  OBVIOUS
<1> HIDE DEF S, s, t
<1>3. Len(t) = Len(s) + 1 /\ t[Len(s) + 1] = x /\ \A i \in 1 .. Len(s) : t[i] = s[i]
  BY <1>1, <1>2
<1>4. s \o <<x>> = t
  BY <1>1, <1>3, OneMore, Zenon
<1> QED
  BY <1>4 DEF s, t

LEMMA TwoWords == ASSUME NEW a, NEW x, NEW y PROVE <<a>> \o <<x, y>> = <<a, x, y>>
<1> DEFINE S == {a, x, y}
<1>1. <<a>> \in Seq(S) /\ <<x>> \in Seq(S) /\ <<y>> \in Seq(S)
  OBVIOUS
<1> HIDE DEF S
<1>2. (<<a>> \o <<x>>) \o <<y>> = <<a>> \o (<<x>> \o <<y>>)
  BY <1>1, ConcatAssociative
<1> QED
  BY <1>2, Words1, Words2

LEMMA NoWords ==
  /\ <<>> \o <<>> = <<>>
  /\ \A a : <<a>> \o <<>> = <<a>>
  /\ \A a, b : <<a, b>> \o <<>> = <<a, b>>
  /\ \A a, b, c : <<a, b, c>> \o <<>> = <<a, b, c>>
  /\ \A a, b, c, d : <<a, b, c, d>> \o <<>> = <<a, b, c, d>>
  OBVIOUS

---------------------------------------------------------------------------
(* The clauses, for every combination of filters *)

LEMMA WhereIs ==
  ASSUME NEW f, NEW after \in BOOLEAN
  PROVE  LET c == Given(f.client)  k == Given(f.kind)  p == Given(f.parent) IN
         /\ ~c /\ ~k /\ ~p => Where(f, after) = <<>>
         /\ ~c /\ k /\ ~p => Where(f, after) = <<"WHERE", "kind">>
         /\ ~c /\ ~k /\ p => Where(f, after) = <<"WHERE", "parent">>
         /\ ~c /\ k /\ p => Where(f, after) = <<"WHERE", "kind", "AND", "parent">>
         /\ c /\ ~k /\ ~p /\ after => Where(f, after) = <<"WHERE", "client", "AND">>
         /\ c /\ ~k /\ ~p /\ ~after => Where(f, after) = <<"WHERE", "client">>
         /\ c /\ k /\ ~p /\ after => Where(f, after) = <<"WHERE", "client", "AND", "kind">>
         /\ c /\ ~k /\ p /\ after => Where(f, after) = <<"WHERE", "client", "AND", "parent">>
         /\ c /\ k /\ p /\ after =>
              Where(f, after) = <<"WHERE", "client", "AND", "kind", "AND", "parent">>
<1> DEFINE c == Given(f.client)
<1> DEFINE k == Given(f.kind)
<1> DEFINE p == Given(f.parent)
<1> DEFINE w0 == When(\E x \in Columns : Given(f[x]), <<"WHERE">>)
<1> DEFINE w1 == w0 \o When(c, <<"client">> \o When(after, <<"AND">>))
<1> DEFINE w2 == w1 \o When(k, <<"kind">>)
<1> DEFINE w3 == w2 \o When(p /\ k, <<"AND">>)
<1> DEFINE w4 == w3 \o When(p, <<"parent">>)
<1>1. Where(f, after) = w4
  BY DEF Where
<1>2. w0 = IF c \/ k \/ p THEN <<"WHERE">> ELSE <<>>
  BY DEF Columns, When
<1>3. /\ c /\ after => w1 = w0 \o <<"client", "AND">>
      /\ c /\ ~after => w1 = w0 \o <<"client">>
      /\ ~c => w1 = w0 \o <<>>
  BY Words1, NoWords DEF When
<1>4. w2 = w1 \o IF k THEN <<"kind">> ELSE <<>>
  BY DEF When
<1>5. w3 = w2 \o IF p /\ k THEN <<"AND">> ELSE <<>>
  BY DEF When
<1>6. w4 = w3 \o IF p THEN <<"parent">> ELSE <<>>
  BY DEF When
<1> HIDE DEF c, k, p, w0, w1, w2, w3, w4
<1>7. CASE ~c /\ ~k /\ ~p
  <2>1. w0 = <<>>
    BY <1>2, <1>7
  <2>2. w1 = <<>>
    BY <1>3, <1>7, <2>1, NoWords
  <2>3. w2 = <<>>
    BY <1>4, <1>7, <2>2, NoWords
  <2>4. w3 = <<>>
    BY <1>5, <1>7, <2>3, NoWords
  <2>5. w4 = <<>>
    BY <1>6, <1>7, <2>4, NoWords
  <2> QED
    BY <1>1, <1>7, <2>5 DEF c, k, p
<1>8. CASE ~c /\ k /\ ~p
  <2>1. w0 = <<"WHERE">>
    BY <1>2, <1>8
  <2>2. w1 = <<"WHERE">>
    BY <1>3, <1>8, <2>1, NoWords
  <2>3. w2 = <<"WHERE", "kind">>
    BY <1>4, <1>8, <2>2, Words1
  <2>4. w3 = <<"WHERE", "kind">>
    BY <1>5, <1>8, <2>3, NoWords
  <2>5. w4 = <<"WHERE", "kind">>
    BY <1>6, <1>8, <2>4, NoWords
  <2> QED
    BY <1>1, <1>8, <2>5 DEF c, k, p
<1>9. CASE ~c /\ ~k /\ p
  <2>1. w0 = <<"WHERE">>
    BY <1>2, <1>9
  <2>2. w1 = <<"WHERE">>
    BY <1>3, <1>9, <2>1, NoWords
  <2>3. w2 = <<"WHERE">>
    BY <1>4, <1>9, <2>2, NoWords
  <2>4. w3 = <<"WHERE">>
    BY <1>5, <1>9, <2>3, NoWords
  <2>5. w4 = <<"WHERE", "parent">>
    BY <1>6, <1>9, <2>4, Words1
  <2> QED
    BY <1>1, <1>9, <2>5 DEF c, k, p
<1>10. CASE ~c /\ k /\ p
  <2>1. w0 = <<"WHERE">>
    BY <1>2, <1>10
  <2>2. w1 = <<"WHERE">>
    BY <1>3, <1>10, <2>1, NoWords
  <2>3. w2 = <<"WHERE", "kind">>
    BY <1>4, <1>10, <2>2, Words1
  <2>4. w3 = <<"WHERE", "kind", "AND">>
    BY <1>5, <1>10, <2>3, Words2
  <2>5. w4 = <<"WHERE", "kind", "AND", "parent">>
    BY <1>6, <1>10, <2>4, Words3
  <2> QED
    BY <1>1, <1>10, <2>5 DEF c, k, p
<1>11. CASE c /\ ~k /\ ~p /\ after
  <2>1. w0 = <<"WHERE">>
    BY <1>2, <1>11
  <2>2. w1 = <<"WHERE", "client", "AND">>
    BY <1>3, <1>11, <2>1, TwoWords
  <2>3. w2 = <<"WHERE", "client", "AND">>
    BY <1>4, <1>11, <2>2, NoWords
  <2>4. w3 = <<"WHERE", "client", "AND">>
    BY <1>5, <1>11, <2>3, NoWords
  <2>5. w4 = <<"WHERE", "client", "AND">>
    BY <1>6, <1>11, <2>4, NoWords
  <2> QED
    BY <1>1, <1>11, <2>5 DEF c, k, p
<1>12. CASE c /\ ~k /\ ~p /\ ~after
  <2>1. w0 = <<"WHERE">>
    BY <1>2, <1>12
  <2>2. w1 = <<"WHERE", "client">>
    BY <1>3, <1>12, <2>1, Words1
  <2>3. w2 = <<"WHERE", "client">>
    BY <1>4, <1>12, <2>2, NoWords
  <2>4. w3 = <<"WHERE", "client">>
    BY <1>5, <1>12, <2>3, NoWords
  <2>5. w4 = <<"WHERE", "client">>
    BY <1>6, <1>12, <2>4, NoWords
  <2> QED
    BY <1>1, <1>12, <2>5 DEF c, k, p
<1>13. CASE c /\ k /\ ~p /\ after
  <2>1. w0 = <<"WHERE">>
    BY <1>2, <1>13
  <2>2. w1 = <<"WHERE", "client", "AND">>
    BY <1>3, <1>13, <2>1, TwoWords
  <2>3. w2 = <<"WHERE", "client", "AND", "kind">>
    BY <1>4, <1>13, <2>2, Words3
  <2>4. w3 = <<"WHERE", "client", "AND", "kind">>
    BY <1>5, <1>13, <2>3, NoWords
  <2>5. w4 = <<"WHERE", "client", "AND", "kind">>
    BY <1>6, <1>13, <2>4, NoWords
  <2> QED
    BY <1>1, <1>13, <2>5 DEF c, k, p
<1>14. CASE c /\ ~k /\ p /\ after
  <2>1. w0 = <<"WHERE">>
    BY <1>2, <1>14
  <2>2. w1 = <<"WHERE", "client", "AND">>
    BY <1>3, <1>14, <2>1, TwoWords
  <2>3. w2 = <<"WHERE", "client", "AND">>
    BY <1>4, <1>14, <2>2, NoWords
  <2>4. w3 = <<"WHERE", "client", "AND">>
    BY <1>5, <1>14, <2>3, NoWords
  <2>5. w4 = <<"WHERE", "client", "AND", "parent">>
    BY <1>6, <1>14, <2>4, Words3
  <2> QED
    BY <1>1, <1>14, <2>5 DEF c, k, p
<1>15. CASE c /\ k /\ p /\ after
  <2>1. w0 = <<"WHERE">>
    BY <1>2, <1>15
  <2>2. w1 = <<"WHERE", "client", "AND">>
    BY <1>3, <1>15, <2>1, TwoWords
  <2>3. w2 = <<"WHERE", "client", "AND", "kind">>
    BY <1>4, <1>15, <2>2, Words3
  <2>4. w3 = <<"WHERE", "client", "AND", "kind", "AND">>
    BY <1>5, <1>15, <2>3, Words4
  <2>5. w4 = <<"WHERE", "client", "AND", "kind", "AND", "parent">>
    BY <1>6, <1>15, <2>4, Words5
  <2> QED
    BY <1>1, <1>15, <2>5 DEF c, k, p
<1> QED
  BY <1>7, <1>8, <1>9, <1>10, <1>11, <1>12, <1>13, <1>14, <1>15 DEF c, k, p, Given

LEMMA OrdersWhereIs ==
  ASSUME NEW f
  PROVE  LET c == Given(f.client)  k == Given(f.kind) IN
         /\ ~c /\ ~k => OrdersWhere(f) = <<>>
         /\ ~c /\ k => OrdersWhere(f) = <<"WHERE", "kind">>
         /\ c /\ ~k => OrdersWhere(f) = <<"WHERE", "client">>
         /\ c /\ k => OrdersWhere(f) = <<"WHERE", "kind", "AND", "client">>
<1> DEFINE c == Given(f.client)
<1> DEFINE k == Given(f.kind)
<1> DEFINE w0 == When(c \/ k, <<"WHERE">>)
<1> DEFINE w1 == w0 \o When(k, <<"kind">>)
<1> DEFINE w2 == w1 \o When(c /\ k, <<"AND">>)
<1> DEFINE w3 == w2 \o When(c, <<"client">>)
<1>1. OrdersWhere(f) = w3
  BY DEF OrdersWhere
<1>2. w0 = IF c \/ k THEN <<"WHERE">> ELSE <<>>
  BY DEF When
<1>3. w1 = w0 \o IF k THEN <<"kind">> ELSE <<>>
  BY DEF When
<1>4. w2 = w1 \o IF c /\ k THEN <<"AND">> ELSE <<>>
  BY DEF When
<1>5. w3 = w2 \o IF c THEN <<"client">> ELSE <<>>
  BY DEF When
<1> HIDE DEF c, k, w0, w1, w2, w3
<1>6. CASE ~c /\ ~k
  <2>1. w0 = <<>>
    BY <1>2, <1>6
  <2>2. w1 = <<>>
    BY <1>3, <1>6, <2>1, NoWords
  <2>3. w2 = <<>>
    BY <1>4, <1>6, <2>2, NoWords
  <2>4. w3 = <<>>
    BY <1>5, <1>6, <2>3, NoWords
  <2> QED
    BY <1>1, <1>6, <2>4 DEF c, k
<1>7. CASE ~c /\ k
  <2>1. w0 = <<"WHERE">>
    BY <1>2, <1>7
  <2>2. w1 = <<"WHERE", "kind">>
    BY <1>3, <1>7, <2>1, Words1
  <2>3. w2 = <<"WHERE", "kind">>
    BY <1>4, <1>7, <2>2, NoWords
  <2>4. w3 = <<"WHERE", "kind">>
    BY <1>5, <1>7, <2>3, NoWords
  <2> QED
    BY <1>1, <1>7, <2>4 DEF c, k
<1>8. CASE c /\ ~k
  <2>1. w0 = <<"WHERE">>
    BY <1>2, <1>8
  <2>2. w1 = <<"WHERE">>
    BY <1>3, <1>8, <2>1, NoWords
  <2>3. w2 = <<"WHERE">>
    BY <1>4, <1>8, <2>2, NoWords
  <2>4. w3 = <<"WHERE", "client">>
    BY <1>5, <1>8, <2>3, Words1
  <2> QED
    BY <1>1, <1>8, <2>4 DEF c, k
<1>9. CASE c /\ k
  <2>1. w0 = <<"WHERE">>
    BY <1>2, <1>9
  <2>2. w1 = <<"WHERE", "kind">>
    BY <1>3, <1>9, <2>1, Words1
  <2>3. w2 = <<"WHERE", "kind", "AND">>
    BY <1>4, <1>9, <2>2, Words2
  <2>4. w3 = <<"WHERE", "kind", "AND", "client">>
    BY <1>5, <1>9, <2>3, Words3
  <2> QED
    BY <1>1, <1>9, <2>4 DEF c, k
<1> QED
  BY <1>6, <1>7, <1>8, <1>9 DEF c, k, Given

LEMMA BelongingsWhereIs ==
  ASSUME NEW f, Given(f.client), url.showArchived \in BOOLEAN
  PROVE  /\ url.showArchived => BelongingsWhere(f) = <<"WHERE", "client">>
         /\ ~url.showArchived => BelongingsWhere(f) = <<"WHERE", "unarchived", "AND", "client">>
<1> DEFINE c == Given(f.client)
<1> DEFINE u == ~url.showArchived
<1> DEFINE w0 == When(c \/ u, <<"WHERE">>)
<1> DEFINE w1 == w0 \o When(u, <<"unarchived">>)
<1> DEFINE w2 == w1 \o When(c /\ u, <<"AND">>)
<1> DEFINE w3 == w2 \o When(c, <<"client">>)
<1>1. BelongingsWhere(f) = w3
  BY DEF BelongingsWhere
<1>2. w0 = IF c \/ u THEN <<"WHERE">> ELSE <<>>
  BY DEF When
<1>3. w1 = w0 \o IF u THEN <<"unarchived">> ELSE <<>>
  BY DEF When
<1>4. w2 = w1 \o IF c /\ u THEN <<"AND">> ELSE <<>>
  BY DEF When
<1>5. w3 = w2 \o IF c THEN <<"client">> ELSE <<>>
  BY DEF When
<1> HIDE DEF c, u, w0, w1, w2, w3
<1>6. CASE c /\ ~u
  <2>1. w0 = <<"WHERE">>
    BY <1>2, <1>6
  <2>2. w1 = <<"WHERE">>
    BY <1>3, <1>6, <2>1, NoWords
  <2>3. w2 = <<"WHERE">>
    BY <1>4, <1>6, <2>2, NoWords
  <2>4. w3 = <<"WHERE", "client">>
    BY <1>5, <1>6, <2>3, Words1
  <2> QED
    BY <1>1, <1>6, <2>4 DEF c, u
<1>7. CASE c /\ u
  <2>1. w0 = <<"WHERE">>
    BY <1>2, <1>7
  <2>2. w1 = <<"WHERE", "unarchived">>
    BY <1>3, <1>7, <2>1, Words1
  <2>3. w2 = <<"WHERE", "unarchived", "AND">>
    BY <1>4, <1>7, <2>2, Words2
  <2>4. w3 = <<"WHERE", "unarchived", "AND", "client">>
    BY <1>5, <1>7, <2>3, Words3
  <2> QED
    BY <1>1, <1>7, <2>4 DEF c, u
<1> QED
  BY <1>6, <1>7 DEF c, u, Given

---------------------------------------------------------------------------
(* What the clauses select *)

\* MySQL takes every clause but the one that ends in AND, and it means the
\* conjunction of its conditions.
LEMMA ClausesSay ==
  /\ Parses(<<>>)
  /\ \A r \in there : r \in Result(<<>>) <=> TRUE
  /\ Parses(<<"WHERE", "kind">>)
  /\ \A r \in there : r \in Result(<<"WHERE", "kind">>) <=> Holds(r, "kind")
  /\ Parses(<<"WHERE", "parent">>)
  /\ \A r \in there : r \in Result(<<"WHERE", "parent">>) <=> Holds(r, "parent")
  /\ Parses(<<"WHERE", "client">>)
  /\ \A r \in there : r \in Result(<<"WHERE", "client">>) <=> Holds(r, "client")
  /\ Parses(<<"WHERE", "kind", "AND", "parent">>)
  /\ \A r \in there : r \in Result(<<"WHERE", "kind", "AND", "parent">>) <=> Holds(r, "kind") /\ Holds(r, "parent")
  /\ Parses(<<"WHERE", "client", "AND", "kind">>)
  /\ \A r \in there : r \in Result(<<"WHERE", "client", "AND", "kind">>) <=> Holds(r, "client") /\ Holds(r, "kind")
  /\ Parses(<<"WHERE", "client", "AND", "parent">>)
  /\ \A r \in there : r \in Result(<<"WHERE", "client", "AND", "parent">>) <=> Holds(r, "client") /\ Holds(r, "parent")
  /\ Parses(<<"WHERE", "kind", "AND", "client">>)
  /\ \A r \in there : r \in Result(<<"WHERE", "kind", "AND", "client">>) <=> Holds(r, "kind") /\ Holds(r, "client")
  /\ Parses(<<"WHERE", "unarchived", "AND", "client">>)
  /\ \A r \in there : r \in Result(<<"WHERE", "unarchived", "AND", "client">>) <=> Holds(r, "unarchived") /\ Holds(r, "client")
  /\ Parses(<<"WHERE", "client", "AND", "kind", "AND", "parent">>)
  /\ \A r \in there : r \in Result(<<"WHERE", "client", "AND", "kind", "AND", "parent">>) <=> Holds(r, "client") /\ Holds(r, "kind") /\ Holds(r, "parent")
<1>1. Parses(<<>>)
  BY DEF Parses, Columns
<1>2. \A r \in there : r \in Result(<<>>) <=> TRUE
  BY DEF Result
<1>3. Parses(<<"WHERE", "kind">>)
  BY DEF Parses, Columns
<1>4. \A r \in there : r \in Result(<<"WHERE", "kind">>) <=> Holds(r, "kind")
  BY DEF Result
<1>5. Parses(<<"WHERE", "parent">>)
  BY DEF Parses, Columns
<1>6. \A r \in there : r \in Result(<<"WHERE", "parent">>) <=> Holds(r, "parent")
  BY DEF Result
<1>7. Parses(<<"WHERE", "client">>)
  BY DEF Parses, Columns
<1>8. \A r \in there : r \in Result(<<"WHERE", "client">>) <=> Holds(r, "client")
  BY DEF Result
<1>9. Parses(<<"WHERE", "kind", "AND", "parent">>)
  BY DEF Parses, Columns
<1>10. \A r \in there : r \in Result(<<"WHERE", "kind", "AND", "parent">>) <=> Holds(r, "kind") /\ Holds(r, "parent")
  BY DEF Result
<1>11. Parses(<<"WHERE", "client", "AND", "kind">>)
  BY DEF Parses, Columns
<1>12. \A r \in there : r \in Result(<<"WHERE", "client", "AND", "kind">>) <=> Holds(r, "client") /\ Holds(r, "kind")
  BY DEF Result
<1>13. Parses(<<"WHERE", "client", "AND", "parent">>)
  BY DEF Parses, Columns
<1>14. \A r \in there : r \in Result(<<"WHERE", "client", "AND", "parent">>) <=> Holds(r, "client") /\ Holds(r, "parent")
  BY DEF Result
<1>15. Parses(<<"WHERE", "kind", "AND", "client">>)
  BY DEF Parses, Columns
<1>16. \A r \in there : r \in Result(<<"WHERE", "kind", "AND", "client">>) <=> Holds(r, "kind") /\ Holds(r, "client")
  BY DEF Result
<1>17. Parses(<<"WHERE", "unarchived", "AND", "client">>)
  BY DEF Parses, Columns
<1>18. \A r \in there : r \in Result(<<"WHERE", "unarchived", "AND", "client">>) <=> Holds(r, "unarchived") /\ Holds(r, "client")
  BY DEF Result
<1>19. Parses(<<"WHERE", "client", "AND", "kind", "AND", "parent">>)
  BY DEF Parses, Columns
<1>20. \A r \in there : r \in Result(<<"WHERE", "client", "AND", "kind", "AND", "parent">>) <=> Holds(r, "client") /\ Holds(r, "kind") /\ Holds(r, "parent")
  BY DEF Result
<1> QED
  BY <1>1, <1>2, <1>3, <1>4, <1>5, <1>6, <1>7, <1>8, <1>9, <1>10, <1>11, <1>12, <1>13, <1>14, <1>15, <1>16, <1>17, <1>18, <1>19, <1>20

\* A row that meets the filter, whatever the page makes of it.
Chosen(r) ==
  /\ Given(filter.client) => table[r].client = filter.client
  /\ Given(filter.kind) => table[r].kind = filter.kind
  /\ Given(filter.parent) => table[r].parent = filter.parent
  /\ ~url.showArchived => table[r].kind # Archived

\* The one clause that MySQL does not take.
Spoilt ==
  /\ url.page = "goods"
  /\ Given(filter.client) /\ ~Given(filter.kind) /\ ~Given(filter.parent)

LEMMA HoldsIs ==
  \A r : /\ Holds(r, "client") <=> table[r].client = filter.client
         /\ Holds(r, "kind") <=> table[r].kind = filter.kind
         /\ Holds(r, "parent") <=> table[r].parent = filter.parent
         /\ Holds(r, "unarchived") <=> table[r].kind # Archived
  BY DEF Holds

\* The pages whose clause Where puts together.
LEMMA WhereSays ==
  ASSUME NEW after \in BOOLEAN, Words = Where(filter, after), url.showArchived,
         Given(filter.client) /\ (Given(filter.kind) \/ Given(filter.parent)) => after
  PROVE  /\ ~(Given(filter.client) /\ ~Given(filter.kind) /\ ~Given(filter.parent) /\ after) =>
              Parses(Words) /\ \A r \in there : r \in Result(Words) <=> Chosen(r)
<1> DEFINE c == Given(filter.client)
<1> DEFINE k == Given(filter.kind)
<1> DEFINE p == Given(filter.parent)
<1>1. CASE ~c /\ ~k /\ ~p
  <2>1. Words = <<>>
    BY <1>1, WhereIs
  <2> QED
    BY <1>1, <2>1, ClausesSay, HoldsIs DEF Chosen
<1>2. CASE ~c /\ k /\ ~p
  <2>1. Words = <<"WHERE", "kind">>
    BY <1>2, WhereIs
  <2> QED
    BY <1>2, <2>1, ClausesSay, HoldsIs DEF Chosen
<1>3. CASE ~c /\ ~k /\ p
  <2>1. Words = <<"WHERE", "parent">>
    BY <1>3, WhereIs
  <2> QED
    BY <1>3, <2>1, ClausesSay, HoldsIs DEF Chosen
<1>4. CASE ~c /\ k /\ p
  <2>1. Words = <<"WHERE", "kind", "AND", "parent">>
    BY <1>4, WhereIs
  <2> QED
    BY <1>4, <2>1, ClausesSay, HoldsIs DEF Chosen
<1>5. CASE c /\ ~k /\ ~p /\ ~after
  <2>1. Words = <<"WHERE", "client">>
    BY <1>5, WhereIs
  <2> QED
    BY <1>5, <2>1, ClausesSay, HoldsIs DEF Chosen
<1>6. CASE c /\ k /\ ~p
  <2>1. Words = <<"WHERE", "client", "AND", "kind">>
    BY <1>6, WhereIs
  <2> QED
    BY <1>6, <2>1, ClausesSay, HoldsIs DEF Chosen
<1>7. CASE c /\ ~k /\ p
  <2>1. Words = <<"WHERE", "client", "AND", "parent">>
    BY <1>7, WhereIs
  <2> QED
    BY <1>7, <2>1, ClausesSay, HoldsIs DEF Chosen
<1>8. CASE c /\ k /\ p
  <2>1. Words = <<"WHERE", "client", "AND", "kind", "AND", "parent">>
    BY <1>8, WhereIs
  <2> QED
    BY <1>8, <2>1, ClausesSay, HoldsIs DEF Chosen
<1> QED
  BY <1>1, <1>2, <1>3, <1>4, <1>5, <1>6, <1>7, <1>8 DEF Given

LEMMA WordsSay ==
  ASSUME TypeOK, PageAgrees, FilterAgrees, pc = "select", ~Spoilt
  PROVE  Parses(Words) /\ \A r \in there : r \in Result(Words) <=> Chosen(r)
<1>1. url.page \in Pages /\ url.showArchived \in BOOLEAN
  BY DEF TypeOK
<1>2. filter.parent = url.asked.parent
      /\ filter.kind = IF url.page = "payments" THEN Empty ELSE url.asked.kind
  BY DEF FilterAgrees, Resolved
<1>3. CASE url.page = "jobs"
  <2>1. Words = Where(filter, Given(filter.parent) \/ Given(filter.kind)) /\ url.showArchived
    BY <1>3 DEF Words, JobsWhere, PageAgrees, Belongings
  <2> QED
    BY <2>1, WhereSays
<1>4. CASE url.page = "payments"
  <2>1. Words = Where(filter, Given(filter.parent) \/ Given(filter.kind)) /\ url.showArchived
    BY <1>4 DEF Words, PaymentsWhere, PageAgrees, Belongings
  <2> QED
    BY <2>1, WhereSays
<1>5. CASE url.page = "goods"
  <2>1. Words = Where(filter, Given(filter.client) \/ Given(filter.kind)) /\ url.showArchived
    BY <1>5 DEF Words, GoodsWhere, PageAgrees, Belongings
  <2> QED
    BY <1>5, <2>1, WhereSays DEF Spoilt
<1>6. CASE url.page = "orders"
  <2>1. Words = OrdersWhere(filter) /\ url.showArchived /\ ~Given(filter.parent)
    BY <1>2, <1>6 DEF Words, PageAgrees, Belongings, Given
  <2>2. CASE ~Given(filter.client) /\ ~Given(filter.kind)
    BY <2>1, <2>2, OrdersWhereIs, ClausesSay, HoldsIs DEF Chosen
  <2>3. CASE ~Given(filter.client) /\ Given(filter.kind)
    BY <2>1, <2>3, OrdersWhereIs, ClausesSay, HoldsIs DEF Chosen
  <2>4. CASE Given(filter.client) /\ ~Given(filter.kind)
    BY <2>1, <2>4, OrdersWhereIs, ClausesSay, HoldsIs DEF Chosen
  <2>5. CASE Given(filter.client) /\ Given(filter.kind)
    BY <2>1, <2>5, OrdersWhereIs, ClausesSay, HoldsIs DEF Chosen
  <2> QED
    BY <2>2, <2>3, <2>4, <2>5 DEF Given
<1>7. CASE url.page \in Belongings
  <2>1. /\ Words = BelongingsWhere(filter) /\ Given(filter.client)
        /\ ~Given(filter.kind) /\ ~Given(filter.parent)
    BY <1>2, <1>7 DEF Words, PageAgrees, FilterAgrees, Resolved, Belongings, Given
  <2>2. CASE url.showArchived
    BY <1>1, <2>1, <2>2, BelongingsWhereIs, ClausesSay, HoldsIs DEF Chosen
  <2>3. CASE ~url.showArchived
    BY <1>1, <2>1, <2>3, BelongingsWhereIs, ClausesSay, HoldsIs DEF Chosen
  <2> QED
    BY <1>1, <2>2, <2>3
<1> QED
  BY <1>1, <1>3, <1>4, <1>5, <1>6, <1>7 DEF Pages, Belongings

\* The filter asks for what the query string asks for: a row of the client of a
\* parent, if it is of that parent.
LEMMA ChosenIsAsked ==
  ASSUME IInv, pc = "select", NEW r \in there
  PROVE  Chosen(r) <=> Asked(r)
<1>1. filter.parent = url.asked.parent
      /\ filter.kind = IF url.page = "payments" THEN Empty ELSE url.asked.kind
  BY DEF IInv, FilterAgrees, Resolved
<1>2. IF Given(url.asked.parent)
      THEN /\ url.asked.parent \in Parents /\ filter.client = owner[url.asked.parent]
           /\ url.asked.client \in {Empty, owner[url.asked.parent]}
      ELSE filter.client = url.asked.client
  BY DEF IInv, FilterAgrees, Resolved
<1>3. r \in Rows /\ table[r].client = owner[table[r].parent]
  BY DEF IInv, TypeOK, StoreAgrees
<1>4. owner \in [Parents -> Clients]
  BY DEF IInv, TypeOK
<1>5. Asked(r) <=>
        /\ url.asked.client \in {Empty, table[r].client}
        /\ url.asked.parent \in {Empty, table[r].parent}
        /\ url.page # "payments" => url.asked.kind \in {Empty, table[r].kind}
        /\ url.showArchived \/ table[r].kind # Archived
  BY DEF Asked, Meets, Applied, Columns
<1>6. url.showArchived \in BOOLEAN
  BY DEF IInv, TypeOK
<1>7. CASE Given(url.asked.parent)
  <2>1. filter.client # Empty
    BY <1>2, <1>4, <1>7, ListAssumption
  <2> QED
    BY <1>1, <1>2, <1>3, <1>5, <1>6, <1>7, <2>1 DEF Chosen, Given
<1>8. CASE ~Given(url.asked.parent)
  BY <1>1, <1>2, <1>3, <1>5, <1>6, <1>8 DEF Chosen, Given
<1> QED
  BY <1>7, <1>8

---------------------------------------------------------------------------
(* The steps of the handler *)

Statuses == {"none", "ok", "badRequest", "notFound", "forbidden", "error"}

\* Nothing else moves while the handler takes a step.
Quiet == UNCHANGED <<store, before, moved>>

LEMMA HeaderType ==
  ASSUME TypeOK, NEW s \in Statuses, WriteHeader(s)
  PROVE  status' \in Statuses
  BY DEF TypeOK, WriteHeader, Statuses

\* A page may be stopped when the query string is not sensible, its clause is
\* spoilt, or the database fails.
LEMMA StopIInv ==
  ASSUME IInv, pc \notin {"idle", "done"}, NEW s \in Statuses, Stop(s), Quiet,
         broke' \in {broke, TRUE}, broke' \/ ~Sensible \/ OwnerAlone
  PROVE  IInv'
<1>1. /\ pc' = "done" /\ UNCHANGED <<url, names, filter, left, shown, listed>>
      /\ UNCHANGED <<clients, owner, table, there, before, moved>>
  BY DEF Stop, Quiet, store
<1>2. ~listed
  BY DEF IInv, RowsAgree
<1>3. TypeOK'
  BY <1>1, HeaderType DEF Stop, IInv, TypeOK, Statuses
<1>4. StoreAgrees' /\ PageAgrees'
  BY <1>1 DEF IInv, StoreAgrees, PageAgrees, Met
<1>5. FilterAgrees'
  BY <1>1 DEF FilterAgrees, Resolved
<1>6. RowsAgree' /\ NamesAgree' /\ StatusAgrees' /\ WholeList'
  BY <1>1, <1>2 DEF IInv, RowsAgree, Asked, Meets, Applied, NamesAgree, StatusAgrees, WholeList
<1>7. (Sensible <=> Sensible') /\ (OwnerAlone <=> OwnerAlone')
  BY <1>1 DEF Sensible, OwnerAlone
<1>8. SensibleIsListed'
  BY <1>7 DEF SensibleIsListed
<1> QED
  BY <1>3, <1>4, <1>5, <1>6, <1>8 DEF IInv

LEMMA OpenIInv ==
  ASSUME IInv, Open, UNCHANGED <<store, broke>>
  PROVE  IInv'
<1>1. /\ pc = "idle" /\ UNCHANGED <<clients, owner, table, there, broke>>
      /\ url' \in [page : Pages, asked : Filters, showArchived : BOOLEAN]
      /\ before' = [clients |-> Met, rows |-> there]
      /\ UNCHANGED <<names, left, shown, status, listed, moved>>
  BY DEF Open, store
<1>2. \/ /\ url'.page \in Belongings
         /\ url'.asked.parent = Empty /\ url'.asked.kind = Empty /\ Given(url'.asked.client)
         /\ pc' = "client" /\ filter' = url'.asked
      \/ /\ url'.page \notin Belongings /\ url'.showArchived
         /\ url'.page = "orders" => url'.asked.parent = Empty
         /\ pc' = "opened" /\ filter' = filter
  BY DEF Open
<1>3. left \cup shown = {} /\ ~listed
  BY <1>1 DEF IInv, RowsAgree
<1>4. TypeOK'
  <2>1. Met \subseteq Clients /\ filter' \in Filters
    BY <1>1, <1>2 DEF Met, IInv, TypeOK
  <2> QED
    BY <1>1, <1>2, <2>1 DEF IInv, TypeOK
<1>5. StoreAgrees'
  BY <1>1 DEF IInv, StoreAgrees, Met
<1>6. PageAgrees'
  BY <1>2 DEF PageAgrees
<1>7. FilterAgrees'
  BY <1>2 DEF FilterAgrees, Resolved, Given, Belongings
<1>8. RowsAgree'
  BY <1>1, <1>2, <1>3 DEF RowsAgree
<1>9. NamesAgree'
  BY <1>1, <1>2, <1>3 DEF NamesAgree
<1>10. StatusAgrees'
  <2>1. status = "none"
    BY <1>1 DEF IInv, StatusAgrees
  <2> QED
    BY <1>1, <2>1 DEF StatusAgrees
<1>11. WholeList' /\ SensibleIsListed'
  BY <1>1, <1>2, <1>3 DEF WholeList, SensibleIsListed
<1> QED
  BY <1>4, <1>5, <1>6, <1>7, <1>8, <1>9, <1>10, <1>11 DEF IInv

LEMMA CheckKindIInv ==
  ASSUME IInv, CheckKind, Quiet, UNCHANGED broke
  PROVE  IInv'
<1>1. /\ pc = "opened" /\ pc' = "names" /\ UNCHANGED <<url, names, left, shown, listed>>
      /\ UNCHANGED <<clients, owner, table, there, before, moved, broke>>
      /\ filter' = IF url.page = "payments" THEN [url.asked EXCEPT !.kind = Empty] ELSE url.asked
  BY DEF CheckKind, Quiet, store
<1>2. IF url.asked.kind = NoSuch THEN WriteHeader("badRequest") ELSE UNCHANGED status
  BY DEF CheckKind
<1>3. ~listed /\ left \cup shown = {}
  BY <1>1 DEF IInv, RowsAgree
<1>4. url.asked \in Filters
  BY DEF IInv, TypeOK
<1>5. /\ filter' \in Filters /\ filter'.client = url.asked.client /\ filter'.parent = url.asked.parent
      /\ filter'.kind = IF url.page = "payments" THEN Empty ELSE url.asked.kind
  BY <1>1, <1>4 DEF Filters
<1>6. TypeOK'
  <2>1. status' \in Statuses
    BY <1>2, HeaderType DEF IInv, TypeOK, Statuses
  <2> QED
    BY <1>1, <1>5, <2>1 DEF IInv, TypeOK, Statuses
<1>7. StoreAgrees' /\ PageAgrees'
  BY <1>1 DEF IInv, StoreAgrees, PageAgrees, Met
<1>8. FilterAgrees'
  BY <1>1, <1>5 DEF FilterAgrees, Resolved
<1>9. RowsAgree' /\ NamesAgree' /\ WholeList' /\ SensibleIsListed'
  BY <1>1, <1>3 DEF RowsAgree, NamesAgree, WholeList, SensibleIsListed
<1>10. StatusAgrees'
  BY <1>1, <1>2 DEF IInv, StatusAgrees, Sensible
<1> QED
  BY <1>6, <1>7, <1>8, <1>9, <1>10 DEF IInv

\* All the names, or some of them when the rows of the names break.
LEMMA NamedIInv ==
  ASSUME IInv, NEW ns \in SUBSET {c \in Clients : clients[c] = "active"}, Named(ns), Quiet,
         broke' \in {broke, TRUE}, broke' \/ ns = {c \in Clients : clients[c] = "active"}
  PROVE  IInv'
<1>1. /\ pc = "names" /\ pc' = "parent" /\ names' = ns
      /\ UNCHANGED <<url, filter, left, shown, status, listed>>
      /\ UNCHANGED <<clients, owner, table, there, before, moved>>
  BY DEF Named, Quiet, store
<1>2. ~listed /\ left \cup shown = {}
  BY <1>1 DEF IInv, RowsAgree
<1>3. TypeOK'
  BY <1>1 DEF IInv, TypeOK
<1>4. StoreAgrees' /\ PageAgrees'
  BY <1>1 DEF IInv, StoreAgrees, PageAgrees, Met
<1>5. FilterAgrees'
  BY <1>1 DEF IInv, FilterAgrees, Resolved
<1>6. RowsAgree' /\ WholeList' /\ SensibleIsListed'
  BY <1>1, <1>2 DEF RowsAgree, WholeList, SensibleIsListed
<1>7. NamesAgree'
  <2> SUFFICES ASSUME ~broke', NEW c \in Met'
               PROVE  c \in ns \/ clients[c] = "archived"
    BY <1>1 DEF NamesAgree
  <2> QED
    BY <1>1 DEF Met, IInv, TypeOK
<1>8. StatusAgrees'
  BY <1>1 DEF IInv, StatusAgrees, Sensible
<1> QED
  BY <1>3, <1>4, <1>5, <1>6, <1>7, <1>8 DEF IInv

\* The handler goes on to the next read, with this filter.
LEMMA GoesOnIInv ==
  ASSUME IInv, pc \in {"parent", "client"}, pc' \in {"client", "select"}, NEW f \in Filters,
         filter' = f, UNCHANGED <<url, names, left, shown, status, listed>>, Quiet, UNCHANGED broke,
         f.parent = filter.parent /\ f.kind = filter.kind,
         IF Given(url.asked.parent)
         THEN /\ url.asked.parent \in Parents /\ f.client = owner[url.asked.parent]
              /\ url.asked.client \in {Empty, owner[url.asked.parent]}
         ELSE f.client = url.asked.client
  PROVE  IInv'
<1>1. UNCHANGED <<clients, owner, table, there, before, moved>>
  BY DEF Quiet, store
<1>2. ~listed /\ left \cup shown = {}
  BY DEF IInv, RowsAgree
<1>3. TypeOK'
  BY <1>1 DEF IInv, TypeOK
<1>4. StoreAgrees' /\ PageAgrees'
  BY <1>1 DEF IInv, StoreAgrees, PageAgrees, Met
<1>5. FilterAgrees'
  BY <1>1 DEF IInv, FilterAgrees, Resolved
<1>6. RowsAgree' /\ WholeList' /\ SensibleIsListed'
  BY <1>1, <1>2 DEF RowsAgree, WholeList, SensibleIsListed
<1>7. NamesAgree'
  <2>1. CASE pc = "parent"
    BY <1>1, <2>1 DEF IInv, NamesAgree, Met
  <2>2. CASE pc = "client"
    BY <1>1, <2>2 DEF IInv, NamesAgree, Met
  <2> QED
    BY <2>1, <2>2
<1>8. StatusAgrees'
  BY <1>1 DEF IInv, StatusAgrees, Sensible
<1> QED
  BY <1>3, <1>4, <1>5, <1>6, <1>7, <1>8 DEF IInv

LEMMA ResolveParentIInv ==
  ASSUME IInv, ResolveParent, Quiet, UNCHANGED broke
  PROVE  IInv'
<1>1. /\ pc = "parent" /\ filter.client = url.asked.client /\ filter.parent = url.asked.parent
      /\ filter \in Filters /\ owner \in [Parents -> Clients]
      /\ before.clients \subseteq Met
  BY DEF ResolveParent, IInv, FilterAgrees, TypeOK, StoreAgrees
<1>2. CASE ~Given(filter.parent)
  BY <1>1, <1>2, GoesOnIInv DEF ResolveParent
<1>3. CASE Given(filter.parent) /\ (filter.parent = NoSuch \/ owner[filter.parent] \notin Met)
  <2>1. ~Sensible
    BY <1>1, <1>3 DEF Sensible
  <2> QED
    BY <1>1, <1>3, <2>1, StopIInv DEF ResolveParent, Statuses
<1>4. CASE /\ Given(filter.parent) /\ filter.parent # NoSuch /\ owner[filter.parent] \in Met
           /\ filter.client \notin {Empty, owner[filter.parent]}
  <2>1. ~Sensible
    BY <1>1, <1>4 DEF Sensible
  <2> QED
    BY <1>1, <1>4, <2>1, StopIInv DEF ResolveParent, Statuses
<1>5. CASE /\ Given(filter.parent) /\ filter.parent # NoSuch /\ owner[filter.parent] \in Met
           /\ filter.client \in {Empty, owner[filter.parent]}
  <2> DEFINE f == [filter EXCEPT !.client = owner[filter.parent]]
  <2>1. filter.parent \in Parents
    BY <1>1, <1>5 DEF Filters, Given
  <2>2. /\ f \in Filters /\ f.client = owner[filter.parent]
        /\ f.parent = filter.parent /\ f.kind = filter.kind
    BY <1>1, <2>1 DEF Filters
  <2>3. /\ pc' = "client" /\ filter' = f
        /\ UNCHANGED <<url, names, left, shown, status, listed>>
    BY <1>5 DEF ResolveParent
  <2> HIDE DEF f
  <2> QED
    BY <1>1, <1>5, <2>1, <2>2, <2>3, GoesOnIInv DEF Given
<1> QED
  BY <1>2, <1>3, <1>4, <1>5

LEMMA ResolveClientIInv ==
  ASSUME IInv, ResolveClient, Quiet, UNCHANGED broke
  PROVE  IInv'
<1>1. /\ pc = "client" /\ filter \in Filters /\ before.clients \subseteq Met
      /\ IF Given(url.asked.parent)
         THEN /\ url.asked.parent \in Parents /\ filter.client = owner[url.asked.parent]
              /\ url.asked.client \in {Empty, owner[url.asked.parent]}
         ELSE filter.client = url.asked.client
  BY DEF ResolveClient, IInv, FilterAgrees, Resolved, TypeOK, StoreAgrees
<1>2. CASE filter.client \in Met \cup {Empty}
  BY <1>1, <1>2, GoesOnIInv DEF ResolveClient
<1>3. CASE filter.client \notin Met \cup {Empty}
  <2>1. ~Sensible
    BY <1>1, <1>3 DEF Sensible
  <2> QED
    BY <1>1, <1>3, <2>1, StopIInv DEF ResolveClient, Statuses
<1> QED
  BY <1>2, <1>3

LEMMA SelectIInv ==
  ASSUME IInv, Select, Quiet, UNCHANGED broke
  PROVE  IInv'
<1>1. pc = "select"
  BY DEF Select
<1>2. CASE ~Parses(Words)
  <2>1. Spoilt
    BY <1>1, <1>2, WordsSay DEF IInv
  <2>2. OwnerAlone \/ ~Sensible
    <3>1. /\ filter.parent = url.asked.parent /\ filter.kind = url.asked.kind
          /\ ~Given(url.asked.parent) => filter.client = url.asked.client
      BY <1>1, <2>1 DEF IInv, FilterAgrees, Resolved, Spoilt
    <3> QED
      BY <2>1, <3>1 DEF Spoilt, OwnerAlone
  <2> QED
    BY <1>1, <1>2, <2>2, StopIInv DEF Select, Statuses
<1>3. CASE Parses(Words)
  <2>1. /\ pc' = "rows" /\ left' = Result(Words) /\ UNCHANGED <<url, names, filter, shown, status, listed>>
        /\ UNCHANGED <<clients, owner, table, there, before, moved, broke>>
    BY <1>3 DEF Select, Quiet, store
  <2>2. shown = {} /\ ~listed
    BY <1>1 DEF IInv, RowsAgree
  <2>3. Result(Words) = {r \in there : Asked(r)}
    <3>1. ASSUME Spoilt PROVE FALSE
      <4>1. url.page = "goods"
        BY <3>1 DEF Spoilt
      <4>2. Words = Where(filter, Given(filter.client) \/ Given(filter.kind))
        BY <4>1 DEF Words, GoodsWhere, Belongings
      <4>3. Given(filter.client) \/ Given(filter.kind)
        BY <3>1 DEF Spoilt, Given
      <4>4. Words = <<"WHERE", "client", "AND">>
        BY <3>1, <4>2, <4>3, WhereIs DEF Spoilt
      <4>5. ~Parses(<<"WHERE", "client", "AND">>)
        BY DEF Parses
      <4> QED
        BY <1>3, <4>4, <4>5
    <3>2. \A r \in there : r \in Result(Words) <=> Chosen(r)
      BY <1>1, <3>1, WordsSay DEF IInv
    <3>3. Result(Words) \subseteq there
      BY DEF Result
    <3> QED
      BY <1>1, <3>2, <3>3, ChosenIsAsked
  <2>4. TypeOK'
    BY <2>1, <2>3 DEF IInv, TypeOK
  <2>5. StoreAgrees' /\ PageAgrees' /\ FilterAgrees'
    BY <1>1, <2>1 DEF IInv, StoreAgrees, PageAgrees, Met, FilterAgrees, Resolved
  <2>6. RowsAgree'
    <3>1. \A r : Asked(r)' <=> Asked(r)
      BY <2>1 DEF Asked, Meets, Applied
    <3>2. before.rows \subseteq there
      BY DEF IInv, StoreAgrees
    <3> QED
      BY <2>1, <2>2, <2>3, <3>1, <3>2 DEF RowsAgree
  <2>7. NamesAgree'
    BY <1>1, <2>1 DEF IInv, NamesAgree, Met
  <2>8. StatusAgrees' /\ WholeList' /\ SensibleIsListed'
    BY <1>1, <2>1, <2>2 DEF IInv, StatusAgrees, Sensible, WholeList, SensibleIsListed
  <2> QED
    BY <2>4, <2>5, <2>6, <2>7, <2>8 DEF IInv
<1> QED
  BY <1>2, <1>3

LEMMA ScanIInv ==
  ASSUME IInv, NEW r \in Rows, Scan(r), Quiet, UNCHANGED broke
  PROVE  IInv'
<1>1. /\ pc = "rows" /\ pc' = pc /\ r \in left /\ left' \cup shown' = left \cup shown
      /\ left' = left \ {r} /\ shown' = shown \cup {r}
      /\ UNCHANGED <<url, names, filter, status, listed, clients, owner, table, there, before, moved, broke>>
  BY DEF Scan, Quiet, store
<1>2. TypeOK'
  BY <1>1 DEF IInv, TypeOK
<1>3. StoreAgrees' /\ PageAgrees' /\ FilterAgrees'
  BY <1>1 DEF IInv, StoreAgrees, PageAgrees, Met, FilterAgrees, Resolved
<1>4. RowsAgree'
  BY <1>1 DEF IInv, RowsAgree, Asked, Meets, Applied
<1>5. NamesAgree' /\ StatusAgrees'
  BY <1>1 DEF IInv, NamesAgree, Met, StatusAgrees, Sensible
<1>6. WholeList' /\ SensibleIsListed'
  BY <1>1 DEF IInv, RowsAgree, WholeList, SensibleIsListed
<1> QED
  BY <1>2, <1>3, <1>4, <1>5, <1>6 DEF IInv

\* The list is complete, unless its rows broke.
LEMMA RenderIInv ==
  ASSUME IInv, pc = "rows", Render, Quiet, broke' \in {broke, TRUE}, broke' \/ left = {}
  PROVE  IInv'
<1>1. /\ pc' = "done" /\ listed' = TRUE /\ WriteHeader("ok")
      /\ UNCHANGED <<url, names, filter, left, shown, clients, owner, table, there, before, moved>>
  BY DEF Render, Quiet, store
<1>2. TypeOK'
  <2>1. status' \in Statuses
    BY <1>1, HeaderType DEF IInv, Statuses
  <2> QED
    BY <1>1, <2>1 DEF IInv, TypeOK, Statuses
<1>3. StoreAgrees' /\ PageAgrees' /\ FilterAgrees'
  BY <1>1 DEF IInv, StoreAgrees, PageAgrees, Met, FilterAgrees, Resolved
<1>4. RowsAgree'
  BY <1>1 DEF IInv, RowsAgree, Asked, Meets, Applied
<1>5. NamesAgree' /\ StatusAgrees'
  BY <1>1 DEF IInv, NamesAgree, Met, StatusAgrees
<1>6. WholeList'
  BY <1>1 DEF IInv, RowsAgree, WholeList, Asked, Meets, Applied
<1>7. SensibleIsListed'
  BY <1>1 DEF IInv, StatusAgrees, SensibleIsListed, Sensible, WriteHeader
<1> QED
  BY <1>2, <1>3, <1>4, <1>5, <1>6, <1>7 DEF IInv

---------------------------------------------------------------------------
(* The steps of the others *)

LEMMA OthersIInv ==
  ASSUME IInv, Others
  PROVE  IInv'
<1>1. /\ pc \in {"opened", "names", "parent", "client", "select"}
      /\ UNCHANGED <<pc, url, names, filter, left, shown, status, listed, broke, before, owner, table>>
  BY DEF Others, Serving, MoveClient, AddRow
<1>2. ~listed /\ left \cup shown = {}
  BY <1>1 DEF IInv, RowsAgree
<1>3. /\ clients' \in [Clients -> {"active", "archived", "none"}] /\ Met \subseteq Met'
      /\ moved' \subseteq Clients /\ there \subseteq there' /\ there' \subseteq Rows
      /\ \A r \in there' : table[r].client \in Met'
      /\ \A c \in Met' : c \in moved' \/ (c \in Met /\ clients'[c] = clients[c] /\ c \notin moved)
  <2>1. CASE \E c \in Clients : MoveClient(c)
    <3>1. PICK c \in Clients : MoveClient(c)
      BY <2>1
    <3>2. /\ moved = {} /\ moved' = {c} /\ there' = there
          /\ clients' = [clients EXCEPT ![c] = IF @ = "active" THEN "archived" ELSE "active"]
      BY <3>1 DEF MoveClient
    <3>3. Met \subseteq Met'
      BY <3>2 DEF Met, IInv, TypeOK
    <3> QED
      BY <3>2, <3>3 DEF Met, IInv, TypeOK, StoreAgrees
  <2>2. CASE \E r \in Rows : AddRow(r)
    BY <2>2 DEF AddRow, Met, IInv, TypeOK, StoreAgrees
  <2> QED
    BY <2>1, <2>2 DEF Others
<1>4. TypeOK'
  BY <1>1, <1>3 DEF IInv, TypeOK
<1>5. StoreAgrees'
  BY <1>1, <1>3 DEF IInv, StoreAgrees
<1>6. PageAgrees' /\ FilterAgrees'
  BY <1>1 DEF IInv, PageAgrees, FilterAgrees, Resolved
<1>7. RowsAgree' /\ WholeList' /\ SensibleIsListed'
  BY <1>1, <1>2 DEF RowsAgree, WholeList, SensibleIsListed
<1>8. NamesAgree'
  <2> SUFFICES ASSUME pc \in {"parent", "client", "select"}, ~broke, url.page \notin Belongings,
                      NEW c \in Met'
               PROVE  c \in names \/ clients'[c] = "archived" \/ c \in moved'
    BY <1>1, <1>2 DEF NamesAgree
  <2>1. c \in Met => c \in names \/ clients[c] = "archived" \/ c \in moved
    BY DEF IInv, NamesAgree
  <2> QED
    BY <1>3, <2>1
<1>9. StatusAgrees'
  BY <1>1 DEF IInv, StatusAgrees, Sensible
<1> QED
  BY <1>4, <1>5, <1>6, <1>7, <1>8, <1>9 DEF IInv

LEMMA FaultIInv ==
  ASSUME IInv, Fault
  PROVE  IInv'
<1>1. Quiet /\ broke' = TRUE
  BY DEF Fault, Quiet
<1>2. CASE RowsBreak
  <2>1. CASE pc = "rows" /\ Render
    BY <1>1, <2>1, RenderIInv
  <2>2. CASE \E ns \in SUBSET Clients : ns \subseteq {c \in Clients : clients[c] = "active"} /\ Named(ns)
    BY <1>1, <2>2, NamedIInv
  <2> QED
    BY <1>2, <2>1, <2>2 DEF RowsBreak
<1>3. CASE StatementFails
  BY <1>1, <1>3, StopIInv DEF StatementFails, Statuses
<1> QED
  BY <1>2, <1>3 DEF Fault

LEMMA HandlerIInv ==
  ASSUME IInv, Handler, Quiet, UNCHANGED broke
  PROVE  IInv'
<1>1. CASE ReadClients
  <2>1. {c \in Clients : clients[c] = "active"} \in SUBSET {c \in Clients : clients[c] = "active"}
    OBVIOUS
  <2> QED
    BY <1>1, <2>1, NamedIInv DEF ReadClients
<1>2. CASE EndOfRows
  BY <1>2, RenderIInv DEF EndOfRows
<1>3. CASE \E r \in Rows : Scan(r)
  BY <1>3, ScanIInv
<1> QED
  BY <1>1, <1>2, <1>3, CheckKindIInv, ResolveParentIInv, ResolveClientIInv, SelectIInv DEF Handler

LEMMA InitIInv ==
  ASSUME Init
  PROVE  IInv
<1>1. TypeOK
  BY DEF Init, TypeOK, Pages, Belongings, NoFilter, Filters
<1>2. StoreAgrees
  BY DEF Init, StoreAgrees
<1>3. PageAgrees /\ FilterAgrees
  BY DEF Init, PageAgrees, FilterAgrees, Resolved
<1>4. RowsAgree /\ NamesAgree /\ StatusAgrees
  BY DEF Init, RowsAgree, NamesAgree, StatusAgrees
<1>5. WholeList /\ SensibleIsListed
  BY DEF Init, WholeList, SensibleIsListed
<1> QED
  BY <1>1, <1>2, <1>3, <1>4, <1>5 DEF IInv

LEMMA StepIInv ==
  ASSUME IInv, [Step \/ Fault \/ Others \/ Finished]_vars
  PROVE  IInv'
<1>1. CASE UNCHANGED vars
  BY <1>1 DEF vars, store, IInv, TypeOK, StoreAgrees, PageAgrees, FilterAgrees, Resolved, RowsAgree,
              NamesAgree, StatusAgrees, Sensible, WholeList, SensibleIsListed, OwnerAlone, Met,
              Asked, Meets, Applied
<1>2. CASE Handler /\ UNCHANGED <<store, broke, before, moved>>
  BY <1>2, HandlerIInv DEF Quiet
<1> QED
  BY <1>1, <1>2, OpenIInv, FaultIInv, OthersIInv DEF Step, Finished

\* How far a page is tells what its filter, names and rows have to do with the
\* query string, for every table and every filter.
THEOREM Invariance == Spec => []IInv
<1> QED
  BY InitIInv, StepIInv, PTL DEF Spec

\* The variables of a page that lists rows, and of the tables it reads, keep their types.
THEOREM TypeCorrect == Spec => []TypeOK
<1>1. IInv => TypeOK
  BY DEF IInv
<1> QED
  BY <1>1, Invariance, PTL

\* No list shows a row that was not asked for: the clauses that the four pages
\* put together mean what the query string says, for all their combinations.
THEOREM OnlyAskedRows == Spec => []OnlyAsked
<1>1. IInv => OnlyAsked
  BY DEF IInv, RowsAgree, OnlyAsked
<1> QED
  BY <1>1, Invariance, PTL

\* Without failures no row is missing that was there before the page was asked
\* for, whatever is added meanwhile.
THEOREM WholeLists == Spec => []WholeList
<1>1. IInv => WholeList
  BY DEF IInv
<1> QED
  BY <1>1, Invariance, PTL

\* Every row has the name of its client, although names and rows are two reads,
\* unless the client is archived or has moved meanwhile.
THEOREM NamedRows == Spec => []RowsAreNamed
<1>1. IInv => RowsAreNamed
  BY DEF IInv, RowsAgree, StoreAgrees, NamesAgree, RowsAreNamed
<1> QED
  BY <1>1, Invariance, PTL

\* Without failures a filter that makes sense is answered with its list, whatever
\* clause it leads to, but for the owner alone on the page of goods.
THEOREM SensibleLists == Spec => []SensibleIsListed
<1>1. IInv => SensibleIsListed
  BY DEF IInv
<1> QED
  BY <1>1, Invariance, PTL
=============================================================================
