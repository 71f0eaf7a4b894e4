----------------------------- MODULE AccessProofs -----------------------------
(* Proofs about Access: sessions are proven and passwords kept, for any number *)
(* of employees, browsers and requests.                                        *)
EXTENDS Access, TLAPS

LEMMA EmployeesAre == Seeded \subseteq Employees /\ Requests \subseteq Employees
  BY DEF Employees

LEMMA PostsAre ==
  /\ \A p \in Posts : p.kind \in {"login", "logout", "create", "edit"} /\ p.browser \in Browsers
  /\ \A p \in Posts \cup {NoRequest} : /\ p.kind = "login" => p \in Logins
                                       /\ p.kind = "create" => p \in Creates
                                       /\ p.kind = "edit" => p \in Edits
                                       /\ p.kind = "logout" => p \in Logouts
<1>1. \A p \in Logins : p.kind = "login" /\ p.browser \in Browsers
  BY DEF Logins
<1>2. \A p \in Logouts : p.kind = "logout" /\ p.browser \in Browsers
  BY DEF Logouts
<1>3. \A p \in Creates : p.kind = "create" /\ p.browser \in Browsers
  BY DEF Creates
<1>4. \A p \in Edits : p.kind = "edit" /\ p.browser \in Browsers
  BY DEF Edits
<1>5. NoRequest.kind = "none"
  BY DEF NoRequest
<1> QED
  BY <1>1, <1>2, <1>3, <1>4, <1>5 DEF Posts

---------------------------------------------------------------------------
(* What most steps have in common: request r goes on, and the others stay. *)

Statuses == {"none", "redirect", "conflict", "unauthorized", "badRequest", "error"}

LEMMA ReplyTypes ==
  ASSUME TypeOK, NEW r \in Requests, NEW s \in Statuses, Reply(r, s)
  PROVE  /\ pc' \in [Requests -> {"idle", "opened", "read", "saving", "answered", "done"}]
         /\ status' \in [Requests -> Statuses]
         /\ pc'[r] = "answered" /\ \A q \in Requests \ {r} : pc'[q] = pc[q] /\ status'[q] = status[q]
         /\ status'[r] = IF status[r] = "none" THEN s ELSE status[r]
  BY DEF TypeOK, Reply, WriteHeader, Goto, Statuses

\* The request is answered without a cookie, and no account is written.
Ends(r) ==
  /\ pc[r] \in {"opened", "read", "saving"}
  /\ \E s \in Statuses : Reply(r, s)
  /\ UNCHANGED <<accounts, cookie, req, session, found, seen, setCookie, raced, proven>>

LEMMA EndsIInv ==
  ASSUME IInv, NEW r \in Requests, Ends(r)
  PROVE  IInv'
<1>1. PICK s \in Statuses : Reply(r, s)
  BY DEF Ends
<1>2. /\ pc'[r] = "answered" /\ \A q \in Requests \ {r} : pc'[q] = pc[q] /\ status'[q] = status[q]
  BY <1>1, ReplyTypes DEF IInv
<1>3. TypeOK'
  BY <1>1, ReplyTypes DEF IInv, TypeOK, Ends, Statuses
<1>4. CookiesAreProven'
  BY <1>2 DEF IInv, CookiesAreProven, Ends
<1>5. ReadsAreProven'
  BY <1>2 DEF IInv, ReadsAreProven, Ends
<1>6. ReadsHold'
  BY <1>2 DEF IInv, ReadsHold, MayLogIn, HasEmail, Ends
<1>7. SessionsAreProven'
  BY DEF IInv, SessionsAreProven, Ends
<1>8. ConflictKeepsSession'
  BY <1>2 DEF IInv, ConflictKeepsSession, CookiesAreProven, Ends
<1> QED
  BY <1>3, <1>4, <1>5, <1>6, <1>7, <1>8 DEF IInv

---------------------------------------------------------------------------
(* The steps *)

LEMMA OpenIInv ==
  ASSUME IInv, NEW r \in Requests, Open(r)
  PROVE  IInv'
<1>1. PICK p \in Posts : /\ req' = [req EXCEPT ![r] = p]
                         /\ session' = [session EXCEPT ![r] = cookie[p.browser]]
  BY DEF Open
<1>2. pc[r] = "idle" /\ pc' = [pc EXCEPT ![r] = "opened"]
  BY DEF Open, Goto
<1>3. UNCHANGED <<accounts, cookie, found, seen, status, setCookie, raced, proven>>
  BY DEF Open
<1>4. /\ pc'[r] = "opened" /\ req'[r] = p
      /\ \A q \in Requests \ {r} : pc'[q] = pc[q] /\ req'[q] = req[q]
  BY <1>1, <1>2 DEF IInv, TypeOK
<1>5. TypeOK'
  <2>1. cookie[p.browser] \in Employees \cup {NoOne}
    BY PostsAre DEF IInv, TypeOK
  <2> QED
    BY <1>1, <1>2, <1>3, <2>1 DEF IInv, TypeOK
<1>6. setCookie'[r] = "keep"
  BY <1>2, <1>3 DEF IInv, CookiesAreProven
<1>7. CookiesAreProven'
  BY <1>3, <1>4, <1>6 DEF IInv, CookiesAreProven
<1>8. ReadsAreProven'
  BY <1>3, <1>4 DEF IInv, ReadsAreProven
<1>9. ReadsHold'
  BY <1>3, <1>4 DEF IInv, ReadsHold, MayLogIn, HasEmail
<1>10. SessionsAreProven' /\ ConflictKeepsSession'
  BY <1>3 DEF IInv, SessionsAreProven, ConflictKeepsSession
<1> QED
  BY <1>5, <1>7, <1>8, <1>9, <1>10 DEF IInv

LEMMA LookUpIInv ==
  ASSUME IInv, NEW r \in Requests, LookUp(r)
  PROVE  IInv'
<1> USE DEF Statuses
<1>1. pc[r] = "opened" /\ req[r] \in Logins /\ req[r].kind = "login"
  <2>1. pc[r] = "opened" /\ req[r] \in Posts /\ req[r].kind = "login"
    BY DEF LookUp, IInv, ReadsHold
  <2> QED
    BY <2>1, PostsAre
<1>2. CASE Ends(r)
  BY <1>2, EndsIInv
<1>3. CASE ~Ends(r)
  <2>1. PICK e \in Employees :
          /\ MayLogIn(e, r)
          /\ found' = [found EXCEPT ![r] = e]
          /\ seen' = [seen EXCEPT ![r] = accounts[e]]
          /\ proven' = IF accounts[e].password = req[r].password
                       THEN proven \cup {<<req[r].browser, e>>} ELSE proven
          /\ Goto(r, "read")
          /\ IF session[r] # NoOne THEN WriteHeader(r, "conflict") ELSE UNCHANGED status
    <3>1. Refused(r) \in Statuses
      BY DEF Refused
    <3> QED
      BY <1>1, <1>3, <3>1 DEF LookUp, Ends
  <2>2. UNCHANGED <<accounts, cookie, req, session, setCookie, raced>>
    BY DEF LookUp
  <2>3. /\ pc' = [pc EXCEPT ![r] = "read"] /\ pc'[r] = "read" /\ found'[r] = e /\ seen'[r] = accounts[e]
        /\ \A q \in Requests \ {r} : /\ pc'[q] = pc[q] /\ found'[q] = found[q] /\ seen'[q] = seen[q]
                                     /\ status'[q] = status[q]
    BY <2>1 DEF Goto, WriteHeader, IInv, TypeOK
  <2>4. proven \subseteq proven' /\ proven' \subseteq Browsers \X Employees
    <3>1. req[r].browser \in Browsers
      BY <1>1 DEF Logins
    <3> QED
      BY <2>1, <3>1 DEF IInv, TypeOK
  <2>5. TypeOK'
    <3>1. status' \in [Requests -> Statuses]
      BY <2>1 DEF WriteHeader, IInv, TypeOK
    <3> QED
      BY <2>1, <2>2, <2>3, <2>4, <3>1 DEF IInv, TypeOK
  <2>6. CookiesAreProven'
    BY <1>1, <2>2, <2>3, <2>4 DEF IInv, CookiesAreProven
  <2>7. ReadsAreProven'
    <3> SUFFICES ASSUME NEW q \in Requests, pc'[q] = "read", req[q].kind = "login",
                        req[q].password = seen'[q].password
                 PROVE  <<req[q].browser, found'[q]>> \in proven'
      BY <2>2 DEF ReadsAreProven
    <3>1. CASE q = r
      BY <3>1, <2>1, <2>3
    <3>2. CASE q # r
      BY <3>2, <2>3, <2>4 DEF IInv, ReadsAreProven
    <3> QED
      BY <3>1, <3>2
  <2>8. ReadsHold'
    BY <1>1, <2>1, <2>2, <2>3 DEF IInv, ReadsHold, MayLogIn, HasEmail, Logins
  <2>9. SessionsAreProven'
    BY <2>2, <2>4 DEF IInv, SessionsAreProven
  <2>10. ConflictKeepsSession'
    BY <1>1, <2>2, <2>3 DEF IInv, ConflictKeepsSession, CookiesAreProven
  <2> QED
    BY <2>5, <2>6, <2>7, <2>8, <2>9, <2>10 DEF IInv
<1> QED
  BY <1>2, <1>3

\* A cookie for who is set unless the response has its header already.
LEMMA CookieIInv ==
  ASSUME IInv, NEW r \in Requests, pc[r] \in {"opened", "read"},
         NEW who \in Employees \cup {NoOne}, who # NoOne => <<req[r].browser, who>> \in proven,
         SaveSession(r, who), Reply(r, "redirect"),
         UNCHANGED <<accounts, cookie, req, session, found, seen, raced, proven>>
  PROVE  IInv'
<1>1. /\ pc'[r] = "answered" /\ \A q \in Requests \ {r} : pc'[q] = pc[q] /\ status'[q] = status[q]
      /\ status'[r] = IF status[r] = "none" THEN "redirect" ELSE status[r]
  BY ReplyTypes DEF IInv, Statuses
<1>2. setCookie[r] = "keep"
  BY DEF IInv, CookiesAreProven
<1>3. /\ setCookie'[r] = IF status[r] = "none" THEN who ELSE "keep"
      /\ \A q \in Requests \ {r} : setCookie'[q] = setCookie[q]
  BY <1>2 DEF SaveSession, IInv, TypeOK
<1>4. TypeOK'
  <2>1. setCookie' \in [Requests -> Employees \cup {NoOne, "keep"}]
    BY DEF SaveSession, IInv, TypeOK
  <2>2. /\ pc' \in [Requests -> {"idle", "opened", "read", "saving", "answered", "done"}]
        /\ status' \in [Requests -> Statuses]
    BY ReplyTypes DEF IInv, Statuses
  <2> QED
    BY <2>1, <2>2 DEF IInv, TypeOK, Statuses
<1>5. CookiesAreProven'
  BY <1>1, <1>2, <1>3 DEF IInv, CookiesAreProven
<1>6. ReadsAreProven' /\ ReadsHold'
  BY <1>1 DEF IInv, ReadsAreProven, ReadsHold, MayLogIn, HasEmail
<1>7. SessionsAreProven'
  BY DEF IInv, SessionsAreProven
<1>8. ConflictKeepsSession'
  BY <1>1, <1>2, <1>3 DEF IInv, ConflictKeepsSession
<1> QED
  BY <1>4, <1>5, <1>6, <1>7, <1>8 DEF IInv

LEMMA CheckPasswordIInv ==
  ASSUME IInv, NEW r \in Requests, CheckPassword(r)
  PROVE  IInv'
<1>1. CASE req[r].password = seen[r].password
  <2>1. found[r] \in Employees \cup {NoOne} /\ <<req[r].browser, found[r]>> \in proven
    BY <1>1 DEF CheckPassword, IInv, TypeOK, ReadsAreProven
  <2> QED
    BY <1>1, <2>1, CookieIInv DEF CheckPassword
<1>2. CASE req[r].password # seen[r].password
  <2>1. Ends(r)
    BY <1>2 DEF CheckPassword, Ends, Statuses
  <2> QED
    BY <2>1, EndsIInv
<1> QED
  BY <1>1, <1>2

LEMMA LogoutIInv ==
  ASSUME IInv, NEW r \in Requests, Logout(r)
  PROVE  IInv'
  BY CookieIInv DEF Logout

\* Whoever writes an account makes the edits that have read raced.
LEMMA StoreIInv ==
  ASSUME IInv, NEW r \in Requests, pc[r] \in {"opened", "saving"},
         NEW e \in Employees, NEW account \in Accounts, Store(r, e, account),
         UNCHANGED <<cookie, req, session, found, seen, setCookie, proven>>
  PROVE  IInv'
<1> DEFINE after == [accounts EXCEPT ![e] = account]
<1>1. CASE ~EmailsDiffer(after)
  <2>1. Ends(r)
    BY <1>1 DEF Store, Ends, Statuses
  <2> QED
    BY <2>1, EndsIInv
<1>2. CASE EmailsDiffer(after)
  <2>1. /\ accounts' = after
        /\ raced' = [q \in Requests |-> raced[q] \/ (q # r /\ pc[q] \in {"read", "saving"})]
        /\ Reply(r, "redirect") \/ Reply(r, "error")
    BY <1>2 DEF Store
  <2>2. /\ pc' \in [Requests -> {"idle", "opened", "read", "saving", "answered", "done"}]
        /\ status' \in [Requests -> Statuses]
        /\ pc'[r] = "answered" /\ \A q \in Requests \ {r} : pc'[q] = pc[q] /\ status'[q] = status[q]
    BY <2>1, ReplyTypes DEF IInv, Statuses
  <2>3. TypeOK'
    <3>1. accounts' \in [Employees -> Accounts \cup {NoAccount}]
      BY <2>1 DEF IInv, TypeOK
    <3>2. raced' \in [Requests -> BOOLEAN]
      BY <2>1
    <3> QED
      BY <2>2, <3>1, <3>2 DEF IInv, TypeOK, Statuses
  <2>4. CookiesAreProven' /\ ReadsAreProven'
    BY <2>2 DEF IInv, CookiesAreProven, ReadsAreProven
  <2>5. ReadsHold'
    <3>1. \A d \in Seeded : accounts'[d] \in Accounts
      BY <2>1, EmployeesAre DEF IInv, TypeOK, ReadsHold
    <3>2. \A q \in Requests : pc'[q] \in {"read", "saving"} => raced'[q]
      BY <2>1, <2>2
    <3> QED
      BY <2>2, <3>1, <3>2 DEF IInv, ReadsHold
  <2>6. SessionsAreProven'
    BY DEF IInv, SessionsAreProven
  <2>7. ConflictKeepsSession'
    BY <2>2 DEF IInv, ConflictKeepsSession, CookiesAreProven
  <2> QED
    BY <2>3, <2>4, <2>5, <2>6, <2>7 DEF IInv
<1> QED
  BY <1>1, <1>2

LEMMA CreateIInv ==
  ASSUME IInv, NEW r \in Requests, Create(r)
  PROVE  IInv'
<1>1. pc[r] = "opened" /\ req[r] \in Creates
  BY PostsAre DEF Create, Admitted, IInv, ReadsHold
<1>2. CASE req[r].form = "ok"
  <2>1. [email |-> req[r].email, password |-> req[r].password, level |-> req[r].level] \in Accounts
    BY <1>1 DEF Creates, Accounts
  <2> QED
    BY <1>1, <1>2, <2>1, StoreIInv, EmployeesAre DEF Create
<1>3. CASE req[r].form # "ok"
  <2>1. Ends(r)
    BY <1>1, <1>3 DEF Create, Ends, Statuses
  <2> QED
    BY <2>1, EndsIInv
<1> QED
  BY <1>2, <1>3

LEMMA EditReadIInv ==
  ASSUME IInv, NEW r \in Requests, EditRead(r)
  PROVE  IInv'
<1>1. pc[r] = "opened" /\ req[r] \in Edits /\ req[r].employee \in Seeded
  <2>1. pc[r] = "opened" /\ req[r] \in Edits
    BY PostsAre DEF EditRead, Admitted, IInv, ReadsHold
  <2> QED
    BY <2>1 DEF Edits
<1>2. /\ found' = [found EXCEPT ![r] = req[r].employee]
      /\ seen' = [seen EXCEPT ![r] = accounts[req[r].employee]]
      /\ raced' = [raced EXCEPT ![r] = FALSE]
      /\ pc' = [pc EXCEPT ![r] = "read"]
      /\ UNCHANGED <<accounts, cookie, req, session, status, setCookie, proven>>
  BY DEF EditRead, Goto
<1>3. /\ pc'[r] = "read" /\ found'[r] = req[r].employee /\ seen'[r] = accounts[req[r].employee]
      /\ \A q \in Requests \ {r} : pc'[q] = pc[q] /\ found'[q] = found[q] /\ seen'[q] = seen[q]
                                   /\ raced'[q] = raced[q]
  BY <1>2 DEF IInv, TypeOK
<1>4. accounts[req[r].employee] \in Accounts
  BY <1>1 DEF IInv, ReadsHold
<1>5. TypeOK'
  BY <1>1, <1>2, <1>4, EmployeesAre DEF IInv, TypeOK
<1>6. CookiesAreProven'
  BY <1>1, <1>2, <1>3 DEF IInv, CookiesAreProven
<1>7. req[r].kind = "edit"
  BY <1>1 DEF Edits
<1>8. ReadsAreProven' /\ ReadsHold'
  BY <1>1, <1>2, <1>3, <1>4, <1>7 DEF IInv, ReadsAreProven, ReadsHold, MayLogIn, HasEmail
<1>9. SessionsAreProven' /\ ConflictKeepsSession'
  BY <1>2 DEF IInv, SessionsAreProven, ConflictKeepsSession
<1> QED
  BY <1>5, <1>6, <1>8, <1>9 DEF IInv

LEMMA EditCheckIInv ==
  ASSUME IInv, NEW r \in Requests, EditCheck(r)
  PROVE  IInv'
<1>1. pc[r] = "read" /\ req[r] \in Edits
  <2>1. pc[r] = "read" /\ req[r].kind = "edit" /\ req[r] \in Logins \cup Edits
    BY DEF EditCheck, IInv, ReadsHold
  <2> QED
    BY <2>1 DEF Logins
<1>2. CASE req[r].form = "invalid"
  <2>1. Ends(r)
    BY <1>1, <1>2 DEF EditCheck, Ends, Statuses
  <2> QED
    BY <2>1, EndsIInv
<1>3. CASE req[r].form # "invalid"
  <2>1. /\ pc' = [pc EXCEPT ![r] = "saving"]
        /\ UNCHANGED status \/ WriteHeader(r, "error")
        /\ UNCHANGED <<accounts, cookie, req, session, found, seen, setCookie, raced, proven>>
    <3>1. req[r].form \in {"ok", "broken"}
      BY <1>1, <1>3 DEF Edits
    <3> QED
      BY <3>1 DEF EditCheck, Goto
  <2>2. /\ pc'[r] = "saving" /\ \A q \in Requests \ {r} : pc'[q] = pc[q] /\ status'[q] = status[q]
        /\ status' \in [Requests -> Statuses]
    BY <2>1 DEF IInv, TypeOK, WriteHeader, Statuses
  <2>3. TypeOK'
    BY <2>1, <2>2 DEF IInv, TypeOK, Statuses
  <2>4. CookiesAreProven' /\ ReadsAreProven'
    BY <1>1, <2>1, <2>2 DEF IInv, CookiesAreProven, ReadsAreProven
  <2>5. ReadsHold'
    BY <1>1, <2>1, <2>2 DEF IInv, ReadsHold, MayLogIn, HasEmail
  <2>6. SessionsAreProven'
    BY <2>1 DEF IInv, SessionsAreProven
  <2>7. ConflictKeepsSession'
    BY <1>1, <2>1, <2>2 DEF IInv, ConflictKeepsSession, CookiesAreProven
  <2> QED
    BY <2>3, <2>4, <2>5, <2>6, <2>7 DEF IInv
<1> QED
  BY <1>2, <1>3

LEMMA EditSaveIInv ==
  ASSUME IInv, NEW r \in Requests, EditSave(r)
  PROVE  IInv'
<1>1. /\ pc[r] = "saving" /\ req[r] \in Edits /\ found[r] \in Seeded /\ seen[r] \in Accounts
  <2>1. pc[r] = "saving" /\ req[r] \in Edits
    BY DEF EditSave, IInv, ReadsHold
  <2>2. req[r].kind = "edit"
    BY <2>1 DEF Edits
  <2> QED
    BY <2>1, <2>2 DEF IInv, ReadsHold
<1>2. [email |-> req[r].email, password |-> NewPassword(r), level |-> req[r].level] \in Accounts
  <2>1. req[r].email \in Emails /\ req[r].level \in Levels /\ req[r].password \in Passwords \cup {Blank}
    BY <1>1 DEF Edits
  <2>2. NewPassword(r) \in Passwords
    BY <1>1, <2>1 DEF NewPassword, Accounts
  <2> QED
    BY <2>1, <2>2 DEF Accounts
<1> QED
  BY <1>1, <1>2, StoreIInv, EmployeesAre DEF EditSave

LEMMA ArriveIInv ==
  ASSUME IInv, NEW r \in Requests, Arrive(r)
  PROVE  IInv'
<1>1. /\ pc[r] = "answered" /\ pc' = [pc EXCEPT ![r] = "done"]
      /\ UNCHANGED <<accounts, req, session, found, seen, status, setCookie, raced, proven>>
  BY DEF Arrive, Goto
<1>2. pc'[r] = "done" /\ \A q \in Requests \ {r} : pc'[q] = pc[q]
  BY <1>1 DEF IInv, TypeOK
<1>3. /\ cookie' \in [Browsers -> Employees \cup {NoOne}]
      /\ \A b \in Browsers : cookie'[b] # NoOne => <<b, cookie'[b]>> \in proven
  <2>1. CASE setCookie[r] = "keep"
    BY <2>1 DEF Arrive, IInv, TypeOK, SessionsAreProven
  <2>2. CASE setCookie[r] # "keep"
    <3>1. cookie' = [cookie EXCEPT ![req[r].browser] = setCookie[r]]
      BY <2>2 DEF Arrive
    <3>2. setCookie[r] \in Employees \cup {NoOne}
      BY <2>2 DEF IInv, TypeOK
    <3>3. setCookie[r] # NoOne => <<req[r].browser, setCookie[r]>> \in proven
      BY <2>2 DEF IInv, CookiesAreProven
    <3> QED
      BY <3>1, <3>2, <3>3 DEF IInv, TypeOK, SessionsAreProven
  <2> QED
    BY <2>1, <2>2
<1>4. TypeOK'
  BY <1>1, <1>3 DEF IInv, TypeOK
<1>5. CookiesAreProven' /\ ReadsAreProven'
  BY <1>1, <1>2 DEF IInv, CookiesAreProven, ReadsAreProven
<1>6. ReadsHold'
  BY <1>1, <1>2 DEF IInv, ReadsHold, MayLogIn, HasEmail
<1>7. SessionsAreProven'
  BY <1>1, <1>3 DEF SessionsAreProven
<1>8. ConflictKeepsSession'
  BY <1>1 DEF IInv, ConflictKeepsSession
<1> QED
  BY <1>4, <1>5, <1>6, <1>7, <1>8 DEF IInv

LEMMA InitIInv ==
  ASSUME Init
  PROVE  IInv
<1>1. TypeOK
  BY EmployeesAre DEF Init, TypeOK
<1>2. CookiesAreProven /\ ReadsAreProven
  BY DEF Init, CookiesAreProven, ReadsAreProven
<1>3. ReadsHold
  BY EmployeesAre DEF Init, ReadsHold
<1>4. SessionsAreProven
  <2> SUFFICES ASSUME NEW b \in Browsers, cookie[b] # NoOne
               PROVE  <<b, cookie[b]>> \in proven
    BY DEF SessionsAreProven
  <2>1. cookie[b] \in Seeded
    BY DEF Init
  <2> QED
    BY <2>1 DEF Init
<1>5. ConflictKeepsSession
  BY DEF Init, ConflictKeepsSession
<1> QED
  BY <1>1, <1>2, <1>3, <1>4, <1>5 DEF IInv

LEMMA StepIInv ==
  ASSUME IInv, [Next]_vars
  PROVE  IInv'
<1>1. CASE UNCHANGED vars
  BY <1>1 DEF vars, IInv, TypeOK, CookiesAreProven, ReadsAreProven, ReadsHold, MayLogIn, HasEmail,
              SessionsAreProven, ConflictKeepsSession
<1>2. ASSUME NEW r \in Requests, Handler(r)
      PROVE  IInv'
  <2>1. TurnAway(r) => Ends(r)
    BY DEF TurnAway, Ends, Statuses
  <2> QED
    BY <1>2, <2>1, EndsIInv, LookUpIInv, CheckPasswordIInv, LogoutIInv, CreateIInv, EditReadIInv,
       EditCheckIInv, EditSaveIInv DEF Handler
<1>3. ASSUME NEW r \in Requests, Fail(r)
      PROVE  IInv'
  <2>1. Ends(r)
    BY <1>3 DEF Fail, Ends, Statuses
  <2> QED
    BY <2>1, EndsIInv
<1> QED
  BY <1>1, <1>2, <1>3, OpenIInv, ArriveIInv DEF Next, AllDone

\* What sessions and edits rely on holds in every state, for any number of
\* employees, browsers and requests.
THEOREM Invariance == Spec => []IInv
<1> QED
  BY InitIInv, StepIInv, PTL DEF Spec

\* The accounts, the cookies and what the handlers hold keep their types.
THEOREM TypeCorrect == Spec => []TypeOK
<1>1. IInv => TypeOK
  BY DEF IInv
<1> QED
  BY <1>1, Invariance, PTL

\* No session without its password, in whatever order the cookies of logins and
\* logouts arrive (auth/handles/auth.go:48-50, 77).
THEOREM Sessions == Spec => []SessionsAreProven
<1>1. IInv => SessionsAreProven
  BY DEF IInv
<1> QED
  BY <1>1, Invariance, PTL

\* The handler of a login that was answered 409 goes on, and its cookie is lost.
THEOREM Conflicts == Spec => []ConflictKeepsSession
<1>1. IInv => ConflictKeepsSession
  BY DEF IInv
<1> QED
  BY <1>1, Invariance, PTL

\* What a login was told of its account when it read the row is still so when
\* its cookie is set, unless another request wrote to the table meanwhile: no
\* cookie for an account that is revoked, or has another password by now.
THEOREM SoloLogins == Spec => SoloLoginIsCurrent
<1> DEFINE Current(r) ==
      pc[r] = "read" /\ setCookie[r] = "keep" /\ setCookie'[r] # "keep" /\ ~raced[r] =>
        LET who == setCookie'[r] IN
          /\ HasEmail(who, r) /\ accounts[who].password = req[r].password
          /\ accounts[who].level # "REVOKED"
<1>1. ASSUME IInv, NEW r \in Requests, NEW q \in Requests, Open(q) \/ Handler(q) \/ Fail(q) \/ Arrive(q)
      PROVE  Current(r)
  <2> SUFFICES ASSUME pc[r] = "read", setCookie[r] = "keep", setCookie'[r] # "keep", ~raced[r]
               PROVE  /\ HasEmail(setCookie'[r], r)
                      /\ accounts[setCookie'[r]].password = req[r].password
                      /\ accounts[setCookie'[r]].level # "REVOKED"
    OBVIOUS
  <2>1. PICK who : SaveSession(q, who)
    BY <1>1 DEF Open, Handler, Fail, Arrive, LookUp, CheckPassword, Logout, TurnAway, Create,
       EditRead, EditCheck, EditSave
  <2>2. q = r /\ setCookie \in [Requests -> Employees \cup {NoOne, "keep"}]
    BY <1>1, <2>1 DEF SaveSession, IInv, TypeOK
  <2>3. CheckPassword(r) /\ req[r].kind = "login"
    BY <1>1, <2>2 DEF Open, Handler, Fail, Arrive, LookUp, CheckPassword, Logout, TurnAway,
       Create, Admitted, EditRead, EditCheck, EditSave
  <2>4. SaveSession(r, found[r]) /\ req[r].password = seen[r].password
    BY <2>3 DEF CheckPassword
  <2>5. setCookie'[r] = found[r]
    BY <2>2, <2>4 DEF SaveSession
  <2>6. MayLogIn(found[r], r) /\ seen[r] = accounts[found[r]]
    BY <1>1, <2>3 DEF IInv, ReadsHold
  <2> QED
    BY <2>4, <2>5, <2>6 DEF MayLogIn
<1>2. IInv /\ [Next]_vars => [\A r \in Requests : Current(r)]_vars
  BY <1>1 DEF Next, AllDone, vars
<1> QED
  BY <1>2, Invariance, PTL DEF Spec, SoloLoginIsCurrent

\* An edit that leaves the password empty keeps it, unless another request wrote
\* to the table between its read and its write.
THEOREM SoloEdits == Spec => SoloEditKeepsPassword
<1> DEFINE Keeps(r) ==
      pc[r] = "saving" /\ pc'[r] = "answered" /\ req[r].password = Blank /\ ~raced[r] =>
        accounts'[found[r]].password = accounts[found[r]].password
<1>1. ASSUME IInv, NEW r \in Requests, NEW q \in Requests, Open(q) \/ Handler(q) \/ Fail(q) \/ Arrive(q)
      PROVE  Keeps(r)
  <2> SUFFICES ASSUME pc[r] = "saving", pc'[r] = "answered", req[r].password = Blank, ~raced[r]
               PROVE  accounts'[found[r]].password = accounts[found[r]].password
    OBVIOUS
  <2>1. /\ found[r] \in Seeded /\ found[r] \in Employees /\ seen[r] = accounts[found[r]]
        /\ req[r] \in Edits /\ req[r].kind = "edit"
    <3>1. req[r] \in Edits
      BY <1>1 DEF IInv, ReadsHold
    <3>2. req[r].kind = "edit"
      BY <3>1 DEF Edits
    <3> QED
      BY <1>1, <3>1, <3>2, EmployeesAre DEF IInv, ReadsHold
  <2>2. CASE q # r
    <3>1. \E l : Goto(q, l)
      <4>1. LookUp(q) \/ CheckPassword(q) \/ Logout(q) \/ TurnAway(q) => \E l : Goto(q, l)
        BY DEF LookUp, CheckPassword, Logout, TurnAway, Reply
      <4>2. Create(q) \/ EditSave(q) => \E l : Goto(q, l)
        BY DEF Create, EditSave, Store, Reply
      <4>3. CASE EditCheck(q)
        <5>1. req[q] \in Edits
          BY <1>1, <4>3 DEF EditCheck, IInv, ReadsHold, Logins
        <5>2. req[q].form \in {"ok", "broken", "invalid"}
          BY <5>1 DEF Edits
        <5> QED
          BY <4>3, <5>2 DEF EditCheck, Reply
      <4>4. EditRead(q) \/ Open(q) \/ Fail(q) \/ Arrive(q) => \E l : Goto(q, l)
        BY DEF EditRead, Open, Fail, Arrive, Reply
      <4> QED
        BY <1>1, <4>1, <4>2, <4>3, <4>4 DEF Handler
    <3>2. pc'[r] = pc[r]
      BY <1>1, <2>2, <3>1 DEF Goto, IInv, TypeOK
    <3> QED
      BY <3>2
  <2>3. CASE q = r
    <3>1. EditSave(r) \/ Fail(r)
      BY <1>1, <2>1, <2>3 DEF Open, Handler, Arrive, LookUp, CheckPassword, Logout, TurnAway,
             Create, Admitted, EditRead, EditCheck
    <3>2. CASE Fail(r)
      BY <3>2 DEF Fail
    <3>3. CASE EditSave(r)
      <4>1. NewPassword(r) = accounts[found[r]].password
        BY <2>1 DEF NewPassword
      <4>2. accounts' = accounts \/
            accounts' = [accounts EXCEPT ![found[r]] =
                           [email |-> req[r].email, password |-> NewPassword(r), level |-> req[r].level]]
        BY <3>3 DEF EditSave, Store
      <4> QED
        BY <1>1, <2>1, <4>1, <4>2 DEF IInv, TypeOK
    <3> QED
      BY <3>1, <3>2, <3>3
  <2> QED
    BY <2>2, <2>3
<1>2. IInv /\ [Next]_vars => [\A r \in Requests : Keeps(r)]_vars
  BY <1>1 DEF Next, AllDone
<1> QED
  BY <1>2, Invariance, PTL DEF Spec, SoloEditKeepsPassword
=============================================================================
