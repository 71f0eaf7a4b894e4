-------------------------------- MODULE Access --------------------------------
(***************************************************************************)
(* Who may use the back office: the table authentication, the sessions in  *)
(* the cookies of the browsers, and the requests that change either: POST  *)
(* /login, /logout, /employees/add and /employees/<id>. A session lives in *)
(* the cookie alone; a response that sets it may arrive in any order.      *)
(***************************************************************************)
EXTENDS Integers, FiniteSets

CONSTANTS
  Requests,  \* each request that adds an employee draws the uuid it stands for
  Seeded,    \* employees that were created by the password tool
  Browsers, Emails, Passwords, Levels,
  Blank,     \* an empty form field
  NoOne,     \* a browser that is not signed in
  NoAccount

ASSUME AccessAssumption ==
  /\ Levels \subseteq {"OWNER", "EMPLOYEE", "REVOKED"}
  /\ Blank \notin Passwords
  /\ Seeded \cap Requests = {}

Employees == Seeded \cup Requests
Accounts == [email : Emails, password : Passwords, level : Levels]

\* Levels are as MySQL stores them: the form posts "owner", "employee" and
\* "revoked", and an enum column takes them in any case.
\*
\* The forms. form is "ok"; "invalid" when a field is missing or not accepted;
\* "broken" when ParseForm fails on one field and still decodes the others.
Logins == [kind : {"login"}, browser : Browsers, email : Emails, password : Passwords]
Logouts == [kind : {"logout"}, browser : Browsers]
Creates == [kind : {"create"}, browser : Browsers, email : Emails, password : Passwords,
            level : Levels, form : {"ok", "invalid"}]
Edits == [kind : {"edit"}, browser : Browsers, employee : Seeded, email : Emails,
          password : Passwords \cup {Blank}, level : Levels, form : {"ok", "invalid", "broken"}]
NoRequest == [kind |-> "none"]
Posts == Logins \cup Logouts \cup Creates \cup Edits

VARIABLES
  accounts,  \* table authentication
  cookie,    \* the session in each browser
  req, pc,   \* the request, and: idle, opened, read, saving, answered, done
  session,   \* the session that came with the request
  found,     \* the employee of the row that was read
  seen,      \* the account as the request read it
  status,    \* the first status written, "none" before
  setCookie, \* the Set-Cookie header of the response: an employee, NoOne, or "keep"
  raced,     \* history: another request wrote to accounts since this one read
  proven     \* history: a login from this browser gave the password of the account

vars == <<accounts, cookie, req, pc, session, found, seen, status, setCookie, raced, proven>>

TypeOK ==
  /\ accounts \in [Employees -> Accounts \cup {NoAccount}]
  /\ cookie \in [Browsers -> Employees \cup {NoOne}]
  /\ req \in [Requests -> Posts \cup {NoRequest}]
  /\ pc \in [Requests -> {"idle", "opened", "read", "saving", "answered", "done"}]
  /\ session \in [Requests -> Employees \cup {NoOne}]
  /\ found \in [Requests -> Employees \cup {NoOne}]
  /\ seen \in [Requests -> Accounts \cup {NoAccount}]
  /\ status \in [Requests -> {"none", "redirect", "conflict", "unauthorized", "badRequest", "error"}]
  /\ setCookie \in [Requests -> Employees \cup {NoOne, "keep"}]
  /\ raced \in [Requests -> BOOLEAN]
  /\ proven \subseteq Browsers \X Employees

EmailsDiffer(as) ==
  \A d, e \in Employees :
    d # e /\ NoAccount \notin {as[d], as[e]} => as[d].email # as[e].email

Init ==
  /\ accounts \in [Employees -> Accounts \cup {NoAccount}]
  /\ \A e \in Employees : accounts[e] # NoAccount <=> e \in Seeded
  /\ EmailsDiffer(accounts)
  /\ cookie \in [Browsers -> Seeded \cup {NoOne}]
  /\ proven = {be \in Browsers \X Seeded : cookie[be[1]] = be[2]}
  /\ req = [r \in Requests |-> NoRequest]
  /\ pc = [r \in Requests |-> "idle"]
  /\ session = [r \in Requests |-> NoOne]
  /\ found = [r \in Requests |-> NoOne]
  /\ seen = [r \in Requests |-> NoAccount]
  /\ status = [r \in Requests |-> "none"]
  /\ setCookie = [r \in Requests |-> "keep"]
  /\ raced = [r \in Requests |-> FALSE]

---------------------------------------------------------------------------
Goto(r, l) == pc' = [pc EXCEPT ![r] = l]

\* Only the first header is sent; a cookie set after it does not leave.
WriteHeader(r, s) == status' = [status EXCEPT ![r] = IF @ = "none" THEN s ELSE @]

Reply(r, s) ==
  /\ WriteHeader(r, s)
  /\ Goto(r, "answered")

\* Variant: the cookie of a refused login leaves.
SaveSessionAnyway(r, who) == setCookie' = [setCookie EXCEPT ![r] = who]

SaveSession(r, who) ==
  setCookie' = [setCookie EXCEPT ![r] = IF status[r] = "none" THEN who ELSE @]

Open(r) ==
  /\ pc[r] = "idle"
  /\ \E p \in Posts :
       /\ req' = [req EXCEPT ![r] = p]
       /\ session' = [session EXCEPT ![r] = cookie[p.browser]]
  /\ Goto(r, "opened")
  /\ UNCHANGED <<accounts, cookie, found, seen, status, setCookie, raced, proven>>

Refused(r) == IF session[r] # NoOne THEN "conflict" ELSE "unauthorized"

HasEmail(e, r) == accounts[e] # NoAccount /\ accounts[e].email = req[r].email

\* Variant: the query does not look at the level.
MayLogInRevoked(e, r) == HasEmail(e, r)

\* GetAuthenticationByEmail leaves the revoked accounts out.
MayLogIn(e, r) == HasEmail(e, r) /\ accounts[e].level # "REVOKED"

\* A browser that is signed in is answered 409, and the handler goes on all the
\* same.
LookUp(r) ==
  /\ pc[r] = "opened" /\ req[r].kind = "login"
  /\ \/ \E e \in Employees :
          /\ MayLogIn(e, r)
          /\ found' = [found EXCEPT ![r] = e]
          /\ seen' = [seen EXCEPT ![r] = accounts[e]]
          /\ proven' = IF accounts[e].password = req[r].password
                       THEN proven \cup {<<req[r].browser, e>>} ELSE proven
          /\ Goto(r, "read")
          /\ IF session[r] # NoOne THEN WriteHeader(r, "conflict") ELSE UNCHANGED status
     \/ /\ \A e \in Employees : ~MayLogIn(e, r)
        /\ Reply(r, Refused(r))
        /\ UNCHANGED <<found, seen, proven>>
  /\ UNCHANGED <<accounts, cookie, req, session, setCookie, raced>>

\* Variant: the session is saved before the password is compared.
SaveThenCheck(r) ==
  /\ pc[r] = "read" /\ req[r].kind = "login"
  /\ SaveSession(r, found[r])
  /\ Reply(r, IF req[r].password = seen[r].password THEN "redirect" ELSE "unauthorized")
  /\ UNCHANGED <<accounts, cookie, req, session, found, seen, raced, proven>>

\* bcrypt takes its time; the account may have changed since it was read.
CheckPassword(r) ==
  /\ pc[r] = "read" /\ req[r].kind = "login"
  /\ IF req[r].password = seen[r].password
     THEN SaveSession(r, found[r]) /\ Reply(r, "redirect")
     ELSE Reply(r, "unauthorized") /\ UNCHANGED setCookie
  /\ UNCHANGED <<accounts, cookie, req, session, found, seen, raced, proven>>

Logout(r) ==
  /\ pc[r] = "opened" /\ req[r].kind = "logout"
  /\ SaveSession(r, NoOne)
  /\ Reply(r, "redirect")
  /\ UNCHANGED <<accounts, cookie, req, session, found, seen, raced, proven>>

\* AuthenticatedHandler: the cookie is all that is looked at.
TurnAway(r) ==
  /\ pc[r] = "opened" /\ req[r].kind \in {"create", "edit"} /\ session[r] = NoOne
  /\ Reply(r, "unauthorized")
  /\ UNCHANGED <<accounts, cookie, req, session, found, seen, setCookie, raced, proven>>

Admitted(r, kind) == pc[r] = "opened" /\ req[r].kind = kind /\ session[r] # NoOne

\* The row is written unless another employee has the e-mail (UNIQUE KEY). The
\* reply of MySQL may be lost.
Store(r, e, account) ==
  LET after == [accounts EXCEPT ![e] = account] IN
  IF EmailsDiffer(after)
  THEN /\ accounts' = after
       /\ raced' = [q \in Requests |-> raced[q] \/ (q # r /\ pc[q] \in {"read", "saving"})]
       /\ Reply(r, "redirect") \/ Reply(r, "error")
  ELSE Reply(r, "error") /\ UNCHANGED <<accounts, raced>>

Create(r) ==
  /\ Admitted(r, "create")
  /\ IF req[r].form = "ok"
     THEN Store(r, r, [email |-> req[r].email, password |-> req[r].password,
                       level |-> req[r].level])
     ELSE Reply(r, "badRequest") /\ UNCHANGED <<accounts, raced>>
  /\ UNCHANGED <<cookie, req, session, found, seen, setCookie, proven>>

\* editHandler reads the row the form will be laid over.
EditRead(r) ==
  /\ Admitted(r, "edit")
  /\ found' = [found EXCEPT ![r] = req[r].employee]
  /\ seen' = [seen EXCEPT ![r] = accounts[req[r].employee]]
  /\ raced' = [raced EXCEPT ![r] = FALSE]
  /\ Goto(r, "read")
  /\ UNCHANGED <<accounts, cookie, req, session, status, setCookie, proven>>

\* A form that does not parse is answered 500, and the handler goes on.
EditCheck(r) ==
  /\ pc[r] = "read" /\ req[r].kind = "edit"
  /\ CASE req[r].form = "ok" -> Goto(r, "saving") /\ UNCHANGED status
       [] req[r].form = "broken" -> Goto(r, "saving") /\ WriteHeader(r, "error")
       [] req[r].form = "invalid" -> Reply(r, "error")
  /\ UNCHANGED <<accounts, cookie, req, session, found, seen, setCookie, raced, proven>>

\* Variant: the password of the form is stored, empty or not.
NewPasswordAlways(r) == req[r].password

\* An empty password keeps the one that was read.
NewPassword(r) == IF req[r].password # Blank THEN req[r].password ELSE seen[r].password

EditSave(r) ==
  /\ pc[r] = "saving"
  /\ Store(r, found[r], [email |-> req[r].email, password |-> NewPassword(r),
                         level |-> req[r].level])
  /\ UNCHANGED <<cookie, req, session, found, seen, setCookie, proven>>

\* The database fails, or the browser of an edit has gone away.
Fail(r) ==
  /\ pc[r] \in {"opened", "saving"}
  /\ req[r].kind # "logout"
  /\ Reply(r, IF req[r].kind = "login" /\ session[r] # NoOne THEN "conflict" ELSE "error")
  /\ UNCHANGED <<accounts, cookie, req, session, found, seen, setCookie, raced, proven>>

\* Responses reach a browser in any order.
Arrive(r) ==
  /\ pc[r] = "answered"
  /\ Goto(r, "done")
  /\ cookie' = IF setCookie[r] = "keep" THEN cookie
               ELSE [cookie EXCEPT ![req[r].browser] = setCookie[r]]
  /\ UNCHANGED <<accounts, req, session, found, seen, status, setCookie, raced, proven>>

AllDone == (\A r \in Requests : pc[r] = "done") /\ UNCHANGED vars

Handler(r) ==
  \/ LookUp(r) \/ CheckPassword(r) \/ Logout(r) \/ TurnAway(r) \/ Create(r)
  \/ EditRead(r) \/ EditCheck(r) \/ EditSave(r)

Next == (\E r \in Requests : Open(r) \/ Handler(r) \/ Fail(r) \/ Arrive(r)) \/ AllDone

\* A goroutine that serves a request runs until it has answered. A response
\* need not arrive.
Fairness == \A r \in Requests : WF_vars(Handler(r))

Spec == Init /\ [][Next]_vars /\ Fairness

---------------------------------------------------------------------------
(* Properties *)

\* A session names an employee whose password that browser gave, in whatever
\* order responses of other logins and logouts arrived.
SessionsAreProven ==
  \A b \in Browsers : cookie[b] # NoOne => <<b, cookie[b]>> \in proven

\* A login that is answered 409 leaves the session of its browser alone,
\* although the handler runs to the end (auth/handles/auth.go:48-50).
ConflictKeepsSession ==
  \A r \in Requests : status[r] = "conflict" => setCookie[r] = "keep"

\* A login that sets a cookie names an account that has this e-mail and this
\* password and is not revoked, now and not only when its row was read, as long
\* as no other request writes to the table before bcrypt is done
\* (auth/handles/auth.go:69-84).
SoloLoginIsCurrent ==
  [][\A r \in Requests :
       pc[r] = "read" /\ setCookie[r] = "keep" /\ setCookie'[r] # "keep" /\ ~raced[r] =>
         LET who == setCookie'[r] IN
           /\ HasEmail(who, r) /\ accounts[who].password = req[r].password
           /\ accounts[who].level # "REVOKED"]_vars

\* The password field left empty keeps the password, as long as no other
\* request writes to the table between the read and the write of the edit.
SoloEditKeepsPassword ==
  [][\A r \in Requests :
       pc[r] = "saving" /\ pc'[r] = "answered" /\ req[r].password = Blank /\ ~raced[r] =>
         accounts'[found[r]].password = accounts[found[r]].password]_vars

\* gui/employees/edit.html:14 "Password (leave empty to keep unchanged)": a
\* request that leaves it empty never changes a password.
EmptyPasswordKeeps ==
  [][\A r \in Requests :
       pc[r] = "saving" /\ pc'[r] = "answered" /\ req[r].password = Blank =>
         accounts'[found[r]].password = accounts[found[r]].password]_vars

---------------------------------------------------------------------------
(* The inductive invariant: a cookie that is on its way was proven, and what *)
(* a request has read is still there unless another one wrote.               *)

\* Nothing sets a cookie before the answer; only a proven employee is set.
CookiesAreProven ==
  \A r \in Requests :
    /\ pc[r] \in {"idle", "opened", "read", "saving"} => setCookie[r] = "keep"
    /\ setCookie[r] \notin {"keep", NoOne} => <<req[r].browser, setCookie[r]>> \in proven

\* The password of the form is the one that was read: it is the one of found.
ReadsAreProven ==
  \A r \in Requests :
    pc[r] = "read" /\ req[r].kind = "login" /\ req[r].password = seen[r].password =>
      <<req[r].browser, found[r]>> \in proven

\* An employee of the tool never loses the row, an edit has read one, and a
\* login the row of an account that may log in.
ReadsHold ==
  /\ \A e \in Seeded : accounts[e] \in Accounts
  /\ \A r \in Requests :
       /\ pc[r] = "idle" => req[r] = NoRequest
       /\ pc[r] = "opened" => req[r] \in Posts
       /\ pc[r] = "read" => req[r] \in Logins \cup Edits
       /\ pc[r] = "saving" => req[r] \in Edits
       /\ pc[r] \in {"read", "saving"} /\ req[r].kind = "edit" =>
            /\ found[r] \in Seeded /\ seen[r] \in Accounts
            /\ raced[r] \/ seen[r] = accounts[found[r]]
       /\ pc[r] = "read" /\ req[r].kind = "login" /\ ~raced[r] =>
            found[r] \in Employees /\ seen[r] = accounts[found[r]] /\ MayLogIn(found[r], r)

IInv ==
  TypeOK /\ CookiesAreProven /\ ReadsAreProven /\ ReadsHold
  /\ SessionsAreProven /\ ConflictKeepsSession
=============================================================================
