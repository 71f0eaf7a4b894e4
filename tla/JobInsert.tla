------------------------------ MODULE JobInsert ------------------------------
(***************************************************************************)
(* POST /jobs/add: jobPostAddHandler and the transaction of jobs.Insert.   *)
(* Every request runs in a goroutine of its own; requests interleave       *)
(* between two statements they send to MySQL (InnoDB).                     *)
(*                                                                         *)
(* What is modelled of the libraries, as the code relies on it:            *)
(*   - the driver ignores contexts: database/sql looks at the one second   *)
(*     deadline before it sends a statement and never interrupts one;      *)
(*   - a goroutine of database/sql rolls the transaction back once the     *)
(*     deadline has passed and no statement is running;                    *)
(*   - inserting a job takes a shared lock on its parent row in table      *)
(*     order (foreign key job_fk_order_order_id), updating that row takes  *)
(*     an exclusive one, and locks are kept to the end of the transaction; *)
(*   - InnoDB finds a cycle of lock waits and rolls one of them back.      *)
(***************************************************************************)
EXTENDS PriceLedger

VARIABLES
  pc,        \* where the request stands, see Waiting and Running below
  form,      \* the decoded form: [order, price], or NoJob before the request
  open,      \* the transaction of the request is open
  lock,      \* its lock on the row form.order of table order: none, S or X
  written,   \* what the transaction wrote and has not committed
  expired,   \* the context WithTimeout(ctx, time.Second) is done
  answer,    \* what the browser got
  lost       \* history: the commit was executed and its reply did not arrive

vars == <<jobs, priceTotal, pc, form, open, lock, written, expired, answer, lost>>

Writes == {"job", "total"}
Locks == {"none", "S", "X"}
Answers == {"none", "redirect", "rejected", "error", "aborted"}
Waiting == {"inserting", "updating"}   \* a statement is at the database
Running == {"begin", "insert", "update", "commit", "failing"} \cup Waiting
PCs == Running \cup {"idle", "done"}
Forms == [order : Orders, price : Prices]

TypeOK ==
  /\ jobs \in [Adders -> Forms \cup {NoJob}]
  /\ priceTotal \in [Orders -> Bigint]
  /\ pc \in [Adders -> PCs]
  /\ form \in [Adders -> Forms \cup {NoJob}]
  /\ open \in [Adders -> BOOLEAN]
  /\ lock \in [Adders -> Locks]
  /\ written \in [Adders -> SUBSET Writes]
  /\ expired \in [Adders -> BOOLEAN]
  /\ answer \in [Adders -> Answers]
  /\ lost \in [Adders -> BOOLEAN]

JInit ==
  /\ Init
  /\ pc = [a \in Adders |-> "idle"]
  /\ form = [a \in Adders |-> NoJob]
  /\ open = [a \in Adders |-> FALSE]
  /\ lock = [a \in Adders |-> "none"]
  /\ written = [a \in Adders |-> {}]
  /\ expired = [a \in Adders |-> FALSE]
  /\ answer = [a \in Adders |-> "none"]
  /\ lost = [a \in Adders |-> FALSE]

---------------------------------------------------------------------------
(* Steps of the handler *)

Goto(a, l) == pc' = [pc EXCEPT ![a] = l]

\* The end of a transaction, by whoever ends it.
Release(a) ==
  /\ lock' = [lock EXCEPT ![a] = "none"]
  /\ written' = [written EXCEPT ![a] = {}]

CloseTx(a) == Release(a) /\ open' = [open EXCEPT ![a] = FALSE]

Reply(a, r) ==
  /\ Goto(a, "done")
  /\ answer' = [answer EXCEPT ![a] = r]

SameOrder(a, b) == form[a].order = form[b].order

CanShare(a) == \A b \in Adders \ {a} : lock[b] = "X" => ~SameOrder(a, b)
CanExclude(a) == \A b \in Adders \ {a} : lock[b] # "none" => ~SameOrder(a, b)

\* The order, the client and the assets are read, the form decoded: whatever
\* the status of the order is. Then the deadline starts running.
JobPost(a) ==
  /\ pc[a] = "idle"
  /\ Goto(a, "begin")
  /\ form' \in {[form EXCEPT ![a] = f] : f \in Forms}
  /\ UNCHANGED <<jobs, priceTotal, open, lock, written, expired, answer, lost>>

\* A form that does not decode, or an asset that is not the client's.
JobPostRejected(a) ==
  /\ pc[a] = "idle"
  /\ Reply(a, "rejected")
  /\ UNCHANGED <<jobs, priceTotal, form, open, lock, written, expired, lost>>

BeginTx(a) ==
  /\ pc[a] = "begin"
  /\ ~expired[a]
  /\ Goto(a, "insert")
  /\ open' = [open EXCEPT ![a] = TRUE]
  /\ UNCHANGED <<jobs, priceTotal, form, lock, written, expired, answer, lost>>

\* tx is nil: the deferred tx.Rollback() panics on the way out, net/http
\* recovers and drops the connection, and the handler never sees the error.
BeginTxFails(a) ==
  /\ pc[a] = "begin"
  /\ Reply(a, "aborted")
  /\ UNCHANGED <<jobs, priceTotal, form, open, lock, written, expired, lost>>

\* Prepare and send a statement, unless the context or the transaction is done.
Send(a, here, there) ==
  /\ pc[a] = here
  /\ Goto(a, IF expired[a] \/ ~open[a] THEN "failing" ELSE there)
  /\ UNCHANGED <<jobs, priceTotal, form, open, lock, written, expired, answer, lost>>

SendInsert(a) == Send(a, "insert", "inserting")
\* Variant: the price of the order is left for later.
SendUpdateForgotten(a) == Send(a, "update", "commit")
SendUpdate(a) == Send(a, "update", "updating")

\* Variant: the row is inserted with db() and not with the transaction.
ExecInsertAutocommit(a) ==
  /\ pc[a] = "inserting"
  /\ Goto(a, "update")
  /\ jobs' = [jobs EXCEPT ![a] = form[a]]
  /\ UNCHANGED <<priceTotal, form, open, lock, written, expired, answer, lost>>

ExecInsert(a) ==
  /\ pc[a] = "inserting"
  /\ CanShare(a)
  /\ Goto(a, "update")
  /\ lock' = [lock EXCEPT ![a] = "S"]
  /\ written' = [written EXCEPT ![a] = @ \cup {"job"}]
  /\ UNCHANGED <<jobs, priceTotal, form, open, expired, answer, lost>>

NewTotal(a) == priceTotal[form[a].order] + form[a].price

\* Variant: the total wraps or grows past its column unnoticed.
FitsAlways(a) == NewTotal(a) \in Int
Fits(a) == NewTotal(a) \in Bigint

\* Out of range for bigint(20): error 1690, the lock stays.
ExecUpdate(a) ==
  /\ pc[a] = "updating"
  /\ CanExclude(a)
  /\ lock' = [lock EXCEPT ![a] = "X"]
  /\ IF Fits(a)
     THEN Goto(a, "commit") /\ written' = [written EXCEPT ![a] = @ \cup {"total"}]
     ELSE Goto(a, "failing") /\ UNCHANGED written
  /\ UNCHANGED <<jobs, priceTotal, form, open, expired, answer, lost>>

\* Variant: the deadlock detection of InnoDB is off.
DeadlockUndetected(a) == pc[a] = "updating" /\ FALSE /\ UNCHANGED vars

\* Two transactions share the row and both wait to exclude the other.
DeadlockedWith(a) ==
  {b \in Adders \ {a} :
     pc[b] = "updating" /\ lock[a] = "S" /\ lock[b] = "S" /\ SameOrder(a, b)}

\* InnoDB rolls one back; the Go transaction does not know and stays open.
DeadlockVictim(a) ==
  /\ pc[a] = "updating"
  /\ DeadlockedWith(a) # {}
  /\ Goto(a, "failing")
  /\ Release(a)
  /\ UNCHANGED <<jobs, priceTotal, form, open, expired, answer, lost>>

\* What the transaction of a wrote becomes visible, all of it at once.
Install(a) ==
  /\ jobs' = [jobs EXCEPT ![a] = IF "job" \in written[a] THEN form[a] ELSE @]
  /\ priceTotal' = [priceTotal EXCEPT ![form[a].order] =
                      IF "total" \in written[a] THEN @ + form[a].price ELSE @]

Commit(a) ==
  /\ pc[a] = "commit"
  /\ ~expired[a] /\ open[a]
  /\ Install(a)
  /\ CloseTx(a)
  /\ Reply(a, "redirect")
  /\ UNCHANGED <<form, expired, lost>>

\* Variant: the error of Commit is ignored.
CommitErrorIgnored(a) ==
  /\ pc[a] = "commit"
  /\ expired[a] \/ ~open[a]
  /\ CloseTx(a)
  /\ Reply(a, "redirect")
  /\ UNCHANGED <<jobs, priceTotal, form, expired, lost>>

CommitTooLate(a) ==
  /\ pc[a] = "commit"
  /\ expired[a] \/ ~open[a]
  /\ Goto(a, "failing")
  /\ UNCHANGED <<jobs, priceTotal, form, open, lock, written, expired, answer, lost>>

\* Variant: nobody rolls back.
FailWithoutRollback(a) ==
  /\ pc[a] = "failing"
  /\ Reply(a, "error")
  /\ UNCHANGED <<jobs, priceTotal, form, open, lock, written, expired, lost>>

\* The deferred Rollback, then the handler answers 500.
Fail(a) ==
  /\ pc[a] = "failing"
  /\ CloseTx(a)
  /\ Reply(a, "error")
  /\ UNCHANGED <<jobs, priceTotal, form, expired, lost>>

---------------------------------------------------------------------------
(* Time, and what goes wrong around the handler *)

Deadline(a) ==
  /\ pc[a] \in Running
  /\ ~expired[a]
  /\ expired' = [expired EXCEPT ![a] = TRUE]
  /\ UNCHANGED <<jobs, priceTotal, pc, form, open, lock, written, answer, lost>>

\* database/sql's awaitDone; it waits for the statement that is running.
ExpiredRollback(a) ==
  /\ expired[a] /\ open[a]
  /\ pc[a] \notin Waiting
  /\ CloseTx(a)
  /\ UNCHANGED <<jobs, priceTotal, pc, form, expired, answer, lost>>

\* The statement fails and the transaction stays, with its locks, until it is
\* rolled back: a lock wait timeout, or a foreign key.
StatementFails(a) ==
  /\ pc[a] \in Waiting
  /\ Goto(a, "failing")
  /\ UNCHANGED <<jobs, priceTotal, form, open, lock, written, expired, answer, lost>>

\* The connection is lost and with it, in MySQL, the transaction.
ConnectionLost(a) ==
  /\ pc[a] \in Waiting \cup {"commit"}
  /\ Goto(a, "failing")
  /\ Release(a)
  /\ UNCHANGED <<jobs, priceTotal, form, open, expired, answer, lost>>

\* MySQL commits and the connection is lost before the reply arrives.
CommitReplyLost(a) ==
  /\ pc[a] = "commit"
  /\ ~expired[a] /\ open[a]
  /\ Install(a)
  /\ CloseTx(a)
  /\ Goto(a, "failing")
  /\ lost' = [lost EXCEPT ![a] = TRUE]
  /\ UNCHANGED <<form, expired, answer>>

\* The server process dies: every request of the moment is dropped, and MySQL
\* rolls back the transactions whose connections are gone.
Crash ==
  LET dropped == {a \in Adders : pc[a] \in Running} IN
  /\ dropped # {}
  /\ pc' = [a \in Adders |-> IF a \in dropped THEN "done" ELSE pc[a]]
  /\ answer' = [a \in Adders |-> IF a \in dropped THEN "aborted" ELSE answer[a]]
  /\ open' = [a \in Adders |-> FALSE]
  /\ lock' = [a \in Adders |-> "none"]
  /\ written' = [a \in Adders |-> {}]
  /\ UNCHANGED <<jobs, priceTotal, form, expired, lost>>

---------------------------------------------------------------------------
Handler(a) ==
  \/ BeginTx(a) \/ (expired[a] /\ BeginTxFails(a))
  \/ SendInsert(a) \/ ExecInsert(a) \/ SendUpdate(a) \/ ExecUpdate(a)
  \/ DeadlockVictim(a) \/ Commit(a) \/ CommitTooLate(a) \/ Fail(a)

Step(a) == JobPost(a) \/ JobPostRejected(a) \/ Handler(a)

Late(a) == Deadline(a) \/ ExpiredRollback(a)

Fault(a) == BeginTxFails(a) \/ StatementFails(a) \/ ConnectionLost(a) \/ CommitReplyLost(a)

\* Every request has been answered: the model stops, the server would not.
AllDone == (\A a \in Adders : pc[a] = "done") /\ UNCHANGED vars

CalmNext == (\E a \in Adders : Step(a)) \/ AllDone
JNext == (\E a \in Adders : Step(a) \/ Late(a) \/ Fault(a)) \/ Crash \/ AllDone

\* A goroutine that can run does, and MySQL grants a free lock and breaks a
\* deadlock. Nobody has to post a form, and no deadline has to pass.
Fairness == \A a \in Adders : WF_vars(Handler(a)) /\ WF_vars(ExpiredRollback(a))

CalmSpec == JInit /\ [][CalmNext]_vars /\ Fairness
JSpec == JInit /\ [][JNext]_vars /\ Fairness

---------------------------------------------------------------------------
(* Properties *)

\* A browser that is redirected to /jobs/<uid> finds the job it posted,
\* whatever crashed or timed out around it (jobs.go:141, handles/jobs.go:218).
RedirectedIsStored ==
  \A a \in Adders : answer[a] = "redirect" => jobs[a] # NoJob /\ jobs[a] = form[a]

\* No request leaves a transaction behind: once it is answered nothing of it
\* holds a row of table order (the deferred Rollback of jobs.go:125).
AnsweredHoldsNoLock ==
  \A a \in Adders : pc[a] = "done" => ~open[a] /\ lock[a] = "none"

\* An exclusive lock is alone, so that price_total = price_total + ? reads the
\* total it adds to: no update is lost (jobs.go:104).
Exclusion ==
  \A a, b \in Adders :
    a # b /\ lock[a] = "X" /\ lock[b] # "none" => ~SameOrder(a, b)

\* An answer of failure is true, too, whatever deadline, deadlock, crash or
\* failed statement came before it: what was not confirmed is not stored. Only
\* a commit whose reply is lost can make it lie (handles/jobs.go:212-216).
FailedIsNotStored ==
  \A a \in Adders :
    answer[a] \in {"error", "aborted"} /\ jobs[a] # NoJob => lost[a]

\* The handler of a, or what InnoDB does for it, has a step to take.
CanMove(a) ==
  \/ pc[a] \in Running \ Waiting
  \/ pc[a] = "inserting" /\ CanShare(a)
  \/ pc[a] = "updating" /\ CanExclude(a)
  \/ pc[a] = "updating" /\ DeadlockedWith(a) # {}

\* Nobody waits in vain: if a request waits for a row of table order, somebody
\* who works on that order can go on, or is rolled back (jobs.go:134).
NoStandstill ==
  \A a \in Adders : pc[a] \in Running =>
    \E b \in Adders : CanMove(b) /\ (b = a \/ SameOrder(a, b))

\* Every posted job is answered, through deadlocks, deadlines and crashes.
Answered == \A a \in Adders : (pc[a] = "begin") ~> (pc[a] = "done")

\* The database never shows one of the two writes without the other.
Ledger == INSTANCE PriceLedger
ImplementsLedger == Ledger!Spec

\* jobs.go:119-121: an attempt that does not work within its second "means a
\* bigger problem". Under CalmSpec there is none: no deadline passes and
\* neither the server, the connection nor the database fails.
FailureMeansBiggerProblem == \A a \in Adders : answer[a] # "error"
---------------------------------------------------------------------------
(* The inductive invariant: why the properties above hold *)

\* What the program counter says of the form and of the transaction.
Position ==
  \A a \in Adders :
    /\ pc[a] \in Running => form[a] # NoJob
    /\ open[a] => pc[a] \in Running \ {"begin"}
    /\ jobs[a] # NoJob => pc[a] \in {"failing", "done"} /\ ~open[a] /\ jobs[a] = form[a]
    /\ pc[a] \in Waiting => open[a]
    /\ pc[a] \in {"insert", "inserting"} => written[a] = {}
    /\ pc[a] \in {"update", "updating"} /\ open[a] => written[a] = {"job"}
    /\ pc[a] = "commit" /\ open[a] => written[a] = Writes

\* What is written and not committed is protected by a lock of a transaction
\* that is open, and an update that is waiting to commit will fit.
Protected ==
  \A a \in Adders :
    /\ lock[a] # "none" => open[a]
    /\ "job" \in written[a] => lock[a] # "none"
    /\ "total" \in written[a] => lock[a] = "X" /\ Fits(a)

\* A lock is held on the way from the insert to the end: shared until the total
\* has been updated, exclusive from then on.
Holding ==
  \A a \in Adders :
    /\ lock[a] = "S" => pc[a] \in {"update", "updating", "failing"}
    /\ lock[a] = "X" => pc[a] \in {"commit", "failing"}

\* What is stored has been confirmed, or would have been but for a lost reply.
StoredIsConfirmed ==
  \A a \in Adders :
    jobs[a] # NoJob => lost[a] \/ (pc[a] = "done" /\ answer[a] = "redirect")

IInv ==
  /\ TypeOK
  /\ Position
  /\ StoredIsConfirmed
  /\ Protected
  /\ Exclusion
  /\ RedirectedIsStored
  /\ AnsweredHoldsNoLock
=============================================================================
