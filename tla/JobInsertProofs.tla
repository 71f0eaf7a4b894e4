--------------------------- MODULE JobInsertProofs ---------------------------
(***************************************************************************)
(* Proofs about JobInsert for any number of requests, orders and prices.   *)
(***************************************************************************)
EXTENDS JobInsert, SumLemmas, TLAPS

\* The empty database and the idle requests satisfy the inductive invariant.
LEMMA InitIInv == JInit => IInv
  BY LedgerAssumption
  DEF JInit, Init, IInv, TypeOK, Position, Protected, Exclusion, RedirectedIsStored,
      AnsweredHoldsNoLock, StoredIsConfirmed, PCs, Running, Waiting, Locks, Answers, Bigint

\* Stuttering, and the stop at the end, disturb nothing.
LEMMA StutterIInv == IInv /\ UNCHANGED vars => IInv'
  BY DEF IInv, vars, TypeOK, Position, Protected, Fits, NewTotal, Exclusion, SameOrder,
         RedirectedIsStored, AnsweredHoldsNoLock, StoredIsConfirmed

\* Each conjunct of the invariant is kept by each step of one request.
LEMMA StepIInv ==
  ASSUME IInv, NEW a \in Adders, Step(a) \/ Late(a) \/ Fault(a)
  PROVE  IInv'
<1> USE LedgerAssumption
    DEF IInv, TypeOK, Position, Protected, Exclusion, RedirectedIsStored,
        AnsweredHoldsNoLock, StoredIsConfirmed, Fits, NewTotal, SameOrder, Goto, Reply, Release, CloseTx,
        PCs, Running, Waiting, Locks, Answers, Writes, Forms
<1>1. CASE JobPost(a)
  <2>1. PICK f \in Forms : form' = [form EXCEPT ![a] = f]
    BY <1>1 DEF JobPost
  <2>2. f # NoJob /\ pc[a] = "idle" /\ ~open[a] /\ lock[a] = "none" /\ jobs[a] = NoJob
    BY <1>1 DEF JobPost
  <2> QED
    BY <1>1, <2>1, <2>2 DEF JobPost
<1>2. CASE JobPostRejected(a)
  BY <1>2 DEF JobPostRejected
<1>3. CASE BeginTx(a)
  BY <1>3 DEF BeginTx
<1>4. CASE BeginTxFails(a)
  BY <1>4 DEF BeginTxFails
<1>5. CASE SendInsert(a)
  BY <1>5 DEF SendInsert, Send
<1>6. CASE ExecInsert(a)
  BY <1>6 DEF ExecInsert, CanShare
<1>7. CASE SendUpdate(a)
  BY <1>7 DEF SendUpdate, Send
<1>8. CASE ExecUpdate(a)
  <2>1. CASE Fits(a)
    BY <1>8, <2>1, SMTT(30) DEF ExecUpdate, CanExclude
  <2>2. CASE ~Fits(a)
    BY <1>8, <2>2 DEF ExecUpdate, CanExclude
  <2> QED
    BY <2>1, <2>2
<1>9. CASE DeadlockVictim(a)
  BY <1>9 DEF DeadlockVictim, DeadlockedWith
<1>10. CASE Commit(a)
  BY <1>10 DEF Commit, Install
<1>11. CASE CommitTooLate(a)
  BY <1>11 DEF CommitTooLate
<1>12. CASE Fail(a)
  BY <1>12 DEF Fail
<1>13. CASE Deadline(a)
  BY <1>13 DEF Deadline
<1>14. CASE ExpiredRollback(a)
  BY <1>14 DEF ExpiredRollback
<1>15. CASE StatementFails(a)
  BY <1>15 DEF StatementFails
<1>16. CASE CommitReplyLost(a)
  BY <1>16 DEF CommitReplyLost, Install
<1>17. CASE ConnectionLost(a)
  BY <1>17 DEF ConnectionLost
<1> QED
  BY <1>1, <1>2, <1>3, <1>4, <1>5, <1>6, <1>7, <1>8, <1>9, <1>10, <1>11, <1>12,
     <1>13, <1>14, <1>15, <1>16, <1>17 DEF Step, Handler, Late, Fault

\* A crash ends every transaction and rolls back what was not committed.
LEMMA CrashIInv == IInv /\ Crash => IInv'
  BY DEF Crash, IInv, TypeOK, Position, Protected, Exclusion, RedirectedIsStored,
         AnsweredHoldsNoLock, StoredIsConfirmed, Fits, NewTotal, SameOrder, PCs, Running, Waiting, Locks,
         Answers, Writes

LEMMA NextIInv == IInv /\ [JNext]_vars => IInv'
  BY StepIInv, CrashIInv, StutterIInv DEF JNext, AllDone

\* The inductive invariant holds in every state of every behaviour.
THEOREM Invariance == JSpec => []IInv
<1>1. JInit => IInv
  BY InitIInv
<1>2. IInv /\ [JNext]_vars => IInv'
  BY NextIInv
<1> QED
  BY <1>1, <1>2, PTL DEF JSpec

\* The variables keep their types: price_total never leaves bigint(20).
THEOREM TypeCorrect == JSpec => []TypeOK
  BY Invariance, PTL DEF IInv

\* A browser that is redirected finds the job it posted (jobs.go:141), for any
\* number of requests and through any crash, deadline or deadlock.
THEOREM RedirectIsTruthful == JSpec => []RedirectedIsStored
  BY Invariance, PTL DEF IInv

\* An answered request holds nothing of table order (jobs.go:125).
THEOREM NothingLeftLocked == JSpec => []AnsweredHoldsNoLock
  BY Invariance, PTL DEF IInv

\* A request that is answered 500 or dropped has stored nothing, unless the
\* reply to its commit was lost (handles/jobs.go:212-216).
THEOREM FailureIsTruthful == JSpec => []FailedIsNotStored
<1>1. IInv => FailedIsNotStored
  BY DEF IInv, StoredIsConfirmed, FailedIsNotStored
<1> QED
  BY <1>1, Invariance, PTL

---------------------------------------------------------------------------
(* Nobody waits in vain *)

LEMMA InitHolding == JInit => Holding
  BY DEF JInit, Holding

LEMMA NextHolding == IInv /\ Holding /\ [JNext]_vars => Holding'
<1> SUFFICES ASSUME IInv, Holding, [JNext]_vars PROVE Holding'
  OBVIOUS
<1> USE DEF IInv, TypeOK, Holding
<1>1. ASSUME NEW a \in Adders, Step(a) \/ Late(a) \/ Fault(a)
      PROVE  Holding'
  <2>1. CASE JobPost(a) \/ JobPostRejected(a) \/ BeginTxFails(a)
    BY <2>1 DEF JobPost, JobPostRejected, BeginTxFails, Goto, Reply, Position, Protected, Running
  <2>2. CASE BeginTx(a) \/ SendInsert(a) \/ SendUpdate(a)
    BY <2>2 DEF BeginTx, SendInsert, SendUpdate, Send, Goto, Position, Protected, Running, Waiting
  <2>3. CASE ExecInsert(a)
    BY <2>3 DEF ExecInsert, Goto
  <2>4. CASE ExecUpdate(a)
    BY <2>4 DEF ExecUpdate, Goto
  <2>5. CASE DeadlockVictim(a) \/ StatementFails(a) \/ ConnectionLost(a)
    BY <2>5 DEF DeadlockVictim, StatementFails, ConnectionLost, Goto, Release, Waiting
  <2>6. CASE Commit(a) \/ CommitReplyLost(a) \/ Fail(a)
    BY <2>6 DEF Commit, CommitReplyLost, Fail, CloseTx, Release, Reply, Goto
  <2>7. CASE CommitTooLate(a)
    BY <2>7 DEF CommitTooLate, Goto
  <2>8. CASE Deadline(a) \/ ExpiredRollback(a)
    BY <2>8 DEF Deadline, ExpiredRollback, CloseTx, Release
  <2> QED
    BY <1>1, <2>1, <2>2, <2>3, <2>4, <2>5, <2>6, <2>7, <2>8 DEF Step, Handler, Late, Fault
<1>2. CASE Crash
  BY <1>2 DEF Crash
<1>3. CASE UNCHANGED vars
  BY <1>3 DEF vars
<1> QED
  BY <1>1, <1>2, <1>3 DEF JNext, AllDone

\* Who waits for a lock waits for its holder, who works on the same order. The
\* holder of an exclusive lock waits for nobody. The holder of a shared one may
\* wait to exclude the other; then the two are a deadlock, which is broken.
LEMMA HoldersMove == IInv /\ Holding => NoStandstill
<1> SUFFICES ASSUME IInv, Holding, NEW a \in Adders, pc[a] \in Running
             PROVE  \E b \in Adders : CanMove(b) /\ (b = a \/ SameOrder(a, b))
  BY DEF NoStandstill
<1> USE DEF IInv, TypeOK, Holding, Running, Waiting
<1>1. CASE CanMove(a)
  BY <1>1
<1>2. CASE pc[a] = "inserting" /\ ~CanShare(a)
  <2>1. PICK b \in Adders \ {a} : lock[b] = "X" /\ SameOrder(a, b)
    BY <1>2 DEF CanShare
  <2>2. CanMove(b)
    BY <2>1 DEF CanMove
  <2> QED
    BY <2>1, <2>2
<1>3. CASE pc[a] = "updating" /\ ~CanExclude(a)
  <2>1. PICK b \in Adders \ {a} : lock[b] \in {"S", "X"} /\ SameOrder(a, b)
    BY <1>3 DEF CanExclude, Locks
  <2>2. CASE pc[b] # "updating"
    <3>1. CanMove(b)
      BY <2>1, <2>2 DEF CanMove
    <3> QED
      BY <2>1, <3>1
  <2>3. CASE pc[b] = "updating"
    <3>1. lock[a] = "S" /\ lock[b] = "S"
      BY <1>3, <2>1, <2>3 DEF Position, Protected, Locks
    <3>2. b \in DeadlockedWith(a)
      BY <2>1, <2>3, <3>1 DEF DeadlockedWith
    <3>3. CanMove(a)
      BY <1>3, <3>2 DEF CanMove
    <3> QED
      BY <3>3
  <2> QED
    BY <2>2, <2>3
<1> QED
  BY <1>1, <1>2, <1>3 DEF CanMove

\* However many requests add jobs, they never all wait for each other, and one
\* who works on the order that is waited for can go on (jobs.go:134).
THEOREM NobodyWaitsInVain == JSpec => []NoStandstill
<1>1. JSpec => []Holding
  BY InitHolding, NextHolding, Invariance, PTL DEF JSpec
<1> QED
  BY <1>1, Invariance, HoldersMove, PTL

\* The steps that are left to a request, at the most.
Left(l) ==
  CASE l = "idle" -> 8 [] l = "begin" -> 7 [] l = "insert" -> 6 [] l = "inserting" -> 5
    [] l = "update" -> 4 [] l = "updating" -> 3 [] l = "commit" -> 2 [] l = "failing" -> 1
    [] l = "done" -> 0

\* jobs.Insert makes one attempt: no deadline, lost reply, deadlock or crash sends
\* a request back to a step it has made, so that eight steps end it (jobs.go:119).
THEOREM OneAttempt ==
  JSpec => [][\A a \in Adders : pc'[a] = pc[a] \/ Left(pc'[a]) < Left(pc[a])]_vars
<1> DEFINE Forward == \A a \in Adders : pc'[a] = pc[a] \/ Left(pc'[a]) < Left(pc[a])
<1>1. ASSUME IInv, NEW a \in Adders, Step(a) \/ Late(a) \/ Fault(a)
      PROVE  Forward
  <2>1. \A b \in Adders \ {a} : pc'[b] = pc[b]
    BY <1>1 DEF IInv, TypeOK, Step, Late, Fault, Handler, JobPost, JobPostRejected, BeginTx,
       BeginTxFails, SendInsert, SendUpdate, Send, ExecInsert, ExecUpdate, DeadlockVictim,
       Commit, CommitTooLate, CommitReplyLost, Fail, Deadline, ExpiredRollback,
       StatementFails, ConnectionLost, Goto, Reply
  <2>2. CASE JobPost(a) \/ JobPostRejected(a) \/ BeginTx(a) \/ BeginTxFails(a)
    BY <1>1, <2>2 DEF IInv, TypeOK, Left, JobPost, JobPostRejected, BeginTx, BeginTxFails,
       Goto, Reply
  <2>3. CASE SendInsert(a) \/ SendUpdate(a) \/ ExecInsert(a) \/ ExecUpdate(a)
    BY <1>1, <2>3 DEF IInv, TypeOK, Left, SendInsert, SendUpdate, Send, ExecInsert,
       ExecUpdate, Goto
  <2>4. CASE DeadlockVictim(a) \/ StatementFails(a) \/ ConnectionLost(a) \/ CommitTooLate(a)
             \/ CommitReplyLost(a)
    BY <1>1, <2>4 DEF IInv, TypeOK, Left, DeadlockVictim, StatementFails, ConnectionLost,
       CommitTooLate, CommitReplyLost, Goto, Waiting
  <2>5. CASE Commit(a) \/ Fail(a) \/ Deadline(a) \/ ExpiredRollback(a)
    BY <1>1, <2>5 DEF IInv, TypeOK, Left, Commit, Fail, Deadline, ExpiredRollback, Reply, Goto
  <2>6. pc'[a] = pc[a] \/ Left(pc'[a]) < Left(pc[a])
    BY <1>1, <2>2, <2>3, <2>4, <2>5 DEF Step, Handler, Late, Fault
  <2> QED
    BY <2>1, <2>6
<1>2. ASSUME IInv, Crash PROVE Forward
  BY <1>2 DEF IInv, TypeOK, Crash, Left, Running, Waiting
<1>3. IInv /\ [JNext]_vars => [Forward]_vars
  <2> HIDE DEF Forward
  <2> QED
    BY <1>1, <1>2 DEF JNext, AllDone
<1> QED
  BY <1>3, Invariance, PTL DEF JSpec

---------------------------------------------------------------------------
(* The transaction implements the ledger: its row and its total appear in   *)
(* one step.                                                                *)

\* At the commit point both writes are pending and the new total fits, so what
\* becomes visible is one AddJob of the ledger.
LEMMA InstallIsAddJob ==
  ASSUME IInv, NEW a \in Adders, pc[a] = "commit", open[a], Install(a)
  PROVE  Ledger!Next
<1>1. form[a] \in Forms /\ form[a].order \in Orders /\ form[a].price \in Prices
  BY DEF IInv, TypeOK, Position, Running, Forms
<1>2. written[a] = Writes /\ jobs[a] = NoJob /\ NewTotal(a) \in Bigint
  BY DEF IInv, Position, Protected, Fits, Writes
<1>3. Ledger!AddJob(a, form[a].order, form[a].price)
  <2>1. jobs' = [jobs EXCEPT ![a] = [order |-> form[a].order, price |-> form[a].price]]
    BY <1>1, <1>2 DEF Install, Writes, Forms
  <2>2. priceTotal' = [priceTotal EXCEPT ![form[a].order] = @ + form[a].price]
    BY <1>2 DEF Install, Writes
  <2> QED
    BY <1>2, <2>1, <2>2 DEF Ledger!AddJob, NewTotal, Ledger!Bigint, Bigint
<1> QED
  BY <1>1, <1>3 DEF Ledger!Next

\* Every step of a request, of time, of a failure or of a crash is a step of
\* the ledger or does not show in it.
LEMMA StepIsLedgerStep == IInv /\ [JNext]_vars => [Ledger!Next]_(Ledger!ledgerVars)
<1> SUFFICES ASSUME IInv, [JNext]_vars
             PROVE  Ledger!Next \/ UNCHANGED <<jobs, priceTotal>>
  BY DEF Ledger!ledgerVars
<1>1. ASSUME NEW a \in Adders, Commit(a) \/ CommitReplyLost(a)
      PROVE  Ledger!Next
  BY <1>1, InstallIsAddJob DEF Commit, CommitReplyLost
<1>2. ASSUME NEW a \in Adders, Step(a) \/ Late(a) \/ Fault(a),
             ~(Commit(a) \/ CommitReplyLost(a))
      PROVE  UNCHANGED <<jobs, priceTotal>>
  BY <1>2 DEF Step, Late, Fault, Handler, JobPost, JobPostRejected, BeginTx,
     BeginTxFails, SendInsert, SendUpdate, Send, ExecInsert, ExecUpdate,
     DeadlockVictim, CommitTooLate, Fail, Deadline, ExpiredRollback, StatementFails,
     ConnectionLost
<1> QED
  BY <1>1, <1>2 DEF JNext, Crash, AllDone, vars

\* jobs.Insert implements PriceLedger: no interleaving, deadline, lost reply or
\* crash ever shows a job without its price in the total, or the reverse.
THEOREM Implementation == JSpec => ImplementsLedger
<1>1. JInit => Ledger!Init
  BY DEF JInit, Init, Ledger!Init
<1>2. IInv /\ [JNext]_vars => [Ledger!Next]_(Ledger!ledgerVars)
  BY StepIsLedgerStep
<1> QED
  BY <1>1, <1>2, Invariance, PTL DEF JSpec, Ledger!Spec, ImplementsLedger

---------------------------------------------------------------------------
(* The total of an order is a sum. This is proved of the ledger alone; that *)
(* jobs.Insert implements the ledger carries it over.                       *)

LInv ==
  /\ jobs \in [Adders -> [order : Orders, price : Prices] \cup {NoJob}]
  /\ priceTotal \in [Orders -> Int]
  /\ TotalIsSum

\* An order without jobs has the total it is inserted with.
LEMMA InitLInv == Init => LInv
<1> SUFFICES ASSUME Init PROVE LInv
  OBVIOUS
<1>1. ASSUME NEW o \in Orders
      PROVE  SumFunction([a \in JobsOf(o) |-> jobs[a].price]) = 0
  <2>1. JobsOf(o) = {}
    BY DEF Init, JobsOf
  <2> QED
    BY <2>1, SumOfNone DEF SumFunction
<1> QED
  BY <1>1 DEF Init, LInv, TotalIsSum

\* The row that is added is one more summand of the total of its order, and of
\* no other.
LEMMA AddJobLInv ==
  ASSUME LInv, NEW a \in Adders, NEW o \in Orders, NEW p \in Prices, AddJob(a, o, p)
  PROVE  LInv'
<1> USE LedgerAssumption, AddersAssumption
<1> DEFINE price(q) == [b \in JobsOf(q) |-> jobs[b].price]
<1>1. /\ jobs' = [jobs EXCEPT ![a] = [order |-> o, price |-> p]]
      /\ priceTotal' = [priceTotal EXCEPT ![o] = @ + p]
      /\ jobs[a] = NoJob /\ [order |-> o, price |-> p] # NoJob
  BY DEF AddJob
<1>2. jobs' \in [Adders -> [order : Orders, price : Prices] \cup {NoJob}]
  BY <1>1 DEF LInv
<1>3. priceTotal' \in [Orders -> Int]
  BY <1>1 DEF LInv
<1>4. ASSUME NEW q \in Orders
      PROVE  /\ IsFiniteSet(JobsOf(q)) /\ a \notin JobsOf(q)
             /\ \A b \in JobsOf(q) : jobs[b].price \in Int /\ jobs'[b] = jobs[b]
  <2>1. JobsOf(q) \subseteq Adders /\ a \notin JobsOf(q)
    BY <1>1 DEF JobsOf
  <2>2. IsFiniteSet(JobsOf(q))
    BY <2>1, FS_Subset
  <2> QED
    BY <1>1, <2>1, <2>2 DEF LInv, JobsOf
<1>5. ASSUME NEW q \in Orders, q # o
      PROVE  priceTotal'[q] = SumFunction(price(q)')
  <2>1. JobsOf(q)' = JobsOf(q)
    BY <1>1, <1>5 DEF LInv, JobsOf
  <2>2. price(q)' = price(q)
    BY <1>4, <2>1
  <2> QED
    BY <1>1, <1>5, <2>2 DEF LInv, TotalIsSum
<1>6. priceTotal'[o] = SumFunction(price(o)')
  <2> DEFINE f == price(o)
             g == price(o)'
             J == JobsOf(o)
  <2>1. JobsOf(o)' = J \cup {a}
    BY <1>1 DEF LInv, JobsOf
  <2>2. \A b \in J : g[b] = f[b] /\ f[b] \in Int
    BY <1>4, <2>1
  <2>3. g[a] = p /\ p \in Int
    BY <1>1, <2>1 DEF LInv
  <2>4. DOMAIN g = J \cup {a} /\ DOMAIN f = J
    BY <2>1
  <2>5. priceTotal[o] = SumFunctionOnSet(f, J)
    BY <2>4 DEF LInv, TotalIsSum, SumFunction
  <2>6. IsFiniteSet(J) /\ a \notin J
    BY <1>4
  <2>7. priceTotal'[o] = priceTotal[o] + p
    BY <1>1 DEF LInv
  <2> HIDE DEF f, g, J
  <2>8. SumFunctionOnSet(g, J \cup {a}) = p + SumFunctionOnSet(g, J)
    BY <2>2, <2>3, <2>6, SumWith
  <2>9. SumFunctionOnSet(g, J) = SumFunctionOnSet(f, J)
    BY <2>2, <2>6, SumOfSame
  <2>10. SumFunctionOnSet(f, J) \in Int
    BY <2>2, <2>6, SumIsInt
  <2>11. priceTotal'[o] = SumFunctionOnSet(g, DOMAIN g)
    BY <2>3, <2>4, <2>5, <2>7, <2>8, <2>9, <2>10
  <2> QED
    BY <2>11 DEF g, SumFunction
<1> QED
  BY <1>2, <1>3, <1>5, <1>6 DEF LInv, TotalIsSum

\* In the ledger the total of an order is the sum of the prices of its jobs, for
\* any number of orders and jobs, and prices of either sign.
THEOREM LedgerTotal == Spec => []TotalIsSum
<1>1. LInv /\ [Next]_ledgerVars => LInv'
  <2>1. LInv /\ UNCHANGED ledgerVars => LInv'
    BY DEF ledgerVars, LInv, TotalIsSum, JobsOf
  <2> QED
    BY <2>1, AddJobLInv DEF Next
<1>2. LInv => TotalIsSum
  BY DEF LInv
<1> QED
  BY <1>1, <1>2, InitLInv, PTL DEF Spec

\* The same of jobs.Insert: through every interleaving, deadline, deadlock and
\* crash the total is the sum of the prices of the stored jobs (jobs.go:104).
THEOREM TotalIsTheSum == JSpec => []TotalIsSum
<1>1. Ledger!Init => Init
  BY DEF Ledger!Init, Init
<1>2. [Ledger!Next]_(Ledger!ledgerVars) => [Next]_ledgerVars
  BY DEF Ledger!Next, Next, Ledger!AddJob, AddJob, Ledger!Bigint, Bigint,
     Ledger!ledgerVars, ledgerVars
<1>3. Ledger!Spec => Spec
  BY <1>1, <1>2, PTL DEF Ledger!Spec, Spec
<1> QED
  BY <1>3, Implementation, LedgerTotal, PTL DEF ImplementsLedger
=============================================================================
