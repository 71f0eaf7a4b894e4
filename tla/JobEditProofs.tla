---------------------------- MODULE JobEditProofs ----------------------------
(***************************************************************************)
(* Proofs about JobEdit for any number of racing requests and any clock.   *)
(***************************************************************************)
EXTENDS JobEdit, TLAPS

\* What the form posts in lower case is stored in upper case, one for one.
LEMMA StatusNames ==
  /\ FormStatus = {"created", "queue", "in_progress", "canceled", "done"}
  /\ Status = {"CREATED", "QUEUE", "IN_PROGRESS", "CANCELED", "DONE"}
  /\ \A w \in FormStatus : ToUpper[w] \in Status
<1>1. FormStatus = {"created", "queue", "in_progress", "canceled", "done"}
  BY DEF FormStatus, ToUpper
<1>2. /\ ToUpper["created"] = "CREATED"
      /\ ToUpper["queue"] = "QUEUE"
      /\ ToUpper["in_progress"] = "IN_PROGRESS"
      /\ ToUpper["canceled"] = "CANCELED"
      /\ ToUpper["done"] = "DONE"
  BY DEF ToUpper
<1>3. Status = {"CREATED", "QUEUE", "IN_PROGRESS", "CANCELED", "DONE"}
  BY <1>1, <1>2 DEF Status
<1>4. \A w \in FormStatus : ToUpper[w] \in Status
  BY DEF Status
<1> QED
  BY <1>1, <1>3, <1>4

LEMMA InitIInv == Init => IInv
<1> SUFFICES ASSUME Init PROVE IInv
  OBVIOUS
<1>1. "CREATED" \in Status /\ "" \in Posted
  BY StatusNames DEF Posted
<1>2. TypeOK
  BY <1>1 DEF Init, TypeOK, Row, Time, InFlight
<1>3. ReadsAreOld /\ NotInTheFuture /\ TimesFollowStatus /\ DoneAfterStart
  BY DEF Init, ReadsAreOld, NotInTheFuture, TimesFollowStatus, DoneAfterStart
<1> QED
  BY <1>2, <1>3 DEF IInv

LEMMA StutterIInv == IInv /\ UNCHANGED vars => IInv'
  BY DEF IInv, vars, TypeOK, ReadsAreOld, NotInTheFuture, TimesFollowStatus,
         DoneAfterStart

\* The UPDATE: what it writes now is not in the future, and what it does not
\* write was already set if the new status needs it.
LEMMA UpdateIInv ==
  ASSUME IInv, NEW r \in Requests, NEW a \in {"redirect", "error"},
         pc[r] = "read", Update(r), Reply(r, a),
         UNCHANGED <<clock, want, seenStart, seenStatus>>
  PROVE  IInv'
<1>1. row \in Row /\ clock \in Nat /\ NewStatus(r) \in Status /\ seenStart[r] \in Time
  BY StatusNames DEF IInv, TypeOK, ReadsAreOld, NewStatus
<1>2. row' \in Row
  BY <1>1 DEF Update, Row, Time
<1>3. TypeOK'
  BY <1>2 DEF IInv, TypeOK, Update, Reply, InFlight
<1>4. row'.start = IF Starts(r) THEN clock ELSE row.start
  BY DEF Update
<1>5. row'.end = IF Ends(r) THEN clock ELSE row.end
  BY DEF Update
<1>6. row'.status = IF Changes(r) THEN NewStatus(r) ELSE row.status
  BY DEF Update
<1>7. ReadsAreOld'
  <2> SUFFICES ASSUME NEW q \in Requests, q # r,
                      pc[q] \in {"checked", "read"}
               PROVE  /\ want[q] \in FormStatus
                      /\ seenStart[q] # NoTime => row'.start # NoTime
                      /\ raced'[q]
    BY StatusNames DEF IInv, TypeOK, ReadsAreOld, Update, Reply
  <2> QED
    BY <1>1, <1>4, EditAssumption DEF IInv, ReadsAreOld, Update
<1>8. NotInTheFuture'
  BY <1>1, <1>4, <1>5 DEF IInv, NotInTheFuture
<1>9. TimesFollowStatus'
  BY <1>1, <1>4, <1>5, <1>6, EditAssumption
  DEF IInv, ReadsAreOld, TimesFollowStatus, Starts, Ends
<1>10. DoneAfterStart'
  BY <1>1, <1>4, <1>5, <1>6, EditAssumption
  DEF IInv, DoneAfterStart, NotInTheFuture, Starts, Ends, Row, Time
<1> QED
  BY <1>3, <1>7, <1>8, <1>9, <1>10 DEF IInv

\* One step per action.
LEMMA NextIInv == IInv /\ [Next]_vars => IInv'
<1> SUFFICES ASSUME IInv, [Next]_vars PROVE IInv'
  OBVIOUS
<1> USE DEF IInv, TypeOK, ReadsAreOld, NotInTheFuture, TimesFollowStatus,
            DoneAfterStart, InFlight
<1>1. ASSUME NEW r \in Requests, Post(r) PROVE IInv'
  BY <1>1 DEF Post
<1>2. ASSUME NEW r \in Requests, HandlerGet(r) PROVE IInv'
  BY <1>2 DEF HandlerGet, Reply, Row
<1>3. ASSUME NEW r \in Requests, UpdateGet(r) PROVE IInv'
  BY <1>3 DEF UpdateGet, Row
<1>4. ASSUME NEW r \in Requests, Write(r) \/ WriteReplyLost(r) PROVE IInv'
  BY <1>4, UpdateIInv DEF Write, WriteReplyLost
<1>5. ASSUME NEW r \in Requests, Fail(r) PROVE IInv'
  BY <1>5 DEF Fail, Reply
<1>6. CASE Tick
  BY <1>6 DEF Tick, Row, Time
<1>7. CASE UNCHANGED vars
  BY <1>7, StutterIInv
<1> QED
  BY <1>1, <1>2, <1>3, <1>4, <1>5, <1>6, <1>7 DEF Next, Handler, AllDone

\* What the requests read may be old, but the times of the job agree with its status.
THEOREM Invariance == Spec => []IInv
<1>1. Init => IInv
  BY InitIInv
<1>2. IInv /\ [Next]_vars => IInv'
  BY NextIInv
<1> QED
  BY <1>1, <1>2, PTL DEF Spec

\* A done job has an end time and a job in progress a start time, however many
\* requests decide them from stale reads (jobs.go:201-212).
THEOREM TimesAreSet == Spec => []TimesFollowStatus
  BY Invariance, PTL DEF IInv

\* No job is done before it started (jobs.go:205-211).
THEOREM Chronology == Spec => []DoneAfterStart
  BY Invariance, PTL DEF IInv

\* An edit that no other write overlaps moves neither a start time nor the end
\* time of a done job (jobs.go:201-212): only a race can.
THEOREM SoloEdits == Spec => SoloEditKeepsTimes
<1> DEFINE Solo == \A r \in Requests :
                     pc[r] = "read" /\ pc'[r] = "done" /\ ~raced[r] =>
                       /\ row.start # NoTime => row'.start = row.start
                       /\ row.status = "DONE" => row'.end = row.end
<1>1. IInv /\ [Next]_vars => Solo
  <2> SUFFICES ASSUME IInv, [Next]_vars, NEW r \in Requests,
                      pc[r] = "read", pc'[r] = "done", ~raced[r]
               PROVE  /\ row.start # NoTime => row'.start = row.start
                      /\ row.status = "DONE" => row'.end = row.end
    OBVIOUS
  <2>1. CASE row' = row
    BY <2>1
  <2>2. CASE Update(r)
    BY <2>2 DEF IInv, ReadsAreOld, Update, Starts, Ends, Changes
  <2>3. row' = row \/ Update(r)
    <3>1. ASSUME NEW q \in Requests, Write(q) \/ WriteReplyLost(q), q # r
          PROVE  FALSE
      BY <3>1 DEF IInv, TypeOK, Write, WriteReplyLost, Reply
    <3> QED
      BY <3>1 DEF Next, vars, AllDone, Tick, Handler, Post, HandlerGet, UpdateGet,
         Write, WriteReplyLost, Fail
  <2> QED
    BY <2>1, <2>2, <2>3
<1> QED
  BY <1>1, Invariance, PTL DEF Spec, SoloEditKeepsTimes

\* Whoever is redirected finds the status that was posted, unless a race took it
\* for the one that was there already (jobs.go:201).
THEOREM Redirects == Spec => RedirectMeansStatus
<1> DEFINE Told == \A r \in Requests :
                     answer[r] = "none" /\ answer'[r] = "redirect" =>
                       \/ row'.status = NewStatus(r)
                       \/ raced[r] /\ seenStatus[r] = NewStatus(r)
<1>1. IInv /\ [Next]_vars => Told
  <2> SUFFICES ASSUME IInv, [Next]_vars, NEW r \in Requests,
                      answer[r] = "none", answer'[r] = "redirect"
               PROVE  \/ row'.status = NewStatus(r)
                      \/ raced[r] /\ seenStatus[r] = NewStatus(r)
    OBVIOUS
  <2>1. answer \in [Requests -> {"none", "redirect", "badRequest", "error"}]
    BY DEF IInv, TypeOK
  <2>2. Write(r)
    <3>1. ASSUME NEW q \in Requests, NEW a, Reply(q, a), a # "redirect" PROVE FALSE
      BY <2>1, <3>1 DEF Reply
    <3>2. ASSUME NEW q \in Requests, Write(q) PROVE q = r
      BY <2>1, <3>2 DEF Write, Reply
    <3>3. answer' # answer
      OBVIOUS
    <3> QED
      BY <3>1, <3>2, <3>3 DEF Next, vars, AllDone, Tick, Handler, Post, HandlerGet, UpdateGet,
         WriteReplyLost, Fail
  <2>3. row'.status = IF Changes(r) THEN NewStatus(r) ELSE row.status
    BY <2>2 DEF Write, Update
  <2>4. pc[r] = "read" /\ (~raced[r] => seenStatus[r] = row.status) /\ raced[r] \in BOOLEAN
    BY <2>2 DEF Write, IInv, TypeOK, ReadsAreOld
  <2> QED
    BY <2>3, <2>4 DEF Changes
<1> QED
  BY <1>1, Invariance, PTL DEF Spec, RedirectMeansStatus
=============================================================================
