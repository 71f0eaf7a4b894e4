------------------------------- MODULE JobEdit -------------------------------
(***************************************************************************)
(* POST /jobs/<uid>: the status of one job, edited by requests that race.  *)
(* jobEditHandler reads the job, jobPostEditHandler validates the posted   *)
(* status, jobs.UpdateStatus reads the job again and writes it. Nothing    *)
(* ties the two reads and the write together.                              *)
(*                                                                         *)
(* asset_id is rewritten with the value read; no code ever changes it, so  *)
(* it is left out.                                                         *)
(***************************************************************************)
EXTENDS Integers

CONSTANTS
  Requests,  \* POST requests to the page of the job
  MaxTime,   \* bound of the clock, for TLC
  NoTime     \* SQL NULL in a datetime column

ASSUME EditAssumption == MaxTime \in Nat /\ NoTime \notin Nat

VARIABLES
  clock,     \* CURRENT_TIMESTAMP of MySQL
  row,       \* the columns status, start_time and end_time of the job
  pc,        \* idle, posted, checked (first read done), read (second), done
  want,      \* the posted form field status
  seenStart, \* job.StartTime, as the handler read it
  seenStatus,\* oldJob.Status, as UpdateStatus read it
  answer,    \* what the browser got
  raced      \* history: another request wrote between the first read and now

vars == <<clock, row, pc, want, seenStart, seenStatus, answer, raced>>

\* strings.ToUpper on the five accepted values of the form.
ToUpper == [created |-> "CREATED", queue |-> "QUEUE", in_progress |-> "IN_PROGRESS",
            canceled |-> "CANCELED", done |-> "DONE"]
FormStatus == DOMAIN ToUpper
Status == {ToUpper[w] : w \in FormStatus}
Posted == FormStatus \cup {"", "CREATED"}   \* two values the switch refuses

Time == Nat \cup {NoTime}
Row == [status : Status, start : Time, end : Time]
InFlight == {"posted", "checked", "read"}

TypeOK ==
  /\ clock \in Nat
  /\ row \in Row
  /\ pc \in [Requests -> InFlight \cup {"idle", "done"}]
  /\ want \in [Requests -> Posted]
  /\ seenStart \in [Requests -> Time]
  /\ seenStatus \in [Requests -> Status]
  /\ answer \in [Requests -> {"none", "redirect", "badRequest", "error"}]
  /\ raced \in [Requests -> BOOLEAN]

\* jobs.Insert created the row.
Init ==
  /\ clock = 0
  /\ row = [status |-> "CREATED", start |-> NoTime, end |-> NoTime]
  /\ pc = [r \in Requests |-> "idle"]
  /\ want = [r \in Requests |-> ""]
  /\ seenStart = [r \in Requests |-> NoTime]
  /\ seenStatus = [r \in Requests |-> "CREATED"]
  /\ answer = [r \in Requests |-> "none"]
  /\ raced = [r \in Requests |-> FALSE]

---------------------------------------------------------------------------
Reply(r, a) ==
  /\ pc' = [pc EXCEPT ![r] = "done"]
  /\ answer' = [answer EXCEPT ![r] = a]

Post(r) ==
  /\ pc[r] = "idle"
  /\ want' \in {[want EXCEPT ![r] = w] : w \in Posted}
  /\ pc' = [pc EXCEPT ![r] = "posted"]
  /\ UNCHANGED <<clock, row, seenStart, seenStatus, answer, raced>>

\* jobEditHandler: jobs.Get; clients.Get and address.List change nothing.
\* The method is POST: the status of the form is checked.
HandlerGet(r) ==
  /\ pc[r] = "posted"
  /\ seenStart' = [seenStart EXCEPT ![r] = row.start]
  /\ raced' = [raced EXCEPT ![r] = FALSE]
  /\ IF want[r] \in FormStatus
     THEN pc' = [pc EXCEPT ![r] = "checked"] /\ UNCHANGED answer
     ELSE Reply(r, "badRequest")
  /\ UNCHANGED <<clock, row, want, seenStatus>>

\* UpdateStatus starts with a read of its own.
UpdateGet(r) ==
  /\ pc[r] = "checked"
  /\ seenStatus' = [seenStatus EXCEPT ![r] = row.status]
  /\ pc' = [pc EXCEPT ![r] = "read"]
  /\ UNCHANGED <<clock, row, want, seenStart, answer, raced>>

NewStatus(r) == ToUpper[want[r]]

\* Variant: a done job is final, and nobody is told.
ChangesUnlessDone(r) == NewStatus(r) # seenStatus[r] /\ seenStatus[r] # "DONE"
Changes(r) == NewStatus(r) # seenStatus[r]

\* Variant: the end time is only stamped the first time.
EndsOnce(r) == Changes(r) /\ NewStatus(r) = "DONE" /\ row.end = NoTime
Ends(r) == Changes(r) /\ NewStatus(r) = "DONE"

\* Variants: the start time is stamped again, or only if the job was CREATED.
StartsAgain(r) == Changes(r) /\ NewStatus(r) = "IN_PROGRESS"
StartsFromCreated(r) == StartsAgain(r) /\ seenStatus[r] = "CREATED"
Starts(r) == Changes(r) /\ NewStatus(r) = "IN_PROGRESS" /\ seenStart[r] = NoTime

\* Variant: back in the queue, the job has not started.
UpdateResetsStart(r) ==
  /\ row' = [status |-> IF Changes(r) THEN NewStatus(r) ELSE row.status,
             start  |-> IF Starts(r) THEN clock
                        ELSE IF NewStatus(r) = "QUEUE" THEN NoTime ELSE row.start,
             end    |-> IF Ends(r) THEN clock ELSE row.end]
  /\ raced' = [q \in Requests |-> raced[q] \/ (q # r /\ pc[q] \in {"checked", "read"})]

\* The UPDATE of jobs.go, composed from what was read.
Update(r) ==
  /\ row' = [status |-> IF Changes(r) THEN NewStatus(r) ELSE row.status,
             start  |-> IF Starts(r) THEN clock ELSE row.start,
             end    |-> IF Ends(r) THEN clock ELSE row.end]
  /\ raced' = [q \in Requests |-> raced[q] \/ (q # r /\ pc[q] \in {"checked", "read"})]

Write(r) ==
  /\ pc[r] = "read"
  /\ Update(r)
  /\ Reply(r, "redirect")
  /\ UNCHANGED <<clock, want, seenStart, seenStatus>>

\* The browser went away (r.Context() is done) or the database failed.
Fail(r) ==
  /\ pc[r] \in InFlight
  /\ Reply(r, "error")
  /\ UNCHANGED <<clock, row, want, seenStart, seenStatus, raced>>

\* The UPDATE is executed and the connection is lost before the reply.
WriteReplyLost(r) ==
  /\ pc[r] = "read"
  /\ Update(r)
  /\ Reply(r, "error")
  /\ UNCHANGED <<clock, want, seenStart, seenStatus>>

Tick ==
  /\ clock < MaxTime
  /\ clock' = clock + 1
  /\ UNCHANGED <<row, pc, want, seenStart, seenStatus, answer, raced>>

AllDone == (\A r \in Requests : pc[r] = "done") /\ UNCHANGED vars

Handler(r) == HandlerGet(r) \/ UpdateGet(r) \/ Write(r)

Next ==
  \/ \E r \in Requests : Post(r) \/ Handler(r) \/ Fail(r) \/ WriteReplyLost(r)
  \/ Tick
  \/ AllDone

Spec == Init /\ [][Next]_vars

---------------------------------------------------------------------------
(* Properties *)

\* A finished job has an end time and a job being made has a start time,
\* although the UPDATE decides both from rows read earlier (jobs.go:201-212).
TimesFollowStatus ==
  /\ row.status = "DONE" => row.end # NoTime
  /\ row.status = "IN_PROGRESS" => row.start # NoTime

\* A finished job did not start after it ended, whichever requests raced.
DoneAfterStart ==
  row.status = "DONE" /\ row.start # NoTime => row.start <= row.end

\* A request that no other write overlaps keeps the history of the job: it
\* neither moves a start time that was set nor the end time of a job that is
\* already done. Racing requests can do both.
SoloEditKeepsTimes ==
  [][\A r \in Requests :
       pc[r] = "read" /\ pc'[r] = "done" /\ ~raced[r] =>
         /\ row.start # NoTime => row'.start = row.start
         /\ row.status = "DONE" => row'.end = row.end]_vars

\* A browser is redirected only if the job has the status it posted, or had it
\* when UpdateStatus looked; the status is then skipped (jobs.go:201).
RedirectMeansStatus ==
  [][\A r \in Requests :
       answer[r] = "none" /\ answer'[r] = "redirect" =>
         \/ row'.status = NewStatus(r)
         \/ raced[r] /\ seenStatus[r] = NewStatus(r)]_vars

---------------------------------------------------------------------------
(* The inductive invariant: what a request read may be stale, but a time     *)
(* that was set stays set, and without a race it is not stale at all.        *)
ReadsAreOld ==
  \A r \in Requests :
    /\ pc[r] \in {"checked", "read"} =>
         /\ want[r] \in FormStatus
         /\ seenStart[r] # NoTime => row.start # NoTime
         /\ ~raced[r] => seenStart[r] = row.start
    /\ pc[r] = "read" /\ ~raced[r] => seenStatus[r] = row.status

NotInTheFuture ==
  /\ row.start # NoTime => row.start <= clock
  /\ row.end # NoTime => row.end <= clock

IInv == TypeOK /\ ReadsAreOld /\ NotInTheFuture /\ TimesFollowStatus /\ DoneAfterStart
=============================================================================
