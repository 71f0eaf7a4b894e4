-------------------------------- MODULE Server --------------------------------
(***************************************************************************)
(* The life of the server process around the handlers of ConnPool: it      *)
(* opens the database and the listener, serves, and stops when its context *)
(* is done, whatever requests are in flight. main calls Start, which drops *)
(* the context it is given for one that never ends; Serve, which Start     *)
(* calls, is exported and keeps it.                                        *)
(***************************************************************************)
EXTENDS ConnPool

VARIABLES
  process,  \* opening, listening, serving, deaf (no listener), closed, exited
  ctx,      \* background (never ends), live, canceled, expired
  failed,   \* Server.err is set
  status    \* the exit status of the process, or none

life == <<process, ctx, failed, status>>
vars == <<pool, life>>

TypeOK ==
  /\ PoolTypeOK
  /\ process \in {"opening", "listening", "serving", "deaf", "closed", "exited"}
  /\ ctx \in {"background", "live", "canceled", "expired"}
  /\ failed \in BOOLEAN
  /\ status \in {"none", "0", "1"}

Init ==
  /\ PoolInit
  /\ process = "opening"
  /\ ctx \in {"background", "live"}
  /\ failed = FALSE
  /\ status = "none"

Done == ctx \in {"canceled", "expired"}

Becomes(from, to) ==
  /\ process = from
  /\ process' = to
  /\ UNCHANGED <<pool, ctx, failed>>

\* A DSN that cannot be read stops the server; a database that does not answer
\* the ping is only mentioned.
OpenDB ==
  \/ Becomes("opening", "listening") /\ UNCHANGED status
  \/ Becomes("opening", "exited") /\ status' = "1"

Listen ==
  \/ Becomes("listening", "serving") /\ UNCHANGED status
  \/ Becomes("listening", "exited") /\ status' = "1"

\* Variant: Serve does not wait for waitServer.
ListenerFailsReturn ==
  /\ process = "serving"
  /\ process' = "exited" /\ status' = "0"
  /\ Die
  /\ UNCHANGED <<ctx, failed>>

\* httpServer.Serve returns with an error; Serve prints it and waits for
\* waitServer, that is, for the context.
ListenerFails == Becomes("serving", "deaf") /\ UNCHANGED status

ContextEnds ==
  /\ ctx = "live" /\ process # "exited"
  /\ ctx' \in {"canceled", "expired"}
  /\ UNCHANGED <<pool, process, failed, status>>

\* Variant: waitServer waits for a moment without requests before it closes the
\* listener.
ShutdownWhenQuiet ==
  /\ process \in {"serving", "deaf"} /\ Done /\ \A r \in Requests : ~Active(r)
  /\ process' = "closed"
  /\ failed' = FALSE
  /\ UNCHANGED <<pool, ctx, status>>

\* waitServer: Shutdown closes the listener, and, with requests in flight, looks
\* at its context, which is done already. Canceled is not reported.
Shutdown ==
  /\ process \in {"serving", "deaf"} /\ Done
  /\ process' = "closed"
  /\ failed' = (ctx = "expired" /\ \E r \in Requests : Active(r))
  /\ UNCHANGED <<pool, ctx, status>>

\* Serve returns to main, and main ends the process, with requests in flight.
Exit ==
  /\ process = "closed"
  /\ process' = "exited"
  /\ status' = IF failed THEN "1" ELSE "0"
  /\ Die
  /\ UNCHANGED <<ctx, failed>>

Run == process \in {"serving", "deaf", "closed"} /\ UNCHANGED life

\* Nothing ends the context of Start: without a listener the process hangs.
Hangs == process = "deaf" /\ ctx = "background"

\* Without a listener, the connections that browsers keep open still bring
\* requests, until Shutdown.
Serves == process \in {"serving", "deaf"} /\ UNCHANGED life

Next ==
  \/ \E r \in Requests :
       \/ Serves /\ Accept(r)
       \/ Run /\ (Step(r) \/ Leave(r) \/ CloseRows(r))
  \/ Run /\ WaitTimeout
  \/ OpenDB \/ Listen \/ ListenerFails \/ ContextEnds \/ Shutdown \/ Exit
  \/ (process = "exited" \/ Hangs) /\ UNCHANGED vars

\* The scheduler of Go runs every goroutine, MySQL answers every statement.
\* Nothing makes a listener fail, a browser leave or a context end.
Fairness ==
  /\ \A r \in Requests : WF_vars(Run /\ Step(r)) /\ WF_vars(Run /\ CloseRows(r))
  /\ WF_vars(OpenDB) /\ WF_vars(Listen) /\ WF_vars(Shutdown) /\ WF_vars(Exit)

Spec == Init /\ [][Next]_vars /\ Fairness

---------------------------------------------------------------------------
(* Properties *)

\* No request is cut unless the context of the server has ended: not by a
\* listener that fails (server.go:148), and never under Start (server.go:47).
CutOnlyWhenDone ==
  [][\A r \in Requests : answer[r] # "cut" /\ answer'[r] = "cut" => Done]_vars

\* Once its context is done, the server stops, from whatever it was doing, even
\* after its listener failed (server.go:131-153).
Stops == Done ~> process = "exited"
=============================================================================
