--------------------------- MODULE ServiceLifecycle ---------------------------
(***************************************************************************)
(* The life of an api or worker process: service.run starts it and         *)
(* lifecycle.Serve runs the HTTP server and the background runner until a  *)
(* signal comes or one of them ends, then stops both under one deadline.   *)
(* Goroutines, requests, the signal and the deadline interleave; what the  *)
(* HTTP server and the connection pool do is external.                     *)
(***************************************************************************)
EXTENDS Naturals

CONSTANTS
  Runners,   \* background runners: the worker has one, the api none
  Requests   \* requests in progress

\* The server's goroutine is none of them.
ASSUME RunnersAssumption == "server" \notin Runners

VARIABLES
  phase,      \* where run and Serve are
  runners,    \* the runners that this process has
  signalled,  \* ctx is cancelled
  stopping,   \* State.stopping
  open,       \* the listener accepts connections
  server,     \* the goroutine that runs server.Serve
  runner,     \* the goroutines that run the runners
  attempt,    \* history: what has become of the last attempt of each
  received,   \* the goroutines whose result Serve has received
  request,    \* the requests
  deadline,   \* shutdownContext has expired
  result      \* the error that Serve will return

lifeVars == <<phase, runners, signalled, stopping, open, server, runner, attempt, received,
              request, deadline, result>>

-----------------------------------------------------------------------------
(* State.                                                                  *)

\* The runCtx of the runners: cancelRun is called together with beginShutdown.
Cancelled == signalled \/ stopping

\* claiming and storing use a connection of the pool, calling the mail core does not.
Working == {"claiming", "waiting", "calling", "storing"}

\* checking is a probe that waits for its checkers; cut is a request whose
\* connection the server has closed and whose handler still runs.
Active == {"accepted", "checking", "cut"}

LifeInit ==
  /\ phase = "start"
  /\ runners \in SUBSET Runners
  /\ signalled = FALSE /\ stopping = FALSE /\ open = FALSE /\ deadline = FALSE
  /\ server = "none"
  /\ runner = [r \in runners |-> "none"]
  /\ attempt = [r \in runners |-> "none"]
  /\ received = {}
  /\ request = [q \in Requests |-> "none"]
  /\ result = "nil"

Alive == phase # "exited"

\* The first error is kept.
Keep(error) == IF result = "nil" THEN error ELSE result

-----------------------------------------------------------------------------
(* run: start and end of the process.                                      *)

\* Configuration and telemetry come first, then the pool; what is built after it
\* is closed again when a later part fails.
Start ==
  /\ phase = "start"
  /\ \/ /\ phase' = "select"
        /\ open' = TRUE /\ server' = "serving"
        /\ runner' = [r \in runners |-> "claiming"]
        /\ UNCHANGED <<attempt, result>>
     \/ /\ phase' \in {"exited", "flush", "close"}
        /\ result' = "startup"
        /\ UNCHANGED <<open, server, runner, attempt>>
  /\ UNCHANGED <<runners, signalled, stopping, received, request, deadline>>

\* pool.Close waits until every connection has come back.
ClosePool ==
  /\ phase = "close"
  /\ \A r \in runners : runner[r] \notin {"claiming", "storing"}
  /\ \A q \in Requests : request[q] \notin Active
  /\ phase' = "flush"
  /\ UNCHANGED <<runners, signalled, stopping, open, server, runner, attempt, received, request,
                 deadline, result>>

\* Telemetry is shut down under a deadline of its own; the process ends.
Flush ==
  /\ phase = "flush"
  /\ phase' = "exited"
  /\ UNCHANGED <<runners, signalled, stopping, open, server, runner, attempt, received, request,
                 deadline, result>>

-----------------------------------------------------------------------------
(* Serve.                                                                  *)

\* The select: the server or a runner has ended, or the signal has come.  A runner
\* that ends without being told to is an error even if it reports none.
Select ==
  /\ phase = "select"
  /\ \/ /\ server \in {"closed", "failed"}
        /\ received' = received \cup {"server"}
        /\ result' = IF server = "closed" THEN "nil" ELSE "server"
     \/ \E r \in runners :
          /\ runner[r] \in {"nil", "error"}
          /\ received' = received \cup {r}
          /\ result' = CASE runner[r] = "error" -> "runner"
                         [] runner[r] = "nil" /\ ~Cancelled -> "stopped"
                         [] OTHER -> "nil"
     \/ signalled /\ UNCHANGED <<received, result>>
  /\ phase' = "begin"
  /\ UNCHANGED <<runners, signalled, stopping, open, server, runner, attempt, request, deadline>>

\* beginShutdown and cancelRun.
BeginShutdown ==
  /\ phase = "begin"
  /\ stopping' = TRUE
  /\ phase' = "shutdown"
  /\ UNCHANGED <<runners, signalled, open, server, runner, attempt, received, request, deadline, result>>

\* server.Shutdown closes the listener first.
Shutdown ==
  /\ phase = "shutdown"
  /\ open' = FALSE
  /\ phase' = "drain"
  /\ UNCHANGED <<runners, signalled, stopping, server, runner, attempt, received, request, deadline, result>>

\* server.Close: requests lose their connection, their handlers go on for a while.
Close == request' = [q \in Requests |-> IF request[q] \in Active THEN "cut" ELSE request[q]]

Drained == \A q \in Requests : request[q] \notin Active

DrainWithoutDeadline ==
  /\ phase = "drain"
  /\ Drained
  /\ phase' = "waitServer"
  /\ UNCHANGED <<runners, signalled, stopping, open, server, runner, attempt, received, request, deadline, result>>

\* server.Shutdown returns when no request is left, or with the deadline.
Drain ==
  /\ phase = "drain"
  /\ \/ Drained /\ UNCHANGED <<request, result>>
     \/ deadline /\ Close /\ result' = Keep("timeout")
  /\ phase' = "waitServer"
  /\ UNCHANGED <<runners, signalled, stopping, open, server, runner, attempt, received, deadline>>

WaitServer ==
  /\ phase = "waitServer"
  /\ \/ /\ "server" \in received
        /\ UNCHANGED <<received, request, result>>
     \/ /\ "server" \notin received /\ server \in {"closed", "failed"}
        /\ received' = received \cup {"server"}
        /\ result' = IF server = "failed" THEN Keep("server") ELSE result
        /\ UNCHANGED request
     \/ /\ "server" \notin received /\ deadline
        /\ Close
        /\ result' = Keep("timeout")
        /\ UNCHANGED received
  /\ phase' = "waitRunners"
  /\ UNCHANGED <<runners, signalled, stopping, open, server, runner, attempt, deadline>>

WaitRunnersCareless ==
  /\ phase = "waitRunners"
  /\ \/ \E r \in runners \ received :
          /\ runner[r] \in {"nil", "error"}
          /\ received' = received \cup {r}
          /\ UNCHANGED <<phase, result>>
     \/ /\ runners \subseteq received \/ deadline
        /\ phase' = "close"
        /\ UNCHANGED <<received, result>>
  /\ UNCHANGED <<runners, signalled, stopping, open, server, runner, attempt, request, deadline>>

\* The runners that are left are waited for one by one, under the same deadline.
WaitRunners ==
  /\ phase = "waitRunners"
  /\ \/ \E r \in runners \ received :
          /\ runner[r] \in {"nil", "error"}
          /\ received' = received \cup {r}
          /\ result' = IF runner[r] = "error" THEN Keep("runner") ELSE result
          /\ UNCHANGED phase
     \/ /\ ~(runners \subseteq received) /\ deadline
        /\ result' = Keep("timeout")
        /\ phase' = "close"
        /\ UNCHANGED received
     \/ /\ runners \subseteq received
        /\ phase' = "close"
        /\ UNCHANGED <<received, result>>
  /\ UNCHANGED <<runners, signalled, stopping, open, server, runner, attempt, request, deadline>>

Serve == Select \/ BeginShutdown \/ Shutdown \/ Drain \/ WaitServer \/ WaitRunners

-----------------------------------------------------------------------------
(* Everything else that runs.                                              *)

Signal ==
  /\ Alive /\ ~signalled
  /\ signalled' = TRUE
  /\ UNCHANGED <<phase, runners, stopping, open, server, runner, attempt, received, request, deadline, result>>

\* The time that run has configured for the shutdown is over.
Expire ==
  /\ phase \in {"drain", "waitServer", "waitRunners"} /\ ~deadline
  /\ deadline' = TRUE
  /\ UNCHANGED <<phase, runners, signalled, stopping, open, server, runner, attempt, received, request, result>>

\* server.Serve returns: its listener was closed, or fails.
ServerReturns ==
  /\ Alive /\ server = "serving"
  /\ server' = IF open THEN "failed" ELSE "closed"
  /\ open' = FALSE
  /\ UNCHANGED <<phase, runners, signalled, stopping, runner, attempt, received, request, deadline, result>>

\* A round of Runner.Run: it claims an operation, carries it out and stores what
\* came of it.  A cancelled wait ends the loop, an attempt is finished first.  A
\* claim that fails may have been committed (unheard); whether a receipt fails
\* because the attempt's own deadline has passed (late) decides if Run, told to
\* stop, returns nil or the error.  A receipt that is refused with ErrLeaseLost
\* settles the attempt as well.  Run never returns context.Canceled, the error that
\* Serve would ignore.
RunnerStep(r) ==
  LET orNil(pc) == IF Cancelled THEN "nil" ELSE pc
      next == CASE runner[r] = "claiming" ->
                     {<<"waiting", "none">>, <<"calling", "held">>,
                      <<orNil("error"), "none">>, <<orNil("error"), "unheard">>}
                [] runner[r] = "waiting" -> {<<orNil("claiming"), "none">>}
                [] runner[r] = "calling" -> {<<"storing", "held">>}
                [] runner[r] = "storing" ->
                     {<<orNil("claiming"), "none">>, <<orNil("error"), "late">>,
                      <<"error", "held">>}
                [] OTHER -> {}
  IN /\ Alive
     /\ runner[r] \in Working
     /\ \E step \in next :
          /\ runner' = [runner EXCEPT ![r] = step[1]]
          /\ attempt' = [attempt EXCEPT ![r] = step[2]]
     /\ UNCHANGED <<phase, runners, signalled, stopping, open, server, received, request,
                    deadline, result>>

SetRequest(q, state) ==
  /\ request' = [request EXCEPT ![q] = state]
  /\ UNCHANGED <<phase, runners, signalled, stopping, open, server, runner, attempt, received, deadline,
                 result>>

Accept(q) ==
  /\ Alive /\ open /\ server = "serving"
  /\ request[q] = "none"
  /\ SetRequest(q, "accepted")

\* A request of the API, or the handler of a cut one, comes to its end; the
\* former may also never.
Finish(q) ==
  /\ Alive
  /\ \/ request[q] = "accepted" /\ SetRequest(q, "none")
     \/ request[q] = "cut" /\ SetRequest(q, "lost")

\* The readiness probe answers at once when the process stops; otherwise it asks
\* database and mail core, under a deadline.
ready(q) ==
  /\ Alive
  /\ request[q] = "accepted"
  /\ SetRequest(q, IF stopping THEN "none" ELSE "checking")

Check(q) ==
  /\ Alive
  /\ request[q] = "checking"
  /\ SetRequest(q, "none")

LifeNext ==
  \/ Start \/ Serve \/ ClosePool \/ Flush
  \/ Signal \/ Expire \/ ServerReturns
  \/ \E r \in runners : RunnerStep(r)
  \/ \E q \in Requests : Accept(q) \/ Finish(q) \/ ready(q) \/ Check(q)

\* The process is scheduled and its deadline comes; Serve of a closed listener
\* returns; a runner comes to the end of what it does, as every attempt has a
\* deadline; and a handler notices that its connection is gone.
LifeSpec ==
  /\ LifeInit /\ [][LifeNext]_lifeVars
  /\ WF_lifeVars(Start \/ Serve \/ ClosePool \/ Flush)
  /\ WF_lifeVars(Expire)
  /\ WF_lifeVars(~open /\ ServerReturns)
  /\ \A r \in Runners : WF_lifeVars(r \in runners /\ RunnerStep(r))
  /\ \A q \in Requests : WF_lifeVars(request[q] = "cut" /\ Finish(q))

-----------------------------------------------------------------------------
(* Properties.                                                             *)

\* A stop is orderly and its result is true.  The listener is not closed before
\* readiness is withdrawn, unless the server itself has failed.  A process that
\* ends without an error was told to, has served every request it had accepted,
\* and has broken off no attempt: one that it leaves without a receipt has
\* outlived its own deadline, or was claimed by a statement whose answer never
\* arrived.  One that ends with an error had a reason: its start, its server or a
\* runner has failed, or the deadline has passed.
StopIsOrderly ==
  /\ server # "none" /\ ~open /\ server # "failed" => stopping
  /\ phase = "exited" /\ result = "nil" =>
       /\ signalled
       /\ server = "closed"
       /\ \A r \in runners : runner[r] = "nil" /\ attempt[r] # "held"
       /\ \A q \in Requests : request[q] = "none"
  /\ phase = "exited" /\ result \notin {"nil", "startup"} =>
       \/ server = "failed" \/ deadline
       \/ \E r \in runners : runner[r] = "error"

\* Whatever requests do and however long an attempt takes: once the process is
\* told to stop, or its server or a runner has ended, it exits.
ProcessExits ==
  signalled \/ server = "failed" \/ (\E r \in runners : runner[r] \in {"nil", "error"})
    ~> phase = "exited"
=============================================================================
