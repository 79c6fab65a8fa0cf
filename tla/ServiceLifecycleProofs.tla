------------------------ MODULE ServiceLifecycleProofs ------------------------
(***************************************************************************)
(* Proofs about ServiceLifecycle: the stop of a process is orderly, for    *)
(* any set of runners and requests.                                        *)
(***************************************************************************)
EXTENDS ServiceLifecycle, TLAPS

-----------------------------------------------------------------------------
(* The inductive invariant.                                                *)

Phases == {"start", "select", "begin", "shutdown", "drain", "waitServer", "waitRunners",
           "close", "flush", "exited"}

LifeTypeOK ==
  /\ phase \in Phases
  /\ runners \subseteq Runners
  /\ signalled \in BOOLEAN /\ stopping \in BOOLEAN /\ open \in BOOLEAN /\ deadline \in BOOLEAN
  /\ server \in {"none", "serving", "closed", "failed"}
  /\ runner \in [runners -> {"none", "nil", "error"} \cup Working]
  /\ attempt \in [runners -> {"none", "held", "late", "unheard"}]
  /\ received \subseteq runners \cup {"server"}
  /\ request \in [Requests -> {"none", "lost"} \cup Active]
  /\ result \in {"nil", "startup", "server", "runner", "stopped", "timeout"}

\* Where a phase of Serve is over.
Stopped == {"close", "flush", "exited"}

\* What the listener, the flag of the probes and the phase say together.
InOrder ==
  /\ phase = "start" => server = "none" /\ received = {}
  /\ phase \in {"start", "select", "begin"} => ~stopping
  /\ phase \in {"shutdown", "drain", "waitServer", "waitRunners"} => stopping
  /\ phase \in {"drain", "waitServer", "waitRunners"} \cup Stopped => ~open
  /\ open => server = "serving"
  /\ server # "none" /\ ~open /\ server # "failed" => stopping

\* A goroutine whose result Serve has received is over; a runner ends without
\* an error only when it is told to, and never breaks off an attempt then.
Ended ==
  /\ "server" \in received => server \in {"closed", "failed"}
  /\ \A r \in runners :
       /\ r \in received => runner[r] \in {"nil", "error"}
       /\ runner[r] = "nil" => Cancelled /\ attempt[r] # "held"

\* As long as Serve has no error to return, all that is over went well.
NoError ==
  result = "nil" =>
    /\ phase \notin {"start", "select"} => signalled
    /\ "server" \in received => server = "closed"
    /\ \A r \in runners \cap received : runner[r] = "nil"
    /\ \A q \in Requests : request[q] \notin {"cut", "lost"}
    /\ phase \in {"waitServer", "waitRunners"} \cup Stopped => Drained
    /\ phase \in {"waitRunners"} \cup Stopped => server = "closed"
    /\ phase \in Stopped => runners \subseteq received

\* An error has a cause.
ErrorHasCause ==
  /\ phase \in {"start", "select"} => result = "nil"
  /\ result \notin {"nil", "startup"} =>
       \/ server = "failed" \/ deadline
       \/ \E r \in runners : runner[r] = "error"

LifeInductive == LifeTypeOK /\ InOrder /\ Ended /\ NoError /\ ErrorHasCause

USE DEF Working, Active, Stopped, Phases, Cancelled, Drained

LEMMA InitOK == LifeInit => LifeInductive
  BY DEF LifeInit, LifeInductive, LifeTypeOK, InOrder, Ended, NoError, ErrorHasCause

LEMMA StartOK == LifeInductive /\ Start => LifeInductive'
<1> SUFFICES ASSUME LifeInductive, Start PROVE LifeInductive'
  OBVIOUS
<1> USE DEF Start, LifeTypeOK
<1>1. LifeTypeOK'
  BY DEF LifeInductive
<1>2. InOrder'
  BY DEF LifeInductive, InOrder
<1>3. Ended'
  BY DEF LifeInductive, InOrder, Ended
<1>4. NoError'
  BY DEF LifeInductive, InOrder, Ended, NoError, ErrorHasCause
<1>5. ErrorHasCause'
  BY DEF LifeInductive, InOrder, Ended, ErrorHasCause
<1> QED
  BY <1>1, <1>2, <1>3, <1>4, <1>5 DEF LifeInductive

LEMMA ClosePoolOK == LifeInductive /\ ClosePool => LifeInductive'
<1> SUFFICES ASSUME LifeInductive, ClosePool PROVE LifeInductive'
  OBVIOUS
<1> USE DEF ClosePool, LifeTypeOK
<1>1. LifeTypeOK'
  BY DEF LifeInductive
<1>2. InOrder'
  BY DEF LifeInductive, InOrder
<1>3. Ended'
  BY DEF LifeInductive, InOrder, Ended
<1>4. NoError'
  BY DEF LifeInductive, InOrder, Ended, NoError, ErrorHasCause
<1>5. ErrorHasCause'
  BY DEF LifeInductive, InOrder, Ended, ErrorHasCause
<1> QED
  BY <1>1, <1>2, <1>3, <1>4, <1>5 DEF LifeInductive

LEMMA FlushOK == LifeInductive /\ Flush => LifeInductive'
<1> SUFFICES ASSUME LifeInductive, Flush PROVE LifeInductive'
  OBVIOUS
<1> USE DEF Flush, LifeTypeOK
<1>1. LifeTypeOK'
  BY DEF LifeInductive
<1>2. InOrder'
  BY DEF LifeInductive, InOrder
<1>3. Ended'
  BY DEF LifeInductive, InOrder, Ended
<1>4. NoError'
  BY DEF LifeInductive, InOrder, Ended, NoError, ErrorHasCause
<1>5. ErrorHasCause'
  BY DEF LifeInductive, InOrder, Ended, ErrorHasCause
<1> QED
  BY <1>1, <1>2, <1>3, <1>4, <1>5 DEF LifeInductive

LEMMA SelectOK == LifeInductive /\ Select => LifeInductive'
<1> SUFFICES ASSUME LifeInductive, Select PROVE LifeInductive'
  OBVIOUS
<1> USE DEF Select, LifeTypeOK
<1>1. LifeTypeOK'
  BY RunnersAssumption DEF LifeInductive
<1>2. InOrder'
  BY DEF LifeInductive, InOrder
<1>3. Ended'
  BY RunnersAssumption DEF LifeInductive, InOrder, Ended
<1>4. NoError'
  BY RunnersAssumption DEF LifeInductive, InOrder, Ended, NoError, ErrorHasCause
<1>5. ErrorHasCause'
  BY DEF LifeInductive, InOrder, Ended, ErrorHasCause
<1> QED
  BY <1>1, <1>2, <1>3, <1>4, <1>5 DEF LifeInductive

LEMMA BeginShutdownOK == LifeInductive /\ BeginShutdown => LifeInductive'
<1> SUFFICES ASSUME LifeInductive, BeginShutdown PROVE LifeInductive'
  OBVIOUS
<1> USE DEF BeginShutdown, LifeTypeOK
<1>1. LifeTypeOK'
  BY DEF LifeInductive
<1>2. InOrder'
  BY DEF LifeInductive, InOrder
<1>3. Ended'
  BY DEF LifeInductive, InOrder, Ended
<1>4. NoError'
  BY DEF LifeInductive, InOrder, Ended, NoError, ErrorHasCause
<1>5. ErrorHasCause'
  BY DEF LifeInductive, InOrder, Ended, ErrorHasCause
<1> QED
  BY <1>1, <1>2, <1>3, <1>4, <1>5 DEF LifeInductive

LEMMA ShutdownOK == LifeInductive /\ Shutdown => LifeInductive'
<1> SUFFICES ASSUME LifeInductive, Shutdown PROVE LifeInductive'
  OBVIOUS
<1> USE DEF Shutdown, LifeTypeOK
<1>1. LifeTypeOK'
  BY DEF LifeInductive
<1>2. InOrder'
  BY DEF LifeInductive, InOrder
<1>3. Ended'
  BY DEF LifeInductive, InOrder, Ended
<1>4. NoError'
  BY DEF LifeInductive, InOrder, Ended, NoError, ErrorHasCause
<1>5. ErrorHasCause'
  BY DEF LifeInductive, InOrder, Ended, ErrorHasCause
<1> QED
  BY <1>1, <1>2, <1>3, <1>4, <1>5 DEF LifeInductive

LEMMA DrainOK == LifeInductive /\ Drain => LifeInductive'
<1> SUFFICES ASSUME LifeInductive, Drain PROVE LifeInductive'
  OBVIOUS
<1> USE DEF Drain, Close, Keep, LifeTypeOK
<1>1. LifeTypeOK'
  BY DEF LifeInductive
<1>2. InOrder'
  BY DEF LifeInductive, InOrder
<1>3. Ended'
  BY DEF LifeInductive, InOrder, Ended
<1>4. NoError'
  BY DEF LifeInductive, InOrder, Ended, NoError, ErrorHasCause
<1>5. ErrorHasCause'
  BY DEF LifeInductive, InOrder, Ended, ErrorHasCause
<1> QED
  BY <1>1, <1>2, <1>3, <1>4, <1>5 DEF LifeInductive

LEMMA WaitServerOK == LifeInductive /\ WaitServer => LifeInductive'
<1> SUFFICES ASSUME LifeInductive, WaitServer PROVE LifeInductive'
  OBVIOUS
<1> USE DEF WaitServer, Close, Keep, LifeTypeOK
<1>1. LifeTypeOK'
  BY RunnersAssumption DEF LifeInductive
<1>2. InOrder'
  BY DEF LifeInductive, InOrder
<1>3. Ended'
  BY RunnersAssumption DEF LifeInductive, InOrder, Ended
<1>4. NoError'
  BY RunnersAssumption DEF LifeInductive, InOrder, Ended, NoError, ErrorHasCause
<1>5. ErrorHasCause'
  BY DEF LifeInductive, InOrder, Ended, ErrorHasCause
<1> QED
  BY <1>1, <1>2, <1>3, <1>4, <1>5 DEF LifeInductive

LEMMA WaitRunnersOK == LifeInductive /\ WaitRunners => LifeInductive'
<1> SUFFICES ASSUME LifeInductive, WaitRunners PROVE LifeInductive'
  OBVIOUS
<1> USE DEF WaitRunners, Keep, LifeTypeOK
<1>1. LifeTypeOK'
  BY RunnersAssumption DEF LifeInductive
<1>2. InOrder'
  BY DEF LifeInductive, InOrder
<1>3. Ended'
  BY RunnersAssumption DEF LifeInductive, InOrder, Ended
<1>4. NoError'
  BY RunnersAssumption DEF LifeInductive, InOrder, Ended, NoError, ErrorHasCause
<1>5. ErrorHasCause'
  BY DEF LifeInductive, InOrder, Ended, ErrorHasCause
<1> QED
  BY <1>1, <1>2, <1>3, <1>4, <1>5 DEF LifeInductive

LEMMA SignalOK == LifeInductive /\ Signal => LifeInductive'
<1> SUFFICES ASSUME LifeInductive, Signal PROVE LifeInductive'
  OBVIOUS
<1> USE DEF Signal, Alive, LifeTypeOK
<1>1. LifeTypeOK'
  BY DEF LifeInductive
<1>2. InOrder'
  BY DEF LifeInductive, InOrder
<1>3. Ended'
  BY DEF LifeInductive, InOrder, Ended
<1>4. NoError'
  BY DEF LifeInductive, InOrder, Ended, NoError, ErrorHasCause
<1>5. ErrorHasCause'
  BY DEF LifeInductive, InOrder, Ended, ErrorHasCause
<1> QED
  BY <1>1, <1>2, <1>3, <1>4, <1>5 DEF LifeInductive

LEMMA ExpireOK == LifeInductive /\ Expire => LifeInductive'
<1> SUFFICES ASSUME LifeInductive, Expire PROVE LifeInductive'
  OBVIOUS
<1> USE DEF Expire, LifeTypeOK
<1>1. LifeTypeOK'
  BY DEF LifeInductive
<1>2. InOrder'
  BY DEF LifeInductive, InOrder
<1>3. Ended'
  BY DEF LifeInductive, InOrder, Ended
<1>4. NoError'
  BY DEF LifeInductive, InOrder, Ended, NoError, ErrorHasCause
<1>5. ErrorHasCause'
  BY DEF LifeInductive, InOrder, Ended, ErrorHasCause
<1> QED
  BY <1>1, <1>2, <1>3, <1>4, <1>5 DEF LifeInductive

LEMMA ServerReturnsOK == LifeInductive /\ ServerReturns => LifeInductive'
<1> SUFFICES ASSUME LifeInductive, ServerReturns PROVE LifeInductive'
  OBVIOUS
<1> USE DEF ServerReturns, Alive, LifeTypeOK
<1>1. LifeTypeOK'
  BY DEF LifeInductive
<1>2. InOrder'
  BY DEF LifeInductive, InOrder
<1>3. Ended'
  BY DEF LifeInductive, InOrder, Ended
<1>4. NoError'
  BY DEF LifeInductive, InOrder, Ended, NoError, ErrorHasCause
<1>5. ErrorHasCause'
  BY DEF LifeInductive, InOrder, Ended, ErrorHasCause
<1> QED
  BY <1>1, <1>2, <1>3, <1>4, <1>5 DEF LifeInductive
LEMMA RunnerOK ==
  ASSUME LifeInductive, NEW r \in runners, RunnerStep(r) PROVE LifeInductive'
<1>1. /\ UNCHANGED <<phase, runners, signalled, stopping, open, server, received, request, deadline, result>>
      /\ runner \in [runners -> {"none", "nil", "error"} \cup Working]
      /\ attempt \in [runners -> {"none", "held", "late", "unheard"}]
      /\ runner[r] \in Working
  BY DEF LifeInductive, LifeTypeOK, RunnerStep
<1>2. PICK pc \in {"nil", "error"} \cup Working, left \in {"none", "held", "late", "unheard"} :
        /\ runner' = [runner EXCEPT ![r] = pc]
        /\ attempt' = [attempt EXCEPT ![r] = left]
        /\ pc = "nil" => Cancelled /\ left # "held"
  <2> DEFINE Goal == \E pc \in {"nil", "error"} \cup Working, left \in {"none", "held", "late", "unheard"} :
                        /\ runner' = [runner EXCEPT ![r] = pc]
                        /\ attempt' = [attempt EXCEPT ![r] = left]
                        /\ pc = "nil" => Cancelled /\ left # "held"
  <2>1. ASSUME NEW step, runner' = [runner EXCEPT ![r] = step[1]],
               attempt' = [attempt EXCEPT ![r] = step[2]],
               step[1] \in {"nil", "error"} \cup Working,
               step[2] \in {"none", "held", "late", "unheard"},
               step[1] = "nil" => Cancelled /\ step[2] # "held"
        PROVE  Goal
    BY <2>1
  <2>2. CASE runner[r] = "claiming"
    BY <2>1, <2>2 DEF RunnerStep
  <2>3. CASE runner[r] = "waiting"
    BY <2>1, <2>3 DEF RunnerStep
  <2>4. CASE runner[r] = "calling"
    BY <2>1, <2>4 DEF RunnerStep
  <2>5. CASE runner[r] = "storing"
    BY <2>1, <2>5 DEF RunnerStep
  <2> QED
    BY <1>1, <2>2, <2>3, <2>4, <2>5
<1>3. LifeTypeOK' /\ InOrder'
  BY <1>1, <1>2 DEF LifeInductive, LifeTypeOK, InOrder
<1>4. Ended'
  BY <1>1, <1>2 DEF LifeInductive, LifeTypeOK, Ended
<1>5. NoError'
  BY <1>1, <1>2 DEF LifeInductive, LifeTypeOK, Ended, NoError
<1>6. ErrorHasCause'
  BY <1>1, <1>2 DEF LifeInductive, LifeTypeOK, ErrorHasCause
<1> QED
  BY <1>3, <1>4, <1>5, <1>6 DEF LifeInductive

\* A request is served, or lost once it was cut.
LEMMA RequestOK ==
  ASSUME LifeInductive, NEW q \in Requests, Accept(q) \/ Finish(q) \/ ready(q) \/ Check(q)
  PROVE  LifeInductive'
<1>1. PICK state \in {"none", "lost", "accepted", "checking"} :
        /\ SetRequest(q, state)
        /\ state = "lost" => request[q] = "cut"
        /\ state \in {"accepted", "checking"} => open \/ request[q] \in Active
  BY DEF Accept, Finish, ready, Check
<1>2. /\ UNCHANGED <<phase, runners, signalled, stopping, open, server, runner, attempt, received,
                      deadline, result>>
      /\ request' = [request EXCEPT ![q] = state]
  BY <1>1 DEF SetRequest
<1>3. LifeTypeOK' /\ InOrder' /\ Ended' /\ ErrorHasCause'
  BY <1>2 DEF LifeInductive, LifeTypeOK, InOrder, Ended, ErrorHasCause
<1>4. NoError'
  BY <1>1, <1>2 DEF LifeInductive, LifeTypeOK, InOrder, NoError
<1> QED
  BY <1>3, <1>4 DEF LifeInductive

LEMMA LifeStep == LifeInductive /\ [LifeNext]_lifeVars => LifeInductive'
<1> SUFFICES ASSUME LifeInductive, [LifeNext]_lifeVars PROVE LifeInductive'
  OBVIOUS
<1>1. CASE UNCHANGED lifeVars
  BY <1>1 DEF lifeVars, LifeInductive, LifeTypeOK, InOrder, Ended, NoError, ErrorHasCause
<1>2. CASE LifeNext
  BY <1>2, StartOK, ClosePoolOK, FlushOK, SelectOK, BeginShutdownOK, ShutdownOK, DrainOK,
     WaitServerOK, WaitRunnersOK, SignalOK, ExpireOK, ServerReturnsOK, RunnerOK, RequestOK
  DEF LifeNext, Serve
<1> QED
  BY <1>1, <1>2

-----------------------------------------------------------------------------
(* The theorems.                                                           *)

\* The inductive invariant: what is over has reported no error as long as Serve
\* has none to return, and an error has a cause.
THEOREM LifeInductiveHolds == LifeSpec => []LifeInductive
<1> QED
  BY InitOK, LifeStep, PTL DEF LifeSpec

\* Serve and run stop in order, report no error only when every request was served,
\* the server was closed and every runner returned nil without breaking off an
\* attempt (one without a receipt has outlived its own deadline or its claim was
\* never heard of), and an error only for a reason, for any number of runners and
\* requests and wherever the signal and the deadline fall.
THEOREM OrderlyStop == LifeSpec => []StopIsOrderly
<1>1. LifeInductive => StopIsOrderly
  <2> SUFFICES ASSUME LifeInductive PROVE StopIsOrderly
    OBVIOUS
  <2>1. server # "none" /\ ~open /\ server # "failed" => stopping
    BY DEF LifeInductive, InOrder
  <2>2. ASSUME phase = "exited", result = "nil"
        PROVE  /\ signalled
               /\ server = "closed"
               /\ \A r \in runners : runner[r] = "nil" /\ attempt[r] # "held"
               /\ \A q \in Requests : request[q] = "none"
    BY <2>2 DEF LifeInductive, LifeTypeOK, Ended, NoError
  <2>3. result \notin {"nil", "startup"} =>
          \/ server = "failed" \/ deadline
          \/ \E r \in runners : runner[r] = "error"
    BY DEF LifeInductive, ErrorHasCause
  <2> QED
    BY <2>1, <2>2, <2>3 DEF StopIsOrderly
<1> QED
  BY <1>1, LifeInductiveHolds, PTL
=============================================================================
