------------------------ MODULE StalwartAdapterProofs ------------------------
(***************************************************************************)
(* Theorems about StalwartAdapter, for any number of workers, mailboxes,   *)
(* hashes, revisions and calls whose requests are still on their way.      *)
(***************************************************************************)
EXTENDS StalwartAdapter, TLAPS

\* A request of the call that the worker is in.
Sent(q, w) == q.by = w /\ q.number = calls[w].number

NothingSent(w) == \A q \in requests : ~Sent(q, w)

VersionOf(record) == [revision |-> record.revision, hash |-> record.hash]

\* What is so of a call between its requests: before an answer nothing was
\* carried out, and after one nothing is on its way.
CallOK(w) ==
  LET call == calls[w] IN
    /\ call.pc = "idle" => call = NoCall
    /\ call.pc # "idle" => call.number # 0 /\ call.command # None
    /\ call.pc = "done" <=> call.result # "none"
    /\ call.effect => call.answer = "applied"
    /\ call.pc = "lookup" => call.answer # "applied"
    /\ call.pc = "lookup" \/ call.answer # "none" => NothingSent(w)
    /\ call.pc = "waiting" => \A q \in requests :
         Sent(q, w) => q.command = call.command /\ q.method = call.method
    /\ call.pc = "waiting" /\ call.answer = "applied" =>
         VersionOf(call.command) \in stored[call.command.mailbox]

CallsOK == \A w \in Owners : CallOK(w)

\* What an account of ours says of itself was stored at its address.
AccountsWereStored ==
  \A m \in Mailboxes :
    accounts[m].owner = "control_plane" => VersionOf(accounts[m]) \in stored[m]

\* An update is only ever on its way to an account of ours.
UpdatesAreOurs ==
  \A q \in requests : q.method = "update" => accounts[q.command.mailbox].owner = "control_plane"

AdapterInductive ==
  /\ AdapterTypeOK
  /\ CallsOK
  /\ AccountsWereStored
  /\ UpdatesAreOurs
  /\ RetryableMeansNoEffect
  /\ OkMeansReached

-----------------------------------------------------------------------------
(* Parts of the invariant, one worker at a time.                           *)

PromiseKept(w) ==
  calls[w].result = "retryable" => ~calls[w].effect /\ NothingSent(w)

Reached(w) ==
  calls[w].result = "ok" =>
    \E v \in stored[calls[w].command.mailbox] :
      \/ v.revision > calls[w].command.revision
      \/ v = VersionOf(calls[w].command)

WorkerOK(w) == CallOK(w) /\ PromiseKept(w) /\ Reached(w)

LEMMA InductiveByWorker ==
  AdapterInductive <=> /\ AdapterTypeOK /\ AccountsWereStored /\ UpdatesAreOurs
                       /\ \A w \in Owners : WorkerOK(w)
  BY DEF AdapterInductive, CallsOK, RetryableMeansNoEffect, OkMeansReached, WorkerOK,
     PromiseKept, Reached, NothingSent, Sent, VersionOf

LEMMA InductiveByWorkerNext ==
  AdapterInductive' <=> /\ AdapterTypeOK' /\ AccountsWereStored' /\ UpdatesAreOurs'
                        /\ \A w \in Owners : WorkerOK(w)'
  BY DEF AdapterInductive, CallsOK, RetryableMeansNoEffect, OkMeansReached, WorkerOK,
     PromiseKept, Reached, NothingSent, Sent, VersionOf

\* Only this worker's call and requests move, and what was stored stays so.
Moves(w) ==
  /\ \A v \in Owners \ {w} : calls'[v] = calls[v]
  /\ \A q \in requests' : q \in requests \/ q.by = w
  /\ \A m \in Mailboxes : stored[m] \subseteq stored'[m]

LEMMA OthersKept ==
  ASSUME AdapterInductive, NEW w \in Owners, NEW v \in Owners, v # w, Moves(w)
  PROVE  WorkerOK(v)'
<1>1. AdapterTypeOK /\ WorkerOK(v) /\ calls[v] \in Call
  BY InductiveByWorker DEF AdapterTypeOK
<1>2. calls'[v] = calls[v]
  BY DEF Moves
<1>3. NothingSent(v) => NothingSent(v)'
  BY <1>2 DEF NothingSent, Sent, Moves
<1>4. calls[v].command # None =>
        stored[calls[v].command.mailbox] \subseteq stored'[calls[v].command.mailbox]
  BY <1>1 DEF Moves, Call, Command
<1>5. CallOK(v)'
  <2>1. /\ (calls[v].pc = "idle" => calls[v] = NoCall)
        /\ (calls[v].pc # "idle" => calls[v].number # 0 /\ calls[v].command # None)
    BY <1>1 DEF WorkerOK, CallOK
  <2> QED
    BY <1>1, <1>2, <1>3, <1>4, <2>1 DEF WorkerOK, CallOK, Sent, Moves
<1>6. PromiseKept(v)'
  BY <1>1, <1>2, <1>3 DEF WorkerOK, PromiseKept
<1>7. Reached(v)'
  <2>1. calls[v].result = "ok" => calls[v].command # None
    BY <1>1 DEF WorkerOK, CallOK, NoCall
  <2> QED
    BY <1>1, <1>2, <1>4, <2>1 DEF WorkerOK, Reached
<1> QED
  BY <1>5, <1>6, <1>7 DEF WorkerOK

\* A step of the caller, which leaves accounts alone.
LEMMA CallerStep ==
  ASSUME AdapterInductive, NEW w \in Owners, UNCHANGED <<accounts, stored>>,
         calls' \in [Owners -> Call], requests' \subseteq Request,
         \A v \in Owners \ {w} : calls'[v] = calls[v],
         \A q \in requests' : q \in requests \/ (q.by = w /\ (q.method = "update" =>
             accounts[q.command.mailbox].owner = "control_plane")),
         WorkerOK(w)'
  PROVE  AdapterInductive'
<1>1. Moves(w)
  BY DEF Moves
<1>2. AdapterTypeOK'
  BY DEF AdapterInductive, AdapterTypeOK
<1>3. AccountsWereStored' /\ UpdatesAreOurs'
  BY DEF AdapterInductive, AccountsWereStored, UpdatesAreOurs, VersionOf
<1> QED
  BY <1>1, <1>2, <1>3, OthersKept, InductiveByWorkerNext

\* The call is over: its caller has the result or is gone.
Forget(w) ==
  /\ calls' = [calls EXCEPT ![w] = NoCall]
  /\ UNCHANGED <<accounts, stored, requests>>

LEMMA NoCallIsCall == NoCall \in Call
  BY AdapterAssumption DEF NoCall, Call, ErrorClass

LEMMA ForgetStep ==
  ASSUME AdapterInductive, NEW w \in Owners, Forget(w) PROVE AdapterInductive'
<1>1. calls \in [Owners -> Call] /\ requests \subseteq Request
  BY DEF AdapterInductive, AdapterTypeOK
<1>2. calls'[w] = NoCall /\ (\A v \in Owners \ {w} : calls'[v] = calls[v])
      /\ calls' \in [Owners -> Call]
  BY <1>1, NoCallIsCall DEF Forget
<1>3. WorkerOK(w)'
  BY <1>2 DEF WorkerOK, CallOK, PromiseKept, Reached, NoCall
<1> QED
  BY <1>1, <1>2, <1>3, CallerStep DEF Forget

LEMMA EnsureMailboxStep ==
  ASSUME AdapterInductive, NEW w \in Owners, NEW STATE command, command \in Command,
         EnsureMailbox(w, command)
  PROVE  AdapterInductive'
<1> DEFINE k == CHOOSE k \in FreeNumbers(w) : TRUE
           call == [pc |-> "lookup", number |-> k, command |-> command, method |-> "none",
                    answer |-> "none", result |-> "none", effect |-> FALSE]
<1>1. calls \in [Owners -> Call] /\ requests \subseteq Request
  BY DEF AdapterInductive, AdapterTypeOK
<1>2. k \in 1 .. MaxCalls /\ \A q \in requests : ~(q.by = w /\ q.number = k)
  BY DEF EnsureMailbox, FreeNumbers
<1>3. calls' = [calls EXCEPT ![w] = call]
  BY DEF EnsureMailbox
<1> HIDE DEF k
<1>4. call \in Call /\ command # None
  BY <1>2, NoCommandAssumption DEF Call
<1>5. calls'[w] = call /\ (\A v \in Owners \ {w} : calls'[v] = calls[v])
      /\ calls' \in [Owners -> Call]
  BY <1>1, <1>3, <1>4
<1>6. NothingSent(w)'
  BY <1>2, <1>5 DEF NothingSent, Sent, EnsureMailbox
<1>7. k # 0
  BY <1>2
<1>8. WorkerOK(w)'
  BY <1>4, <1>5, <1>6, <1>7 DEF WorkerOK, CallOK, PromiseKept, Reached
<1> QED
  BY <1>1, <1>5, <1>8, CallerStep DEF EnsureMailbox

LEMMA FinishFacts ==
  ASSUME AdapterTypeOK, NEW w \in Owners, NEW STATE result, result \in {"ok"} \cup ErrorClass,
         Finish(w, result)
  PROVE  /\ calls' \in [Owners -> Call]
         /\ \A v \in Owners \ {w} : calls'[v] = calls[v]
         /\ calls'[w].pc = "done" /\ calls'[w].result = result
         /\ calls'[w].number = calls[w].number /\ calls'[w].command = calls[w].command
         /\ calls'[w].method = calls[w].method /\ calls'[w].answer = calls[w].answer
         /\ calls'[w].effect = calls[w].effect
  BY DEF AdapterTypeOK, Finish, Call

\* A call ends with a result that is true.
LEMMA FinishStep ==
  ASSUME AdapterInductive, NEW w \in Owners, calls[w].pc # "idle",
         NEW STATE result, result \in {"ok"} \cup ErrorClass, Finish(w, result),
         UNCHANGED <<accounts, stored>>, requests' \subseteq requests,
         result = "retryable" => ~calls[w].effect /\ \A q \in requests' : ~Sent(q, w),
         result = "ok" => \E v \in stored[calls[w].command.mailbox] :
                            v.revision > calls[w].command.revision \/ v = VersionOf(calls[w].command)
  PROVE  AdapterInductive'
<1>1. AdapterTypeOK /\ WorkerOK(w) /\ requests' \subseteq Request
  BY InductiveByWorker DEF AdapterTypeOK
<1>2. /\ calls' \in [Owners -> Call]
      /\ \A v \in Owners \ {w} : calls'[v] = calls[v]
      /\ calls'[w].pc = "done" /\ calls'[w].result = result
      /\ calls'[w].number = calls[w].number /\ calls'[w].command = calls[w].command
      /\ calls'[w].answer = calls[w].answer /\ calls'[w].effect = calls[w].effect
  BY <1>1, FinishFacts
<1>3. NothingSent(w) => NothingSent(w)'
  BY <1>2 DEF NothingSent, Sent
<1>4. result # "none"
  BY DEF ErrorClass
<1>5. CallOK(w)'
  BY <1>1, <1>2, <1>3, <1>4 DEF WorkerOK, CallOK
<1>6. PromiseKept(w)'
  BY <1>2 DEF PromiseKept, NothingSent, Sent
<1>7. Reached(w)'
  BY <1>2 DEF Reached, VersionOf
<1>8. WorkerOK(w)'
  BY <1>5, <1>6, <1>7 DEF WorkerOK
<1> QED
  BY <1>1, <1>2, <1>8, CallerStep

\* What an account of ours carries is a version that its address has had.
LEMMA AccountVersion ==
  ASSUME AdapterInductive, NEW m \in Mailboxes, accounts[m].owner = "control_plane"
  PROVE  VersionOf(accounts[m]) \in stored[m] /\ VersionOf(accounts[m]) \in Version
  BY DEF AdapterInductive, AdapterTypeOK, AccountsWereStored

\* A set is sent, the first of the call or the one after a refused create.
LEMMA SendStep ==
  ASSUME AdapterInductive, NEW w \in Owners, calls[w].pc = "lookup",
         NEW method \in {"create", "update"}, Send(w, method), UNCHANGED <<accounts, stored>>,
         method = "update" => accounts[calls[w].command.mailbox].owner = "control_plane"
  PROVE  AdapterInductive'
<1> DEFINE q == [by |-> w, number |-> calls[w].number, method |-> method,
                 command |-> calls[w].command]
<1>1. AdapterTypeOK /\ WorkerOK(w) /\ requests \subseteq Request /\ calls[w] \in Call
  BY InductiveByWorker DEF AdapterTypeOK
<1>2. calls[w].number # 0 /\ calls[w].command # None /\ NothingSent(w) /\ ~calls[w].effect
      /\ calls[w].result = "none"
  BY <1>1 DEF WorkerOK, CallOK
<1>3. /\ calls' \in [Owners -> Call]
      /\ \A v \in Owners \ {w} : calls'[v] = calls[v]
      /\ calls'[w].pc = "waiting" /\ calls'[w].method = method /\ calls'[w].answer = "none"
      /\ calls'[w].number = calls[w].number /\ calls'[w].command = calls[w].command
      /\ calls'[w].result = "none" /\ calls'[w].effect = calls[w].effect
  BY <1>1, <1>2 DEF AdapterTypeOK, Send, Call
<1>4. q \in Request /\ requests' = requests \cup {q}
  BY <1>1, <1>2, AdapterAssumption DEF Send, Call, Request
<1>5. \A r \in requests' : Sent(r, w)' => r.command = calls[w].command /\ r.method = method
  BY <1>2, <1>3, <1>4 DEF NothingSent, Sent
<1>6. CallOK(w)'
  BY <1>1, <1>2, <1>3, <1>5 DEF WorkerOK, CallOK
<1>7. WorkerOK(w)'
  BY <1>3, <1>6 DEF WorkerOK, PromiseKept, Reached
<1>8. requests' \subseteq Request /\ \A r \in requests' : r \in requests \/ r = q
  BY <1>1, <1>4
<1> QED
  BY <1>3, <1>4, <1>7, <1>8, CallerStep

LEMMA LookupFailsStep ==
  ASSUME AdapterInductive, NEW w \in Owners, NEW class, LookupFails(w, class)
  PROVE  AdapterInductive'
<1>1. WorkerOK(w)
  BY InductiveByWorker
<1>2. class \in ErrorClass /\ class # "ok" /\ calls[w].pc = "lookup" /\ Finish(w, class)
  BY DEF LookupFails, ReadFailure, uncertainClass, ErrorClass
<1>3. ~calls[w].effect /\ NothingSent(w)
  BY <1>1, <1>2 DEF WorkerOK, CallOK
<1> QED
  BY <1>2, <1>3, FinishStep DEF LookupFails, NothingSent

LEMMA LookupFindsAccountStep ==
  ASSUME AdapterInductive, NEW w \in Owners, LookupFindsAccount(w) PROVE AdapterInductive'
<1> DEFINE command == calls[w].command
           m == command.mailbox
<1>1. AdapterTypeOK /\ WorkerOK(w) /\ calls[w] \in Call /\ calls[w].pc = "lookup"
  BY InductiveByWorker DEF AdapterTypeOK, LookupFindsAccount
<1>2. command \in Command /\ m \in Mailboxes /\ UNCHANGED <<accounts, stored>>
  BY <1>1 DEF WorkerOK, CallOK, Call, Command, LookupFindsAccount
<1>3. CASE Finish(w, "permanent") /\ UNCHANGED requests
  BY <1>1, <1>2, <1>3, FinishStep DEF ErrorClass
<1>4. CASE /\ accounts[m].owner = "control_plane" /\ Finish(w, "ok") /\ UNCHANGED requests
           /\ \/ accounts[m].revision > command.revision
              \/ accounts[m].revision = command.revision /\ accounts[m].hash = command.hash
  <2>1. VersionOf(accounts[m]) \in stored[m]
    BY <1>2, <1>4, AccountVersion
  <2>2. \/ VersionOf(accounts[m]).revision > command.revision
        \/ VersionOf(accounts[m]) = VersionOf(command)
    BY <1>4 DEF VersionOf
  <2> QED
    BY <1>1, <1>2, <1>4, <2>1, <2>2, FinishStep
<1>5. CASE accounts[m].owner = "control_plane" /\ Send(w, "update")
  BY <1>1, <1>2, <1>5, SendStep
<1> QED
  BY <1>3, <1>4, <1>5 DEF LookupFindsAccount, ensureExistingAccount

LEMMA LookupFindsNothingStep ==
  ASSUME AdapterInductive, NEW w \in Owners, LookupFindsNothing(w) PROVE AdapterInductive'
<1>1. WorkerOK(w) /\ calls[w].pc = "lookup" /\ UNCHANGED <<accounts, stored>>
  BY InductiveByWorker DEF LookupFindsNothing
<1>2. ~calls[w].effect /\ NothingSent(w)
  BY <1>1 DEF WorkerOK, CallOK
<1>3. CASE Send(w, "create")
  BY <1>1, <1>3, SendStep
<1>4. ASSUME NEW class \in Declined, Finish(w, class), UNCHANGED requests PROVE AdapterInductive'
  <2>1. class \in ErrorClass /\ class # "ok"
    BY DEF Declined, ErrorClass
  <2> QED
    BY <1>1, <1>2, <1>4, <2>1, FinishStep DEF NothingSent
<1> QED
  BY <1>3, <1>4 DEF LookupFindsNothing

LEMMA ReceiveStep ==
  ASSUME AdapterInductive, NEW w \in Owners, Receive(w) PROVE AdapterInductive'
<1>1. /\ AdapterTypeOK /\ WorkerOK(w) /\ calls[w] \in Call /\ requests \subseteq Request
      /\ calls[w].pc = "waiting" /\ calls[w].answer # "none"
      /\ UNCHANGED <<accounts, stored, requests>>
  BY InductiveByWorker DEF AdapterTypeOK, Receive
<1>2. CASE calls[w].answer = "applied" /\ Finish(w, "ok")
  <2>1. VersionOf(calls[w].command) \in stored[calls[w].command.mailbox]
    BY <1>1, <1>2 DEF WorkerOK, CallOK
  <2> QED
    BY <1>1, <1>2, <2>1, FinishStep
<1>3. CASE calls[w].answer = "refused" /\ calls' = [calls EXCEPT ![w].pc = "lookup"]
  <2>1. /\ calls' \in [Owners -> Call]
        /\ \A v \in Owners \ {w} : calls'[v] = calls[v]
        /\ calls'[w].pc = "lookup" /\ calls'[w].answer = "refused"
        /\ calls'[w].number = calls[w].number /\ calls'[w].command = calls[w].command
        /\ calls'[w].result = calls[w].result /\ calls'[w].effect = calls[w].effect
    BY <1>1, <1>3 DEF AdapterTypeOK, Call
  <2>2. NothingSent(w)'
    BY <1>1, <2>1 DEF WorkerOK, CallOK, NothingSent, Sent
  <2>3. CallOK(w)'
    BY <1>1, <1>3, <2>1, <2>2 DEF WorkerOK, CallOK
  <2>4. WorkerOK(w)'
    BY <1>1, <2>1, <2>3 DEF WorkerOK, CallOK, PromiseKept, Reached
  <2> QED
    BY <1>1, <2>1, <2>4, CallerStep
<1>4. CASE Finish(w, protocolError) \/ Finish(w, uncertainClass(TRUE))
  BY <1>1, <1>4, FinishStep DEF protocolError, uncertainClass, ErrorClass
<1> QED
  BY <1>2, <1>3, <1>4 DEF Receive

LEMMA GiveUpStep ==
  ASSUME AdapterInductive, NEW w \in Owners, GiveUp(w) PROVE AdapterInductive'
  BY FinishStep DEF GiveUp, uncertainClass, ErrorClass

-----------------------------------------------------------------------------
(* The server and the network.                                             *)

\* The server takes a request and answers it; a call that no longer waits for it
\* is not told.  What it has carried out is stored.
LEMMA TakenStep ==
  ASSUME AdapterInductive, NEW q \in requests, requests' = requests \ {q},
         NEW answer \in {"applied", "refused"}, NEW effect \in BOOLEAN,
         effect => answer = "applied", Answer(q, answer, effect),
         \A m \in Mailboxes : stored[m] \subseteq stored'[m],
         answer = "applied" => VersionOf(q.command) \in stored'[q.command.mailbox]
  PROVE  /\ calls' \in [Owners -> Call]
         /\ \A w \in Owners : WorkerOK(w)'
<1> DEFINE w == q.by
<1>1. AdapterTypeOK /\ q \in Request /\ w \in Owners /\ q.command \in Command
  BY DEF AdapterInductive, AdapterTypeOK, Request
<1>2. calls \in [Owners -> Call] /\ calls[w] \in Call /\ WorkerOK(w)
  BY <1>1, InductiveByWorker DEF AdapterTypeOK
<1>3. Moves(w)
  BY <1>2 DEF Moves, Answer
<1>4. CASE Awaited(q)
  <2>1. calls' = [calls EXCEPT ![w] = [calls[w] EXCEPT !.answer = answer, !.effect = effect]]
    BY <1>2, <1>4 DEF Answer
  <2>2. [calls[w] EXCEPT !.answer = answer, !.effect = effect] \in Call
    BY <1>2 DEF Call
  <2>3. /\ calls' \in [Owners -> Call]
        /\ calls'[w].answer = answer /\ calls'[w].effect = effect
        /\ calls'[w].pc = calls[w].pc /\ calls'[w].number = calls[w].number
        /\ calls'[w].command = calls[w].command /\ calls'[w].method = calls[w].method
        /\ calls'[w].result = calls[w].result
    <3>1. calls'[w] = [calls[w] EXCEPT !.answer = answer, !.effect = effect]
      BY <1>1, <1>2, <2>1
    <3>2. calls' \in [Owners -> Call]
      BY <1>1, <1>2, <2>1, <2>2
    <3> QED
      BY <1>2, <3>1, <3>2 DEF Call
  <2>4. Sent(q, w) /\ calls[w].pc = "waiting"
    BY <1>4 DEF Awaited, Sent
  <2>5. \A r \in requests : Sent(r, w) => r = q
    <3>1. ASSUME NEW r \in requests, Sent(r, w) PROVE r = q
      <4>1. r.command = q.command /\ r.method = q.method /\ r.by = q.by /\ r.number = q.number
        BY <1>2, <2>4, <3>1 DEF WorkerOK, CallOK, Sent
      <4>2. r \in Request
        BY DEF AdapterInductive, AdapterTypeOK
      <4> QED
        BY <1>1, <4>1, <4>2 DEF Request
    <3> QED
      BY <3>1
  <2>6. NothingSent(w)'
    BY <2>3, <2>5 DEF NothingSent, Sent
  <2>7. q.command = calls[w].command
    BY <1>2, <2>4 DEF WorkerOK, CallOK
  <2>8. CallOK(w)'
    <3>1. calls'[w].effect => calls'[w].answer = "applied"
      BY <2>3
    <3>2. calls'[w].answer = "applied" =>
            VersionOf(calls'[w].command) \in stored'[calls'[w].command.mailbox]
      BY <2>3, <2>7
    <3>3. calls[w].number # 0 /\ calls[w].command # None /\ calls[w].result = "none"
      BY <1>2, <2>4 DEF WorkerOK, CallOK
    <3> QED
      BY <2>3, <2>4, <2>6, <3>1, <3>2, <3>3 DEF CallOK, NothingSent
  <2>9. PromiseKept(w)' /\ Reached(w)'
    BY <1>2, <2>3, <2>4 DEF WorkerOK, CallOK, PromiseKept, Reached
  <2> QED
    BY <1>1, <1>3, <2>3, <2>8, <2>9, OthersKept DEF WorkerOK
<1>5. CASE ~Awaited(q)
  <2>1. calls' = calls
    BY <1>1, <1>2, <1>5 DEF Answer
  <2>2. NothingSent(w) => NothingSent(w)'
    BY <2>1 DEF NothingSent, Sent
  <2>3. calls[w].command # None =>
          stored[calls[w].command.mailbox] \subseteq stored'[calls[w].command.mailbox]
    BY <1>2 DEF Call, Command
  <2>4. CallOK(w)'
    BY <1>2, <2>1, <2>2, <2>3 DEF WorkerOK, CallOK, Sent
  <2>5. PromiseKept(w)'
    BY <1>2, <2>1, <2>2 DEF WorkerOK, PromiseKept
  <2>6. Reached(w)'
    <3>1. calls[w].result = "ok" => calls[w].command # None
      BY <1>2 DEF WorkerOK, CallOK, NoCall
    <3> QED
      BY <1>2, <2>1, <2>3, <3>1 DEF WorkerOK, Reached
  <2> QED
    BY <1>1, <1>2, <1>3, <2>1, <2>4, <2>5, <2>6, OthersKept DEF WorkerOK
<1> QED
  BY <1>4, <1>5

LEMMA RefusedStep ==
  ASSUME AdapterInductive, NEW q \in requests, requests' = requests \ {q},
         Answer(q, "refused", FALSE), UNCHANGED <<accounts, stored>>
  PROVE  AdapterInductive'
<1>1. calls' \in [Owners -> Call] /\ \A w \in Owners : WorkerOK(w)'
  BY TakenStep
<1>2. AdapterTypeOK'
  BY <1>1 DEF AdapterInductive, AdapterTypeOK
<1>3. AccountsWereStored' /\ UpdatesAreOurs'
  BY DEF AdapterInductive, AccountsWereStored, UpdatesAreOurs
<1> QED
  BY <1>1, <1>2, <1>3, InductiveByWorkerNext

LEMMA ApplyStep ==
  ASSUME AdapterInductive, NEW q \in requests, Apply(q) PROVE AdapterInductive'
<1> DEFINE m == q.command.mailbox
           version == [revision |-> q.command.revision, hash |-> q.command.hash]
<1>1. AdapterTypeOK /\ q \in Request /\ q.command \in Command /\ m \in Mailboxes
  BY DEF AdapterInductive, AdapterTypeOK, Request, Command
<1>2. CASE Answer(q, "refused", FALSE) /\ UNCHANGED <<accounts, stored>>
  BY <1>2, RefusedStep DEF Apply
<1>3. CASE /\ Answer(q, "applied", TRUE)
           /\ accounts' = [accounts EXCEPT ![m] = Written(q.command)]
           /\ stored' = [stored EXCEPT ![m] = @ \cup {version}]
  <2>1. version \in Version /\ Written(q.command) \in Account
    BY <1>1, AdapterAssumption DEF Version, Written, Account, Command
  <2>2. accounts' \in [Mailboxes -> Account] /\ stored' \in [Mailboxes -> SUBSET Version]
    BY <1>1, <1>3, <2>1 DEF AdapterTypeOK
  <2>3. /\ \A n \in Mailboxes : stored[n] \subseteq stored'[n]
        /\ version \in stored'[m]
        /\ accounts'[m] = Written(q.command)
        /\ \A n \in Mailboxes \ {m} : accounts'[n] = accounts[n]
    BY <1>1, <1>3 DEF AdapterTypeOK
  <2>4. calls' \in [Owners -> Call] /\ \A w \in Owners : WorkerOK(w)'
    BY <1>3, <2>3, TakenStep DEF Apply, VersionOf
  <2>5. AdapterTypeOK'
    BY <2>2, <2>4 DEF AdapterInductive, AdapterTypeOK, Apply
  <2>6. AccountsWereStored'
    BY <2>3 DEF AdapterInductive, AccountsWereStored, Written, VersionOf
  <2>7. UpdatesAreOurs'
    BY <2>3 DEF AdapterInductive, AdapterTypeOK, UpdatesAreOurs, Written, Apply, Request, Command
  <2> QED
    BY <2>4, <2>5, <2>6, <2>7, InductiveByWorkerNext
<1> QED
  BY <1>2, <1>3 DEF Apply

LEMMA DeclineStep ==
  ASSUME AdapterInductive, NEW q \in requests, NEW class, Decline(q, class) PROVE AdapterInductive'
<1> DEFINE w == q.by
<1>1. AdapterTypeOK /\ q \in Request /\ w \in Owners /\ WorkerOK(w)
  BY InductiveByWorker DEF AdapterTypeOK, Request
<1>2. calls[w].pc = "waiting" /\ Sent(q, w) /\ class \in ErrorClass /\ class # "ok"
  BY DEF Decline, Awaited, Sent, Declined, ErrorClass
<1>3. calls[w].answer = "none" /\ ~calls[w].effect
  BY <1>1, <1>2 DEF WorkerOK, CallOK, NothingSent
<1>4. ASSUME NEW r \in requests, Sent(r, w) PROVE r = q
  <2>1. r.command = q.command /\ r.method = q.method /\ r.by = q.by /\ r.number = q.number
    BY <1>1, <1>2, <1>4 DEF WorkerOK, CallOK, Sent
  <2>2. r \in Request
    BY <1>1 DEF AdapterTypeOK
  <2> QED
    BY <1>1, <2>1, <2>2 DEF Request
<1>5. requests' = requests \ {q} /\ Finish(w, class) /\ UNCHANGED <<accounts, stored>>
  BY DEF Decline
<1>6. \A r \in requests' : ~Sent(r, w)
  BY <1>4, <1>5
<1> QED
  BY <1>1, <1>2, <1>3, <1>5, <1>6, FinishStep

\* A request is lost, or somebody takes an address: no call hears of it.
LEMMA QuietStep ==
  ASSUME AdapterInductive, UNCHANGED <<stored, calls>>, requests' \subseteq requests,
         accounts' \in [Mailboxes -> Account],
         \A m \in Mailboxes :
           (accounts'[m].owner = "control_plane" \/ accounts[m].owner = "control_plane")
             => accounts'[m] = accounts[m]
  PROVE  AdapterInductive'
<1>1. AdapterTypeOK /\ requests \subseteq Request
  BY DEF AdapterInductive, AdapterTypeOK
<1>2. AdapterTypeOK'
  BY <1>1 DEF AdapterTypeOK
<1>3. ASSUME NEW w \in Owners PROVE WorkerOK(w)'
  <2>1. WorkerOK(w)
    BY InductiveByWorker
  <2>2. NothingSent(w) => NothingSent(w)'
    BY DEF NothingSent, Sent
  <2> QED
    BY <2>1, <2>2 DEF WorkerOK, CallOK, PromiseKept, Reached, Sent
<1>4. AccountsWereStored' /\ UpdatesAreOurs'
  <2>1. \A q \in requests : q.command.mailbox \in Mailboxes
    BY <1>1 DEF Request, Command
  <2> QED
    BY <2>1 DEF AdapterInductive, AccountsWereStored, UpdatesAreOurs
<1> QED
  BY <1>2, <1>3, <1>4, InductiveByWorkerNext

LEMMA LoseStep ==
  ASSUME AdapterInductive, NEW q \in requests, Lose(q) PROVE AdapterInductive'
  BY QuietStep DEF AdapterInductive, AdapterTypeOK, Lose

LEMMA TakeAddressStep ==
  ASSUME AdapterInductive, NEW m \in Mailboxes, TakeAddress(m) PROVE AdapterInductive'
<1>1. accounts' \in [Mailboxes -> Account]
  BY AdapterAssumption DEF AdapterInductive, AdapterTypeOK, TakeAddress, Account
<1>2. \A n \in Mailboxes :
        (accounts'[n].owner = "control_plane" \/ accounts[n].owner = "control_plane")
          => accounts'[n] = accounts[n]
  BY DEF AdapterInductive, AdapterTypeOK, TakeAddress
<1> QED
  BY <1>1, <1>2, QuietStep DEF TakeAddress

\* Steps of one kind, as they are composed with the worker processes.
LEMMA ReadStepKeeps ==
  ASSUME AdapterInductive, NEW w \in Owners, ReadStep(w) PROVE AdapterInductive'
  BY LookupFailsStep, LookupFindsAccountStep, LookupFindsNothingStep DEF ReadStep

LEMMA AnswerStepKeeps ==
  ASSUME AdapterInductive, NEW w \in Owners, AnswerStep(w) PROVE AdapterInductive'
  BY ReceiveStep, GiveUpStep DEF AnswerStep

LEMMA ReturnKeeps ==
  ASSUME AdapterInductive, NEW w \in Owners, Return(w) PROVE AdapterInductive'
  BY ForgetStep DEF Return, Forget

LEMMA ServerStepKeeps ==
  ASSUME AdapterInductive, ServerStep PROVE AdapterInductive'
<1>1. ASSUME NEW q \in requests, RefuseCreate(q) PROVE AdapterInductive'
  BY <1>1, RefusedStep DEF RefuseCreate
<1> QED
  BY <1>1, ApplyStep, LoseStep, DeclineStep, TakeAddressStep DEF ServerStep

LEMMA StutterKeeps == AdapterInductive /\ UNCHANGED adapterVars => AdapterInductive'
<1> SUFFICES ASSUME AdapterInductive, UNCHANGED adapterVars PROVE AdapterInductive'
  OBVIOUS
<1>1. accounts' \in [Mailboxes -> Account]
  BY DEF AdapterInductive, AdapterTypeOK, adapterVars
<1> QED
  BY <1>1, QuietStep DEF adapterVars

LEMMA AdapterInductiveInit == AdapterInit => AdapterInductive
<1> SUFFICES ASSUME AdapterInit PROVE AdapterInductive
  OBVIOUS
<1>1. NoAccount \in Account
  BY AdapterAssumption DEF NoAccount, Account
<1>2. AdapterTypeOK
  BY <1>1, NoCallIsCall DEF AdapterInit, AdapterTypeOK
<1>3. CallsOK
  BY DEF AdapterInit, CallsOK, CallOK, NoCall
<1>4. AccountsWereStored /\ UpdatesAreOurs
  BY DEF AdapterInit, AccountsWereStored, UpdatesAreOurs, NoAccount
<1>5. RetryableMeansNoEffect /\ OkMeansReached
  BY DEF AdapterInit, RetryableMeansNoEffect, OkMeansReached, NoCall
<1> QED
  BY <1>2, <1>3, <1>4, <1>5 DEF AdapterInductive

LEMMA AdapterInductiveStep == AdapterInductive /\ [AdapterNext]_adapterVars => AdapterInductive'
<1> SUFFICES ASSUME AdapterInductive, [AdapterNext]_adapterVars PROVE AdapterInductive'
  OBVIOUS
<1>1. ASSUME NEW w \in Owners, NEW command \in Command, EnsureMailbox(w, command)
      PROVE  AdapterInductive'
  BY <1>1, EnsureMailboxStep
<1> QED
  BY <1>1, ReadStepKeeps, AnswerStepKeeps, ReturnKeeps, ServerStepKeeps, StutterKeeps
  DEF AdapterNext

-----------------------------------------------------------------------------
(* The theorems.                                                           *)

\* The inductive invariant: what a call may conclude from what it has heard.
THEOREM AdapterInductiveHolds == AdapterSpec => []AdapterInductive
<1> QED
  BY AdapterInductiveInit, AdapterInductiveStep, PTL DEF AdapterSpec

\* Accounts, requests and calls keep their types, whatever the server does with a
\* request and however late.
THEOREM AdapterTypeCorrect == AdapterSpec => []AdapterTypeOK
<1>1. AdapterInductive => AdapterTypeOK
  BY DEF AdapterInductive
<1> QED
  BY <1>1, AdapterInductiveHolds, PTL

\* The promise of the class "retryable" (mailcore.ErrorClassRetryable) is kept on
\* every path through EnsureMailbox: no set was carried out, none is on its way.
THEOREM RetryableIsSafe == AdapterSpec => []RetryableMeansNoEffect
<1>1. AdapterInductive => RetryableMeansNoEffect
  BY DEF AdapterInductive
<1> QED
  BY <1>1, AdapterInductiveHolds, PTL

\* EnsureMailbox returns nil only for a revision that the address has had.
THEOREM OkIsReached == AdapterSpec => []OkMeansReached
<1>1. AdapterInductive => OkMeansReached
  BY DEF AdapterInductive
<1> QED
  BY <1>1, AdapterInductiveHolds, PTL

\* Neither a create nor a late update ever changes an account of somebody else:
\* updates are only sent to accounts of ours, and those stay ours.
THEOREM ForeignIsSafe == AdapterSpec => ForeignAccountUntouched
<1> DEFINE Untouched == \A m \in Mailboxes : accounts[m].owner = "foreign" => accounts'[m] = accounts[m]
<1>1. ASSUME AdapterInductive, NEW q \in requests, Apply(q) PROVE Untouched
  <2>1. q.method \in {"create", "update"} /\ accounts \in [Mailboxes -> Account]
    BY <1>1 DEF AdapterInductive, AdapterTypeOK, Request
  <2>2. CASE UNCHANGED accounts
    BY <2>2
  <2>3. CASE /\ accounts' = [accounts EXCEPT ![q.command.mailbox] = Written(q.command)]
             /\ accounts[q.command.mailbox].owner # "foreign"
    BY <2>1, <2>3
  <2> QED
    BY <1>1, <2>1, <2>2, <2>3 DEF Apply, AdapterInductive, UpdatesAreOurs
<1>2. ASSUME AdapterInductive, NEW m \in Mailboxes, TakeAddress(m) PROVE Untouched
  BY <1>2 DEF AdapterInductive, AdapterTypeOK, TakeAddress
<1>3. ASSUME AdapterInductive, [AdapterNext]_adapterVars PROVE [Untouched]_adapterVars
  <2>1. CASE UNCHANGED accounts
    BY <2>1
  <2>2. CASE ServerStep
    BY <1>1, <1>2, <1>3, <2>2 DEF ServerStep, RefuseCreate, Lose, Decline
  <2> QED
    BY <1>3, <2>1, <2>2 DEF AdapterNext, adapterVars, EnsureMailbox, ReadStep, AnswerStep, Return,
       LookupFails, LookupFindsAccount, LookupFindsNothing, Receive, GiveUp
<1> QED
  BY <1>3, AdapterInductiveHolds, PTL DEF AdapterSpec, ForeignAccountUntouched

-----------------------------------------------------------------------------
(* What a permanent error does not mean.                                   *)

\* Whenever a caller waits for a set that the server has carried out, its next step
\* may be to receive an answer of the wrong shape (protocolError), and that step
\* breaks PermanentMeansNoEffect: the call is reported as failed for good with its
\* effect in place, whatever the constants.
THEOREM PermanentAfterEffect ==
  ASSUME AdapterTypeOK, NEW w \in Owners, calls[w].pc = "waiting", calls[w].effect,
         calls[w].answer = "applied", Finish(w, protocolError),
         UNCHANGED <<accounts, stored, requests>>
  PROVE  AdapterNext /\ ~PermanentMeansNoEffect'
<1>1. calls \in [Owners -> Call]
  BY DEF AdapterTypeOK
<1>2. Receive(w)
  BY DEF Receive
<1>3. AdapterNext
  BY <1>2 DEF AdapterNext, AnswerStep
<1>4. calls'[w].result = "permanent" /\ calls'[w].effect = calls[w].effect
  BY <1>1 DEF Finish, protocolError, Call
<1> QED
  BY <1>3, <1>4 DEF PermanentMeansNoEffect
=============================================================================
