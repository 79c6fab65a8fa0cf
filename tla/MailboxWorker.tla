----------------------------- MODULE MailboxWorker -----------------------------
(***************************************************************************)
(* The worker process: Runner.Run polls the ledger, Service.Execute takes  *)
(* a claimed attempt through the adapter to a fenced receipt.  The module  *)
(* composes OperationLedger (the database), StalwartAdapter (the mail core *)
(* and the calls to it) and the processes between them.                    *)
(*                                                                         *)
(* Every database statement and every HTTP request is a step, and a worker *)
(* may die between any two.  The context deadlines are the timer left:     *)
(* what is left of LeaseExpiresAt while an attempt is only claimed, of     *)
(* attemptDeadline once it runs; adapterDeadline is LeaseSafetyMargin      *)
(* earlier.  Worker and database share one clock.                          *)
(***************************************************************************)
EXTENDS OperationLedger, StalwartAdapter

CONSTANTS
  AttemptTimeout,     \* Config.AttemptTimeout, in ticks
  LeaseSafetyMargin,  \* Config.LeaseSafetyMargin, in ticks
  BaseRetryDelay,     \* Config.BaseRetryDelay, in ticks
  MaxCrashes          \* bound: how often a worker process dies

\* What newService demands of its configuration.
ASSUME newServiceAssumption ==
  /\ AttemptTimeout \in Nat \ {0}
  /\ LeaseSafetyMargin \in Nat \ {0}
  /\ LeaseDuration > LeaseSafetyMargin
  /\ AttemptTimeout <= LeaseDuration - LeaseSafetyMargin
  /\ BaseRetryDelay \in Nat \ {0}
  /\ MaxRetryDelay >= BaseRetryDelay
  /\ MaxCrashes \in Nat

\* No receipt is nil.
ASSUME NoReceiptAssumption == None \notin Resolution

VARIABLES
  workers,  \* the attempt each process works on, and how far it is
  crashes   \* how often processes have died

vars == <<ledgerVars, adapterVars, workers, crashes>>

Worker == [pc : {"idle", "claiming", "claimed", "inspect", "ensure", "verify", "receipt"},
           op : Operations \cup {None},
           attempt : 0..MaxAttempts,
           left : 0..LeaseDuration,
           resolution : Resolution \cup {None}]

Idle == [pc |-> "idle", op |-> None, attempt |-> 0, left |-> 0, resolution |-> None]

Init ==
  /\ LedgerInit
  /\ AdapterInit
  /\ workers = [w \in Owners |-> Idle]
  /\ crashes = 0

\* The snapshot a claim returns; its columns never change.
Intended(w) == intents[workers[w].op]
Prior(w)    == claims[workers[w].op][workers[w].attempt].prior_status

adapterLeft(w) == workers[w].left - LeaseSafetyMargin

-----------------------------------------------------------------------------
(* Receipts.                                                               *)

retryDelayFromZero(attempt) ==
  LET delay[n \in 1..attempt] ==
        IF n = 1 THEN 0
        ELSE IF delay[n - 1] > MaxRetryDelay \div 2 THEN MaxRetryDelay ELSE 2 * delay[n - 1]
  IN  delay[attempt]

\* Doubled per attempt, and capped before the doubling could pass the cap.
retryDelay(attempt) ==
  LET delay[n \in 1..attempt] ==
        IF n = 1 THEN BaseRetryDelay
        ELSE IF delay[n - 1] > MaxRetryDelay \div 2 THEN MaxRetryDelay ELSE 2 * delay[n - 1]
  IN  delay[attempt]

\* The receipt is made out; it is sent in a step of its own.
resolve(w, status_, observation) ==
  workers' = [workers EXCEPT ![w] =
    [pc |-> "receipt", op |-> workers[w].op, attempt |-> workers[w].attempt,
     left |-> workers[w].left,
     resolution |-> [status |-> status_,
                     delay |-> IF status_ \in {"retry_wait", "unknown"}
                               THEN retryDelay(workers[w].attempt) ELSE 0,
                     observation |-> observation]]]

OrDeadTooEarly(w, status_) ==
  IF workers[w].attempt + 1 >= MaxAttempts THEN "dead" ELSE status_

\* The attempt budget turns what would be tried again into dead.
OrDead(w, status_) == IF workers[w].attempt >= MaxAttempts THEN "dead" ELSE status_

resolveUncertain(w, observation) == resolve(w, OrDead(w, "unknown"), observation)

resolveAdapterFailure(w, class) ==
  resolve(w, CASE class = "permanent" -> "failed"
               [] class = "retryable" -> OrDead(w, "retry_wait")
               [] class = "unknown"   -> OrDead(w, "unknown"), None)

matchesDesired(w, observation) ==
  observation = [mailbox |-> Intended(w).mailbox, status |-> "active",
                 revision |-> Intended(w).revision, hash |-> Intended(w).hash]

-----------------------------------------------------------------------------
(* ClaimNext: two statements, each committed on its own.                   *)

Finalizable(o) == status[o] \in Unfinished /\ (Superseded(o) \/ Exhausted(o))

ClaimNextFinalize(w) ==
  /\ workers[w].pc = "idle"
  /\ workers' = [workers EXCEPT ![w].pc = "claiming"]
  /\ \/ \E o \in Operations : FinalizeMailboxOperationBeforeClaim(o)
     \/ ~(\E o \in Operations : Finalizable(o)) /\ UNCHANGED ledgerVars
  /\ UNCHANGED <<adapterVars, crashes>>

ClaimNextClaim(w) ==
  /\ workers[w].pc = "claiming"
  /\ \/ \E o \in Operations :
          /\ ClaimMailboxOperation(o, w)
          /\ workers' = [workers EXCEPT ![w] =
                           [pc |-> "claimed", op |-> o, attempt |-> attempt_count[o] + 1,
                            left |-> LeaseDuration, resolution |-> None]]
     \/ /\ ~(\E o \in Operations : Claimable(o))
        /\ workers' = [workers EXCEPT ![w] = Idle]
        /\ UNCHANGED ledgerVars
  /\ UNCHANGED <<adapterVars, crashes>>

-----------------------------------------------------------------------------
(* Execute.                                                                *)

ToEnsure(w, left) ==
  /\ EnsureMailbox(w, Intended(w))
  /\ workers' = [workers EXCEPT ![w].pc = "ensure", ![w].left = left]

AttemptLeftWithoutLease(w) == AttemptTimeout + LeaseSafetyMargin

\* attemptDeadline: the configured budget, cut at the end of the lease.
AttemptLeft(w) ==
  IF workers[w].left < AttemptTimeout + LeaseSafetyMargin
  THEN workers[w].left ELSE AttemptTimeout + LeaseSafetyMargin

\* Up to the first request.  Nothing is sent when the lease is nearly over, and
\* after an attempt whose effect is unknown the account is inspected first.
Execute(w) ==
  /\ workers[w].pc = "claimed"
  /\ LET left == AttemptLeft(w) IN
       \/ /\ left <= LeaseSafetyMargin
          /\ resolveUncertain(w, None)
          /\ UNCHANGED adapterVars
       \/ /\ left > LeaseSafetyMargin
          /\ Prior(w) \in {"unknown", "running"}
          /\ workers' = [workers EXCEPT ![w].pc = "inspect", ![w].left = left]
          /\ UNCHANGED adapterVars
       \/ /\ left > LeaseSafetyMargin
          /\ Prior(w) \notin {"unknown", "running"}
          /\ ToEnsure(w, left)
  /\ UNCHANGED <<ledgerVars, crashes>>

\* Either inspection fails, for whatever reason: the outcome is unknown.
InspectFails(w) ==
  /\ workers[w].pc \in {"inspect", "verify"}
  /\ resolveAdapterFailure(w, "unknown")
  /\ UNCHANGED <<ledgerVars, adapterVars, crashes>>

\* Either inspection sees the mailbox as it is.
InspectSees(w) ==
  /\ workers[w].pc \in {"inspect", "verify"}
  /\ adapterLeft(w) > 0
  /\ accounts[Intended(w).mailbox].owner # "foreign"
  /\ LET seen == InspectMailbox(Intended(w)) IN
       \/ /\ matchesDesired(w, seen)
          /\ resolve(w, "succeeded", seen)
          /\ UNCHANGED adapterVars
       \/ /\ ~matchesDesired(w, seen)
          /\ workers[w].pc = "verify" \/ seen.revision > Intended(w).revision
          /\ resolveUncertain(w, seen)
          /\ UNCHANGED adapterVars
       \/ /\ ~matchesDesired(w, seen)
          /\ workers[w].pc = "inspect" /\ seen.revision <= Intended(w).revision
          /\ ToEnsure(w, workers[w].left)
  /\ UNCHANGED <<ledgerVars, crashes>>

\* A step of the running EnsureMailbox.  Its context ends at adapterDeadline:
\* from then on reads fail with a timeout and nothing is sent.
EnsureStep(w) ==
  /\ workers[w].pc = "ensure"
  /\ \/ adapterLeft(w) > 0 /\ ReadStep(w)
     \/ adapterLeft(w) <= 0 /\ LookupFails(w, "retryable")
     \/ AnswerStep(w)
  /\ UNCHANGED <<ledgerVars, workers, crashes>>

\* EnsureMailbox returns; success is only believed after an inspection.
EnsureDone(w) ==
  /\ workers[w].pc = "ensure"
  /\ calls[w].pc = "done"
  /\ IF calls[w].result = "ok"
     THEN workers' = [workers EXCEPT ![w].pc = "verify"]
     ELSE resolveAdapterFailure(w, calls[w].result)
  /\ Return(w)
  /\ UNCHANGED <<ledgerVars, crashes>>

\* The receipt is sent before attemptDeadline.  It is accepted, or refused with
\* ErrLeaseLost, which the runner ignores.
SendReceipt(w) ==
  /\ workers[w].pc = "receipt"
  /\ workers[w].left > 0
  /\ LET o == workers[w].op
         n == workers[w].attempt
     IN \/ ResolveMailboxOperation(o, n, workers[w].resolution)
        \/ ~(Fenced(o, n) /\ Proven(o, workers[w].resolution)) /\ UNCHANGED ledgerVars
  /\ workers' = [workers EXCEPT ![w] = Idle]
  /\ UNCHANGED <<adapterVars, crashes>>

ReceiptWaitsForever(w) ==
  /\ workers[w].pc = "receipt"
  /\ workers[w].left = 0
  /\ UNCHANGED vars

\* Too late for the receipt: Execute fails with DeadlineExceeded, Run returns the
\* error and the process ends, to be started again.
ReceiptTooLate(w) ==
  /\ workers[w].pc = "receipt"
  /\ workers[w].left = 0
  /\ workers' = [workers EXCEPT ![w] = Idle]
  /\ UNCHANGED <<ledgerVars, adapterVars, crashes>>

\* The process dies, or ends on a database error, and is started again.  What
\* it has sent is still on its way.  It keeps its name here, where the code draws
\* a fresh OwnerID: the epoch alone has to tell its claims apart.
Crash(w) ==
  /\ workers[w].pc # "idle"
  /\ crashes < MaxCrashes
  /\ crashes' = crashes + 1
  /\ workers' = [workers EXCEPT ![w] = Idle]
  /\ calls' = [calls EXCEPT ![w] = NoCall]
  /\ UNCHANGED <<ledgerVars, accounts, stored, requests>>

-----------------------------------------------------------------------------
WorkerStep(w) ==
  \/ ClaimNextFinalize(w) \/ ClaimNextClaim(w) \/ Execute(w)
  \/ InspectFails(w) \/ InspectSees(w)
  \/ EnsureStep(w) \/ EnsureDone(w)
  \/ SendReceipt(w) \/ ReceiptTooLate(w)

Intention ==
  /\ \/ \E o \in Operations, m \in Mailboxes, hash \in Hashes : RequestMailbox(o, m, hash)
     \/ \E o \in Operations, m \in Mailboxes, hash \in Hashes,
           desired \in {"active", "suspended"} : ReviseMailbox(o, m, hash, desired)
  /\ UNCHANGED <<adapterVars, workers, crashes>>

Clock ==
  /\ Tick
  /\ workers' = [w \in Owners |->
       [pc |-> workers[w].pc, op |-> workers[w].op, attempt |-> workers[w].attempt,
        left |-> Less(workers[w].left), resolution |-> workers[w].resolution]]
  /\ UNCHANGED <<adapterVars, crashes>>

MailCoreStep == ServerStep /\ UNCHANGED <<ledgerVars, workers, crashes>>

Next ==
  \/ Intention
  \/ \E w \in Owners : WorkerStep(w) \/ Crash(w)
  \/ MailCoreStep
  \/ Clock

Spec == Init /\ [][Next]_vars

\* Each process runs its loop and time passes.
FairSpec == Spec /\ (\A w \in Owners : WF_vars(WorkerStep(w))) /\ WF_vars(Clock)

-----------------------------------------------------------------------------
(* Properties.                                                             *)

\* Workers have their types, and a worker past ClaimNext has an attempt.
WorkerTypeOK ==
  /\ workers \in [Owners -> Worker]
  /\ crashes \in 0..MaxCrashes
  /\ \A w \in Owners : /\ workers[w].pc \in {"idle", "claiming"} <=> workers[w].op = None
                       /\ workers[w].pc = "receipt" <=> workers[w].resolution # None
                       /\ calls[w].pc # "idle" <=> workers[w].pc = "ensure"

\* While a worker may still call the mail core, its lease is alive and stays so
\* for LeaseSafetyMargin longer than it may call, or else the operation has been
\* superseded.  So two workers never call for the same unfinished operation.
LeaseCoversCalls ==
  \A w \in Owners :
    workers[w].pc \in {"inspect", "ensure", "verify"} /\ adapterLeft(w) > 0 =>
      LET o == workers[w].op IN
        \/ status[o] = "superseded"
        \/ /\ status[o] = "running"
           /\ lease[o].owner = w
           /\ lease[o].epoch = workers[w].attempt
           /\ lease[o].left >= adapterLeft(w) + LeaseSafetyMargin

\* An operation is given up as dead only when its attempts are used up.
DeadMeansExhausted ==
  \A o \in Operations : status[o] = "dead" => attempt_count[o] = MaxAttempts

\* Success is never made up: the mail core has had exactly this version.
SucceededWasStored ==
  \A o \in Operations :
    status[o] = "succeeded" =>
      [revision |-> intents[o].revision, hash |-> intents[o].hash]
        \in stored[intents[o].mailbox]

\* The processes drive the ledger only the way OperationLedger allows: every
\* receipt the service makes out is one the repository takes or fences off.
ImplementsLedger == LedgerSpec

\* Every attempt ends: Execute returns or the process starts afresh.
AttemptEnds == \A w \in Owners : (workers[w].pc # "idle") ~> (workers[w].pc = "idle")

\* A superseded operation never takes its account back to its own, older
\* revision.  Two comments say so: it has no side effects any more
\* (operation.StatusSuperseded), and ensureExistingAccount moves the revision only
\* forward.
SupersededStaysBehind ==
  [][\A o \in Operations, m \in Mailboxes :
       /\ status[o] = "superseded"
       /\ intents[o].mailbox = m
       /\ accounts'[m].revision = intents[o].revision
       => accounts[m].revision <= intents[o].revision]_vars
=============================================================================
