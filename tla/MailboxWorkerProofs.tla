------------------------- MODULE MailboxWorkerProofs -------------------------
(***************************************************************************)
(* Theorems about MailboxWorker, for any number of operations, mailboxes,  *)
(* workers and crashes and every configuration that newService accepts.    *)
(*                                                                         *)
(* The ledger and the adapter keep their own inductive invariants as long  *)
(* as the processes between them take only steps that the two allow, so    *)
(* what is left to show is about the processes: which attempt a worker     *)
(* holds, how long its lease covers it, and what its receipt may say.      *)
(***************************************************************************)
EXTENDS MailboxWorker, OperationLedgerProofs, StalwartAdapterProofs, WellFoundedInduction

USE DEF Waiting, Unfinished, Terminal

\* What a claim of this worker has returned: its number is that of a row of
\* operation_attempts that carries the worker's name.
ClaimIsOurs(w) ==
  workers[w].op # None =>
    /\ workers[w].attempt \in AttemptNumbers
    /\ claims[workers[w].op][workers[w].attempt] # None
    /\ claims[workers[w].op][workers[w].attempt].owner = w

\* Until its deadline, a worker holds the lease of the attempt it works on, and
\* the lease lasts at least as long, or else the operation was superseded.
LeaseStands(w) ==
  workers[w].op # None /\ workers[w].left > 0 =>
    LET o == workers[w].op IN
      \/ status[o] = "superseded"
      \/ /\ status[o] = "running"
         /\ lease[o].owner = w
         /\ lease[o].epoch = workers[w].attempt
         /\ lease[o].left >= workers[w].left

\* A receipt gives an operation up only with the last attempt, and reports
\* success only of a version that the mail core has had.
ReceiptIsTrue(w) ==
  workers[w].resolution # None =>
    /\ workers[w].resolution.status = "dead" => workers[w].attempt = MaxAttempts
    /\ workers[w].resolution.status = "succeeded" =>
         VersionOf(Intended(w)) \in stored[Intended(w).mailbox]

ProcessOK(w) == ClaimIsOurs(w) /\ LeaseStands(w) /\ ReceiptIsTrue(w)

\* What an operation asks for is a command that the adapter takes.
RevisionsBounded ==
  /\ \A m \in Mailboxes : mailboxes[m].revision <= MaxRevision
  /\ \A o \in Operations : intents[o] # None => intents[o].revision <= MaxRevision

WorkerInductive ==
  /\ LedgerInductive
  /\ AdapterInductive
  /\ WorkerTypeOK
  /\ RevisionsBounded
  /\ \A w \in Owners : ProcessOK(w)
  /\ DeadMeansExhausted
  /\ SucceededWasStored

-----------------------------------------------------------------------------
(* The retry delay: what the recursion computes, by least counterexample.  *)

\* Every set of numbers that is not empty has a least one.
LEMMA LeastNumber ==
  ASSUME NEW T, T \subseteq Nat, T # {}
  PROVE  \E x \in T : \A y \in T : x <= y
<1> DEFINE before == {p \in Nat \X Nat : p[1] < p[2]}
<1>1. IsWellFoundedOn(before, Nat)
  BY NatLessThanWellFounded, Zenon DEF OpToRel
<1> HIDE DEF before
<1>2. PICK x \in T : \A y \in T : ~(<<y, x>> \in before)
  BY <1>1, WFMin, Zenon
<1>3. ASSUME NEW y \in T PROVE x <= y
  <2>1. <<y, x>> \in Nat \X Nat /\ ~(<<y, x>> \in before)
    BY <1>2
  <2>2. ~(y < x)
    BY <2>1 DEF before
  <2> QED
    BY <2>2
<1> QED
  BY <1>3

\* f tells the delays of the first k attempts.
Delays(f, k) ==
  f = [n \in 1..k |-> IF n = 1 THEN BaseRetryDelay
                      ELSE IF f[n - 1] > MaxRetryDelay \div 2 THEN MaxRetryDelay
                      ELSE 2 * f[n - 1]]

\* The recursion has a solution.
LEMMA DelaysExist ==
  ASSUME NEW attempt \in Nat
  PROVE  \E f : Delays(f, attempt)
<1> DEFINE bad == {k \in Nat : ~ \E f : Delays(f, k)}
<1> SUFFICES ASSUME bad # {} PROVE FALSE
  OBVIOUS
<1>1. PICK k \in bad : \A j \in bad : k <= j
  BY LeastNumber, bad \subseteq Nat
<1>2. CASE k = 0
  <2>1. Delays([n \in 1..0 |-> 0], 0)
    BY SMT DEF Delays
  <2> QED
   BY <2>1, <1>1, <1>2
<1>3. CASE k # 0
  <2>1. k - 1 \in Nat /\ k - 1 \notin bad
    BY <1>1, <1>3
  <2>2. PICK f : Delays(f, k - 1)
    BY <2>1
  <2> DEFINE g == [n \in 1..k |-> IF n = 1 THEN BaseRetryDelay
                      ELSE IF f[n - 1] > MaxRetryDelay \div 2 THEN MaxRetryDelay
                      ELSE 2 * f[n - 1]]
  <2>3. ASSUME NEW n \in 1..k, n # 1 PROVE g[n - 1] = f[n - 1]
    <3>1. n - 1 \in 1..(k - 1) /\ n - 1 \in 1..k
      BY <1>1, <2>3
    <3> QED
    BY <3>1, <2>2 DEF Delays
  <2>4. Delays(g, k)
    <3>1. \A n \in 1..k : g[n] = IF n = 1 THEN BaseRetryDelay
                      ELSE IF g[n - 1] > MaxRetryDelay \div 2 THEN MaxRetryDelay
                      ELSE 2 * g[n - 1]
      BY <2>3
    <3>2. g = [n \in 1..k |-> g[n]]
      OBVIOUS
    <3> HIDE DEF g
    <3> QED
      BY <3>1, <3>2 DEF Delays
  <2> QED
    BY <2>4, <1>1
<1> QED
  BY <1>2, <1>3

\* retryDelay solves the recursion.
LEMMA RetryDelayUnfolds ==
  ASSUME NEW attempt \in Nat
  PROVE  \E f : Delays(f, attempt) /\ retryDelay(attempt) = f[attempt]
<1>1. retryDelay(attempt) = (CHOOSE f : Delays(f, attempt))[attempt]
  BY DEF retryDelay, Delays
<1>2. Delays((CHOOSE f : Delays(f, attempt)), attempt)
  BY DelaysExist, Zenon
<1> QED
  BY <1>1, <1>2, Zenon

\* Whatever the attempt number, the delay is at least the base delay and at most
\* the cap: neither the doubling nor the cap before it lets it out.
LEMMA RetryDelayBounded ==
  ASSUME NEW attempt \in Nat \ {0}
  PROVE  retryDelay(attempt) \in BaseRetryDelay..MaxRetryDelay
<1>1. PICK f : Delays(f, attempt) /\ retryDelay(attempt) = f[attempt]
  BY RetryDelayUnfolds
<1> DEFINE bad == {n \in 1..attempt : f[n] \notin BaseRetryDelay..MaxRetryDelay}
<1> SUFFICES bad = {}
  BY <1>1
<1> SUFFICES ASSUME bad # {} PROVE FALSE
  OBVIOUS
<1>2. PICK n \in bad : \A j \in bad : n <= j
  <2>1. bad \subseteq Nat
    OBVIOUS
  <2> QED
    BY <2>1, LeastNumber
<1>3. BaseRetryDelay \in Nat \ {0} /\ MaxRetryDelay \in Nat /\ MaxRetryDelay >= BaseRetryDelay
  BY newServiceAssumption, LedgerAssumption
<1>4. n # 1
  BY <1>1, <1>2, <1>3 DEF Delays
<1>5. n - 1 \in 1..attempt /\ n - 1 \notin bad
  BY <1>2, <1>4
<1>6. f[n - 1] \in BaseRetryDelay..MaxRetryDelay
  BY <1>5
<1>7. f[n] = IF f[n - 1] > MaxRetryDelay \div 2 THEN MaxRetryDelay ELSE 2 * f[n - 1]
  BY <1>1, <1>2, <1>4 DEF Delays
<1> QED
  BY <1>2, <1>3, <1>6, <1>7

-----------------------------------------------------------------------------
(* A process at a time.                                                    *)

\* How the parts of a process record hang together.
Linked(w) ==
  /\ workers[w].pc \in {"idle", "claiming"} <=> workers[w].op = None
  /\ workers[w].pc = "receipt" <=> workers[w].resolution # None
  /\ calls[w].pc # "idle" <=> workers[w].pc = "ensure"

StoredGrows == \A m \in Mailboxes : stored[m] \subseteq stored'[m]

LEMMA WorkerFacts ==
  ASSUME WorkerInductive
  PROVE  /\ LedgerTypeOK /\ AdapterTypeOK /\ workers \in [Owners -> Worker]
         /\ crashes \in 0..MaxCrashes
         /\ \A w \in Owners : workers[w] \in Worker /\ Linked(w) /\ ProcessOK(w)
  BY DEF WorkerInductive, LedgerInductive, AdapterInductive, WorkerTypeOK, Linked

\* What a worker past ClaimNext holds is a row of its own, and the intent of its
\* operation is a command.
LEMMA HeldFacts ==
  ASSUME WorkerInductive, NEW w \in Owners, workers[w].op # None
  PROVE  /\ workers[w].op \in Operations
         /\ workers[w].attempt \in AttemptNumbers
         /\ workers[w].attempt <= attempt_count[workers[w].op]
         /\ claims[workers[w].op][workers[w].attempt].epoch = workers[w].attempt
         /\ status[workers[w].op] # "absent"
         /\ Intended(w) \in Command /\ Intended(w) # None
<1> DEFINE o == workers[w].op
           n == workers[w].attempt
<1>1. workers[w] \in Worker /\ ProcessOK(w) /\ LedgerTypeOK
  BY WorkerFacts
<1>2. o \in Operations /\ n \in AttemptNumbers /\ claims[o][n] # None
  BY <1>1 DEF ProcessOK, ClaimIsOurs, Worker
<1>3. n <= attempt_count[o] /\ claims[o][n].epoch = n /\ attempt_count[o] \in Nat
  BY <1>1, <1>2 DEF WorkerInductive, LedgerInductive, LedgerTypeOK, AttemptMatchesLease,
     EpochIsAttemptNumber
<1>4. status[o] # "absent"
  BY <1>2, <1>3 DEF WorkerInductive, LedgerInductive, EpochIsAttemptNumber, AttemptNumbers
<1>5. intents[o] \in Intent
  BY <1>1, <1>2, <1>4 DEF LedgerTypeOK
<1>6. intents[o].revision <= MaxRevision /\ intents[o] # None
  BY <1>2, <1>5, NullAssumption DEF WorkerInductive, RevisionsBounded
<1>7. intents[o] \in Command
  BY <1>5, <1>6, LedgerAssumption DEF Intent, Command
<1> QED
  BY <1>2, <1>3, <1>4, <1>6, <1>7 DEF Intended

\* A process that does not move keeps what it holds while others do, as long as
\* the step leaves its live lease alone or supersedes the operation.
LeaseKept(v) ==
  workers[v].op # None /\ workers[v].left > 0 =>
    LET o == workers[v].op IN
      \/ status'[o] = "superseded"
      \/ status'[o] = status[o] /\ lease'[o] = lease[o]

LEMMA ProcessKept ==
  ASSUME WorkerInductive, [LedgerNext]_ledgerVars, StoredGrows, NEW v \in Owners,
         workers'[v] = workers[v], LeaseKept(v)
  PROVE  ProcessOK(v)'
<1>1. workers[v] \in Worker /\ ProcessOK(v) /\ LedgerInductive
  BY WorkerFacts DEF WorkerInductive
<1>2. CASE workers[v].op = None
  <2>1. workers[v].resolution = None
    BY <1>2, WorkerFacts DEF Linked
  <2> QED
    BY <1>2, <2>1 DEF ProcessOK, ClaimIsOurs, LeaseStands, ReceiptIsTrue
<1>3. CASE workers[v].op # None
  <2> DEFINE o == workers[v].op
             n == workers[v].attempt
  <2>1. o \in Operations /\ n \in AttemptNumbers /\ intents[o] \in Command /\ intents[o] # None
    BY <1>3, HeldFacts DEF Intended
  <2>2. Appends(o)
    BY <1>1, <2>1, NextAppends
  <2>3. ClaimIsOurs(v)'
    BY <1>1, <1>3, <2>1, <2>2 DEF ProcessOK, ClaimIsOurs, Appends
  <2>4. LeaseStands(v)'
    BY <1>1, <1>3 DEF ProcessOK, LeaseStands, LeaseKept
  <2>5. intents'[o] = intents[o] /\ stored[intents[o].mailbox] \subseteq stored'[intents[o].mailbox]
    BY <2>1, <2>2 DEF Appends, StoredGrows, Command
  <2>6. ReceiptIsTrue(v)'
    BY <1>1, <2>5 DEF ProcessOK, ReceiptIsTrue, Intended
  <2> QED
    BY <2>3, <2>4, <2>6 DEF ProcessOK
<1> QED
  BY <1>2, <1>3

\* Putting the processes together again.
LEMMA OneProcessMoves ==
  ASSUME WorkerInductive, NEW w \in Owners, [LedgerNext]_ledgerVars, AdapterInductive',
         StoredGrows, workers' \in [Owners -> Worker], crashes' \in 0..MaxCrashes,
         \A v \in Owners \ {w} : workers'[v] = workers[v] /\ calls'[v] = calls[v] /\ LeaseKept(v),
         Linked(w)', ProcessOK(w)', RevisionsBounded', DeadMeansExhausted', SucceededWasStored'
  PROVE  WorkerInductive'
<1>1. \A v \in Owners : ProcessOK(v)'
  BY ProcessKept
<1>2. \A v \in Owners : Linked(v)'
  BY WorkerFacts DEF Linked
<1>3. WorkerTypeOK'
  BY <1>2 DEF WorkerTypeOK, Linked
<1>4. LedgerInductive'
  BY NextInductive DEF WorkerInductive
<1> QED
  BY <1>1, <1>3, <1>4 DEF WorkerInductive

\* A step that writes nothing to the database.
LEMMA LocalStep ==
  ASSUME WorkerInductive, NEW w \in Owners, UNCHANGED ledgerVars, AdapterInductive',
         StoredGrows, workers' \in [Owners -> Worker], crashes' \in 0..MaxCrashes,
         \A v \in Owners \ {w} : workers'[v] = workers[v] /\ calls'[v] = calls[v],
         Linked(w)', ProcessOK(w)'
  PROVE  WorkerInductive'
<1>1. \A v \in Owners : LeaseKept(v)
  BY DEF LeaseKept, ledgerVars
<1>2. RevisionsBounded' /\ DeadMeansExhausted'
  BY DEF WorkerInductive, RevisionsBounded, DeadMeansExhausted, ledgerVars
<1>3. \A o \in Operations : status[o] = "succeeded" => intents[o].mailbox \in Mailboxes
  BY WorkerFacts DEF LedgerTypeOK, Intent
<1>4. SucceededWasStored'
  BY <1>3 DEF WorkerInductive, SucceededWasStored, StoredGrows, ledgerVars
<1> QED
  BY <1>1, <1>2, <1>4, OneProcessMoves

\* A process goes on with its attempt: no later deadline, same row.
LEMMA GoesOn ==
  ASSUME WorkerInductive, NEW w \in Owners, UNCHANGED ledgerVars, workers[w].op # None,
         workers'[w].op = workers[w].op, workers'[w].attempt = workers[w].attempt,
         workers'[w].left \in Nat, workers'[w].left <= workers[w].left
  PROVE  ClaimIsOurs(w)' /\ LeaseStands(w)'
<1>1. workers[w] \in Worker /\ ProcessOK(w) /\ workers[w].op \in Operations /\ LedgerTypeOK
  BY WorkerFacts, HeldFacts
<1>2. ClaimIsOurs(w)'
  BY <1>1 DEF ProcessOK, ClaimIsOurs, ledgerVars
<1>3. workers[w].left \in Nat /\ lease[workers[w].op].left \in Nat
  BY <1>1, LedgerAssumption DEF Worker, LedgerTypeOK, Lease
<1>4. LeaseStands(w)'
  BY <1>1, <1>3 DEF ProcessOK, LeaseStands, ledgerVars
<1> QED
  BY <1>2, <1>4

-----------------------------------------------------------------------------
(* Receipts are made out.                                                  *)

\* Every receipt that the service makes out is one the repository takes, with a
\* delay within its bounds.
LEMMA ReceiptIsResolution ==
  ASSUME NEW n \in AttemptNumbers, NEW status_ \in {"succeeded", "failed", "dead", "retry_wait", "unknown"},
         NEW observation \in Observation \cup {None}, status_ = "succeeded" => observation # None
  PROVE  [status |-> status_,
          delay |-> IF status_ \in {"retry_wait", "unknown"} THEN retryDelay(n) ELSE 0,
          observation |-> observation] \in Resolution
<1>1. retryDelay(n) \in 1..MaxRetryDelay
  BY RetryDelayBounded, newServiceAssumption, LedgerAssumption DEF AttemptNumbers
<1> DEFINE delay == IF status_ \in {"retry_wait", "unknown"} THEN retryDelay(n) ELSE 0
<1>2. delay \in 0..MaxRetryDelay /\ (status_ \in {"retry_wait", "unknown"} <=> delay > 0)
  BY <1>1, LedgerAssumption
<1> HIDE DEF delay
<1>3. [status |-> status_, delay |-> delay, observation |-> observation] \in Resolution
  BY <1>2 DEF Resolution, validMailboxResolution
<1> QED
  BY <1>3 DEF delay

LEMMA ResolveStep ==
  ASSUME WorkerInductive, NEW w \in Owners, workers[w].op # None, UNCHANGED <<ledgerVars, crashes>>,
         NEW STATE status_, status_ \in {"succeeded", "failed", "dead", "retry_wait", "unknown"},
         NEW STATE observation, observation \in Observation \cup {None},
         status_ = "succeeded" => /\ observation # None
                                  /\ VersionOf(Intended(w)) \in stored[Intended(w).mailbox],
         status_ = "dead" => workers[w].attempt = MaxAttempts,
         resolve(w, status_, observation),
         AdapterInductive', StoredGrows, calls'[w].pc = "idle",
         \A v \in Owners \ {w} : calls'[v] = calls[v]
  PROVE  WorkerInductive'
<1> DEFINE receipt == [status |-> status_,
                       delay |-> IF status_ \in {"retry_wait", "unknown"}
                                 THEN retryDelay(workers[w].attempt) ELSE 0,
                       observation |-> observation]
           new == [pc |-> "receipt", op |-> workers[w].op, attempt |-> workers[w].attempt,
                   left |-> workers[w].left, resolution |-> receipt]
<1>1. workers[w] \in Worker /\ workers \in [Owners -> Worker] /\ workers[w].attempt \in AttemptNumbers
  BY WorkerFacts, HeldFacts
<1>2. receipt \in Resolution /\ receipt # None /\ receipt.status = status_
  BY <1>1, ReceiptIsResolution, NoReceiptAssumption
<1>3. workers' = [workers EXCEPT ![w] = new]
  BY DEF resolve
<1> HIDE DEF receipt
<1>4. new \in Worker
  BY <1>1, <1>2 DEF Worker
<1>5. /\ workers' \in [Owners -> Worker] /\ workers'[w] = new
      /\ \A v \in Owners \ {w} : workers'[v] = workers[v]
  BY <1>1, <1>3, <1>4
<1>6. /\ workers'[w].pc = "receipt" /\ workers'[w].op = workers[w].op
      /\ workers'[w].attempt = workers[w].attempt /\ workers'[w].left = workers[w].left
      /\ workers'[w].resolution = receipt
  BY <1>5
<1> HIDE DEF new
<1>7. Linked(w)'
  BY <1>2, <1>6 DEF Linked
<1>8. workers[w].left \in Nat /\ crashes' \in 0..MaxCrashes
  BY <1>1, WorkerFacts, LedgerAssumption DEF Worker
<1>9. ClaimIsOurs(w)' /\ LeaseStands(w)'
  BY <1>6, <1>8, GoesOn
<1>10. Intended(w)' = Intended(w) /\ Intended(w).mailbox \in Mailboxes
  BY <1>6, HeldFacts DEF Intended, ledgerVars, Command
<1>11. ReceiptIsTrue(w)'
  BY <1>2, <1>6, <1>10 DEF ReceiptIsTrue, StoredGrows
<1> QED
  BY <1>5, <1>7, <1>8, <1>9, <1>11, LocalStep DEF ProcessOK

\* Without a call, a step that leaves the mail core alone.
LEMMA AdapterQuiet ==
  ASSUME WorkerInductive, NEW w \in Owners, workers[w].pc # "ensure", UNCHANGED adapterVars
  PROVE  /\ AdapterInductive' /\ StoredGrows /\ calls'[w].pc = "idle"
         /\ \A v \in Owners : calls'[v] = calls[v]
<1>1. calls[w].pc = "idle" /\ AdapterInductive
  BY WorkerFacts DEF Linked, WorkerInductive
<1> QED
  BY <1>1, StutterKeeps DEF adapterVars, StoredGrows

\* OrDead turns a status into dead exactly with the last attempt.
LEMMA OrDeadFacts ==
  ASSUME WorkerInductive, NEW w \in Owners, workers[w].op # None, NEW status_ \in {"unknown", "retry_wait"}
  PROVE  /\ OrDead(w, status_) \in {"dead", status_}
         /\ OrDead(w, status_) = "dead" => workers[w].attempt = MaxAttempts
<1>1. workers[w].attempt \in 1..MaxAttempts
  BY HeldFacts DEF AttemptNumbers
<1> QED
  BY <1>1, LedgerAssumption DEF OrDead

LEMMA ResolveUncertainStep ==
  ASSUME WorkerInductive, NEW w \in Owners, workers[w].op # None, UNCHANGED <<ledgerVars, crashes>>,
         NEW STATE observation, observation \in Observation \cup {None},
         resolveUncertain(w, observation),
         AdapterInductive', StoredGrows, calls'[w].pc = "idle",
         \A v \in Owners \ {w} : calls'[v] = calls[v]
  PROVE  WorkerInductive'
<1>1. /\ OrDead(w, "unknown") \in {"dead", "unknown"}
      /\ OrDead(w, "unknown") = "dead" => workers[w].attempt = MaxAttempts
  BY OrDeadFacts
<1>2. resolve(w, OrDead(w, "unknown"), observation)
  BY DEF resolveUncertain
<1>3. OrDead(w, "unknown") \in {"succeeded", "failed", "dead", "retry_wait", "unknown"}
      /\ OrDead(w, "unknown") # "succeeded"
  BY <1>1
<1> QED
  BY <1>1, <1>2, <1>3, ResolveStep

LEMMA ResolveFailureStep ==
  ASSUME WorkerInductive, NEW w \in Owners, workers[w].op # None, UNCHANGED <<ledgerVars, crashes>>,
         NEW STATE class, class \in ErrorClass, resolveAdapterFailure(w, class),
         AdapterInductive', StoredGrows, calls'[w].pc = "idle",
         \A v \in Owners \ {w} : calls'[v] = calls[v]
  PROVE  WorkerInductive'
<1> DEFINE new == CASE class = "permanent" -> "failed"
                    [] class = "retryable" -> OrDead(w, "retry_wait")
                    [] class = "unknown"   -> OrDead(w, "unknown")
<1>1. /\ new \in {"failed", "dead", "retry_wait", "unknown"}
      /\ new = "dead" => workers[w].attempt = MaxAttempts
  <2>1. CASE class = "permanent"
    BY <2>1
  <2>2. CASE class = "retryable"
    BY <2>2, OrDeadFacts
  <2>3. CASE class = "unknown"
    BY <2>3, OrDeadFacts
  <2> QED
    BY <2>1, <2>2, <2>3 DEF ErrorClass
<1>2. resolve(w, new, None)
  BY DEF resolveAdapterFailure
<1> HIDE DEF new
<1>3. /\ new \in {"succeeded", "failed", "dead", "retry_wait", "unknown"} /\ new # "succeeded"
      /\ None \in Observation \cup {None}
  BY <1>1
<1> QED
  BY <1>1, <1>2, <1>3, ResolveStep

-----------------------------------------------------------------------------
(* Execute.                                                                *)

\* The process moves on within its attempt; nothing is sent to the database.
LEMMA AdvanceStep ==
  ASSUME WorkerInductive, NEW w \in Owners, workers[w].op # None, workers[w].pc # "receipt",
         UNCHANGED <<ledgerVars, crashes>>,
         NEW pc_ \in {"inspect", "ensure", "verify"},
         NEW STATE left_, left_ \in Nat, left_ <= workers[w].left,
         workers' = [workers EXCEPT ![w].pc = pc_, ![w].left = left_],
         AdapterInductive', StoredGrows, calls'[w].pc # "idle" <=> pc_ = "ensure",
         \A v \in Owners \ {w} : calls'[v] = calls[v]
  PROVE  WorkerInductive'
<1>1. workers[w] \in Worker /\ workers \in [Owners -> Worker] /\ workers[w].resolution = None
  BY WorkerFacts DEF Linked
<1>2. left_ \in 0..LeaseDuration
  BY <1>1, LedgerAssumption DEF Worker
<1>3. workers' \in [Owners -> Worker] /\ \A v \in Owners \ {w} : workers'[v] = workers[v]
  BY <1>1, <1>2 DEF Worker
<1>4. /\ workers'[w].pc = pc_ /\ workers'[w].op = workers[w].op
      /\ workers'[w].attempt = workers[w].attempt /\ workers'[w].left = left_
      /\ workers'[w].resolution = None
  BY <1>1 DEF Worker
<1>5. Linked(w)'
  BY <1>4 DEF Linked
<1>6. ProcessOK(w)'
  BY <1>4, GoesOn DEF ProcessOK, ReceiptIsTrue
<1>7. crashes' \in 0..MaxCrashes
  BY WorkerFacts
<1> QED
  BY <1>3, <1>5, <1>6, <1>7, LocalStep

LEMMA ToEnsureStep ==
  ASSUME WorkerInductive, NEW w \in Owners, workers[w].op # None,
         workers[w].pc \in {"claimed", "inspect", "verify"},
         UNCHANGED <<ledgerVars, crashes>>,
         NEW STATE left_, left_ \in Nat, left_ <= workers[w].left, ToEnsure(w, left_)
  PROVE  WorkerInductive'
<1>1. Intended(w) \in Command /\ EnsureMailbox(w, Intended(w)) /\ AdapterInductive
  BY HeldFacts DEF ToEnsure, WorkerInductive
<1>2. AdapterInductive'
  BY <1>1, EnsureMailboxStep
<1>3. /\ calls'[w].pc = "lookup" /\ StoredGrows
      /\ \A v \in Owners \ {w} : calls'[v] = calls[v]
  BY <1>1, WorkerFacts DEF EnsureMailbox, AdapterTypeOK, StoredGrows
<1>4. workers' = [workers EXCEPT ![w].pc = "ensure", ![w].left = left_]
  BY DEF ToEnsure
<1> QED
  BY <1>2, <1>3, <1>4, AdvanceStep

LEMMA ExecuteStep ==
  ASSUME WorkerInductive, NEW w \in Owners, Execute(w) PROVE WorkerInductive'
<1> DEFINE left_ == AttemptLeft(w)
<1>1. /\ workers[w] \in Worker /\ workers[w].op # None /\ workers[w].pc = "claimed"
      /\ UNCHANGED <<ledgerVars, crashes>>
  BY WorkerFacts DEF Execute, Linked
<1>2. left_ \in Nat /\ left_ <= workers[w].left
  BY <1>1, newServiceAssumption, LedgerAssumption DEF AttemptLeft, Worker
<1>3. CASE resolveUncertain(w, None) /\ UNCHANGED adapterVars
  <2>1. None \in Observation \cup {None}
    OBVIOUS
  <2> QED
    BY <1>1, <1>3, <2>1, AdapterQuiet, ResolveUncertainStep
<1>4. CASE /\ workers' = [workers EXCEPT ![w].pc = "inspect", ![w].left = left_]
           /\ UNCHANGED adapterVars
  BY <1>1, <1>2, <1>4, AdapterQuiet, AdvanceStep
<1>5. CASE ToEnsure(w, left_)
  BY <1>1, <1>2, <1>5, ToEnsureStep
<1> QED
  BY <1>3, <1>4, <1>5 DEF Execute

LEMMA InspectFailsStep ==
  ASSUME WorkerInductive, NEW w \in Owners, InspectFails(w) PROVE WorkerInductive'
<1>1. /\ workers[w].op # None /\ workers[w].pc # "ensure"
      /\ UNCHANGED <<ledgerVars, adapterVars, crashes>> /\ resolveAdapterFailure(w, "unknown")
      /\ "unknown" \in ErrorClass
  BY WorkerFacts DEF InspectFails, Linked, ErrorClass
<1> QED
  BY <1>1, AdapterQuiet, ResolveFailureStep

\* What an inspection reports is an observation, and one that shows a version
\* shows one that was stored.
LEMMA SeenFacts ==
  ASSUME WorkerInductive, NEW w \in Owners, workers[w].op # None,
         accounts[Intended(w).mailbox].owner # "foreign"
  PROVE  /\ InspectMailbox(Intended(w)) \in Observation
         /\ matchesDesired(w, InspectMailbox(Intended(w))) =>
              VersionOf(Intended(w)) \in stored[Intended(w).mailbox]
<1> DEFINE m == Intended(w).mailbox
           a == accounts[m]
<1>1. Intended(w) \in Command /\ m \in Mailboxes /\ AdapterInductive /\ a \in Account
  BY HeldFacts, WorkerFacts DEF Command, WorkerInductive, AdapterTypeOK
<1>2. CASE a.owner = "nobody"
  <2>1. InspectMailbox(Intended(w)) = [mailbox |-> m, status |-> "absent", revision |-> 0, hash |-> None]
    BY <1>2 DEF InspectMailbox
  <2> QED
    BY <1>1, <2>1 DEF Observation, matchesDesired
<1>3. CASE a.owner = "control_plane"
  <2>1. InspectMailbox(Intended(w)) = [mailbox |-> m, status |-> "active",
                                       revision |-> a.revision, hash |-> a.hash]
    BY <1>3 DEF InspectMailbox
  <2>2. VersionOf(a) \in stored[m] /\ VersionOf(a) \in Version
    BY <1>1, <1>3, AccountVersion
  <2>3. a.revision \in 1..MaxRevision /\ a.hash \in Hashes
    BY <2>2 DEF VersionOf, Version
  <2> QED
    BY <1>1, <2>1, <2>2, <2>3 DEF Observation, matchesDesired, VersionOf
<1> QED
  BY <1>1, <1>2, <1>3 DEF Account

LEMMA InspectSeesStep ==
  ASSUME WorkerInductive, NEW w \in Owners, InspectSees(w) PROVE WorkerInductive'
<1> DEFINE seen == InspectMailbox(Intended(w))
<1>1. /\ workers[w] \in Worker /\ workers[w].op # None /\ workers[w].pc \in {"inspect", "verify"}
      /\ UNCHANGED <<ledgerVars, crashes>>
      /\ accounts[Intended(w).mailbox].owner # "foreign"
  BY WorkerFacts DEF InspectSees, Linked
<1>2. /\ seen \in Observation /\ seen # None
      /\ matchesDesired(w, seen) => VersionOf(Intended(w)) \in stored[Intended(w).mailbox]
  BY <1>1, SeenFacts, NullAssumption
<1>3. workers[w].left \in Nat
  BY <1>1, LedgerAssumption DEF Worker
<1>4. \/ matchesDesired(w, seen) /\ resolve(w, "succeeded", seen) /\ UNCHANGED adapterVars
      \/ resolveUncertain(w, seen) /\ UNCHANGED adapterVars
      \/ ToEnsure(w, workers[w].left)
  BY DEF InspectSees
<1> HIDE DEF seen
<1>5. seen \in Observation \cup {None}
  BY <1>2
<1>6. CASE matchesDesired(w, seen) /\ resolve(w, "succeeded", seen) /\ UNCHANGED adapterVars
  BY <1>1, <1>2, <1>5, <1>6, AdapterQuiet, ResolveStep
<1>7. CASE resolveUncertain(w, seen) /\ UNCHANGED adapterVars
  BY <1>1, <1>5, <1>7, AdapterQuiet, ResolveUncertainStep
<1>8. CASE ToEnsure(w, workers[w].left)
  BY <1>1, <1>3, <1>8, ToEnsureStep
<1> QED
  BY <1>4, <1>6, <1>7, <1>8

-----------------------------------------------------------------------------
(* The running EnsureMailbox.                                              *)

LEMMA ReadStepMoves ==
  ASSUME AdapterInductive, NEW w \in Owners, ReadStep(w) \/ AnswerStep(w) \/ LookupFails(w, "retryable")
  PROVE  /\ StoredGrows /\ calls'[w].pc # "idle"
         /\ \A v \in Owners \ {w} : calls'[v] = calls[v]
<1>1. calls \in [Owners -> Call] /\ calls[w] \in Call
  BY DEF AdapterInductive, AdapterTypeOK
<1>2. stored' = stored
  BY DEF ReadStep, AnswerStep, LookupFails, LookupFindsAccount, LookupFindsNothing, Receive, GiveUp
<1>3. \/ \E result : Finish(w, result)
      \/ \E method : Send(w, method)
      \/ calls' = [calls EXCEPT ![w].pc = "lookup"]
  BY DEF ReadStep, AnswerStep, LookupFails, LookupFindsAccount, LookupFindsNothing, Receive, GiveUp,
     ensureExistingAccount
<1>4. ASSUME NEW result, Finish(w, result)
      PROVE  calls'[w].pc = "done" /\ \A v \in Owners \ {w} : calls'[v] = calls[v]
  BY <1>1, <1>4 DEF Finish, Call
<1>5. ASSUME NEW method, Send(w, method)
      PROVE  calls'[w].pc = "waiting" /\ \A v \in Owners \ {w} : calls'[v] = calls[v]
  BY <1>1, <1>5 DEF Send, Call
<1>6. CASE calls' = [calls EXCEPT ![w].pc = "lookup"]
  <2>1. calls'[w].pc = "lookup" /\ \A v \in Owners \ {w} : calls'[v] = calls[v]
    BY <1>1, <1>6 DEF Call
  <2> QED
    BY <2>1, <1>2 DEF StoredGrows
<1> QED
  BY <1>2, <1>3, <1>4, <1>5, <1>6 DEF StoredGrows

LEMMA EnsureRunsStep ==
  ASSUME WorkerInductive, NEW w \in Owners, EnsureStep(w) PROVE WorkerInductive'
<1>1. /\ workers[w].pc = "ensure" /\ UNCHANGED <<ledgerVars, workers, crashes>> /\ AdapterInductive
      /\ ReadStep(w) \/ AnswerStep(w) \/ LookupFails(w, "retryable")
  BY DEF EnsureStep, WorkerInductive
<1>2. AdapterInductive'
  BY <1>1, ReadStepKeeps, AnswerStepKeeps, LookupFailsStep
<1>3. /\ StoredGrows /\ calls'[w].pc # "idle" /\ \A v \in Owners \ {w} : calls'[v] = calls[v]
  BY <1>1, ReadStepMoves
<1>4. Linked(w)' /\ workers' \in [Owners -> Worker] /\ crashes' \in 0..MaxCrashes
  BY <1>1, <1>3, WorkerFacts DEF Linked
<1>5. LeaseKept(w)
  BY <1>1 DEF LeaseKept, ledgerVars
<1>6. ProcessOK(w)'
  BY <1>1, <1>3, <1>5, ProcessKept
<1> QED
  BY <1>1, <1>2, <1>3, <1>4, <1>6, LocalStep

LEMMA EnsureDoneStep ==
  ASSUME WorkerInductive, NEW w \in Owners, EnsureDone(w) PROVE WorkerInductive'
<1>1. /\ workers[w] \in Worker /\ workers[w].pc = "ensure" /\ workers[w].op # None
      /\ UNCHANGED <<ledgerVars, crashes>>
      /\ AdapterInductive /\ Return(w) /\ calls[w].pc = "done" /\ calls \in [Owners -> Call]
  BY WorkerFacts DEF EnsureDone, Linked, WorkerInductive, AdapterTypeOK
<1>2. AdapterInductive'
  BY <1>1, ReturnKeeps
<1>3. /\ StoredGrows /\ calls'[w].pc = "idle" /\ \A v \in Owners \ {w} : calls'[v] = calls[v]
  BY <1>1 DEF Return, NoCall, StoredGrows
<1>4. CASE calls[w].result = "ok"
  <2>1. workers' = [workers EXCEPT ![w].pc = "verify"]
    BY <1>4 DEF EnsureDone
  <2> DEFINE left_ == workers[w].left
  <2>2. workers' = [workers EXCEPT ![w].pc = "verify", ![w].left = left_]
    BY <2>1, <1>1, WorkerFacts DEF Worker
  <2>3. left_ \in Nat /\ left_ <= workers[w].left /\ workers[w].pc # "receipt"
    BY <1>1, LedgerAssumption DEF Worker
  <2>4. calls'[w].pc # "idle" <=> "verify" = "ensure"
    BY <1>3
  <2> HIDE DEF left_
  <2> QED
    BY <1>1, <1>2, <1>3, <2>2, <2>3, <2>4, AdvanceStep
<1>5. CASE calls[w].result # "ok"
  <2>1. CallOK(w) /\ calls[w] \in Call
    BY <1>1 DEF AdapterInductive, CallsOK
  <2>2. calls[w].result \in ErrorClass
    BY <1>1, <1>5, <2>1 DEF CallOK, Call
  <2>3. resolveAdapterFailure(w, calls[w].result)
    BY <1>5 DEF EnsureDone
  <2> QED
    BY <1>1, <1>2, <1>3, <2>2, <2>3, ResolveFailureStep
<1> QED
  BY <1>4, <1>5

-----------------------------------------------------------------------------
(* What the statements of the ledger do to the operations and leases.      *)

\* Intents stay within the bound on revisions.
LEMMA RevisionsKept ==
  ASSUME LedgerTypeOK, RevisionsBounded, [LedgerNext]_ledgerVars
  PROVE  RevisionsBounded'
<1>1. ASSUME NEW o \in Operations, NEW m \in Mailboxes, NEW hash, NEW rev \in 1..MaxRevision, NEW desired,
             InsertIntent(o, m, rev, hash),
             mailboxes' = [mailboxes EXCEPT ![m] = [revision |-> rev, desired_status |-> desired]]
      PROVE  RevisionsBounded'
  <2>1. /\ intents'[o].revision = rev /\ mailboxes'[m].revision = rev
        /\ \A x \in Operations \ {o} : intents'[x] = intents[x]
        /\ \A x \in Mailboxes \ {m} : mailboxes'[x] = mailboxes[x]
    BY <1>1 DEF InsertIntent, LedgerTypeOK
  <2> QED
    BY <2>1, LedgerAssumption DEF RevisionsBounded
<1>2. ASSUME NEW o \in Operations, NEW m \in Mailboxes, NEW hash \in Hashes, RequestMailbox(o, m, hash)
      PROVE  RevisionsBounded'
  <2>1. 1 \in 1..MaxRevision
    BY LedgerAssumption
  <2> QED
    BY <1>1, <1>2, <2>1 DEF RequestMailbox
<1>3. ASSUME NEW o \in Operations, NEW m \in Mailboxes, NEW hash \in Hashes,
             NEW desired \in {"active", "suspended"}, ReviseMailbox(o, m, hash, desired)
      PROVE  RevisionsBounded'
  <2>1. mailboxes[m].revision + 1 \in 1..MaxRevision
    BY <1>3, LedgerAssumption DEF ReviseMailbox, LedgerTypeOK, Mailbox
  <2> QED
    BY <1>1, <1>3, <2>1 DEF ReviseMailbox
<1>4. CASE UNCHANGED <<intents, mailboxes>>
  BY <1>4 DEF RevisionsBounded
<1> QED
  BY <1>2, <1>3, <1>4 DEF LedgerNext, FinalizeMailboxOperationBeforeClaim, ClaimMailboxOperation,
     ResolveMailboxOperation, Tick, ledgerVars

\* A step of one operation keeps what is so of the dead and the succeeded ones.
LEMMA OutcomesKept ==
  ASSUME WorkerInductive, [LedgerNext]_ledgerVars, StoredGrows, NEW o \in Operations,
         \A x \in Operations \ {o} : status'[x] = status[x] /\ attempt_count'[x] = attempt_count[x],
         status'[o] = "dead" => attempt_count'[o] = MaxAttempts,
         status'[o] = "succeeded" => /\ intents'[o] = intents[o] /\ intents[o].mailbox \in Mailboxes
                                     /\ VersionOf(intents[o]) \in stored[intents[o].mailbox]
  PROVE  DeadMeansExhausted' /\ SucceededWasStored'
<1>1. DeadMeansExhausted'
  BY DEF WorkerInductive, DeadMeansExhausted
<1>2. ASSUME NEW x \in Operations, status'[x] = "succeeded"
      PROVE  VersionOf(intents'[x]) \in stored'[intents'[x].mailbox]
  <2>1. CASE x = o
    BY <1>2, <2>1 DEF StoredGrows
  <2>2. CASE x # o
    <3>1. status[x] = "succeeded" /\ intents[x] \in Intent /\ intents[x] # None
      BY <1>2, <2>2, WorkerFacts, NullAssumption DEF LedgerTypeOK
    <3>2. intents'[x] = intents[x]
      BY <3>1, NextAppends DEF WorkerInductive, Appends
    <3>3. VersionOf(intents[x]) \in stored[intents[x].mailbox]
      BY <3>1 DEF WorkerInductive, SucceededWasStored, VersionOf
    <3> QED
      BY <3>1, <3>2, <3>3 DEF StoredGrows, Intent
  <2> QED
    BY <2>1, <2>2
<1>3. SucceededWasStored'
  BY <1>2 DEF SucceededWasStored, VersionOf
<1> QED
  BY <1>1, <1>3

\* A process starts afresh.
LEMMA IdleProcess ==
  ASSUME WorkerInductive, NEW w \in Owners, workers' = [workers EXCEPT ![w] = Idle], calls'[w].pc = "idle"
  PROVE  /\ workers' \in [Owners -> Worker] /\ \A v \in Owners \ {w} : workers'[v] = workers[v]
         /\ Linked(w)' /\ ProcessOK(w)'
<1>1. workers \in [Owners -> Worker] /\ Idle \in Worker
  BY WorkerFacts, LedgerAssumption DEF Idle, Worker
<1>2. /\ workers' \in [Owners -> Worker] /\ \A v \in Owners \ {w} : workers'[v] = workers[v]
      /\ workers'[w] = Idle
  BY <1>1
<1>3. workers'[w].pc = "idle" /\ workers'[w].op = None /\ workers'[w].resolution = None
  BY <1>2 DEF Idle
<1>4. Linked(w)'
  BY <1>3 DEF Linked
<1>5. ProcessOK(w)'
  BY <1>3 DEF ProcessOK, ClaimIsOurs, LeaseStands, ReceiptIsTrue
<1> QED
  BY <1>2, <1>4, <1>5

LEMMA ReceiptTooLateStep ==
  ASSUME WorkerInductive, NEW w \in Owners, ReceiptTooLate(w) PROVE WorkerInductive'
<1>1. /\ workers[w].pc # "ensure" /\ workers' = [workers EXCEPT ![w] = Idle]
      /\ UNCHANGED <<ledgerVars, adapterVars, crashes>> /\ crashes' \in 0..MaxCrashes
  BY WorkerFacts DEF ReceiptTooLate
<1> QED
  BY <1>1, AdapterQuiet, IdleProcess, LocalStep

LEMMA CrashStep ==
  ASSUME WorkerInductive, NEW w \in Owners, Crash(w) PROVE WorkerInductive'
<1>1. /\ workers' = [workers EXCEPT ![w] = Idle] /\ UNCHANGED ledgerVars
      /\ Forget(w) /\ AdapterInductive /\ calls \in [Owners -> Call]
      /\ crashes' = crashes + 1 /\ crashes < MaxCrashes
  BY WorkerFacts DEF Crash, Forget, WorkerInductive, AdapterTypeOK
<1>2. AdapterInductive'
  BY <1>1, ForgetStep
<1>3. StoredGrows /\ calls'[w].pc = "idle" /\ \A v \in Owners \ {w} : calls'[v] = calls[v]
  BY <1>1 DEF Forget, NoCall, StoredGrows
<1>4. crashes' \in 0..MaxCrashes
  BY <1>1, WorkerFacts, newServiceAssumption
<1> QED
  BY <1>1, <1>2, <1>3, <1>4, IdleProcess, LocalStep

\* Finalize takes a live lease from nobody but a superseded attempt.
LEMMA FinalizeFacts ==
  ASSUME WorkerInductive, StoredGrows, NEW o \in Operations, FinalizeMailboxOperationBeforeClaim(o)
  PROVE  /\ \A v \in Owners : LeaseKept(v)
         /\ DeadMeansExhausted' /\ SucceededWasStored'
<1>0. LedgerTypeOK /\ LedgerInductive /\ LedgerNext
  BY WorkerFacts DEF WorkerInductive, LedgerNext
<1>1. /\ status[o] \in Unfinished /\ LedgerTypeOK /\ LedgerInductive /\ [LedgerNext]_ledgerVars
      /\ Superseded(o) \/ Exhausted(o)
      /\ status'[o] = FinalResult(o) /\ attempt_count' = attempt_count
      /\ \A x \in Operations \ {o} : status'[x] = status[x] /\ lease'[x] = lease[x]
  BY <1>0 DEF FinalizeMailboxOperationBeforeClaim, LedgerTypeOK, ReleaseLease
<1>2. ASSUME NEW v \in Owners PROVE LeaseKept(v)
  <2> SUFFICES ASSUME workers[v].op # None, workers[v].left > 0, workers[v].op = o
               PROVE  status'[o] = "superseded"
    BY <1>1, HeldFacts DEF LeaseKept
  <2>1. status[o] = "running" /\ lease[o].left >= workers[v].left /\ workers[v].left \in Nat
        /\ lease[o].left \in Nat
    BY <1>1, WorkerFacts, LedgerAssumption DEF ProcessOK, LeaseStands, Worker, LedgerTypeOK, Lease
  <2>2. Superseded(o)
    BY <1>1, <2>1 DEF Exhausted
  <2> QED
    BY <1>1, <2>2 DEF FinalResult
<1>3. status'[o] = "dead" => attempt_count'[o] = MaxAttempts
  <2>1. attempt_count[o] <= MaxAttempts /\ attempt_count[o] \in Nat
    BY <1>1 DEF LedgerInductive, AttemptMatchesLease, LedgerTypeOK
  <2> QED
    BY <1>1, <2>1, LedgerAssumption DEF FinalResult, Exhausted
<1>4. status'[o] # "succeeded"
  BY <1>1 DEF FinalResult
<1> QED
  BY <1>1, <1>2, <1>3, <1>4, OutcomesKept

LEMMA ClaimNextFinalizeStep ==
  ASSUME WorkerInductive, NEW w \in Owners, ClaimNextFinalize(w) PROVE WorkerInductive'
<1>1. /\ workers[w].pc = "idle" /\ workers' = [workers EXCEPT ![w].pc = "claiming"]
      /\ UNCHANGED <<adapterVars, crashes>> /\ workers \in [Owners -> Worker]
      /\ crashes' \in 0..MaxCrashes /\ Linked(w) /\ ProcessOK(w) /\ workers[w] \in Worker
  BY WorkerFacts DEF ClaimNextFinalize
<1>2. /\ workers' \in [Owners -> Worker] /\ \A v \in Owners \ {w} : workers'[v] = workers[v]
      /\ workers'[w].pc = "claiming" /\ workers'[w].op = None /\ workers'[w].resolution = None
  BY <1>1 DEF Worker, Linked
<1>3. AdapterInductive' /\ StoredGrows /\ calls'[w].pc = "idle" /\ \A v \in Owners : calls'[v] = calls[v]
  BY <1>1, AdapterQuiet
<1>4. Linked(w)' /\ ProcessOK(w)'
  BY <1>2, <1>3 DEF Linked, ProcessOK, ClaimIsOurs, LeaseStands, ReceiptIsTrue
<1>5. CASE UNCHANGED ledgerVars
  BY <1>1, <1>2, <1>3, <1>4, <1>5, LocalStep
<1>6. ASSUME NEW o \in Operations, FinalizeMailboxOperationBeforeClaim(o)
      PROVE  WorkerInductive'
  <2>1. LedgerNext
    BY <1>6 DEF LedgerNext
  <2>2. RevisionsBounded'
    BY <2>1, WorkerFacts, RevisionsKept DEF WorkerInductive
  <2> QED
    BY <1>1, <1>2, <1>3, <1>4, <1>6, <2>1, <2>2, FinalizeFacts, OneProcessMoves
<1> QED
  BY <1>5, <1>6 DEF ClaimNextFinalize

\* A claim goes to the worker with a lease that covers its deadline, and takes
\* no operation whose worker may still be at work.
LEMMA ClaimStep ==
  ASSUME WorkerInductive, NEW w \in Owners, workers[w].pc = "claiming",
         NEW o \in Operations, ClaimMailboxOperation(o, w),
         workers' = [workers EXCEPT ![w] =
                       [pc |-> "claimed", op |-> o, attempt |-> attempt_count[o] + 1,
                        left |-> LeaseDuration, resolution |-> None]],
         UNCHANGED <<adapterVars, crashes>>
  PROVE  WorkerInductive'
<1> DEFINE n == attempt_count[o] + 1
           new == [pc |-> "claimed", op |-> o, attempt |-> n, left |-> LeaseDuration,
                   resolution |-> None]
<1>0. LedgerTypeOK /\ LedgerInductive /\ LedgerNext
  BY WorkerFacts DEF WorkerInductive, LedgerNext
<1>1. /\ Claimable(o) /\ status[o] \in Unfinished /\ attempt_count[o] < MaxAttempts
      /\ attempt_count[o] \in Nat /\ lease[o].epoch = attempt_count[o]
      /\ status[o] = "running" => lease[o].left = 0
  BY <1>0 DEF ClaimMailboxOperation, Claimable, LedgerTypeOK, LedgerInductive, EpochIsAttemptNumber
<1>2. n \in 1..MaxAttempts
  BY <1>1, LedgerAssumption
<1>3. /\ status'[o] = "running" /\ lease'[o].owner = w /\ lease'[o].epoch = n
      /\ lease'[o].left = LeaseDuration
      /\ \A x \in Operations \ {o} : /\ status'[x] = status[x] /\ lease'[x] = lease[x]
                                    /\ attempt_count'[x] = attempt_count[x]
  BY <1>0, <1>1 DEF ClaimMailboxOperation, GrantLease, LedgerTypeOK
<1>4. claims'[o][n] = [owner |-> w, epoch |-> lease'[o].epoch, prior_status |-> status[o],
                       revision |-> intents[o].revision]
  BY <1>0, <1>2 DEF ClaimMailboxOperation, OpenAttempt, LedgerTypeOK, AttemptNumbers
<1>5. claims'[o][n].owner = w /\ claims'[o][n] # None
  <2>1. intents[o] \in Intent
    BY <1>0, <1>1 DEF LedgerTypeOK
  <2>2. claims'[o][n] \in Claim
    BY <1>1, <1>2, <1>3, <1>4, <2>1 DEF Claim, Intent
  <2> QED
    BY <1>4, <2>2, NullAssumption
<1>6. workers \in [Owners -> Worker] /\ new \in Worker /\ workers' = [workers EXCEPT ![w] = new]
  BY <1>2, WorkerFacts, LedgerAssumption DEF Worker
<1>7. /\ workers' \in [Owners -> Worker] /\ \A v \in Owners \ {w} : workers'[v] = workers[v]
      /\ workers'[w].pc = "claimed" /\ workers'[w].op = o /\ workers'[w].attempt = n
      /\ workers'[w].left = LeaseDuration /\ workers'[w].resolution = None
  BY <1>6
<1> HIDE DEF n, new
<1>8. AdapterInductive' /\ StoredGrows /\ calls'[w].pc = "idle" /\ \A v \in Owners : calls'[v] = calls[v]
  BY AdapterQuiet
<1>9. Linked(w)'
  BY <1>7, <1>8, LedgerAssumption DEF Linked
<1>10. ProcessOK(w)'
  BY <1>2, <1>3, <1>5, <1>7, LedgerAssumption
  DEF ProcessOK, ClaimIsOurs, LeaseStands, ReceiptIsTrue, AttemptNumbers
<1>11. ASSUME NEW v \in Owners \ {w} PROVE LeaseKept(v)
  <2> SUFFICES ASSUME workers[v].op # None, workers[v].left > 0, workers[v].op = o PROVE FALSE
    BY <1>3, HeldFacts DEF LeaseKept
  <2>1. workers[v].left \in Nat /\ lease[o].left \in Nat /\ LeaseStands(v)
    BY <1>0, WorkerFacts, LedgerAssumption DEF ProcessOK, Worker, LedgerTypeOK, Lease
  <2>2. status[o] = "running" /\ lease[o].left >= workers[v].left
    BY <1>1, <2>1 DEF LeaseStands
  <2> QED
    BY <1>1, <2>1, <2>2
<1>12. RevisionsBounded' /\ DeadMeansExhausted' /\ SucceededWasStored'
  BY <1>0, <1>3, <1>8, RevisionsKept, OutcomesKept DEF WorkerInductive
<1>13. crashes' \in 0..MaxCrashes
  BY WorkerFacts
<1> QED
  BY <1>0, <1>7, <1>8, <1>9, <1>10, <1>11, <1>12, <1>13, OneProcessMoves

LEMMA ClaimNextClaimStep ==
  ASSUME WorkerInductive, NEW w \in Owners, ClaimNextClaim(w) PROVE WorkerInductive'
<1>1. workers[w].pc = "claiming" /\ UNCHANGED <<adapterVars, crashes>> /\ crashes' \in 0..MaxCrashes
  BY WorkerFacts DEF ClaimNextClaim
<1>2. ASSUME NEW o \in Operations, ClaimMailboxOperation(o, w),
             workers' = [workers EXCEPT ![w] =
                           [pc |-> "claimed", op |-> o, attempt |-> attempt_count[o] + 1,
                            left |-> LeaseDuration, resolution |-> None]]
      PROVE  WorkerInductive'
  BY <1>1, <1>2, ClaimStep
<1>3. CASE workers' = [workers EXCEPT ![w] = Idle] /\ UNCHANGED ledgerVars
  BY <1>1, <1>3, AdapterQuiet, IdleProcess, LocalStep
<1> QED
  BY <1>2, <1>3 DEF ClaimNextClaim

\* A receipt is accepted from the holder of the lease only.
LEMMA AcceptedStep ==
  ASSUME WorkerInductive, NEW w \in Owners, workers[w].pc = "receipt",
         ResolveMailboxOperation(workers[w].op, workers[w].attempt, workers[w].resolution),
         workers' = [workers EXCEPT ![w] = Idle], UNCHANGED <<adapterVars, crashes>>
  PROVE  WorkerInductive' /\ LedgerNext
<1> DEFINE o == workers[w].op
           n == workers[w].attempt
           r == workers[w].resolution
<1>0. /\ LedgerTypeOK /\ LedgerInductive /\ workers[w] \in Worker /\ ProcessOK(w)
      /\ o # None /\ r # None
  BY WorkerFacts DEF WorkerInductive, Linked
<1>1. /\ o \in Operations /\ n \in AttemptNumbers /\ r \in Resolution
      /\ claims[o][n].epoch = n /\ Intended(w) \in Command
  BY <1>0, HeldFacts DEF Worker
<1>2. LedgerNext
  BY <1>1 DEF LedgerNext
<1>3. /\ status[o] = "running" /\ lease[o].owner = claims[o][n].owner /\ lease[o].epoch = n
      /\ attempt_count[o] = n
      /\ status'[o] = r.status /\ attempt_count' = attempt_count /\ intents' = intents
      /\ \A x \in Operations \ {o} : status'[x] = status[x] /\ lease'[x] = lease[x]
  BY <1>0, <1>1 DEF ResolveMailboxOperation, Fenced, ReleaseLease, LedgerTypeOK
<1>4. claims[o][n].owner = w
  BY <1>0 DEF ProcessOK, ClaimIsOurs
<1>5. ASSUME NEW v \in Owners \ {w} PROVE LeaseKept(v)
  <2> SUFFICES ASSUME workers[v].op # None, workers[v].left > 0, workers[v].op = o PROVE FALSE
    BY <1>3, HeldFacts DEF LeaseKept
  <2>1. LeaseStands(v)
    BY WorkerFacts DEF ProcessOK
  <2> QED
    BY <1>3, <1>4, <2>1 DEF LeaseStands
<1>6. /\ r.status = "dead" => n = MaxAttempts
      /\ r.status = "succeeded" => VersionOf(intents[o]) \in stored[intents[o].mailbox]
      /\ intents[o].mailbox \in Mailboxes
  BY <1>0, <1>1 DEF ProcessOK, ReceiptIsTrue, Intended, Command
<1>7. AdapterInductive' /\ StoredGrows /\ calls'[w].pc = "idle" /\ \A v \in Owners : calls'[v] = calls[v]
  BY AdapterQuiet
<1>8. RevisionsBounded'
  BY <1>0, <1>2, RevisionsKept DEF WorkerInductive
<1>9. DeadMeansExhausted' /\ SucceededWasStored'
  BY <1>1, <1>2, <1>3, <1>6, <1>7, OutcomesKept
<1>10. crashes' \in 0..MaxCrashes
  BY WorkerFacts
<1> QED
  BY <1>2, <1>5, <1>7, <1>8, <1>9, <1>10, IdleProcess, OneProcessMoves

LEMMA SendReceiptStep ==
  ASSUME WorkerInductive, NEW w \in Owners, SendReceipt(w) PROVE WorkerInductive'
<1>1. /\ workers[w].pc = "receipt" /\ workers' = [workers EXCEPT ![w] = Idle]
      /\ UNCHANGED <<adapterVars, crashes>> /\ crashes' \in 0..MaxCrashes
  BY WorkerFacts DEF SendReceipt
<1>2. CASE UNCHANGED ledgerVars
  BY <1>1, <1>2, AdapterQuiet, IdleProcess, LocalStep
<1>3. CASE ResolveMailboxOperation(workers[w].op, workers[w].attempt, workers[w].resolution)
  BY <1>1, <1>3, AcceptedStep
<1> QED
  BY <1>2, <1>3 DEF SendReceipt

-----------------------------------------------------------------------------
(* Steps of nobody in particular.                                          *)

LEMMA AllProcesses ==
  ASSUME WorkerInductive, [LedgerNext]_ledgerVars, AdapterInductive', StoredGrows,
         workers' \in [Owners -> Worker], UNCHANGED crashes,
         \A v \in Owners : Linked(v)' /\ ProcessOK(v)', DeadMeansExhausted', SucceededWasStored'
  PROVE  WorkerInductive'
<1>1. WorkerTypeOK'
  BY WorkerFacts DEF WorkerTypeOK, Linked
<1>2. LedgerInductive' /\ RevisionsBounded'
  BY WorkerFacts, NextInductive, RevisionsKept DEF WorkerInductive
<1> QED
  BY <1>1, <1>2 DEF WorkerInductive

\* A new intent is for an operation that no worker holds.
LEMMA IntentionStep ==
  ASSUME WorkerInductive, Intention PROVE WorkerInductive'
<1>0. /\ LedgerTypeOK /\ LedgerNext /\ AdapterInductive /\ UNCHANGED <<adapterVars, workers, crashes>>
  BY WorkerFacts DEF Intention, LedgerNext, WorkerInductive
<1>1. PICK o \in Operations : \E m, hash, rev : InsertIntent(o, m, rev, hash)
  BY DEF Intention, RequestMailbox, ReviseMailbox
<1>2. /\ status[o] = "absent" /\ status'[o] = "pending" /\ lease' = lease
      /\ attempt_count' = attempt_count /\ \A x \in Operations \ {o} : status'[x] = status[x]
  BY <1>0, <1>1 DEF InsertIntent, LedgerTypeOK
<1>3. AdapterInductive' /\ StoredGrows /\ calls' = calls
  BY <1>0, StutterKeeps DEF adapterVars, StoredGrows
<1>4. ASSUME NEW v \in Owners PROVE Linked(v)' /\ ProcessOK(v)'
  <2>1. LeaseKept(v)
    BY <1>2, HeldFacts DEF LeaseKept
  <2>2. ProcessOK(v)'
    BY <1>0, <1>3, <2>1, ProcessKept
  <2> QED
    BY <1>0, <1>3, <2>2, WorkerFacts DEF Linked
<1>5. DeadMeansExhausted' /\ SucceededWasStored'
  BY <1>0, <1>2, <1>3, OutcomesKept
<1>6. workers' \in [Owners -> Worker]
  BY <1>0, WorkerFacts
<1> QED
  BY <1>0, <1>3, <1>4, <1>5, <1>6, AllProcesses

\* The deadline of a worker comes no later than the end of its lease, whichever
\* of the two has already passed.
LEMMA ClockStep ==
  ASSUME WorkerInductive, Clock PROVE WorkerInductive'
<1>0. /\ LedgerTypeOK /\ LedgerNext /\ Tick /\ AdapterInductive /\ UNCHANGED <<adapterVars, crashes>>
      /\ workers \in [Owners -> Worker]
  BY WorkerFacts DEF Clock, LedgerNext, WorkerInductive
<1>1. AdapterInductive' /\ StoredGrows /\ calls' = calls
  BY <1>0, StutterKeeps DEF adapterVars, StoredGrows
<1>2. ASSUME NEW v \in Owners
      PROVE  /\ workers'[v].pc = workers[v].pc /\ workers'[v].op = workers[v].op
             /\ workers'[v].attempt = workers[v].attempt /\ workers'[v].left = Less(workers[v].left)
             /\ workers'[v].resolution = workers[v].resolution
  BY DEF Clock
<1>3. workers' \in [Owners -> Worker]
  <2>1. ASSUME NEW v \in Owners
        PROVE  [pc |-> workers[v].pc, op |-> workers[v].op, attempt |-> workers[v].attempt,
                left |-> Less(workers[v].left), resolution |-> workers[v].resolution] \in Worker
    <3>1. workers[v] \in Worker
      BY <1>0
    <3>2. Less(workers[v].left) \in 0..LeaseDuration
      BY <3>1, LedgerAssumption DEF Worker, Less
    <3> QED
      BY <3>1, <3>2 DEF Worker
  <2> QED
    BY <2>1 DEF Clock
<1>4. ASSUME NEW v \in Owners PROVE Linked(v)' /\ ProcessOK(v)'
  <2>1. Linked(v) /\ ProcessOK(v) /\ workers[v] \in Worker
    BY WorkerFacts
  <2>2. Linked(v)'
    BY <1>1, <1>2, <2>1 DEF Linked
  <2>3. ClaimIsOurs(v)' /\ ReceiptIsTrue(v)'
    BY <1>0, <1>1, <1>2, <2>1 DEF ProcessOK, ClaimIsOurs, ReceiptIsTrue, Intended, Tick, adapterVars
  <2>4. LeaseStands(v)'
    <3> SUFFICES ASSUME workers[v].op # None, Less(workers[v].left) > 0
                 PROVE  LeaseStands(v)'
      BY <1>2 DEF LeaseStands
    <3> DEFINE o == workers[v].op
    <3>1. o \in Operations /\ workers[v].left \in Nat /\ lease[o].left \in Nat
      BY <1>0, <2>1, HeldFacts, LedgerAssumption DEF Worker, LedgerTypeOK, Lease
    <3>2. /\ lease'[o].owner = lease[o].owner /\ lease'[o].epoch = lease[o].epoch
          /\ lease'[o].left = Less(lease[o].left) /\ status' = status
      BY <1>0, <3>1 DEF Tick
    <3>3. \/ status[o] = "superseded"
          \/ /\ status[o] = "running" /\ lease[o].owner = v /\ lease[o].epoch = workers[v].attempt
             /\ lease[o].left >= workers[v].left
      BY <2>1, <3>1 DEF ProcessOK, LeaseStands, Less
    <3>4. lease[o].left >= workers[v].left => Less(lease[o].left) >= Less(workers[v].left)
      BY <3>1 DEF Less
    <3> QED
      BY <1>2, <3>2, <3>3, <3>4 DEF LeaseStands
  <2> QED
    BY <2>2, <2>3, <2>4 DEF ProcessOK
<1>5. DeadMeansExhausted' /\ SucceededWasStored'
  BY <1>0 DEF WorkerInductive, DeadMeansExhausted, SucceededWasStored, Tick, adapterVars
<1> QED
  BY <1>0, <1>1, <1>3, <1>4, <1>5, AllProcesses

LEMMA ServerStepMoves ==
  ASSUME AdapterInductive, ServerStep
  PROVE  StoredGrows /\ \A w \in Owners : calls'[w].pc = "idle" <=> calls[w].pc = "idle"
<1>1. calls \in [Owners -> Call] /\ stored \in [Mailboxes -> SUBSET Version] /\ requests \subseteq Request
  BY DEF AdapterInductive, AdapterTypeOK
<1>2. ASSUME NEW q \in requests, NEW answer, NEW effect, Answer(q, answer, effect)
      PROVE  \A w \in Owners : calls'[w].pc = "idle" <=> calls[w].pc = "idle"
  BY <1>1, <1>2 DEF Answer, Awaited, Call, Request
<1>3. ASSUME NEW q \in requests, Apply(q) PROVE StoredGrows
  BY <1>1, <1>3 DEF Apply, StoredGrows
<1>4. ASSUME NEW q \in requests, NEW class, Decline(q, class)
      PROVE  \A w \in Owners : calls'[w].pc = "idle" <=> calls[w].pc = "idle"
  BY <1>1, <1>4 DEF Decline, Finish, Awaited, Call, Request
<1>5. ASSUME NEW q \in requests, Apply(q)
      PROVE  \A w \in Owners : calls'[w].pc = "idle" <=> calls[w].pc = "idle"
  BY <1>2, <1>5 DEF Apply
<1> QED
  BY <1>2, <1>3, <1>4, <1>5
  DEF ServerStep, RefuseCreate, Lose, Decline, TakeAddress, StoredGrows

LEMMA MailCoreMoves ==
  ASSUME WorkerInductive, MailCoreStep PROVE WorkerInductive'
<1>0. AdapterInductive /\ ServerStep /\ UNCHANGED <<ledgerVars, workers, crashes>>
  BY DEF WorkerInductive, MailCoreStep
<1>1. AdapterInductive' /\ StoredGrows
  BY <1>0, ServerStepKeeps, ServerStepMoves
<1>2. ASSUME NEW v \in Owners PROVE Linked(v)' /\ ProcessOK(v)'
  <2>1. LeaseKept(v)
    BY <1>0 DEF LeaseKept, ledgerVars
  <2>2. ProcessOK(v)'
    BY <1>0, <1>1, <2>1, ProcessKept
  <2>3. Linked(v)'
    BY <1>0, WorkerFacts, ServerStepMoves DEF Linked
  <2> QED
    BY <2>2, <2>3
<1>3. DeadMeansExhausted'
  BY <1>0 DEF WorkerInductive, DeadMeansExhausted, ledgerVars
<1>4. \A o \in Operations : status[o] = "succeeded" => intents[o].mailbox \in Mailboxes
  BY WorkerFacts DEF LedgerTypeOK, Intent
<1>5. SucceededWasStored'
  BY <1>0, <1>1, <1>4 DEF WorkerInductive, SucceededWasStored, StoredGrows, ledgerVars
<1>6. workers' \in [Owners -> Worker]
  BY <1>0, WorkerFacts
<1> QED
  BY <1>0, <1>1, <1>2, <1>3, <1>5, <1>6, AllProcesses

-----------------------------------------------------------------------------
(* The theorems.                                                           *)

LEMMA WorkerInductiveInit == Init => WorkerInductive
<1> SUFFICES ASSUME Init PROVE WorkerInductive
  OBVIOUS
<1>1. LedgerInductive /\ AdapterInductive
  BY InitInductive, AdapterInductiveInit DEF Init
<1>2. Idle \in Worker
  BY LedgerAssumption DEF Idle, Worker
<1>3. WorkerTypeOK
  BY <1>2, newServiceAssumption DEF Init, AdapterInit, WorkerTypeOK, Idle, NoCall
<1>4. RevisionsBounded
  BY LedgerAssumption DEF Init, LedgerInit, RevisionsBounded
<1>5. \A w \in Owners : ProcessOK(w)
  BY DEF Init, Idle, ProcessOK, ClaimIsOurs, LeaseStands, ReceiptIsTrue
<1>6. DeadMeansExhausted /\ SucceededWasStored
  BY DEF Init, LedgerInit, DeadMeansExhausted, SucceededWasStored
<1> QED
  BY <1>1, <1>3, <1>4, <1>5, <1>6 DEF WorkerInductive

LEMMA WorkerInductiveStep == WorkerInductive /\ [Next]_vars => WorkerInductive'
<1> SUFFICES ASSUME WorkerInductive, [Next]_vars PROVE WorkerInductive'
  OBVIOUS
<1>1. CASE UNCHANGED vars
  <2>1. UNCHANGED ledgerVars /\ UNCHANGED <<adapterVars, workers, crashes>> /\ AdapterInductive
    BY <1>1 DEF vars, WorkerInductive
  <2>2. AdapterInductive' /\ StoredGrows /\ calls' = calls
    BY <2>1, StutterKeeps DEF adapterVars, StoredGrows
  <2>3. ASSUME NEW v \in Owners PROVE Linked(v)' /\ ProcessOK(v)'
    <3>1. LeaseKept(v)
      BY <2>1 DEF LeaseKept, ledgerVars
    <3> QED
      BY <2>1, <2>2, <3>1, ProcessKept, WorkerFacts DEF Linked
  <2>4. DeadMeansExhausted' /\ SucceededWasStored'
    BY <2>1 DEF WorkerInductive, DeadMeansExhausted, SucceededWasStored, ledgerVars, adapterVars
  <2>5. workers' \in [Owners -> Worker]
    BY <2>1, WorkerFacts
  <2> QED
    BY <2>1, <2>2, <2>3, <2>4, <2>5, AllProcesses
<1> QED
  BY <1>1, IntentionStep, ClaimNextFinalizeStep, ClaimNextClaimStep, ExecuteStep, InspectFailsStep,
     InspectSeesStep, EnsureRunsStep, EnsureDoneStep, SendReceiptStep, ReceiptTooLateStep, CrashStep,
     MailCoreMoves, ClockStep DEF Next, WorkerStep

\* The inductive invariant of ledger, adapter and processes together holds in
\* every reachable state, crashes and late answers included.
THEOREM WorkerInductiveHolds == Spec => []WorkerInductive
BY WorkerInductiveInit, WorkerInductiveStep, PTL DEF Spec

\* A process record is always one of those that Execute passes through, with an
\* attempt, a receipt and a running call exactly where they belong.
THEOREM WorkerTypeCorrect == Spec => []WorkerTypeOK
<1>1. WorkerInductive => WorkerTypeOK
  BY DEF WorkerInductive
<1> QED
  BY <1>1, WorkerInductiveHolds, PTL

\* adapterDeadline falls within the lease, by LeaseSafetyMargin, on every path
\* through Execute and for every configuration that newService accepts.
THEOREM LeaseCovers == Spec => []LeaseCoversCalls
<1>1. ASSUME WorkerInductive PROVE LeaseCoversCalls
  <2> SUFFICES ASSUME NEW w \in Owners, workers[w].pc \in {"inspect", "ensure", "verify"},
                      adapterLeft(w) > 0
               PROVE  LET o == workers[w].op IN
                        \/ status[o] = "superseded"
                        \/ /\ status[o] = "running"
                           /\ lease[o].owner = w
                           /\ lease[o].epoch = workers[w].attempt
                           /\ lease[o].left >= adapterLeft(w) + LeaseSafetyMargin
    BY DEF LeaseCoversCalls
  <2>1. workers[w] \in Worker /\ workers[w].op # None /\ LeaseStands(w)
    BY <1>1, WorkerFacts DEF Linked, ProcessOK
  <2>2. workers[w].left > 0 /\ adapterLeft(w) + LeaseSafetyMargin = workers[w].left
    BY <2>1, LedgerAssumption, newServiceAssumption DEF adapterLeft, Worker
  <2> QED
    BY <2>1, <2>2 DEF LeaseStands
<1> QED
  BY <1>1, WorkerInductiveHolds, PTL

\* Neither Finalize nor a receipt of the service gives an operation up while it
\* has attempts left.
THEOREM DeadIsExhausted == Spec => []DeadMeansExhausted
<1>1. WorkerInductive => DeadMeansExhausted
  BY DEF WorkerInductive
<1> QED
  BY <1>1, WorkerInductiveHolds, PTL

\* An operation succeeds only for a version that was stored in the mail core.
THEOREM SucceededIsStored == Spec => []SucceededWasStored
<1>1. WorkerInductive => SucceededWasStored
  BY DEF WorkerInductive
<1> QED
  BY <1>1, WorkerInductiveHolds, PTL

\* Every step of the composition is a step of the ledger or leaves it alone.
LEMMA StepIsLedgerStep ==
  ASSUME WorkerInductive, [Next]_vars PROVE [LedgerNext]_ledgerVars
<1>1. ASSUME NEW w \in Owners, SendReceipt(w) PROVE [LedgerNext]_ledgerVars
  BY <1>1, AcceptedStep DEF SendReceipt
<1>2. ASSUME NEW w \in Owners, ClaimNextFinalize(w) PROVE [LedgerNext]_ledgerVars
  BY <1>2 DEF ClaimNextFinalize, LedgerNext
<1>3. ASSUME NEW w \in Owners, ClaimNextClaim(w) PROVE [LedgerNext]_ledgerVars
  BY <1>3 DEF ClaimNextClaim, LedgerNext
<1>4. ASSUME NEW w \in Owners,
             \/ Execute(w) \/ InspectFails(w) \/ InspectSees(w) \/ EnsureStep(w)
             \/ EnsureDone(w) \/ ReceiptTooLate(w) \/ Crash(w)
      PROVE  UNCHANGED ledgerVars
  BY <1>4 DEF Execute, InspectFails, InspectSees, EnsureStep, EnsureDone, ReceiptTooLate, Crash
<1>5. CASE Intention
  BY <1>5 DEF Intention, LedgerNext
<1>6. CASE Clock
  BY <1>6 DEF Clock, LedgerNext
<1>7. CASE MailCoreStep \/ UNCHANGED vars
  BY <1>7 DEF MailCoreStep, vars
<1> QED
  BY <1>1, <1>2, <1>3, <1>4, <1>5, <1>6, <1>7 DEF Next, WorkerStep

\* The composition implements the ledger's specification, so every theorem about
\* LedgerSpec holds of the processes the code runs.
THEOREM WorkersImplementLedger == Spec => ImplementsLedger
<1>1. Init => LedgerInit
  BY DEF Init
<1>2. WorkerInductive /\ [Next]_vars => [LedgerNext]_ledgerVars
  BY StepIsLedgerStep
<1> QED
  BY <1>1, <1>2, WorkerInductiveHolds, PTL DEF Spec, LedgerSpec, ImplementsLedger
=============================================================================
