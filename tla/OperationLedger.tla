--------------------------- MODULE OperationLedger ---------------------------
(***************************************************************************)
(* The operation ledger that mail-suite keeps in PostgreSQL: the tables    *)
(* operations, operation_attempts, mailboxes and outbox_events, and the    *)
(* SQL statements that change them (query/provisioning.sql).  Every        *)
(* statement is one data-modifying CTE that locks the rows it changes, so  *)
(* each is one atomic action here.                                         *)
(*                                                                         *)
(* A worker is only as trustworthy as the database makes it: a receipt     *)
(* (Resolve) may arrive for any claim that was ever handed out, at any     *)
(* time, any number of times, with any status that the repository accepts  *)
(* and anything the adapter can observe.                                   *)
(* MailboxWorker composes the ledger with the worker the code really runs. *)
(*                                                                         *)
(* Time.  lease_expires_at and next_attempt_at are kept as what is left of *)
(* them, lease.left = max(0, lease_expires_at - now) and next_left =       *)
(* max(0, next_attempt_at - now); the statements compare both columns with *)
(* statement_timestamp() only, so nothing else can be told apart.          *)
(***************************************************************************)
EXTENDS MailCore

CONSTANTS
  Operations,     \* ids of operations rows
  MaxAttempts,    \* Config.MaxAttempts
  LeaseDuration,  \* Config.LeaseDuration, in ticks
  MaxRetryDelay   \* Config.MaxRetryDelay, in ticks

ASSUME LedgerAssumption ==
  /\ MaxAttempts \in Nat \ {0}
  /\ LeaseDuration \in Nat \ {0}
  /\ MaxRetryDelay \in Nat \ {0}
  /\ MaxRevision \in Nat \ {0}
  /\ None \notin Operations \cup Mailboxes \cup Owners \cup Hashes

VARIABLES
  \* operations
  intents,        \* the columns an operation is created with and keeps
  status,         \* "absent" while there is no row
  attempt_count,
  next_left,
  lease,          \* owner, epoch and what is left of the lease
  observed,       \* the last observation, None before the first
  \* operation_attempts, by operation and attempt_number
  claims,         \* what the attempt was claimed with; None: no row
  results,        \* "none": no row; "open": completed_at IS NULL
  \* mailboxes
  mailboxes,      \* desired state; revision 0 means there is no row
  shown,          \* the observed_* columns
  \* outbox_events, one per operation
  outbox

ledgerVars == <<intents, status, attempt_count, next_left, lease, observed,
                claims, results, mailboxes, shown, outbox>>

-----------------------------------------------------------------------------
(* Rows.                                                                   *)

Waiting    == {"pending", "retry_wait", "unknown"}
Unfinished == Waiting \cup {"running"}
Terminal   == {"succeeded", "failed", "dead", "superseded"}
Completed  == {"retry_wait", "unknown"} \cup Terminal

AttemptNumbers == 1..MaxAttempts

Intent == [mailbox : Mailboxes, revision : Nat \ {0}, hash : Hashes]
Lease  == [owner : Owners \cup {None}, epoch : Nat, left : Nat]
Claim  == [owner : Owners, epoch : Nat, prior_status : Unfinished, revision : Nat]

Mailbox     == [revision : Nat, desired_status : {"active", "suspended"}]
Shown       == [status : {"unknown", "active"}, revision : Nat, hash : Hashes \cup {None}]
OutboxEvent == [status : {"absent", "pending", "delivered"}, attempts : Nat]

ASSUME NullAssumption == None \notin Intent \cup Claim \cup Observation

NoLease == [owner |-> None, epoch |-> 0, left |-> 0]
Unseen  == [status |-> "unknown", revision |-> 0, hash |-> None]

LedgerInit ==
  /\ intents = [o \in Operations |-> None]
  /\ status = [o \in Operations |-> "absent"]
  /\ attempt_count = [o \in Operations |-> 0]
  /\ next_left = [o \in Operations |-> 0]
  /\ lease = [o \in Operations |-> NoLease]
  /\ observed = [o \in Operations |-> None]
  /\ claims = [o \in Operations |-> [n \in AttemptNumbers |-> None]]
  /\ results = [o \in Operations |-> [n \in AttemptNumbers |-> "none"]]
  /\ mailboxes = [m \in Mailboxes |-> [revision |-> 0, desired_status |-> "active"]]
  /\ shown = [m \in Mailboxes |-> Unseen]
  /\ outbox = [o \in Operations |-> [status |-> "absent", attempts |-> 0]]

-----------------------------------------------------------------------------
(* Intent.                                                                 *)

\* The rows every intent writes in one transaction: a pending operation, due
\* at once and never leased, and its wake-up.
InsertIntent(o, m, revision, hash) ==
  /\ status[o] = "absent"
  /\ intents' = [intents EXCEPT ![o] = [mailbox |-> m, revision |-> revision, hash |-> hash]]
  /\ status' = [status EXCEPT ![o] = "pending"]
  /\ outbox' = [outbox EXCEPT ![o] = [status |-> "pending", attempts |-> 0]]
  /\ UNCHANGED <<attempt_count, next_left, lease, observed, claims, results>>

\* RequestMailbox's committed transaction: fresh mailbox, operation, wake-up.
\* Replays and refusals write nothing and are stuttering steps here.
RequestMailbox(o, m, hash) ==
  /\ mailboxes[m].revision = 0
  /\ InsertIntent(o, m, 1, hash)
  /\ mailboxes' = [mailboxes EXCEPT ![m] = [revision |-> 1, desired_status |-> "active"]]
  /\ UNCHANGED shown

\* A later change of the mailbox, made by code outside this repository: the
\* schema makes it drop observed_status 'active' and the column comment of
\* operations.desired_revision makes it create an operation of its own.
ReviseMailbox(o, m, hash, desired) ==
  /\ mailboxes[m].revision \in 1..(MaxRevision - 1)
  /\ InsertIntent(o, m, mailboxes[m].revision + 1, hash)
  /\ mailboxes' = [mailboxes EXCEPT ![m] = [revision |-> mailboxes[m].revision + 1,
                                            desired_status |-> desired]]
  /\ shown' = [shown EXCEPT ![m] = [status |-> "unknown",
                                    revision |-> shown[m].revision,
                                    hash |-> shown[m].hash]]

-----------------------------------------------------------------------------
(* FinalizeMailboxOperationBeforeClaim.                                    *)

Current(o) == mailboxes[intents[o].mailbox]

SupersededByItself(o) == Current(o).revision >= intents[o].revision

Superseded(o) == Current(o).revision > intents[o].revision

ExhaustedOffByOne(o) ==
  /\ Current(o).revision = intents[o].revision
  /\ attempt_count[o] > MaxAttempts
  /\ status[o] \in Waiting \/ lease[o].left = 0

Exhausted(o) ==
  /\ Current(o).revision = intents[o].revision
  /\ attempt_count[o] >= MaxAttempts
  /\ status[o] \in Waiting \/ lease[o].left = 0

CloseAttemptForgotten(o, result) == results[o]

CloseAttemptOfNextNumber(o, result) ==
  [n \in AttemptNumbers |->
     IF status[o] = "running" /\ n = attempt_count[o] + 1 THEN result ELSE results[o][n]]

\* The UPDATE of operation_attempts in Finalize and Claim: of a running
\* operation, the row of the current attempt and epoch, if it is still open.
CloseAttempt(o, result) ==
  [n \in AttemptNumbers |->
     IF /\ status[o] = "running"
        /\ n = attempt_count[o]
        /\ claims[o][n].epoch = lease[o].epoch
        /\ results[o][n] = "open"
     THEN result
     ELSE results[o][n]]

DeliverWakeupAgain(o) ==
  outbox' = [outbox EXCEPT ![o] = [status |-> "delivered",
                                   attempts |-> outbox[o].attempts + 1]]

DeliverWakeup(o) ==
  outbox' = IF outbox[o].status = "pending"
            THEN [outbox EXCEPT ![o] = [status |-> "delivered",
                                        attempts |-> outbox[o].attempts + 1]]
            ELSE outbox

\* lease_owner_id and lease_expires_at become NULL, the epoch stays.
ReleaseLease(o) ==
  lease' = [lease EXCEPT ![o] = [owner |-> None, epoch |-> lease[o].epoch, left |-> 0]]

FinalResult(o) == IF Superseded(o) THEN "superseded" ELSE "dead"

FinalizeMailboxOperationBeforeClaim(o) ==
  /\ status[o] \in Unfinished
  /\ Superseded(o) \/ Exhausted(o)
  /\ status' = [status EXCEPT ![o] = FinalResult(o)]
  /\ next_left' = [next_left EXCEPT ![o] = 0]
  /\ ReleaseLease(o)
  /\ results' = [results EXCEPT ![o] = CloseAttempt(o, FinalResult(o))]
  /\ DeliverWakeup(o)
  /\ UNCHANGED <<intents, attempt_count, observed, claims, mailboxes, shown>>

-----------------------------------------------------------------------------
(* ClaimMailboxOperation.                                                  *)

ClaimableWhenDone(o) ==
  /\ status[o] # "absent"
  /\ Current(o).revision = intents[o].revision
  /\ attempt_count[o] < MaxAttempts
  /\ next_left[o] = 0 /\ lease[o].left = 0

ClaimableOnceMore(o) ==
  /\ status[o] \in Unfinished
  /\ Current(o).revision = intents[o].revision
  /\ attempt_count[o] <= MaxAttempts
  /\ next_left[o] = 0 /\ lease[o].left = 0

ClaimableUnderLiveLease(o) ==
  /\ status[o] \in Unfinished
  /\ Current(o) = [revision |-> intents[o].revision, desired_status |-> "active"]
  /\ attempt_count[o] < MaxAttempts
  /\ next_left[o] = 0

Claimable(o) ==
  /\ status[o] \in Unfinished
  /\ Current(o).desired_status = "active"
  /\ Current(o).revision = intents[o].revision
  /\ attempt_count[o] < MaxAttempts
  /\ IF status[o] = "running" THEN lease[o].left = 0 ELSE next_left[o] = 0

GrantLeaseSameEpoch(o, w) ==
  lease' = [lease EXCEPT ![o] = [owner |-> w, epoch |-> lease[o].epoch,
                                 left |-> LeaseDuration]]

GrantLease(o, w) ==
  lease' = [lease EXCEPT ![o] = [owner |-> w, epoch |-> lease[o].epoch + 1,
                                 left |-> LeaseDuration]]

\* INSERT INTO operation_attempts, the expired attempt having been closed.
OpenAttempt(o, w) ==
  LET next == attempt_count[o] + 1 IN
    /\ claims' = [claims EXCEPT ![o] =
         [n \in AttemptNumbers |->
            IF n = next THEN [owner |-> w, epoch |-> lease'[o].epoch,
                              prior_status |-> status[o],
                              revision |-> intents[o].revision]
            ELSE claims[o][n]]]
    /\ results' = [results EXCEPT ![o] =
         [n \in AttemptNumbers |->
            IF n = next THEN "open" ELSE CloseAttempt(o, "unknown")[n]]]

ClaimMailboxOperation(o, w) ==
  /\ Claimable(o)
  /\ status' = [status EXCEPT ![o] = "running"]
  /\ attempt_count' = [attempt_count EXCEPT ![o] = attempt_count[o] + 1]
  /\ GrantLease(o, w)
  /\ OpenAttempt(o, w)
  /\ DeliverWakeup(o)
  /\ UNCHANGED <<intents, next_left, observed, mailboxes, shown>>

-----------------------------------------------------------------------------
(* ResolveMailboxOperation.                                                *)

validMailboxResolution(r) ==
  /\ (r.status \in {"retry_wait", "unknown"}) <=> (r.delay > 0)
  /\ r.status = "succeeded" => r.observation # None

\* The receipts the repository does not refuse outright.
Resolution ==
  {r \in [status      : {"succeeded", "failed", "dead", "retry_wait", "unknown"},
          delay       : 0..MaxRetryDelay,
          observation : Observation \cup {None}] : validMailboxResolution(r)}

\* The receipt carries attempt number, owner, epoch and revision of its claim.
Fenced(o, n) ==
  /\ status[o] = "running"
  /\ lease[o].owner = claims[o][n].owner
  /\ lease[o].epoch = claims[o][n].epoch
  /\ attempt_count[o] = n
  /\ intents[o].revision = claims[o][n].revision
  /\ lease[o].left > 0

ProvenForAnyRevision(o, r) ==
  /\ r.observation # None => r.observation.mailbox = intents[o].mailbox
  /\ r.status = "succeeded" =>
       /\ r.observation.status = "active"
       /\ r.observation.hash = intents[o].hash
       /\ Current(o) = [revision |-> intents[o].revision, desired_status |-> "active"]

\* What the statement demands of the evidence.
Proven(o, r) ==
  /\ r.observation # None => r.observation.mailbox = intents[o].mailbox
  /\ r.status = "succeeded" =>
       /\ r.observation.status = "active"
       /\ r.observation.revision = intents[o].revision
       /\ r.observation.hash = intents[o].hash
       /\ Current(o) = [revision |-> intents[o].revision, desired_status |-> "active"]

\* A receipt that is not accepted changes nothing (ErrLeaseLost, rollback).
ResolveMailboxOperation(o, n, r) ==
  /\ claims[o][n] # None
  /\ Fenced(o, n)
  /\ Proven(o, r)
  /\ results[o][n] = "open"
  /\ status' = [status EXCEPT ![o] = r.status]
  /\ next_left' = [next_left EXCEPT ![o] = r.delay]
  /\ ReleaseLease(o)
  /\ observed' = [observed EXCEPT
                    ![o] = IF r.observation # None THEN r.observation ELSE observed[o]]
  /\ results' = [results EXCEPT ![o] =
                   [k \in AttemptNumbers |-> IF k = n THEN r.status ELSE results[o][k]]]
  /\ shown' = IF r.status = "succeeded"
              THEN [shown EXCEPT ![intents[o].mailbox] =
                      [status |-> "active", revision |-> r.observation.revision,
                       hash |-> r.observation.hash]]
              ELSE shown
  /\ UNCHANGED <<intents, attempt_count, claims, mailboxes, outbox>>

-----------------------------------------------------------------------------
Less(t) == IF t > 0 THEN t - 1 ELSE 0

\* statement_timestamp() moves on.
Tick ==
  /\ next_left' = [o \in Operations |-> Less(next_left[o])]
  /\ lease' = [o \in Operations |-> [owner |-> lease[o].owner, epoch |-> lease[o].epoch,
                                     left |-> Less(lease[o].left)]]
  /\ UNCHANGED <<intents, status, attempt_count, observed, claims, results,
                 mailboxes, shown, outbox>>

LedgerNext ==
  \/ \E o \in Operations, m \in Mailboxes, hash \in Hashes :
       RequestMailbox(o, m, hash)
  \/ \E o \in Operations, m \in Mailboxes, hash \in Hashes,
        desired \in {"active", "suspended"} : ReviseMailbox(o, m, hash, desired)
  \/ \E o \in Operations : FinalizeMailboxOperationBeforeClaim(o)
  \/ \E o \in Operations, w \in Owners : ClaimMailboxOperation(o, w)
  \/ \E o \in Operations, n \in AttemptNumbers, r \in Resolution :
       ResolveMailboxOperation(o, n, r)
  \/ Tick

LedgerSpec == LedgerInit /\ [][LedgerNext]_ledgerVars

-----------------------------------------------------------------------------
(* Properties.                                                             *)

\* Every row has its columns' types, an operation has an intent exactly when it
\* exists, and an attempt its claim; timers stay within the configured spans.
LedgerTypeOK ==
  /\ intents \in [Operations -> Intent \cup {None}]
  /\ status \in [Operations -> Unfinished \cup Terminal \cup {"absent"}]
  /\ attempt_count \in [Operations -> Nat]
  /\ next_left \in [Operations -> 0..MaxRetryDelay]
  /\ lease \in [Operations -> Lease]
  /\ observed \in [Operations -> Observation \cup {None}]
  /\ claims \in [Operations -> [AttemptNumbers -> Claim \cup {None}]]
  /\ results \in [Operations -> [AttemptNumbers -> Completed \cup {"none", "open"}]]
  /\ mailboxes \in [Mailboxes -> Mailbox]
  /\ shown \in [Mailboxes -> Shown]
  /\ outbox \in [Operations -> OutboxEvent]
  /\ \A o \in Operations :
       /\ status[o] = "absent" <=> intents[o] = None
       /\ lease[o].left <= LeaseDuration
       /\ \A n \in AttemptNumbers : results[o][n] = "none" <=> claims[o][n] = None

\* The audit trail and the lease agree.  Attempts are numbered 1..attempt_count
\* without a gap; an attempt is open exactly while its operation is running on
\* it, and then owner and epoch of row and lease are the same.  So no takeover,
\* supersession or late receipt leaves an orphaned or a second open attempt.
AttemptMatchesLease ==
  \A o \in Operations :
    /\ attempt_count[o] <= MaxAttempts
    /\ status[o] = "running" <=> lease[o].owner # None
    /\ status[o] \in {"running", "retry_wait", "unknown"} => attempt_count[o] > 0
    /\ \A n \in AttemptNumbers :
         /\ results[o][n] # "none" <=> n <= attempt_count[o]
         /\ results[o][n] = "open" <=> status[o] = "running" /\ n = attempt_count[o]
         /\ results[o][n] = "open" => /\ claims[o][n].owner = lease[o].owner
                                      /\ claims[o][n].epoch = lease[o].epoch

\* Why the epochs fence: epoch and attempt counter start and move together, so
\* the attempt with number n is the one that holds token n, and a token is
\* never handed out twice (operation_attempts_operation_epoch_unique).
EpochIsAttemptNumber ==
  \A o \in Operations :
    /\ lease[o].epoch = attempt_count[o]
    /\ status[o] \in {"absent", "pending"} => attempt_count[o] = 0
    /\ \A n \in AttemptNumbers : claims[o][n] # None => claims[o][n].epoch = n

\* A mailbox is shown active only on evidence for its current revision: an
\* operation of exactly this revision and configuration succeeded, and what it
\* observed is what the mailbox row records (mailboxes_active_observation_valid
\* and operations_success_observation_valid, across the two tables).
ActiveHasEvidence ==
  \A m \in Mailboxes :
    shown[m].status = "active" =>
      \E o \in Operations :
        /\ status[o] = "succeeded"
        /\ intents[o] = [mailbox |-> m, revision |-> mailboxes[m].revision,
                         hash |-> shown[m].hash]
        /\ observed[o] = [mailbox |-> m, status |-> "active",
                          revision |-> mailboxes[m].revision, hash |-> shown[m].hash]
        /\ shown[m].revision = mailboxes[m].revision

\* The newest operation of a mailbox is never set aside as superseded, and no
\* operation is ever ahead of its mailbox.
NewestIsNotSuperseded ==
  \A o \in Operations :
    status[o] # "absent" =>
      /\ intents[o].revision <= Current(o).revision
      /\ status[o] = "superseded" => intents[o].revision < Current(o).revision

\* The wake-up of an operation is outstanding exactly until the operation is
\* first claimed or finalized, and is delivered once.
WakeupDeliveredOnce ==
  \A o \in Operations :
    /\ outbox[o].status = "pending" <=> status[o] = "pending"
    /\ outbox[o].status = "delivered" <=> status[o] \notin {"absent", "pending"}
    /\ outbox[o].attempts = IF outbox[o].status = "delivered" THEN 1 ELSE 0

\* The inductive invariant of the ledger.
LedgerInductive ==
  /\ LedgerTypeOK
  /\ AttemptMatchesLease
  /\ EpochIsAttemptNumber
  /\ NewestIsNotSuperseded
  /\ WakeupDeliveredOnce
  /\ ActiveHasEvidence

\* History is append-only: an outcome is never revised, the token and the
\* attempt counter never go back, an attempt keeps the identity it was claimed
\* with and, once completed, its result.
HistoryIsAppendOnly ==
  [][\A o \in Operations :
       /\ status[o] \in Terminal => /\ status'[o] = status[o]
                                    /\ observed'[o] = observed[o]
       /\ intents[o] # None => intents'[o] = intents[o]
       /\ attempt_count'[o] \in {attempt_count[o], attempt_count[o] + 1}
       /\ lease'[o].epoch - lease[o].epoch = attempt_count'[o] - attempt_count[o]
       /\ \A n \in AttemptNumbers :
            /\ claims[o][n] # None => claims'[o][n] = claims[o][n]
            /\ results[o][n] \in Completed => results'[o][n] = results[o][n]
            /\ results[o][n] = "open" => results'[o][n] # "none"
    ]_ledgerVars

\* A live lease is exclusive: while it lasts, the operation leaves its holder's
\* hands only by a receipt of the attempt that holds it, or because the mailbox
\* has moved on to a newer revision.
LiveLeaseIsExclusive ==
  [][\A o \in Operations :
       /\ status[o] = "running"
       /\ lease[o].left > 0
       /\ lease'[o].epoch # lease[o].epoch \/ status'[o] # "running"
       =>
       \/ \E r \in Resolution : ResolveMailboxOperation(o, attempt_count[o], r)
       \/ status'[o] = "superseded" /\ intents[o].revision < Current(o).revision
    ]_ledgerVars

\* The promise of OperationLifecycle: the waiting statuses are one phase, the
\* lease epoch is the token, a terminal status the outcome.
PhaseOf(o) ==
  CASE status[o] = "absent"   -> "absent"
    [] status[o] \in Waiting  -> "waiting"
    [] status[o] = "running"  -> "held"
    [] status[o] \in Terminal -> "done"

OutcomeOf(o) == IF status[o] \in Terminal THEN status[o] ELSE "none"

phase   == [o \in Operations |-> PhaseOf(o)]
token   == [o \in Operations |-> lease[o].epoch]
outcome == [o \in Operations |-> OutcomeOf(o)]

Lifecycle == INSTANCE OperationLifecycle WITH
  phase <- phase, token <- token, outcome <- outcome

\* Every step of the statements is a submission, a grant, a release or a
\* decision of OperationLifecycle, or changes none of them.
ImplementsLifecycle == Lifecycle!Spec

\* Even if no worker ever manages to send a receipt, an operation is not left
\* unfinished for ever: takeovers use up its attempts and it ends, unless its
\* mailbox is no longer wanted active.
EventuallyFinished ==
  \A o \in Operations :
    (status[o] \in Unfinished)
      ~> \/ status[o] \in Terminal
         \/ \E m \in Mailboxes : /\ intents[o] # None
                                 /\ intents[o].mailbox = m
                                 /\ mailboxes[m].desired_status # "active"
=============================================================================
