------------------------ MODULE OperationLedgerProofs ------------------------
(***************************************************************************)
(* TLAPS proofs about OperationLedger, for every number of operations,     *)
(* mailboxes, owners, attempts and revisions.                              *)
(***************************************************************************)
EXTENDS OperationLedger, TLAPS

USE LedgerAssumption DEF AttemptNumbers, Waiting, Unfinished, Terminal, Completed

-----------------------------------------------------------------------------
(* Type correctness.                                                       *)

\* The empty tables are well typed.
LEMMA InitType == LedgerInit => LedgerTypeOK
BY DEF LedgerInit, LedgerTypeOK, Lease, NoLease, Mailbox, Shown, Unseen, OutboxEvent,
   Intent, Claim

\* What CloseAttempt returns is a column of results, with the same rows.
LEMMA CloseAttemptType ==
  ASSUME LedgerTypeOK, NEW o \in Operations, NEW result \in Completed
  PROVE  /\ CloseAttempt(o, result) \in [AttemptNumbers -> Completed \cup {"none", "open"}]
         /\ \A n \in AttemptNumbers :
              CloseAttempt(o, result)[n] = "none" <=> results[o][n] = "none"
BY DEF LedgerTypeOK, CloseAttempt

\* DeliverWakeup keeps the table an outbox table.
LEMMA DeliverType ==
  ASSUME LedgerTypeOK, NEW o \in Operations, DeliverWakeup(o)
  PROVE  outbox' \in [Operations -> OutboxEvent]
BY DEF LedgerTypeOK, DeliverWakeup, OutboxEvent

\* The fields of a resolution the repository accepts.
LEMMA ResolutionFields ==
  ASSUME NEW r \in Resolution
  PROVE  /\ r.status \in {"succeeded", "failed", "dead", "retry_wait", "unknown"}
         /\ r.delay \in 0..MaxRetryDelay
         /\ r.observation \in Observation \cup {None}
         /\ r.status = "succeeded" => r.observation \in Observation
BY DEF Resolution, validMailboxResolution

\* A new intent gives its operation a row and touches no other.
LEMMA InsertIntentType ==
  ASSUME LedgerTypeOK, NEW o \in Operations, NEW m \in Mailboxes, NEW hash \in Hashes,
         NEW revision \in Nat \ {0}, InsertIntent(o, m, revision, hash)
  PROVE  /\ intents' \in [Operations -> Intent \cup {None}]
         /\ \A x \in Operations : status'[x] = "absent" <=> intents'[x] = None
<1> DEFINE row == [mailbox |-> m, revision |-> revision, hash |-> hash]
<1>1. row \in Intent
  BY DEF Intent
<1>2. row # None
  BY <1>1, NullAssumption
<1> HIDE DEF row
<1>3. intents' = [intents EXCEPT ![o] = row] /\ status' = [status EXCEPT ![o] = "pending"]
  BY DEF InsertIntent, row
<1> QED
  BY <1>1, <1>2, <1>3 DEF LedgerTypeOK

\* Every step leaves the tables well typed.
LEMMA NextType == LedgerTypeOK /\ [LedgerNext]_ledgerVars => LedgerTypeOK'
<1> SUFFICES ASSUME LedgerTypeOK, [LedgerNext]_ledgerVars PROVE LedgerTypeOK'
  OBVIOUS
<1>1. ASSUME NEW o \in Operations, NEW m \in Mailboxes, NEW hash \in Hashes,
             RequestMailbox(o, m, hash)
      PROVE LedgerTypeOK'
  <2>1. /\ intents' \in [Operations -> Intent \cup {None}]
        /\ \A x \in Operations : status'[x] = "absent" <=> intents'[x] = None
    BY <1>1, InsertIntentType DEF RequestMailbox
  <2>2. mailboxes' \in [Mailboxes -> Mailbox]
    BY <1>1 DEF LedgerTypeOK, RequestMailbox, Mailbox
  <2> QED
    BY <1>1, <2>1, <2>2 DEF LedgerTypeOK, RequestMailbox, InsertIntent, OutboxEvent
<1>2. ASSUME NEW o \in Operations, NEW m \in Mailboxes, NEW hash \in Hashes,
             NEW desired \in {"active", "suspended"}, ReviseMailbox(o, m, hash, desired)
      PROVE LedgerTypeOK'
  <2>1. mailboxes[m].revision + 1 \in Nat \ {0}
    BY DEF LedgerTypeOK, Mailbox
  <2>2. /\ intents' \in [Operations -> Intent \cup {None}]
        /\ \A x \in Operations : status'[x] = "absent" <=> intents'[x] = None
    BY <1>2, <2>1, InsertIntentType DEF ReviseMailbox
  <2>3. mailboxes' \in [Mailboxes -> Mailbox] /\ shown' \in [Mailboxes -> Shown]
    BY <1>2, <2>1 DEF LedgerTypeOK, ReviseMailbox, Mailbox, Shown
  <2> QED
    BY <1>2, <2>2, <2>3 DEF LedgerTypeOK, ReviseMailbox, InsertIntent, OutboxEvent
<1>3. ASSUME NEW o \in Operations, FinalizeMailboxOperationBeforeClaim(o)
      PROVE LedgerTypeOK'
  <2>1. FinalResult(o) \in {"superseded", "dead"}
    BY DEF FinalResult
  <2>2. outbox' \in [Operations -> OutboxEvent]
    BY <1>3, DeliverType DEF FinalizeMailboxOperationBeforeClaim
  <2>3. /\ results' \in [Operations -> [AttemptNumbers -> Completed \cup {"none", "open"}]]
        /\ \A x \in Operations, n \in AttemptNumbers :
             results'[x][n] = "none" <=> results[x][n] = "none"
    BY <1>3, <2>1, CloseAttemptType DEF FinalizeMailboxOperationBeforeClaim, LedgerTypeOK
  <2> QED
    BY <1>3, <2>1, <2>2, <2>3
    DEF LedgerTypeOK, FinalizeMailboxOperationBeforeClaim, ReleaseLease, Lease
<1>4. ASSUME NEW o \in Operations, NEW w \in Owners, ClaimMailboxOperation(o, w)
      PROVE LedgerTypeOK'
  <2>1. outbox' \in [Operations -> OutboxEvent]
    BY <1>4, DeliverType DEF ClaimMailboxOperation
  <2>2. lease' \in [Operations -> Lease] /\ \A x \in Operations : lease'[x].left <= LeaseDuration
    BY <1>4 DEF ClaimMailboxOperation, GrantLease, Lease, LedgerTypeOK
  <2>3. status[o] \in Unfinished /\ intents[o] \in Intent
    BY <1>4 DEF ClaimMailboxOperation, Claimable, LedgerTypeOK
  <2> DEFINE row == [owner |-> w, epoch |-> lease'[o].epoch,
                     prior_status |-> status[o], revision |-> intents[o].revision]
  <2>7. row \in Claim /\ row # None
    <3>1. lease'[o].epoch \in Nat /\ intents[o].revision \in Nat
      BY <2>2, <2>3 DEF Lease, Intent
    <3>2. row \in Claim
      BY <2>3, <3>1 DEF Claim
    <3> QED
      BY <3>2, NullAssumption
  <2>8. claims' = [claims EXCEPT ![o] = [n \in AttemptNumbers |->
                     IF n = attempt_count[o] + 1 THEN row ELSE claims[o][n]]]
    BY <1>4 DEF ClaimMailboxOperation, OpenAttempt
  <2> HIDE DEF row
  <2>4. claims' \in [Operations -> [AttemptNumbers -> Claim \cup {None}]]
    BY <2>7, <2>8 DEF LedgerTypeOK
  <2>5. results' \in [Operations -> [AttemptNumbers -> Completed \cup {"none", "open"}]]
    BY <1>4, CloseAttemptType DEF ClaimMailboxOperation, OpenAttempt, LedgerTypeOK
  <2>6. \A x \in Operations, n \in AttemptNumbers :
          results'[x][n] = "none" <=> claims'[x][n] = None
    <3> SUFFICES ASSUME NEW x \in Operations, NEW n \in AttemptNumbers
                 PROVE  results'[x][n] = "none" <=> claims'[x][n] = None
      OBVIOUS
    <3>1. CASE x = o /\ n = attempt_count[o] + 1
      BY <3>1, <1>4, <2>7, <2>8 DEF ClaimMailboxOperation, OpenAttempt, LedgerTypeOK
    <3>2. CASE ~(x = o /\ n = attempt_count[o] + 1)
      BY <3>2, <1>4, <2>8, CloseAttemptType DEF ClaimMailboxOperation, OpenAttempt, LedgerTypeOK
    <3> QED
      BY <3>1, <3>2
  <2>9. /\ status' \in [Operations -> Unfinished \cup Terminal \cup {"absent"}]
        /\ attempt_count' \in [Operations -> Nat]
        /\ \A x \in Operations : status'[x] = "absent" <=> intents'[x] = None
    BY <1>4, <2>3 DEF LedgerTypeOK, ClaimMailboxOperation
  <2>10. /\ intents' = intents /\ next_left' = next_left /\ observed' = observed
         /\ mailboxes' = mailboxes /\ shown' = shown
    BY <1>4 DEF ClaimMailboxOperation
  <2> QED
    BY <2>1, <2>2, <2>4, <2>5, <2>6, <2>9, <2>10 DEF LedgerTypeOK
<1>5. ASSUME NEW o \in Operations, NEW n \in AttemptNumbers, NEW r \in Resolution,
             ResolveMailboxOperation(o, n, r)
      PROVE LedgerTypeOK'
  <2>1. status[o] = "running" /\ intents[o] \in Intent
    BY <1>5 DEF ResolveMailboxOperation, Fenced, LedgerTypeOK
  <2>2. shown' \in [Mailboxes -> Shown]
    BY <1>5, <2>1, ResolutionFields DEF LedgerTypeOK, ResolveMailboxOperation, Shown,
       Observation, Intent
  <2>3. lease' \in [Operations -> Lease] /\ \A x \in Operations : lease'[x].left <= LeaseDuration
    BY <1>5 DEF ResolveMailboxOperation, ReleaseLease, Lease, LedgerTypeOK
  <2>4. /\ status' \in [Operations -> Unfinished \cup Terminal \cup {"absent"}]
        /\ next_left' \in [Operations -> 0..MaxRetryDelay]
        /\ \A x \in Operations : status'[x] = "absent" <=> intents'[x] = None
    BY <1>5, <2>1, ResolutionFields DEF LedgerTypeOK, ResolveMailboxOperation
  <2>5. observed' \in [Operations -> Observation \cup {None}]
    BY <1>5, ResolutionFields DEF LedgerTypeOK, ResolveMailboxOperation
  <2>6. /\ results' \in [Operations -> [AttemptNumbers -> Completed \cup {"none", "open"}]]
        /\ \A x \in Operations, k \in AttemptNumbers :
             results'[x][k] = "none" <=> claims'[x][k] = None
    BY <1>5, ResolutionFields DEF LedgerTypeOK, ResolveMailboxOperation
  <2>7. /\ intents' = intents /\ attempt_count' = attempt_count /\ claims' = claims
        /\ mailboxes' = mailboxes /\ outbox' = outbox
    BY <1>5 DEF ResolveMailboxOperation
  <2> QED
    BY <2>2, <2>3, <2>4, <2>5, <2>6, <2>7 DEF LedgerTypeOK
<1>6. CASE Tick
  BY <1>6 DEF LedgerTypeOK, Tick, Less, Lease
<1>7. CASE UNCHANGED ledgerVars
  BY <1>7 DEF LedgerTypeOK, ledgerVars
<1> QED
  BY <1>1, <1>2, <1>3, <1>4, <1>5, <1>6, <1>7 DEF LedgerNext

\* Type correctness of the tables under every interleaving of requests, polls,
\* receipts and the passing of time.
THEOREM LedgerTypeCorrect == LedgerSpec => []LedgerTypeOK
BY InitType, NextType, PTL DEF LedgerSpec

-----------------------------------------------------------------------------
(* The inductive invariant, one conjunct at a time.                        *)

\* When the audit trail matches the lease, CloseAttempt leaves no attempt of
\* the operation open and completed ones as they are.
LEMMA CloseAttemptCloses ==
  ASSUME LedgerTypeOK, AttemptMatchesLease, NEW o \in Operations, NEW result \in Completed,
         NEW n \in AttemptNumbers
  PROVE  /\ CloseAttempt(o, result)[n] # "open"
         /\ results[o][n] # "open" => CloseAttempt(o, result)[n] = results[o][n]
BY DEF LedgerTypeOK, AttemptMatchesLease, CloseAttempt

\* Requests and revisions touch the attempts of no operation.
LEMMA InsertKeepsAttempts ==
  ASSUME LedgerTypeOK, AttemptMatchesLease, EpochIsAttemptNumber,
         NEW o \in Operations, NEW m, NEW hash, NEW revision,
         InsertIntent(o, m, revision, hash)
  PROVE  AttemptMatchesLease' /\ EpochIsAttemptNumber'
<1>1. /\ status[o] = "absent" /\ status' = [status EXCEPT ![o] = "pending"]
      /\ attempt_count' = attempt_count /\ lease' = lease
      /\ claims' = claims /\ results' = results
  BY DEF InsertIntent
<1>2. \A x \in Operations : x # o => status'[x] = status[x]
  BY <1>1 DEF LedgerTypeOK
<1>3. status'[o] = "pending"
  BY <1>1 DEF LedgerTypeOK
<1> QED
  BY <1>1, <1>2, <1>3 DEF AttemptMatchesLease, EpochIsAttemptNumber

\* The audit trail keeps matching the lease.
LEMMA NextAttempts ==
  ASSUME LedgerTypeOK, AttemptMatchesLease, EpochIsAttemptNumber, [LedgerNext]_ledgerVars
  PROVE  AttemptMatchesLease' /\ EpochIsAttemptNumber'
<1>1. ASSUME NEW o \in Operations, NEW m \in Mailboxes, NEW hash \in Hashes,
             RequestMailbox(o, m, hash)
      PROVE AttemptMatchesLease' /\ EpochIsAttemptNumber'
  BY <1>1, InsertKeepsAttempts DEF RequestMailbox
<1>2. ASSUME NEW o \in Operations, NEW m \in Mailboxes, NEW hash \in Hashes,
             NEW desired \in {"active", "suspended"}, ReviseMailbox(o, m, hash, desired)
      PROVE AttemptMatchesLease' /\ EpochIsAttemptNumber'
  BY <1>2, InsertKeepsAttempts DEF ReviseMailbox
<1>3. ASSUME NEW o \in Operations, FinalizeMailboxOperationBeforeClaim(o)
      PROVE AttemptMatchesLease' /\ EpochIsAttemptNumber'
  <2>1. /\ FinalResult(o) \in {"superseded", "dead"}
        /\ status[o] \in Unfinished
        /\ status' = [status EXCEPT ![o] = FinalResult(o)]
        /\ lease' = [lease EXCEPT ![o] = [owner |-> None, epoch |-> lease[o].epoch, left |-> 0]]
        /\ results' = [results EXCEPT ![o] = CloseAttempt(o, FinalResult(o))]
        /\ attempt_count' = attempt_count /\ claims' = claims
    BY <1>3 DEF FinalizeMailboxOperationBeforeClaim, FinalResult, ReleaseLease
  <2>2. \A x \in Operations : x # o => /\ status'[x] = status[x] /\ lease'[x] = lease[x]
                                       /\ results'[x] = results[x]
    BY <2>1 DEF LedgerTypeOK
  <2>3. /\ status'[o] \in {"superseded", "dead"}
        /\ lease'[o].owner = None /\ lease'[o].epoch = lease[o].epoch
        /\ results'[o] = CloseAttempt(o, FinalResult(o))
    BY <2>1 DEF LedgerTypeOK
  <2>4. \A n \in AttemptNumbers : /\ results'[o][n] # "open"
                                  /\ results'[o][n] = "none" <=> results[o][n] = "none"
    BY <2>1, <2>3, CloseAttemptCloses, CloseAttemptType
  <2> QED
    BY <2>1, <2>2, <2>3, <2>4 DEF AttemptMatchesLease, EpochIsAttemptNumber
<1>4. ASSUME NEW o \in Operations, NEW w \in Owners, ClaimMailboxOperation(o, w)
      PROVE AttemptMatchesLease' /\ EpochIsAttemptNumber'
  <2> DEFINE next == attempt_count[o] + 1
  <2>1. /\ status[o] \in Unfinished
        /\ status' = [status EXCEPT ![o] = "running"]
        /\ attempt_count' = [attempt_count EXCEPT ![o] = next]
        /\ lease' = [lease EXCEPT ![o] = [owner |-> w, epoch |-> lease[o].epoch + 1,
                                          left |-> LeaseDuration]]
        /\ attempt_count[o] < MaxAttempts
    BY <1>4 DEF ClaimMailboxOperation, Claimable, GrantLease
  <2>2. \A x \in Operations : x # o => /\ status'[x] = status[x] /\ lease'[x] = lease[x]
                                       /\ attempt_count'[x] = attempt_count[x]
                                       /\ results'[x] = results[x] /\ claims'[x] = claims[x]
    BY <1>4, <2>1 DEF LedgerTypeOK, ClaimMailboxOperation, OpenAttempt
  <2>3. /\ status'[o] = "running" /\ attempt_count'[o] = next
        /\ lease'[o].owner = w /\ lease'[o].epoch = next
        /\ w # None
    BY <2>1 DEF LedgerTypeOK, EpochIsAttemptNumber
  <2>4. next \in AttemptNumbers
    BY <2>1 DEF LedgerTypeOK
  <2>5. /\ results'[o][next] = "open" /\ claims'[o][next].owner = w
        /\ claims'[o][next].epoch = next
    BY <1>4, <2>3, <2>4 DEF LedgerTypeOK, ClaimMailboxOperation, OpenAttempt
  <2>6. \A n \in AttemptNumbers : n # next =>
          /\ claims'[o][n] = claims[o][n]
          /\ results'[o][n] = CloseAttempt(o, "unknown")[n]
    BY <1>4 DEF LedgerTypeOK, ClaimMailboxOperation, OpenAttempt
  <2>7. \A n \in AttemptNumbers : n # next =>
          /\ results'[o][n] # "open"
          /\ results'[o][n] = "none" <=> results[o][n] = "none"
    BY <2>6, CloseAttemptCloses, CloseAttemptType
  <2>8. attempt_count[o] \in Nat
    BY DEF LedgerTypeOK
  <2> HIDE DEF next
  <2>9. AttemptMatchesLease'
    BY <2>1, <2>2, <2>3, <2>4, <2>5, <2>7, <2>8 DEF AttemptMatchesLease, next
  <2>10. EpochIsAttemptNumber'
    BY <2>1, <2>2, <2>3, <2>4, <2>5, <2>6, <2>8 DEF EpochIsAttemptNumber
  <2> QED
    BY <2>9, <2>10
<1>5. ASSUME NEW o \in Operations, NEW n \in AttemptNumbers, NEW r \in Resolution,
             ResolveMailboxOperation(o, n, r)
      PROVE AttemptMatchesLease' /\ EpochIsAttemptNumber'
  <2>1. /\ status[o] = "running" /\ attempt_count[o] = n
        /\ status' = [status EXCEPT ![o] = r.status]
        /\ lease' = [lease EXCEPT ![o] = [owner |-> None, epoch |-> lease[o].epoch, left |-> 0]]
        /\ attempt_count' = attempt_count /\ claims' = claims
        /\ results' = [results EXCEPT ![o] =
             [k \in AttemptNumbers |-> IF k = n THEN r.status ELSE results[o][k]]]
    BY <1>5 DEF ResolveMailboxOperation, Fenced, ReleaseLease
  <2>2. \A x \in Operations : x # o => /\ status'[x] = status[x] /\ lease'[x] = lease[x]
                                       /\ results'[x] = results[x]
    BY <2>1 DEF LedgerTypeOK
  <2>3. /\ status'[o] = r.status /\ lease'[o].owner = None /\ lease'[o].epoch = lease[o].epoch
        /\ results'[o][n] = r.status
        /\ \A k \in AttemptNumbers : k # n => results'[o][k] = results[o][k]
    BY <2>1 DEF LedgerTypeOK
  <2> QED
    BY <2>1, <2>2, <2>3, ResolutionFields DEF AttemptMatchesLease, EpochIsAttemptNumber
<1>6. CASE Tick
  <2>1. \A x \in Operations : lease'[x].owner = lease[x].owner /\ lease'[x].epoch = lease[x].epoch
    BY <1>6 DEF Tick
  <2> QED
    BY <1>6, <2>1 DEF Tick, AttemptMatchesLease, EpochIsAttemptNumber
<1>7. CASE UNCHANGED ledgerVars
  BY <1>7 DEF AttemptMatchesLease, EpochIsAttemptNumber, ledgerVars
<1> QED
  BY <1>1, <1>2, <1>3, <1>4, <1>5, <1>6, <1>7 DEF LedgerNext

\* No operation gets ahead of its mailbox, and only an overtaken one is set
\* aside: revisions only grow, and Finalize compares the two under the lock.
LEMMA NextNewest ==
  ASSUME LedgerTypeOK, NewestIsNotSuperseded, [LedgerNext]_ledgerVars
  PROVE  NewestIsNotSuperseded'
<1> USE DEF Current, Superseded
<1>1. ASSUME NEW o \in Operations, NEW m \in Mailboxes, NEW hash \in Hashes, NEW rev \in Nat \ {0},
             NEW desired,
             InsertIntent(o, m, rev, hash), mailboxes[m].revision < rev,
             mailboxes' = [mailboxes EXCEPT ![m] = [revision |-> rev, desired_status |-> desired]]
      PROVE NewestIsNotSuperseded'
  <2>1. /\ intents'[o] = [mailbox |-> m, revision |-> rev, hash |-> hash]
        /\ status'[o] = "pending"
        /\ \A x \in Operations : x # o => intents'[x] = intents[x] /\ status'[x] = status[x]
    BY <1>1 DEF InsertIntent, LedgerTypeOK
  <2>2. /\ mailboxes'[m].revision = rev
        /\ \A y \in Mailboxes : mailboxes[y].revision <= mailboxes'[y].revision
    BY <1>1 DEF LedgerTypeOK, Mailbox
  <2>3. \A x \in Operations : status[x] # "absent" => intents[x] \in Intent
    BY DEF LedgerTypeOK
  <2>4. \A y \in Mailboxes : mailboxes[y].revision \in Nat /\ mailboxes'[y].revision \in Nat
    BY <1>1 DEF LedgerTypeOK, Mailbox
  <2> QED
    BY <2>1, <2>2, <2>3, <2>4 DEF NewestIsNotSuperseded, Intent
<1>2. ASSUME NEW o \in Operations, NEW m \in Mailboxes, NEW hash \in Hashes,
             RequestMailbox(o, m, hash)
      PROVE NewestIsNotSuperseded'
  <2>1. /\ InsertIntent(o, m, 1, hash)
        /\ mailboxes' = [mailboxes EXCEPT ![m] = [revision |-> 1, desired_status |-> "active"]]
        /\ mailboxes[m].revision < 1
        /\ 1 \in Nat \ {0}
    BY <1>2 DEF RequestMailbox
  <2> QED
    BY <1>1, <2>1
<1>3. ASSUME NEW o \in Operations, NEW m \in Mailboxes, NEW hash \in Hashes,
             NEW desired \in {"active", "suspended"}, ReviseMailbox(o, m, hash, desired)
      PROVE NewestIsNotSuperseded'
  <2>1. mailboxes[m].revision + 1 \in Nat \ {0} /\ mailboxes[m].revision < mailboxes[m].revision + 1
    BY DEF LedgerTypeOK, Mailbox
  <2> QED
    BY <1>1, <1>3, <2>1 DEF ReviseMailbox
<1>4. ASSUME NEW o \in Operations, FinalizeMailboxOperationBeforeClaim(o)
      PROVE NewestIsNotSuperseded'
  <2>1. /\ status[o] # "absent" /\ status'[o] = FinalResult(o)
        /\ \A x \in Operations : x # o => status'[x] = status[x]
        /\ intents' = intents /\ mailboxes' = mailboxes
    BY <1>4 DEF FinalizeMailboxOperationBeforeClaim, LedgerTypeOK
  <2> QED
    BY <2>1 DEF NewestIsNotSuperseded, FinalResult
<1>5. ASSUME NEW o \in Operations, NEW w \in Owners, ClaimMailboxOperation(o, w)
      PROVE NewestIsNotSuperseded'
  <2>1. /\ status[o] # "absent" /\ status'[o] = "running"
        /\ \A x \in Operations : x # o => status'[x] = status[x]
        /\ intents' = intents /\ mailboxes' = mailboxes
    BY <1>5 DEF ClaimMailboxOperation, Claimable, LedgerTypeOK
  <2> QED
    BY <2>1 DEF NewestIsNotSuperseded
<1>6. ASSUME NEW o \in Operations, NEW n \in AttemptNumbers, NEW r \in Resolution,
             ResolveMailboxOperation(o, n, r)
      PROVE NewestIsNotSuperseded'
  <2>1. /\ status[o] # "absent" /\ status'[o] = r.status
        /\ \A x \in Operations : x # o => status'[x] = status[x]
        /\ intents' = intents /\ mailboxes' = mailboxes
    BY <1>6 DEF ResolveMailboxOperation, Fenced, LedgerTypeOK
  <2> QED
    BY <2>1, ResolutionFields DEF NewestIsNotSuperseded
<1>7. CASE Tick
  BY <1>7 DEF Tick, NewestIsNotSuperseded
<1>8. CASE UNCHANGED ledgerVars
  BY <1>8 DEF NewestIsNotSuperseded, ledgerVars
<1> QED
  BY <1>2, <1>3, <1>4, <1>5, <1>6, <1>7, <1>8 DEF LedgerNext

\* The wake-up follows the status of its operation.
LEMMA NextWakeup ==
  ASSUME LedgerTypeOK, WakeupDeliveredOnce, [LedgerNext]_ledgerVars
  PROVE  WakeupDeliveredOnce'
<1>1. ASSUME NEW o \in Operations, NEW m, NEW hash, NEW rev, InsertIntent(o, m, rev, hash)
      PROVE WakeupDeliveredOnce'
  BY <1>1 DEF InsertIntent, LedgerTypeOK, WakeupDeliveredOnce
<1>2. ASSUME NEW o \in Operations, DeliverWakeup(o), status[o] \in Unfinished,
             NEW new \in {"running", "superseded", "dead"},
             status' = [status EXCEPT ![o] = new]
      PROVE WakeupDeliveredOnce'
  BY <1>2 DEF DeliverWakeup, LedgerTypeOK, WakeupDeliveredOnce, OutboxEvent
<1>3. ASSUME NEW o \in Operations, FinalizeMailboxOperationBeforeClaim(o)
      PROVE WakeupDeliveredOnce'
  BY <1>2, <1>3 DEF FinalizeMailboxOperationBeforeClaim, FinalResult
<1>4. ASSUME NEW o \in Operations, NEW w \in Owners, ClaimMailboxOperation(o, w)
      PROVE WakeupDeliveredOnce'
  BY <1>2, <1>4 DEF ClaimMailboxOperation, Claimable
<1>5. ASSUME NEW o \in Operations, NEW n \in AttemptNumbers, NEW r \in Resolution,
             ResolveMailboxOperation(o, n, r)
      PROVE WakeupDeliveredOnce'
  <2>1. /\ status[o] = "running" /\ status' = [status EXCEPT ![o] = r.status]
        /\ outbox' = outbox
    BY <1>5 DEF ResolveMailboxOperation, Fenced
  <2>3. r.status \notin {"absent", "pending"}
    BY ResolutionFields
  <2>2. /\ status'[o] = r.status
        /\ \A x \in Operations : x # o => status'[x] = status[x]
    BY <2>1 DEF LedgerTypeOK
  <2> QED
    BY <2>1, <2>2, <2>3 DEF WakeupDeliveredOnce
<1>6. CASE Tick
  BY <1>6 DEF Tick, WakeupDeliveredOnce
<1>7. CASE UNCHANGED ledgerVars
  BY <1>7 DEF WakeupDeliveredOnce, ledgerVars
<1> QED
  BY <1>1, <1>3, <1>4, <1>5, <1>6, <1>7 DEF LedgerNext, RequestMailbox, ReviseMailbox

\* An active mailbox keeps its evidence: the operation that proved it is
\* terminal and stays as it is, and a revision withdraws the claim.
LEMMA NextEvidence ==
  ASSUME LedgerTypeOK, ActiveHasEvidence, [LedgerNext]_ledgerVars
  PROVE  ActiveHasEvidence'
<1> DEFINE Evidence(m, o) ==
      /\ status[o] = "succeeded"
      /\ intents[o] = [mailbox |-> m, revision |-> mailboxes[m].revision, hash |-> shown[m].hash]
      /\ observed[o] = [mailbox |-> m, status |-> "active",
                        revision |-> mailboxes[m].revision, hash |-> shown[m].hash]
      /\ shown[m].revision = mailboxes[m].revision
\* A step that leaves succeeded operations and shown active mailboxes alone.
<1>1. ASSUME \A x \in Operations : status[x] = "succeeded" =>
               status'[x] = status[x] /\ intents'[x] = intents[x] /\ observed'[x] = observed[x],
             \A m \in Mailboxes : shown'[m].status = "active" =>
               shown'[m] = shown[m] /\ mailboxes'[m] = mailboxes[m]
      PROVE ActiveHasEvidence'
  BY <1>1 DEF ActiveHasEvidence
<1>2. ASSUME NEW o \in Operations, NEW m \in Mailboxes, NEW hash \in Hashes,
             RequestMailbox(o, m, hash)
      PROVE ActiveHasEvidence'
  <2>1. \A x \in Operations : status[x] = "succeeded" =>
          status'[x] = status[x] /\ intents'[x] = intents[x] /\ observed'[x] = observed[x]
    BY <1>2 DEF RequestMailbox, InsertIntent, LedgerTypeOK
  <2>2. \A y \in Mailboxes : y # m => mailboxes'[y] = mailboxes[y]
    BY <1>2 DEF RequestMailbox, LedgerTypeOK
  <2>3. shown[m].status # "active"
    <3> SUFFICES ASSUME shown[m].status = "active" PROVE FALSE
      OBVIOUS
    <3>1. PICK x \in Operations : Evidence(m, x)
      BY DEF ActiveHasEvidence
    <3>2. intents[x] # None
      BY <3>1 DEF LedgerTypeOK
    <3>3. intents[x] \in Intent /\ intents[x].revision = mailboxes[m].revision
      BY <3>1, <3>2 DEF LedgerTypeOK
    <3> QED
      BY <3>3, <1>2 DEF RequestMailbox, Intent
  <2> QED
    BY <1>1, <1>2, <2>1, <2>2, <2>3 DEF RequestMailbox
<1>3. ASSUME NEW o \in Operations, NEW m \in Mailboxes, NEW hash \in Hashes,
             NEW desired \in {"active", "suspended"}, ReviseMailbox(o, m, hash, desired)
      PROVE ActiveHasEvidence'
  <2>1. \A x \in Operations : status[x] = "succeeded" =>
          status'[x] = status[x] /\ intents'[x] = intents[x] /\ observed'[x] = observed[x]
    BY <1>3 DEF ReviseMailbox, InsertIntent, LedgerTypeOK
  <2>2. /\ \A y \in Mailboxes : y # m => mailboxes'[y] = mailboxes[y] /\ shown'[y] = shown[y]
        /\ shown'[m].status = "unknown"
    BY <1>3 DEF ReviseMailbox, LedgerTypeOK
  <2> QED
    BY <1>1, <2>1, <2>2
<1>4. ASSUME NEW o \in Operations, FinalizeMailboxOperationBeforeClaim(o)
      PROVE ActiveHasEvidence'
  BY <1>1, <1>4 DEF FinalizeMailboxOperationBeforeClaim, LedgerTypeOK
<1>5. ASSUME NEW o \in Operations, NEW w \in Owners, ClaimMailboxOperation(o, w)
      PROVE ActiveHasEvidence'
  BY <1>1, <1>5 DEF ClaimMailboxOperation, Claimable, LedgerTypeOK
<1>6. ASSUME NEW o \in Operations, NEW n \in AttemptNumbers, NEW r \in Resolution,
             ResolveMailboxOperation(o, n, r)
      PROVE ActiveHasEvidence'
  <2>1. /\ status[o] = "running" /\ intents' = intents /\ mailboxes' = mailboxes
        /\ status'[o] = r.status
        /\ \A x \in Operations : x # o => status'[x] = status[x] /\ observed'[x] = observed[x]
    BY <1>6 DEF ResolveMailboxOperation, Fenced, LedgerTypeOK
  <2>2. CASE r.status # "succeeded"
    <3>1. shown' = shown
      BY <1>6, <2>2 DEF ResolveMailboxOperation
    <3> QED
      BY <1>1, <2>1, <3>1
  <2>3. CASE r.status = "succeeded"
    <3>0. intents[o] \in Intent
      BY <2>1 DEF LedgerTypeOK
    <3>1. PICK m \in Mailboxes : m = intents[o].mailbox
      BY <3>0 DEF Intent
    <3>2. /\ r.observation \in Observation
          /\ r.observation.mailbox = m /\ r.observation.status = "active"
          /\ r.observation.revision = intents[o].revision /\ r.observation.hash = intents[o].hash
          /\ mailboxes[m].revision = intents[o].revision
      <4>1. r.observation \in Observation /\ r.observation # None
        BY <2>3, ResolutionFields, NullAssumption
      <4> QED
        BY <4>1, <1>6, <2>3, <3>1 DEF ResolveMailboxOperation, Proven, Current
    <3>3. /\ shown'[m] = [status |-> "active", revision |-> r.observation.revision,
                          hash |-> r.observation.hash]
          /\ \A y \in Mailboxes : y # m => shown'[y] = shown[y]
      BY <1>6, <2>3, <3>1 DEF ResolveMailboxOperation, LedgerTypeOK
    <3>4. observed'[o] = r.observation
      BY <1>6, <3>2, NullAssumption DEF ResolveMailboxOperation, LedgerTypeOK
    <3>5. r.observation = [mailbox |-> m, status |-> "active", revision |-> intents[o].revision,
                           hash |-> intents[o].hash]
      BY <3>2 DEF Observation
    <3>6. intents[o] = [mailbox |-> m, revision |-> intents[o].revision, hash |-> intents[o].hash]
      BY <3>0, <3>1 DEF Intent
    <3>7. Evidence(m, o)'
      BY <2>1, <2>3, <3>2, <3>3, <3>4, <3>5, <3>6
    <3>8. ASSUME NEW y \in Mailboxes, y # m, shown'[y].status = "active"
          PROVE  \E x \in Operations : Evidence(y, x)'
      <4>1. shown[y].status = "active"
        BY <3>3, <3>8
      <4>2. PICK x \in Operations : Evidence(y, x)
        BY <4>1 DEF ActiveHasEvidence
      <4>3. x # o
        BY <2>1, <4>2
      <4> QED
        BY <2>1, <3>3, <3>8, <4>2, <4>3
    <3>9. ASSUME NEW y \in Mailboxes, shown'[y].status = "active"
          PROVE  \E x \in Operations : Evidence(y, x)'
      BY <3>7, <3>8, <3>9
    <3> QED
      BY <3>9 DEF ActiveHasEvidence
  <2> QED
    BY <2>2, <2>3
<1>7. CASE Tick
  BY <1>1, <1>7 DEF Tick
<1>8. CASE UNCHANGED ledgerVars
  BY <1>1, <1>8 DEF ledgerVars
<1> QED
  BY <1>2, <1>3, <1>4, <1>5, <1>6, <1>7, <1>8 DEF LedgerNext

-----------------------------------------------------------------------------
(* The invariants, as theorems of the specification.                       *)

\* The conjuncts of LedgerInductive hold of the empty tables.
LEMMA InitInductive == LedgerInit => LedgerInductive
<1> SUFFICES ASSUME LedgerInit PROVE LedgerInductive
  OBVIOUS
<1>1. LedgerTypeOK
  BY InitType
<1>2. AttemptMatchesLease /\ EpochIsAttemptNumber
  BY DEF LedgerInit, AttemptMatchesLease, EpochIsAttemptNumber, NoLease
<1>3. NewestIsNotSuperseded /\ WakeupDeliveredOnce /\ ActiveHasEvidence
  BY DEF LedgerInit, NewestIsNotSuperseded, WakeupDeliveredOnce, ActiveHasEvidence, Unseen
<1> QED
  BY <1>1, <1>2, <1>3 DEF LedgerInductive

\* LedgerInductive is inductive.
LEMMA NextInductive == LedgerInductive /\ [LedgerNext]_ledgerVars => LedgerInductive'
BY NextType, NextAttempts, NextNewest, NextWakeup, NextEvidence DEF LedgerInductive

\* The inductive invariant holds in every reachable state of the tables.
THEOREM LedgerInductiveHolds == LedgerSpec => []LedgerInductive
BY InitInductive, NextInductive, PTL DEF LedgerSpec

\* No takeover, supersession, expiry or late receipt leaves an orphaned or a
\* second open attempt, whatever the number of operations and workers.
THEOREM AttemptsAreMatched == LedgerSpec => []AttemptMatchesLease
<1>1. LedgerInductive => AttemptMatchesLease
  BY DEF LedgerInductive
<1> QED
  BY <1>1, LedgerInductiveHolds, PTL

\* A fencing token is never handed out twice.
THEOREM EpochsAreUnique == LedgerSpec => []EpochIsAttemptNumber
<1>1. LedgerInductive => EpochIsAttemptNumber
  BY DEF LedgerInductive
<1> QED
  BY <1>1, LedgerInductiveHolds, PTL

\* A mailbox shown active rests on an operation that succeeded on evidence for
\* exactly the mailbox's current revision and configuration.
THEOREM ActiveRestsOnEvidence == LedgerSpec => []ActiveHasEvidence
<1>1. LedgerInductive => ActiveHasEvidence
  BY DEF LedgerInductive
<1> QED
  BY <1>1, LedgerInductiveHolds, PTL

\* Finalize sets aside only operations whose mailbox has moved on.
THEOREM NewestSurvives == LedgerSpec => []NewestIsNotSuperseded
<1>1. LedgerInductive => NewestIsNotSuperseded
  BY DEF LedgerInductive
<1> QED
  BY <1>1, LedgerInductiveHolds, PTL

\* The wake-up of an operation is delivered exactly once.
THEOREM WakeupsAreDeliveredOnce == LedgerSpec => []WakeupDeliveredOnce
<1>1. LedgerInductive => WakeupDeliveredOnce
  BY DEF LedgerInductive
<1> QED
  BY <1>1, LedgerInductiveHolds, PTL

-----------------------------------------------------------------------------
(* The step properties.                                                    *)

\* What a step of the ledger may do to one operation and its attempts.
Appends(o) ==
  /\ status[o] \in Terminal => /\ status'[o] = status[o]
                               /\ observed'[o] = observed[o]
  /\ intents[o] # None => intents'[o] = intents[o]
  /\ attempt_count'[o] \in {attempt_count[o], attempt_count[o] + 1}
  /\ lease'[o].epoch - lease[o].epoch = attempt_count'[o] - attempt_count[o]
  /\ \A n \in AttemptNumbers :
       /\ claims[o][n] # None => claims'[o][n] = claims[o][n]
       /\ results[o][n] \in Completed => results'[o][n] = results[o][n]
       /\ results[o][n] = "open" => results'[o][n] # "none"

\* A step appends to the history of every operation.
LEMMA NextAppends ==
  ASSUME LedgerInductive, [LedgerNext]_ledgerVars, NEW x \in Operations
  PROVE  Appends(x)
<1> USE DEF Appends
<1>0. /\ LedgerTypeOK /\ AttemptMatchesLease /\ EpochIsAttemptNumber
      /\ attempt_count[x] \in Nat /\ lease[x].epoch \in Nat
  BY DEF LedgerInductive, LedgerTypeOK, Lease
<1>1. ASSUME NEW o \in Operations, NEW m, NEW hash, NEW rev, InsertIntent(o, m, rev, hash)
      PROVE Appends(x)
  <2>1. /\ status[o] = "absent" /\ intents[o] = None
        /\ x # o => status'[x] = status[x] /\ intents'[x] = intents[x]
        /\ attempt_count' = attempt_count /\ lease' = lease /\ observed' = observed
        /\ claims' = claims /\ results' = results
    BY <1>0, <1>1 DEF InsertIntent, LedgerTypeOK
  <2> QED
    BY <1>0, <2>1
<1>2. ASSUME NEW o \in Operations, FinalizeMailboxOperationBeforeClaim(o)
      PROVE Appends(x)
  <2>1. /\ status[o] \in Unfinished
        /\ x # o => /\ status'[x] = status[x] /\ results'[x] = results[x]
        /\ lease'[x].epoch = lease[x].epoch
        /\ x = o => results'[x] = CloseAttempt(o, FinalResult(o))
        /\ FinalResult(o) \in Completed
        /\ attempt_count' = attempt_count /\ observed' = observed
        /\ claims' = claims /\ intents' = intents
    BY <1>0, <1>2 DEF FinalizeMailboxOperationBeforeClaim, ReleaseLease, FinalResult, LedgerTypeOK
  <2>2. ASSUME NEW n \in AttemptNumbers
        PROVE /\ results[x][n] \in Completed => results'[x][n] = results[x][n]
              /\ results[x][n] = "open" => results'[x][n] # "none"
    BY <1>0, <2>1, CloseAttemptCloses, CloseAttemptType
  <2> QED
    BY <1>0, <2>1, <2>2
<1>3. ASSUME NEW o \in Operations, NEW w \in Owners, ClaimMailboxOperation(o, w)
      PROVE Appends(x)
  <2>1. /\ status[o] \in Unfinished
        /\ x # o => /\ status'[x] = status[x] /\ results'[x] = results[x]
                    /\ claims'[x] = claims[x] /\ lease'[x] = lease[x]
                    /\ attempt_count'[x] = attempt_count[x]
        /\ x = o => /\ attempt_count'[x] = attempt_count[x] + 1
                    /\ lease'[x].epoch = lease[x].epoch + 1
        /\ observed' = observed /\ intents' = intents
    BY <1>0, <1>3
    DEF ClaimMailboxOperation, Claimable, GrantLease, OpenAttempt, LedgerTypeOK
  <2>2. ASSUME x = o, NEW n \in AttemptNumbers, n = attempt_count[o] + 1
        PROVE /\ results[x][n] = "none" /\ claims[x][n] = None
              /\ results'[x][n] = "open"
    BY <1>0, <1>3, <2>2
    DEF AttemptMatchesLease, LedgerTypeOK, ClaimMailboxOperation, OpenAttempt
  <2>3. ASSUME x = o, NEW n \in AttemptNumbers, n # attempt_count[o] + 1
        PROVE /\ claims'[x][n] = claims[x][n]
              /\ results[x][n] \in Completed => results'[x][n] = results[x][n]
              /\ results[x][n] = "open" => results'[x][n] # "none"
    <3>1. claims'[x][n] = claims[x][n] /\ results'[x][n] = CloseAttempt(o, "unknown")[n]
      BY <1>0, <1>3, <2>3 DEF LedgerTypeOK, ClaimMailboxOperation, OpenAttempt
    <3> QED
      BY <1>0, <2>3, <3>1, CloseAttemptCloses, CloseAttemptType
  <2> QED
    BY <1>0, <2>1, <2>2, <2>3
<1>4. ASSUME NEW o \in Operations, NEW k \in AttemptNumbers, NEW r \in Resolution,
             ResolveMailboxOperation(o, k, r)
      PROVE Appends(x)
  <2>1. /\ status[o] = "running" /\ results[o][k] = "open"
        /\ x # o => /\ status'[x] = status[x] /\ results'[x] = results[x]
                    /\ observed'[x] = observed[x]
        /\ lease'[x].epoch = lease[x].epoch
        /\ attempt_count' = attempt_count /\ claims' = claims /\ intents' = intents
        /\ \A n \in AttemptNumbers : n # k => results'[o][n] = results[o][n]
        /\ results'[o][k] = r.status
    BY <1>0, <1>4 DEF ResolveMailboxOperation, Fenced, ReleaseLease, LedgerTypeOK
  <2> QED
    BY <1>0, <2>1, ResolutionFields
<1>5. CASE Tick
  BY <1>0, <1>5 DEF Tick
<1>6. CASE UNCHANGED ledgerVars
  BY <1>0, <1>6 DEF ledgerVars
<1> QED
  BY <1>1, <1>2, <1>3, <1>4, <1>5, <1>6 DEF LedgerNext, RequestMailbox, ReviseMailbox

\* Outcomes, claims and completed attempts are never rewritten, and the token
\* moves exactly with the attempt counter.
THEOREM HistoryOnlyGrows == LedgerSpec => HistoryIsAppendOnly
<1>1. LedgerInductive /\ [LedgerNext]_ledgerVars => [\A o \in Operations : Appends(o)]_ledgerVars
  BY NextAppends
<1> QED
  BY <1>1, LedgerInductiveHolds, PTL DEF LedgerSpec, HistoryIsAppendOnly, Appends

\* What may end a live lease.
EndsByReceiptOrRevision(o) ==
  /\ status[o] = "running"
  /\ lease[o].left > 0
  /\ lease'[o].epoch # lease[o].epoch \/ status'[o] # "running"
  =>
  \/ \E r \in Resolution : ResolveMailboxOperation(o, attempt_count[o], r)
  \/ status'[o] = "superseded" /\ intents[o].revision < Current(o).revision

\* A live lease is never taken over and never declared dead: Claim needs an
\* expired one, and Finalize finds a running operation exhausted only then.
LEMMA NextLease ==
  ASSUME LedgerTypeOK, [LedgerNext]_ledgerVars, NEW x \in Operations
  PROVE  EndsByReceiptOrRevision(x)
<1> SUFFICES ASSUME status[x] = "running", lease[x].left > 0,
                    lease'[x].epoch # lease[x].epoch \/ status'[x] # "running"
             PROVE  \/ \E r \in Resolution : ResolveMailboxOperation(x, attempt_count[x], r)
                    \/ status'[x] = "superseded" /\ intents[x].revision < Current(x).revision
  BY DEF EndsByReceiptOrRevision
<1>1. ASSUME NEW o \in Operations, NEW m, NEW hash, NEW rev, InsertIntent(o, m, rev, hash)
      PROVE FALSE
  BY <1>1 DEF InsertIntent, LedgerTypeOK
<1>2. ASSUME NEW o \in Operations, FinalizeMailboxOperationBeforeClaim(o)
      PROVE status'[x] = "superseded" /\ intents[x].revision < Current(x).revision
  <2>1. x = o
    BY <1>2 DEF FinalizeMailboxOperationBeforeClaim, ReleaseLease, LedgerTypeOK
  <2>2. ~Exhausted(x)
    BY DEF Exhausted
  <2> QED
    BY <1>2, <2>1, <2>2 DEF FinalizeMailboxOperationBeforeClaim, FinalResult, Superseded, LedgerTypeOK
<1>3. ASSUME NEW o \in Operations, NEW w \in Owners, ClaimMailboxOperation(o, w)
      PROVE FALSE
  BY <1>3 DEF ClaimMailboxOperation, Claimable, GrantLease, LedgerTypeOK
<1>4. ASSUME NEW o \in Operations, NEW n \in AttemptNumbers, NEW r \in Resolution,
             ResolveMailboxOperation(o, n, r)
      PROVE \E q \in Resolution : ResolveMailboxOperation(x, attempt_count[x], q)
  <2>1. x = o
    BY <1>4 DEF ResolveMailboxOperation, ReleaseLease, LedgerTypeOK
  <2>2. n = attempt_count[o]
    BY <1>4 DEF ResolveMailboxOperation, Fenced
  <2> QED
    BY <1>4, <2>1, <2>2
<1>5. CASE Tick
  BY <1>5 DEF Tick
<1>6. CASE UNCHANGED ledgerVars
  BY <1>6 DEF ledgerVars
<1> QED
  BY <1>1, <1>2, <1>3, <1>4, <1>5, <1>6 DEF LedgerNext, RequestMailbox, ReviseMailbox

\* A worker that holds a live lease loses it only to a newer revision.
THEOREM LiveLeaseHolds == LedgerSpec => LiveLeaseIsExclusive
<1>1. LedgerTypeOK /\ [LedgerNext]_ledgerVars
        => [\A o \in Operations : EndsByReceiptOrRevision(o)]_ledgerVars
  BY NextLease
<1> QED
  BY <1>1, LedgerTypeCorrect, PTL DEF LedgerSpec, LiveLeaseIsExclusive, EndsByReceiptOrRevision

-----------------------------------------------------------------------------
(* Refinement: the ledger implements OperationLifecycle.                   *)

\* The abstract phase and outcome of a status.
LEMMA Mapping ==
  ASSUME NEW o \in Operations
  PROVE  /\ status[o] = "absent" => PhaseOf(o) = "absent" /\ OutcomeOf(o) = "none"
         /\ status[o] \in Waiting => PhaseOf(o) = "waiting" /\ OutcomeOf(o) = "none"
         /\ status[o] = "running" => PhaseOf(o) = "held" /\ OutcomeOf(o) = "none"
         /\ status[o] \in Terminal => PhaseOf(o) = "done" /\ OutcomeOf(o) = status[o]
BY DEF PhaseOf, OutcomeOf

\* A step that changes the status and token of one operation only changes the
\* abstract state of this operation only.
LEMMA OneOperation ==
  ASSUME NEW o \in Operations,
         \A x \in Operations : x # o => status'[x] = status[x] /\ lease'[x].epoch = lease[x].epoch
  PROVE  /\ phase' = [phase EXCEPT ![o] = PhaseOf(o)']
         /\ token' = [token EXCEPT ![o] = lease'[o].epoch]
         /\ outcome' = [outcome EXCEPT ![o] = OutcomeOf(o)']
         /\ lease'[o].epoch = lease[o].epoch => token' = token
         /\ OutcomeOf(o)' = OutcomeOf(o) => outcome' = outcome
         /\ phase[o] = PhaseOf(o)
<1>1. \A x \in Operations : x # o => PhaseOf(x)' = PhaseOf(x) /\ OutcomeOf(x)' = OutcomeOf(x)
  BY DEF PhaseOf, OutcomeOf
<1> QED
  BY <1>1 DEF phase, token, outcome

\* A step that changes no status and no token is invisible.
LEMMA Invisible ==
  ASSUME \A x \in Operations : status'[x] = status[x] /\ lease'[x].epoch = lease[x].epoch
  PROVE  UNCHANGED <<phase, token, outcome>>
<1>1. \A x \in Operations : PhaseOf(x)' = PhaseOf(x) /\ OutcomeOf(x)' = OutcomeOf(x)
  BY DEF PhaseOf, OutcomeOf
<1> QED
  BY <1>1 DEF phase, token, outcome

\* The empty ledger is the initial state of the lifecycle.
LEMMA InitLifecycle == LedgerInit => Lifecycle!Init
<1> SUFFICES ASSUME LedgerInit PROVE Lifecycle!Init
  OBVIOUS
<1>1. \A o \in Operations : /\ PhaseOf(o) = "absent" /\ OutcomeOf(o) = "none"
                            /\ lease[o].epoch = 0
  BY Mapping DEF LedgerInit, NoLease
<1> QED
  BY <1>1 DEF Lifecycle!Init, phase, token, outcome

\* Every step is a step of the lifecycle or invisible in it.
LEMMA NextLifecycle ==
  ASSUME LedgerInductive, [LedgerNext]_ledgerVars
  PROVE  Lifecycle!Next \/ UNCHANGED <<phase, token, outcome>>
<1>0. LedgerTypeOK /\ AttemptMatchesLease /\ EpochIsAttemptNumber
  BY DEF LedgerInductive
<1>1. ASSUME NEW o \in Operations, NEW m, NEW hash, NEW rev, InsertIntent(o, m, rev, hash)
      PROVE Lifecycle!Submit(o)
  <2>1. /\ status[o] = "absent" /\ status'[o] = "pending" /\ lease' = lease
        /\ \A x \in Operations : x # o => status'[x] = status[x] /\ lease'[x].epoch = lease[x].epoch
    BY <1>0, <1>1 DEF InsertIntent, LedgerTypeOK
  <2>2. PhaseOf(o) = "absent" /\ PhaseOf(o)' = "waiting" /\ OutcomeOf(o)' = OutcomeOf(o)
    BY <2>1 DEF PhaseOf, OutcomeOf
  <2> QED
    BY <2>1, <2>2, OneOperation DEF Lifecycle!Submit
<1>2. ASSUME NEW o \in Operations, NEW result \in {"succeeded", "failed", "dead", "superseded"},
             status[o] \in Unfinished,
             result \in {"succeeded", "failed"} => status[o] = "running",
             status' = [status EXCEPT ![o] = result], ReleaseLease(o)
      PROVE Lifecycle!Decide(o, result)
  <2>1. /\ status'[o] = result /\ lease'[o].epoch = lease[o].epoch
        /\ \A x \in Operations : x # o => status'[x] = status[x] /\ lease'[x].epoch = lease[x].epoch
    BY <1>0, <1>2 DEF ReleaseLease, LedgerTypeOK
  <2>2. /\ PhaseOf(o) \in {"waiting", "held"}
        /\ status[o] = "running" => PhaseOf(o) = "held"
        /\ PhaseOf(o)' = "done" /\ OutcomeOf(o)' = result
    BY <1>2, <2>1 DEF PhaseOf, OutcomeOf
  <2> QED
    BY <1>2, <2>1, <2>2, OneOperation
    DEF Lifecycle!Decide, Lifecycle!ByHolder
<1>3. ASSUME NEW o \in Operations, FinalizeMailboxOperationBeforeClaim(o)
      PROVE \E result \in {"dead", "superseded"} : Lifecycle!Decide(o, result)
  BY <1>2, <1>3 DEF FinalizeMailboxOperationBeforeClaim, FinalResult
<1>4. ASSUME NEW o \in Operations, NEW w \in Owners, ClaimMailboxOperation(o, w)
      PROVE Lifecycle!Grant(o)
  <2>1. /\ status[o] \in Unfinished /\ status'[o] = "running"
        /\ lease'[o].epoch = lease[o].epoch + 1 /\ lease[o].epoch < MaxAttempts
        /\ \A x \in Operations : x # o => status'[x] = status[x] /\ lease'[x].epoch = lease[x].epoch
    BY <1>0, <1>4
    DEF ClaimMailboxOperation, Claimable, GrantLease, LedgerTypeOK, EpochIsAttemptNumber
  <2>2. /\ PhaseOf(o) \in {"waiting", "held"} /\ PhaseOf(o)' = "held"
        /\ OutcomeOf(o)' = OutcomeOf(o)
    BY <2>1 DEF PhaseOf, OutcomeOf
  <2> QED
    BY <2>1, <2>2, OneOperation DEF Lifecycle!Grant, phase, token, outcome
<1>5. ASSUME NEW o \in Operations, NEW n \in AttemptNumbers, NEW r \in Resolution,
             ResolveMailboxOperation(o, n, r)
      PROVE Lifecycle!Release(o) \/ \E result \in {"succeeded", "failed", "dead"} :
                                      Lifecycle!Decide(o, result)
  <2>1. /\ status[o] = "running" /\ status' = [status EXCEPT ![o] = r.status]
        /\ ReleaseLease(o)
    BY <1>5 DEF ResolveMailboxOperation, Fenced
  <2>2. CASE r.status \in {"succeeded", "failed", "dead"}
    BY <1>2, <2>1, <2>2
  <2>3. CASE r.status \in {"retry_wait", "unknown"}
    <3>1. /\ status'[o] = r.status /\ lease'[o].epoch = lease[o].epoch
          /\ \A x \in Operations :
               x # o => status'[x] = status[x] /\ lease'[x].epoch = lease[x].epoch
      BY <1>0, <2>1 DEF ReleaseLease, LedgerTypeOK
    <3>2. PhaseOf(o) = "held" /\ PhaseOf(o)' = "waiting" /\ OutcomeOf(o)' = OutcomeOf(o)
      BY <2>1, <2>3, <3>1 DEF PhaseOf, OutcomeOf
    <3> QED
      BY <3>1, <3>2, OneOperation DEF Lifecycle!Release
  <2> QED
    BY <2>2, <2>3, ResolutionFields
<1>6. CASE Tick
  BY <1>6, Invisible DEF Tick
<1>7. CASE UNCHANGED ledgerVars
  BY <1>7, Invisible DEF ledgerVars
<1> QED
  BY <1>1, <1>3, <1>4, <1>5, <1>6, <1>7
  DEF LedgerNext, RequestMailbox, ReviseMailbox,
      Lifecycle!Next, Lifecycle!ByHolder, Lifecycle!GivenUp

\* The ledger keeps the promise of the lifecycle: tokens count up to
\* MaxAttempts, success and failure are decided by a holder, and only once.
THEOREM LedgerImplementsLifecycle == LedgerSpec => ImplementsLifecycle
<1>1. LedgerInductive /\ [LedgerNext]_ledgerVars => [Lifecycle!Next]_(Lifecycle!lifecycleVars)
  BY NextLifecycle DEF Lifecycle!lifecycleVars
<1> QED
  BY <1>1, InitLifecycle, LedgerInductiveHolds, PTL
  DEF LedgerSpec, ImplementsLifecycle, Lifecycle!Spec
=============================================================================
