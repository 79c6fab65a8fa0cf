SPECIFICATION LedgerSpec
CONSTANTS
  Operations = {o1, o2}
  Mailboxes = {m1}
  Owners = {w1, w2}
  Hashes = {h1}
  None = None
  MaxAttempts = 2
  LeaseDuration = 2
  MaxRetryDelay = 1
  MaxRevision = 2
SYMMETRY Symmetry
INVARIANTS
  LedgerTypeOK
  AttemptMatchesLease
  EpochIsAttemptNumber
  ActiveHasEvidence
  NewestIsNotSuperseded
  WakeupDeliveredOnce
PROPERTIES
  HistoryIsAppendOnly
  LiveLeaseIsExclusive
  ImplementsLifecycle
