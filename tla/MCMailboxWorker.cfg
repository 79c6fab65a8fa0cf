SPECIFICATION Spec
CONSTANTS
  Operations = {o1, o2}
  Mailboxes = {m1}
  Owners = {w1, w2}
  Hashes = {h1}
  None = None
  MaxAttempts = 2
  LeaseDuration = 2
  MaxRetryDelay = 1
  MaxRevision = 2
  MaxCalls = 1
  AttemptTimeout = 1
  LeaseSafetyMargin = 1
  BaseRetryDelay = 1
  MaxCrashes = 0
SYMMETRY Symmetry
INVARIANTS
  WorkerTypeOK
  LeaseCoversCalls
  DeadMeansExhausted
  SucceededWasStored
