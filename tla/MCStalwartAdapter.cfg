SPECIFICATION AdapterFairSpec
CONSTANTS
  Mailboxes = {m1}
  Owners = {w1, w2}
  Hashes = {h1, h2}
  None = None
  MaxRevision = 2
  MaxCalls = 1
INVARIANTS
  AdapterTypeOK
  RetryableMeansNoEffect
  OkMeansReached
PROPERTIES
  ForeignAccountUntouched
  EnsureReturns
