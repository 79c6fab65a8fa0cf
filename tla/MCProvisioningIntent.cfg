SPECIFICATION IntentFairSpec
CONSTANTS
  Requests = {r1, r2, r3}
  Keys = {k1, k2}
  Addresses = {a1, a2}
  Names = {n1}
  None = None
INVARIANTS
  IntentTypeOK
  OneHolder
  IntentIsWhole
  AnswersAgree
  UnavailableMeansFault
PROPERTY EveryRequestIsAnswered
