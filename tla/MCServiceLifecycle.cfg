SPECIFICATION LifeSpec
CONSTANTS
  Runners = {r1, r2}
  Requests = {q1, q2}
INVARIANT StopIsOrderly
PROPERTY ProcessExits
CHECK_DEADLOCK FALSE
