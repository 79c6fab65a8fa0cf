SPECIFICATION AuthSpec
CONSTANTS
  Calls = {c1}
  Flows = {f1}
  Sessions = {s1}
  box = box
  adm = adm
  Principals = {adm, box}
  AccountType <- MCAccountType
  None = None
  MaxTime = 3
  LoginUntil = 0
  FlowLifetime = 1
  IdleTimeout = 2
  AbsoluteTimeout = 3
  TouchInterval = 1
INVARIANT LogoutRevokes
