SPECIFICATION FairSpec
CONSTANTS
  Clients = {c1, c2}
  NoOwner = none
  Expiration = 1
  MsPerSec = 2
  MaxRetry = 1
  MaxUnlocks = 1
  MaxLate = 1
  MaxDelayed = 1
  Refreshers = {c1}
  Unlockers = {c1}
  MaxCancels = 0
  Crashers = {c1}
PROPERTIES
  LockReturns
  InactiveLeaseEnds
  UnlockEndsAutoRefresh
CHECK_DEADLOCK FALSE
