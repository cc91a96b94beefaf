SPECIFICATION Spec
CONSTANTS
  Clients = {c1, c2}
  NoOwner = none
  Expiration = 1
  MsPerSec = 2
  MaxRetry = 1
  MaxUnlocks = 1
  MaxLate = 1
  MaxDelayed = 2
  Refreshers = {c1}
  Unlockers = {c1, c2}
  MaxCancels = 1
  Crashers = {c1}
INVARIANTS
  TypeOK
  LossIsReal
PROPERTIES
  ImplementsLease
  ProlongedByOwnerOnly
  KeyReturnsByLateLockOnly
CHECK_DEADLOCK FALSE
