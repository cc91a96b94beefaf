SPECIFICATION FairSpec
CONSTANTS
  Servers = {s1, s2}
  Requests = {r1, r2}
  Callbacks = {b1, b2}
  WaitTime = 2
  CbTimeout = 2
  CloseTime = 1
  ShutdownTimeout = 7
  MaxSignals = 3
INVARIANTS
  TypeOK
  StepsInOrder
  TimeoutOnlyForSlowRequests
PROPERTIES
  NoNewRequests
  SignalEndsProcess
CHECK_DEADLOCK FALSE
