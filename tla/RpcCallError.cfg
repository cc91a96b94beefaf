SPECIFICATION Spec
CONSTANTS
  Calls = {c1, c2}
  NoCall = none
  Plain = {c2}
  Conns = {k1, k2}
  NoConn = nowhere
  MaxBreaks = 1
INVARIANT ErrorIsTold
CHECK_DEADLOCK FALSE
