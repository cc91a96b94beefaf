SPECIFICATION AllSpec
CONSTANTS
  MaxConns = 3
  MaxWeight = 6
  Modulus = 256
  Groups = {g1, g2}
  NoGroup = any
  MaxReady = 3
  MaxActive = 2
  Times = {1, 2, 3}
  DefaultTime = 2
  CounterMod = 8
INVARIANTS
  AllTypeOK
  Proportional
  Smooth
  RoundRobinCycle
  FastestUnlessSlowed
CHECK_DEADLOCK FALSE
