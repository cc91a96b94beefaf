SPECIFICATION Spec
CONSTANTS
  MaxConns = 3
  MaxWeight = 4
  Modulus = 256
INVARIANT NoNodeForgotten
