SPECIFICATION AllFairSpec
CONSTANTS
  Calls = {c1, c2}
  NoCall = none
  Plain = {c2}
  Conns = {k1, k2}
  NoConn = nowhere
  MaxBreaks = 1
  Requests <- MCRequests
  Responses <- MCResponses
  MaxWritten = 2
  Cuts = {16}
INVARIANT
  TypeOK
PROPERTIES
  ImplementsCall
  ContextEndsCall
  AnswerEndsCall
  ImplementsQueue
CHECK_DEADLOCK FALSE
