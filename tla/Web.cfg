SPECIFICATION WebSpec
CONSTANTS
  MaxRoutes = 3
  Registered1 <- MCRegistered1
  Registered2 <- MCRegistered2
  Requests <- MCRequests
  Accepted <- MCAccepted
  GlobalLayers <- MCGlobalLayers
  RouteLayers <- MCRouteLayers
  Pages = {0, 200, 404}
INVARIANTS
  Dispatch
  MiddlewareMatched
  ToldWhatWasSent
PROPERTY RoutesStay
CHECK_DEADLOCK FALSE
