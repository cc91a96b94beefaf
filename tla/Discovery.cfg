SPECIFICATION FairSpec
CONSTANTS
  Instances = {a}
  Matching = {a}
  MaxStarts = 2
  MaxBreaks = 1
  MaxUpsets = 1
INVARIANTS
  ServingIsListed
  QuietAfterClose
PROPERTIES
  CloseReturns
  CloseRegistryEndsWatch
  EventsAreApplied
CHECK_DEADLOCK FALSE
