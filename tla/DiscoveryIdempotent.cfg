SPECIFICATION FairSpec
CONSTANTS
  Instances = {a}
  Matching = {a}
  MaxStarts = 1
  MaxBreaks = 0
  MaxUpsets = 1
PROPERTY ResolveIsIdempotent
CHECK_DEADLOCK FALSE
