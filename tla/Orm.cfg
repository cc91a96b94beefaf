SPECIFICATION AllSpec
CONSTANTS
  MaxBuilds = 2
  Tasks = {t1, t2}
  MaxOpen = 2
  MaxStatements = 2
  Goroutines = {g1, g2, g3}
  Types <- MCTypes
  OptionLists <- MCOptionLists
INVARIANTS
  TextMatchesQuery
  OptionsKept
PROPERTIES
  ImplementsTx
  TasksEnd
CHECK_DEADLOCK FALSE
