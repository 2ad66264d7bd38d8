SPECIFICATION Spec
CONSTANTS
  Null = null
  NoFilter = nofilter
  Graphs <- AllGraphs
  Clauses <- FilteredTrails
  Inputs <- AllInputs
INVARIANT FiltersAreNotIgnored
CHECK_DEADLOCK FALSE
