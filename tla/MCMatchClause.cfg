SPECIFICATION Spec
CONSTANTS
  Null = null
  NoFilter = nofilter
  Graphs <- AllGraphs
  Clauses <- AllClauses
  Inputs <- AllInputs
INVARIANTS
  RowsAreTheMatches
  OptionalKeepsEveryRow
CHECK_DEADLOCK FALSE
