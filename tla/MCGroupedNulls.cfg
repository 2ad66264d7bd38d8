SPECIFICATION PSpec
CONSTANTS
  Null = null
  NoFilter = nofilter
  Tables <- MCTables
  Queries <- MCGrouped
INVARIANTS
  NullsWhereAsked
