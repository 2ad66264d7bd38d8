SPECIFICATION WSpec
CONSTANTS
  Label = {"L", "M"}
  Type = {"REL"}
  MaxId = 4
  Null = null
  NoFilter = nofilter
  Val = {"x"}
  DefaultType = "REL"
  Clauses <- MCMerging
  MaxClauses = 5
INVARIANTS
  MergeMakesNoDuplicate
CHECK_DEADLOCK FALSE
