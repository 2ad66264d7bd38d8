SPECIFICATION WSpec
CONSTANTS
  Label = {"L"}
  Type = {"T", "REL"}
  MaxId = 5
  Null = null
  NoFilter = nofilter
  Val = {"x"}
  DefaultType = "REL"
  Clauses <- MCStructure
  MaxClauses = 5
INVARIANTS
  QueryTypeOK
  BindingsLiveOrDeletedHere
  MergeEnsuresMatch
PROPERTIES
  DanglingNeedsADeletionHere
  OnlyThroughTheOperations
  ClausesEnd
CHECK_DEADLOCK FALSE
