SPECIFICATION Spec
CONSTANTS
  Label = {l1}
  Type = {t1, t2}
  MaxId = 3
SYMMETRY Interchangeable
INVARIANTS
  TypeOK
  AdjacencyExact
  LabelIndexExact
  IdentifiersFresh
PROPERTIES
  DeleteLeavesNothingDangling
  OnlyAskedForIsLost
  ImplementsAbstractGraph
CHECK_DEADLOCK FALSE
