SPECIFICATION Spec
CONSTANTS
  Null = null
  NoFilter = nofilter
  Graphs <- AllGraphs
  HopPats <- AllHopPats
  Starts <- AllStarts
INVARIANTS
  TypeOK
  ResultsAreTrails
  ShortestFirstAndOnce
  CompleteAtTheEnd
  IsTrailsAtTheEnd
PROPERTY Terminates
CHECK_DEADLOCK FALSE
