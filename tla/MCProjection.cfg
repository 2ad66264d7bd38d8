SPECIFICATION PSpec
CONSTANTS
  Null = null
  NoFilter = nofilter
  Tables <- MCTables
  Queries <- MCQueries
INVARIANTS
  TypeOK
  KeepsTheFirstOfEach
  GroupsPartitionTheRows
  OrderedAsAsked
PROPERTIES
  PagesTile
  UnionGivesEachRowOnce
