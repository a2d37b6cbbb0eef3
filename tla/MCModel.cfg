\* A model of two levels that is read three times.  A walk ends at its leaf.
CONSTANTS
  Cascades = 2
  Numbers = 2
  Trees = 2
  Splits = 1
  Pixels = 2
  MaxLoads = 3
  SplitCounts <- UpTo31
  Word = 373
SPECIFICATION MCSpec
CHECK_DEADLOCK FALSE
INVARIANTS
  TypeOK
  LeafExists
  LeafIsPath
  CellsExist
  DefinedIsUsable
PROPERTY
  KeepsItems
