SPECIFICATION Spec
CONSTANTS
  TotalSects = 2
  SectSize = 2
  Values = {v1, v2}
  Hole = Hole
  DataOffset = 3
  FileMax = 5
  CacheSizes = {0, 1}
  Unmapped = Unmapped
  Changed = Changed
  MaxUsage = 3
  DrainErrors = FALSE
SYMMETRY Symmetry
INVARIANTS TypeOK CountIsExact MappingsAreOwned CleanMeansFlushed
PROPERTY ImplementsStore
