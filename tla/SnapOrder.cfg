SPECIFICATION Spec
CONSTANTS
  NumBlocks = 3
  Writes = {w1, w2}
  Reads = {r1}
  MaxBio = 2
  MaxClone = 2
  FreezeDrains = TRUE
  Old = Old
  None = None
SYMMETRY Symmetry
INVARIANT SnapshotKept
CHECK_DEADLOCK FALSE
