SPECIFICATION Spec
CONSTANTS
  NumBlocks = 2
  Writes = {w1, w2}
  Reads = {r1}
  MaxBio = 2
  MaxClone = 1
  FreezeDrains = TRUE
  Old = Old
  None = None
SYMMETRY Symmetry
INVARIANTS TypeOK SnapshotKept RefsAreExact CompleteWhenThreadGone
CHECK_DEADLOCK FALSE
