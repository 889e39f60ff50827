SPECIFICATION Spec
CONSTANTS
  NumBlocks = 1
  Writes = {w1}
  Reads = {r1}
  MaxBio = 1
  MaxClone = 1
  FreezeDrains = TRUE
  Old = Old
  None = None
INVARIANT ReadsSeeSnapshot
CHECK_DEADLOCK FALSE
