SPECIFICATION FairSpec
CONSTANTS
  NumBlocks = 2
  Writes = {w1}
  Reads = {r1}
  MaxBio = 2
  MaxClone = 1
  FreezeDrains = FALSE
  Old = Old
  None = None
PROPERTIES DeferredWritesLand ReadsAnswered HealthyDestroyEnds
CHECK_DEADLOCK FALSE
