SPECIFICATION Spec
CONSTANTS
  Blocks = {b1}
  Pages = {"inode"}
  MountWrites = FALSE
  MaxQueue = 1
INVARIANT EveryWriteCaptured
