SPECIFICATION FairSpec
CONSTANTS
  Blocks = {b1}
  Pages = {"inode", "anon"}
  MountWrites = TRUE
  MaxQueue = 3
INVARIANTS TypeOK ChangesTracked CleanFileComplete HandedOverComplete OneThreadPerManager
PROPERTIES QueuedIsRecorded 
