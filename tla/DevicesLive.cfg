SPECIFICATION FairSpec
CONSTANTS
  MaxDevices = 1
  Bdevs = {b1}
  Places = {p1}
  Objs = {o1, o2}
  Actors = {t1, t2}
  Ops = {"setup", "reload_snap", "reload_inc", "destroy", "to_inc", "to_snap", "mount", "umount", "proc"}
  MaxOpen = 0
  Walks = FALSE
  None = None
INVARIANTS ActiveIsMounted ThreadFollowsState  
PROPERTIES CallsReturn
CHECK_DEADLOCK FALSE
