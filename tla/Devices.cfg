SPECIFICATION Spec
CONSTANTS
  MaxDevices = 3
  Bdevs = {b1}
  Places = {p1}
  Objs = {o1, o2, o3}
  Actors = {t1}
  Ops = {"setup", "reload_inc", "destroy", "mount", "proc", "query", "exit"}
  MaxOpen = 1
  Walks = TRUE
  None = None
INVARIANTS TypeOK OneTracerPerBdev OpenDiskKept WalkMeetsDevices FreedOnlyUnfrozen ProcIsOneTable ExitEmptiesArray
SYMMETRY Symmetry
CHECK_DEADLOCK FALSE
