SPECIFICATION Spec
CONSTANTS
  Tasks = {t1}
  MaxDepth = 3
  MaxNodes = 4
  MaxLost = 1
INVARIANTS TypeOK TasksComeHome ShadowMatchesStack PostsRunOnce PrePostBalanced HooksNeedArray NothingLeft
CHECK_DEADLOCK FALSE
