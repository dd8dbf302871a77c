CONSTANTS
  outer = outer inner = inner t1 = t1 t2 = t2
  None = None
  Coroutines = {outer, inner}
  Threads = {t1, t2}
  Inputs <- MCInputs
  MaxAwaits <- MCMaxAwaits
SPECIFICATION FairSpec
INVARIANTS FramesSafe OneWayOn
PROPERTIES NotResumedOnceReleased Reclaimed Settles
CHECK_DEADLOCK FALSE
