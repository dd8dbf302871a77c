SPECIFICATION Spec
CONSTANTS
  outer = outer inner = inner t1 = t1 t2 = t2
  None = None
  Coroutines = {outer, inner}
  Threads = {t1, t2}
  Inputs <- MCInputs
  MaxAwaits <- MCMaxAwaits
INVARIANTS StateNotGone
CHECK_DEADLOCK FALSE
