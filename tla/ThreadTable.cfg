\* thr_join against its documentation.
CONSTANTS
  Caller = {c1, c2}
  Closure = {f, g}
  None = None
  MaxSpawn = 3
SPECIFICATION Spec
CHECK_DEADLOCK FALSE
INVARIANT JoinWaits
