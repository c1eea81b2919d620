SPECIFICATION Spec
CONSTANTS
  t1 = t1  t2 = t2
  Tasks <- MCTwo
  Faulty = FALSE
  None = None
CHECK_DEADLOCK FALSE
INVARIANT OneRefreshAtATime
