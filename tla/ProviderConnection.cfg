SPECIFICATION FairSpec
CONSTANTS
  t1 = t1  t2 = t2
  Tasks <- MCTwo
  Faulty = TRUE
  None = None
CHECK_DEADLOCK FALSE
INVARIANT LeaseIsMine
INVARIANT RefreshedOnce
PROPERTY OnlyOAuthCreatesCredential
PROPERTY LockFrees
