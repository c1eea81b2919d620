SPECIFICATION Spec
CONSTANTS
  r1 = r1  r2 = r2  r3 = r3  p1 = p1  p2 = p2
  Requests <- MCRequests
  Passwords <- MCPasswords
  States = {g}
  Faulty = TRUE
  None = None
SYMMETRY MCSymmetry
CHECK_DEADLOCK FALSE
INVARIANT RevocationCoversSeen
INVARIANT ChangeKeepsASession
INVARIANT OneAccount
INVARIANT StateUsedOnce
