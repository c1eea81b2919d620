SPECIFICATION Spec
CONSTANTS
  r1 = r1  r2 = r2  r3 = r3  a1 = a1  a2 = a2  a3 = a3  k1 = k1  k2 = k2
  Requests <- MCRequests
  Accounts <- MCAccounts
  Connections = {k1, k2}
  ConnectionOf <- MCConnection
  Terms <- MCTerms
  FreeLimit = 1
  Faulty = TRUE
  None = None
  Absent = Absent
SYMMETRY MCSymmetry
CONSTRAINT MCLimited
CHECK_DEADLOCK FALSE
INVARIANT EnabledWithinLimit
