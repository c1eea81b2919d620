SPECIFICATION Spec
CONSTANTS
  r1 = r1  r2 = r2  r3 = r3  o1 = o1  o2 = o2  x = x
  Requests <- MCRequests
  Users <- MCUsers
  First <- MCFirst
  Faulty = TRUE
  None = None
SYMMETRY MCSymmetry
CHECK_DEADLOCK FALSE
PROPERTY ImplementsTeam
