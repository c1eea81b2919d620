SPECIFICATION Spec
CONSTANTS
  r1 = r1  r2 = r2  r3 = r3  r4 = r4
  Codes = {c1}
  Requests <- MCThree
  Faulty = FALSE
  None = None
SYMMETRY MCSymmetry
CHECK_DEADLOCK FALSE
INVARIANT ReplayNeverEscapes
