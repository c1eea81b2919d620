SPECIFICATION Spec
CONSTANTS
  m1 = m1  m2 = m2  r1 = r1  r2 = r2  r3 = r3  w1 = w1  w2 = w2
  Keys = {k1}
  Messages <- MCMessages
  Requests <- MCThree
  Workers <- MCWorkers
  MaxAttempts = 2
  MaxStalls = 1
  Faulty = TRUE
  None = None
SYMMETRY MCSymmetry
CHECK_DEADLOCK FALSE
INVARIANT DeliveredAtMostOnce
INVARIANT EvidenceIsReal
INVARIANT FailedIsKnown
INVARIANT ToldDeliveredIsMine
PROPERTY ImplementsDelivery
