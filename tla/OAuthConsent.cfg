SPECIFICATION ConsentSpec
CONSTANTS
  r1 = r1  r2 = r2  r3 = r3  u1 = u1  u2 = u2  w1 = w1  w2 = w2
  Users <- MCUsers
  Workspaces <- MCWorkspaces
  Members <- MCMembers
  Visits <- MCVisits
  Null = Null
SYMMETRY MCSymmetry
CHECK_DEADLOCK FALSE
INVARIANT OneDecision
INVARIANT BegunStaysMine
INVARIANT CodeIsForMember
