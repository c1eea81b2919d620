SPECIFICATION ServerSpec
CONSTANTS
  u1 = u1  u2 = u2  w1 = w1
  Users <- MCUsers
  Workspaces = {w1}
  Members <- MCMembers
  Visits = {v1, v2}
  Codes = {v1, v2}
  Requests = {r1, r2}
  Faulty = FALSE
  Null = Null
  None = None
SYMMETRY MCServerSymmetry
CHECK_DEADLOCK FALSE
INVARIANT OneTokenPerConsent
INVARIANT TokensAreAllowed
