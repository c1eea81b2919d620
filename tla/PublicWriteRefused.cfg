SPECIFICATION Spec
CONSTANTS
  p1 = p1  p2 = p2  c1 = c1  c2 = c2
  u1 = u1  u2 = u2  g1 = g1  g2 = g2  g3 = g3  v1 = v1  v2 = v2  v3 = v3
  Previews <- MCPreviews
  Calls <- MCCalls
  Users = {u1}
  Grants = {g1}
  UserOf <- MCOneUser
  Fields <- MCFields
  Values <- MCValues
  Faulty = FALSE
  Nobody = Nobody
INVARIANT RefusedIsNotVerified
