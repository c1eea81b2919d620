SPECIFICATION Spec
CONSTANTS
  c1 = c1  c2 = c2  c3 = c3  p1 = p1  p2 = p2  p3 = p3  p4 = p4
  Previews = {p1, p2, p3, p4}
  Calls <- MCCalls
  Policy <- MCPolicy
  Names = {old, new, other}
  Expected = old
  Target = new
  Faulty = TRUE
  None = None
SYMMETRY MCSymmetry
CONSTRAINT MCOnePreview
CHECK_DEADLOCK FALSE
INVARIANT WritesWhatWasShown
INVARIANT CommittedIsApplied
INVARIANT BlockedIsUntouched
PROPERTY ImplementsOneShot
