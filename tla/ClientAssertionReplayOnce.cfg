SPECIFICATION Spec
CONSTANTS
  r1 = r1
  r2 = r2
  r3 = r3
  alice = alice
  j1 = j1
  j2 = j2
  None = None
  Requests = {r1, r2, r3}
  Assertions <- MCAssertions
  Skew = 1
  MaxTtl = 2
  Tolerance = 1
  MaxTime = 5
SYMMETRY MCSymmetry
INVARIANT AcceptedOnce
CHECK_DEADLOCK FALSE
