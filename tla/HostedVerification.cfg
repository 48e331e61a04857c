SPECIFICATION MCSpec
CONSTANTS
  r1 = r1
  r2 = r2
  r3 = r3
  alice = alice
  j1 = j1
  j2 = j2
  None = None
  Requests = {r1, r2, r3}
  Assertions <- AllAssertions
  Offsets <- MCOffsets
  Skew = 1
  MaxTtl = 2
  PlatformSkew = 0
  Lifetime = 2
  Retention = 2
  Tolerance = 6
  MaxTime = 5
SYMMETRY MCSymmetry
INVARIANTS NoReplayInWindow ReplayNeedsBoundary AcceptedWasActive SuspensionTakesEffect
PROPERTIES VerdictStands
CHECK_DEADLOCK FALSE
