SPECIFICATION MCSpec
CONSTANTS
  Signings = {s1}
  Keys = {k1, k2, k3, k4}
  Retention = 3
  None = None
  p1 = p1
  p2 = p2
  Inspections = {p1, p2}
  Kinds <- MCKinds
  Flights = {f1, f2}
  Versions = {1, 2, 3}
  Unbound = {3}
  Lifetime = 1
  MaxTime = 3
  MaxRedirects = 5
  Controls = {"default", "no-store"}
INVARIANTS SignedOnce InspectedWasCurrent OneInspectionAtATime
PROPERTIES ApprovedSigningEnds
CHECK_DEADLOCK FALSE
