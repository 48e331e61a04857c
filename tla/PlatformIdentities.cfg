SPECIFICATION Spec
CONSTANTS
  Calls = {c1, c2, c3}
  Keys = {k1, k2}
  Services = {s1}
  Ids = {i1, i2}
  Jtis = {j1}
  None = None
  MayTransition <- MCMayTransition
  Retention = 2
  Lifetime = 1
  MaxTime = 2
SYMMETRY MCSymmetry
INVARIANTS RunsOncePerRetention ProvisionedIsUsable DuplicatesOnlyFromRaces
  SignedWhileActive VerifiedTwiceOnlyLate
PROPERTIES TerminationStands
CHECK_DEADLOCK FALSE
