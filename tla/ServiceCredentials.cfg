SPECIFICATION Spec
CONSTANTS
  Calls = {c1, c2}
  Agents = {a1, a2}
  Ids = {i1, i2, i3}
  Secrets = {s1, s2}
  Scopes = {read}
  None = None
  Handlers <- MCTypes
  Methods <- MCTypes
  MaxTime = 1
  InitialStores <- MCStores
SYMMETRY MCSymmetry
INVARIANTS GrantsAreRecorded AmbiguityRefused RevokeCovers AuthenticatedIsLive
PROPERTIES RevocationIsFinal
CHECK_DEADLOCK FALSE
