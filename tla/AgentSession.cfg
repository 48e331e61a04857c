SPECIFICATION Spec
CONSTANTS
  c1 = c1
  c2 = c2
  c3 = c3
  Calls = {c1, c2, c3}
  Sessions = {s1, s2}
  Ids = {i1, i2}
  Creds = {x1, x2}
  Types = {t1, t2}
  Keys = {k1}
  None = None
  Asked <- MCAsked
SYMMETRY MCSymmetry
INVARIANTS OneGrantPerFlight GrantRestsOnEvidence RevokedStaysForgotten
PROPERTIES RevokeForgetsOnlyRevoked LostOnlyUnderRandomKeys
CHECK_DEADLOCK FALSE
