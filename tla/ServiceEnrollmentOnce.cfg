SPECIFICATION Spec
CONSTANTS
  Calls = {c1, c2, c3}
  Keys = {k1, k2}
  None = None
  Claims = {email}
  RequiredClaims = {email}
  Docs = {"terms"}
  RequiredDocs = {"terms"}
  Declarations <- MCDeclarations
  Decisions <- MCDecisions
  MaxMoves = 1
SYMMETRY MCSymmetry
INVARIANT ConcurrentBodyRunsOnce
CHECK_DEADLOCK FALSE
