SPECIFICATION Spec
CONSTANTS
  Calls = {c1, c2}
  None = None
  Keys = {k1}
  Blank = Blank
  Documents = service_documents
  email = email
  terms = terms
  privacy = privacy
  apikey = apikey
  Claims <- MCClaims
  Ids <- MCIds
  Types <- MCTypes
  Deployments <- MCDeployments
  Decisions <- MCDecisions
  Requests <- MCRequests
  MaxMoves = 1
INVARIANTS Understood ProblemsPreserved DeclaredDocumentsSuffice
SYMMETRY Interchangeable
CHECK_DEADLOCK FALSE
