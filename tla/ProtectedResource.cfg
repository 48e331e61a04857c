SPECIFICATION Spec
CONSTANTS
  f1 = f1
  home = home
  other = other
  None = None
  x = x
  y = y
  Malformed = Malformed
  Fetches = {f1}
  Others = {q1}
  OtherReads <- MCOtherReads
  Origins = {home, other}
  Home <- MCHome
  PolicyOf <- MCPolicyOf
  Options <- MCOptions
  Advertised <- MCAdvertised
  Required <- MCRequired
  MaxRedirects = 2
  Ages = {1}
  MaxAge = 1
  Limit = 1
  MaxTime = 1
  MaxChanges = 1
INVARIANTS AgeIsHonest AuthenticatesByInvitation RequestsCarryTheirOwn
CHECK_DEADLOCK FALSE
