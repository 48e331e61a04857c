SPECIFICATION FairSpec
CONSTANTS
  Calls = {c1, c2, c3}
  Keys = {k1, k2}
  Materials = {m1, m2}
  Responses = {ok, unmet}
  None = None
PROPERTY EveryCallAnswered
CHECK_DEADLOCK FALSE
