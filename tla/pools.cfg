SPECIFICATION Spec
CONSTANTS
  a = a
  b = b
  p = p
  q = q
  h1 = h1
  None = None
  FromUrl = FromUrl
  Subs = {a, b}
  Pools = {p, q}
  Handlers = {h1}
  Scheduler = Scheduler
  Threshold = 1
  MaxMembers = 2
  MaxContent = 2
  Cases <- SafetyCases
INVARIANTS
  RecordsAreTrue
  RuntimeFollowsPools
  PoolsStayUsable
CHECK_DEADLOCK FALSE
