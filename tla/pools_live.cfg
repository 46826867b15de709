SPECIFICATION FairSpec
CONSTANTS
  a = a
  b = b
  p = p
  q = q
  h1 = h1
  None = None
  FromUrl = FromUrl
  Subs = {a, b}
  Pools = {p}
  Handlers = {h1}
  Scheduler = Scheduler
  Threshold = 2
  MaxMembers = 2
  MaxContent = 1
  Cases <- FailoverCases
PROPERTIES
  FailoverHappens
CHECK_DEADLOCK FALSE
