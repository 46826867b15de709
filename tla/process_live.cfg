SPECIFICATION FairSpec
CONSTANTS
  c1 = c1
  c2 = c2
  Callers = {c1, c2}
  None = None
  MaxKernels = 1
  MaxToggles = 0
  MaxDeaths = 1
  MaxRestoreFaults = 1
  Slow = TRUE
PROPERTIES
  CallsEnd
  DeathIsNoticed
