SPECIFICATION ReconcileSpec
CONSTANTS
  w = w
  u = u
  h1 = h1
  Worker = w
  Users = {u}
  Starters = {u}
  Posters = {h1}
  Callers = {w, u}
  None = None
  QueueCap = 1
  MaxCommits = 1
  MaxKernels = 2
  MaxToggles = 0
  MaxDeaths = 0
  MaxRestoreFaults = 0
  Slow = FALSE
  MaxGenFaults = 0
  MaxSetupFaults = 0
  MaxReloadFaults = 1
INVARIANTS
  WorkIsCurrent
CHECK_DEADLOCK FALSE
