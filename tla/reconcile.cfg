SPECIFICATION FairReconcileSpec
CONSTANTS
  w = w
  h1 = h1
  h2 = h2
  Worker = w
  Users = {}
  Starters = {}
  Posters = {h1, h2}
  Callers = {w}
  None = None
  QueueCap = 1
  MaxCommits = 2
  MaxKernels = 2
  MaxToggles = 0
  MaxDeaths = 0
  MaxRestoreFaults = 0
  Slow = FALSE
  MaxGenFaults = 1
  MaxSetupFaults = 1
  MaxReloadFaults = 1
INVARIANTS
  FilesAreSound
  SettledIsRight
PROPERTIES
  FileGoesForward
  CommitsAreGenerated
CHECK_DEADLOCK FALSE
