SPECIFICATION FairSpec
CONSTANTS
  None = None
  Elsewhere = Elsewhere
  Versions = {v1, v2}
  Tasks = {t1, t2}
  Catalogs <- AllOrNone
  Ops = {"download", "upgrade", "activate", "delete", "import", "refresh",
         "start", "stop"}
  MaxRequests = 3
  MaxOverlaps = 1
  MaxFaults = 1
INVARIANTS
  ActiveIsInstalled
  ProgressIsTrue
PROPERTIES
  ActivationTakesEffect
  TasksEnd
CHECK_DEADLOCK FALSE
