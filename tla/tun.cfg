SPECIFICATION FairSpec
CONSTANTS
  None = None
  Foreign = Foreign
  Procs = {p1, p2}
  Gateways = {g1, g2}
  ForeignKinds = {"route", "rules", "table"}
  InitialTools <- OneTool
  MaxSetups = 2
  MaxFaults = 2
  MaxCrashes = 1
  MaxChanges = 1
  MaxInstalls = 1
INVARIANTS
  TypeOK
  LeftoversAreKnown
  SuccessIsReal
PROPERTIES
  ForeignIsKept
  Recovers
