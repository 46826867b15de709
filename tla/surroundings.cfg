SPECIFICATION Spec
CONSTANTS
  None = None
  Candidates <- MCCandidates
  Profile = "profile"
  LoginOnly = {"bash_profile"}
  Missing = Missing
  Processes = {"A", "B"}
  Tasks = {"a1", "b1"}
  Owner <- MCOwner
  Ports = {"port1", "port2"}
  Homes <- MCHomes
  MaxRequests = 3
  MaxProxyFaults = 1
  Tuis = {"t1", "t2"}
  Child <- MCChild
  ByHand = {"h"}
  Service = "s"
  MaxStarts = 1
  MaxDaemonFaults = 1
  MaxJobs = 3
  MaxJobFaults = 2
  MaxUser = 2
  Defaults <- MCDefaults
  Legacy <- MCLegacy
  Customs <- MCCustoms
  Contents = {"", "x"}
  Names = {"n"}
  Urls = {"u", "v"}
  Policies = {"DIRECT"}
  MaxEdits = 2
  Answers <- MCAnswers
  Direct = {3}
  Delays = {0, 1}
  Screens <- MCScreens
  MaxRefreshes = 2
  MaxTests = 2
  MaxMoves = 2
INVARIANTS
  TypesOK
  UserTextKept
  SwitchTakesEffect
  StopIsRemembered
  QuitSparesOthers
  QuitEndsItsDaemon
  UpgradeIsTransparent
  UninstallIsComplete
  KernelFollowsRules
  MarksEnd
PROPERTIES
  EditIsOfItsRule
  RefreshMovesNothing
CHECK_DEADLOCK FALSE
