SPECIFICATION FairSpec
CONSTANTS
  s1 = s1
  s2 = s2
  w1 = w1
  None = None
  Sessions = {s1, s2}
  Writers = {w1}
  Fields <- MCFields
  Values <- MCValues
  Default <- MCDefault
  Valid <- MCValid
  Credential = "secret"
  Empty = 0
  ServerOwned = {"path"}
  MaxEdits = 2
  MaxFlushFaults = 1
  MaxChmodFaults = 1
  MaxCrashes = 1
  MaxLoadFaults = 1
INVARIANTS
  StoreIsSound
  ValidInForce
  DiskNeverBehind
PROPERTIES
  NoLostUpdate
  AtomicSpec
  MutationEnds
CHECK_DEADLOCK FALSE
