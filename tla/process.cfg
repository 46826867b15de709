SPECIFICATION Spec
CONSTANTS
  c1 = c1
  c2 = c2
  Callers = {c1, c2}
  None = None
  MaxKernels = 2
  MaxToggles = 1
  MaxDeaths = 1
  MaxRestoreFaults = 0
  Slow = TRUE
SYMMETRY CallerSymmetry
INVARIANTS
  OneKernel
  RulesAreOwned
