SPECIFICATION Spec
CONSTANTS
  c1 = c1
  c2 = c2
  Callers = {c1, c2}
  None = None
  MaxKernels = 2
  MaxToggles = 0
  MaxDeaths = 0
  MaxRestoreFaults = 0
  Slow = FALSE
SYMMETRY CallerSymmetry
INVARIANTS
  RulesProtectKernel
