SPECIFICATION Spec
CONSTANTS
  None = None
  Hosts = {a}
  Windows = {w1, w2}
  Percents <- MCPercents
  Budget <- MCBudget
  CrashInCommand = TRUE
  MaxCrash = 1
  MaxFault = 1
  MaxChange = 3
  MaxExternal = 1
  MaxCommand = 1
INVARIANTS RefusalOwesNothing
PROPERTIES EventuallyRestored EventuallyApplied
