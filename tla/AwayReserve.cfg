SPECIFICATION Spec
CONSTANTS
  None = None
  Hosts = {a, b}
  Windows = {w1, w2}
  Percents <- MCPercents
  Budget <- MCBudget
  CrashInCommand = FALSE
  MaxCrash = 1
  MaxFault = 1
  MaxChange = 4
  MaxExternal = 1
  MaxCommand = 1
SYMMETRY Symmetry
INVARIANTS TypeOK OwedIsRecorded
PROPERTIES RestoreRespectsChoice
