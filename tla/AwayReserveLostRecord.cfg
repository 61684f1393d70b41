SPECIFICATION Spec
CONSTANTS
  None = None
  Hosts = {a, b}
  Windows = {w1}
  Percents <- MCPercents
  Budget <- MCBudget
  CrashInCommand = TRUE
  MaxCrash = 1
  MaxFault = 1
  MaxChange = 3
  MaxExternal = 0
  MaxCommand = 2
SYMMETRY Symmetry
INVARIANTS OwedIsRecorded
