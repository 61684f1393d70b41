SPECIFICATION Spec
CONSTANTS
  N = 1
  Lapses = {"stop"}
INVARIANT StandbyHasRestorePath
