SPECIFICATION Spec
CONSTANTS
  N = 2
  ChargeStarts = {1}
  MaxDay = 2
  MaxCrash = 1
  MaxEdits = 1
  MaxQueued = 1
INVARIANT TypeOK
PROPERTIES ActsOnce DueIsDecided
