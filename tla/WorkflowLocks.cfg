SPECIFICATION Spec
CONSTANTS
  Procs = {1, 2, 3}
  Mixes <- MCMixes
INVARIANTS TypeOK NoCircularWait
PROPERTY Served
