SPECIFICATION Spec
CONSTANTS
  Procs = {1, 2, 3}
  Mixes <- MCReserve
INVARIANT ReserveAvoidsOverride
