SPECIFICATION Spec
CONSTANTS
  N = 2
  Lapses = {}
INVARIANTS TypeOK StandbyHasRestorePath GuardHonoursPolicy ActiveIsBackup ProfileKept
