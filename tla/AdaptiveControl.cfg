SPECIFICATION Spec
CONSTANTS
  Horizon = 3
  Actors = {"guard", "manual", "settings", "backup", "restart"}
INVARIANTS TypeOK DeadlineArmed PausedOwnsNothing ChargeIsOwned
PROPERTIES PauseHolds
