SPECIFICATION Spec
CONSTANTS
  Horizon = 2
  Actors = {"guard", "settings", "backup", "restart"}
PROPERTIES OverdueChargeStops HoldEnds
