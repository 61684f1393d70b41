SPECIFICATION ServicesSpec
CONSTANTS
  c1 = c1
  c2 = c2
  v1 = v1
  v2 = v2
  Commands = {c1, c2}
  Requests <- MCRequests
  Values = {v1, v2}
  MaxAttempts = 2
  Callers = {r1}
  None = None
  Missing = Missing
  NoFile = NoFile
  MaxTrouble = 3
  Absent = None
  Hour = 60
  Circuits = {"circuit:1"}
  Policy <- MCPolicy
  Samples <- MCSamples
  Cutoffs = {28, 40}
  MaxUndone = 1
  Jobs = {j1, j2}
  Hosts = {h1, h2}
  Configured = {h3}
  Roles = {battery}
  Nobody = Nobody
  Undecided = Undecided
  MaxQueued = 1
  MaxChanges = 2
  MaxFaults = 1
  Lost = Lost
  Thrown = Thrown
INVARIANTS
  TypeOK
  StaleOnlyWhenCrossed
  RestoreAllOrNothing
  ChargesAccounted
  EnergyCountedOnce
  ForecastsAgree
  ReadsBack
PROPERTIES
  ReceiptsForward
  EverythingEnds
  EachChangeReported
CHECK_DEADLOCK FALSE
