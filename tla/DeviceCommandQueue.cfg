SPECIFICATION Spec
CONSTANTS
  write = write
  live1 = live1
  live2 = live2
  discover = discover
  Reqs <- MCReqs
  Priority <- MCPriority
  Capacity = 2
  StarvationMs = 1
  QueueTimeoutMs = 2
  MaxTime = 3
INVARIANTS TypeOK NoStall ReadsBounded
PROPERTIES StarvedNotOvertaken ExecutorSpec EveryCallSettles
\* The system stops when every call has settled and the clock is at its bound.
CHECK_DEADLOCK FALSE
