SPECIFICATION Spec
CONSTANTS
  ann = ann
  bob = bob
  reports = reports
  w1 = w1
  w2 = w2
  Job = {1, 2}
  Owner <- Owners
  Resource <- OneResource
  Worker = {w1, w2}
  Registry <- OneRegistry
  MaxRunning = 1
  None = None
  MaxFaults = 1
INVARIANTS
  CeilingHolds
CHECK_DEADLOCK FALSE
