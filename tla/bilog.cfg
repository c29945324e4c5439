SPECIFICATION Spec
CONSTANTS
  a = a
  b = b
  Paths = {a, b}
  NoPath = NoPath
  Confs <- Journals
  Workload <- Workloads
INVARIANTS
  
  ReplayRuns
PROPERTIES
  FilterExact
CHECK_DEADLOCK FALSE
