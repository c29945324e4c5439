SPECIFICATION Spec
CONSTANTS
  a = a
  b = b
  NoPath = NoPath
  Paths = {a, b}
  w1 = w1
  w2 = w2
  Workers = {w1, w2}
  Confs <- Replicas
  Workload <- Workloads
  MaxCalls = 3
SYMMETRY Symmetry
INVARIANTS
  CatchUp
  ResponsesMatch
  MismatchTold
CHECK_DEADLOCK FALSE
