SPECIFICATION Spec
CONSTANTS
  fa = fa
  fb = fb
  NoPath = NoPath
  Paths = {fa, fb}
  PathOrder <- Alphabetical
  UsizeMax = 255
  MergeLimit = 2
  Confs <- Instances
  Workload <- Workloads
INVARIANTS
  SpaceDivided
  HoldsJournal
  Repeats
CHECK_DEADLOCK FALSE
