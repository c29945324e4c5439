SPECIFICATION Spec
CONSTANTS
    t1 = t1
    t2 = t2
    Names = {"a", "b"}
    MaxCount = 2
    Confs <- Instances
SYMMETRY Symmetry
INVARIANTS
  CountCovers
  NoLockCycle
  FdsAccounted
PROPERTIES
  HandleStable
CHECK_DEADLOCK FALSE
