SPECIFICATION Spec
CONSTANTS
  t1 = t1 t2 = t2 c1 = c1 c2 = c2 k1 = k1 k2 = k2
  Threads = {t1, t2}
  Clients = {c1, c2}
  Controls = {}
  Mode <- BothSync
  Workers <- PoolSecond
  Cmd <- Nobody
  Boot <- BootAll
  Kinds = {"write", "unlink"}
  JournalType = "Bilog"
  Faulty = {}
  Slow = {c2}
  MaxOps = 3
SYMMETRY ThreadSymmetry
INVARIANTS
  AckMeansApplied
  ReturnOrder
