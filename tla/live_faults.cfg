SPECIFICATION FairSpec
CONSTANTS
  t1 = t1 t2 = t2 c1 = c1 c2 = c2 k1 = k1 k2 = k2
  Threads = {t1}
  Clients = {c1, c2}
  Controls = {k1}
  Mode <- SyncAsync
  Workers <- AllInline
  Cmd <- CorkOnly
  Boot <- BootAll
  Kinds = {"write"}
  JournalType = "Off"
  Faulty = {c1}
  Slow = {}
  MaxOps = 2
INVARIANTS
  CorkBarrier
PROPERTIES
  WaitEnds
  Delivered
  CommandEnds
