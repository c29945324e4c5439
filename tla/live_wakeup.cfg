SPECIFICATION FairSpec
CONSTANTS
  t1 = t1 t2 = t2 c1 = c1 c2 = c2 k1 = k1 k2 = k2
  Threads = {t1}
  Clients = {c1}
  Controls = {k1, k2}
  Mode <- SyncOnly
  Workers <- AllInline
  Cmd <- CorkUncork
  Boot <- BootFirst
  Kinds = {"write"}
  JournalType = "Off"
  Faulty = {}
  Slow = {}
  MaxOps = 1
PROPERTIES
  SleepsOnlyCorked
