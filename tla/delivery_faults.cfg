SPECIFICATION Spec
CONSTANTS
  t1 = t1 t2 = t2 c1 = c1 c2 = c2 k1 = k1 k2 = k2
  Threads = {t1, t2}
  Clients = {c1, c2}
  Controls = {}
  Mode <- FlushSemi
  Workers <- AllInline
  Cmd <- Nobody
  Boot <- BootFirst
  Kinds = {"write", "fsync"}
  JournalType = "Forward"
  Faulty = {c1}
  Slow = {}
  MaxOps = 2
INVARIANTS
  TypeOK
  ReplicaPrefix
PROPERTIES
  RefinesDelivery
