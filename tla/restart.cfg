SPECIFICATION RestartSpec
CONSTANTS
  B = 15
  W = 2
  NB = 2
  Sizes = {2, 3}
  TimeSize = 6
  TxMod = 16
  FirstCtr = 12
  Junk = {1, 9}
  MaxWrites = 8
  Confs <- Settings
  f1 = f1
  f2 = f2
  f3 = f3
  f4 = f4
  NoFile = NoFile
  MaxTokens = 3
  MaxRestarts = 1
  MaxStarts = 3
  MaxGrabs = 3
INVARIANTS
  RestartTypeOK
  ReadersExact
  StoreBounded
  TokensKept
  ServesSafely
PROPERTIES
  RecoveryExact
  RecoveryKeeps
  LoopsEnd
  EventuallyServes
CHECK_DEADLOCK FALSE
