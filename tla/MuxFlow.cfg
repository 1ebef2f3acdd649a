SPECIFICATION FairSpec
CONSTANTS
  SeqMod = 5
  TxWin = 2
  InCapacity = 3
  MaxSend = 1
  DevCapacity = 2
INVARIANTS
  NoUseOfFreedConn
  NoLostWakeup
  FlushTried
PROPERTIES
  DownIsPipe
  UpIsPipe
  WindowReopens
  UpstreamReopens
