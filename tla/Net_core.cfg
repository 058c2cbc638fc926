SPECIFICATION FairSpec
CONSTANTS
  Task = {shell}
  Frame <- Frames
  Ip = {"me", "a"}
  Mac = {"m1", "m2", "ff"}
  Broadcast = "ff"
  NoIp = "none"
  Zeroes = Zeroes
  Garbage = {7}
  RX_HARD_THRESHOLD = 1
  NUM_RX_DESC = 2
  NUM_TX_DESC = 2
  MaxArrivals = 3
  MaxMade = 2
INVARIANTS RxAccounted PassDrainsQueue CacheLatest TxOnce FirstFramesIntact
PROPERTY LockReleased
CHECK_DEADLOCK FALSE
