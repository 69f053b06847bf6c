SPECIFICATION FairSpec
CONSTANTS
  EP = {0, 1, 2, 3}
  Control = {0}
  Unframed = {2}
  HiSpeed = FALSE
  MaxPkt = 2
  BufSize = 8
  CntMod = 4
  DON = DON
  NoPkt = NoPkt
  Scenarios <- Fruitful
INVARIANTS SilenceIsLoss
PROPERTIES AllDelivered
