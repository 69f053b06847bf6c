SPECIFICATION FairSpec
CONSTANTS
  PRESC = 2
  P20 = 2
  P120 = 2
  P1200 = 8
  P3060 = 9
  P5060 = 10
  HeldCap = 16
INVARIANTS TypeOK PhyFollows
PROPERTIES TimesKept SpeedAgreed Settles DisconnectServed
