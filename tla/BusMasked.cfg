SPECIFICATION Spec
CONSTANTS
  EP = {0, 1, 2, 3}
  Control = {0}
  Unframed = {2}
  HiSpeed = TRUE
  MaxPkt = 2
  BufSize = 8
  CntMod = 4
  DON = DON
  NoPkt = NoPkt
  Scenarios <- Masked
INVARIANTS TypeOK BufferInv PidInv InpFaithful OutFaithful ToggleAgreement
PROPERTIES ReleaseAfterReceipt BufferExclusive ImplementsPipe
