SPECIFICATION Spec
CONSTANTS
  Strings <- MCStrings
  PacketSizes <- MCPacketSizes
  MaxNames = 2
  MaxStrays = 1
  MaxEffort = 9
INVARIANTS
  TypeOK UniqueStrings CountsRight QualifiersRight NamesResolve
  LayoutAccepted FailureIsFinal
PROPERTIES StringsStay
CHECK_DEADLOCK FALSE
