SPECIFICATION Spec
CONSTANTS
  Ymls <- MCYmls
  LaterYmls <- MCLaterYmls
  MaxRuns = 2
  Absent = Absent
  Partial = Partial
INVARIANTS TypeOK LayoutRead ReferencesRight ReadBack AudioTopology IsoPacketsFit ExceptionsExplained
PROPERTIES TableKept
CHECK_DEADLOCK FALSE
