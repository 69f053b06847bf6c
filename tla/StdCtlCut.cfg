SPECIFICATION Spec
CONSTANTS
  Descriptors <- MCDescriptors
  Requests <- MCReads
  LateRequests <- MCReads
  Foreign <- MCForeign
  NumEndpoints = 3
  MaxFaults = 1
INVARIANTS ReadNotCut
