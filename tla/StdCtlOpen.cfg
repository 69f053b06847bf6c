SPECIFICATION Spec
CONSTANTS
  Descriptors <- MCDescriptors
  Requests <- MCRequests
  LateRequests <- MCLateRequests
  Foreign <- MCForeign
  NumEndpoints = 3
  MaxFaults = 0
INVARIANTS DataEnds
