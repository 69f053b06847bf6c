SPECIFICATION Spec
CONSTANTS
  Descriptors <- MCDescriptors
  Requests <- MCRequests
  LateRequests <- MCLateRequests
  Foreign <- MCForeign
  NumEndpoints = 3
  MaxFaults = 1
INVARIANTS TypeOK Answers Agreement SettingsLoaded AgentKnows SetupTaken
PROPERTIES Served
