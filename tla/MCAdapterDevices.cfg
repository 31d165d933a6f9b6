SPECIFICATION Spec
CONSTANTS
  u1 = u1
  u2 = u2
  Devices <- MCDevices
  Users <- MCUsers
  Scenarios <- MCScenarios
  Names <- MCNames
  Memories <- MCMemories
  MaxEntries = 3
  MaxEvents = 2
  NoDevice = NoDevice
  NoName = NoName
INVARIANTS
  TableFollowsIndications
  NamesAreAsAsked
PROPERTIES
  CloseReturns
\* Close may wait for ever, and in the end everything is over.
CHECK_DEADLOCK FALSE
