SPECIFICATION FairSpec
CONSTANTS
  r1 = r1
  c1 = c1
  d1 = d1
  d2 = d2
  OnOff = OnOff
  Basic = Basic
  Coordinator = Coordinator
  NoFrame = NoFrame
  Requests <- MCRequests
  Commands <- MCCommands
  Devices <- MCDevices
  Clusters <- MCClusters
  TargetOf <- MCTargetOf
  Reporters <- MCReporters
  MaxAttempts = 2
  Width = 3
INVARIANTS
  ConfirmIsOwn
  AnswerIsOwnIfUndisturbed
  FailsOnlyWhenExhausted
PROPERTIES
  EveryRequestReturns
CHECK_DEADLOCK FALSE
