SPECIFICATION ZdoSpec
CONSTANTS
  c1 = c1
  c2 = c2
  Devs <- MCDevs
  Coordinator = "coordinator"
  Nobody = Nobody
  Network <- MCNetwork
  Known <- MCKnown
  PageSize = 2
  Width = 5
  Retries = 1
  Callers <- MCCallers
  Scenarios <- MCScenarios
INVARIANTS
  AnswersAreWhole
  SuccessIsComplete
PROPERTIES
  EveryCallReturns
\* Every call ends, and then nothing is left to do.
CHECK_DEADLOCK FALSE
