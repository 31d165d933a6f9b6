CONSTANTS
  s1 = s1
  s2 = s2
  s3 = s3
  e1 = e1
  e2 = e2
  Subs = {s1, s2, s3}
  Events = {e1, e2}
  SyncEvents = {e2}
  Wants <- MCWants3
  Cap = 1

SPECIFICATION FairSpec

INVARIANTS
  EveryoneServed

PROPERTIES
  PublishReturns
  CloseReturns

\* Everything was published and the bus is closed, or the program died.
CHECK_DEADLOCK FALSE
