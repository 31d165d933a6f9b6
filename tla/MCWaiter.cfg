CONSTANTS
  c1 = c1
  c2 = c2
  c3 = c3
  f1 = f1
  f2 = f2
  f3 = f3
  ping = ping
  version = version
  Calls <- MCCalls
  Frames <- MCFrames
  Matchers <- MCMatchers
  MatcherOf <- MCMatcherOf
  NoFrame = NoFrame

SPECIFICATION Spec

INVARIANTS
  WaitingIsReachable
  ResolveNeverBlocks
  OneReceiverPerFrame

PROPERTIES
  RefusedOnlyUnawaited

\* The calls end and no more frames come.
CHECK_DEADLOCK FALSE
