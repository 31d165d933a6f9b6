CONSTANTS
  r1 = r1
  r2 = r2
  r3 = r3
  a1 = a1
  a2 = a2
  a3 = a3
  ping = ping
  reset = reset
  late = late
  Unsolicited = Unsolicited
  NoFrame = NoFrame
  Empty = Empty
  Requests <- MixRequests
  Resets <- MixResets
  Frames <- MixFrames
  Matchers <- MCMatchers
  MatcherOf <- MixMatcherOf
  AnswerTo <- MixAnswerTo

SPECIFICATION FairSpec

PROPERTIES
  EveryRequestReturns
  EveryGoroutineEnds

\* The requests end and the chip falls silent.
CHECK_DEADLOCK FALSE
