SPECIFICATION Spec
CONSTANTS
  c1 = c1
  c2 = c2
  Callers <- MCCallers
  Nobody = Nobody
  Unknown = Unknown
  OffsetMod = 4
  Chunk = 3
  NibSize = 3
  ChannelAt = 2
  MaxSubs = 5
  Rounds = 1
  Scenarios <- MCScenarios
INVARIANTS
  FormedAsAsked
  ChangesAreAsAsked
  AnswersAreTheMemorys
  OthersKeepTheirEntries
  ErasedOnlyWhenAsked
\* Every call ends, and then nothing is left to do.
CHECK_DEADLOCK FALSE
