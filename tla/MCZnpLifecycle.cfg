CONSTANTS
  o1 = o1
  o2 = o2
  c1 = c1
  c2 = c2
  Nothing = Nothing
  Opens = {o1, o2}
  Closers = {c1, c2}
  NumItems = 4
  Kind <- MCKind
  MaxChunk = 4
  Cap = 2

SPECIFICATION FairSpec

INVARIANTS
  FramesKeepOrder

PROPERTIES
  EveryItemHandled
  CloseReturnsUnlessStuck

\* The client may be closed, stuck, or dead.
CHECK_DEADLOCK FALSE
