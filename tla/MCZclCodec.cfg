SPECIFICATION Spec
CONSTANTS
  Sendable <- AllMessages
  CutAt <- Cuts
INVARIANTS
  ReadsBackWhatItWrites
  RecordsStayApart
  CutYieldsNothingNew
