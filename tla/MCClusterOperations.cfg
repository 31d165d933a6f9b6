SPECIFICATION Spec
CONSTANTS
  Callers <- MCCallers
  Plans <- MCPlans
  Reports <- MCReports
  TextLengths <- MCTextLengths
  MaxReports = 1
  MaxCopies = 1
INVARIANTS
  TakesOnlyWhatItAsked
  ValuesArriveWhole
  
PROPERTIES
  NothingAskedInVain
