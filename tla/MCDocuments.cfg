CONSTANTS
  Missing = Missing
  MaxEvents = 2
  MaxRewrites = 2
  Traced <- MCTraced
  Documents <- MCDocuments
  Annotations <- MCAnnotations
  Events <- MCEvents
SPECIFICATION Spec
INVARIANTS
  HashIsStructure
  LanguagesAgree
  NumbersReadBack
  ValidatorsAgree
  AbsenceNeedsEvidence
PROPERTIES
  OrderNeverShows
CHECK_DEADLOCK FALSE
