SPECIFICATION FairSpec
CONSTANTS
  MaxCount = 5
  PageInts = 9
INVARIANTS
  TypeOK
  Exclusive
  ResultsRight
  PageHoldsRows
PROPERTY EveryChildEnds
CHECK_DEADLOCK FALSE
