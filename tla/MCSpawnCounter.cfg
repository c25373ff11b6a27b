SPECIFICATION FairSpec
CONSTANTS
  Count = 3
  MaxStarts = 2
INVARIANT CountsEntries
PROPERTY PermitIsTaken
CHECK_DEADLOCK FALSE
