SPECIFICATION FairSpec
CONSTANTS
  Procs = {p1, p2}
  BUFSIZE = 3
  Lengths = {0, 2, 3, 4}
  Asked = {2, 4}
  Half = 5
  MaxUses = 3
INVARIANTS
  TypeOK
  SerialReadsShare
  AccidentsExplained
PROPERTIES
  LastReaderEnds
CHECK_DEADLOCK FALSE
