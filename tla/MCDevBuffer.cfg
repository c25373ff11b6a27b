SPECIFICATION Spec
CONSTANTS
  Procs = {p1, p2, p3}
  BUF_LEN = 3
  Lengths = {0, 1, 3, 4}
  Ends = {1, 4}
  MaxCalls = 3
SYMMETRY Symmetry
INVARIANTS
  TypeOK
  SerialReadsExact
  AccidentsExplained
CHECK_DEADLOCK FALSE
