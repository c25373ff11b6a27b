SPECIFICATION Spec
CONSTANTS
  Programs = {p1, p2, p3}
  Count = 2
  QCap = 3
  Kills = TRUE
SYMMETRY Symmetry
INVARIANTS
  TypeOK
  RowsDealtOut
  CleanExitLeavesNothing
CHECK_DEADLOCK FALSE
