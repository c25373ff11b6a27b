SPECIFICATION Spec
CONSTANTS
  g1 = g1
  g2 = g2
  g3 = g3
  Groups <- MCGroups
  NoGroup = NoGroup
  Unset = Unset
  Initial <- MCInitial
  Codes = {15}
  DuplicateAdds = FALSE
  MAXCOUNTGROUPIP = 3
  MaxQueries = 1
  MaxCommands = 1
INVARIANT OnlyActualGroups
CHECK_DEADLOCK FALSE
