SPECIFICATION FairSpec
CONSTANTS
  g1 = g1
  g2 = g2
  g3 = g3
  Groups <- MCGroups
  NoGroup = NoGroup
  Unset = Unset
  Initial <- MCInitial
  Codes = {0, 15}
  DuplicateAdds = FALSE
  MAXCOUNTGROUPIP = 3
  MaxQueries = 2
  MaxCommands = 3
INVARIANTS
  TypeOK
  AnsweredOnce
  TableMatchesCommands
PROPERTY QueryAnswered
CHECK_DEADLOCK FALSE
