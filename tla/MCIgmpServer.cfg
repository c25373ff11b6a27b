SPECIFICATION FairServerSpec
CONSTANTS
  Hosts = {h1, h2}
  Lossy = TRUE
  ThreadLimit = 3
  MaxPackets = 8
INVARIANTS
  ServerTypeOK
  OneQuerier
  SilentAfterCancel
  CountCoversMembers
PROPERTY MembersAreAsked
CHECK_DEADLOCK FALSE
