SPECIFICATION FairSpec
CONSTANTS
  Clients = {c1, c2}
  Managers = {m1, m2}
  NoMsg = NoMsg
  QCap = 1
  QueueAtBoot = {FALSE}
  Faults = {"leave", "unpack"}
  MaxSend = 1
  MaxStarts = 1
PROPERTIES
  Delivery
  StopsHaveCauses
CHECK_DEADLOCK FALSE
