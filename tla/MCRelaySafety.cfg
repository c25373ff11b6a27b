SPECIFICATION Spec
CONSTANTS
  Clients = {c1}
  Managers = {m1, m2}
  NoMsg = NoMsg
  QCap = 2
  QueueAtBoot = {FALSE}
  Faults = {"crash", "leave", "abort", "bind", "unpack"}
  MaxSend = 3
  MaxStarts = 3
SYMMETRY Symmetry
INVARIANTS
  TypeOK
  RelayInv
  DeliveredOnce
  SeenInOrder
  LossIsBounded
PROPERTY ImplementsContract
CHECK_DEADLOCK FALSE
