SPECIFICATION StreamSpec
CONSTANTS
  Body = 10
  ShortReads = TRUE
  MaxFrames = 4
INVARIANTS
  StreamTypeOK
  WholeReadsSuffice
  NeverRealigned
  DamageIsBounded
CHECK_DEADLOCK FALSE
