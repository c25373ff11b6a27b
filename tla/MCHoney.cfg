SPECIFICATION FairSpec
CONSTANTS
  Food = 4
  Meals = {1, 2, 3}
  Modulus = 8
INVARIANTS
  PotBounded
PROPERTY WinnieDies
CHECK_DEADLOCK FALSE
