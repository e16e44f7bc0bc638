CONSTANTS
  Rungs = 1
  SubSteps = 1
  Spread = 1
  Prices = {2, 3}
  Moves <- UpOrDown
  Ids = {1, 2, 3, 4, 5, 6, 7, 8, 9, 10, 11, 12}
  MaxStrays = 1
  MaxFaults = 1
SPECIFICATION Spec
INVARIANTS
  TypeOK
  NothingPilesUp
