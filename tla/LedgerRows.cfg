CONSTANTS
  a1 = a1
  b1 = b1
  alice = alice
  bob = bob
  None = None
  Accounts = {a1, b1}
  Owner <- TwoOwners
  SeedOrder <- OneSeed
  SeedAmount = 5
  Commands <- DepositAndTrade
  Retention = 0
  MaxTime = 2
  MaxCommands = 1
  MaxFaults = 3
  MaxChecks = 1
SPECIFICATION Spec
INVARIANTS
  TypeOK
  ExactUnlessLost
  FoldIsExact
PROPERTIES
  ActsAsAppendOnly
  AlarmsAreReal
