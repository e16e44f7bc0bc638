CONSTANTS
  c1 = c1
  c2 = c2
  c3 = c3
  Commands = {c1, c2}
  Poison = {}
  Rows = 2
  MaxFaults = 2
  MaxSigterms = 2
SPECIFICATION FairSpec
INVARIANTS
  TypeOK
  SnapshotHoldsWholeCommands
  MemoryCoversSnapshot
PROPERTIES
  SavedStays
  EventuallySaved
