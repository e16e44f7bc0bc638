CONSTANTS
  c1 = c1
  c2 = c2
  c3 = c3
  Commands = {c1, c2}
  Poison = {c2}
  Rows = 2
  MaxFaults = 0
  MaxSigterms = 0
SPECIFICATION FairSpec
PROPERTIES
  EventuallySaved
