CONSTANTS
  x = x
  y = y
  u1 = u1
  u2 = u2
  depth = depth
  own1 = own1
  own2 = own2
  None = None
  Conns = {x, y}
  Ids = {u1}
  IdOf <- TwoTabs
  Streams = {depth, own1}
  OwnStream <- Own
SPECIFICATION Spec
INVARIANTS
  NothingLeaks
