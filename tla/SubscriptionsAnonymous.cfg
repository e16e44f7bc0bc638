CONSTANTS
  x = x
  y = y
  u1 = u1
  u2 = u2
  depth = depth
  own1 = own1
  own2 = own2
  None = None
  Conns = {x, y}
  Ids = {u1, u2}
  IdOf <- Anonymous
  Streams = {depth, own1, own2}
  OwnStream <- Own
SPECIFICATION FairSpec
INVARIANTS
  TypeOK
  RecordedAreServed
  MapsAgree
  MessageReachesAll
  NothingIsLeft
PROPERTIES
  GoneIsForgotten
