CONSTANTS
  r1 = r1
  r2 = r2
  r3 = r3
  k1 = k1
  k2 = k2
  Requests = {r1, r2, r3}
  Keys = {k1, k2}
  KeyOf <- Mixed
  Refused = {k2}
  ReadRetries = 2
  MaxCrashes = 2
SPECIFICATION FairSpec
INVARIANTS
  TypeOK
  CreditedOnce
  ConfirmedIsRecorded
  OwnReply
PROPERTIES
  StatusSettlesOnce
  DepositsKeepPromise
  EveryRequestEnds
