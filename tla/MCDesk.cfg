CONSTANTS
  NoKey = NoKey
  r1 = r1
  r2 = r2
  k1 = k1
  Requests = {r1, r2}
  Keys = {k1}
  A = A
  B = B
  Refs = {A, B}
  Appends <- Posted
  PutStatuses = {"PENDING"}
  MaxTrades = 2
  MaxEvents = 4
SPECIFICATION Spec
CHECK_DEADLOCK FALSE
SYMMETRY Symmetry
INVARIANTS TypeOK RowFollowsStream LatestIsNewest
PROPERTY KeysAtMostOnce
