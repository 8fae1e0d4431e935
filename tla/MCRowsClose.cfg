CONSTANTS
  u1 = u1
  r1 = r1
  r2 = r2
  Trades = {t1}
  Requests = {r1}
  Scheduler = scheduler
  Utis = {u1}
  Terms = {x1, x2}
  InitUtis <- Booked
  Ops = {"confirm", "cancel", "reconcile", "append", "put"}
  MaxArrivals = 2
  MaxTxs = 2
  MaxEvents = 2
  MaxFaults = 1
  Own = own
  Cp = cp
  ZeroHash = ZeroHash
  ZeroAddress = ZeroAddress
  NoUti = NoUti
  NoHash = NoHash
  NoOne = NoOne
  NoTrade = NoTrade
SPECIFICATION FairSpec
CHECK_DEADLOCK FALSE
INVARIANT AnchoredDecides
PROPERTY RowsClose
