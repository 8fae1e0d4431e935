CONSTANTS
  u1 = u1
  r1 = r1
  r2 = r2
  Trades = {t1, t2}
  Requests = {r1, r2}
  Scheduler = scheduler
  Utis = {u1, u2}
  Terms = {x1}
  InitUtis <- Unissued
  Ops = {"confirm", "countersign", "reconcile", "request"}
  MaxArrivals = 1
  MaxTxs = 2
  MaxEvents = 2
  MaxFaults = 1
  Own = own
  Cp = cp
  ZeroHash = ZeroHash
  ZeroAddress = ZeroAddress
  NoUti = NoUti
  NoHash = NoHash
  NoOne = NoOne
  NoTrade = NoTrade
SPECIFICATION Spec
CHECK_DEADLOCK FALSE
PROPERTY ConfirmedOnce
