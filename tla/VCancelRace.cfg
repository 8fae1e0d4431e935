CONSTANTS
  u1 = u1
  r1 = r1
  r2 = r2
  Trades = {t1}
  Requests = {r1, r2}
  Scheduler = scheduler
  Utis = {u1}
  Terms = {x1}
  InitUtis <- Booked
  Ops = {"confirm", "cancel"}
  MaxArrivals = 1
  MaxTxs = 1
  MaxEvents = 2
  MaxFaults = 0
  Own = own
  Cp = cp
  ZeroHash = ZeroHash
  ZeroAddress = ZeroAddress
  NoUti = NoUti
  NoHash = NoHash
  NoOne = NoOne
  NoTrade = NoTrade
SPECIFICATION Spec
CHECK_DEADLOCK FALSE
PROPERTY CancelledIsTerminal
