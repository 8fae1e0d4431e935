CONSTANTS
  u1 = u1
  r1 = r1
  r2 = r2
  Trades = {t1}
  Requests = {r1, r2}
  Scheduler = scheduler
  Utis = {u1}
  Terms = {x1, x2}
  InitUtis <- Unissued
  Ops = {"confirm", "countersign", "offchain", "cancel", "reconcile", "edit", "addleg", "request"}
  MaxArrivals = 2
  MaxTxs = 2
  MaxEvents = 2
  MaxFaults = 1
  Own = own
  Cp = cp
  ZeroHash = ZeroHash
  ZeroAddress = ZeroAddress
  NoUti = NoUti
  NoHash = NoHash
  NoOne = NoOne
  NoTrade = NoTrade
SPECIFICATION Spec
CHECK_DEADLOCK FALSE
SYMMETRY Symmetry
INVARIANTS TypeOK EventsBacked AnchoredDecides OneReconciler
PROPERTY RowsOnlyClose
