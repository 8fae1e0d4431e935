CONSTANTS
  t1 = t1
  p1 = p1
  p2 = p2
  k1 = k1
  Rates = {A, B, C}
  Trades = {t1}
  Utis = {U}
  Uti = U
  Terms <- MCTerms
  Changes <- MCChanges
  AddLeg <- MCAddLeg
  Own = Own
  Cp = Cp
  ZeroHash = ZeroHash
  ZeroAddress = ZeroAddress
  Threads = {p1, p2}
  NoOne = NoOne
  Keys = {k1}
  NoKey = NoKey
  MaxTxs = 2
  MaxWrites = 1
  MaxFaults = 1
SPECIFICATION Spec
CHECK_DEADLOCK FALSE
SYMMETRY Symmetry
INVARIANTS TypeOK OneEventEach RowIsAttested
PROPERTY InStep
