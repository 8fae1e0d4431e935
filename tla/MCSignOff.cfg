CONSTANTS
  s1 = s1
  s2 = s2
  t1 = t1
  c1 = c1
  Sessions = {s1, s2}
  Owner = owner
  Controllers = {owner, cfo}
  Trades = {t1}
  Inputs = {c1}
  Uses <- OneInput
  NoSecond = NoSecond
  MaxMoves = 1
  MaxOverrides = 2
  MaxSigns = 2
  MaxArrivals = 4
SPECIFICATION Spec
CHECK_DEADLOCK FALSE
SYMMETRY Symmetry
INVARIANTS TypeOK OfficialWhole SignedDayIsStored
PROPERTY SignedStays
