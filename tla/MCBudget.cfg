CONSTANTS
  r1 = r1
  r2 = r2
  P = P
  Q = Q
  ann = ann
  eve = eve
  F = F
  Requests = {r1, r2}
  Processes = {P, Q}
  ProcessOf <- MCProcessOf
  Users = {ann, eve}
  Firms = {F}
  NoFirm = NoFirm
  FirmOf <- MCFirmOf
  Caps <- MCCaps
  Window = 1
  NoOne = NoOne
  MaxTime = 1
  MaxAttempts = 4
  MaxFaults = 1
SPECIFICATION Spec
CHECK_DEADLOCK FALSE
SYMMETRY Symmetry
INVARIANTS TypeOK CapsHold
