CONSTANTS
  r1 = r1
  r2 = r2
  ann = ann
  bo = bo
  cy = cy
  T1 = T1
  T2 = T2
  Nobody = Nobody
  NoTerms = NoTerms
  Requests = {r1, r2}
  People = {ann, bo, cy}
  Firm <- FirmOf
  Terms = {T1, T2}
  MaxBooked = 2
  MaxArrivals = 5
SPECIFICATION Spec
CHECK_DEADLOCK FALSE
SYMMETRY Symmetry
INVARIANTS TypeOK OneBookingPerUti MirrorBacked MirrorIsTheRecord
