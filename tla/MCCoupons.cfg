CONSTANTS
  NoDate = NoDate
  Saturday = 7
  MonthDays <- Lengths
  Holidays <- Closed
  Legs <- AllLegs
SPECIFICATION Spec
INVARIANTS TypeOK Tiles StubsAsAsked PaidInOrder AccruesEachDay
CHECK_DEADLOCK FALSE
