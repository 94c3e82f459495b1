SPECIFICATION Spec
CONSTANTS
  Payments = {p1, p2}
  Workers = {w1, w2}
  None = None
  Faults <- AllFaults
  MaxPurges = 1
SYMMETRY Symmetry
INVARIANTS TypeOK ChargedTwiceOnlyUnanswered ChargeAccountedFor EachInOnePlace
PROPERTIES ImplementsLedger
CHECK_DEADLOCK FALSE
