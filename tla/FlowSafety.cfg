SPECIFICATION Spec
CONSTANTS
  Payments = {p1, p2, p3}
  Instances = {api1, api2}
  None = None
  Faults <- AllFaults
  QueuePurged = TRUE
  Caught = FALSE
  MaxPurges = 1
SYMMETRY Symmetry
INVARIANTS ChargedOnce ChargeAccountedFor EachInOnePlace
PROPERTIES ImplementsLedger
CHECK_DEADLOCK FALSE
