SPECIFICATION FairSpec
CONSTANTS
  Payments = {p1, p2}
  Workers = {w1}
  None = None
  Faults <- AllFaults
  MaxPurges = 0
PROPERTIES EveryPaymentSettles Finishes
CHECK_DEADLOCK FALSE
