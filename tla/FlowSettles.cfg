SPECIFICATION FairSpec
CONSTANTS
  Payments = {p1, p2}
  Instances = {api1, api2}
  None = None
  Faults <- NoCommitFault
  QueuePurged = TRUE
  Caught = TRUE
  MaxPurges = 3
INVARIANTS PurgeForgets
PROPERTIES EveryPaymentSettles
CHECK_DEADLOCK FALSE
