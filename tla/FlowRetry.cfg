SPECIFICATION Spec
CONSTANTS
  Payments = {p1}
  Instances = {api1}
  None = None
  Faults <- AllFaults
  QueuePurged = TRUE
  Caught = TRUE
  MaxPurges = 0
PROPERTIES RetriesWithOther
CHECK_DEADLOCK FALSE
