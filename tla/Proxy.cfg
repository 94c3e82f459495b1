SPECIFICATION FairSpec
CONSTANTS
  Sessions <- MCSessions
  Mixes <- MCMixes
  HandlerWorkers = 1
  Faults <- AllFaults
INVARIANTS TypeOK AckedIsKept
PROPERTIES ImplementsService EveryRequestAnswered SentIsEnqueued
CHECK_DEADLOCK FALSE
