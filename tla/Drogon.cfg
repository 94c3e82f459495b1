SPECIFICATION FairSpec
CONSTANTS
  Sessions <- MCSessions
  Mixes <- MCMixes
  Faults <- AllFaults
INVARIANTS AckedIsKept PurgeSparesLater
PROPERTIES ImplementsService EveryRequestAnswered
CHECK_DEADLOCK FALSE
