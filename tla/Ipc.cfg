SPECIFICATION FairSpec
CONSTANTS
  Handlers <- MCHandlers
  MaxRequests = 3
INVARIANTS TokensBalance AwaitIsServed NoPhantomPayments SpacedSlotIsExact
PROPERTIES AwaitEnds
CHECK_DEADLOCK FALSE
