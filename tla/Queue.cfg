SPECIFICATION FairSpec
CONSTANTS
  Payments <- MCPayments
  Producers <- MCProducers
  Consumers <- MCConsumers
  Nobody = Nobody
  Finishes = TRUE
INVARIANTS NeverPopsEmpty NoLostWakeUp
PROPERTIES ImplementsQueue EveryPaymentLeaves
