----------------------- MODULE MCPendingPaymentsQueue -----------------------
(* Model checking of PendingPaymentsQueue on small instances.              *)
EXTENDS PendingPaymentsQueue

MCPayments  == {"p1", "p2"}
MCProducers == {"server1", "server2"}
MCConsumers == {"processor1", "processor2"}
=============================================================================
