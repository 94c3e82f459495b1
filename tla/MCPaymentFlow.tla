--------------------------- MODULE MCPaymentFlow ---------------------------
(* Model checking of PaymentFlow on small instances.                       *)
EXTENDS PaymentFlow, TLC

AllFaults == FaultKinds
NoCommitFault == FaultKinds \ {"commit"}

\* Payments are interchangeable, and so are instances (safety runs only).
Symmetry == Permutations(Payments) \cup Permutations(Instances)
=============================================================================
