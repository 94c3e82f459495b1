------------------------- MODULE MCRetryingProcessor -------------------------
(* Model checking of RetryingProcessor on small instances.                 *)
EXTENDS RetryingProcessor, TLC

AllFaults == FaultKinds

Symmetry == Permutations(Payments) \cup Permutations(Workers)
=============================================================================
