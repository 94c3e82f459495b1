-------------------------- MODULE MCGatewayChooser --------------------------
(* Model checking of GatewayChooser on small instances.                    *)
EXTENDS GatewayChooser

\* 100 is the threshold of slowness, and 101 is more than twice 50 and less
\* than twice 100.
BoundaryTimes == {50, 100, 101}
FastAndSlow   == {50, 101}
=============================================================================
