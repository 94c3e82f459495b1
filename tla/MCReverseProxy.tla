---------------------------- MODULE MCReverseProxy ----------------------------
(* Model checking of ReverseProxy on small instances.                        *)
EXTENDS ReverseProxy

\* Two of three sessions share a backend.
MCSessions == 1..3

\* Sessions differ in nothing but what they ask for, so mixes are taken up to
\* the order of the sessions; each has a payment and something else, and one
\* invalid at most.
Rank == [payment |-> 1, invalid |-> 2, proxied |-> 3]
MCMixes == {m \in [MCSessions -> Kinds] :
              /\ m[1] = "payment" /\ m[3] # "payment"
              /\ ~(m[2] = "invalid" /\ m[3] = "invalid")
              /\ \A s \in 1..2 : Rank[m[s]] <= Rank[m[s + 1]]}

AllFaults == FaultKinds
=============================================================================
