---------------------------- MODULE MCDrogonProxy ----------------------------
(* Model checking of DrogonProxy on small instances.                        *)
EXTENDS DrogonProxy

\* Two of three requests share an instance.
MCSessions == 1..3

\* Requests differ in nothing but what they ask for, so mixes are taken up to
\* the order of the sessions; there is a summary or an invalid payment once at
\* most.
Rank == [payment |-> 1, purge |-> 2, invalid |-> 3, summary |-> 4]
MCMixes == {m \in [MCSessions -> Kinds] :
              /\ \A s \in 1..2 : Rank[m[s]] <= Rank[m[s + 1]]
              /\ \A s, t \in MCSessions : m[s] = m[t] /\ s # t => m[s] \in {"payment", "purge"}}

AllFaults == FaultKinds
=============================================================================
