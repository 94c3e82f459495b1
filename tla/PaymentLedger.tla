---------------------------- MODULE PaymentLedger ----------------------------
(***************************************************************************)
(* What the service promises of payments, whatever its queues, retries,    *)
(* gateways and databases do: it charges what was posted and was not       *)
(* cancelled, records what a gateway has charged, as charged by that       *)
(* gateway, once, and gives up on a payment only if something failed.      *)
(* Modules PaymentFlow and RetryingProcessor implement it.                 *)
(***************************************************************************)
EXTENDS FiniteSets

CONSTANTS Payments,
          Gateways,
          Twice,     \* may a payment be charged at both gateways?
          Lossy      \* may a payment be given up?

VARIABLES
  status,   \* status[p]: what the service has done with p
  charged,  \* charged[g]: the payments gateway g has charged
  recorded  \* recorded[g]: the payments the summary counts for gateway g

vars == <<status, charged, recorded>>

Statuses == {"new", "live", "recorded",
             "cancelled", \* purged before it was sent
             "erased",    \* purged after it was recorded
             "lost"}      \* given up

Init ==
  /\ status = [p \in Payments |-> "new"]
  /\ charged = [g \in Gateways |-> {}]
  /\ recorded = [g \in Gateways |-> {}]

Become(ps, s) == status' = [p \in Payments |-> IF p \in ps THEN s ELSE status[p]]
Charged(p)    == \E g \in Gateways : p \in charged[g]

Post(p) ==
  /\ status[p] = "new"
  /\ Become({p}, "live")
  /\ UNCHANGED <<charged, recorded>>

Charge(p, g) ==
  /\ status[p] \notin {"new", "cancelled"}
  /\ Twice \/ ~Charged(p)
  /\ charged' = [charged EXCEPT ![g] = @ \cup {p}]
  /\ UNCHANGED <<status, recorded>>

Record(p, g) ==
  /\ status[p] = "live"
  /\ p \in charged[g]
  /\ Become({p}, "recorded")
  /\ recorded' = [recorded EXCEPT ![g] = @ \cup {p}]
  /\ UNCHANGED charged

GiveUp(ps) ==
  /\ Lossy
  /\ \A p \in ps : status[p] = "live"
  /\ Become(ps, "lost")
  /\ UNCHANGED <<charged, recorded>>

Cancel(ps) ==
  /\ \A p \in ps : status[p] = "live" /\ ~Charged(p)
  /\ Become(ps, "cancelled")
  /\ UNCHANGED <<charged, recorded>>

Erase(g) ==
  /\ Become(recorded[g], "erased")
  /\ recorded' = [recorded EXCEPT ![g] = {}]
  /\ UNCHANGED charged

Next ==
  \/ \E p \in Payments : Post(p)
  \/ \E p \in Payments, g \in Gateways : Charge(p, g) \/ Record(p, g)
  \/ \E ps \in SUBSET Payments : GiveUp(ps) \/ Cancel(ps)
  \/ \E g \in Gateways : Erase(g)

Spec == Init /\ [][Next]_vars
=============================================================================
