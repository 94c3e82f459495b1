---------------------------- MODULE PaymentFlow ----------------------------
(***************************************************************************)
(* The life of a payment inside the API instances (PaymentProcessor,       *)
(* PendingPaymentsQueue, PaymentService and PaymentRepository of the       *)
(* boost, boost-ipc and drogon variants, which share these files).         *)
(*                                                                         *)
(* Every API instance has a queue of pending payments and one processor    *)
(* coroutine, which takes a payment, reads the current gateway from shared *)
(* memory, sends the payment there and records it in the database if the   *)
(* gateway answers ok.  On any other answer it switches the current        *)
(* gateway and tries again.  The current gateway and the database are      *)
(* shared by all instances; the gateway chooser (module GatewayChooser)    *)
(* writes the current gateway too.  The two payment gateways are external. *)
(*                                                                         *)
(* The order within a queue is left to module PendingPaymentsQueue: here   *)
(* pending[i] is a set.  Correlation ids are unique, so a payment is its   *)
(* correlation id.                                                         *)
(***************************************************************************)
EXTENDS Naturals, FiniteSets

CONSTANTS Payments,     \* the payments the clients post
          Instances,    \* the API processes
          None,         \* no payment in hand
          Faults,       \* the faults of the environment, a subset of FaultKinds
          QueuePurged,  \* does /purge-payments empty the queue? (boost, drogon: yes; ipc: no)
          Caught,       \* is what a handler throws caught? (drogon: yes; boost, ipc: no)
          MaxPurges     \* how many times /purge-payments is called (bound)

FaultKinds == {"connection", \* connecting, writing or reading fails
               "database",   \* the database throws, except from a commit
               "commit"}     \* mdb_txn_commit fails, which ~Transaction ignores

ASSUME NoneAssumption   == None \notin Payments
ASSUME FaultsAssumption == Faults \subseteq FaultKinds
ASSUME BoundAssumption  == MaxPurges \in Nat /\ {QueuePurged, Caught} \subseteq BOOLEAN

Gateways == {"default", "fallback"}

Other(g) == IF g = "default" THEN "fallback" ELSE "default"

VARIABLES
  currentGateway, \* SharedData::currentGateway, in shared memory
  pending,        \* pending[i]: the queue of instance i
  pc,             \* pc[i]: where the processor of instance i is
  payment,        \* payment[i]: the payment it has in hand
  gateway,        \* gateway[i]: the gateway it read for this attempt
  inFlight,       \* inFlight[g]: requests sent to gateway g and not yet answered
  answer,         \* answer[i]: what has arrived on the connection of instance i
  accepted,       \* accepted[g]: the payments gateway g has charged (external)
  recorded,       \* recorded[g]: the payments in the database of gateway g
  fate,           \* fate[p]: what became of p (history)
  purge,          \* purge[i]: where the purge handler of instance i is, or how it ended
  doomed,         \* doomed[i]: what was recorded when that purge began (history)
  purges          \* number of purges so far (bound)

flowVars  == <<pending, pc, payment, gateway>>
wireVars  == <<inFlight, answer, accepted>>
purgeVars == <<purge, doomed, purges>>
vars      == <<currentGateway, flowVars, wireVars, recorded, fate, purgeVars>>

Fates == {"new",       \* not posted yet
          "live",      \* pending or in the hands of a processor
          "recorded",  \* in the database
          "dropped",   \* given up after a connection error
          "unsaved",   \* accepted by a gateway, lost on the way to the database
          "lost",      \* lost with the process that had it
          "purged"}    \* removed by /purge-payments

Init ==
  /\ currentGateway = "default"
  /\ pending  = [i \in Instances |-> {}]
  /\ pc       = [i \in Instances |-> "dequeue"]
  /\ payment  = [i \in Instances |-> None]
  /\ gateway  = [i \in Instances |-> "default"]
  /\ inFlight = [g \in Gateways |-> {}]
  /\ answer   = [i \in Instances |-> "none"]
  /\ accepted = [g \in Gateways |-> {}]
  /\ recorded = [g \in Gateways |-> {}]
  /\ fate     = [p \in Payments |-> "new"]
  /\ purge    = [i \in Instances |-> "idle"]
  /\ doomed   = [i \in Instances |-> {}]
  /\ purges   = 0

-----------------------------------------------------------------------------
(* The front end of an instance.                                           *)

\* A payment is posted to instance i and enqueued (postPaymentHandler).
PostPayment(i, p) ==
  /\ purge[i] # "dead"
  /\ fate[p] = "new"
  /\ pending' = [pending EXCEPT ![i] = @ \cup {p}]
  /\ fate'    = [fate EXCEPT ![p] = "live"]
  /\ UNCHANGED <<currentGateway, pc, payment, gateway, wireVars, recorded, purgeVars>>

-----------------------------------------------------------------------------
(* The processor coroutine of instance i.                                  *)

\* It is done with the payment in hand, and back in its loop.
BackToLoop(i) ==
  /\ pc'      = [pc EXCEPT ![i] = "dequeue"]
  /\ payment' = [payment EXCEPT ![i] = None]
  /\ answer'  = [answer EXCEPT ![i] = "none"]

\* Mutant: the payment is read from the queue but not popped.
Dequeue_WithoutPop(i, p) ==
  /\ pc[i] = "dequeue"
  /\ p \in pending[i]
  /\ payment' = [payment EXCEPT ![i] = p]
  /\ pc'      = [pc EXCEPT ![i] = "choose"]
  /\ UNCHANGED <<currentGateway, pending, gateway, wireVars, recorded, fate, purgeVars>>

Dequeue(i, p) ==
  /\ pc[i] = "dequeue"
  /\ p \in pending[i]
  /\ pending' = [pending EXCEPT ![i] = @ \ {p}]
  /\ payment' = [payment EXCEPT ![i] = p]
  /\ pc'      = [pc EXCEPT ![i] = "choose"]
  /\ UNCHANGED <<currentGateway, gateway, wireVars, recorded, fate, purgeVars>>

\* processPayment starts: the first attempt, or the one after a refusal.
GetGateway(i) ==
  /\ pc[i] \in {"choose", "retry"}
  /\ gateway' = [gateway EXCEPT ![i] = currentGateway]
  /\ pc'      = [pc EXCEPT ![i] = "send"]
  /\ UNCHANGED <<currentGateway, pending, payment, wireVars, recorded, fate, purgeVars>>

\* async_connect and async_write both succeed.
Send(i) ==
  /\ pc[i] = "send"
  /\ inFlight' = [inFlight EXCEPT ![gateway[i]] = @ \cup {payment[i]}]
  /\ pc'       = [pc EXCEPT ![i] = "read"]
  /\ UNCHANGED <<currentGateway, pending, payment, gateway, answer, accepted,
                 recorded, fate, purgeVars>>

\* Mutant: a connection error is treated like a refusal.
ConnectionError_Retries(i) ==
  /\ "connection" \in Faults
  /\ pc[i] \in {"send", "read"}
  /\ currentGateway' = Other(gateway[i])
  /\ answer' = [answer EXCEPT ![i] = "none"]
  /\ pc'     = [pc EXCEPT ![i] = "retry"]
  /\ UNCHANGED <<pending, payment, gateway, inFlight, accepted, recorded, fate, purgeVars>>

\* Connecting or writing fails, or the connection breaks before the answer
\* has been read: the catch clause gives the payment up.
ConnectionError(i) ==
  /\ "connection" \in Faults
  /\ pc[i] \in {"send", "read"}
  /\ fate' = [fate EXCEPT ![payment[i]] = "dropped"]
  /\ BackToLoop(i)
  /\ UNCHANGED <<currentGateway, pending, gateway, inFlight, accepted, recorded, purgeVars>>

\* Mutant: the answer only counts if the gateway is still the current one.
ReadOk_IfStillCurrent(i) ==
  /\ pc[i] = "read" /\ answer[i] = "ok"
  /\ pc'     = [pc EXCEPT ![i] = IF gateway[i] = currentGateway THEN "record" ELSE "retry"]
  /\ answer' = [answer EXCEPT ![i] = "none"]
  /\ UNCHANGED <<currentGateway, pending, payment, gateway, inFlight, accepted,
                 recorded, fate, purgeVars>>

ReadOk(i) ==
  /\ pc[i] = "read" /\ answer[i] = "ok"
  /\ pc' = [pc EXCEPT ![i] = "record"]
  /\ UNCHANGED <<currentGateway, pending, payment, gateway, wireVars, recorded, fate, purgeVars>>

\* Mutant: after a refusal the processor waits for another answer.
ReadRefusal_ReadsAgain(i) ==
  /\ pc[i] = "read" /\ answer[i] = "refused"
  /\ currentGateway' = Other(gateway[i])
  /\ answer' = [answer EXCEPT ![i] = "none"]
  /\ UNCHANGED <<flowVars, inFlight, accepted, recorded, fate, purgeVars>>

\* Any other status: switch the gateway, then process the payment again.
ReadRefusal(i) ==
  /\ pc[i] = "read" /\ answer[i] = "refused"
  /\ currentGateway' = Other(gateway[i])
  /\ answer' = [answer EXCEPT ![i] = "none"]
  /\ pc'     = [pc EXCEPT ![i] = "retry"]
  /\ UNCHANGED <<pending, payment, gateway, inFlight, accepted, recorded, fate, purgeVars>>

\* Mutant: the database is that of the gateway which is current by now.
Record_ForCurrent(i) ==
  /\ pc[i] = "record"
  /\ recorded' = [recorded EXCEPT ![currentGateway] = @ \cup {payment[i]}]
  /\ fate'     = [fate EXCEPT ![payment[i]] = "recorded"]
  /\ BackToLoop(i)
  /\ UNCHANGED <<currentGateway, pending, gateway, inFlight, accepted, purgeVars>>

\* PaymentService::postPayment: one transaction on the gateway's database.
Record(i) ==
  /\ pc[i] = "record"
  /\ recorded' = [recorded EXCEPT ![gateway[i]] = @ \cup {payment[i]}]
  /\ fate'     = [fate EXCEPT ![payment[i]] = "recorded"]
  /\ BackToLoop(i)
  /\ UNCHANGED <<currentGateway, pending, gateway, inFlight, accepted, purgeVars>>

\* The same when the commit fails: nobody looks at its result.
RecordNotCommitted(i) ==
  /\ "commit" \in Faults
  /\ pc[i] = "record"
  /\ fate' = [fate EXCEPT ![payment[i]] = "unsaved"]
  /\ BackToLoop(i)
  /\ UNCHANGED <<currentGateway, pending, gateway, inFlight, accepted, recorded, purgeVars>>

\* checkMdbError throws a std::runtime_error, which the catch clause for
\* system_error lets through: the detached coroutine ends for good.
RecordThrows(i) ==
  /\ "database" \in Faults
  /\ pc[i] = "record"
  /\ fate'    = [fate EXCEPT ![payment[i]] = "unsaved"]
  /\ pc'      = [pc EXCEPT ![i] = "stopped"]
  /\ payment' = [payment EXCEPT ![i] = None]
  /\ answer'  = [answer EXCEPT ![i] = "none"]
  /\ UNCHANGED <<currentGateway, pending, gateway, inFlight, accepted, recorded, purgeVars>>

-----------------------------------------------------------------------------
(* The gateways (external).  A request that was sent may be accepted or    *)
(* refused at any later time, even after its sender has gone away.         *)

Answered(g, p, what) ==
  answer' = [i \in Instances |-> IF pc[i] = "read" /\ payment[i] = p /\ gateway[i] = g
                                 THEN what ELSE answer[i]]

GatewayAccepts(g, p) ==
  /\ p \in inFlight[g]
  /\ inFlight' = [inFlight EXCEPT ![g] = @ \ {p}]
  /\ accepted' = [accepted EXCEPT ![g] = @ \cup {p}]
  /\ Answered(g, p, "ok")
  /\ UNCHANGED <<currentGateway, flowVars, recorded, fate, purgeVars>>

GatewayRefuses(g, p) ==
  /\ p \in inFlight[g]
  /\ inFlight' = [inFlight EXCEPT ![g] = @ \ {p}]
  /\ Answered(g, p, "refused")
  /\ UNCHANGED <<currentGateway, flowVars, accepted, recorded, fate, purgeVars>>

\* The gateway chooser may store any choice at any time.
ChooserStores(g) ==
  /\ currentGateway # g
  /\ currentGateway' = g
  /\ UNCHANGED <<flowVars, wireVars, recorded, fate, purgeVars>>

-----------------------------------------------------------------------------
(* POST /purge-payments on instance i: one transaction per database, then  *)
(* the queue of this instance.                                             *)

Forget(ps) == fate' = [p \in Payments |-> IF p \in ps THEN "purged" ELSE fate[p]]

\* PaymentRepository::purge; like any other, its commit may fail unnoticed.
DropDatabase(g) ==
  \/ recorded' = [recorded EXCEPT ![g] = {}] /\ Forget(recorded[g])
  \/ "commit" \in Faults /\ UNCHANGED <<recorded, fate>>

\* No purge is running on instance i, which may start one.
NotPurging(i) == purge[i] \in {"idle", "done"} /\ purges < MaxPurges

\* Where a purge goes on when both of its transactions have ended.
AfterDatabases == IF QueuePurged THEN "queue" ELSE "done"

PurgeDefault(i) ==
  /\ NotPurging(i)
  /\ purges'   = purges + 1
  /\ purge'    = [purge EXCEPT ![i] = "fallback"]
  /\ doomed'   = [doomed EXCEPT ![i] = recorded["default"] \cup recorded["fallback"]]
  /\ DropDatabase("default")
  /\ UNCHANGED <<currentGateway, flowVars, wireVars>>

\* Mutant: the database of the default gateway is purged twice.
PurgeFallback_PurgesDefault(i) ==
  /\ purge[i] = "fallback"
  /\ purge' = [purge EXCEPT ![i] = AfterDatabases]
  /\ DropDatabase("default")
  /\ UNCHANGED <<currentGateway, flowVars, wireVars, doomed, purges>>

PurgeFallback(i) ==
  /\ purge[i] = "fallback"
  /\ purge'    = [purge EXCEPT ![i] = AfterDatabases]
  /\ DropDatabase("fallback")
  /\ UNCHANGED <<currentGateway, flowVars, wireVars, doomed, purges>>

PurgeQueue(i) ==
  /\ purge[i] = "queue"
  /\ purge'   = [purge EXCEPT ![i] = "done"]
  /\ pending' = [pending EXCEPT ![i] = {}]
  /\ Forget(pending[i])
  /\ UNCHANGED <<currentGateway, pc, payment, gateway, wireVars, recorded, doomed, purges>>

\* mdb_txn_begin or mdb_drop of the first or of the second transaction makes
\* checkMdbError throw: the handler ends there, the purge half done, and the
\* framework answers with an error (drogon).
PurgeThrows(i) ==
  /\ Caught /\ "database" \in Faults
  /\ \/ NotPurging(i) /\ purges' = purges + 1
     \/ purge[i] = "fallback" /\ UNCHANGED purges
  /\ purge' = [purge EXCEPT ![i] = "idle"]
  /\ UNCHANGED <<currentGateway, flowVars, wireVars, recorded, fate, doomed>>

\* What processes of boost and ipc end with: nothing catches what a summary or
\* a purge throws in a thread of theirs.  The payments in the queue and in the
\* hands of the processor are lost, whatever the gateways make of a request.
ProcessEnds(i) ==
  /\ ~Caught /\ "database" \in Faults
  /\ purge[i] # "dead"
  /\ purge'   = [purge EXCEPT ![i] = "dead"]
  /\ pending' = [pending EXCEPT ![i] = {}]
  /\ pc'      = [pc EXCEPT ![i] = "stopped"]
  /\ payment' = [payment EXCEPT ![i] = None]
  /\ answer'  = [answer EXCEPT ![i] = "none"]
  /\ fate'    = [p \in Payments |-> IF p \in pending[i] \cup {payment[i]} THEN "lost" ELSE fate[p]]
  /\ UNCHANGED <<currentGateway, gateway, inFlight, accepted, recorded, doomed, purges>>

-----------------------------------------------------------------------------

\* What the processor does when nothing goes wrong.
Work(i) ==
  \/ \E p \in Payments : Dequeue(i, p)
  \/ GetGateway(i)
  \/ Send(i)
  \/ ReadOk(i)
  \/ ReadRefusal(i)
  \/ Record(i)

Fails(i) == ConnectionError(i) \/ RecordNotCommitted(i) \/ RecordThrows(i)

Processor(i) == Work(i) \/ Fails(i)

Purge(i) == PurgeDefault(i) \/ PurgeFallback(i) \/ PurgeQueue(i) \/ PurgeThrows(i)

Environment ==
  \/ \E g \in Gateways, p \in Payments : GatewayAccepts(g, p) \/ GatewayRefuses(g, p)
  \/ \E g \in Gateways : ChooserStores(g)

Next ==
  \/ \E i \in Instances, p \in Payments : PostPayment(i, p)
  \/ \E i \in Instances : Processor(i) \/ Purge(i) \/ ProcessEnds(i)
  \/ Environment

Spec == Init /\ [][Next]_vars

\* A processor thread that can move does, but no fault has to occur.  A gateway
\* answers what it was sent, and one that is asked over and over accepts in the
\* end (it recovers).
Fairness ==
  /\ \A i \in Instances : WF_vars(Work(i))
  /\ \A g \in Gateways, p \in Payments :
       /\ WF_vars(GatewayAccepts(g, p) \/ GatewayRefuses(g, p))
       /\ SF_vars(GatewayAccepts(g, p))

FairSpec == Spec /\ Fairness

-----------------------------------------------------------------------------
(* Properties.                                                             *)

InHand(i) == payment[i] # None

TypeOK ==
  /\ currentGateway \in Gateways
  /\ pending  \in [Instances -> SUBSET Payments]
  /\ pc       \in [Instances -> {"dequeue", "choose", "send", "read", "record", "retry", "stopped"}]
  /\ payment  \in [Instances -> Payments \cup {None}]
  /\ gateway  \in [Instances -> Gateways]
  /\ inFlight \in [Gateways -> SUBSET Payments]
  /\ answer   \in [Instances -> {"none", "ok", "refused"}]
  /\ accepted \in [Gateways -> SUBSET Payments]
  /\ recorded \in [Gateways -> SUBSET Payments]
  /\ fate     \in [Payments -> Fates]
  /\ purge    \in [Instances -> {"idle", "fallback", "queue", "done", "dead"}]
  /\ doomed   \in [Instances -> SUBSET Payments]
  /\ purges   \in 0..MaxPurges

\* A payment is charged by one gateway at most, however many times it is
\* retried and whichever gateway the chooser and the other instances select
\* between two attempts (processPayment retries only after a refusal).
ChargedOnce == accepted["default"] \cap accepted["fallback"] = {}

\* The books of the database agree with those of the gateways: a payment is
\* recorded for the gateway that charged it, although the current gateway may
\* have changed before the answer came.
RecordedWasCharged == \A g \in Gateways : recorded[g] \subseteq accepted[g]

\* The other way round: a charge that is not in the database is about to be
\* recorded by the processor that sent it, or was lost to a fault of the
\* connection or the database (that of a handler which nobody catches ends the
\* process), or was purged.
ChargeAccountedFor ==
  \A g \in Gateways : \A p \in accepted[g] \ recorded[g] :
    \/ \E i \in Instances : /\ payment[i] = p /\ gateway[i] = g
                            /\ pc[i] \in {"read", "record"}
    \/ fate[p] = "purged"
    \/ fate[p] = "dropped" /\ "connection" \in Faults
    \/ fate[p] = "unsaved" /\ Faults \cap {"database", "commit"} # {}
    \/ fate[p] = "lost" /\ "database" \in Faults /\ ~Caught

\* A payment that was posted is neither duplicated nor forgotten: while it is
\* live it is in one queue or in the hands of one processor, and nowhere else.
EachInOnePlace ==
  /\ \A p \in Payments :
       /\ fate[p] = "live" <=> \E i \in Instances : p \in pending[i] \/ payment[i] = p
       /\ fate[p] = "recorded" <=> \E g \in Gateways : p \in recorded[g]
  /\ \A i, j \in Instances :
       /\ i # j => pending[i] \cap pending[j] = {}
       /\ i # j /\ InHand(i) => payment[i] # payment[j]
       /\ InHand(i) => payment[i] \notin pending[j]

\* A purge that got through (one that throws answers with an error, or never)
\* has forgotten everything recorded before it began, whatever is recorded and
\* purged meanwhile, here or by another instance (PaymentService::purge, two
\* transactions), unless a commit failed, which nobody notices.
PurgeForgets ==
  "commit" \notin Faults => \A i \in Instances : purge[i] \in {"queue", "done"} =>
    \A g \in Gateways : doomed[i] \cap recorded[g] = {}

\* A payment that was posted is settled in the end, or lost with its process,
\* unless a database error has ended the processor of its own instance: none is
\* retried for ever once the gateways recover, and none is stuck behind another.
EveryPaymentSettles ==
  \A i \in Instances, p \in Payments :
    (p \in pending[i] \/ payment[i] = p) ~> (fate[p] # "live" \/ pc[i] = "stopped")

\* The instances together keep the promises of module PaymentLedger: whatever
\* the retries, the switches of the gateway, the faults and the purges, what is
\* charged was posted and is charged once, what is recorded is recorded once and
\* for the gateway that charged it, and what a purge took from a queue is never
\* charged.
LedgerStatus ==
  [p \in Payments |->
     CASE fate[p] = "purged" -> IF \E g \in Gateways : p \in accepted[g] THEN "erased" ELSE "cancelled"
       [] fate[p] \in {"dropped", "unsaved", "lost"} -> "lost"
       [] OTHER -> fate[p]]

Ledger == INSTANCE PaymentLedger WITH
            status <- LedgerStatus, charged <- accepted, recorded <- recorded,
            Twice <- FALSE, Lossy <- Faults # {}

ImplementsLedger == Ledger!Spec

\* What the comment in processPayment says of a refused payment: "Try again
\* with the other gateway".
RetriesWithOther ==
  [][\A i \in Instances :
       pc[i] = "retry" /\ pc'[i] = "send" => gateway'[i] = Other(gateway[i])]_vars

-----------------------------------------------------------------------------
(* The inductive invariant of PaymentFlowProofs.                           *)

\* No gateway has p, neither as a request nor as a charge.
Unsent(p) == \A g \in Gateways : p \notin inFlight[g] /\ p \notin accepted[g]

\* p is known to one gateway at most, as a request or as a charge.
KnownOnce ==
  \A p \in Payments, g \in Gateways :
    /\ p \in inFlight[g] => p \notin accepted[g]
    /\ p \in inFlight[g] \cup accepted[g] =>
         p \notin inFlight[Other(g)] /\ p \notin accepted[Other(g)]

NotSentYet ==
  /\ \A p \in Payments : fate[p] = "new" => Unsent(p)
  /\ \A i \in Instances : \A p \in pending[i] : Unsent(p)
  /\ \A i \in Instances :
       \/ pc[i] \in {"choose", "send", "retry"}
       \/ pc[i] = "read" /\ answer[i] = "refused"
       => Unsent(payment[i])

SentTo ==
  \A i \in Instances :
    /\ pc[i] = "read" /\ answer[i] = "none" => payment[i] \in inFlight[gateway[i]]
    /\ pc[i] = "read" /\ answer[i] = "ok" => payment[i] \in accepted[gateway[i]]
    /\ pc[i] = "record" => payment[i] \in accepted[gateway[i]]

\* A processor has a payment exactly between the queue and the end of its work.
HandAndPc == \A i \in Instances : payment[i] = None <=> pc[i] \in {"dequeue", "stopped"}

\* No answer is left over from an earlier attempt.
NoStaleAnswer ==
  \A i \in Instances : answer[i] # "none" => pc[i] \in {"read", "record"}

\* Only faults lose payments.
LossesAreFaults ==
  \A p \in Payments :
    /\ fate[p] = "dropped" => "connection" \in Faults
    /\ fate[p] = "unsaved" => Faults \cap {"database", "commit"} # {}
    /\ fate[p] = "lost" => "database" \in Faults /\ ~Caught

\* What the safety properties rest on: a processor's place in its code tells
\* what the gateways know of the payment it holds.
IInv ==
  /\ TypeOK
  /\ EachInOnePlace
  /\ HandAndPc
  /\ NoStaleAnswer
  /\ KnownOnce
  /\ NotSentYet
  /\ SentTo
  /\ RecordedWasCharged
  /\ LossesAreFaults

=============================================================================
