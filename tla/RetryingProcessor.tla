-------------------------- MODULE RetryingProcessor --------------------------
(***************************************************************************)
(* One API instance of the haproxy-mongoose variant: the server threads    *)
(* that post payments, the processor threads that send them to a gateway,  *)
(* and the signal that asks all of them to finish.                         *)
(*                                                                         *)
(* Unlike the other variants (module PaymentFlow), a processor sends its   *)
(* payment again and again while a gateway answers with a server error or  *)
(* not at all, each time to the gateway that is current by then; any other *)
(* refusal makes it switch the gateway and drop the payment.  When no      *)
(* answer came, nobody knows whether the gateway has charged the payment.  *)
(*                                                                         *)
(* The other instance and the gateway chooser appear as what they do to    *)
(* the shared memory: they store any gateway at any time.  The order in    *)
(* the queue is left to module PendingPaymentsQueue.                       *)
(***************************************************************************)
EXTENDS Naturals, FiniteSets

CONSTANTS Payments,   \* the payments the clients post
          Workers,    \* the processor threads (Config::processorWorkers)
          None,       \* no payment in hand
          Faults,     \* a subset of FaultKinds
          MaxPurges   \* how many times /purge-payments is called (bound)

FaultKinds == {"noAnswer", \* a request or its answer is lost or comes too late
               "refusal",  \* a gateway refuses a payment that it has not charged
               "database", \* the database throws
               "commit"}   \* mdb_txn_commit fails, which ~Transaction ignores

ASSUME BoundAssumption   == MaxPurges \in Nat
ASSUME NoneAssumption   == None \notin Payments
ASSUME FaultsAssumption == Faults \subseteq FaultKinds

Gateways == {"default", "fallback"}

\* Mutant: the other gateway computed by incrementing the enumerator.
Other_Increments(g) == IF g = "default" THEN "fallback" ELSE "next"

Other(g) == IF g = "default" THEN "fallback" ELSE "default"

VARIABLES
  currentGateway, \* SharedData::currentGateway
  finish,         \* SignalHandling::finish
  serving,        \* do the server threads still poll?
  pending,        \* the queue
  pc,             \* pc[w]: where worker w is
  payment,        \* payment[w]: the payment it has in hand
  gateway,        \* gateway[w]: the gateway of this try
  answer,         \* answer[w]: what has come of the request of this try
  late,           \* requests whose sender waits no more: <<payment, gateway>>
  charged,        \* charged[g]: what gateway g has charged (external)
  recorded,       \* recorded[g]: the payments in the database of gateway g
  purge,          \* where the server thread is that handles /purge-payments
  purges,         \* number of purges so far (bound)
  fate,           \* fate[p]: what became of p (history)
  unanswered      \* the payments with a try that got no answer (history)

serverVars == <<finish, serving, pending>>
workerVars == <<pc, payment, gateway, answer>>
wireVars   == <<late, charged>>
purgeVars  == <<purge, purges>>
bookVars   == <<recorded, fate, unanswered, purgeVars>>
vars       == <<currentGateway, serverVars, workerVars, wireVars, bookVars>>

Fates == {"new",       \* not posted yet
          "live",      \* in the queue or in the hands of a worker
          "recorded",  \* in the database
          "refused",   \* dropped after a refusal
          "unsaved",   \* accepted by a gateway, not committed
          "purged",    \* removed by /purge-payments
          "lost"}      \* gone with the process

Places == {"loop", "dequeue", "choose", "send", "wait", "record", "stopped"}

Init ==
  /\ currentGateway = "default"
  /\ finish = FALSE /\ serving = TRUE
  /\ pending = {}
  /\ pc = [w \in Workers |-> "loop"]
  /\ payment = [w \in Workers |-> None]
  /\ gateway = [w \in Workers |-> "default"]
  /\ answer = [w \in Workers |-> "none"]
  /\ late = {}
  /\ charged = [g \in Gateways |-> {}]
  /\ recorded = [g \in Gateways |-> {}]
  /\ fate = [p \in Payments |-> "new"]
  /\ unanswered = {}
  /\ purge = "idle" /\ purges = 0

Running == \E w \in Workers : pc[w] # "stopped"

-----------------------------------------------------------------------------
(* The server threads.                                                     *)

\* POST /payments: the answer is buffered, the payment enqueued.
PostPayment(p) ==
  /\ serving
  /\ fate[p] = "new"
  /\ pending' = pending \cup {p}
  /\ fate' = [fate EXCEPT ![p] = "live"]
  /\ UNCHANGED <<currentGateway, finish, serving, workerVars, wireVars, recorded, unanswered, purgeVars>>

\* POST /purge-payments: one transaction per database, then the queue.  The
\* commit of a transaction may fail unnoticed; an exception of the database ends
\* the handler, and the client gets no answer.
Forget(ps) == fate' = [p \in Payments |-> IF p \in ps THEN "purged" ELSE fate[p]]

PurgeDatabase(g, next) ==
  /\ \/ /\ recorded' = [recorded EXCEPT ![g] = {}]
        /\ Forget(recorded[g])
        /\ purge' = next
     \/ "commit" \in Faults /\ UNCHANGED <<recorded, fate>> /\ purge' = next
     \/ "database" \in Faults /\ UNCHANGED <<recorded, fate>> /\ purge' = "idle"
  /\ UNCHANGED <<currentGateway, serverVars, workerVars, wireVars, unanswered>>

PurgeDefault ==
  /\ serving /\ purge = "idle" /\ purges < MaxPurges
  /\ purges' = purges + 1
  /\ PurgeDatabase("default", "fallback")

PurgeFallback ==
  /\ purge = "fallback"
  /\ UNCHANGED purges
  /\ PurgeDatabase("fallback", "queue")

PurgeQueue ==
  /\ purge = "queue"
  /\ purge' = "idle"
  /\ pending' = {}
  /\ Forget(pending)
  /\ UNCHANGED <<currentGateway, finish, serving, workerVars, wireVars, recorded, unanswered, purges>>

\* The last server thread finds that the program should finish.
StopServing ==
  /\ finish /\ serving /\ purge = "idle"
  /\ serving' = FALSE
  /\ UNCHANGED <<currentGateway, finish, pending, workerVars, wireVars, bookVars>>

\* SIGINT or SIGTERM.
Finish ==
  /\ ~finish
  /\ finish' = TRUE
  /\ UNCHANGED <<currentGateway, serving, pending, workerVars, wireVars, bookVars>>

-----------------------------------------------------------------------------
(* A processor thread.                                                     *)

Goto(w, where) == pc' = [pc EXCEPT ![w] = where]

\* The next try; what came of this one is forgotten.
TryAgain(w) ==
  /\ Goto(w, "choose")
  /\ gateway' = [gateway EXCEPT ![w] = "default"]
  /\ answer'  = [answer EXCEPT ![w] = "none"]

\* processPayment returns.
BackToLoop(w) ==
  /\ Goto(w, "loop")
  /\ payment' = [payment EXCEPT ![w] = None]
  /\ gateway' = [gateway EXCEPT ![w] = "default"]
  /\ answer'  = [answer EXCEPT ![w] = "none"]

\* Mutant: the thread goes on whatever the signal.
Loop_Forever(w) ==
  /\ pc[w] = "loop"
  /\ Goto(w, "dequeue")
  /\ UNCHANGED <<currentGateway, serverVars, payment, gateway, answer, wireVars, bookVars>>

\* while (!shouldFinish())
Loop(w) ==
  /\ pc[w] = "loop"
  /\ Goto(w, IF finish THEN "stopped" ELSE "dequeue")
  /\ UNCHANGED <<currentGateway, serverVars, payment, gateway, answer, wireVars, bookVars>>

\* Mutant: the payment is read from the queue but not popped.
Dequeue_WithoutPop(w, p) ==
  /\ pc[w] = "dequeue" /\ p \in pending
  /\ payment' = [payment EXCEPT ![w] = p]
  /\ Goto(w, "choose")
  /\ UNCHANGED <<currentGateway, serverVars, gateway, answer, wireVars, bookVars>>

Dequeue(w, p) ==
  /\ pc[w] = "dequeue" /\ p \in pending
  /\ pending' = pending \ {p}
  /\ payment' = [payment EXCEPT ![w] = p]
  /\ Goto(w, "choose")
  /\ UNCHANGED <<currentGateway, finish, serving, gateway, answer, wireVars, bookVars>>

\* dequeue returns nothing: the queue is empty and the program should finish.
DequeueNothing(w) ==
  /\ pc[w] = "dequeue" /\ pending = {} /\ finish
  /\ Goto(w, "loop")
  /\ UNCHANGED <<currentGateway, serverVars, payment, gateway, answer, wireVars, bookVars>>

\* Every try reads the current gateway; the shutdown flag is not looked at.
GetGateway(w) ==
  /\ pc[w] = "choose"
  /\ gateway' = [gateway EXCEPT ![w] = currentGateway]
  /\ Goto(w, "send")
  /\ UNCHANGED <<currentGateway, serverVars, payment, answer, wireVars, bookVars>>

\* httpClient->Post has sent the request, and waits.
Send(w) ==
  /\ pc[w] = "send"
  /\ Goto(w, "wait")
  /\ UNCHANGED <<currentGateway, serverVars, payment, gateway, answer, wireVars, bookVars>>

Request(w) == <<payment[w], gateway[w]>>

\* Post returns no response, before or after the gateway has done its work:
\* try again.
NoAnswer(w) ==
  /\ "noAnswer" \in Faults
  /\ pc[w] \in {"send", "wait"}
  /\ late' = IF pc[w] = "wait" /\ answer[w] = "none" THEN late \cup {Request(w)} ELSE late
  /\ unanswered' = IF pc[w] = "wait" THEN unanswered \cup {payment[w]} ELSE unanswered
  /\ TryAgain(w)
  /\ UNCHANGED <<currentGateway, serverVars, payment, charged, recorded, fate, purgeVars>>

\* Mutant: a program that should finish does not care for the answer.
ReadOk_UnlessFinish(w) ==
  /\ pc[w] = "wait" /\ answer[w] = "ok"
  /\ IF finish
     THEN BackToLoop(w) /\ fate' = [fate EXCEPT ![payment[w]] = "refused"]
     ELSE Goto(w, "record") /\ UNCHANGED <<payment, gateway, answer, fate>>
  /\ UNCHANGED <<currentGateway, serverVars, wireVars, recorded, unanswered, purgeVars>>

ReadOk(w) ==
  /\ pc[w] = "wait" /\ answer[w] = "ok"
  /\ Goto(w, "record")
  /\ UNCHANGED <<currentGateway, serverVars, payment, gateway, answer, wireVars, bookVars>>

\* Status 500 to 599: try again, with no switch.
ReadError(w) ==
  /\ pc[w] = "wait" /\ answer[w] = "error"
  /\ TryAgain(w)
  /\ UNCHANGED <<currentGateway, serverVars, payment, wireVars, bookVars>>

\* Mutant: a refused payment is tried again like any other.
ReadRefusal_TriesAgain(w) ==
  /\ pc[w] = "wait" /\ answer[w] = "refused"
  /\ TryAgain(w)
  /\ UNCHANGED <<currentGateway, serverVars, payment, wireVars, bookVars>>

\* Any other status: switch, and drop the payment.
ReadRefusal(w) ==
  /\ pc[w] = "wait" /\ answer[w] = "refused"
  /\ currentGateway' = Other(gateway[w])
  /\ fate' = [fate EXCEPT ![payment[w]] = "refused"]
  /\ BackToLoop(w)
  /\ UNCHANGED <<serverVars, wireVars, recorded, unanswered, purgeVars>>

\* Mutant: after recording the payment the loop goes on.
Record_WithoutReturn(w) ==
  /\ pc[w] = "record"
  /\ recorded' = [recorded EXCEPT ![gateway[w]] = @ \cup {payment[w]}]
  /\ TryAgain(w)
  /\ UNCHANGED <<currentGateway, serverVars, payment, wireVars, fate, unanswered, purgeVars>>

\* Mutant: the database is that of the gateway which is current by now.
Record_ForCurrent(w) ==
  /\ pc[w] = "record"
  /\ recorded' = [recorded EXCEPT ![currentGateway] = @ \cup {payment[w]}]
  /\ fate' = [fate EXCEPT ![payment[w]] = "recorded"]
  /\ BackToLoop(w)
  /\ UNCHANGED <<currentGateway, serverVars, wireVars, unanswered, purgeVars>>

\* PaymentService::postPayment for the gateway of this try.
Record(w) ==
  /\ pc[w] = "record"
  /\ recorded' = [recorded EXCEPT ![gateway[w]] = @ \cup {payment[w]}]
  /\ fate' = [fate EXCEPT ![payment[w]] = "recorded"]
  /\ BackToLoop(w)
  /\ UNCHANGED <<currentGateway, serverVars, wireVars, unanswered, purgeVars>>

\* The commit fails unnoticed.
RecordNotCommitted(w) ==
  /\ "commit" \in Faults
  /\ pc[w] = "record"
  /\ fate' = [fate EXCEPT ![payment[w]] = "unsaved"]
  /\ BackToLoop(w)
  /\ UNCHANGED <<currentGateway, serverVars, wireVars, recorded, unanswered, purgeVars>>

\* The exception of checkMdbError leaves the thread's function: the process
\* terminates, with what is pending and in the hands of the other threads.
RecordThrows(w) ==
  /\ "database" \in Faults
  /\ pc[w] = "record"
  /\ serving' = FALSE
  /\ pending' = {}
  /\ pc' = [v \in Workers |-> "stopped"]
  /\ payment' = [v \in Workers |-> None]
  /\ gateway' = [v \in Workers |-> "default"]
  /\ answer' = [v \in Workers |-> "none"]
  /\ fate' = [p \in Payments |-> IF fate[p] = "live" THEN "lost" ELSE fate[p]]
  /\ late' = late \cup {Request(v) : v \in {u \in Workers : pc[u] = "wait" /\ answer[u] = "none"}}
  /\ unanswered' = unanswered \cup {payment[v] : v \in {u \in Workers : pc[u] = "wait"}}
  /\ purge' = "idle"
  /\ UNCHANGED <<currentGateway, finish, charged, recorded, purges>>

-----------------------------------------------------------------------------
(* The gateways (external).  They charge a correlation id once: a second   *)
(* request for it is refused.                                              *)

GatewayAccepts(w) ==
  /\ pc[w] = "wait" /\ answer[w] = "none"
  /\ payment[w] \notin charged[gateway[w]]
  /\ charged' = [charged EXCEPT ![gateway[w]] = @ \cup {payment[w]}]
  /\ answer' = [answer EXCEPT ![w] = "ok"]
  /\ UNCHANGED <<currentGateway, serverVars, pc, payment, gateway, late, bookVars>>

GatewayFails(w) ==
  /\ pc[w] = "wait" /\ answer[w] = "none"
  /\ answer' = [answer EXCEPT ![w] = "error"]
  /\ UNCHANGED <<currentGateway, serverVars, pc, payment, gateway, wireVars, bookVars>>

GatewayRefuses(w) ==
  /\ pc[w] = "wait" /\ answer[w] = "none"
  /\ "refusal" \in Faults \/ payment[w] \in charged[gateway[w]]
  /\ answer' = [answer EXCEPT ![w] = "refused"]
  /\ UNCHANGED <<currentGateway, serverVars, pc, payment, gateway, wireVars, bookVars>>

\* A request nobody waits for any more is charged, or not.
LateRequest(r) ==
  /\ r \in late
  /\ late' = late \ {r}
  /\ \/ charged' = [charged EXCEPT ![r[2]] = @ \cup {r[1]}]
     \/ UNCHANGED charged
  /\ UNCHANGED <<currentGateway, serverVars, workerVars, bookVars>>

\* The chooser or a processor of the other instance stores a gateway.
ChooserStores(g) ==
  /\ currentGateway # g
  /\ currentGateway' = g
  /\ UNCHANGED <<serverVars, workerVars, wireVars, bookVars>>

-----------------------------------------------------------------------------

\* What a worker does when nothing goes wrong.
Work(w) ==
  \/ Loop(w)
  \/ \E p \in Payments : Dequeue(w, p)
  \/ DequeueNothing(w)
  \/ GetGateway(w)
  \/ Send(w)
  \/ ReadOk(w)
  \/ ReadError(w)
  \/ ReadRefusal(w)
  \/ Record(w)

Fails(w) == NoAnswer(w) \/ RecordNotCommitted(w) \/ RecordThrows(w)

Gateway(w) == GatewayAccepts(w) \/ GatewayFails(w) \/ GatewayRefuses(w)

Purge == PurgeDefault \/ PurgeFallback \/ PurgeQueue

Server == (\E p \in Payments : PostPayment(p)) \/ Purge \/ StopServing \/ Finish

Next ==
  \/ Server
  \/ \E w \in Workers : Work(w) \/ Fails(w) \/ Gateway(w)
  \/ \E r \in Payments \X Gateways : LateRequest(r)
  \/ \E g \in Gateways : ChooserStores(g)

Spec == Init /\ [][Next]_vars

\* Threads that can move do, and no fault has to occur.  A gateway answers what
\* it is asked, and one that is asked over and over can be reached and does not
\* fail for ever.
Fairness ==
  /\ WF_vars(StopServing) /\ WF_vars(PurgeFallback \/ PurgeQueue)
  /\ \A w \in Workers :
       /\ WF_vars(Work(w))
       /\ WF_vars(Gateway(w))
       /\ SF_vars(Send(w))
       /\ SF_vars(GatewayAccepts(w) \/ GatewayRefuses(w))
       /\ SF_vars(ReadOk(w) \/ ReadRefusal(w))

FairSpec == Spec /\ Fairness

-----------------------------------------------------------------------------
(* Properties.                                                             *)

TypeOK ==
  /\ currentGateway \in Gateways
  /\ finish \in BOOLEAN /\ serving \in BOOLEAN
  /\ pending \subseteq Payments
  /\ pc \in [Workers -> Places]
  /\ payment \in [Workers -> Payments \cup {None}]
  /\ gateway \in [Workers -> Gateways]
  /\ answer \in [Workers -> {"none", "ok", "error", "refused"}]
  /\ late \subseteq Payments \X Gateways
  /\ charged \in [Gateways -> SUBSET Payments]
  /\ recorded \in [Gateways -> SUBSET Payments]
  /\ fate \in [Payments -> Fates]
  /\ unanswered \subseteq Payments
  /\ purge \in {"idle", "fallback", "queue"} /\ purges \in 0..MaxPurges

\* Retrying charges a payment at both gateways only if an answer was lost on
\* the way: neither errors, refusals nor switches of the gateway between two
\* tries do it.
ChargedTwiceOnlyUnanswered == charged["default"] \cap charged["fallback"] \subseteq unanswered

\* The instance keeps the promises of module PaymentLedger, where a lost answer
\* may charge a payment twice: after any number of tries a payment is recorded
\* once, as charged by the gateway of the try that succeeded, and what a purge
\* took from the queue is never charged.
LedgerStatus ==
  [p \in Payments |->
     CASE fate[p] = "purged" -> IF \E g \in Gateways : p \in charged[g] THEN "erased" ELSE "cancelled"
       [] fate[p] \in {"refused", "unsaved", "lost"} -> "lost"
       [] OTHER -> fate[p]]

Ledger == INSTANCE PaymentLedger WITH
            status <- LedgerStatus, Twice <- "noAnswer" \in Faults, Lossy <- Faults # {}

ImplementsLedger == Ledger!Spec

\* A charge that is not in the database is about to be recorded by the worker
\* that sent it, or one of its tries got no answer, or the database lost it,
\* or it was purged.
\* In particular no charge is lost because the program finishes.
ChargeAccountedFor ==
  \A g \in Gateways : \A p \in charged[g] \ recorded[g] :
    \/ \E w \in Workers : /\ payment[w] = p /\ gateway[w] = g
                          /\ pc[w] \in {"wait", "record"}
    \/ p \in unanswered
    \/ fate[p] = "purged"
    \/ fate[p] \in {"unsaved", "lost"} /\ Faults \cap {"database", "commit"} # {}

\* A payment that was posted is neither duplicated nor forgotten: while it is
\* live it is in the queue or in the hands of one worker.
EachInOnePlace ==
  /\ \A p \in Payments : fate[p] = "live" <=> p \in pending \/ \E w \in Workers : payment[w] = p
  /\ \A w \in Workers : payment[w] # None =>
       /\ payment[w] \notin pending
       /\ \A v \in Workers : payment[v] = payment[w] => v = w

\* A payment in the hands of a worker is settled, even one that was charged by a
\* request whose answer was lost, and one in the queue is settled or left there
\* when all the threads have finished: no payment is tried for ever once the
\* gateways have stopped failing.
EveryPaymentSettles ==
  \A p \in Payments :
    /\ (\E w \in Workers : payment[w] = p) ~> fate[p] # "live"
    /\ p \in pending ~> (p \notin pending \/ ~Running)

\* Asked to finish, the program does, although a worker between two tries does
\* not look at the flag.
Finishes == finish ~> ~Running /\ ~serving

=============================================================================
