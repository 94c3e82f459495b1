----------------------- MODULE RetryingProcessorProofs -----------------------
(***************************************************************************)
(* Proofs about RetryingProcessor: its safety properties, and that it      *)
(* implements PaymentLedger, for any payments, threads, purges and faults. *)
(*                                                                         *)
(* The invariant follows a payment that has never lost an answer: it is    *)
(* charged only once it is in the hands of the worker that has the answer, *)
(* and from there it is recorded, or lost to a database (Accounted).       *)
(* Hence a second charge, and a refusal of what was charged before, need   *)
(* an answer that was lost.  Without the fault "noAnswer" answers are lost *)
(* only when the process terminates; each payment has then one request     *)
(* under way, and is not charged yet (LostAtTheEnd).                       *)
(***************************************************************************)
EXTENDS RetryingProcessor, TLAPS

\* A worker has a payment from dequeue to the end of processPayment, and an
\* answer while it looks at it.
HandAndPc ==
  \A w \in Workers :
    /\ payment[w] # None <=> pc[w] \in {"choose", "send", "wait", "record"}
    /\ answer[w] # "none" => pc[w] \in {"wait", "record"}
    /\ pc[w] = "record" => answer[w] = "ok"
    /\ answer[w] = "ok" => payment[w] \in charged[gateway[w]]

\* No gateway has heard of a payment that is not posted or in the queue.
Unsent ==
  \A p \in Payments : fate[p] = "new" \/ p \in pending =>
    p \notin unanswered /\ \A g \in Gateways : p \notin charged[g]

\* What is in a database was charged by its gateway, and is in no other one.
RecordedWasCharged ==
  \A g \in Gateways : \A p \in recorded[g] :
    /\ fate[p] = "recorded" /\ p \in charged[g]
    /\ \A h \in Gateways : p \in recorded[h] => h = g

\* Worker w knows that gateway g has charged p.
HasAnswer(w, p, g) == payment[w] = p /\ gateway[w] = g /\ answer[w] = "ok"

Unsaved(p) == fate[p] \in {"unsaved", "lost"} /\ Faults \cap {"database", "commit"} # {}

\* ChargeAccountedFor, and that the worker has its answer.
Accounted ==
  \A g \in Gateways : \A p \in charged[g] :
    \/ p \in unanswered
    \/ \E w \in Workers : HasAnswer(w, p, g)
    \/ p \in recorded[g] \/ fate[p] = "purged" \/ Unsaved(p)

LateIsUnanswered == \A p \in Payments, g \in Gateways : <<p, g>> \in late => p \in unanswered

\* A payment that was ever sent is purged from a database, not from the queue.
SentIsNotCancelled ==
  \A p \in unanswered : fate[p] = "purged" => \E g \in Gateways : p \in charged[g]

\* While no answer can be lost but with the process.
LostAtTheEnd ==
  "noAnswer" \notin Faults =>
    /\ unanswered = {} \/ \A w \in Workers : pc[w] = "stopped"
    /\ \A p \in Payments, g \in Gateways : <<p, g>> \in late =>
         /\ \A h \in Gateways : p \notin charged[h]
         /\ \A h \in Gateways : <<p, h>> \in late => h = g

Faultless == Faults = {} => unanswered = {} /\ \A w \in Workers : answer[w] # "refused"

IInv ==
  /\ TypeOK /\ HandAndPc /\ EachInOnePlace /\ Unsent /\ RecordedWasCharged
  /\ Accounted /\ LateIsUnanswered /\ SentIsNotCancelled
  /\ LostAtTheEnd /\ Faultless /\ ChargedTwiceOnlyUnanswered

-----------------------------------------------------------------------------

LEMMA InitIInv == Init => IInv
<1> SUFFICES ASSUME Init PROVE IInv
  OBVIOUS
<1>1. TypeOK
  <2>1. 0 \in 0..MaxPurges
    BY BoundAssumption
  <2> QED
    BY <2>1 DEF Init, TypeOK, Gateways, Places, Fates
<1>2. HandAndPc /\ EachInOnePlace /\ Unsent /\ RecordedWasCharged
  BY NoneAssumption DEF Init, HandAndPc, EachInOnePlace, Unsent, RecordedWasCharged
<1>3. /\ Accounted /\ LateIsUnanswered /\ SentIsNotCancelled /\ LostAtTheEnd
      /\ Faultless /\ ChargedTwiceOnlyUnanswered
  BY DEF Init, Accounted, LateIsUnanswered, SentIsNotCancelled, LostAtTheEnd, Faultless,
         ChargedTwiceOnlyUnanswered, Gateways
<1> QED
  BY <1>1, <1>2, <1>3 DEF IInv

\* A payment in the hands of a worker is live, and of that worker alone.
LEMMA InHand ==
  ASSUME IInv, NEW w \in Workers, pc[w] \in {"choose", "send", "wait", "record"}
  PROVE  /\ payment[w] \in Payments /\ fate[payment[w]] = "live"
         /\ payment[w] \notin pending
         /\ \A v \in Workers : payment[v] = payment[w] => v = w
<1>1. payment[w] \in Payments
  BY DEF IInv, TypeOK, HandAndPc
<1> QED
  BY <1>1, NoneAssumption DEF IInv, EachInOnePlace

\* A payment whose answers have all come is unknown to the gateways while its
\* worker waits for the next one.
LEMMA Untried ==
  ASSUME IInv, NEW w \in Workers, pc[w] = "wait", answer[w] # "ok", payment[w] \notin unanswered
  PROVE  \A g \in Gateways : payment[w] \notin charged[g]
<1> SUFFICES ASSUME NEW g \in Gateways, payment[w] \in charged[g] PROVE FALSE
  OBVIOUS
<1>1. fate[payment[w]] = "live" /\ \A v \in Workers : payment[v] = payment[w] => v = w
  BY InHand
<1>2. payment[w] \notin recorded[g]
  BY <1>1 DEF IInv, RecordedWasCharged
<1> QED
  BY <1>1, <1>2 DEF IInv, Accounted, HasAnswer, Unsaved

\* Steps that leave charges, books and queue alone.
LEMMA QuietStep ==
  ASSUME IInv, TypeOK', HandAndPc', Faultless',
         UNCHANGED <<charged, recorded, fate, unanswered, late, pending, payment>>,
         \A w \in Workers : /\ pc[w] = "stopped" => pc'[w] = "stopped"
                            /\ answer[w] = "ok" => answer'[w] = "ok" /\ gateway'[w] = gateway[w]
  PROVE  IInv'
<1>1. EachInOnePlace' /\ Unsent' /\ RecordedWasCharged'
  BY DEF IInv, EachInOnePlace, Unsent, RecordedWasCharged
<1>2. Accounted'
  BY DEF IInv, Accounted, HasAnswer, Unsaved
<1>3. LateIsUnanswered' /\ SentIsNotCancelled' /\ LostAtTheEnd' /\ ChargedTwiceOnlyUnanswered'
  BY DEF IInv, LateIsUnanswered, SentIsNotCancelled, LostAtTheEnd, ChargedTwiceOnlyUnanswered
<1> QED
  BY <1>1, <1>2, <1>3 DEF IInv

LEMMA WorkKeeps ==
  ASSUME IInv, NEW w \in Workers,
         \/ Loop(w) \/ DequeueNothing(w) \/ GetGateway(w) \/ Send(w)
         \/ ReadOk(w) \/ ReadError(w) \/ GatewayFails(w)
  PROVE  IInv'
<1> USE DEF Goto, serverVars, wireVars, bookVars, purgeVars
<1>1. ASSUME Loop(w) PROVE IInv'
  <2>1. TypeOK'
    BY <1>1 DEF Loop, IInv, TypeOK, Places
  <2>2. HandAndPc' /\ Faultless'
    BY <1>1 DEF Loop, IInv, TypeOK, HandAndPc, Faultless
  <2> QED
    BY <1>1, <2>1, <2>2, QuietStep DEF Loop, IInv, TypeOK
<1>2. ASSUME DequeueNothing(w) PROVE IInv'
  <2>1. TypeOK'
    BY <1>2 DEF DequeueNothing, IInv, TypeOK, Places
  <2>2. HandAndPc' /\ Faultless'
    BY <1>2 DEF DequeueNothing, IInv, TypeOK, HandAndPc, Faultless
  <2> QED
    BY <1>2, <2>1, <2>2, QuietStep DEF DequeueNothing, IInv, TypeOK
<1>3. ASSUME GetGateway(w) PROVE IInv'
  <2>1. TypeOK'
    BY <1>3 DEF GetGateway, IInv, TypeOK, Places
  <2>2. HandAndPc' /\ Faultless'
    BY <1>3 DEF GetGateway, IInv, TypeOK, HandAndPc, Faultless
  <2> QED
    BY <1>3, <2>1, <2>2, QuietStep DEF GetGateway, IInv, TypeOK, HandAndPc
<1>4. ASSUME Send(w) PROVE IInv'
  <2>1. TypeOK'
    BY <1>4 DEF Send, IInv, TypeOK, Places
  <2>2. HandAndPc' /\ Faultless'
    BY <1>4 DEF Send, IInv, TypeOK, HandAndPc, Faultless
  <2> QED
    BY <1>4, <2>1, <2>2, QuietStep DEF Send, IInv, TypeOK
<1>5. ASSUME ReadOk(w) PROVE IInv'
  <2>1. TypeOK'
    BY <1>5 DEF ReadOk, IInv, TypeOK, Places
  <2>2. HandAndPc' /\ Faultless'
    BY <1>5 DEF ReadOk, IInv, TypeOK, HandAndPc, Faultless
  <2> QED
    BY <1>5, <2>1, <2>2, QuietStep DEF ReadOk, IInv, TypeOK
<1>6. ASSUME ReadError(w) PROVE IInv'
  <2>1. TypeOK'
    BY <1>6 DEF ReadError, TryAgain, IInv, TypeOK, Places, Gateways
  <2>2. HandAndPc' /\ Faultless'
    BY <1>6 DEF ReadError, TryAgain, IInv, TypeOK, HandAndPc, Faultless
  <2> QED
    BY <1>6, <2>1, <2>2, QuietStep DEF ReadError, TryAgain, IInv, TypeOK
<1>7. ASSUME GatewayFails(w) PROVE IInv'
  <2>1. TypeOK'
    BY <1>7 DEF GatewayFails, IInv, TypeOK
  <2>2. HandAndPc' /\ Faultless'
    BY <1>7 DEF GatewayFails, IInv, TypeOK, HandAndPc, Faultless
  <2> QED
    BY <1>7, <2>1, <2>2, QuietStep DEF GatewayFails, IInv, TypeOK
<1> QED
  BY <1>1, <1>2, <1>3, <1>4, <1>5, <1>6, <1>7

\* A gateway refuses what it has charged only after an answer was lost.
LEMMA GatewayRefusesKeeps == ASSUME IInv, NEW w \in Workers, GatewayRefuses(w) PROVE IInv'
<1> USE DEF GatewayRefuses, serverVars, wireVars, bookVars, purgeVars
<1>1. TypeOK'
  BY DEF IInv, TypeOK
<1>2. HandAndPc'
  BY DEF IInv, TypeOK, HandAndPc
<1>3. Faultless'
  <2> SUFFICES ASSUME Faults = {} PROVE FALSE
    BY DEF Faultless
  <2>1. unanswered = {} /\ payment[w] \in charged[gateway[w]] /\ gateway[w] \in Gateways
    BY DEF IInv, TypeOK, Faultless
  <2> QED
    BY <2>1, Untried
<1> QED
  BY <1>1, <1>2, <1>3, QuietStep DEF IInv, TypeOK

LEMMA OtherThreadsKeep ==
  ASSUME IInv,
         \/ StopServing \/ Finish \/ UNCHANGED vars
         \/ \E g \in Gateways : ChooserStores(g)
  PROVE  IInv'
<1> USE DEF StopServing, Finish, ChooserStores, vars, serverVars, workerVars, wireVars, bookVars,
            purgeVars
<1>1. TypeOK'
  BY DEF IInv, TypeOK
<1>2. HandAndPc' /\ Faultless'
  BY DEF IInv, HandAndPc, Faultless
<1> QED
  BY <1>1, <1>2, QuietStep

-----------------------------------------------------------------------------
(* The server threads.                                                     *)

LEMMA PostPaymentKeeps == ASSUME IInv, NEW p \in Payments, PostPayment(p) PROVE IInv'
<1> USE DEF PostPayment, workerVars, wireVars, purgeVars
<1>1. TypeOK'
  BY DEF IInv, TypeOK, Fates
<1>2. HandAndPc' /\ EachInOnePlace'
  BY DEF IInv, TypeOK, HandAndPc, EachInOnePlace
<1>3. Unsent' /\ RecordedWasCharged'
  BY DEF IInv, TypeOK, Unsent, RecordedWasCharged
<1>4. Accounted'
  BY DEF IInv, TypeOK, Unsent, Accounted, HasAnswer, Unsaved
<1>5. LateIsUnanswered' /\ SentIsNotCancelled'
  BY DEF IInv, TypeOK, LateIsUnanswered, SentIsNotCancelled
<1>6. LostAtTheEnd' /\ Faultless' /\ ChargedTwiceOnlyUnanswered'
  BY DEF IInv, LostAtTheEnd, Faultless, ChargedTwiceOnlyUnanswered
<1> QED
  BY <1>1, <1>2, <1>3, <1>4, <1>5, <1>6 DEF IInv

\* Dropping a database purges what its gateway has charged.
LEMMA DropKeeps ==
  ASSUME IInv, TypeOK', NEW g \in Gateways,
         recorded' = [recorded EXCEPT ![g] = {}], Forget(recorded[g]),
         UNCHANGED <<workerVars, wireVars, pending, unanswered>>
  PROVE  IInv'
<1> USE DEF Forget, workerVars, wireVars
<1>1. HandAndPc'
  BY DEF IInv, HandAndPc
<1>2. /\ \A p \in Payments : fate'[p] = IF p \in recorded[g] THEN "purged" ELSE fate[p]
      /\ \A p \in recorded[g] : p \in Payments /\ fate[p] = "recorded" /\ p \in charged[g]
      /\ \A h \in Gateways : recorded'[h] = IF h = g THEN {} ELSE recorded[h]
  BY DEF IInv, TypeOK, RecordedWasCharged
<1>3. EachInOnePlace'
  BY <1>2 DEF IInv, TypeOK, EachInOnePlace
<1>4. Unsent' /\ SentIsNotCancelled'
  BY <1>2 DEF IInv, TypeOK, Unsent, SentIsNotCancelled
<1>5. \A p \in Payments : fate'[p] = "recorded" => fate[p] = "recorded"
  BY <1>2
<1>6. RecordedWasCharged'
  <2> SUFFICES ASSUME NEW h \in Gateways, NEW p \in recorded'[h]
               PROVE  /\ fate'[p] = "recorded" /\ p \in charged'[h]
                      /\ \A k \in Gateways : p \in recorded'[k] => k = h
    BY DEF RecordedWasCharged
  <2>1. h # g /\ p \in recorded[h] /\ p \in Payments
    BY <1>2 DEF IInv, TypeOK
  <2>2. p \notin recorded[g]
    BY <2>1 DEF IInv, RecordedWasCharged
  <2> QED
    BY <2>1, <2>2, <1>2 DEF IInv, RecordedWasCharged
<1>7. Accounted'
  BY <1>2 DEF IInv, TypeOK, Accounted, HasAnswer, Unsaved
<1>8. LateIsUnanswered' /\ LostAtTheEnd' /\ Faultless' /\ ChargedTwiceOnlyUnanswered'
  BY DEF IInv, LateIsUnanswered, LostAtTheEnd, Faultless, ChargedTwiceOnlyUnanswered
<1> QED
  BY <1>1, <1>3, <1>4, <1>6, <1>7, <1>8 DEF IInv

LEMMA PurgeDatabaseKeeps ==
  ASSUME IInv, PurgeDefault \/ PurgeFallback
  PROVE  IInv'
<1>1. PICK g \in Gateways, next \in {"fallback", "queue"} :
        PurgeDatabase(g, next) /\ purges' \in 0..MaxPurges
  BY BoundAssumption DEF PurgeDefault, PurgeFallback, Gateways, IInv, TypeOK
<1>2. CASE UNCHANGED <<recorded, fate>>
  <2>1. TypeOK'
    BY <1>1, <1>2 DEF PurgeDatabase, serverVars, workerVars, wireVars, IInv, TypeOK
  <2>2. HandAndPc' /\ Faultless'
    BY <1>1 DEF PurgeDatabase, workerVars, wireVars, IInv, HandAndPc, Faultless
  <2> QED
    BY <1>1, <1>2, <2>1, <2>2, QuietStep DEF PurgeDatabase, serverVars, workerVars, wireVars
<1>3. CASE recorded' = [recorded EXCEPT ![g] = {}] /\ Forget(recorded[g]) /\ purge' = next
  <2>1. TypeOK'
    BY <1>1, <1>3 DEF PurgeDatabase, serverVars, workerVars, wireVars, Forget, Fates, IInv, TypeOK
  <2> QED
    BY <1>1, <1>3, <2>1, DropKeeps DEF PurgeDatabase, serverVars
<1> QED
  BY <1>1, <1>2, <1>3 DEF PurgeDatabase

LEMMA PurgeQueueKeeps == ASSUME IInv, PurgeQueue PROVE IInv'
<1> USE DEF PurgeQueue, Forget, workerVars, wireVars
<1>1. TypeOK'
  BY DEF IInv, TypeOK, Fates
<1>2. HandAndPc' /\ EachInOnePlace'
  BY NoneAssumption DEF IInv, TypeOK, HandAndPc, EachInOnePlace
<1>3. Unsent' /\ SentIsNotCancelled'
  BY DEF IInv, TypeOK, Unsent, SentIsNotCancelled
<1>4. RecordedWasCharged'
  BY DEF IInv, TypeOK, RecordedWasCharged, Unsent
<1>5. Accounted'
  BY DEF IInv, TypeOK, Accounted, HasAnswer, Unsaved
<1>6. LateIsUnanswered' /\ LostAtTheEnd' /\ Faultless' /\ ChargedTwiceOnlyUnanswered'
  BY DEF IInv, LateIsUnanswered, LostAtTheEnd, Faultless, ChargedTwiceOnlyUnanswered
<1> QED
  BY <1>1, <1>2, <1>3, <1>4, <1>5, <1>6 DEF IInv

-----------------------------------------------------------------------------
(* The workers.                                                            *)

LEMMA DequeueKeeps ==
  ASSUME IInv, NEW w \in Workers, NEW p \in Payments, Dequeue(w, p)
  PROVE  IInv'
<1> USE DEF Dequeue, Goto, wireVars, bookVars, purgeVars
<1>1. TypeOK'
  BY DEF IInv, TypeOK, Places
<1>2. answer[w] = "none" /\ payment[w] = None
  BY DEF IInv, TypeOK, HandAndPc
<1>3. HandAndPc'
  BY <1>2, NoneAssumption DEF IInv, TypeOK, HandAndPc
<1>4. EachInOnePlace'
  BY <1>2, NoneAssumption DEF IInv, TypeOK, EachInOnePlace
<1>5. Unsent' /\ RecordedWasCharged' /\ SentIsNotCancelled' /\ LateIsUnanswered'
  BY DEF IInv, Unsent, RecordedWasCharged, SentIsNotCancelled, LateIsUnanswered
<1>6. Accounted'
  BY <1>2 DEF IInv, TypeOK, Accounted, HasAnswer, Unsaved
<1>7. LostAtTheEnd' /\ Faultless' /\ ChargedTwiceOnlyUnanswered'
  BY DEF IInv, TypeOK, LostAtTheEnd, Faultless, ChargedTwiceOnlyUnanswered
<1> QED
  BY <1>1, <1>3, <1>4, <1>5, <1>6, <1>7 DEF IInv

LEMMA NoAnswerKeeps == ASSUME IInv, NEW w \in Workers, NoAnswer(w) PROVE IInv'
<1> USE DEF NoAnswer, TryAgain, Goto, Request, serverVars, purgeVars
<1>1. /\ payment[w] \in Payments /\ fate[payment[w]] = "live"
      /\ payment[w] \notin pending /\ gateway[w] \in Gateways
  BY InHand DEF IInv, TypeOK
<1>2. TypeOK'
  BY <1>1 DEF IInv, TypeOK, Places, Gateways
<1>3. HandAndPc' /\ EachInOnePlace'
  BY DEF IInv, TypeOK, HandAndPc, EachInOnePlace
<1>4. unanswered \subseteq unanswered' /\ unanswered' \subseteq unanswered \cup {payment[w]}
  OBVIOUS
<1>5. Unsent' /\ RecordedWasCharged' /\ SentIsNotCancelled'
  BY <1>1, <1>4 DEF IInv, Unsent, RecordedWasCharged, SentIsNotCancelled
<1>6. LateIsUnanswered'
  BY <1>4 DEF IInv, LateIsUnanswered
<1>7. answer[w] = "ok" => payment[w] \in unanswered'
  BY DEF IInv, HandAndPc
<1>8. Accounted'
  BY <1>4, <1>7 DEF IInv, TypeOK, Accounted, HasAnswer, Unsaved
<1>9. LostAtTheEnd' /\ Faultless' /\ ChargedTwiceOnlyUnanswered'
  BY <1>4 DEF IInv, LostAtTheEnd, Faultless, ChargedTwiceOnlyUnanswered
<1> QED
  BY <1>2, <1>3, <1>5, <1>6, <1>8, <1>9 DEF IInv

LEMMA BackToLoopTypes ==
  ASSUME IInv, NEW w \in Workers, BackToLoop(w)
  PROVE  /\ pc' \in [Workers -> Places] /\ payment' \in [Workers -> Payments \cup {None}]
         /\ gateway' \in [Workers -> Gateways]
         /\ answer' \in [Workers -> {"none", "ok", "error", "refused"}]
BY DEF BackToLoop, Goto, Places, Gateways, IInv, TypeOK

\* The end of processPayment: the payment leaves the worker.
LEMMA HandEmptied ==
  ASSUME IInv, NEW w \in Workers, pc[w] \in {"wait", "record"}, BackToLoop(w),
         NEW f \in Fates \ {"live", "new"}, fate' = [fate EXCEPT ![payment[w]] = f],
         UNCHANGED <<pending, charged, unanswered, late>>
  PROVE  /\ HandAndPc' /\ EachInOnePlace' /\ Unsent' /\ LateIsUnanswered'
         /\ LostAtTheEnd' /\ Faultless' /\ ChargedTwiceOnlyUnanswered'
<1> USE DEF BackToLoop, Goto
<1>1. /\ payment[w] \in Payments /\ fate[payment[w]] = "live"
      /\ payment[w] \notin pending
      /\ \A v \in Workers : payment[v] = payment[w] => v = w
  BY InHand
<1>2. HandAndPc'
  BY DEF IInv, TypeOK, HandAndPc
<1>3. \A p \in Payments : fate'[p] = IF p = payment[w] THEN f ELSE fate[p]
  BY <1>1 DEF IInv, TypeOK
<1>4. \A v \in Workers : payment'[v] = IF v = w THEN None ELSE payment[v]
  BY DEF IInv, TypeOK
<1>5. EachInOnePlace'
  BY <1>1, <1>3, <1>4, NoneAssumption DEF IInv, EachInOnePlace
<1>6. Unsent' /\ LateIsUnanswered'
  BY <1>1, <1>3 DEF IInv, Unsent, LateIsUnanswered
<1>7. LostAtTheEnd' /\ Faultless' /\ ChargedTwiceOnlyUnanswered'
  BY DEF IInv, TypeOK, LostAtTheEnd, Faultless, ChargedTwiceOnlyUnanswered
<1> QED
  BY <1>2, <1>5, <1>6, <1>7

LEMMA ReadRefusalKeeps == ASSUME IInv, NEW w \in Workers, ReadRefusal(w) PROVE IInv'
<1> USE DEF ReadRefusal
<1>1. /\ payment[w] \in Payments /\ fate[payment[w]] = "live"
      /\ payment[w] \notin pending
  BY InHand
<1>2. fate' = [fate EXCEPT ![payment[w]] = "refused"] /\ "refused" \in Fates \ {"live", "new"}
  BY DEF Fates
<1>3. TypeOK'
  <2>1. currentGateway' \in Gateways
    BY DEF Other, Gateways
  <2> QED
    BY <1>2, <2>1, BackToLoopTypes DEF serverVars, wireVars, purgeVars, IInv, TypeOK
<1>4. /\ HandAndPc' /\ EachInOnePlace' /\ Unsent' /\ LateIsUnanswered'
      /\ LostAtTheEnd' /\ Faultless' /\ ChargedTwiceOnlyUnanswered'
  BY <1>2, HandEmptied DEF serverVars, wireVars
<1>5. RecordedWasCharged' /\ SentIsNotCancelled'
  BY <1>1 DEF wireVars, IInv, TypeOK, RecordedWasCharged, SentIsNotCancelled
<1>6. Accounted'
  BY <1>1 DEF BackToLoop, Goto, wireVars, IInv, TypeOK, Accounted, HasAnswer, Unsaved
<1> QED
  BY <1>3, <1>4, <1>5, <1>6 DEF IInv

LEMMA RecordKeeps == ASSUME IInv, NEW w \in Workers, Record(w) PROVE IInv'
<1> USE DEF Record
<1>1. /\ payment[w] \in Payments /\ fate[payment[w]] = "live"
      /\ payment[w] \notin pending /\ gateway[w] \in Gateways
      /\ payment[w] \in charged[gateway[w]]
      /\ \A g \in Gateways : payment[w] \notin recorded[g]
  BY InHand DEF IInv, TypeOK, HandAndPc, RecordedWasCharged
<1>2. fate' = [fate EXCEPT ![payment[w]] = "recorded"] /\ "recorded" \in Fates \ {"live", "new"}
  BY DEF Fates
<1>3. TypeOK'
  BY <1>1, <1>2, BackToLoopTypes DEF serverVars, wireVars, purgeVars, IInv, TypeOK
<1>4. /\ HandAndPc' /\ EachInOnePlace' /\ Unsent' /\ LateIsUnanswered'
      /\ LostAtTheEnd' /\ Faultless' /\ ChargedTwiceOnlyUnanswered'
  BY <1>2, HandEmptied DEF serverVars, wireVars
<1>5. RecordedWasCharged' /\ SentIsNotCancelled'
  BY <1>1 DEF wireVars, IInv, TypeOK, RecordedWasCharged, SentIsNotCancelled
<1>6. Accounted'
  BY <1>1 DEF BackToLoop, Goto, wireVars, IInv, TypeOK, Accounted, HasAnswer, Unsaved
<1> QED
  BY <1>3, <1>4, <1>5, <1>6 DEF IInv

LEMMA RecordNotCommittedKeeps ==
  ASSUME IInv, NEW w \in Workers, RecordNotCommitted(w)
  PROVE  IInv'
<1> USE DEF RecordNotCommitted
<1>1. /\ payment[w] \in Payments /\ fate[payment[w]] = "live"
      /\ payment[w] \notin pending
  BY InHand
<1>2. fate' = [fate EXCEPT ![payment[w]] = "unsaved"] /\ "unsaved" \in Fates \ {"live", "new"}
  BY DEF Fates
<1>3. TypeOK'
  <2>1. fate' \in [Payments -> Fates]
    BY <1>2 DEF IInv, TypeOK
  <2> QED
    BY <2>1, BackToLoopTypes DEF serverVars, wireVars, purgeVars, IInv, TypeOK
<1>4. /\ HandAndPc' /\ EachInOnePlace' /\ Unsent' /\ LateIsUnanswered'
      /\ LostAtTheEnd' /\ Faultless' /\ ChargedTwiceOnlyUnanswered'
  BY <1>2, HandEmptied DEF serverVars, wireVars
<1>5. RecordedWasCharged' /\ SentIsNotCancelled'
  BY <1>1 DEF wireVars, IInv, TypeOK, RecordedWasCharged, SentIsNotCancelled
<1>6. Accounted'
  BY <1>1 DEF BackToLoop, Goto, wireVars, IInv, TypeOK, Accounted, HasAnswer, Unsaved
<1> QED
  BY <1>3, <1>4, <1>5, <1>6 DEF IInv

\* The process terminates: what was live is lost, and what the workers were
\* waiting for becomes late requests of payments that have one each.
LEMMA RecordThrowsKeeps == ASSUME IInv, NEW w \in Workers, RecordThrows(w) PROVE IInv'
<1> DEFINE Waiting == {v \in Workers : pc[v] = "wait"}
           Asking  == {v \in Workers : pc[v] = "wait" /\ answer[v] = "none"}
<1>1. \A v \in Waiting : /\ payment[v] \in Payments /\ gateway[v] \in Gateways
                         /\ fate[payment[v]] = "live" /\ payment[v] \notin pending
  BY InHand DEF IInv, TypeOK
<1>2. /\ late' = late \cup {Request(v) : v \in Asking}
      /\ unanswered' = unanswered \cup {payment[v] : v \in Waiting}
      /\ pending' = {} /\ UNCHANGED <<charged, recorded>>
  BY DEF RecordThrows
<1>3. \A p \in Payments : fate'[p] = IF fate[p] = "live" THEN "lost" ELSE fate[p]
  BY DEF RecordThrows
<1>4. TypeOK'
  <2>1. {Request(v) : v \in Asking} \subseteq Payments \X Gateways
    BY <1>1 DEF Request
  <2>2. late' \subseteq Payments \X Gateways /\ unanswered' \subseteq Payments
    BY <1>1, <1>2, <2>1 DEF IInv, TypeOK
  <2>3. fate' \in [Payments -> Fates]
    BY DEF RecordThrows, Fates, IInv, TypeOK
  <2> QED
    BY <2>2, <2>3 DEF RecordThrows, Places, Gateways, IInv, TypeOK
<1>5. HandAndPc' /\ EachInOnePlace'
  BY <1>3, NoneAssumption DEF RecordThrows, IInv, TypeOK, HandAndPc, EachInOnePlace
<1>6. Unsent' /\ RecordedWasCharged' /\ SentIsNotCancelled'
  <2>1. ASSUME NEW p \in unanswered', p \notin unanswered
        PROVE  p \in Payments /\ fate'[p] = "lost"
    <3>1. PICK v \in Waiting : p = payment[v]
      BY <1>2, <2>1
    <3> QED
      BY <1>1, <1>3, <3>1
  <2> QED
    BY <1>2, <1>3, <2>1 DEF IInv, TypeOK, Unsent, RecordedWasCharged, SentIsNotCancelled
<1>7. Accounted'
  <2> SUFFICES ASSUME NEW g \in Gateways, NEW p \in charged[g]
               PROVE  \/ p \in unanswered'
                      \/ p \in recorded'[g] \/ fate'[p] = "purged" \/ Unsaved(p)'
    BY <1>2 DEF Accounted
  <2>1. p \in Payments
    BY DEF IInv, TypeOK
  <2>2. CASE fate[p] = "live"
    BY <1>3, <2>1, <2>2 DEF RecordThrows, Unsaved
  <2>3. CASE fate[p] # "live"
    <3>1. ~\E v \in Workers : HasAnswer(v, p, g)
      BY <2>3, InHand DEF HasAnswer, IInv, HandAndPc
    <3> QED
      BY <1>2, <1>3, <2>1, <2>3, <3>1 DEF IInv, Accounted, Unsaved
  <2> QED
    BY <2>2, <2>3
<1>8. LateIsUnanswered'
  BY <1>2 DEF IInv, LateIsUnanswered, Request
<1>9. LostAtTheEnd'
  <2> SUFFICES ASSUME "noAnswer" \notin Faults,
                      NEW p \in Payments, NEW g \in Gateways, <<p, g>> \in late'
               PROVE  /\ \A h \in Gateways : p \notin charged[h]
                      /\ \A h \in Gateways : <<p, h>> \in late' => h = g
    BY <1>2 DEF RecordThrows, LostAtTheEnd
  <2>1. unanswered = {} /\ \A h \in Gateways : <<p, h>> \notin late
    BY DEF RecordThrows, IInv, LostAtTheEnd, LateIsUnanswered
  <2>2. PICK v \in Asking : payment[v] = p /\ gateway[v] = g
    BY <1>2, <2>1 DEF Request
  <2>3. \A h \in Gateways : p \notin charged[h]
    BY <2>1, <2>2, Untried
  <2>4. ASSUME NEW h \in Gateways, <<p, h>> \in late' PROVE h = g
    <3>1. PICK u \in Asking : payment[u] = p /\ gateway[u] = h
      BY <1>2, <2>1, <2>4 DEF Request
    <3> QED
      BY <2>2, <3>1, InHand
  <2> QED
    BY <2>3, <2>4
<1>10. Faultless' /\ ChargedTwiceOnlyUnanswered'
  BY <1>2 DEF RecordThrows, IInv, Faultless, ChargedTwiceOnlyUnanswered
<1> QED
  BY <1>4, <1>5, <1>6, <1>7, <1>8, <1>9, <1>10 DEF IInv

-----------------------------------------------------------------------------
(* The gateways.                                                           *)

LEMMA GatewayAcceptsKeeps == ASSUME IInv, NEW w \in Workers, GatewayAccepts(w) PROVE IInv'
<1> USE DEF GatewayAccepts, serverVars, bookVars, purgeVars
<1>1. /\ payment[w] \in Payments /\ fate[payment[w]] = "live"
      /\ payment[w] \notin pending /\ gateway[w] \in Gateways
      /\ \A v \in Workers : payment[v] = payment[w] => v = w
  BY InHand DEF IInv, TypeOK
<1>2. /\ \A g \in Gateways : charged[g] \subseteq charged'[g]
      /\ \A g \in Gateways : \A p \in charged'[g] :
           p \in charged[g] \/ (p = payment[w] /\ g = gateway[w])
      /\ payment[w] \in charged'[gateway[w]]
  <2>1. \A g \in Gateways : charged'[g] = IF g = gateway[w] THEN charged[g] \cup {payment[w]} ELSE charged[g]
    BY <1>1 DEF IInv, TypeOK
  <2>2. \A g \in Gateways : charged[g] \subseteq charged'[g]
    BY <2>1
  <2>3. ASSUME NEW g \in Gateways, NEW p \in charged'[g], p \notin charged[g]
        PROVE  p = payment[w] /\ g = gateway[w]
    <3>1. CASE g = gateway[w]
      BY <2>1, <2>3, <3>1
    <3>2. CASE g # gateway[w]
      BY <2>1, <2>3, <3>2
    <3> QED
      BY <3>1, <3>2
  <2>4. payment[w] \in charged'[gateway[w]]
    BY <1>1, <2>1
  <2> QED
    BY <2>2, <2>3, <2>4
<1>3. payment[w] \in unanswered \/ \A g \in Gateways : payment[w] \notin charged[g]
  BY Untried
<1>4. TypeOK'
  BY <1>1 DEF IInv, TypeOK
<1>5. HandAndPc' /\ EachInOnePlace'
  BY <1>1, <1>2 DEF IInv, TypeOK, HandAndPc, EachInOnePlace
<1>6. Unsent' /\ RecordedWasCharged' /\ SentIsNotCancelled' /\ LateIsUnanswered'
  BY <1>1, <1>2 DEF IInv, Unsent, RecordedWasCharged, SentIsNotCancelled, LateIsUnanswered
<1>7. Accounted'
  BY <1>1, <1>2 DEF IInv, TypeOK, Accounted, HasAnswer, Unsaved
<1>8. LostAtTheEnd'
  BY <1>2 DEF IInv, LostAtTheEnd, LateIsUnanswered
<1>9. Faultless'
  BY DEF IInv, TypeOK, Faultless
<1>10. ChargedTwiceOnlyUnanswered'
  BY <1>2, <1>3 DEF IInv, ChargedTwiceOnlyUnanswered, Gateways
<1> QED
  BY <1>4, <1>5, <1>6, <1>7, <1>8, <1>9, <1>10 DEF IInv

LEMMA LateRequestKeeps ==
  ASSUME IInv, NEW r \in Payments \X Gateways, LateRequest(r)
  PROVE  IInv'
<1> USE DEF LateRequest, serverVars, workerVars, bookVars, purgeVars
<1>1. PICK p \in Payments, g \in Gateways : r = <<p, g>>
  OBVIOUS
<1>2. /\ p \in unanswered /\ late' = late \ {<<p, g>>}
      /\ charged' = [charged EXCEPT ![g] = @ \cup {p}] \/ UNCHANGED charged
  BY <1>1 DEF IInv, LateIsUnanswered
<1>3. /\ \A h \in Gateways : charged[h] \subseteq charged'[h]
      /\ \A h \in Gateways : \A q \in charged'[h] : q \in charged[h] \/ q = p
  BY <1>2 DEF IInv, TypeOK
<1>4. TypeOK'
  BY <1>2 DEF IInv, TypeOK
<1>5. HandAndPc' /\ EachInOnePlace'
  BY <1>3 DEF IInv, TypeOK, HandAndPc, EachInOnePlace
<1>6. Unsent' /\ RecordedWasCharged' /\ SentIsNotCancelled' /\ LateIsUnanswered'
  BY <1>2, <1>3 DEF IInv, Unsent, RecordedWasCharged, SentIsNotCancelled, LateIsUnanswered
<1>7. Accounted'
  BY <1>2, <1>3 DEF IInv, Accounted, HasAnswer, Unsaved
<1>8. LostAtTheEnd'
  BY <1>1, <1>2, <1>3 DEF IInv, LostAtTheEnd
<1>9. Faultless'
  BY DEF IInv, Faultless
<1>10. ChargedTwiceOnlyUnanswered'
  BY <1>2, <1>3 DEF IInv, ChargedTwiceOnlyUnanswered, Gateways
<1> QED
  BY <1>4, <1>5, <1>6, <1>7, <1>8, <1>9, <1>10 DEF IInv

-----------------------------------------------------------------------------

LEMMA NextIInv == IInv /\ [Next]_vars => IInv'
<1> SUFFICES ASSUME IInv, [Next]_vars PROVE IInv'
  OBVIOUS
<1>1. ASSUME Server PROVE IInv'
  BY <1>1, PostPaymentKeeps, PurgeDatabaseKeeps, PurgeQueueKeeps, OtherThreadsKeep
     DEF Server, Purge
<1>2. ASSUME NEW w \in Workers, Work(w) PROVE IInv'
  BY <1>2, WorkKeeps, DequeueKeeps, ReadRefusalKeeps, RecordKeeps DEF Work
<1>3. ASSUME NEW w \in Workers, Fails(w) PROVE IInv'
  BY <1>3, NoAnswerKeeps, RecordNotCommittedKeeps, RecordThrowsKeeps DEF Fails
<1>4. ASSUME NEW w \in Workers, Gateway(w) PROVE IInv'
  BY <1>4, GatewayAcceptsKeeps, WorkKeeps, GatewayRefusesKeeps DEF Gateway
<1> QED
  BY <1>1, <1>2, <1>3, <1>4, LateRequestKeeps, OtherThreadsKeep DEF Next

\* The inductive invariant of an instance of haproxy.
THEOREM Invariance == Spec => []IInv
BY InitIInv, NextIInv, PTL DEF Spec

\* Types, for any payments, workers, purges and faults.
THEOREM Typing == Spec => []TypeOK
<1>1. IInv => TypeOK
  BY DEF IInv
<1> QED
  BY <1>1, Invariance, PTL

\* PaymentProcessor's retries charge a payment twice only after a lost answer.
THEOREM ChargedTwiceOnlyUnansweredTheorem == Spec => []ChargedTwiceOnlyUnanswered
<1>1. IInv => ChargedTwiceOnlyUnanswered
  BY DEF IInv
<1> QED
  BY <1>1, Invariance, PTL

\* A charge that is not in the database is about to be, was purged, or is lost
\* for want of an answer or by the database; not because the program finishes.
THEOREM ChargeAccountedForTheorem == Spec => []ChargeAccountedFor
<1>1. IInv => ChargeAccountedFor
  <2> SUFFICES ASSUME IInv, NEW g \in Gateways, NEW p \in charged[g] \ recorded[g],
                      p \notin unanswered, fate[p] # "purged", ~Unsaved(p)
               PROVE  \E w \in Workers : /\ payment[w] = p /\ gateway[w] = g
                                         /\ pc[w] \in {"wait", "record"}
    BY DEF ChargeAccountedFor, Unsaved
  <2>1. PICK w \in Workers : HasAnswer(w, p, g)
    BY DEF IInv, Accounted
  <2> QED
    BY <2>1 DEF HasAnswer, IInv, HandAndPc
<1> QED
  BY <1>1, Invariance, PTL

\* A live payment is in the queue or in the hands of exactly one worker.
THEOREM EachInOnePlaceTheorem == Spec => []EachInOnePlace
<1>1. IInv => EachInOnePlace
  BY DEF IInv
<1> QED
  BY <1>1, Invariance, PTL

-----------------------------------------------------------------------------
(* The refinement: most steps leave the ledger alone, each of the others   *)
(* maps to one step of it.                                                 *)

LEMMA SameStatus ==
  ASSUME UNCHANGED <<fate, charged>>
  PROVE  UNCHANGED LedgerStatus
BY DEF LedgerStatus

\* Ledger!Become for some payments that were not purged, and are not now.
LEMMA SomeBecome ==
  ASSUME NEW ps \in SUBSET Payments, NEW f \in {"live", "recorded", "refused", "unsaved", "lost"},
         fate' = [p \in Payments |-> IF p \in ps THEN f ELSE fate[p]], UNCHANGED charged
  PROVE  Ledger!Become(ps, IF f \in {"refused", "unsaved"} THEN "lost" ELSE f)
<1>1. \A p \in Payments : fate'[p] = IF p \in ps THEN f ELSE fate[p]
  OBVIOUS
<1>2. \A p \in ps : LedgerStatus'[p] = IF f \in {"refused", "unsaved"} THEN "lost" ELSE f
  BY <1>1 DEF LedgerStatus
<1>3. \A p \in Payments : p \notin ps => LedgerStatus'[p] = LedgerStatus[p]
  BY <1>1 DEF LedgerStatus
<1>4. LedgerStatus' = [p \in Payments |-> LedgerStatus'[p]]
  BY DEF LedgerStatus
<1> QED
  BY <1>2, <1>3, <1>4 DEF Ledger!Become

LEMMA OneBecomes ==
  ASSUME IInv, NEW p \in Payments, NEW f \in {"live", "recorded", "refused", "unsaved"},
         fate' = [fate EXCEPT ![p] = f], UNCHANGED charged
  PROVE  Ledger!Become({p}, IF f \in {"refused", "unsaved"} THEN "lost" ELSE f)
<1>1. fate' = [q \in Payments |-> IF q \in {p} THEN f ELSE fate[q]]
  BY DEF IInv, TypeOK
<1> QED
  BY <1>1, SomeBecome

LEMMA PostPosts == ASSUME IInv, NEW p \in Payments, PostPayment(p) PROVE Ledger!Post(p)
<1>1. fate[p] = "new" /\ fate' = [fate EXCEPT ![p] = "live"] /\ UNCHANGED <<charged, recorded>>
  BY DEF PostPayment, wireVars
<1>2. LedgerStatus[p] = "new"
  BY <1>1 DEF LedgerStatus
<1>3. Ledger!Become({p}, "live")
  BY <1>1, OneBecomes
<1> QED
  BY <1>1, <1>2, <1>3 DEF Ledger!Post

\* A charge of a payment that was sent, the first one unless answers get lost.
LEMMA ChargeCharges ==
  ASSUME IInv, NEW p \in Payments, NEW g \in Gateways,
         charged' = [charged EXCEPT ![g] = @ \cup {p}], UNCHANGED <<fate, recorded>>,
         fate[p] # "new", fate[p] = "purged" => \E h \in Gateways : p \in charged[h],
         "noAnswer" \in Faults \/ \A h \in Gateways : p \notin charged[h]
  PROVE  Ledger!Charge(p, g)
<1>1. LedgerStatus[p] \notin {"new", "cancelled"}
  BY DEF LedgerStatus, IInv, TypeOK, Fates
<1>2. \A q \in Payments : q # p => \A h \in Gateways : q \in charged'[h] <=> q \in charged[h]
  BY DEF IInv, TypeOK
<1>3. \A h \in Gateways : p \in charged[h] => p \in charged'[h]
  BY DEF IInv, TypeOK
<1>4. \A q \in Payments : LedgerStatus'[q] = LedgerStatus[q]
  BY <1>2, <1>3 DEF LedgerStatus
<1>5. /\ LedgerStatus' = [q \in Payments |-> LedgerStatus'[q]]
      /\ LedgerStatus = [q \in Payments |-> LedgerStatus[q]]
  BY DEF LedgerStatus
<1>6. UNCHANGED LedgerStatus
  BY <1>4, <1>5
<1> QED
  BY <1>1, <1>6 DEF Ledger!Charge, Ledger!Charged

LEMMA AcceptCharges ==
  ASSUME IInv, NEW w \in Workers, GatewayAccepts(w)
  PROVE  /\ payment[w] \in Payments /\ gateway[w] \in Gateways
         /\ Ledger!Charge(payment[w], gateway[w])
<1>1. payment[w] \in Payments /\ gateway[w] \in Gateways /\ fate[payment[w]] = "live"
  BY InHand DEF GatewayAccepts, IInv, TypeOK
<1>2. "noAnswer" \in Faults \/ \A h \in Gateways : payment[w] \notin charged[h]
  BY Untried DEF GatewayAccepts, IInv, LostAtTheEnd
<1>3. /\ charged' = [charged EXCEPT ![gateway[w]] = @ \cup {payment[w]}]
      /\ UNCHANGED <<fate, recorded>>
  BY DEF GatewayAccepts, bookVars
<1>4. fate[payment[w]] # "new" /\ fate[payment[w]] # "purged"
  BY <1>1
<1> QED
  BY <1>1, <1>2, <1>3, <1>4, ChargeCharges

LEMMA LateCharges ==
  ASSUME IInv, NEW p \in Payments, NEW g \in Gateways, LateRequest(<<p, g>>)
  PROVE  Ledger!Charge(p, g) \/ UNCHANGED <<fate, charged, recorded>>
<1>1. <<p, g>> \in late /\ p \in unanswered /\ UNCHANGED <<fate, recorded>>
  BY DEF LateRequest, bookVars, IInv, LateIsUnanswered
<1>2. fate[p] # "new" /\ (fate[p] = "purged" => \E h \in Gateways : p \in charged[h])
  BY <1>1 DEF IInv, Unsent, SentIsNotCancelled
<1>3. "noAnswer" \in Faults \/ \A h \in Gateways : p \notin charged[h]
  BY <1>1 DEF IInv, LostAtTheEnd
<1>4. CASE charged' = [charged EXCEPT ![g] = @ \cup {p}]
  BY <1>1, <1>2, <1>3, <1>4, ChargeCharges
<1>5. CASE UNCHANGED charged
  BY <1>1, <1>5
<1> QED
  BY <1>4, <1>5 DEF LateRequest

LEMMA RecordRecords ==
  ASSUME IInv, NEW w \in Workers, Record(w)
  PROVE  /\ payment[w] \in Payments /\ gateway[w] \in Gateways
         /\ Ledger!Record(payment[w], gateway[w])
<1>1. payment[w] \in Payments /\ gateway[w] \in Gateways /\ fate[payment[w]] = "live"
  BY InHand DEF Record, IInv, TypeOK
<1>2. payment[w] \in charged[gateway[w]]
  BY DEF Record, IInv, HandAndPc
<1>3. LedgerStatus[payment[w]] = "live"
  BY <1>1 DEF LedgerStatus
<1>4. Ledger!Become({payment[w]}, "recorded")
  BY <1>1, OneBecomes DEF Record, wireVars
<1> QED
  BY <1>1, <1>2, <1>3, <1>4 DEF Record, wireVars, Ledger!Record

\* A refused payment, or one the database did not keep, is given up; there was
\* a fault.
LEMMA EndGivesUp ==
  ASSUME IInv, NEW w \in Workers, ReadRefusal(w) \/ RecordNotCommitted(w)
  PROVE  {payment[w]} \in SUBSET Payments /\ Ledger!GiveUp({payment[w]})
<1>1. payment[w] \in Payments /\ fate[payment[w]] = "live"
  BY InHand DEF ReadRefusal, RecordNotCommitted
<1>2. LedgerStatus[payment[w]] = "live"
  BY <1>1 DEF LedgerStatus
<1>3. Faults # {}
  BY DEF ReadRefusal, RecordNotCommitted, IInv, Faultless
<1>4. /\ UNCHANGED <<charged, recorded>>
      /\ \/ fate' = [fate EXCEPT ![payment[w]] = "refused"]
         \/ fate' = [fate EXCEPT ![payment[w]] = "unsaved"]
  BY DEF ReadRefusal, RecordNotCommitted, wireVars
<1>5. Ledger!Become({payment[w]}, "lost")
  BY <1>1, <1>4, OneBecomes
<1> QED
  BY <1>1, <1>2, <1>3, <1>4, <1>5 DEF Ledger!GiveUp

\* The process that terminates gives up all that was live.
LEMMA ThrowGivesUp ==
  ASSUME IInv, NEW w \in Workers, RecordThrows(w)
  PROVE  Ledger!GiveUp({p \in Payments : fate[p] = "live"})
<1> DEFINE Live == {p \in Payments : fate[p] = "live"}
<1>1. fate' = [p \in Payments |-> IF p \in Live THEN "lost" ELSE fate[p]]
  BY DEF RecordThrows
<1>2. Live \in SUBSET Payments /\ UNCHANGED <<charged, recorded>> /\ Faults # {}
  BY DEF RecordThrows
<1>3. Ledger!Become(Live, "lost")
  BY <1>1, <1>2, SomeBecome
<1>4. \A p \in Live : LedgerStatus[p] = "live"
  BY DEF LedgerStatus
<1> QED
  BY <1>2, <1>3, <1>4 DEF Ledger!GiveUp

\* A purge erases what a database held ...
LEMMA DropErases ==
  ASSUME IInv, NEW g \in Gateways, recorded' = [recorded EXCEPT ![g] = {}],
         Forget(recorded[g]), UNCHANGED charged
  PROVE  Ledger!Erase(g)
<1>1. fate' = [p \in Payments |-> IF p \in recorded[g] THEN "purged" ELSE fate[p]]
  BY DEF Forget
<1>2. \A p \in recorded[g] : p \in Payments /\ p \in charged[g]
  BY DEF IInv, TypeOK, RecordedWasCharged
<1>3. \A p \in recorded[g] : LedgerStatus'[p] = "erased"
  BY <1>1, <1>2 DEF LedgerStatus
<1>4. \A p \in Payments : p \notin recorded[g] => LedgerStatus'[p] = LedgerStatus[p]
  BY <1>1 DEF LedgerStatus
<1>5. LedgerStatus' = [p \in Payments |-> LedgerStatus'[p]]
  BY DEF LedgerStatus
<1> QED
  BY <1>2, <1>3, <1>4, <1>5 DEF Ledger!Erase, Ledger!Become

\* ... and cancels what was in the queue, of which no gateway has heard.
LEMMA PurgeQueueCancels == ASSUME IInv, PurgeQueue PROVE Ledger!Cancel(pending)
<1>1. \A p \in pending : /\ p \in Payments /\ fate[p] = "live"
                         /\ \A g \in Gateways : p \notin charged[g]
  BY DEF IInv, TypeOK, EachInOnePlace, Unsent
<1>2. /\ fate' = [p \in Payments |-> IF p \in pending THEN "purged" ELSE fate[p]]
      /\ UNCHANGED <<charged, recorded>>
  BY DEF PurgeQueue, Forget, wireVars
<1>3. \A p \in pending : LedgerStatus[p] = "live" /\ LedgerStatus'[p] = "cancelled"
  BY <1>1, <1>2 DEF LedgerStatus
<1>4. \A p \in Payments : p \notin pending => LedgerStatus'[p] = LedgerStatus[p]
  BY <1>2 DEF LedgerStatus
<1>5. LedgerStatus' = [p \in Payments |-> LedgerStatus'[p]]
  BY DEF LedgerStatus
<1> QED
  BY <1>1, <1>2, <1>3, <1>4, <1>5 DEF Ledger!Cancel, Ledger!Become, Ledger!Charged

LEMMA InitLedger == Init => Ledger!Init
BY DEF Init, Ledger!Init, LedgerStatus

LEMMA NextLedger == IInv /\ [Next]_vars => [Ledger!Next]_(Ledger!vars)
<1> SUFFICES ASSUME IInv, [Next]_vars PROVE Ledger!Next \/ UNCHANGED Ledger!vars
  OBVIOUS
<1>1. CASE UNCHANGED <<fate, charged, recorded>>
  BY <1>1, SameStatus DEF Ledger!vars
<1>2. ASSUME NEW p \in Payments, PostPayment(p) PROVE Ledger!Next
  BY <1>2, PostPosts DEF Ledger!Next
<1>3. ASSUME PurgeDefault \/ PurgeFallback PROVE Ledger!Next \/ UNCHANGED Ledger!vars
  <2>1. PICK g \in Gateways, next \in {"fallback", "queue"} : PurgeDatabase(g, next)
    BY <1>3 DEF PurgeDefault, PurgeFallback, Gateways
  <2>2. UNCHANGED charged
    BY <2>1 DEF PurgeDatabase, wireVars
  <2>3. CASE recorded' = [recorded EXCEPT ![g] = {}] /\ Forget(recorded[g])
    BY <2>2, <2>3, DropErases DEF Ledger!Next
  <2>4. CASE UNCHANGED <<recorded, fate>>
    BY <1>1, <2>2, <2>4
  <2> QED
    BY <2>1, <2>3, <2>4 DEF PurgeDatabase
<1>4. ASSUME PurgeQueue PROVE Ledger!Next
  <2>1. pending \in SUBSET Payments
    BY DEF IInv, TypeOK
  <2> QED
    BY <1>4, <2>1, PurgeQueueCancels DEF Ledger!Next
<1>5. ASSUME Server PROVE Ledger!Next \/ UNCHANGED Ledger!vars
  <2>1. ASSUME StopServing \/ Finish PROVE UNCHANGED <<fate, charged, recorded>>
    BY <2>1 DEF StopServing, Finish, wireVars, bookVars
  <2> QED
    BY <1>1, <1>2, <1>3, <1>4, <1>5, <2>1 DEF Server, Purge
<1>6. ASSUME NEW w \in Workers, ReadRefusal(w) \/ RecordNotCommitted(w) PROVE Ledger!Next
  BY <1>6, EndGivesUp DEF Ledger!Next
<1>7. ASSUME NEW w \in Workers, RecordThrows(w) PROVE Ledger!Next
  <2>1. {p \in Payments : fate[p] = "live"} \in SUBSET Payments
    OBVIOUS
  <2> QED
    BY <1>7, <2>1, ThrowGivesUp DEF Ledger!Next
<1>8. ASSUME NEW w \in Workers, Record(w) PROVE Ledger!Next
  BY <1>8, RecordRecords DEF Ledger!Next
<1>9. ASSUME NEW w \in Workers, GatewayAccepts(w) PROVE Ledger!Next
  BY <1>9, AcceptCharges DEF Ledger!Next
<1>10. ASSUME NEW w \in Workers, Work(w) \/ Fails(w) \/ Gateway(w)
       PROVE  \/ ReadRefusal(w) \/ RecordNotCommitted(w) \/ RecordThrows(w)
              \/ Record(w) \/ GatewayAccepts(w)
              \/ UNCHANGED <<fate, charged, recorded>>
  BY <1>10 DEF Work, Fails, Gateway, Loop, Dequeue, DequeueNothing, GetGateway, Send, ReadOk,
               ReadError, NoAnswer, GatewayFails, GatewayRefuses, wireVars, bookVars
<1>11. ASSUME NEW r \in Payments \X Gateways, LateRequest(r)
       PROVE  Ledger!Next \/ UNCHANGED Ledger!vars
  <2>1. PICK p \in Payments, g \in Gateways : r = <<p, g>>
    OBVIOUS
  <2> QED
    BY <1>1, <1>11, <2>1, LateCharges DEF Ledger!Next
<1>12. ASSUME (\E g \in Gateways : ChooserStores(g)) \/ UNCHANGED vars
       PROVE  UNCHANGED <<fate, charged, recorded>>
  BY <1>12 DEF ChooserStores, vars, wireVars, bookVars
<1> QED
  BY <1>1, <1>5, <1>6, <1>7, <1>8, <1>9, <1>10, <1>11, <1>12 DEF Next

\* An instance of haproxy implements PaymentLedger: whatever is retried, purged
\* or lost, a payment is recorded once, for a gateway that has charged it.
THEOREM ImplementsLedgerTheorem == Spec => ImplementsLedger
  BY InitLedger, NextLedger, Invariance, PTL DEF Spec, ImplementsLedger, Ledger!Spec

-----------------------------------------------------------------------------
(* What an implementation inherits: the ledger's own invariant.            *)

\* A payment is counted once, at a gateway that has charged it, while it is
\* recorded; one that was not posted yet is not charged.  (That a cancelled one
\* is not charged lies in the mapping; CancelledIsFinal says that it stays so.)
Books ==
  /\ charged \in [Gateways -> SUBSET Payments] /\ recorded \in [Gateways -> SUBSET Payments]
  /\ \A g \in Gateways : recorded[g] \subseteq charged[g]
  /\ recorded["default"] \cap recorded["fallback"] = {}
  /\ \A p \in Payments :
       /\ LedgerStatus[p] = "recorded" <=> \E g \in Gateways : p \in recorded[g]
       /\ LedgerStatus[p] \in {"new", "cancelled"} => ~Ledger!Charged(p)

LEMMA LedgerKeepsBooks == Books /\ [Ledger!Next]_(Ledger!vars) => Books'
<1> SUFFICES ASSUME Books, [Ledger!Next]_(Ledger!vars) PROVE Books'
  OBVIOUS
<1> USE DEF Books, Gateways
<1>1. ASSUME NEW p \in Payments, Ledger!Post(p) PROVE Books'
  BY <1>1 DEF Ledger!Post, Ledger!Become, Ledger!Charged
<1>2. ASSUME NEW p \in Payments, NEW g \in Gateways, Ledger!Charge(p, g) PROVE Books'
  BY <1>2 DEF Ledger!Charge, Ledger!Charged
<1>3. ASSUME NEW p \in Payments, NEW g \in Gateways, Ledger!Record(p, g) PROVE Books'
  BY <1>3 DEF Ledger!Record, Ledger!Become, Ledger!Charged
<1>4. ASSUME NEW ps \in SUBSET Payments, Ledger!GiveUp(ps) PROVE Books'
  BY <1>4 DEF Ledger!GiveUp, Ledger!Become, Ledger!Charged
<1>5. ASSUME NEW ps \in SUBSET Payments, Ledger!Cancel(ps) PROVE Books'
  BY <1>5 DEF Ledger!Cancel, Ledger!Become, Ledger!Charged
<1>6. ASSUME NEW g \in Gateways, Ledger!Erase(g) PROVE Books'
  BY <1>6 DEF Ledger!Erase, Ledger!Become, Ledger!Charged
<1>7. CASE UNCHANGED Ledger!vars
  BY <1>7 DEF Ledger!vars, Ledger!Charged
<1> QED
  BY <1>1, <1>2, <1>3, <1>4, <1>5, <1>6, <1>7 DEF Ledger!Next

\* An instance of haproxy never counts a payment twice, although it may charge
\* it twice, nor at a gateway that has not charged it, however often anything is
\* retried and whatever is purged in between (PaymentProcessor::processPayment,
\* PaymentService::purge).  This is proved of the ledger, and the instance has
\* it since it implements it.
THEOREM BooksAreKept == Spec => []Books
<1>1. Ledger!Init => Books
  BY DEF Ledger!Init, Books, Ledger!Charged, Gateways
<1> QED
  BY <1>1, LedgerKeepsBooks, ImplementsLedgerTheorem, PTL DEF ImplementsLedger, Ledger!Spec

CancelledStays ==
  \A p \in Payments : LedgerStatus[p] = "cancelled" => LedgerStatus'[p] = "cancelled"

\* What a purge has taken from the queue before it was charged is never charged
\* afterwards: no worker has it in hand, and no retry comes back to it.
THEOREM CancelledIsFinal == Spec => [][CancelledStays]_vars
<1>1. Books /\ [Ledger!Next]_(Ledger!vars) => [CancelledStays]_vars
  <2> SUFFICES ASSUME Books, [Ledger!Next]_(Ledger!vars), NEW p \in Payments,
                      LedgerStatus[p] = "cancelled"
               PROVE  LedgerStatus'[p] = "cancelled"
    BY DEF CancelledStays
  <2>1. ASSUME NEW ps \in SUBSET Payments, NEW s, p \notin ps, Ledger!Become(ps, s)
        PROVE  LedgerStatus'[p] = "cancelled"
    BY <2>1 DEF Ledger!Become
  <2>2. \A g \in Gateways : recorded[g] \in SUBSET Payments /\ p \notin recorded[g]
    BY DEF Books, Gateways
  <2>3. \A q \in Payments : Ledger!Post(q) => LedgerStatus'[p] = "cancelled"
    BY <2>1 DEF Ledger!Post
  <2>4. \A q \in Payments, g \in Gateways :
          Ledger!Charge(q, g) \/ Ledger!Record(q, g) => LedgerStatus'[p] = "cancelled"
    BY <2>1 DEF Ledger!Charge, Ledger!Record
  <2>5. \A ps \in SUBSET Payments :
          Ledger!GiveUp(ps) \/ Ledger!Cancel(ps) => LedgerStatus'[p] = "cancelled"
    BY <2>1 DEF Ledger!GiveUp, Ledger!Cancel
  <2>6. \A g \in Gateways : Ledger!Erase(g) => LedgerStatus'[p] = "cancelled"
    BY <2>1, <2>2 DEF Ledger!Erase
  <2>7. UNCHANGED Ledger!vars => LedgerStatus'[p] = "cancelled"
    BY DEF Ledger!vars
  <2> QED
    BY <2>3, <2>4, <2>5, <2>6, <2>7 DEF Ledger!Next
<1> QED
  BY <1>1, BooksAreKept, ImplementsLedgerTheorem, PTL DEF ImplementsLedger, Ledger!Spec
=============================================================================
